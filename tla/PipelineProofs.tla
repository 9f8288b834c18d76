--------------------------- MODULE PipelineProofs ---------------------------
(* Proofs about Pipeline: its types, and what has become of each request.  *)
EXTENDS Pipeline, SequenceTheorems, TLAPS

USE DEF transfers, client, scanner, At, Goto, Workers, Uploader, Downloader, NoFile, Free

Elements(s) == {s[i] : i \in DOMAIN s}

\* What queue_push adds, and what queue_try_pop takes away.
LEMMA AppendElements ==
  ASSUME NEW S, NEW s \in Seq(S), NEW e \in S
  PROVE  /\ Append(s, e) \in Seq(S)
         /\ Len(Append(s, e)) = Len(s) + 1
         /\ Elements(Append(s, e)) = Elements(s) \cup {e}
<1>1. DOMAIN s = 1..Len(s) /\ DOMAIN Append(s, e) = 1..Len(s) + 1 /\ Len(s) \in Nat
  OBVIOUS
<1>2. \A i \in 1..Len(s) : Append(s, e)[i] = s[i]
  OBVIOUS
<1>3. Append(s, e)[Len(s) + 1] = e
  OBVIOUS
<1>4. Elements(Append(s, e)) = Elements(s) \cup {e}
  BY <1>1, <1>2, <1>3 DEF Elements
<1>5. QED
  BY <1>1, <1>4

LEMMA TailElements ==
  ASSUME NEW S, NEW s \in Seq(S), s # <<>>
  PROVE  /\ Head(s) \in S /\ Tail(s) \in Seq(S)
         /\ Len(Tail(s)) = Len(s) - 1
         /\ Elements(s) \subseteq Elements(Tail(s)) \cup {Head(s)}
<1>1. /\ Head(s) \in S /\ Tail(s) \in Seq(S) /\ Len(Tail(s)) = Len(s) - 1
      /\ \A i \in 1..Len(Tail(s)) : Tail(s)[i] = s[i + 1]
  BY HeadTailProperties
<1>2. DOMAIN s = 1..Len(s) /\ DOMAIN Tail(s) = 1..Len(s) - 1 /\ Len(s) \in Nat
  BY <1>1, LenProperties
<1>3. \A i \in 2..Len(s) : i - 1 \in 1..Len(s) - 1 /\ Tail(s)[i - 1] = s[i]
  BY <1>1, <1>2
<1>4. Head(s) = s[1]
  OBVIOUS
<1>5. ASSUME NEW e \in Elements(s) PROVE e \in Elements(Tail(s)) \cup {Head(s)}
  <2>1. PICK i \in 1..Len(s) : e = s[i]
    BY <1>2 DEF Elements
  <2>2. CASE i = 1
    BY <2>1, <2>2, <1>4
  <2>3. CASE i # 1
    <3>1. i \in 2..Len(s)
      BY <2>3, <1>2
    <3>2. e \in Elements(Tail(s))
      BY <2>1, <3>1, <1>2, <1>3 DEF Elements
    <3>3. QED
      BY <3>2
  <2>4. QED
    BY <2>2, <2>3
<1>6. QED
  BY <1>1, <1>5

-----------------------------------------------------------------------------
(* TypeOK in two parts: the queues, and the rest *)

PcSteps == {"pop", "open", "lock", "check", "move", "moved", "unlock", "unlock_failed"}

QueueType ==
  /\ queue \in [Workers -> Seq(Files \cup Clients)]
  /\ queue[Uploader] \in Seq(Files) /\ queue[Downloader] \in Seq(Clients)
  /\ \A w \in Workers : Len(queue[w]) <= MaxSize

RestType ==
  /\ remote \in [Files -> BOOLEAN]
  /\ owner \in [Files -> Workers \cup {Free}]
  /\ pc \in [Workers -> PcSteps]
  /\ path \in [Workers -> Files \cup Clients \cup {NoFile}]
  /\ target \in [Workers -> Files \cup {NoFile}]
  /\ \A w \in Workers : pc[w] \notin {"pop", "open"} => target[w] \in Files
  /\ cpc \in [Clients -> {"closed", "push", "wait", "open"}]
  /\ cfile \in [Clients -> Files \cup {NoFile}]
  /\ walk \in SUBSET Files /\ found \in Files \cup {NoFile}
  /\ lost \in [Clients -> BOOLEAN]

LEMMA TypeParts ==
  /\ TypeOK <=> QueueType /\ RestType
  /\ TypeOK' <=> QueueType' /\ RestType'
  BY DEF TypeOK, QueueType, RestType, PcSteps

Kind(w) == IF w = Uploader THEN Files ELSE Clients

LEMMA PushType ==
  ASSUME QueueType, NEW w \in Workers, NEW p \in Kind(w), queue_push(w, p)
  PROVE  QueueType'
<1>1. queue[w] \in Seq(Kind(w)) /\ queue[w] \in Seq(Files \cup Clients) /\ p \in Files \cup Clients
  BY DEF QueueType, Kind
<1>2. /\ Append(queue[w], p) \in Seq(Kind(w))
      /\ Append(queue[w], p) \in Seq(Files \cup Clients)
      /\ Len(Append(queue[w], p)) = Len(queue[w]) + 1
  BY <1>1, AppendElements
<1>3. Len(queue[w]) \in Nat
  BY <1>1
<1>4. QED
  BY <1>2, <1>3, PipelineAssumption DEF QueueType, Kind, queue_push, HasRoom

LEMMA PopType ==
  ASSUME QueueType, NEW w \in Workers, queue[w] # <<>>,
         queue' = [queue EXCEPT ![w] = Tail(@)]
  PROVE  QueueType'
<1>1. queue[w] \in Seq(Kind(w)) /\ queue[w] \in Seq(Files \cup Clients)
  BY DEF QueueType, Kind
<1>2. /\ Tail(queue[w]) \in Seq(Kind(w))
      /\ Tail(queue[w]) \in Seq(Files \cup Clients)
      /\ Len(Tail(queue[w])) = Len(queue[w]) - 1
  BY <1>1, TailElements
<1>3. Len(queue[w]) \in Nat
  BY <1>1
<1>4. QED
  BY <1>2, <1>3, PipelineAssumption DEF QueueType, Kind

-----------------------------------------------------------------------------
(* The inductive invariant *)

Locking == {"check", "move", "moved", "unlock", "unlock_failed"}

\* A client that is not in a call has no descriptor, one that is has a file.
Descriptors == \A c \in Clients : cfile[c] = NoFile <=> cpc[c] = "closed"

\* A thread works on a path that came from its queue.
Paths ==
  /\ \A w \in Workers : pc[w] = "pop" <=> path[w] = NoFile
  /\ path[Uploader] \in Files \cup {NoFile}
  /\ path[Downloader] \in Clients \cup {NoFile}

\* A thread past try_lock_file owns its file.
Owned == \A w \in Workers : pc[w] \in Locking => owner[target[w]] = w

\* The downloader works for the client whose path it popped, unless that client has
\* queued another request since; before it unlocks with success, the file is local.
Working ==
  /\ \A c \in Clients :
       /\ path[Downloader] = c /\ cpc[c] = "wait" /\ pc[Downloader] # "open"
       => c \in Queued(Downloader) \/ lost[c] \/ target[Downloader] = cfile[c]
  /\ pc[Downloader] \in {"moved", "unlock"} => ~remote[target[Downloader]]

IInv == TypeOK /\ Descriptors /\ Paths /\ Owned /\ Working /\ WaitingAccounted

-----------------------------------------------------------------------------
LEMMA InitInv == Init => IInv
<1> SUFFICES ASSUME Init PROVE IInv
  OBVIOUS
<1>1. \A S : <<>> \in Seq(S) /\ Len(<<>>) = 0
  BY EmptySeq
<1>2. QueueType
  BY <1>1, PipelineAssumption DEF Init, QueueType
<1>3. RestType
  BY DEF Init, RestType, PcSteps
<1>4. TypeOK
  BY <1>2, <1>3, TypeParts
<1>5. Descriptors /\ WaitingAccounted
  BY DEF Init, Descriptors, WaitingAccounted
<1>6. Paths /\ Owned
  BY DEF Init, Paths, Owned, Locking
<1>7. Working
  BY PipelineAssumption DEF Init, Working
<1>8. QED
  BY <1>4, <1>5, <1>6, <1>7 DEF IInv

-----------------------------------------------------------------------------
(* The types are kept *)

\* What is known after a path was dropped or its transfer was done.
LEMMA DropType ==
  ASSUME RestType, NEW w \in Workers, NextPath(w)
  PROVE  /\ pc' \in [Workers -> PcSteps]
         /\ path' \in [Workers -> Files \cup Clients \cup {NoFile}]
         /\ target' \in [Workers -> Files \cup {NoFile}]
         /\ \A v \in Workers : pc'[v] \notin {"pop", "open"} => target'[v] \in Files
  BY DEF RestType, NextPath, PcSteps

LEMMA WorkType ==
  ASSUME TypeOK, Paths, NEW w \in Workers, work(w)
  PROVE  TypeOK'
<1>0. QueueType /\ RestType
  BY TypeParts
<1> USE <1>0 DEF PcSteps
<1>1. CASE transfer_files_loop(w)
  <2> USE <1>1 DEF transfer_files_loop
  <2>1. QueueType'
    BY PopType
  <2>2. Head(queue[w]) \in Files \cup Clients
    BY TailElements DEF QueueType
  <2>3. RestType'
    BY <2>2 DEF RestType
  <2>4. QED
    BY <2>1, <2>3, TypeParts
<1> DEFINE Other == open_path(w) \/ lock(w) \/ check_location(w) \/ move(w)
                    \/ move_fails(w) \/ complete(w) \/ unlock(w)
<1>2. ASSUME Other PROVE QueueType'
  <2>1. UNCHANGED queue
    BY <1>2 DEF open_path, lock, check_location, move, move_fails, complete, unlock
  <2>2. QED
    BY <2>1 DEF QueueType
<1>3. CASE open_path(w)
  <2>1. CASE drop(w)
    <3>1. NextPath(w) /\ lost' \in [Clients -> BOOLEAN]
      BY <2>1 DEF drop
    <3>2. RestType'
      BY <1>3, <3>1, DropType DEF open_path, RestType
    <3>3. QED
      BY <1>2, <1>3, <3>2, TypeParts
  <2>2. CASE ~drop(w)
    <3>1. Resolved(w) \in Files
      BY <1>3, <2>2 DEF open_path, Resolved, Paths, RestType
    <3>2. RestType'
      BY <1>3, <2>2, <3>1 DEF open_path, RestType
    <3>3. QED
      BY <1>2, <1>3, <3>2, TypeParts
  <2>3. QED
    BY <2>1, <2>2
<1>4. CASE lock(w)
  <2>1. CASE drop(w)
    <3>1. NextPath(w) /\ lost' \in [Clients -> BOOLEAN]
      BY <2>1 DEF drop
    <3>2. RestType'
      BY <1>4, <3>1, DropType DEF lock, RestType
    <3>3. QED
      BY <1>2, <1>4, <3>2, TypeParts
  <2>2. CASE ~drop(w)
    <3>1. RestType'
      BY <1>4, <2>2 DEF lock, RestType
    <3>2. QED
      BY <1>2, <1>4, <3>1, TypeParts
  <2>3. QED
    BY <2>1, <2>2
<1>5. CASE check_location(w)
  <2>1. RestType'
    BY <1>5 DEF check_location, RestType
  <2>2. QED
    BY <1>2, <1>5, <2>1, TypeParts
<1>6. CASE move(w)
  <2>1. RestType'
    BY <1>6 DEF move, RestType
  <2>2. QED
    BY <1>2, <1>6, <2>1, TypeParts
<1>7. CASE move_fails(w)
  <2>1. RestType'
    BY <1>7 DEF move_fails, RestType
  <2>2. QED
    BY <1>2, <1>7, <2>1, TypeParts
<1>8. CASE complete(w)
  <2>1. remote' \in [Files -> BOOLEAN]
    BY <1>8 DEF complete, RestType
  <2>2. \E s \in {"unlock", "unlock_failed"} : pc' = [pc EXCEPT ![w] = s]
    BY <1>8 DEF complete
  <2>3. pc[w] = "moved" /\ UNCHANGED <<owner, path, target, client, scanner, lost>>
    BY <1>8 DEF complete
  <2>4. RestType'
    BY <2>1, <2>2, <2>3 DEF RestType
  <2>5. QED
    BY <1>2, <1>8, <2>4, TypeParts
<1>9. CASE unlock(w)
  <2>1. NextPath(w) /\ lost' \in [Clients -> BOOLEAN]
    BY <1>9 DEF unlock, drop, RestType
  <2>2. RestType'
    BY <1>9, <2>1, DropType DEF unlock, RestType
  <2>3. QED
    BY <1>2, <1>9, <2>2, TypeParts
<1>10. QED
  BY <1>1, <1>3, <1>4, <1>5, <1>6, <1>7, <1>8, <1>9 DEF work

LEMMA OthersType ==
  ASSUME TypeOK, ~ \E w \in Workers : work(w), [Next]_vars
  PROVE  TypeOK'
<1>0. QueueType /\ RestType
  BY TypeParts
<1> USE <1>0 DEF PcSteps
<1>1. ASSUME NEW c \in Clients, NEW f \in Files, open(c, f) PROVE TypeOK'
  BY <1>1, TypeParts DEF open, RestType, QueueType
<1>2. ASSUME NEW c \in Clients, schedule_download(c) PROVE TypeOK'
  <2>1. QueueType'
    BY <1>2, PushType DEF schedule_download, Kind
  <2>2. QED
    BY <1>2, <2>1, TypeParts DEF schedule_download, RestType
<1>3. ASSUME NEW c \in Clients, poll_file_location(c) PROVE TypeOK'
  BY <1>3, TypeParts DEF poll_file_location, RestType, QueueType
<1>4. ASSUME NEW c \in Clients, close(c) PROVE TypeOK'
  BY <1>4, TypeParts DEF close, RestType, QueueType
<1>5. ASSUME NEW f \in Files, update_evict_queue(f) PROVE TypeOK'
  BY <1>5, TypeParts DEF update_evict_queue, RestType, QueueType
<1>6. ASSUME evict_push PROVE TypeOK'
  <2>1. QueueType'
    BY <1>6, PushType DEF evict_push, RestType, Kind
  <2>2. QED
    BY <1>6, <2>1, TypeParts DEF evict_push, RestType
<1>7. ASSUME scan_fs_routine PROVE TypeOK'
  BY <1>7, TypeParts DEF scan_fs_routine, RestType, QueueType
<1>8. ASSUME UNCHANGED vars PROVE TypeOK'
  BY <1>8, TypeParts DEF vars, RestType, QueueType
<1>9. QED
  BY <1>1, <1>2, <1>3, <1>4, <1>5, <1>6, <1>7, <1>8 DEF Next, scan

-----------------------------------------------------------------------------
(* The requests: what each step does to the queues *)

LEMMA QueuedElements == \A w \in Workers : Queued(w) = Elements(queue[w])
  BY DEF Queued, Elements

\* A push adds its path to one queue, and a pop takes none but the head.
LEMMA PushQueued ==
  ASSUME QueueType, NEW w \in Workers, NEW p \in Kind(w), queue_push(w, p)
  PROVE  /\ Queued(w)' = Queued(w) \cup {p}
         /\ \A v \in Workers \ {w} : Queued(v)' = Queued(v)
<1>1. queue[w] \in Seq(Kind(w))
  BY DEF QueueType, Kind
<1>2. Elements(Append(queue[w], p)) = Elements(queue[w]) \cup {p}
  BY <1>1, AppendElements
<1>3. queue'[w] = Append(queue[w], p) /\ \A v \in Workers \ {w} : queue'[v] = queue[v]
  BY DEF QueueType, queue_push
<1>4. QED
  BY <1>2, <1>3 DEF Queued, Elements

LEMMA PopQueued ==
  ASSUME QueueType, NEW w \in Workers, queue[w] # <<>>,
         queue' = [queue EXCEPT ![w] = Tail(@)]
  PROVE  /\ Queued(w) \subseteq Queued(w)' \cup {Head(queue[w])}
         /\ \A v \in Workers \ {w} : Queued(v)' = Queued(v)
         /\ Head(queue[w]) \in Kind(w)
<1>1. queue[w] \in Seq(Kind(w))
  BY DEF QueueType, Kind
<1>2. /\ Elements(queue[w]) \subseteq Elements(Tail(queue[w])) \cup {Head(queue[w])}
      /\ Head(queue[w]) \in Kind(w)
  BY <1>1, TailElements
<1>3. queue'[w] = Tail(queue[w]) /\ \A v \in Workers \ {w} : queue'[v] = queue[v]
  BY DEF QueueType
<1>4. QED
  BY <1>2, <1>3 DEF Queued, Elements

LEMMA SameQueued == UNCHANGED queue => \A w \in Workers : Queued(w)' = Queued(w)
  BY DEF Queued

-----------------------------------------------------------------------------
(* The steps of a transfer thread *)

LEMMA WorkPaths ==
  ASSUME IInv, NEW w \in Workers, work(w)
  PROVE  Paths' /\ Descriptors'
<1>0. QueueType /\ RestType /\ Paths /\ Descriptors
  BY TypeParts DEF IInv
<1> USE <1>0, PipelineAssumption DEF RestType, PcSteps
<1>1. Descriptors'
  BY DEF work, transfer_files_loop, open_path, lock, check_location, move, move_fails,
         complete, unlock, Descriptors
<1>2. CASE transfer_files_loop(w)
  <2>1. Head(queue[w]) \in Kind(w)
    BY <1>2, PopQueued DEF transfer_files_loop
  <2>2. QED
    BY <1>1, <1>2, <2>1 DEF transfer_files_loop, Paths, Kind
<1>3. CASE NextPath(w)
  BY <1>1, <1>3 DEF NextPath, Paths
<1>4. CASE /\ UNCHANGED path /\ pc[w] # "pop"
           /\ \E s \in PcSteps \ {"pop"} : pc' = [pc EXCEPT ![w] = s]
  BY <1>1, <1>4 DEF Paths
<1>5. QED
  BY <1>2, <1>3, <1>4
  DEF work, open_path, lock, check_location, move, move_fails, complete, unlock, drop

LEMMA WorkOwned ==
  ASSUME IInv, NEW w \in Workers, work(w)
  PROVE  Owned'
<1>0. RestType /\ Owned
  BY TypeParts DEF IInv
<1> USE <1>0 DEF RestType, PcSteps, Owned, Locking
<1>1. CASE transfer_files_loop(w)
  BY <1>1 DEF transfer_files_loop
<1>2. CASE open_path(w)
  BY <1>2 DEF open_path, drop, NextPath
<1>3. CASE lock(w)
  <2>1. CASE NextPath(w) /\ UNCHANGED owner
    BY <2>1 DEF NextPath
  <2>2. CASE ~(NextPath(w) /\ UNCHANGED owner)
    BY <1>3, <2>2 DEF lock, drop
  <2>3. QED
    BY <2>1, <2>2
<1>4. CASE check_location(w)
  BY <1>4 DEF check_location
<1>5. CASE move(w)
  BY <1>5 DEF move
<1>6. CASE move_fails(w)
  BY <1>6 DEF move_fails
<1>7. CASE complete(w)
  BY <1>7 DEF complete
<1>8. CASE unlock(w)
  <2>1. NextPath(w) /\ pc[w] \in Locking
    BY <1>8 DEF unlock, drop
  <2>2. UNCHANGED owner \/ owner' = [owner EXCEPT ![target[w]] = Free]
    BY <1>8 DEF unlock
  <2>3. QED
    BY <2>1, <2>2 DEF NextPath
<1>9. QED
  BY <1>1, <1>2, <1>3, <1>4, <1>5, <1>6, <1>7, <1>8 DEF work

\* The step that changes where a file is, and the steps between try_lock_file and it.
LEMMA WorkLocal ==
  ASSUME IInv, NEW w \in Workers, work(w)
  PROVE  pc'[Downloader] \in {"moved", "unlock"} => ~remote'[target'[Downloader]]
<1>0. RestType /\ Owned /\ Working
  BY TypeParts DEF IInv
<1> USE <1>0 DEF RestType, PcSteps, Working
<1>1. CASE transfer_files_loop(w)
  BY <1>1 DEF transfer_files_loop
<1>2. CASE open_path(w)
  BY <1>2 DEF open_path, drop, NextPath
<1>3. CASE lock(w)
  BY <1>3 DEF lock, drop, NextPath
<1>4. CASE check_location(w)
  BY <1>4 DEF check_location
<1>5. CASE move(w)
  BY <1>5 DEF move, Owned, Locking
<1>6. CASE move_fails(w)
  BY <1>6 DEF move_fails
<1>7. CASE complete(w)
  BY <1>7 DEF complete, Owned, Locking
<1>8. CASE unlock(w)
  BY <1>8 DEF unlock, drop, NextPath
<1>9. QED
  BY <1>1, <1>2, <1>3, <1>4, <1>5, <1>6, <1>7, <1>8 DEF work

\* A request leaves the queue for path, and path only when it is served or lost.
Requested(c) == c \in Queued(Downloader) \/ path[Downloader] = c \/ lost[c]

LEMMA WorkRequested ==
  ASSUME IInv, NEW w \in Workers, work(w), NEW c \in Clients, cpc[c] = "wait", Requested(c)
  PROVE  Requested(c)' \/ ~remote[cfile[c]]
<1>0. QueueType /\ RestType /\ Paths /\ Working
  BY TypeParts DEF IInv
<1> USE <1>0 DEF RestType, PcSteps, Requested
<1>1. CASE transfer_files_loop(w)
  <2>1. /\ Queued(w) \subseteq Queued(w)' \cup {Head(queue[w])}
        /\ \A v \in Workers \ {w} : Queued(v)' = Queued(v)
    BY <1>1, PopQueued DEF transfer_files_loop
  <2>2. path'[w] = Head(queue[w]) /\ \A v \in Workers \ {w} : path'[v] = path[v]
    BY <1>1 DEF transfer_files_loop
  <2>3. path[w] = NoFile /\ lost' = lost
    BY <1>1 DEF transfer_files_loop, Paths
  <2>4. QED
    BY <2>1, <2>2, <2>3, PipelineAssumption
<1> DEFINE Other == open_path(w) \/ lock(w) \/ check_location(w) \/ move(w)
                    \/ move_fails(w) \/ complete(w) \/ unlock(w)
<1>2. ASSUME Other PROVE Queued(Downloader)' = Queued(Downloader)
  BY <1>2, SameQueued
  DEF open_path, lock, check_location, move, move_fails, complete, unlock
<1>3. CASE drop(w) /\ Other
  BY <1>2, <1>3 DEF drop, NextPath
<1>4. CASE /\ NextPath(w) /\ At(w, "unlock") /\ UNCHANGED lost /\ Other
  BY <1>2, <1>4 DEF NextPath, Working
<1>5. CASE /\ UNCHANGED path /\ (lost[c] => lost'[c]) /\ Other
  BY <1>2, <1>5
<1>6. QED
  BY <1>1, <1>3, <1>4, <1>5
  DEF work, open_path, lock, check_location, move, move_fails, complete, unlock

LEMMA WorkAccounted ==
  ASSUME IInv, NEW w \in Workers, work(w)
  PROVE  WaitingAccounted'
<1>0. QueueType /\ RestType /\ Descriptors /\ Paths /\ Working /\ WaitingAccounted
  BY TypeParts DEF IInv
<1>1. SUFFICES ASSUME NEW c \in Clients, cpc'[c] = "wait", remote'[cfile'[c]]
               PROVE  Requested(c)'
  BY DEF WaitingAccounted, Requested
<1>2. UNCHANGED client
  BY DEF work, transfer_files_loop, open_path, lock, check_location, move, move_fails,
         complete, unlock
<1>3. CASE remote[cfile[c]]
  BY <1>0, <1>1, <1>2, <1>3, WorkRequested DEF WaitingAccounted, Requested
<1>4. CASE ~remote[cfile[c]]
  <2>1. cfile[c] \in Files
    BY <1>0, <1>1, <1>2 DEF RestType, Descriptors
  <2>2. move(w) /\ w = Uploader /\ target[w] = cfile[c]
    BY <1>0, <1>1, <1>2, <1>4, <2>1
    DEF RestType, work, transfer_files_loop, open_path, lock, check_location, move, move_fails,
        complete, unlock
  <2>3. Queued(Downloader)' = Queued(Downloader) /\ path' = path
    BY <2>2, SameQueued DEF move
  <2>4. QED
    BY <1>0, <1>1, <1>2, <2>2, <2>3 DEF move, RestType, Requested, Waits
<1>5. QED
  BY <1>3, <1>4

LEMMA WorkWorking ==
  ASSUME IInv, NEW w \in Workers, work(w)
  PROVE  Working'
<1>0. QueueType /\ RestType /\ Paths /\ Working
  BY TypeParts DEF IInv
<1> USE <1>0 DEF RestType, PcSteps
<1>1. SUFFICES ASSUME NEW c \in Clients, path'[Downloader] = c, cpc'[c] = "wait",
                      pc'[Downloader] # "open"
               PROVE  (c \in Queued(Downloader) \/ lost[c] \/ target[Downloader] = cfile[c])'
  BY WorkLocal DEF Working
<1>2. CASE transfer_files_loop(w)
  <2>1. w = Uploader
    BY <1>1, <1>2 DEF transfer_files_loop
  <2>2. Queued(Downloader)' = Queued(Downloader)
    BY <1>2, <2>1, PopQueued DEF transfer_files_loop
  <2>3. QED
    BY <1>1, <1>2, <2>1, <2>2 DEF transfer_files_loop, Working
<1> DEFINE Other == open_path(w) \/ lock(w) \/ check_location(w) \/ move(w)
                    \/ move_fails(w) \/ complete(w) \/ unlock(w)
<1>3. ASSUME Other PROVE Queued(Downloader)' = Queued(Downloader) /\ UNCHANGED client
  BY <1>3, SameQueued
  DEF open_path, lock, check_location, move, move_fails, complete, unlock
<1>4. CASE Other /\ NextPath(w) /\ (lost[c] => lost'[c])
  BY <1>1, <1>3, <1>4, PipelineAssumption DEF NextPath, Working
<1>5. CASE Other /\ UNCHANGED <<path, target>> /\ (lost[c] => lost'[c]) /\ pc[w] # "open"
           /\ (\A v \in Workers \ {w} : pc'[v] = pc[v])
  BY <1>1, <1>3, <1>5 DEF Working
<1>6. CASE open_path(w) /\ Resolved(w) # NoFile /\ pc' = [pc EXCEPT ![w] = "lock"]
           /\ target' = [target EXCEPT ![w] = Resolved(w)] /\ UNCHANGED <<path, lost>>
  BY <1>1, <1>3, <1>6 DEF Resolved, Working
<1>7. QED
  BY <1>2, <1>4, <1>5, <1>6
  DEF work, open_path, lock, check_location, move, move_fails, complete, unlock, drop

-----------------------------------------------------------------------------
(* The steps of the clients and of the scanner *)

LEMMA ClientInv ==
  ASSUME IInv, NEW c \in Clients,
         (\E f \in Files : open(c, f)) \/ schedule_download(c) \/ poll_file_location(c) \/ close(c)
  PROVE  (Descriptors /\ Paths /\ Owned /\ Working /\ WaitingAccounted)'
<1>0. QueueType /\ RestType /\ Descriptors /\ Paths /\ Owned /\ Working /\ WaitingAccounted
  BY TypeParts DEF IInv
<1> USE <1>0, PipelineAssumption DEF RestType, PcSteps
<1>1. UNCHANGED <<remote, owner, transfers>>
  BY DEF open, schedule_download, poll_file_location, close
<1>2. Descriptors'
  BY DEF open, schedule_download, poll_file_location, close, Descriptors
<1>3. Paths' /\ Owned'
  BY <1>1 DEF Paths, Owned
<1>4. Queued(Downloader) \subseteq Queued(Downloader)'
  <2>1. CASE schedule_download(c)
    BY <2>1, PushQueued DEF schedule_download, Kind
  <2>2. CASE UNCHANGED queue
    BY <2>2, SameQueued
  <2>3. QED
    BY <2>1, <2>2 DEF open, poll_file_location, close
<1>5. ASSUME NEW d \in Clients, cpc'[d] = "wait"
      PROVE  \/ cpc[d] = "wait" /\ cfile'[d] = cfile[d] /\ lost'[d] = lost[d]
             \/ d \in Queued(Downloader)'
  <2>1. CASE schedule_download(c)
    <3>1. Downloader \in Workers /\ c \in Kind(Downloader)
      BY DEF Kind
    <3>2. c \in Queued(Downloader)'
      BY <2>1, <3>1, PushQueued DEF schedule_download
    <3>3. QED
      BY <1>5, <2>1, <3>2 DEF schedule_download
  <2>2. CASE ~schedule_download(c)
    BY <1>5, <2>2 DEF open, poll_file_location, close
  <2>3. QED
    BY <2>1, <2>2
<1>6. Working'
  BY <1>1, <1>4, <1>5 DEF Working
<1>7. WaitingAccounted'
  BY <1>1, <1>4, <1>5 DEF WaitingAccounted
<1>8. QED
  BY <1>2, <1>3, <1>6, <1>7

LEMMA ScanInv ==
  ASSUME IInv, scan \/ UNCHANGED vars
  PROVE  (Descriptors /\ Paths /\ Owned /\ Working /\ WaitingAccounted)'
<1>0. QueueType /\ RestType /\ Descriptors /\ Paths /\ Owned /\ Working /\ WaitingAccounted
  BY TypeParts DEF IInv
<1>1. UNCHANGED <<remote, owner, transfers, client, lost>>
  BY DEF scan, update_evict_queue, evict_push, scan_fs_routine, vars
<1>2. Queued(Downloader)' = Queued(Downloader)
  <2>1. CASE evict_push
    <3>1. found \in Kind(Uploader)
      BY <1>0, <2>1 DEF evict_push, RestType, Kind
    <3>2. QED
      BY <1>0, <2>1, <3>1, PushQueued DEF evict_push
  <2>2. CASE UNCHANGED queue
    BY <2>2, SameQueued
  <2>3. QED
    BY <2>1, <2>2 DEF scan, update_evict_queue, scan_fs_routine, vars
<1>3. QED
  BY <1>0, <1>1, <1>2 DEF Descriptors, Paths, Owned, Working, WaitingAccounted

-----------------------------------------------------------------------------
LEMMA NextInv == IInv /\ [Next]_vars => IInv'
<1> SUFFICES ASSUME IInv, [Next]_vars PROVE IInv'
  OBVIOUS
<1>1. TypeOK /\ Paths
  BY DEF IInv
<1>2. ASSUME NEW w \in Workers, work(w) PROVE IInv'
  BY <1>1, <1>2, WorkType, WorkPaths, WorkOwned, WorkWorking, WorkAccounted DEF IInv
<1>3. CASE ~ \E w \in Workers : work(w)
  <2>1. TypeOK'
    BY <1>1, <1>3, OthersType
  <2>2. (Descriptors /\ Paths /\ Owned /\ Working /\ WaitingAccounted)'
    BY <1>3, ClientInv, ScanInv DEF Next
  <2>3. QED
    BY <2>1, <2>2 DEF IInv
<1>4. QED
  BY <1>2, <1>3

THEOREM Invariance == Spec => []IInv
  BY InitInv, NextInv, PTL DEF Spec

\* The variables of Pipeline have their types: a queue holds at most MaxSize paths, of
\* files for the uploader and of clients' descriptors for the downloader.
THEOREM PipelineTypeCorrect == Spec => []TypeOK
  BY Invariance, PTL DEF IInv

\* However many clients and files there are and whatever fails: a client that polls a
\* remote file has a request that is queued or in work, or that was given up or
\* overtaken by an eviction.
THEOREM RequestsAccounted == Spec => []WaitingAccounted
  BY Invariance, PTL DEF IInv

\* From try_lock_file to unlock_file a thread is the owner of its file, so the uploader
\* and the downloader never move the same file at once.
THEOREM OneMover ==
  Spec => [](\A w, v \in Workers :
               pc[w] \in Locking /\ pc[v] \in Locking /\ target[w] = target[v] => w = v)
<1>1. IInv => \A w, v \in Workers :
                pc[w] \in Locking /\ pc[v] \in Locking /\ target[w] = target[v] => w = v
  BY DEF IInv, Owned
<1>2. QED
  BY <1>1, Invariance, PTL
=============================================================================
