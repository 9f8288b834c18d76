------------------------------ MODULE Lifecycle ------------------------------
(***************************************************************************)
(* Applications with the client library, around launches of the daemon     *)
(* (Startup): the first open() of a remote file maps the object that       *)
(* QUEUE_SHM_OBJ names at that moment (init_vars_once, src/lib/syms.c),    *)
(* and every later one pushes its request into the same mapping, while     *)
(* daemons start, fail, are killed and start again, and applications fork  *)
(* and are killed.                                                         *)
(*                                                                         *)
(* A call is open() of one remote file: schedule_download and the polling  *)
(* loop behind it.  The mutexes of the queue are tail_mutex (lock) and     *)
(* size_mutex, of which only a killed owner matters (jammed).  A request   *)
(* that is popped is served; Pipeline has the transfers that fail.         *)
(***************************************************************************)
EXTENDS Startup, Sequences

CONSTANTS
  Applications,
  MaxSize,       \* PrimaryDownloadQueueMaxSize
  MaxCalls       \* bound: open() of a remote file per application

ASSUME LifecycleAssumption ==
  /\ NoOne \notin Applications
  /\ MaxSize \in Nat \ {0}
  /\ MaxCalls \in Nat

VARIABLES
  apc,     \* the next step of each application
  calls,   \* calls it has made, for the bound
  once,    \* once_control: init_vars_once has run
  queue,   \* the object its variable queue maps, or NoOne
  pid,     \* its variable pid, or NoOne
  file,    \* the object it has just opened
  heir,    \* history: it was forked from an application whose init_vars_once had run
  items,   \* the requests in each object
  jammed,  \* its size_mutex belongs to a killed application
  intact,  \* its header is what queue_init has written
  early    \* history: an application pushed before its mutexes were initialised

library  == <<once, queue, pid>>
contents == <<items, jammed, intact, early>>
vars     == <<startup, faults, apc, calls, library, file, heir, contents>>

InCall   == {"mmap", "push", "lock", "store", "poll"}
\* by: who waits for its descriptor.  names: whose descriptor the path names.
Requests == [by : Applications, names : Applications]

LifecycleInit ==
  /\ Init
  /\ apc \in [Applications -> {"unborn", "dead"}]
  /\ calls = [a \in Applications |-> 0]
  /\ once = [a \in Applications |-> FALSE]
  /\ queue = [a \in Applications |-> NoOne]
  /\ pid = [a \in Applications |-> NoOne]
  /\ file = [a \in Applications |-> NoOne]
  /\ heir = [a \in Applications |-> FALSE]
  /\ items = [d \in Daemons |-> <<>>]
  /\ jammed = [d \in Daemons |-> FALSE]
  /\ intact = [d \in Daemons |-> TRUE]
  /\ early = [d \in Daemons |-> FALSE]

AAt(a, s) == apc[a] = s
AGoto(a, s) == apc' = [apc EXCEPT ![a] = s]

-----------------------------------------------------------------------------
(* Processes. *)

exec(a) ==
  /\ AAt(a, "unborn")
  /\ AGoto(a, "idle")
  /\ UNCHANGED <<startup, faults, calls, library, file, heir, contents>>

\* A child has the variables of its parent, the mapping and the pid among them.
fork(a, child) ==
  /\ AAt(a, "idle") /\ AAt(child, "unborn")
  /\ AGoto(child, "idle")
  /\ once' = [once EXCEPT ![child] = once[a]]
  /\ queue' = [queue EXCEPT ![child] = queue[a]]
  /\ pid' = [pid EXCEPT ![child] = pid[a]]
  /\ heir' = [heir EXCEPT ![child] = once[a]]
  /\ UNCHANGED <<startup, faults, calls, file, contents>>

\* The mutexes are not robust: tail_mutex stays with the dead, and size_mutex may.
kill_application(a) ==
  /\ apc[a] \in InCall /\ Fails("kill")
  /\ AGoto(a, "dead")
  /\ \/ UNCHANGED jammed
     \/ AAt(a, "store") /\ jammed' = [jammed EXCEPT ![queue[a]] = TRUE]
  /\ UNCHANGED <<startup, calls, library, file, heir, items, intact, early>>

-----------------------------------------------------------------------------
(* schedule_download and init_vars_once. *)

\* pthread_once never runs init_vars_once again, and queue == NULL is ENOMEM from now on.
GivesUp(a) ==
  /\ once' = [once EXCEPT ![a] = TRUE]
  /\ AGoto(a, "idle")
  /\ UNCHANGED <<queue, file>>

Called(a) == calls[a] < MaxCalls /\ calls' = [calls EXCEPT ![a] = @ + 1]

Opens(a) ==
  /\ shm # NoOne
  /\ file' = [file EXCEPT ![a] = shm]
  /\ AGoto(a, "mmap")
  /\ Works
  /\ UNCHANGED <<once, queue>>

\* Mutant: getpid is forgotten.
init_vars_once_no_pid(a) ==
  /\ AAt(a, "idle") /\ ~once[a] /\ Called(a)
  /\ Opens(a) \/ (((shm = NoOne /\ Works) \/ Fails("system")) /\ GivesUp(a))
  /\ UNCHANGED <<startup, pid, heir, contents>>

\* Mutant: what has failed is tried again at the next call, and what was done is kept.
init_vars_once_again(a) ==
  /\ AAt(a, "idle") /\ ~once[a] /\ Called(a)
  /\ pid' = [pid EXCEPT ![a] = IF @ = NoOne THEN a ELSE @]
  /\ \/ Opens(a)
     \/ ((shm = NoOne /\ Works) \/ Fails("system")) /\ UNCHANGED <<apc, once, queue, file>>
  /\ UNCHANGED <<startup, heir, contents>>

\* The first call: getpid and shm_open.
init_vars_once(a) ==
  /\ AAt(a, "idle") /\ ~once[a] /\ Called(a)
  /\ pid' = [pid EXCEPT ![a] = a]
  /\ \/ Opens(a)
     \/ ((shm = NoOne /\ Works) \/ Fails("system")) /\ GivesUp(a)
  /\ UNCHANGED <<startup, heir, contents>>

schedule_download(a) ==
  /\ AAt(a, "idle") /\ once[a] /\ Called(a)
  /\ AGoto(a, "push")
  /\ UNCHANGED <<startup, faults, library, file, heir, contents>>

\* fstat and mmap: a length of 0, as before ftruncate, is an error.
init_mmap(a) ==
  /\ AAt(a, "mmap")
  /\ \/ /\ object[file[a]] # "empty"
        /\ once' = [once EXCEPT ![a] = TRUE]
        /\ queue' = [queue EXCEPT ![a] = file[a]]
        /\ file' = [file EXCEPT ![a] = NoOne]
        /\ AGoto(a, "push")
        /\ Works
     \/ ((object[file[a]] = "empty" /\ Works) \/ Fails("system")) /\ GivesUp(a)
  /\ UNCHANGED <<startup, calls, pid, heir, contents>>

-----------------------------------------------------------------------------
(* queue_push_common on the mapping. *)

\* data_max_size: 0 until queue_init has written it, and then path_max.
Accepts(d) == d # NoOne /\ object[d] # "zeroed" /\ conf[d].fits

\* The library has no queue, or the path is too long for it.
push_refused(a) ==
  /\ AAt(a, "push")
  /\ ~Accepts(queue[a])
  /\ AGoto(a, "idle")
  /\ UNCHANGED <<startup, faults, calls, library, file, heir, contents>>

push(a) ==
  /\ AAt(a, "push")
  /\ Accepts(queue[a])
  /\ early' = [early EXCEPT ![queue[a]] = @ \/ object[queue[a]] # "ready"]
  /\ AGoto(a, "lock")
  /\ UNCHANGED <<startup, faults, calls, library, file, heir, items, jammed, intact>>

\* Mutant: the mutex is private to each process.
lock_tail_private(a) ==
  /\ AAt(a, "lock")
  /\ lock' = [lock EXCEPT ![queue[a]] = a]
  /\ AGoto(a, "store")
  /\ UNCHANGED <<shm, object, launch, bucket, faults, calls, library, file, heir, contents>>

\* pthread_mutex_lock(&queue->tail_mutex)
lock_tail(a) ==
  /\ AAt(a, "lock") /\ lock[queue[a]] = NoOne
  /\ lock' = [lock EXCEPT ![queue[a]] = a]
  /\ AGoto(a, "store")
  /\ UNCHANGED <<shm, object, launch, bucket, faults, calls, library, file, heir, contents>>

\* Mutant: it returns with tail_mutex locked.
store_locked(a) ==
  /\ AAt(a, "store") /\ ~jammed[queue[a]]
  /\ Len(items[queue[a]]) < MaxSize
  /\ items' = [items EXCEPT ![queue[a]] = Append(@, [by |-> a, names |-> pid[a]])]
  /\ intact' = [intact EXCEPT ![queue[a]] = @ /\ object[queue[a]] # "limited"]
  /\ AGoto(a, "poll")
  /\ UNCHANGED <<memory, launch, bucket, faults, calls, library, file, heir, jammed, early>>

\* Mutant: a full queue drops the request.
store_or_drop(a) ==
  /\ AAt(a, "store") /\ ~jammed[queue[a]]
  /\ items' = [items EXCEPT ![queue[a]] =
                 IF Len(@) < MaxSize THEN Append(@, [by |-> a, names |-> pid[a]]) ELSE @]
  /\ intact' = [intact EXCEPT ![queue[a]] = @ /\ object[queue[a]] # "limited"]
  /\ lock' = [lock EXCEPT ![queue[a]] = NoOne]
  /\ AGoto(a, "poll")
  /\ UNCHANGED <<shm, object, launch, bucket, faults, calls, library, file, heir, jammed, early>>

\* It has waited for room, tail_mutex in its hands: memcpy, cur_size++ under size_mutex,
\* unlock.  Before queue_init has placed the buffer its offset is 0, and the element goes
\* over the header.
store(a) ==
  /\ AAt(a, "store") /\ ~jammed[queue[a]]
  /\ Len(items[queue[a]]) < MaxSize
  /\ items' = [items EXCEPT ![queue[a]] = Append(@, [by |-> a, names |-> pid[a]])]
  /\ intact' = [intact EXCEPT ![queue[a]] = @ /\ object[queue[a]] # "limited"]
  /\ lock' = [lock EXCEPT ![queue[a]] = NoOne]
  /\ AGoto(a, "poll")
  /\ UNCHANGED <<shm, object, launch, bucket, faults, calls, library, file, heir, jammed, early>>

-----------------------------------------------------------------------------
Downloads(d) == pc[d] \in {"upload_thread", "running"}

\* transfer_files_loop of the download thread: the file behind the path becomes local
\* and its owner's polling ends.  Behind a broken header there is no path.
download(d) ==
  /\ Downloads(d) /\ items[d] # <<>> /\ ~jammed[d]
  /\ items' = [items EXCEPT ![d] = Tail(@)]
  /\ LET a == Head(items[d]).names
     IN apc' = [apc EXCEPT ![a] = IF intact[d] /\ Head(items[d]).by = a /\ @ = "poll"
                                    THEN "idle" ELSE @]
  /\ UNCHANGED <<startup, faults, calls, library, file, heir, jammed, intact, early>>

\* The daemon dies with size_mutex in its hands.
kill_in_queue(d) ==
  /\ Downloads(d) /\ kill(d)
  /\ jammed' = [jammed EXCEPT ![d] = TRUE]
  /\ UNCHANGED <<apc, calls, library, file, heir, items, intact, early>>

call(a) ==
  init_mmap(a) \/ push_refused(a) \/ push(a)
    \/ lock_tail(a) \/ store(a)

Application ==
  \/ \E a \in Applications :
       exec(a) \/ kill_application(a)
         \/ init_vars_once(a) \/ schedule_download(a) \/ call(a)
  \/ \E a, child \in Applications : fork(a, child)

LifecycleNext ==
  \/ Daemon /\ UNCHANGED <<apc, calls, library, file, heir, contents>>
  \/ Application
  \/ \E d \in Daemons : download(d) \/ kill_in_queue(d)

Spec == LifecycleInit /\ [][LifecycleNext]_vars

\* A process that is not killed runs on.  main() is an operator's, calls are the
\* applications', and failures are nobody's to demand.
Fairness ==
  /\ \A d \in Daemons :
       /\ WF_vars(step(d) /\ UNCHANGED <<apc, calls, library, file, heir, contents>>)
       /\ WF_vars(download(d))
  /\ \A a \in Applications : WF_vars(call(a))

FairSpec == Spec /\ Fairness

-----------------------------------------------------------------------------
(* Properties *)

TypeOK ==
  /\ StartupTypeOK
  /\ lock \in [Daemons -> Applications \cup {NoOne}]
  /\ apc \in [Applications -> {"unborn", "idle", "dead"} \cup InCall]
  /\ calls \in [Applications -> 0..MaxCalls]
  /\ once \in [Applications -> BOOLEAN]
  /\ queue \in [Applications -> Daemons \cup {NoOne}]
  /\ pid \in [Applications -> Applications \cup {NoOne}]
  /\ file \in [Applications -> Daemons \cup {NoOne}]
  /\ heir \in [Applications -> BOOLEAN]
  /\ items \in [Daemons -> Seq(Requests)]
  /\ jammed \in [Daemons -> BOOLEAN]
  /\ intact \in [Daemons -> BOOLEAN]
  /\ early \in [Daemons -> BOOLEAN]

\* tail_mutex is "a mutex used to sequentionalize queue writers/suppliers" (queue.h),
\* and an element never goes over the header, as long as nobody pushed into the object
\* before queue_init was through with it.  Nothing keeps an application from that: only
\* data_max_size, 0 in the zeroed object, holds it off for a while.
WritersApart ==
  \A d \in Daemons : ~early[d] =>
    /\ intact[d]
    /\ \A a, b \in Applications :
         (apc[a] = "store" /\ apc[b] = "store" /\ queue[a] = d /\ queue[b] = d) => a = b

\* A request names a descriptor of the application that waits for it, unless this one
\* was forked after the first open() of a remote file in its parent: the cached pid is
\* then the parent's, and the daemon opens another file, or none.
RequestNamesCaller ==
  \A d \in Daemons : \A i \in 1..Len(items[d]) :
    items[d][i].names = items[d][i].by \/ heir[items[d][i].by]

\* The ways in which an open() of a remote file waits for good.
Stranded(a) ==
  LET d == queue[a]
  IN  /\ d # NoOne
      /\ \/ pc[d] \in Ended       \* no daemon reads this object, and no other is mapped
         \/ jammed[d]
         \/ ~intact[d]
         \/ lock[d] # NoOne /\ apc[lock[d]] = "dead"
         \/ apc[a] = "poll" /\ pid[a] # a

\* Nobody else waits for what cannot come: the daemon of an open() is alive, tail_mutex
\* is free or in the hands of an application that stores into the same queue, and the
\* request that is polled for is still there, although children inherit mapping and pid,
\* queue_init may reset a mutex in use and any process may be killed anywhere.
OpenAttended ==
  \A a \in Applications : apc[a] \in {"lock", "store", "poll"} /\ ~Stranded(a) =>
    LET d == queue[a]
    IN  /\ Alive(d)
        /\ apc[a] = "lock" /\ lock[d] # NoOne =>
             apc[lock[d]] = "store" /\ queue[lock[d]] = d
        /\ apc[a] = "poll" =>
             \E i \in 1..Len(items[d]) : items[d][i] = [by |-> a, names |-> a]

\* Every other open() of a remote file returns, with an open file or with ENOMEM.
OpenReturns ==
  \A a \in Applications : apc[a] \in InCall ~> (apc[a] \notin InCall \/ Stranded(a))
=============================================================================
