------------------------------- MODULE Startup -------------------------------
(***************************************************************************)
(* A launch of the daemon, from main to monitor_threads                    *)
(* (src/app/daemon.c): read_conf, the three queue_init, s3_connect with    *)
(* its bucket, and the three threads, with what each failure undoes.       *)
(*                                                                         *)
(* Launches meet in three places: the name of the shared memory object,    *)
(* the objects it has named (clients keep old ones mapped), and the        *)
(* bucket.  A restart is another launch; a launch makes at most one        *)
(* object, which therefore bears its name here.                            *)
(***************************************************************************)
EXTENDS Integers

CONSTANTS
  Daemons,         \* launches of the program
  Configurations,  \* what their configuration files may hold
  Retries,         \* s3_operation_retries
  FaultBounds      \* bound: how many failures of each kind a behaviour may have

NoOne == "no one"
\* A system call, a request to the store, a process.
Kinds == {"system", "store", "kill"}

\* log: LoggingFramework is given and supported.  ops: RemoteStoreProtocol is.
\* fits: PathMax leaves room for a /proc/<pid>/fd/<fd> path.
AnyConfiguration == [log : BOOLEAN, ops : BOOLEAN, fits : BOOLEAN]
Unset == [log |-> FALSE, ops |-> FALSE, fits |-> FALSE]

ASSUME StartupAssumption ==
  /\ NoOne \notin Daemons
  /\ Configurations \subseteq AnyConfiguration
  /\ Retries \in Int
  /\ FaultBounds \subseteq [Kinds -> Nat]

VARIABLES
  shm,     \* the launch whose object QUEUE_SHM_OBJ names, or NoOne
  object,  \* how far the object of each launch has come
  lock,    \* who owns its tail_mutex, or NoOne
  pc,      \* the next step of each launch
  conf,    \* its configuration
  retries, \* the counter of its bucket request
  scanner, \* its scan thread: "none", "started", "scanning"
  bucket,  \* the bucket: "absent", "own", "foreign"
  faults   \* for the bound: failures still to come

memory  == <<shm, object, lock>>
launch  == <<pc, conf, retries, scanner>>
startup == <<memory, launch, bucket>>

\* "empty": shm_open.  "zeroed": ftruncate.  "limited": its sizes are written.
\* "placed": its offsets are.  "ready": its mutexes and conditions are.
Stages == {"none", "empty", "zeroed", "limited", "placed", "ready"}

QueueSteps   == {"ftruncate", "mmap", "limits", "offsets", "mutexes"}
DataSteps    == {"download_queue", "upload_queue"}
ConnectSteps == {"S3_initialize", "S3_test_bucket", "S3_create_bucket"}
ThreadSteps  == {"scan_thread", "download_thread", "upload_thread"}
Starting     == {"read_conf", "open_log", "shm_open"} \cup QueueSteps \cup DataSteps
                  \cup ConnectSteps \cup ThreadSteps
\* "failed", "abandoned": main has returned EXIT_FAILURE, from init_data or before,
\* and from start_routines.
Ended        == {"failed", "abandoned", "killed"}

At(d, s)   == pc[d] = s
Alive(d)   == pc[d] \in Starting \cup {"running"}
Running(d) == At(d, "running")
\* The launch has an object and may undo it.
Owns(d)    == pc[d] \in QueueSteps \cup DataSteps \cup ConnectSteps \cup ThreadSteps \cup {"running"}

\* Some launches may be over already.
Init ==
  /\ shm = NoOne
  /\ object = [d \in Daemons |-> "none"]
  /\ lock = [d \in Daemons |-> NoOne]
  /\ pc \in [Daemons -> {"off", "failed"}]
  /\ conf = [d \in Daemons |-> Unset]
  /\ retries = [d \in Daemons |-> 0]
  /\ scanner = [d \in Daemons |-> "none"]
  /\ bucket \in {"absent", "own", "foreign"}
  /\ faults \in FaultBounds

Goto(d, s) == pc' = [pc EXCEPT ![d] = s]

\* A failure of this kind happens, or nothing fails.
Fails(kind) == faults[kind] > 0 /\ faults' = [faults EXCEPT ![kind] = @ - 1]
Works       == UNCHANGED faults

-----------------------------------------------------------------------------
(* main: the configuration and the log. *)

\* argc, argv[1].
main(d) ==
  /\ At(d, "off")
  /\ Goto(d, "read_conf") \/ Goto(d, "failed")
  /\ Works
  /\ UNCHANGED <<memory, conf, retries, scanner, bucket>>

\* What the file does not set stays as malloc returned it: dotconf reports an
\* unsupported value, and goes on.
read_conf(d) ==
  /\ At(d, "read_conf")
  /\ \/ \E c \in Configurations : conf' = [conf EXCEPT ![d] = c] /\ Goto(d, "open_log") /\ Works
     \/ Fails("system") /\ Goto(d, "failed") /\ UNCHANGED conf
  /\ UNCHANGED <<memory, retries, scanner, bucket>>

\* OPEN_LOG calls through the structure of the logger, unset without LoggingFramework.
OPEN_LOG(d) ==
  /\ At(d, "open_log")
  /\ Goto(d, IF conf[d].log THEN "shm_open" ELSE "killed")
  /\ Works
  /\ UNCHANGED <<memory, conf, retries, scanner, bucket>>

-----------------------------------------------------------------------------
(* queue_init of the primary download queue, in shared memory. *)

Named(d) ==
  /\ shm' = d
  /\ object' = [object EXCEPT ![d] = "empty"]
  /\ Goto(d, "ftruncate")
  /\ Works

\* Mutant: without O_EXCL.
shm_open_shared(d) ==
  /\ At(d, "shm_open")
  /\ Named(d) \/ (Fails("system") /\ Goto(d, "failed") /\ UNCHANGED <<shm, object>>)
  /\ UNCHANGED <<lock, conf, retries, scanner, bucket>>

\* Mutant: it waits for the name to be free.
shm_open_waiting(d) ==
  /\ At(d, "shm_open")
  /\ shm = NoOne /\ Named(d)
  /\ UNCHANGED <<lock, conf, retries, scanner, bucket>>

\* O_CREAT | O_EXCL.
shm_open(d) ==
  /\ At(d, "shm_open")
  /\ \/ shm = NoOne /\ Named(d)
     \/ /\ (shm # NoOne /\ Works) \/ Fails("system")
        /\ Goto(d, "failed") /\ UNCHANGED <<shm, object>>
  /\ UNCHANGED <<lock, conf, retries, scanner, bucket>>

\* shm_unlink removes the name, whosever object it is; main returns.
Undo(d) ==
  /\ shm' = NoOne
  /\ Goto(d, "failed")
  /\ UNCHANGED <<object, lock, retries, scanner>>

Step(d, stage, next) ==
  /\ object' = [object EXCEPT ![d] = stage]
  /\ Goto(d, next)
  /\ Works
  /\ UNCHANGED <<shm, retries, scanner>>

ftruncate(d) ==
  /\ At(d, "ftruncate")
  /\ (Step(d, "zeroed", "mmap") /\ UNCHANGED lock) \/ (Fails("system") /\ Undo(d))
  /\ UNCHANGED <<conf, bucket>>

\* mmap, and close of the descriptor.
mmap(d) ==
  /\ At(d, "mmap")
  /\ (Step(d, "zeroed", "limits") /\ UNCHANGED lock) \/ (Fails("system") /\ Undo(d))
  /\ UNCHANGED <<conf, bucket>>

\* max_size, cur_size, data_max_size, total_size.
limits(d) ==
  /\ At(d, "limits")
  /\ Step(d, "limited", "offsets")
  /\ UNCHANGED <<lock, conf, bucket>>

\* buf_size, buf_offset, head_offset, tail_offset.
offsets(d) ==
  /\ At(d, "offsets")
  /\ Step(d, "placed", "mutexes")
  /\ UNCHANGED <<lock, conf, bucket>>

\* pthread_mutex_init and pthread_cond_init: a zeroed mutex was an unlocked one, and
\* a client that has locked it meanwhile is forgotten.
mutexes(d) ==
  /\ At(d, "mutexes")
  /\ Step(d, "ready", "download_queue")
  /\ lock' = [lock EXCEPT ![d] = NoOne]
  /\ UNCHANGED <<conf, bucket>>

-----------------------------------------------------------------------------
(* The rest of init_data.  A failure destroys the queues made so far, and  *)
(* with the first of them its name.                                        *)

Continue(d, next) == Goto(d, next) /\ UNCHANGED <<memory, retries, scanner>>

\* Mutant: its failure returns without destroying the first queue.
download_queue_returning(d) ==
  /\ At(d, "download_queue")
  /\ (Continue(d, "upload_queue") /\ Works) \/ (Fails("system") /\ Continue(d, "failed"))
  /\ UNCHANGED <<conf, bucket>>

\* queue_init of the secondary download queue, in private memory.
download_queue(d) ==
  /\ At(d, "download_queue")
  /\ (Continue(d, "upload_queue") /\ Works) \/ (Fails("system") /\ Undo(d))
  /\ UNCHANGED <<conf, bucket>>

\* The same of the secondary upload queue.
upload_queue(d) ==
  /\ At(d, "upload_queue")
  /\ (Continue(d, "S3_initialize") /\ Works) \/ (Fails("system") /\ Undo(d))
  /\ UNCHANGED <<conf, bucket>>

Request(d, step) ==
  /\ Goto(d, step)
  /\ retries' = [retries EXCEPT ![d] = Retries]
  /\ UNCHANGED <<memory, scanner>>

\* get_ops()->connect through a structure that is unset without RemoteStoreProtocol;
\* S3_initialize, S3_validate_bucket_name, s3_init_globals.
S3_initialize(d) ==
  /\ At(d, "S3_initialize")
  /\ \/ conf[d].ops /\ Request(d, "S3_test_bucket") /\ Works
     \/ conf[d].ops /\ Fails("system") /\ Undo(d)
     \/ ~conf[d].ops /\ Continue(d, "killed") /\ Works
  /\ UNCHANGED <<conf, bucket>>

\* while (S3_status_is_retryable(status) && --retries), while it goes on.
Repeat(d) ==
  /\ Fails("store") /\ retries[d] # 1
  /\ retries' = [retries EXCEPT ![d] = @ - 1]
  /\ UNCHANGED <<memory, pc, scanner>>

\* Mutant: an error other than an absent bucket counts as an existing one.
s3_bucket_exists_on_error(d) ==
  /\ At(d, "S3_test_bucket")
  /\ \/ bucket # "absent" /\ Continue(d, "scan_thread") /\ Works
     \/ bucket = "absent" /\ Request(d, "S3_create_bucket") /\ Works
     \/ Repeat(d)
  /\ UNCHANGED <<conf, bucket>>

\* Every error, and the last retryable one, is taken for an absent bucket.
s3_bucket_exists(d) ==
  /\ At(d, "S3_test_bucket")
  /\ \/ bucket = "own" /\ Continue(d, "scan_thread") /\ Works
     \/ /\ (bucket # "own" /\ Works) \/ Fails("store")
        /\ Request(d, "S3_create_bucket")
     \/ Repeat(d)
  /\ UNCHANGED <<conf, bucket>>

\* An error may hide that the bucket has been made.  That it exists already is an
\* error by itself, of which some stores spare its owner.
s3_create_bucket(d) ==
  /\ At(d, "S3_create_bucket")
  /\ \/ bucket # "foreign" /\ bucket' = "own" /\ Continue(d, "scan_thread") /\ Works
     \/ bucket # "absent" /\ Undo(d) /\ Works /\ UNCHANGED bucket
     \/ /\ (Fails("store") /\ Undo(d)) \/ Repeat(d)
        /\ UNCHANGED bucket \/ (bucket = "absent" /\ bucket' = "own")
  /\ UNCHANGED conf

-----------------------------------------------------------------------------
(* start_routines.  Its failures undo nothing: main returns, and the       *)
(* object keeps its name.                                                  *)

scan_thread(d) ==
  /\ At(d, "scan_thread")
  /\ \/ Goto(d, "download_thread") /\ scanner' = [scanner EXCEPT ![d] = "started"] /\ Works
     \/ Fails("system") /\ Goto(d, "abandoned") /\ UNCHANGED scanner
  /\ UNCHANGED <<memory, conf, retries, bucket>>

download_thread(d) ==
  /\ At(d, "download_thread")
  /\ (Goto(d, "upload_thread") /\ Works) \/ (Fails("system") /\ Goto(d, "abandoned"))
  /\ UNCHANGED <<memory, conf, retries, scanner, bucket>>

\* After it start_routines returns, and with it goes the pair it has given to the
\* scan thread.
upload_thread(d) ==
  /\ At(d, "upload_thread")
  /\ (Goto(d, "running") /\ Works) \/ (Fails("system") /\ Goto(d, "abandoned"))
  /\ UNCHANGED <<memory, conf, retries, scanner, bucket>>

\* scan_fs_routine reads the pair, or what is on the stack in its place by then.
scan_fs_routine(d) ==
  /\ Alive(d) /\ scanner[d] = "started"
  /\ scanner' = [scanner EXCEPT ![d] = "scanning"]
  /\ (UNCHANGED pc /\ Works) \/ (Running(d) /\ Fails("kill") /\ Goto(d, "killed"))
  /\ UNCHANGED <<memory, conf, retries, bucket>>

-----------------------------------------------------------------------------
\* A signal, a crash, a loss of power.
kill(d) ==
  /\ Alive(d) /\ Fails("kill")
  /\ Goto(d, "killed")
  /\ UNCHANGED <<memory, conf, retries, scanner, bucket>>

\* What no code does and an operator must: remove the name an ended launch has left.
remove_object ==
  /\ shm # NoOne /\ ~Alive(shm)
  /\ shm' = NoOne
  /\ Works
  /\ UNCHANGED <<object, lock, launch, bucket>>

init_queue(d) ==
  shm_open(d) \/ ftruncate(d) \/ mmap(d) \/ limits(d) \/ offsets(d) \/ mutexes(d)
init_data(d) ==
  init_queue(d) \/ download_queue(d) \/ upload_queue(d)
    \/ S3_initialize(d) \/ s3_bucket_exists(d) \/ s3_create_bucket(d)
start_routines(d) ==
  scan_thread(d) \/ download_thread(d) \/ upload_thread(d)
step(d) ==
  read_conf(d) \/ OPEN_LOG(d) \/ init_data(d) \/ start_routines(d)

Daemon ==
  \/ \E d \in Daemons : main(d) \/ step(d) \/ scan_fs_routine(d) \/ kill(d)
  \/ remove_object

-----------------------------------------------------------------------------
(* Properties *)

StartupTypeOK ==
  /\ shm \in Daemons \cup {NoOne}
  /\ object \in [Daemons -> Stages]
  /\ pc \in [Daemons -> {"off"} \cup Starting \cup {"running"} \cup Ended]
  /\ conf \in [Daemons -> AnyConfiguration]
  /\ retries \in [Daemons -> Int]
  /\ scanner \in [Daemons -> {"none", "started", "scanning"}]
  /\ bucket \in {"absent", "own", "foreign"}
  /\ faults \in [Kinds -> Nat]

\* A daemon that has its queue keeps the name of it, whatever is launched beside it
\* and however that fails: clients that start later find this daemon.  So at most one
\* is past queue_init at a time.
NameKept == \A d \in Daemons : Owns(d) => shm = d

\* A launch that fails leaves the name free for the next one, with two exceptions
\* that stop every restart: it was killed, or a thread could not be created.
NameLeft == shm # NoOne => Owns(shm) \/ pc[shm] \in {"abandoned", "killed"}

\* s3_connect returns 0 only with a bucket of its own, through errors of both of its
\* requests: no file is evicted into a bucket that is not there.
BucketOwned ==
  \A d \in Daemons : pc[d] \in ThreadSteps \cup {"running"} => bucket = "own"

\* A start ends, in a running daemon or in an exit: neither a store that keeps failing
\* nor another daemon holds it up.
StartEnds == \A d \in Daemons : At(d, "read_conf") ~> pc[d] \notin Starting
=============================================================================
