--------------------------- MODULE LifecycleProofs ---------------------------
(* Proofs about Startup and Lifecycle: who owns the name of the queue, the  *)
(* bucket behind a running daemon, and what applications push where.        *)
EXTENDS Lifecycle, SequenceTheorems, TLAPS

USE DEF memory, launch, startup, library, contents, At, AAt, Goto, AGoto, Works

PcSteps  == {"off"} \cup Starting \cup {"running"} \cup Ended
ApcSteps == {"unborn", "idle", "dead"} \cup InCall

others == <<apc, calls, library, file, heir, contents>>

\* The launch d makes a step of its own.
Launch(d) == main(d) \/ step(d) \/ scan_fs_routine(d) \/ kill(d)

\* The steps of Next by who makes them.
LEMMA NextCases ==
  ASSUME LifecycleNext
  PROVE  \/ \E d \in Daemons : Launch(d) /\ UNCHANGED others
         \/ remove_object /\ UNCHANGED others
         \/ \E a \in Applications :
              exec(a) \/ kill_application(a) \/ init_vars_once(a) \/ schedule_download(a) \/ call(a)
         \/ \E a, child \in Applications : fork(a, child)
         \/ \E d \in Daemons : download(d) \/ kill_in_queue(d)
BY DEF LifecycleNext, Daemon, Application, Launch, others

-----------------------------------------------------------------------------
(* Types *)

FaultsType == faults \in [Kinds -> Nat]

LEMMA FaultCounted ==
  ASSUME FaultsType, \/ Works
                     \/ \E k \in Kinds : Fails(k)
  PROVE  FaultsType'
BY DEF Fails, FaultsType

LEMMA LaunchFaults ==
  ASSUME NEW d \in Daemons, Launch(d)
  PROVE  Works \/ \E k \in Kinds : Fails(k)
<1>1. "system" \in Kinds /\ "store" \in Kinds /\ "kill" \in Kinds
  BY DEF Kinds
<1>2. QED
  BY <1>1
  DEF Launch, step, init_data, init_queue, start_routines, main, read_conf, OPEN_LOG, shm_open,
      Named, ftruncate, mmap, limits, offsets, mutexes, Step, download_queue, upload_queue,
      S3_initialize, s3_bucket_exists, s3_create_bucket, Repeat, scan_thread, download_thread,
      upload_thread, scan_fs_routine, kill

\* What a step of a launch does to the variables of Startup.
LaunchType ==
  /\ shm \in Daemons \cup {NoOne}
  /\ object \in [Daemons -> Stages]
  /\ lock \in [Daemons -> Applications \cup {NoOne}]
  /\ pc \in [Daemons -> PcSteps]
  /\ conf \in [Daemons -> AnyConfiguration]
  /\ retries \in [Daemons -> Int]
  /\ scanner \in [Daemons -> {"none", "started", "scanning"}]
  /\ bucket \in {"absent", "own", "foreign"}

LEMMA LaunchKeepsType ==
  ASSUME LaunchType, NEW d \in Daemons, Launch(d)
  PROVE  LaunchType'
<1> USE DEF PcSteps, Starting, QueueSteps, DataSteps, ConnectSteps, ThreadSteps, Ended, Stages
<1>1. CASE main(d)
  BY <1>1 DEF main, LaunchType
<1>2. CASE read_conf(d)
  BY <1>2, StartupAssumption DEF read_conf, LaunchType
<1>3. CASE OPEN_LOG(d)
  BY <1>3 DEF OPEN_LOG, LaunchType
<1>4. CASE shm_open(d)
  BY <1>4 DEF shm_open, Named, LaunchType
<1>5. CASE ftruncate(d)
  BY <1>5 DEF ftruncate, Step, Undo, LaunchType
<1>6. CASE mmap(d)
  BY <1>6 DEF mmap, Step, Undo, LaunchType
<1>7. CASE limits(d)
  BY <1>7 DEF limits, Step, LaunchType
<1>8. CASE offsets(d)
  BY <1>8 DEF offsets, Step, LaunchType
<1>9. CASE mutexes(d)
  BY <1>9 DEF mutexes, Step, LaunchType
<1>10. CASE download_queue(d)
  BY <1>10 DEF download_queue, Continue, Undo, LaunchType
<1>11. CASE upload_queue(d)
  BY <1>11 DEF upload_queue, Continue, Undo, LaunchType
<1>12. CASE S3_initialize(d)
  BY <1>12, StartupAssumption DEF S3_initialize, Request, Continue, Undo, LaunchType
<1>13. CASE s3_bucket_exists(d)
  BY <1>13, StartupAssumption DEF s3_bucket_exists, Request, Continue, Repeat, LaunchType
<1>14. CASE s3_create_bucket(d)
  BY <1>14 DEF s3_create_bucket, Continue, Repeat, Undo, LaunchType
<1>15. CASE scan_thread(d)
  BY <1>15 DEF scan_thread, LaunchType
<1>16. CASE download_thread(d)
  BY <1>16 DEF download_thread, LaunchType
<1>17. CASE upload_thread(d)
  BY <1>17 DEF upload_thread, LaunchType
<1>18. CASE scan_fs_routine(d)
  BY <1>18 DEF scan_fs_routine, LaunchType
<1>19. CASE kill(d)
  BY <1>19 DEF kill, LaunchType
<1>20. QED
  BY <1>1, <1>2, <1>3, <1>4, <1>5, <1>6, <1>7, <1>8, <1>9, <1>10, <1>11, <1>12, <1>13,
     <1>14, <1>15, <1>16, <1>17, <1>18, <1>19
  DEF Launch, step, init_data, init_queue, start_routines

\* What a step of an application does to its variables, the requests aside.
LibraryType ==
  /\ apc \in [Applications -> ApcSteps]
  /\ calls \in [Applications -> 0..MaxCalls]
  /\ once \in [Applications -> BOOLEAN]
  /\ queue \in [Applications -> Daemons \cup {NoOne}]
  /\ pid \in [Applications -> Applications \cup {NoOne}]
  /\ file \in [Applications -> Daemons \cup {NoOne}]
  /\ heir \in [Applications -> BOOLEAN]
  /\ jammed \in [Daemons -> BOOLEAN]
  /\ intact \in [Daemons -> BOOLEAN]
  /\ early \in [Daemons -> BOOLEAN]

ItemsType == items \in [Daemons -> Seq(Requests)]

\* An application that opens or pushes has the object for it; one that has called knows
\* a pid, its own unless it was forked with it.
CallOK ==
  \A a \in Applications :
    /\ apc[a] = "mmap" => file[a] \in Daemons
    /\ apc[a] \in {"lock", "store", "poll"} => queue[a] \in Daemons
    /\ once[a] \/ apc[a] \in InCall =>
         /\ pid[a] \in Applications
         /\ pid[a] = a \/ heir[a]

LEMMA TypeParts ==
  /\ TypeOK <=> LaunchType /\ FaultsType /\ LibraryType /\ ItemsType
  /\ TypeOK' <=> LaunchType' /\ FaultsType' /\ LibraryType' /\ ItemsType'
BY DEF TypeOK, StartupTypeOK, LaunchType, FaultsType, LibraryType, ItemsType, PcSteps, ApcSteps

TypeInv == TypeOK /\ CallOK

LEMMA LaunchKeepsTypeInv ==
  ASSUME TypeInv, NEW d \in Daemons, Launch(d),
         UNCHANGED <<apc, calls, library, file, heir, items, intact, early>>,
         jammed' = jammed \/ jammed' = [jammed EXCEPT ![d] = TRUE]
  PROVE  TypeInv'
<1>1. LaunchType' /\ FaultsType'
  BY LaunchKeepsType, LaunchFaults, FaultCounted, TypeParts DEF TypeInv
<1>2. LibraryType' /\ ItemsType'
  BY TypeParts DEF TypeInv, LibraryType, ItemsType
<1>3. CallOK'
  BY DEF TypeInv, CallOK
<1>4. QED
  BY <1>1, <1>2, <1>3, TypeParts DEF TypeInv

\* lock and the bound apart, an application changes nothing of Startup.
LEMMA ApplicationKeepsLaunch ==
  ASSUME LaunchType, FaultsType, UNCHANGED <<shm, object, launch, bucket>>,
         lock' \in [Daemons -> Applications \cup {NoOne}],
         Works \/ \E k \in Kinds : Fails(k)
  PROVE  LaunchType' /\ FaultsType'
<1>1. FaultsType'
  BY FaultCounted
<1>2. QED
  BY <1>1 DEF LaunchType

\* One step of a call keeps the types.
LEMMA CallKeepsType ==
  ASSUME TypeInv, NEW a \in Applications, call(a)
  PROVE  TypeInv'
<1> USE DEF ApcSteps, InCall
<1>0. LaunchType /\ FaultsType /\ LibraryType /\ ItemsType /\ CallOK
  BY TypeParts DEF TypeInv
<1>1. "system" \in Kinds /\ NoOne \notin Applications
  BY LifecycleAssumption DEF Kinds
<1>2. CASE init_mmap(a)
  <2>1. LaunchType' /\ FaultsType'
    <3>1. lock' \in [Daemons -> Applications \cup {NoOne}] /\ UNCHANGED <<shm, object, launch, bucket>>
      BY <1>0, <1>2 DEF init_mmap, LaunchType
    <3>2. Works \/ \E k \in Kinds : Fails(k)
      BY <1>1, <1>2 DEF init_mmap
    <3>3. QED
      BY <3>1, <3>2, <1>0, ApplicationKeepsLaunch
  <2>2. LibraryType' /\ ItemsType'
    BY <1>0, <1>2 DEF init_mmap, GivesUp, LibraryType, ItemsType
  <2>3. CallOK'
    BY <1>0, <1>2 DEF init_mmap, GivesUp, LibraryType, CallOK
  <2>4. QED
    BY <2>1, <2>2, <2>3, TypeParts DEF TypeInv
<1>3. CASE push_refused(a)
  <2>1. LaunchType' /\ FaultsType' /\ LibraryType' /\ ItemsType'
    BY <1>0, <1>3 DEF push_refused, LaunchType, FaultsType, LibraryType, ItemsType
  <2>2. CallOK'
    BY <1>0, <1>3 DEF push_refused, LibraryType, CallOK
  <2>3. QED
    BY <2>1, <2>2, TypeParts DEF TypeInv
<1>4. CASE push(a)
  <2>1. LaunchType' /\ FaultsType' /\ ItemsType'
    BY <1>0, <1>4 DEF push, LaunchType, FaultsType, ItemsType
  <2>2. queue[a] \in Daemons
    BY <1>0, <1>4 DEF push, Accepts, LibraryType
  <2>3. LibraryType'
    BY <1>0, <1>4, <2>2 DEF push, LibraryType
  <2>4. CallOK'
    BY <1>0, <1>4, <2>2 DEF push, LibraryType, CallOK
  <2>5. QED
    BY <2>1, <2>3, <2>4, TypeParts DEF TypeInv
<1>5. CASE lock_tail(a)
  <2>1. LaunchType' /\ FaultsType' /\ LibraryType' /\ ItemsType'
    BY <1>0, <1>5 DEF lock_tail, LaunchType, FaultsType, LibraryType, ItemsType
  <2>2. CallOK'
    BY <1>0, <1>5 DEF lock_tail, LibraryType, CallOK
  <2>3. QED
    BY <2>1, <2>2, TypeParts DEF TypeInv
<1>6. CASE store(a)
  <2>1. LaunchType' /\ FaultsType' /\ LibraryType'
    BY <1>0, <1>6 DEF store, LaunchType, FaultsType, LibraryType
  <2>2. [by |-> a, names |-> pid[a]] \in Requests
    BY <1>0, <1>6 DEF store, CallOK, Requests
  <2>3. ItemsType'
    <3> DEFINE e == [by |-> a, names |-> pid[a]]
    <3>1. \A d \in Daemons : Append(items[d], e) \in Seq(Requests)
      BY <1>0, <2>2, AppendProperties DEF ItemsType
    <3>2. items' = [items EXCEPT ![queue[a]] = Append(@, e)]
      BY <1>6 DEF store
    <3> HIDE DEF e
    <3>3. QED
      BY <1>0, <3>1, <3>2 DEF ItemsType
  <2>4. CallOK'
    BY <1>0, <1>6 DEF store, LibraryType, CallOK
  <2>5. QED
    BY <2>1, <2>3, <2>4, TypeParts DEF TypeInv
<1>7. QED
  BY <1>2, <1>3, <1>4, <1>5, <1>6 DEF call

LEMMA ProcessKeepsType ==
  ASSUME TypeInv, NEW a \in Applications,
         exec(a) \/ kill_application(a) \/ init_vars_once(a) \/ schedule_download(a)
  PROVE  TypeInv'
<1> USE DEF ApcSteps, InCall
<1>0. LaunchType /\ FaultsType /\ LibraryType /\ ItemsType /\ CallOK
  BY TypeParts DEF TypeInv
<1>1. "system" \in Kinds /\ "kill" \in Kinds /\ NoOne \notin Applications
  BY LifecycleAssumption DEF Kinds
<1>2. LaunchType' /\ FaultsType' /\ ItemsType'
  <2>1. UNCHANGED <<startup, items>>
    BY DEF exec, kill_application, init_vars_once, schedule_download
  <2>2. lock' \in [Daemons -> Applications \cup {NoOne}] /\ UNCHANGED <<shm, object, launch, bucket>>
    BY <1>0, <2>1 DEF LaunchType
  <2>3. Works \/ \E k \in Kinds : Fails(k)
    BY <1>1 DEF exec, kill_application, init_vars_once, Opens, Opens, schedule_download
  <2>4. QED
    BY <1>0, <2>1, <2>2, <2>3, ApplicationKeepsLaunch DEF ItemsType
<1>3. CASE exec(a)
  <2>1. LibraryType' /\ CallOK'
    BY <1>0, <1>3 DEF exec, LibraryType, CallOK
  <2>2. QED
    BY <1>2, <2>1, TypeParts DEF TypeInv
<1>4. CASE kill_application(a)
  <2>1. LibraryType'
    BY <1>0, <1>4 DEF kill_application, LibraryType
  <2>2. CallOK'
    BY <1>0, <1>4 DEF kill_application, LibraryType, CallOK
  <2>3. QED
    BY <1>2, <2>1, <2>2, TypeParts DEF TypeInv
<1>5. CASE init_vars_once(a)
  <2>1. calls' \in [Applications -> 0..MaxCalls]
    BY <1>0, <1>5, LifecycleAssumption DEF init_vars_once, Called, LibraryType
  <2>2. LibraryType'
    <3>1. pid' \in [Applications -> Applications \cup {NoOne}] /\ UNCHANGED <<heir, contents>>
      BY <1>0, <1>5 DEF init_vars_once, LibraryType
    <3>2. CASE Opens(a)
      <4>1. shm \in Daemons
        BY <1>0, <3>2 DEF Opens, LaunchType
      <4>2. file' \in [Applications -> Daemons \cup {NoOne}]
        BY <1>0, <3>2, <4>1 DEF Opens, LibraryType
      <4>3. apc' \in [Applications -> ApcSteps] /\ UNCHANGED <<once, queue>>
        BY <1>0, <3>2 DEF Opens, LibraryType
      <4>4. QED
        BY <1>0, <2>1, <3>1, <4>2, <4>3 DEF LibraryType
    <3>3. CASE GivesUp(a)
      <4>1. apc' \in [Applications -> ApcSteps]
        BY <1>0, <3>3 DEF GivesUp, LibraryType
      <4>2. once' \in [Applications -> BOOLEAN] /\ UNCHANGED <<queue, file>>
        BY <1>0, <3>3 DEF GivesUp, LibraryType
      <4>3. QED
        BY <1>0, <2>1, <3>1, <4>1, <4>2 DEF LibraryType
    <3>4. QED
      BY <1>5, <3>2, <3>3 DEF init_vars_once
  <2>3. CallOK'
    BY <1>0, <1>5 DEF init_vars_once, Opens, GivesUp, LibraryType, LaunchType, CallOK
  <2>4. QED
    BY <1>2, <2>2, <2>3, TypeParts DEF TypeInv
<1>6. CASE schedule_download(a)
  <2>1. calls' \in [Applications -> 0..MaxCalls]
    BY <1>0, <1>6, LifecycleAssumption DEF schedule_download, Called, LibraryType
  <2>2. LibraryType'
    BY <1>0, <1>6, <2>1 DEF schedule_download, LibraryType
  <2>3. CallOK'
    BY <1>0, <1>6 DEF schedule_download, LibraryType, CallOK
  <2>4. QED
    BY <1>2, <2>2, <2>3, TypeParts DEF TypeInv
<1>7. QED
  BY <1>3, <1>4, <1>5, <1>6

LEMMA ForkKeepsType ==
  ASSUME TypeInv, NEW a \in Applications, NEW child \in Applications, fork(a, child)
  PROVE  TypeInv'
<1> USE DEF ApcSteps, InCall
<1>0. LaunchType /\ FaultsType /\ LibraryType /\ ItemsType /\ CallOK
  BY TypeParts DEF TypeInv
<1>1. LaunchType' /\ FaultsType' /\ ItemsType'
  BY <1>0 DEF fork, LaunchType, FaultsType, ItemsType
<1>2. LibraryType'
  BY <1>0 DEF fork, LibraryType
<1>3. CallOK'
  BY <1>0 DEF fork, LibraryType, CallOK
<1>4. QED
  BY <1>1, <1>2, <1>3, TypeParts DEF TypeInv

\* A served request leaves the others as they were, and ends its own call at most.
LEMMA DownloadKeepsType ==
  ASSUME TypeInv, NEW d \in Daemons, download(d)
  PROVE  TypeInv'
<1>0. LaunchType /\ FaultsType /\ LibraryType /\ ItemsType /\ CallOK
  BY TypeParts DEF TypeInv
<1>1. LaunchType' /\ FaultsType'
  BY <1>0 DEF download, LaunchType, FaultsType
<1>2. ItemsType'
  <2>1. items[d] \in Seq(Requests) /\ items[d] # <<>>
    BY <1>0 DEF download, ItemsType
  <2>2. Tail(items[d]) \in Seq(Requests)
    BY <2>1, HeadTailProperties
  <2>3. items' = [items EXCEPT ![d] = Tail(items[d])]
    BY DEF download
  <2>4. QED
    BY <1>0, <2>2, <2>3 DEF ItemsType
<1>3. PICK a : apc' = [apc EXCEPT ![a] = IF intact[d] /\ Head(items[d]).by = a /\ @ = "poll"
                                          THEN "idle" ELSE @]
  BY DEF download
<1>4. \A b \in Applications : apc'[b] = apc[b] \/ (apc'[b] = "idle" /\ apc[b] = "poll")
  BY <1>0, <1>3 DEF LibraryType
<1>5. LibraryType'
  <2>1. apc' \in [Applications -> ApcSteps]
    BY <1>0, <1>3, <1>4 DEF LibraryType, ApcSteps
  <2>2. QED
    BY <1>0, <2>1 DEF download, LibraryType
<1>6. CallOK'
  <2>1. UNCHANGED <<once, queue, pid, file, heir>>
    BY DEF download
  <2>2. QED
    BY <1>0, <1>4, <2>1 DEF CallOK, InCall
<1>7. QED
  BY <1>1, <1>2, <1>5, <1>6, TypeParts DEF TypeInv

THEOREM LifecycleTypeCorrect == Spec => []TypeInv
<1>1. LifecycleInit => TypeInv
  <2> SUFFICES ASSUME LifecycleInit PROVE TypeInv
    OBVIOUS
  <2>1. LaunchType /\ FaultsType
    BY StartupAssumption
    DEF LifecycleInit, Init, LaunchType, FaultsType, PcSteps, Ended, Stages, Unset, AnyConfiguration
  <2>2. LibraryType
    BY LifecycleAssumption DEF LifecycleInit, LibraryType, ApcSteps
  <2>3. ItemsType
    BY EmptySeq DEF LifecycleInit, ItemsType
  <2>4. CallOK
    BY DEF LifecycleInit, CallOK, InCall
  <2>5. QED
    BY <2>1, <2>2, <2>3, <2>4, TypeParts DEF TypeInv
<1>2. TypeInv /\ [LifecycleNext]_vars => TypeInv'
  <2> SUFFICES ASSUME TypeInv, [LifecycleNext]_vars PROVE TypeInv'
    OBVIOUS
  <2>1. CASE UNCHANGED vars
    BY <2>1 DEF vars, TypeInv, TypeOK, StartupTypeOK, CallOK
  <2>2. ASSUME NEW d \in Daemons, Launch(d), UNCHANGED others PROVE TypeInv'
    BY <2>2, LaunchKeepsTypeInv DEF others
  <2>3. CASE remove_object /\ UNCHANGED others
    <3>1. LaunchType' /\ FaultsType'
      BY <2>3, TypeParts DEF TypeInv, remove_object, LaunchType, FaultsType
    <3>2. LibraryType' /\ ItemsType'
      BY <2>3, TypeParts DEF TypeInv, others, LibraryType, ItemsType
    <3>3. CallOK'
      BY <2>3 DEF TypeInv, others, CallOK
    <3>4. QED
      BY <3>1, <3>2, <3>3, TypeParts DEF TypeInv
  <2>4. ASSUME NEW d \in Daemons, kill_in_queue(d) PROVE TypeInv'
    BY <2>4, LaunchKeepsTypeInv DEF kill_in_queue, Launch
  <2>5. QED
    BY <2>1, <2>2, <2>3, <2>4, NextCases, CallKeepsType, ProcessKeepsType, ForkKeepsType,
       DownloadKeepsType
<1>3. QED
  BY <1>1, <1>2, PTL DEF Spec

-----------------------------------------------------------------------------
(* The name of the object, its stage, and the bucket *)

OwnSteps   == QueueSteps \cup DataSteps \cup ConnectSteps \cup ThreadSteps \cup {"running"}
BucketDone == ThreadSteps \cup {"running"}

NameInv == NameKept /\ NameLeft

\* How far the object of a launch is at each of its steps.
StagedAt(d) ==
  /\ pc[d] \in {"off", "read_conf", "open_log", "shm_open"} => object[d] = "none"
  /\ pc[d] = "ftruncate" => object[d] = "empty"
  /\ pc[d] \in {"mmap", "limits"} => object[d] = "zeroed"
  /\ pc[d] = "offsets" => object[d] = "limited"
  /\ pc[d] = "mutexes" => object[d] = "placed"
  /\ pc[d] \in DataSteps \cup ConnectSteps \cup BucketDone => object[d] = "ready"

Staged == \A d \in Daemons : StagedAt(d)

\* A writer past data_max_size has found an object whose mutexes were initialised, or is
\* the reason why its object counts as pushed into too early.
WriterOK ==
  \A a \in Applications :
    /\ apc[a] \in {"lock", "store"} /\ ~early[queue[a]] => object[queue[a]] = "ready"
    /\ apc[a] = "store" /\ ~early[queue[a]] => lock[queue[a]] = a

HeaderOK == \A d \in Daemons : ~early[d] => intact[d]

\* Only who has lived has pushed, and fork() fills in no process that has.
RequestOK ==
  \A d \in Daemons : \A i \in 1..Len(items[d]) :
    LET b == items[d][i].by
    IN  /\ items[d][i].names = b \/ heir[b]
        /\ apc[b] # "unborn"

WritersInv == Staged /\ WriterOK /\ HeaderOK
\* What a step of a launch does to the name and to the steps.
NameStep(d) ==
  /\ pc[d] \notin Ended
  /\ \A e \in Daemons : e # d => pc'[e] = pc[e]
  /\ pc[d] \in OwnSteps => pc'[d] \in OwnSteps \cup Ended
  /\ \/ /\ shm' = shm
        /\ pc'[d] \in OwnSteps => pc[d] \in OwnSteps
        /\ pc[d] \in OwnSteps => pc'[d] \in OwnSteps \cup {"abandoned", "killed"}
     \/ shm = NoOne /\ shm' = d /\ pc'[d] \in OwnSteps
     \/ pc[d] \in OwnSteps /\ shm' = NoOne /\ pc'[d] \notin OwnSteps

\* To the bucket.
BucketStep(d) ==
  /\ bucket = "own" => bucket' = "own"
  /\ pc'[d] \in BucketDone => pc[d] \in BucketDone \/ bucket' = "own"

\* To the objects.
StageStep(d) ==
  /\ \A e \in Daemons : e # d => object'[e] = object[e] /\ lock'[e] = lock[e]
  /\ object[d] = "ready" => object'[d] = "ready" /\ lock'[d] = lock[d]
  /\ lock'[d] = lock[d] \/ lock'[d] = NoOne
  /\ StagedAt(d)'

LEMMA LaunchShape ==
  ASSUME LaunchType, NEW d \in Daemons, StagedAt(d), Launch(d)
  PROVE  NameStep(d) /\ BucketStep(d) /\ StageStep(d)
<1> USE DEF PcSteps, Starting, QueueSteps, DataSteps, ConnectSteps, ThreadSteps, OwnSteps, BucketDone,
            Ended, NameStep, BucketStep, StageStep, StagedAt, LaunchType
<1>1. CASE main(d)
  BY <1>1 DEF main
<1>2. CASE read_conf(d)
  BY <1>2 DEF read_conf
<1>3. CASE OPEN_LOG(d)
  BY <1>3 DEF OPEN_LOG
<1>4. CASE shm_open(d)
  BY <1>4 DEF shm_open, Named
<1>5. CASE ftruncate(d)
  BY <1>5 DEF ftruncate, Step, Undo
<1>6. CASE mmap(d)
  BY <1>6 DEF mmap, Step, Undo
<1>7. CASE limits(d)
  BY <1>7 DEF limits, Step
<1>8. CASE offsets(d)
  BY <1>8 DEF offsets, Step
<1>9. CASE mutexes(d)
  BY <1>9 DEF mutexes, Step
<1>10. CASE download_queue(d)
  BY <1>10 DEF download_queue, Continue, Undo
<1>11. CASE upload_queue(d)
  BY <1>11 DEF upload_queue, Continue, Undo
<1>12. CASE S3_initialize(d)
  BY <1>12 DEF S3_initialize, Request, Continue, Undo
<1>13. CASE s3_bucket_exists(d)
  BY <1>13 DEF s3_bucket_exists, Request, Continue, Repeat
<1>14. CASE s3_create_bucket(d)
  BY <1>14 DEF s3_create_bucket, Continue, Repeat, Undo
<1>15. CASE scan_thread(d)
  BY <1>15 DEF scan_thread
<1>16. CASE download_thread(d)
  BY <1>16 DEF download_thread
<1>17. CASE upload_thread(d)
  BY <1>17 DEF upload_thread
<1>18. CASE scan_fs_routine(d)
  BY <1>18 DEF scan_fs_routine, Running, Alive
<1>19. CASE kill(d)
  BY <1>19 DEF kill, Alive
<1>20. QED
  BY <1>1, <1>2, <1>3, <1>4, <1>5, <1>6, <1>7, <1>8, <1>9, <1>10, <1>11, <1>12, <1>13,
     <1>14, <1>15, <1>16, <1>17, <1>18, <1>19
  DEF Launch, step, init_data, init_queue, start_routines
\* Everything but a launch leaves the name, the steps and the bucket alone.
LEMMA ApplicationShape ==
  ASSUME \/ \E a \in Applications :
              exec(a) \/ kill_application(a) \/ init_vars_once(a) \/ schedule_download(a) \/ call(a)
         \/ \E a, child \in Applications : fork(a, child)
         \/ \E d \in Daemons : download(d)
  PROVE  UNCHANGED <<shm, object, pc, bucket>>
BY DEF exec, kill_application, init_vars_once, schedule_download, call, init_mmap, push_refused,
       push, lock_tail, store, fork, download

\* The steps of Next, seen from Startup.
LEMMA StepCases ==
  ASSUME [LifecycleNext]_vars
  PROVE  \/ \E d \in Daemons : Launch(d)
         \/ remove_object
         \/ UNCHANGED <<shm, object, pc, bucket>>
<1>1. CASE UNCHANGED vars
  BY <1>1 DEF vars, startup
<1>2. CASE LifecycleNext
  BY <1>2, NextCases, ApplicationShape DEF kill_in_queue, Launch
<1>3. QED
  BY <1>1, <1>2

\* Staged holds of every launch at every step.
LEMMA StagedKept ==
  ASSUME TypeInv, Staged, [LifecycleNext]_vars
  PROVE  Staged'
<1>1. LaunchType
  BY TypeParts DEF TypeInv
<1>2. CASE \E d \in Daemons : Launch(d)
  <2>1. PICK d \in Daemons : Launch(d)
    BY <1>2
  <2>2. NameStep(d) /\ StageStep(d)
    BY <1>1, <2>1, LaunchShape DEF Staged
  <2>3. \A e \in Daemons : e # d => pc'[e] = pc[e] /\ object'[e] = object[e]
    BY <2>2 DEF NameStep, StageStep
  <2>4. \A e \in Daemons : e # d => StagedAt(e)'
    BY <2>3 DEF Staged, StagedAt
  <2>5. QED
    BY <2>2, <2>4 DEF StageStep, Staged
<1>3. CASE remove_object
  BY <1>3 DEF remove_object, Staged, StagedAt
<1>4. CASE UNCHANGED <<shm, object, pc, bucket>>
  <2>1. \A e \in Daemons : StagedAt(e) <=> StagedAt(e)'
    BY <1>4 DEF StagedAt
  <2>2. QED
    BY <2>1 DEF Staged
<1>5. QED
  BY <1>2, <1>3, <1>4, StepCases

THEOREM ObjectsStaged == Spec => []Staged
<1>1. LifecycleInit => Staged
  <2>1. {"off", "failed"} \cap (DataSteps \cup ConnectSteps \cup BucketDone) = {}
    BY DEF BucketDone, DataSteps, ConnectSteps, ThreadSteps
  <2>2. LifecycleInit => /\ pc \in [Daemons -> {"off", "failed"}]
                         /\ object = [d \in Daemons |-> "none"]
    BY Zenon DEF LifecycleInit, Init
  <2>3. QED
    BY <2>1, <2>2 DEF Staged, StagedAt
<1>2. TypeInv /\ Staged /\ [LifecycleNext]_vars => Staged'
  BY StagedKept
<1>3. QED
  BY <1>1, <1>2, LifecycleTypeCorrect, PTL DEF Spec

LEMMA OwnsIsStep == \A d : Owns(d) <=> pc[d] \in OwnSteps
BY DEF Owns, OwnSteps

LEMMA OwnsIsStepNext == \A d : Owns(d)' <=> pc'[d] \in OwnSteps
BY DEF Owns, OwnSteps

\* A daemon that has its queue keeps its name, and a launch that has ended without being
\* killed or failing to make a thread leaves it free: each needs the other, for a launch
\* that undoes its start removes whatever the name names.
LEMMA NameOwned == Spec => [](NameKept /\ NameLeft)
<1>1. LifecycleInit => NameInv
  BY DEF LifecycleInit, Init, NameInv, NameKept, NameLeft, Owns, QueueSteps, DataSteps, ConnectSteps,
         ThreadSteps
<1>2. TypeInv /\ Staged /\ NameInv /\ [LifecycleNext]_vars => NameInv'
  <2> SUFFICES ASSUME TypeInv, Staged, NameInv, [LifecycleNext]_vars PROVE NameInv'
    OBVIOUS
  <2>1. LaunchType /\ NoOne \notin Daemons
    BY TypeParts, StartupAssumption DEF TypeInv
  <2>2. /\ \A d \in Daemons : pc[d] \in OwnSteps => shm = d
        /\ shm # NoOne => pc[shm] \in OwnSteps \cup {"abandoned", "killed"}
    BY OwnsIsStep DEF NameInv, NameKept, NameLeft
  <2>3. SUFFICES /\ \A d \in Daemons : pc'[d] \in OwnSteps => shm' = d
                 /\ shm' # NoOne => pc'[shm'] \in OwnSteps \cup {"abandoned", "killed"}
    BY OwnsIsStepNext DEF NameInv, NameKept, NameLeft
  <2>4. CASE \E d \in Daemons : Launch(d)
    <3>1. PICK d \in Daemons : Launch(d)
      BY <2>4
    <3>2. NameStep(d)
      BY <2>1, <3>1, LaunchShape DEF Staged
    <3>3. QED
      BY <2>1, <2>2, <3>2 DEF NameStep, LaunchType, Ended
  <2>5. CASE remove_object
    BY <2>1, <2>2, <2>5, OwnsIsStep DEF remove_object, Alive, Starting, OwnSteps
  <2>6. CASE UNCHANGED <<shm, object, pc, bucket>>
    BY <2>2, <2>6
  <2>7. QED
    BY <2>4, <2>5, <2>6, StepCases
<1>3. NameInv => NameKept /\ NameLeft
  BY DEF NameInv
<1>4. QED
  BY <1>1, <1>2, <1>3, LifecycleTypeCorrect, ObjectsStaged, PTL DEF Spec

\* A daemon keeps the name of its queue, although every launch beside it that fails
\* calls shm_unlink on whatever the name names.
THEOREM NameCorrect == Spec => []NameKept
  BY NameOwned, PTL

\* A launch that fails frees the name, unless it is killed or fails in start_routines.
THEOREM NameFreed == Spec => []NameLeft
  BY NameOwned, PTL

\* Past s3_connect a daemon has a bucket of its own, whatever the store has answered.
THEOREM BucketCorrect == Spec => []BucketOwned
<1>1. LifecycleInit => BucketOwned
  BY DEF LifecycleInit, Init, BucketOwned, ThreadSteps
<1>2. TypeInv /\ Staged /\ BucketOwned /\ [LifecycleNext]_vars => BucketOwned'
  <2> SUFFICES ASSUME TypeInv, Staged, BucketOwned, [LifecycleNext]_vars PROVE BucketOwned'
    OBVIOUS
  <2>1. LaunchType
    BY TypeParts DEF TypeInv
  <2>2. CASE \E d \in Daemons : Launch(d)
    <3>1. PICK d \in Daemons : Launch(d)
      BY <2>2
    <3>2. NameStep(d) /\ BucketStep(d)
      BY <2>1, <3>1, LaunchShape DEF Staged
    <3>3. QED
      BY <3>2 DEF NameStep, BucketStep, BucketOwned, BucketDone
  <2>3. CASE remove_object
    BY <2>3 DEF remove_object, BucketOwned
  <2>4. CASE UNCHANGED <<shm, object, pc, bucket>>
    BY <2>4 DEF BucketOwned
  <2>5. QED
    BY <2>2, <2>3, <2>4, StepCases
<1>3. QED
  BY <1>1, <1>2, LifecycleTypeCorrect, ObjectsStaged, PTL DEF Spec
-----------------------------------------------------------------------------
(* Writers *)

PushInv == WriterOK /\ HeaderOK

\* A launch leaves the ready objects and their mutexes alone.
LEMMA LaunchKeepsPush ==
  ASSUME TypeInv, Staged, PushInv, NEW d \in Daemons, Launch(d),
         UNCHANGED <<apc, queue, early, intact>>
  PROVE  PushInv'
<1>1. LaunchType /\ LibraryType /\ CallOK
  BY TypeParts DEF TypeInv
<1>2. \A e \in Daemons : object[e] = "ready" => object'[e] = "ready" /\ lock'[e] = lock[e]
  BY <1>1, LaunchShape DEF Staged, StageStep
<1>3. WriterOK'
  <2> SUFFICES ASSUME NEW a \in Applications, apc[a] \in {"lock", "store"}, ~early[queue[a]]
               PROVE  /\ object'[queue[a]] = "ready"
                      /\ apc[a] = "store" => lock'[queue[a]] = a
    BY DEF WriterOK
  <2>1. queue[a] \in Daemons
    BY <1>1 DEF CallOK
  <2>2. /\ object[queue[a]] = "ready"
        /\ apc[a] = "store" => lock[queue[a]] = a
    BY DEF PushInv, WriterOK
  <2>3. QED
    BY <1>2, <2>1, <2>2
<1>4. HeaderOK'
  BY DEF PushInv, HeaderOK
<1>5. QED
  BY <1>3, <1>4 DEF PushInv

\* A step that locks nothing and after which nobody is in a push who was not before.
LEMMA OthersKeepPush ==
  ASSUME PushInv, UNCHANGED <<object, lock, early, intact>>,
         \A a \in Applications :
           apc'[a] \in {"lock", "store"} => apc'[a] = apc[a] /\ queue'[a] = queue[a]
  PROVE  PushInv'
BY DEF PushInv, WriterOK, HeaderOK

LEMMA PushKeepsPush ==
  ASSUME TypeInv, PushInv, NEW a \in Applications, push(a)
  PROVE  PushInv'
<1>1. LaunchType /\ LibraryType /\ CallOK
  BY TypeParts DEF TypeInv
<1>2. queue[a] \in Daemons
  BY <1>1 DEF push, Accepts, LibraryType
<1>3. early' = [early EXCEPT ![queue[a]] = early[queue[a]] \/ object[queue[a]] # "ready"]
  BY DEF push
<1>4. \A d \in Daemons : ~early'[d] => ~early[d]
  BY <1>1, <1>3 DEF LibraryType
<1>5. ~early'[queue[a]] => object[queue[a]] = "ready"
  BY <1>1, <1>2, <1>3 DEF LibraryType
<1>6. WriterOK'
  <2> SUFFICES ASSUME NEW b \in Applications, apc'[b] \in {"lock", "store"}, ~early'[queue[b]]
               PROVE  /\ object[queue[b]] = "ready"
                      /\ apc'[b] = "store" => lock[queue[b]] = b
    BY DEF WriterOK, push
  <2>1. CASE a = b
    BY <1>1, <1>5, <2>1 DEF push, LibraryType
  <2>2. CASE a # b
    <3>1. apc'[b] = apc[b]
      BY <1>1, <2>2 DEF push, LibraryType
    <3>2. queue[b] \in Daemons
      BY <1>1, <3>1 DEF CallOK
    <3>3. QED
      BY <1>4, <3>1, <3>2 DEF PushInv, WriterOK
  <2>3. QED
    BY <2>1, <2>2
<1>7. HeaderOK'
  BY <1>4 DEF PushInv, HeaderOK, push
<1>8. QED
  BY <1>6, <1>7 DEF PushInv

LEMMA LockKeepsPush ==
  ASSUME TypeInv, PushInv, NEW a \in Applications, lock_tail(a)
  PROVE  PushInv'
<1>1. LaunchType /\ LibraryType /\ CallOK
  BY TypeParts DEF TypeInv
<1>2. queue[a] \in Daemons /\ NoOne \notin Applications
  BY <1>1, LifecycleAssumption DEF lock_tail, CallOK
<1>3. \A b \in Applications : b # a => apc'[b] = apc[b]
  BY <1>1 DEF lock_tail, LibraryType
<1>4. WriterOK'
  <2> SUFFICES ASSUME NEW b \in Applications, apc'[b] \in {"lock", "store"}, ~early[queue[b]]
               PROVE  /\ object[queue[b]] = "ready"
                      /\ apc'[b] = "store" => lock'[queue[b]] = b
    BY DEF WriterOK, lock_tail
  <2>1. CASE a = b
    BY <1>1, <1>2, <2>1 DEF lock_tail, LibraryType, LaunchType, PushInv, WriterOK
  <2>2. CASE a # b
    <3>1. apc[b] = apc'[b] /\ queue[b] \in Daemons
      BY <1>1, <1>3, <2>2 DEF CallOK
    <3>2. object[queue[b]] = "ready" /\ (apc[b] = "store" => lock[queue[b]] = b)
      BY <3>1 DEF PushInv, WriterOK
    <3>3. apc[b] = "store" => queue[b] # queue[a]
      BY <1>2, <3>2 DEF lock_tail
    <3>4. queue[b] # queue[a] => lock'[queue[b]] = lock[queue[b]]
      BY <1>1, <3>1 DEF lock_tail, LaunchType
    <3>5. QED
      BY <3>1, <3>2, <3>3, <3>4
  <2>3. QED
    BY <2>1, <2>2
<1>5. HeaderOK'
  BY DEF PushInv, HeaderOK, lock_tail
<1>6. QED
  BY <1>4, <1>5 DEF PushInv

LEMMA StoreKeepsPush ==
  ASSUME TypeInv, PushInv, NEW a \in Applications, store(a)
  PROVE  PushInv'
<1>1. LaunchType /\ LibraryType /\ CallOK
  BY TypeParts DEF TypeInv
<1>2. queue[a] \in Daemons
  BY <1>1 DEF store, CallOK
<1>3. \A b \in Applications : b # a => apc'[b] = apc[b]
  BY <1>1 DEF store, LibraryType
<1>4. WriterOK'
  <2> SUFFICES ASSUME NEW b \in Applications, apc'[b] \in {"lock", "store"}, ~early[queue[b]]
               PROVE  /\ object[queue[b]] = "ready"
                      /\ apc'[b] = "store" => lock'[queue[b]] = b
    BY DEF WriterOK, store
  <2>1. CASE a = b
    BY <1>1, <2>1 DEF store, LibraryType
  <2>2. CASE a # b
    <3>1. apc[b] = apc'[b] /\ queue[b] \in Daemons
      BY <1>1, <1>3, <2>2 DEF CallOK
    <3>2. object[queue[b]] = "ready" /\ (apc[b] = "store" => lock[queue[b]] = b)
      BY <3>1 DEF PushInv, WriterOK
    <3>3. apc[a] = "store" /\ (~early[queue[a]] => lock[queue[a]] = a)
      BY DEF PushInv, WriterOK, store
    <3>4. apc[b] = "store" => queue[b] # queue[a]
      BY <2>2, <3>2, <3>3
    <3>5. queue[b] # queue[a] => lock'[queue[b]] = lock[queue[b]]
      BY <1>1, <3>1 DEF store, LaunchType
    <3>6. QED
      BY <3>1, <3>2, <3>4, <3>5
  <2>3. QED
    BY <2>1, <2>2
<1>5. HeaderOK'
  <2> SUFFICES ASSUME NEW d \in Daemons, ~early[d] PROVE intact'[d]
    BY DEF HeaderOK, store
  <2>1. intact[d]
    BY DEF PushInv, HeaderOK
  <2>2. CASE d = queue[a]
    <3>1. object[d] = "ready"
      BY <2>2 DEF PushInv, WriterOK, store
    <3>2. intact' = [intact EXCEPT ![d] = intact[d] /\ object[d] # "limited"]
      BY <2>2 DEF store
    <3>3. intact'[d] = (intact[d] /\ object[d] # "limited")
      BY <1>1, <3>2 DEF LibraryType
    <3>4. QED
      BY <2>1, <3>1, <3>3
  <2>3. CASE d # queue[a]
    BY <1>1, <2>1, <2>3 DEF store, LibraryType
  <2>4. QED
    BY <2>2, <2>3
<1>6. QED
  BY <1>4, <1>5 DEF PushInv

\* Nobody pushed before queue_init was through with the object: then its tail_mutex keeps
\* its writers apart, and its header is as queue_init has left it.
THEOREM WritersCorrect == Spec => []WritersApart
<1>1. LifecycleInit => PushInv
  BY DEF LifecycleInit, PushInv, WriterOK, HeaderOK
<1>2. TypeInv /\ Staged /\ PushInv /\ [LifecycleNext]_vars => PushInv'
  <2> SUFFICES ASSUME TypeInv, Staged, PushInv, [LifecycleNext]_vars PROVE PushInv'
    OBVIOUS
  <2>0. LaunchType /\ LibraryType /\ CallOK
    BY TypeParts DEF TypeInv
  <2>1. CASE UNCHANGED vars
    BY <2>1, OthersKeepPush DEF vars, startup
  <2>2. ASSUME NEW d \in Daemons, Launch(d), UNCHANGED others PROVE PushInv'
    BY <2>2, LaunchKeepsPush DEF others
  <2>3. CASE remove_object /\ UNCHANGED others
    BY <2>3, OthersKeepPush DEF remove_object, others
  <2>4. ASSUME NEW a \in Applications,
               exec(a) \/ kill_application(a) \/ init_vars_once(a) \/ schedule_download(a)
                 \/ init_mmap(a) \/ push_refused(a)
        PROVE  PushInv'
    <3>1. UNCHANGED <<object, lock, early, intact>>
      BY <2>4 DEF exec, kill_application, init_vars_once, schedule_download, init_mmap, push_refused
    <3>2. \A b \in Applications :
            apc'[b] \in {"lock", "store"} => apc'[b] = apc[b] /\ queue'[b] = queue[b]
      BY <2>0, <2>4
      DEF exec, kill_application, init_vars_once, Opens, schedule_download, init_mmap, push_refused, GivesUp,
          LibraryType
    <3>3. QED
      BY <3>1, <3>2, OthersKeepPush
  <2>5. ASSUME NEW a \in Applications, call(a) PROVE PushInv'
    BY <2>4, <2>5, PushKeepsPush, LockKeepsPush, StoreKeepsPush DEF call
  <2>6. ASSUME NEW a \in Applications, NEW child \in Applications, fork(a, child) PROVE PushInv'
    <3>1. \A b \in Applications :
            apc'[b] \in {"lock", "store"} => apc'[b] = apc[b] /\ queue'[b] = queue[b]
      BY <2>0, <2>6 DEF fork, LibraryType
    <3>2. QED
      BY <2>6, <3>1, OthersKeepPush DEF fork
  <2>7. ASSUME NEW d \in Daemons, download(d) PROVE PushInv'
    <3>1. PICK a : apc' = [apc EXCEPT ![a] = IF intact[d] /\ Head(items[d]).by = a /\ @ = "poll"
                                              THEN "idle" ELSE @]
      BY <2>7 DEF download
    <3>2. \A b \in Applications :
            apc'[b] \in {"lock", "store"} => apc'[b] = apc[b] /\ queue'[b] = queue[b]
      BY <2>0, <2>7, <3>1 DEF download, LibraryType
    <3>3. QED
      BY <2>7, <3>2, OthersKeepPush DEF download
  <2>8. ASSUME NEW d \in Daemons, kill_in_queue(d) PROVE PushInv'
    BY <2>8, LaunchKeepsPush DEF kill_in_queue, Launch
  <2>9. QED
    BY <2>1, <2>2, <2>3, <2>4, <2>5, <2>6, <2>7, <2>8, NextCases
<1>3. TypeInv /\ PushInv => WritersApart
  BY DEF PushInv, WriterOK, HeaderOK, WritersApart
<1>4. QED
  BY <1>1, <1>2, <1>3, LifecycleTypeCorrect, ObjectsStaged, PTL DEF Spec
-----------------------------------------------------------------------------
(* Requests *)

LEMMA RequestBy ==
  ASSUME NEW s \in Seq(Requests), NEW i \in 1..Len(s)
  PROVE  s[i].by \in Applications
<1>1. s[i] \in Requests
  BY ElementOfSeq
<1>2. QED
  BY <1>1 DEF Requests

\* A step that pushes nothing, brings nobody back to "unborn" and changes heir of nobody
\* who was ever alive.
LEMMA RequestsStay ==
  ASSUME TypeInv, RequestOK, UNCHANGED items,
         \A b \in Applications : apc[b] # "unborn" => apc'[b] # "unborn" /\ heir'[b] = heir[b]
  PROVE  RequestOK'
<1>1. \A d \in Daemons : \A i \in 1..Len(items[d]) : items[d][i].by \in Applications
  BY TypeParts, RequestBy DEF TypeInv, ItemsType
<1>2. QED
  BY <1>1 DEF RequestOK

LEMMA StoreKeepsRequests ==
  ASSUME TypeInv, RequestOK, NEW a \in Applications, store(a)
  PROVE  RequestOK'
<1> DEFINE e == [by |-> a, names |-> pid[a]]
<1>1. LibraryType /\ ItemsType /\ CallOK
  BY TypeParts DEF TypeInv
<1>2. queue[a] \in Daemons /\ e \in Requests /\ (pid[a] = a \/ heir[a])
  BY <1>1 DEF store, CallOK, InCall, Requests
<1>3. items' = [items EXCEPT ![queue[a]] = Append(items[queue[a]], e)]
  BY DEF store
<1>4. \A b \in Applications : apc[b] # "unborn" => apc'[b] # "unborn"
  BY <1>1 DEF store, LibraryType
<1>5. apc'[a] # "unborn" /\ heir' = heir
  BY <1>1 DEF store, LibraryType
<1> SUFFICES ASSUME NEW d \in Daemons, NEW i \in 1..Len(items'[d])
             PROVE  LET b == items'[d][i].by
                    IN  /\ items'[d][i].names = b \/ heir[b]
                        /\ apc'[b] # "unborn"
  BY <1>5 DEF RequestOK
<1>6. items[d] \in Seq(Requests)
  BY <1>1 DEF ItemsType
<1>7. ASSUME i \in 1..Len(items[d]), items'[d][i] = items[d][i]
      PROVE  LET b == items'[d][i].by
             IN  /\ items'[d][i].names = b \/ heir[b]
                 /\ apc'[b] # "unborn"
  <2>1. items[d][i].by \in Applications
    BY <1>6, <1>7, RequestBy
  <2>2. QED
    BY <1>4, <1>7, <2>1 DEF RequestOK
<1>8. CASE d # queue[a]
  <2>1. items'[d] = items[d]
    BY <1>1, <1>3, <1>8 DEF ItemsType
  <2>2. QED
    BY <1>7, <2>1
<1>9. CASE d = queue[a]
  <2>1. items'[d] = Append(items[d], e)
    BY <1>1, <1>3, <1>9 DEF ItemsType
  <2>2. /\ Len(items'[d]) = Len(items[d]) + 1
        /\ \A j \in 1..Len(items[d]) : items'[d][j] = items[d][j]
        /\ items'[d][Len(items[d]) + 1] = e
    BY <1>2, <1>6, <2>1, AppendProperties
  <2>3. Len(items[d]) \in Nat
    BY <1>6, LenProperties
  <2>4. CASE i \in 1..Len(items[d])
    BY <1>7, <2>2, <2>4
  <2>5. CASE i = Len(items[d]) + 1
    BY <1>2, <1>5, <2>2, <2>5
  <2>6. QED
    BY <2>2, <2>3, <2>4, <2>5
<1>10. QED
  BY <1>8, <1>9

LEMMA DownloadKeepsRequests ==
  ASSUME TypeInv, RequestOK, NEW d \in Daemons, download(d)
  PROVE  RequestOK'
<1>1. LibraryType /\ ItemsType
  BY TypeParts DEF TypeInv
<1>2. PICK a : apc' = [apc EXCEPT ![a] = IF intact[d] /\ Head(items[d]).by = a /\ @ = "poll"
                                          THEN "idle" ELSE @]
  BY DEF download
<1>3. \A b \in Applications : apc[b] # "unborn" => apc'[b] # "unborn"
  BY <1>1, <1>2 DEF LibraryType
<1>4. items' = [items EXCEPT ![d] = Tail(items[d])] /\ items[d] # <<>> /\ heir' = heir
  BY DEF download
<1> SUFFICES ASSUME NEW c \in Daemons, NEW i \in 1..Len(items'[c])
             PROVE  LET b == items'[c][i].by
                    IN  /\ items'[c][i].names = b \/ heir[b]
                        /\ apc'[b] # "unborn"
  BY <1>4 DEF RequestOK
<1>5. items[c] \in Seq(Requests)
  BY <1>1 DEF ItemsType
<1>6. PICK j \in 1..Len(items[c]) : items'[c][i] = items[c][j]
  <2>1. CASE c # d
    <3>1. items'[c] = items[c]
      BY <1>1, <1>4, <2>1 DEF ItemsType
    <3>2. QED
      BY <3>1
  <2>2. CASE c = d
    <3>1. items'[c] = Tail(items[c]) /\ items[c] # <<>>
      BY <1>1, <1>4, <2>2 DEF ItemsType
    <3>2. Len(items'[c]) = Len(items[c]) - 1 /\ items'[c][i] = items[c][i + 1]
      BY <1>5, <3>1, HeadTailProperties
    <3>3. Len(items[c]) \in Nat
      BY <1>5, LenProperties
    <3>4. i + 1 \in 1..Len(items[c])
      BY <3>2, <3>3
    <3>5. QED
      BY <3>2, <3>4
  <2>3. QED
    BY <2>1, <2>2
<1>7. items[c][j].by \in Applications
  BY <1>5, RequestBy
<1>8. QED
  BY <1>3, <1>6, <1>7 DEF RequestOK

\* getpid and the queue come out of one pthread_once: only a child that inherits its
\* control inherits a pid that is not its own.
THEOREM RequestsCorrect == Spec => []RequestNamesCaller
<1>1. LifecycleInit => RequestOK
  <2> SUFFICES ASSUME LifecycleInit PROVE RequestOK
    OBVIOUS
  <2>1. \A d \in Daemons : items[d] = <<>>
    BY DEF LifecycleInit
  <2>2. QED
    BY <2>1, EmptySeq DEF RequestOK
<1>2. TypeInv /\ RequestOK /\ [LifecycleNext]_vars => RequestOK'
  <2> SUFFICES ASSUME TypeInv, RequestOK, [LifecycleNext]_vars PROVE RequestOK'
    OBVIOUS
  <2>0. LibraryType
    BY TypeParts DEF TypeInv
  <2>1. CASE UNCHANGED vars
    BY <2>1, RequestsStay DEF vars
  <2>2. ASSUME UNCHANGED others PROVE RequestOK'
    BY <2>2, RequestsStay DEF others
  <2>3. ASSUME NEW a \in Applications,
               exec(a) \/ kill_application(a) \/ init_vars_once(a) \/ schedule_download(a)
                 \/ init_mmap(a) \/ push_refused(a) \/ push(a) \/ lock_tail(a)
        PROVE  RequestOK'
    <3>1. UNCHANGED <<items, heir>>
      BY <2>3 DEF exec, kill_application, init_vars_once, schedule_download, init_mmap, push_refused,
                  push, lock_tail
    <3>2. \A b \in Applications : apc[b] # "unborn" => apc'[b] # "unborn"
      BY <2>0, <2>3
      DEF exec, kill_application, init_vars_once, Opens, schedule_download, init_mmap, push_refused, push,
          lock_tail, GivesUp, LibraryType
    <3>3. QED
      BY <3>1, <3>2, RequestsStay
  <2>4. ASSUME NEW a \in Applications, call(a) PROVE RequestOK'
    BY <2>3, <2>4, StoreKeepsRequests DEF call
  <2>5. ASSUME NEW a \in Applications, NEW child \in Applications, fork(a, child) PROVE RequestOK'
    <3>1. UNCHANGED items
      BY <2>5 DEF fork
    <3>2. \A b \in Applications : apc[b] # "unborn" => apc'[b] # "unborn" /\ heir'[b] = heir[b]
      BY <2>0, <2>5 DEF fork, LibraryType
    <3>3. QED
      BY <3>1, <3>2, RequestsStay
  <2>6. ASSUME NEW d \in Daemons, download(d) PROVE RequestOK'
    BY <2>6, DownloadKeepsRequests
  <2>7. ASSUME NEW d \in Daemons, kill_in_queue(d) PROVE RequestOK'
    BY <2>7, RequestsStay DEF kill_in_queue
  <2>8. QED
    BY <2>1, <2>2, <2>3, <2>4, <2>5, <2>6, <2>7, NextCases
<1>3. RequestOK => RequestNamesCaller
  BY DEF RequestOK, RequestNamesCaller
<1>4. QED
  BY <1>1, <1>2, <1>3, LifecycleTypeCorrect, PTL DEF Spec

-----------------------------------------------------------------------------
(* Who waits for what *)

\* An object that is mapped has been made: its launch has got as far, or is over.
Mapped ==
  \A a \in Applications :
    /\ file[a] # NoOne => pc[file[a]] \in OwnSteps \cup Ended
    /\ queue[a] # NoOne => pc[queue[a]] \in OwnSteps \cup Ended

\* tail_mutex of an object belongs to an application that stores there or was killed there.
LockHeld ==
  \A d \in Daemons : lock[d] # NoOne =>
    queue[lock[d]] = d /\ apc[lock[d]] \in {"store", "dead"}

Asked(a) ==
  \E i \in 1..Len(items[queue[a]]) : items[queue[a]][i] = [by |-> a, names |-> a]

RequestHeld ==
  \A a \in Applications : apc[a] = "poll" /\ pid[a] = a /\ intact[queue[a]] => Asked(a)

\* A step that maps nothing.
LEMMA OthersKeepMapped ==
  ASSUME TypeInv, Mapped, NEW b,
         \A d \in Daemons : pc[d] \in OwnSteps \cup Ended => pc'[d] \in OwnSteps \cup Ended,
         \A a \in Applications :
           /\ file'[a] \in {file[a], NoOne, b}
           /\ queue'[a] \in {queue[a], b} \/ \E c \in Applications : queue'[a] = queue[c],
         b # NoOne => b \in Daemons /\ pc[b] \in OwnSteps \cup Ended
  PROVE  Mapped'
<1>1. LibraryType
  BY TypeParts DEF TypeInv
<1>2. ASSUME NEW d, d # NoOne, d = b \/ \E c \in Applications : d = file[c] \/ d = queue[c]
      PROVE  pc'[d] \in OwnSteps \cup Ended
  <2>1. d \in Daemons /\ pc[d] \in OwnSteps \cup Ended
    BY <1>1, <1>2 DEF LibraryType, Mapped
  <2>2. QED
    BY <2>1
<1>3. QED
  BY <1>2 DEF Mapped

LEMMA MappedKept ==
  ASSUME TypeInv, Staged, NameLeft, Mapped, [LifecycleNext]_vars
  PROVE  Mapped'
<1>0. LaunchType /\ LibraryType /\ CallOK
  BY TypeParts DEF TypeInv
<1>1. \A d \in Daemons : pc[d] \in OwnSteps \cup Ended => pc'[d] \in OwnSteps \cup Ended
  <2>1. CASE \E d \in Daemons : Launch(d)
    BY <1>0, <2>1, LaunchShape DEF Staged, NameStep
  <2>2. CASE remove_object \/ UNCHANGED <<shm, object, pc, bucket>>
    BY <2>2 DEF remove_object
  <2>3. QED
    BY <2>1, <2>2, StepCases
<1>2. CASE UNCHANGED <<file, queue>>
  BY <1>1, <1>2, OthersKeepMapped
<1>3. ASSUME NEW a \in Applications, init_vars_once(a) PROVE Mapped'
  <2>1. file' = file \/ (shm # NoOne /\ file' = [file EXCEPT ![a] = shm])
    BY <1>3 DEF init_vars_once, Opens, GivesUp
  <2>2. queue' = queue
    BY <1>3 DEF init_vars_once, Opens, GivesUp
  <2>3. shm # NoOne => shm \in Daemons /\ pc[shm] \in OwnSteps \cup Ended
    BY <1>0, OwnsIsStep DEF LaunchType, NameLeft, Ended
  <2>4. \A c \in Applications : file'[c] \in {file[c], NoOne, shm}
    BY <1>0, <2>1 DEF LibraryType
  <2>5. QED
    BY <1>1, <2>2, <2>3, <2>4, OthersKeepMapped
<1>4. ASSUME NEW a \in Applications, init_mmap(a) PROVE Mapped'
  <2>1. file[a] \in Daemons /\ file[a] # NoOne
    BY <1>0, <1>4, StartupAssumption DEF init_mmap, CallOK
  <2>2. pc[file[a]] \in OwnSteps \cup Ended
    BY <2>1 DEF Mapped
  <2>3. \A c \in Applications : file'[c] \in {file[c], NoOne} /\ queue'[c] \in {queue[c], file[a]}
    BY <1>0, <1>4 DEF init_mmap, GivesUp, LibraryType
  <2>4. QED
    BY <1>1, <2>1, <2>2, <2>3, OthersKeepMapped
<1>5. ASSUME NEW a \in Applications, NEW child \in Applications, fork(a, child) PROVE Mapped'
  <2>1. \A c \in Applications : file'[c] = file[c] /\ queue'[c] \in {queue[c], queue[a]}
    BY <1>0, <1>5 DEF fork, LibraryType
  <2>2. QED
    BY <1>1, <2>1, OthersKeepMapped
<1>6. CASE UNCHANGED vars
  BY <1>2, <1>6 DEF vars
<1>7. ASSUME NEW a \in Applications,
             exec(a) \/ kill_application(a) \/ schedule_download(a) \/ push_refused(a)
               \/ push(a) \/ lock_tail(a) \/ store(a)
      PROVE  Mapped'
  BY <1>2, <1>7
  DEF exec, kill_application, schedule_download, push_refused, push, lock_tail, store
<1>8. CASE UNCHANGED others \/ \E d \in Daemons : download(d) \/ kill_in_queue(d)
  BY <1>2, <1>8 DEF others, download, kill_in_queue
<1>9. QED
  BY <1>3, <1>4, <1>5, <1>6, <1>7, <1>8, NextCases DEF call

\* A step in which nobody takes tail_mutex, and nobody leaves it but dead.
LEMMA OthersKeepLocks ==
  ASSUME TypeInv, LockHeld,
         \A d \in Daemons : lock'[d] = lock[d] \/ lock'[d] = NoOne,
         \A a \in Applications : apc[a] \in {"store", "dead"} =>
           apc'[a] \in {"store", "dead"} /\ queue'[a] = queue[a]
  PROVE  LockHeld'
<1>1. \A d \in Daemons : lock[d] \in Applications \cup {NoOne}
  BY TypeParts DEF TypeInv, LaunchType
<1>2. QED
  BY <1>1 DEF LockHeld

LEMMA LocksKept ==
  ASSUME TypeInv, Staged, LockHeld, [LifecycleNext]_vars
  PROVE  LockHeld'
<1>0. LaunchType /\ LibraryType /\ CallOK
  BY TypeParts DEF TypeInv
<1>1. CASE UNCHANGED vars
  BY <1>1, OthersKeepLocks DEF vars, startup
<1>2. ASSUME NEW d \in Daemons, Launch(d), UNCHANGED <<apc, queue>> PROVE LockHeld'
  <2>1. \A e \in Daemons : lock'[e] = lock[e] \/ lock'[e] = NoOne
    BY <1>0, <1>2, LaunchShape DEF Staged, StageStep
  <2>2. QED
    BY <1>2, <2>1, OthersKeepLocks
<1>3. CASE remove_object /\ UNCHANGED others
  BY <1>3, OthersKeepLocks DEF remove_object, others
<1>4. ASSUME NEW a \in Applications,
             exec(a) \/ kill_application(a) \/ init_vars_once(a) \/ schedule_download(a)
               \/ init_mmap(a) \/ push_refused(a) \/ push(a)
      PROVE  LockHeld'
  <2>1. lock' = lock
    BY <1>4
    DEF exec, kill_application, init_vars_once, schedule_download, init_mmap, push_refused, push
  <2>2. \A b \in Applications : apc[b] \in {"store", "dead"} =>
          apc'[b] \in {"store", "dead"} /\ queue'[b] = queue[b]
    BY <1>0, <1>4
    DEF exec, kill_application, init_vars_once, Opens, GivesUp, schedule_download, init_mmap,
        push_refused, push, LibraryType
  <2>3. QED
    BY <2>1, <2>2, OthersKeepLocks
<1>5. ASSUME NEW a \in Applications, lock_tail(a) PROVE LockHeld'
  <2>1. queue[a] \in Daemons /\ apc[a] = "lock" /\ queue' = queue
    BY <1>0, <1>5 DEF lock_tail, CallOK
  <2>2. /\ lock'[queue[a]] = a /\ \A d \in Daemons : d # queue[a] => lock'[d] = lock[d]
        /\ apc'[a] = "store" /\ \A b \in Applications : b # a => apc'[b] = apc[b]
    BY <1>0, <1>5, <2>1 DEF lock_tail, LaunchType, LibraryType
  <2>3. \A d \in Daemons : lock[d] # NoOne => lock[d] \in Applications /\ lock[d] # a
    BY <1>0, <2>1 DEF LaunchType, LockHeld
  <2>4. QED
    BY <2>1, <2>2, <2>3 DEF LockHeld
<1>6. ASSUME NEW a \in Applications, store(a) PROVE LockHeld'
  <2>1. queue[a] \in Daemons /\ queue' = queue
    BY <1>0, <1>6 DEF store, CallOK
  <2>2. /\ lock'[queue[a]] = NoOne /\ \A d \in Daemons : d # queue[a] => lock'[d] = lock[d]
        /\ \A b \in Applications : b # a => apc'[b] = apc[b]
    BY <1>0, <1>6, <2>1 DEF store, LaunchType, LibraryType
  <2>3. \A d \in Daemons : lock[d] # NoOne => lock[d] \in Applications
    BY <1>0 DEF LaunchType
  <2>4. QED
    BY <2>1, <2>2, <2>3 DEF LockHeld
<1>7. ASSUME NEW a \in Applications, NEW child \in Applications, fork(a, child) PROVE LockHeld'
  <2>1. \A b \in Applications : apc[b] \in {"store", "dead"} => apc'[b] = apc[b] /\ queue'[b] = queue[b]
    BY <1>0, <1>7 DEF fork, LibraryType
  <2>2. QED
    BY <1>7, <2>1, OthersKeepLocks DEF fork
<1>8. ASSUME NEW d \in Daemons, download(d) PROVE LockHeld'
  <2>1. PICK a : apc' = [apc EXCEPT ![a] = IF intact[d] /\ Head(items[d]).by = a /\ @ = "poll"
                                            THEN "idle" ELSE @]
    BY <1>8 DEF download
  <2>2. \A b \in Applications : apc[b] \in {"store", "dead"} => apc'[b] = apc[b]
    BY <1>0, <2>1 DEF LibraryType
  <2>3. QED
    BY <1>8, <2>2, OthersKeepLocks DEF download
<1>9. ASSUME NEW d \in Daemons, kill_in_queue(d) PROVE LockHeld'
  BY <1>2, <1>9 DEF kill_in_queue, Launch
<1>10. QED
  BY <1>1, <1>2, <1>3, <1>4, <1>5, <1>6, <1>7, <1>8, <1>9, NextCases DEF call, others

\* A step that pushes and pops nothing.
LEMMA OthersKeepRequests ==
  ASSUME RequestHeld, UNCHANGED <<items, intact>>,
         \A a \in Applications :
           apc'[a] = "poll" => apc[a] = "poll" /\ queue'[a] = queue[a] /\ pid'[a] = pid[a]
  PROVE  RequestHeld'
BY DEF RequestHeld, Asked

LEMMA StoreAsks ==
  ASSUME TypeInv, RequestHeld, NEW a \in Applications, store(a)
  PROVE  RequestHeld'
<1> DEFINE e == [by |-> a, names |-> pid[a]]
<1>0. LibraryType /\ ItemsType /\ CallOK
  BY TypeParts DEF TypeInv
<1>1. queue[a] \in Daemons /\ e \in Requests /\ UNCHANGED <<queue, pid>>
  BY <1>0 DEF store, CallOK, InCall, Requests
<1>2. /\ items'[queue[a]] = Append(items[queue[a]], e)
      /\ \A d \in Daemons : d # queue[a] => items'[d] = items[d]
  BY <1>0, <1>1 DEF store, ItemsType
<1>3. \A d \in Daemons : intact'[d] => intact[d]
  BY <1>0 DEF store, LibraryType
<1>4. items[queue[a]] \in Seq(Requests)
  BY <1>0, <1>1 DEF ItemsType
<1>5. /\ Len(items'[queue[a]]) = Len(items[queue[a]]) + 1 /\ Len(items[queue[a]]) \in Nat
      /\ \A j \in 1..Len(items[queue[a]]) : items'[queue[a]][j] = items[queue[a]][j]
      /\ items'[queue[a]][Len(items[queue[a]]) + 1] = e
  BY <1>1, <1>2, <1>4, AppendProperties, LenProperties
<1> SUFFICES ASSUME NEW b \in Applications, apc'[b] = "poll", pid[b] = b, intact'[queue[b]]
             PROVE  Asked(b)'
  BY <1>1 DEF RequestHeld
<1>6. CASE b = a
  BY <1>1, <1>5, <1>6 DEF Asked
<1>7. CASE b # a
  <2>1. apc[b] = "poll" /\ queue[b] \in Daemons
    BY <1>0, <1>7 DEF store, LibraryType, CallOK
  <2>2. PICK i \in 1..Len(items[queue[b]]) : items[queue[b]][i] = [by |-> b, names |-> b]
    BY <1>3, <2>1 DEF RequestHeld, Asked
  <2>3. CASE queue[b] = queue[a]
    BY <1>1, <1>5, <2>2, <2>3 DEF Asked
  <2>4. CASE queue[b] # queue[a]
    BY <1>1, <1>2, <2>1, <2>2, <2>4 DEF Asked
  <2>5. QED
    BY <2>3, <2>4
<1>8. QED
  BY <1>6, <1>7

\* The request that is popped ends the polling of who has pushed it.
LEMMA DownloadAnswers ==
  ASSUME TypeInv, RequestHeld, NEW d \in Daemons, download(d)
  PROVE  RequestHeld'
<1>0. LibraryType /\ ItemsType /\ CallOK
  BY TypeParts DEF TypeInv
<1>1. /\ items[d] # <<>> /\ items'[d] = Tail(items[d])
      /\ \A c \in Daemons : c # d => items'[c] = items[c]
      /\ UNCHANGED <<queue, pid, intact>>
  BY <1>0 DEF download, ItemsType
<1>2. /\ items[d] \in Seq(Requests) /\ Len(items[d]) \in Nat
      /\ Head(items[d]) = items[d][1]
      /\ Len(items'[d]) = Len(items[d]) - 1
      /\ \A i \in 1..Len(items[d]) - 1 : items'[d][i] = items[d][i + 1]
  BY <1>0, <1>1, HeadTailProperties, LenProperties DEF ItemsType
<1> SUFFICES ASSUME NEW b \in Applications, apc'[b] = "poll", pid[b] = b, intact[queue[b]]
             PROVE  Asked(b)'
  BY <1>1 DEF RequestHeld
<1>3. PICK a : /\ a = Head(items[d]).names
               /\ apc' = [apc EXCEPT ![a] = IF intact[d] /\ Head(items[d]).by = a /\ @ = "poll"
                                              THEN "idle" ELSE @]
  BY DEF download
<1>4. apc[b] = "poll" /\ (b = a /\ intact[d] => Head(items[d]).by # b)
  BY <1>0, <1>3 DEF LibraryType
<1>5. queue[b] \in Daemons
  BY <1>0, <1>4 DEF CallOK
<1>6. PICK i \in 1..Len(items[queue[b]]) : items[queue[b]][i] = [by |-> b, names |-> b]
  BY <1>4 DEF RequestHeld, Asked
<1>7. CASE queue[b] # d
  BY <1>1, <1>5, <1>6, <1>7 DEF Asked
<1>8. CASE queue[b] = d
  <2>1. i # 1
    BY <1>2, <1>3, <1>4, <1>6, <1>8
  <2>2. i - 1 \in 1..Len(items'[d]) /\ items'[d][i - 1] = [by |-> b, names |-> b]
    BY <1>2, <1>6, <1>8, <2>1
  <2>3. QED
    BY <1>1, <1>8, <2>2 DEF Asked
<1>9. QED
  BY <1>7, <1>8

LEMMA RequestsHeldOn ==
  ASSUME TypeInv, RequestHeld, [LifecycleNext]_vars
  PROVE  RequestHeld'
<1>0. LibraryType
  BY TypeParts DEF TypeInv
<1>1. CASE UNCHANGED vars
  BY <1>1, OthersKeepRequests DEF vars
<1>2. CASE UNCHANGED others
  BY <1>2, OthersKeepRequests DEF others
<1>3. ASSUME NEW a \in Applications,
             exec(a) \/ kill_application(a) \/ init_vars_once(a) \/ schedule_download(a)
               \/ init_mmap(a) \/ push_refused(a) \/ push(a) \/ lock_tail(a)
      PROVE  RequestHeld'
  <2>1. UNCHANGED <<items, intact>>
    BY <1>3 DEF exec, kill_application, init_vars_once, schedule_download, init_mmap, push_refused,
                push, lock_tail
  <2>2. \A b \in Applications :
          apc'[b] = "poll" => apc[b] = "poll" /\ queue'[b] = queue[b] /\ pid'[b] = pid[b]
    BY <1>0, <1>3
    DEF exec, kill_application, init_vars_once, Opens, GivesUp, schedule_download, init_mmap,
        push_refused, push, lock_tail, LibraryType
  <2>3. QED
    BY <2>1, <2>2, OthersKeepRequests
<1>4. ASSUME NEW a \in Applications, NEW child \in Applications, fork(a, child) PROVE RequestHeld'
  <2>1. \A b \in Applications :
          apc'[b] = "poll" => apc[b] = "poll" /\ queue'[b] = queue[b] /\ pid'[b] = pid[b]
    BY <1>0, <1>4 DEF fork, LibraryType
  <2>2. QED
    BY <1>4, <2>1, OthersKeepRequests DEF fork
<1>5. ASSUME NEW d \in Daemons, kill_in_queue(d) PROVE RequestHeld'
  BY <1>5, OthersKeepRequests DEF kill_in_queue
<1>6. QED
  BY <1>1, <1>2, <1>3, <1>4, <1>5, StoreAsks, DownloadAnswers, NextCases DEF call

\* The list of Stranded is complete, for any number of launches and applications: what an
\* open() of any other application waits for is there, and can go on.
THEOREM OpensAttended == Spec => []OpenAttended
<1>1. LifecycleInit => Mapped /\ LockHeld /\ RequestHeld
  BY DEF LifecycleInit, Init, Mapped, LockHeld, RequestHeld
<1>2. TypeInv /\ Staged /\ NameLeft /\ Mapped /\ LockHeld /\ RequestHeld /\ [LifecycleNext]_vars
        => Mapped' /\ LockHeld' /\ RequestHeld'
  BY MappedKept, LocksKept, RequestsHeldOn
<1>3. TypeInv /\ Mapped /\ LockHeld /\ RequestHeld => OpenAttended
  <2> SUFFICES ASSUME TypeInv, Mapped, LockHeld, RequestHeld, NEW a \in Applications,
                      apc[a] \in {"lock", "store", "poll"}, ~Stranded(a)
               PROVE  /\ Alive(queue[a])
                      /\ apc[a] = "lock" /\ lock[queue[a]] # NoOne =>
                           /\ apc[lock[queue[a]]] = "store"
                           /\ queue[lock[queue[a]]] = queue[a]
                      /\ apc[a] = "poll" => Asked(a)
    BY DEF OpenAttended, Asked
  <2>1. queue[a] \in Daemons /\ queue[a] # NoOne
    BY TypeParts, StartupAssumption DEF TypeInv, CallOK
  <2>2. /\ pc[queue[a]] \notin Ended /\ intact[queue[a]]
        /\ lock[queue[a]] # NoOne => apc[lock[queue[a]]] # "dead"
        /\ apc[a] = "poll" => pid[a] = a
    BY <2>1 DEF Stranded
  <2>3. Alive(queue[a])
    BY <2>1, <2>2 DEF Mapped, OwnSteps, Alive, Starting
  <2>4. QED
    BY <2>1, <2>2, <2>3 DEF LockHeld, RequestHeld
<1>4. QED
  BY <1>1, <1>2, <1>3, LifecycleTypeCorrect, ObjectsStaged, NameOwned, PTL DEF Spec

\* The types by themselves.
THEOREM LifecycleTypes == Spec => []TypeOK
<1>1. TypeInv => TypeOK
  BY DEF TypeInv
<1>2. QED
  BY <1>1, LifecycleTypeCorrect, PTL
=============================================================================
