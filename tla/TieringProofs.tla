---------------------------- MODULE TieringProofs ----------------------------
(* Theorems about Tiering for all files, threads, clients, contents and faults. *)
EXTENDS Tiering, TLAPS

USE DEF disk, worker, client, history, At, Goto, CAt, CGoto,
        is_local_file_fd, is_local_file, schedule_download

-----------------------------------------------------------------------------
(* The inductive invariant *)

\* A file no client could modify during a transfer: where its content is.
Kept(f) ==
  /\ objectId[f] \in {NoId, ObjectIdOf[f]}
  /\ f \notin overlapped =>
       /\ ~stub[f] => data[f] \in expected[f]
       /\ stub[f] /\ objectId[f] = NoId => data[f] \in expected[f]
       /\ stub[f] /\ objectId[f] # NoId =>
            /\ store[objectId[f]] \in expected[f]
            /\ store[objectId[f]] = Empty => data[f] = Empty

\* What a transfer thread knows about its file before each of its calls.
Progress(w) ==
  LET f == target[w] IN
  /\ pc[w] \in {"put", "set_oid", "fetch"} => key[w] = ObjectIdOf[f]
  /\ pc[w] \in LockSteps /\ f \notin overlapped =>
       /\ pc[w] \in {"read", "put", "set_oid", "set_stub", "rm_oid"} => ~stub[f]
       /\ pc[w] \in {"fstat", "truncate", "extend", "undo_oid", "undo_stub",
                     "get_oid", "fetch", "write", "rm_stub"} => stub[f]
       /\ pc[w] \in {"set_stub", "fstat", "truncate", "extend", "undo_oid", "rm_oid",
                     "write", "rm_stub"} => objectId[f] # NoId
       /\ pc[w] \in {"put", "truncate"} => seen[w] = data[f]
       /\ pc[w] = "set_oid" => store[key[w]] = data[f]
       /\ pc[w] \in {"set_stub", "fstat", "truncate"} => store[objectId[f]] = data[f]
       /\ pc[w] = "extend" => data[f] = Empty
       /\ pc[w] \in {"extend", "write"} => seen[w] = store[objectId[f]]
       /\ pc[w] = "fetch" => objectId[f] = key[w]
       /\ pc[w] \in {"undo_oid", "undo_stub", "rm_stub"} => data[f] \in expected[f]

Clearing == {"clear_stub", "clear_oid", "clear_oid_eio"}

\* What open() and the application rely on.
Opening(c) ==
  LET f == cfile[c] IN
  /\ cpc[c] \in Clearing => cmode[c] = "trunc"
  /\ cpc[c] = "wait" => cmode[c] # "trunc"
  /\ cpc[c] # "closed" /\ f \notin overlapped =>
       /\ cpc[c] \in Clearing => \A w \in Workers : target[w] = f => pc[w] # "rm_oid"
       /\ cmode[c] = "trunc" /\ cpc[c] # "open" /\ stub[f] =>
            data[f] = Empty /\ Empty \in expected[f]
       /\ (cpc[c] = "open" /\ cmode[c] # "read") \/ cpc[c] = "clear_oid" => ~stub[f]

\* overlapped misses no file that is transferred while a client can modify it.
Apart == \A f \in Files : Modifying(f) /\ Transferring(f) => f \in overlapped

Safety ==
  /\ \A f \in Files : Kept(f)
  /\ \A w \in Workers : Progress(w)
  /\ \A c \in Clients : Opening(c)
  /\ Apart

-----------------------------------------------------------------------------
(* Type correctness *)

LEMMA InitType == Init => TypeOK
  BY DEF Init, TypeOK, Content, Steps, OpenSteps, Modes

LEMMA WorkerType ==
  ASSUME TypeOK, NEW w \in Workers, transfer(w)
  PROVE  TypeOK'
<1> USE KeysAssumption DEF TypeOK, Steps, LockSteps, DataSteps, Content
<1>1. CASE try_lock_file(w)
  BY <1>1 DEF try_lock_file
<1>2. CASE try_lock_file_fails(w)
  BY <1>2 DEF try_lock_file_fails, Return
<1>3. CASE upload_is_local(w)
  BY <1>3 DEF upload_is_local
<1>4. CASE upload_read(w)
  BY <1>4 DEF upload_read
<1>5. CASE upload_put(w)
  BY <1>5 DEF upload_put
<1>6. CASE upload_set_object_id(w)
  BY <1>6 DEF upload_set_object_id
<1>7. CASE upload_set_stub(w)
  <2>1. stub' \in [Files -> BOOLEAN]
    BY <1>7 DEF upload_set_stub
  <2>2. pc' \in [Workers -> Steps] /\ \A v \in Workers : pc'[v] # "idle" => pc[v] # "idle"
    BY <1>7 DEF upload_set_stub
  <2>3. \A v \in Workers : pc'[v] \in {"put", "set_oid", "fetch"} => pc[v] = pc'[v]
    BY <1>7 DEF upload_set_stub
  <2>4. QED
    BY <1>7, <2>1, <2>2, <2>3 DEF upload_set_stub
<1>8. CASE upload_fstat(w)
  BY <1>8 DEF upload_fstat
<1>9. CASE upload_truncate(w)
  BY <1>9 DEF upload_truncate
<1>10. CASE upload_extend(w)
  BY <1>10 DEF upload_extend, Extended
<1>11. CASE upload_undo_object_id(w)
  BY <1>11 DEF upload_undo_object_id
<1>12. CASE upload_undo_stub(w)
  BY <1>12 DEF upload_undo_stub
<1>13. CASE download_is_local(w)
  BY <1>13 DEF download_is_local
<1>14. CASE download_get_object_id(w)
  BY <1>14 DEF download_get_object_id
<1>15. CASE download_first_chunk(w)
  BY <1>15 DEF download_first_chunk, Written
<1>16. CASE download_last_chunk(w)
  BY <1>16 DEF download_last_chunk, Written
<1>17. CASE download_remove_stub(w)
  <2>1. stub' \in [Files -> BOOLEAN]
    BY <1>17 DEF download_remove_stub
  <2>2. pc' \in [Workers -> Steps] /\ \A v \in Workers : pc'[v] # "idle" => pc[v] # "idle"
    BY <1>17 DEF download_remove_stub
  <2>3. \A v \in Workers : pc'[v] \in {"put", "set_oid", "fetch"} => pc[v] = pc'[v]
    BY <1>17 DEF download_remove_stub
  <2>4. QED
    BY <1>17, <2>1, <2>2, <2>3 DEF download_remove_stub
<1>18. CASE remove_object_id(w)
  BY <1>18 DEF remove_object_id
<1>19. CASE unlock_file(w)
  BY <1>19 DEF unlock_file, Return
<1>20. QED
  BY <1>1, <1>2, <1>3, <1>4, <1>5, <1>6, <1>7, <1>8, <1>9, <1>10, <1>11, <1>12, <1>13,
     <1>14, <1>15, <1>16, <1>17, <1>18, <1>19 DEF transfer, upload_file, download_file

LEMMA ClientType ==
  ASSUME TypeOK, NEW c \in Clients, open(c)
  PROVE  TypeOK'
<1> USE DEF TypeOK, OpenSteps, Modes, Content, CReturn, Opened, Overlap
<1>1. CASE finish_open_common(c)
  BY <1>1 DEF finish_open_common
<1>2. CASE poll_file_location(c)
  BY <1>2 DEF poll_file_location
<1>3. CASE clear_stub(c)
  <2>1. stub' \in [Files -> BOOLEAN]
    BY <1>3 DEF clear_stub
  <2>2. expected' \in [Files -> SUBSET Content]
    BY <1>3 DEF clear_stub
  <2>3. cpc' \in [Clients -> OpenSteps] /\ \A e \in Clients : cpc'[e] # "closed" => cpc[e] # "closed"
    BY <1>3 DEF clear_stub
  <2>4. QED
    BY <1>3, <2>1, <2>2, <2>3 DEF clear_stub
<1>4. CASE clear_object_id(c)
  BY <1>4 DEF clear_object_id
<1>5. QED
  BY <1>1, <1>2, <1>3, <1>4 DEF open

LEMMA NextType == TypeOK /\ [Next]_vars => TypeOK'
<1> SUFFICES ASSUME TypeOK, [Next]_vars PROVE TypeOK'
  OBVIOUS
<1> USE DEF TypeOK, Steps, OpenSteps, Modes, Content
<1>1. CASE \E w \in Workers, f \in Files : Start(w, f)
  BY <1>1 DEF Start
<1>2. CASE \E w \in Workers : transfer(w)
  BY <1>2, WorkerType
<1>3. CASE \E c \in Clients, f \in Files, m \in Modes : real_open(c, f, m)
  BY <1>3 DEF real_open, Overlap
<1>4. CASE \E c \in Clients : open(c)
  BY <1>4, ClientType
<1>5. CASE \E c \in Clients, v \in Values : app_write(c, v)
  BY <1>5 DEF app_write
<1>6. CASE \E c \in Clients : app_exit(c)
  BY <1>6 DEF app_exit, CReturn
<1>7. CASE Crash
  BY <1>7 DEF Crash
<1>8. CASE UNCHANGED vars
  BY <1>8 DEF vars
<1>9. QED
  BY <1>1, <1>2, <1>3, <1>4, <1>5, <1>6, <1>7, <1>8 DEF Next

\* Type correctness: upload_file, download_file and open() keep every variable
\* in its type, and pass on a key only when they have one, under every fault.
THEOREM TypeCorrect == Spec => []TypeOK
<1>1. QED
  BY InitType, NextType, PTL DEF Spec

-----------------------------------------------------------------------------
(* Steps under the lock *)

HeldStep(w) == upload_file(w) \/ download_file(w) \/ remove_object_id(w)

\* What such a step leaves alone.
Frame(w) ==
  /\ pc[w] \in DataSteps \cup {"rm_oid"}
  /\ pc' = [pc EXCEPT ![w] = pc'[w]] /\ pc'[w] \in LockSteps
  /\ pc[w] = "rm_oid" => pc'[w] = "unlock" /\ UNCHANGED <<data, stub, store>>
  /\ UNCHANGED <<locked, target, client, history>>
  /\ \A g \in Files : g # target[w] =>
       data'[g] = data[g] /\ stub'[g] = stub[g] /\ objectId'[g] = objectId[g]
  /\ \A o \in ObjectIds : store'[o] = store[o] \/ (pc[w] = "put" /\ o = key[w])
  /\ \A v \in Workers : v # w => key'[v] = key[v] /\ seen'[v] = seen[v]

LEMMA HeldFrame ==
  ASSUME TypeOK, NEW w \in Workers, HeldStep(w)
  PROVE  Frame(w)
<1> USE DEF TypeOK, Frame, LockSteps, DataSteps
<1>1. CASE upload_is_local(w)
  BY <1>1 DEF upload_is_local
<1>2. CASE upload_read(w)
  BY <1>2 DEF upload_read
<1>3. CASE upload_put(w)
  BY <1>3 DEF upload_put
<1>4. CASE upload_set_object_id(w)
  BY <1>4 DEF upload_set_object_id
<1>5. CASE upload_set_stub(w)
  BY <1>5 DEF upload_set_stub
<1>6. CASE upload_fstat(w)
  BY <1>6 DEF upload_fstat
<1>7. CASE upload_truncate(w)
  BY <1>7 DEF upload_truncate
<1>8. CASE upload_extend(w)
  BY <1>8 DEF upload_extend
<1>9. CASE upload_undo_object_id(w)
  BY <1>9 DEF upload_undo_object_id
<1>10. CASE upload_undo_stub(w)
  BY <1>10 DEF upload_undo_stub
<1>11. CASE download_is_local(w)
  BY <1>11 DEF download_is_local
<1>12. CASE download_get_object_id(w)
  BY <1>12 DEF download_get_object_id
<1>13. CASE download_first_chunk(w)
  BY <1>13 DEF download_first_chunk
<1>14. CASE download_last_chunk(w)
  BY <1>14 DEF download_last_chunk
<1>15. CASE download_remove_stub(w)
  BY <1>15 DEF download_remove_stub
<1>16. CASE remove_object_id(w)
  BY <1>16 DEF remove_object_id
<1>17. QED
  BY <1>1, <1>2, <1>3, <1>4, <1>5, <1>6, <1>7, <1>8, <1>9, <1>10, <1>11, <1>12, <1>13, <1>14, <1>15, <1>16
     DEF HeldStep, upload_file, download_file

-----------------------------------------------------------------------------
(* Mutual exclusion *)

LEMMA InitExclusive == Init => LockExclusive
  BY DEF Init, LockExclusive, Holding, LockSteps, DataSteps

LEMMA NextExclusive == TypeOK /\ LockExclusive /\ [Next]_vars => LockExclusive'
<1> SUFFICES ASSUME TypeOK, LockExclusive, [Next]_vars PROVE LockExclusive'
  OBVIOUS
<1> USE DEF TypeOK, LockExclusive, Holding, LockSteps, DataSteps
<1>1. ASSUME NEW w \in Workers, NEW f \in Files, Start(w, f)
      PROVE  LockExclusive'
  BY <1>1 DEF Start
<1>2. ASSUME NEW w \in Workers, try_lock_file(w)
      PROVE  LockExclusive'
  BY <1>2 DEF try_lock_file
<1>3. ASSUME NEW w \in Workers, try_lock_file_fails(w)
      PROVE  LockExclusive'
  BY <1>3 DEF try_lock_file_fails, Return
<1>4. ASSUME NEW w \in Workers, unlock_file(w)
      PROVE  LockExclusive'
  BY <1>4 DEF unlock_file, Return
<1>5. ASSUME NEW w \in Workers, HeldStep(w)
      PROVE  LockExclusive'
  <2>1. Frame(w)
    BY <1>5, HeldFrame
  <2>2. QED
    BY <2>1 DEF Frame
<1>6. ASSUME NEW w \in Workers, transfer(w)
      PROVE  LockExclusive'
  BY <1>6, <1>2, <1>3, <1>4, <1>5 DEF transfer, HeldStep
<1>7. CASE UNCHANGED <<pc, target, locked>>
  BY <1>7
<1>8. CASE Crash
  BY <1>8 DEF Crash
<1>9. ASSUME NEW c \in Clients, open(c)
      PROVE  UNCHANGED <<pc, target, locked>>
  BY <1>9 DEF open, finish_open_common, poll_file_location, clear_stub, clear_object_id
<1>10. QED
  BY <1>1, <1>6, <1>7, <1>8, <1>9 DEF Next, vars, real_open, app_write, app_exit

\* user.cloudtiering.locked is a lock: transfer threads exclude each other on a
\* file, for any number of threads and files, every fault and every crash.
THEOREM MutualExclusion == Spec => []LockExclusive
<1>1. QED
  BY TypeCorrect, InitExclusive, NextExclusive, PTL DEF Spec

-----------------------------------------------------------------------------
(* No content is lost *)

Inv == TypeOK /\ LockExclusive /\ Safety

LEMMA InitSafety == Init => Safety
<1> SUFFICES ASSUME Init PROVE Safety
  OBVIOUS
<1> USE DEF Init
<1>1. \A f \in Files : Kept(f)
  BY DEF Kept
<1>2. \A w \in Workers : Progress(w)
  BY DEF Progress, LockSteps, DataSteps
<1>3. \A c \in Clients : Opening(c)
  BY DEF Opening, Clearing
<1>4. Apart
  BY DEF Apart, Modifying
<1>5. QED
  BY <1>1, <1>2, <1>3, <1>4 DEF Safety

\* A step under the lock of one file disturbs no other file, thread or client.
LEMMA HeldOthers ==
  ASSUME Inv, Protected, NEW w \in Workers, Frame(w)
  PROVE  /\ \A g \in Files : g # target[w] => Kept(g)'
         /\ \A v \in Workers : v # w => Progress(v)'
         /\ \A c \in Clients : Opening(c)'
         /\ Apart'
<1> USE DEF Inv, Safety
<1> DEFINE f == target[w]
<1>1. f \in Files /\ pc[w] \in LockSteps
  BY DEF TypeOK, Frame, LockSteps, DataSteps
<1>2. \A g \in Files : g # f /\ objectId[g] # NoId => store'[objectId[g]] = store[objectId[g]]
  <2>1. pc[w] = "put" => key[w] = ObjectIdOf[f]
    BY DEF Progress
  <2>2. \A g \in Files : objectId[g] \in {NoId, ObjectIdOf[g]}
    BY DEF Kept
  <2>3. QED
    BY <1>1, <2>1, <2>2, KeysAssumption DEF Frame, Protected
<1>3. \A g \in Files : g # f => Kept(g)'
  BY <1>2 DEF Frame, Kept
<1>4. ASSUME NEW v \in Workers, v # w
      PROVE  Progress(v)'
  <2>1. pc'[v] = pc[v] /\ target'[v] = target[v] /\ key'[v] = key[v] /\ seen'[v] = seen[v]
    BY <1>4 DEF Frame, TypeOK
  <2>2. CASE pc[v] \notin LockSteps
    BY <2>1, <2>2 DEF Progress, LockSteps, DataSteps
  <2>3. CASE pc[v] \in LockSteps
    <3> DEFINE g == target[v]
    <3>1. g \in Files /\ g # f
      BY <1>1, <1>4, <2>3 DEF TypeOK, LockExclusive, Holding, LockSteps, DataSteps
    <3>2. /\ data'[g] = data[g] /\ stub'[g] = stub[g] /\ objectId'[g] = objectId[g]
          /\ expected' = expected /\ overlapped' = overlapped
      BY <3>1 DEF Frame
    <3>3. pc[v] = "set_oid" => store'[key[v]] = store[key[v]]
      <4>1. pc[v] = "set_oid" => key[v] = ObjectIdOf[g]
        BY DEF Progress
      <4>2. pc[w] = "put" => key[w] = ObjectIdOf[f]
        BY DEF Progress
      <4>3. QED
        BY <1>1, <3>1, <4>1, <4>2, KeysAssumption DEF Frame, Protected
    <3>4. objectId[g] # NoId => store'[objectId[g]] = store[objectId[g]]
      BY <1>2, <3>1
    <3>5. Progress(v)
      OBVIOUS
    <3>6. QED
      BY <2>1, <3>2, <3>3, <3>4, <3>5 DEF Progress
  <2>4. QED
    BY <2>2, <2>3
<1>5. ASSUME NEW c \in Clients
      PROVE  Opening(c)'
  <2>1. Opening(c) /\ cpc'[c] = cpc[c] /\ cfile'[c] = cfile[c] /\ cmode'[c] = cmode[c]
    BY DEF Frame
  <2>2. CASE cfile[c] # f \/ cpc[c] = "closed"
    <3>1. \A v \in Workers : target'[v] = cfile[c] /\ cpc[c] # "closed" => pc'[v] = pc[v]
      BY <2>2 DEF Frame, TypeOK
    <3>2. QED
      BY <2>1, <2>2, <3>1 DEF Frame, Opening, TypeOK
  <2>3. CASE cfile[c] = f /\ cpc[c] # "closed" /\ pc[w] = "rm_oid"
    BY <2>1, <2>3 DEF Frame, Opening, TypeOK
  <2>4. CASE cfile[c] = f /\ cpc[c] # "closed" /\ pc[w] \in DataSteps
    <3>1. Transferring(f)
      BY <2>4 DEF Transferring
    <3>2. Modifying(f) => f \in overlapped
      BY <1>1, <3>1 DEF Apart
    <3>3. f \in overlapped \/ (cmode[c] # "trunc" /\ ~(cmode[c] = "write" /\ cpc[c] = "open"))
      BY <2>4, <3>2 DEF Modifying
    <3>4. QED
      BY <2>1, <2>4, <3>3 DEF Frame, Opening, Clearing, TypeOK, Modes
  <2>5. QED
    BY <2>2, <2>3, <2>4 DEF Frame
<1>6. Apart'
  <2>1. \A g \in Files : Transferring(g)' => Transferring(g)
    BY DEF Frame, Transferring, TypeOK, DataSteps, LockSteps
  <2>2. \A g \in Files : Modifying(g)' => Modifying(g)
    BY DEF Frame, Modifying
  <2>3. QED
    BY <2>1, <2>2 DEF Frame, Apart
<1>7. QED
  BY <1>3, <1>4, <1>5, <1>6

\* A step under the lock keeps the content of its own file, and leads to a call
\* that finds what it relies on, unless is_local_file or the second ftruncate fails.
LEMMA HeldFile ==
  ASSUME Inv, Protected, NEW w \in Workers, HeldStep(w)
  PROVE  Kept(target[w])' /\ Progress(w)'
<1> DEFINE f == target[w]
<1>0. TypeOK /\ Kept(f) /\ Progress(w) /\ f \in Files
  <2>1. f \in Files
    BY HeldFrame DEF Inv, Frame, TypeOK, DataSteps
  <2>2. QED
    BY <2>1 DEF Inv, Safety
<1> USE <1>0 DEF Kept, Progress, TypeOK, LockSteps, DataSteps
<1>1. CASE upload_is_local(w)
  BY <1>1 DEF upload_is_local, Fault, Protected
<1>2. CASE upload_read(w)
  BY <1>2, KeysAssumption DEF upload_read
<1>3. CASE upload_put(w)
  BY <1>3, KeysAssumption DEF upload_put
<1>4. CASE upload_set_object_id(w)
  <2>1. key[w] = ObjectIdOf[f] /\ (f \notin overlapped => ~stub[f] /\ store[key[w]] = data[f])
    BY <1>4 DEF upload_set_object_id
  <2>2. CASE pc'[w] = "set_stub"
    <3>1. objectId'[f] = key[w] /\ key[w] # NoId
      BY <1>4, <2>1, <2>2, KeysAssumption, ConstantsAssumption DEF upload_set_object_id
    <3>2. UNCHANGED <<data, stub, store, target, expected, overlapped>>
      BY <1>4 DEF upload_set_object_id
    <3>3. Kept(f)'
      BY <2>1, <3>1, <3>2
    <3>4. Progress(w)'
      BY <2>1, <2>2, <3>1, <3>2
    <3>5. QED
      BY <3>2, <3>3, <3>4
  <2>3. CASE pc'[w] = "unlock" /\ UNCHANGED objectId
    BY <1>4, <2>3 DEF upload_set_object_id
  <2>4. QED
    BY <1>4, <2>2, <2>3 DEF upload_set_object_id
<1>5. CASE upload_set_stub(w)
  BY <1>5 DEF upload_set_stub
<1>6. CASE upload_fstat(w)
  BY <1>6 DEF upload_fstat
<1>7. CASE upload_truncate(w)
  BY <1>7 DEF upload_truncate
<1>8. CASE upload_extend(w)
  BY <1>8 DEF upload_extend, Fault, Extended, Protected
<1>9. CASE upload_undo_object_id(w)
  BY <1>9 DEF upload_undo_object_id
<1>10. CASE upload_undo_stub(w)
  BY <1>10 DEF upload_undo_stub
<1>11. CASE download_is_local(w)
  BY <1>11 DEF download_is_local
<1>12. CASE download_get_object_id(w)
  BY <1>12, KeysAssumption DEF download_get_object_id
<1>13. CASE download_first_chunk(w)
  <2>1. f \notin overlapped => stub[f] /\ objectId[f] = key[w] /\ key[w] # NoId
    BY <1>13, KeysAssumption, ConstantsAssumption DEF download_first_chunk
  <2>2. UNCHANGED <<stub, objectId, store, target, expected, overlapped>>
    BY <1>13 DEF download_first_chunk
  <2>3. CASE pc'[w] = "write" /\ seen'[w] = store[key[w]]
             /\ data'[f] = Written(data[f], store[key[w]], Torn)
    <3>1. Kept(f)'
      BY <2>1, <2>2, <2>3 DEF Written
    <3>2. Progress(w)'
      BY <2>1, <2>2, <2>3
    <3>3. QED
      BY <2>2, <3>1, <3>2
  <2>4. CASE pc'[w] = "unlock" /\ UNCHANGED data
    BY <1>13, <2>4 DEF download_first_chunk
  <2>5. QED
    BY <1>13, <2>3, <2>4 DEF download_first_chunk
<1>14. CASE download_last_chunk(w)
  BY <1>14 DEF download_last_chunk, Written
<1>15. CASE download_remove_stub(w)
  BY <1>15 DEF download_remove_stub
<1>16. CASE remove_object_id(w)
  BY <1>16 DEF remove_object_id
<1>17. QED
  BY <1>1, <1>2, <1>3, <1>4, <1>5, <1>6, <1>7, <1>8, <1>9, <1>10, <1>11, <1>12, <1>13, <1>14, <1>15, <1>16
     DEF HeldStep, upload_file, download_file

LEMMA WorkerSafety ==
  ASSUME Inv, Protected, NEW w \in Workers, transfer(w)
  PROVE  Safety'
<1>1. CASE HeldStep(w)
  <2>1. Frame(w)
    BY <1>1, HeldFrame DEF Inv
  <2>2. Kept(target[w])' /\ Progress(w)' /\ target' = target
    BY <1>1, <2>1, HeldFile DEF Frame
  <2>3. QED
    BY <2>1, <2>2, HeldOthers DEF Safety
<1>2. CASE try_lock_file(w)
  <2> USE <1>2 DEF try_lock_file, Inv, Safety, TypeOK
  <2>1. overlapped \subseteq overlapped'
    OBVIOUS
  <2>2. \A f \in Files : Kept(f)'
    BY <2>1 DEF Kept
  <2>3. \A v \in Workers : Progress(v)'
    BY <2>1 DEF Progress, LockSteps, DataSteps
  <2>4. \A c \in Clients : Opening(c)'
    BY <2>1 DEF Opening, Clearing
  <2>5. Apart'
    <3>1. \A f \in Files : f # target[w] /\ Transferring(f)' => Transferring(f)
      BY DEF Transferring
    <3>2. \A f \in Files : Modifying(f)' => Modifying(f)
      BY DEF Modifying
    <3>3. QED
      BY <2>1, <3>1, <3>2 DEF Apart
  <2>6. QED
    BY <2>2, <2>3, <2>4, <2>5
<1>3. CASE try_lock_file_fails(w) \/ unlock_file(w)
  <2>1. /\ \A v \in Workers : v # w => pc'[v] = pc[v] /\ target'[v] = target[v]
                                     /\ key'[v] = key[v] /\ seen'[v] = seen[v]
        /\ pc'[w] = "idle" /\ UNCHANGED <<data, stub, objectId, store, client, history>>
    BY <1>3 DEF try_lock_file_fails, unlock_file, Return, Inv, TypeOK
  <2> USE <2>1 DEF Inv, Safety
  <2>2. \A f \in Files : Kept(f)'
    BY DEF Kept
  <2>3. \A v \in Workers : Progress(v)'
    BY DEF Progress, LockSteps, DataSteps
  <2>4. \A c \in Clients : Opening(c)'
    BY DEF Opening
  <2>5. Apart'
    BY DEF Apart, Transferring, Modifying, DataSteps
  <2>6. QED
    BY <2>2, <2>3, <2>4, <2>5
<1>4. QED
  BY <1>1, <1>2, <1>3 DEF transfer, HeldStep


LEMMA NoTransfer ==
  ASSUME Inv, NEW c \in Clients, cpc[c] # "closed", cfile[c] \notin overlapped,
         cmode[c] = "trunc" \/ (cmode[c] = "write" /\ cpc[c] = "open")
  PROVE  \A w \in Workers : target[w] = cfile[c] => pc[w] \notin DataSteps
  BY DEF Inv, Safety, Apart, Transferring, Modifying, TypeOK

\* A client changes the content or the attributes of a file only when it can
\* modify it: then no transfer is under way that the invariant speaks of.
LEMMA ClientSafety ==
  ASSUME Inv, NEW c \in Clients
  PROVE  /\ open(c) => Safety'
         /\ app_exit(c) => Safety'
         /\ \A f \in Files, m \in Modes : real_open(c, f, m) => Safety'
         /\ \A v \in Values : app_write(c, v) => Safety'
<1> USE DEF Inv, Safety, TypeOK
<1>1. ASSUME NEW g \in Files, NEW m \in Modes, real_open(c, g, m)
      PROVE  Safety'
  <2> USE <1>1 DEF real_open, Overlap
  <2>1. \A f \in Files : Kept(f)'
    BY DEF Kept
  <2>2. ASSUME NEW w \in Workers
        PROVE  Progress(w)'
    <3>1. m = "trunc" /\ target[w] = g /\ pc[w] \in DataSteps => g \in overlapped'
      BY DEF Transferring
    <3>2. Progress(w) /\ UNCHANGED <<stub, objectId, store, worker>> /\ overlapped \subseteq overlapped'
      OBVIOUS
    <3>3. CASE m = "trunc" /\ target[w] = g
      BY <3>1, <3>2, <3>3 DEF Progress, LockSteps, DataSteps
    <3>4. CASE ~(m = "trunc" /\ target[w] = g)
      <4>1. pc[w] \in LockSteps => data'[target[w]] = data[target[w]] /\ expected'[target[w]] = expected[target[w]]
        BY <3>4 DEF LockSteps, DataSteps
      <4>2. QED
        BY <3>2, <4>1 DEF Progress
    <3>5. QED
      BY <3>3, <3>4
  <2>3. ASSUME NEW e \in Clients
        PROVE  Opening(e)'
    <3>1. CASE e = c
      BY <3>1 DEF Opening, Clearing
    <3>2. CASE e # c
      <4>1. Opening(e) /\ cpc'[e] = cpc[e] /\ cfile'[e] = cfile[e] /\ cmode'[e] = cmode[e]
        BY <3>2
      <4>2. UNCHANGED <<stub, objectId, store, worker>> /\ overlapped \subseteq overlapped'
        OBVIOUS
      <4>3. cpc[e] # "closed" =>
              \/ data'[cfile[e]] = data[cfile[e]] /\ expected'[cfile[e]] = expected[cfile[e]]
              \/ (data'[cfile[e]] = Empty /\ Empty \in expected'[cfile[e]])
        OBVIOUS
      <4>4. QED
        BY <4>1, <4>2, <4>3 DEF Opening
    <3>3. QED
      BY <3>1, <3>2
  <2>4. Apart'
    BY DEF Apart, Transferring, Modifying
  <2>5. QED
    BY <2>1, <2>2, <2>3, <2>4
<1>2. ASSUME finish_open_common(c)
      PROVE  Safety'
  <2> USE <1>2 DEF finish_open_common, Opened, Overlap, CReturn
  <2>1. \A f \in Files : Kept(f)'
    BY DEF Kept
  <2>2. \A w \in Workers : Progress(w)'
    BY DEF Progress, LockSteps, DataSteps
  <2>3. ASSUME NEW e \in Clients
        PROVE  Opening(e)'
    <3>1. overlapped \subseteq overlapped' /\ Opening(e)
      OBVIOUS
    <3>2. CASE e # c
      BY <3>1, <3>2 DEF Opening
    <3>3. CASE e = c /\ stub[cfile[c]] /\ cpc'[c] # "closed"
      <4>1. cfile[c] \notin overlapped =>
              \A w \in Workers : target[w] = cfile[c] => pc[w] # "rm_oid"
        BY <3>3 DEF Progress, LockSteps
      <4>2. QED
        BY <3>1, <3>3, <4>1 DEF Opening, Clearing
    <3>4. CASE e = c /\ ~(stub[cfile[c]] /\ cpc'[c] # "closed")
      BY <3>1, <3>4 DEF Opening, Clearing
    <3>5. QED
      BY <3>2, <3>3, <3>4
  <2>4. Apart'
    BY DEF Apart, Transferring, Modifying
  <2>5. QED
    BY <2>1, <2>2, <2>3, <2>4
<1>3. ASSUME poll_file_location(c)
      PROVE  Safety'
  <2> USE <1>3 DEF poll_file_location, Opened, Overlap, CReturn
  <2>1. \A f \in Files : Kept(f)'
    BY DEF Kept
  <2>2. \A w \in Workers : Progress(w)'
    BY DEF Progress, LockSteps, DataSteps
  <2>3. \A e \in Clients : Opening(e)'
    BY DEF Opening, Clearing
  <2>4. Apart'
    BY DEF Apart, Transferring, Modifying
  <2>5. QED
    BY <2>1, <2>2, <2>3, <2>4
<1>4. ASSUME clear_stub(c)
      PROVE  Safety'
  <2> USE <1>4 DEF clear_stub
  <2>0. /\ cfile[c] \in Files /\ Opening(c)
        /\ cfile[c] \notin overlapped =>
             \A w \in Workers : target[w] = cfile[c] => pc[w] \notin DataSteps
    BY NoTransfer DEF Opening, Clearing, Modes
  <2>1. ASSUME NEW f \in Files
        PROVE  Kept(f)'
    <3>1. CASE f = cfile[c]
      BY <2>0, <3>1 DEF Kept, Opening, Clearing
    <3>2. CASE f # cfile[c]
      BY <3>2 DEF Kept
    <3>3. QED
      BY <3>1, <3>2
  <2>2. ASSUME NEW w \in Workers
        PROVE  Progress(w)'
    <3>1. Progress(w)
      OBVIOUS
    <3>2. CASE target[w] = cfile[c] /\ pc[w] \in LockSteps
      BY <2>0, <3>1, <3>2 DEF Progress, Opening, Clearing, LockSteps, DataSteps
    <3>3. CASE ~(target[w] = cfile[c] /\ pc[w] \in LockSteps)
      BY <3>1, <3>3 DEF Progress, LockSteps, DataSteps
    <3>4. QED
      BY <3>2, <3>3
  <2>3. \A e \in Clients : Opening(e)'
    BY DEF Opening, Clearing
  <2>4. Apart'
    BY DEF Apart, Transferring, Modifying
  <2>5. QED
    BY <2>1, <2>2, <2>3, <2>4
<1>5. ASSUME clear_object_id(c)
      PROVE  Safety'
  <2> USE <1>5 DEF clear_object_id, Opened, Overlap, CReturn
  <2>0. /\ cfile[c] \in Files /\ Opening(c)
        /\ cfile[c] \notin overlapped =>
             \A w \in Workers : target[w] = cfile[c] => pc[w] \notin DataSteps
    BY NoTransfer DEF Opening, Clearing, Modes
  <2>1. ASSUME NEW f \in Files
        PROVE  Kept(f)'
    <3>1. overlapped \subseteq overlapped' /\ Kept(f)
      OBVIOUS
    <3>2. CASE f = cfile[c] /\ objectId'[f] = NoId
      BY <2>0, <3>1, <3>2 DEF Kept, Opening, Clearing
    <3>3. CASE objectId'[f] = objectId[f]
      BY <3>1, <3>3 DEF Kept
    <3>4. QED
      BY <3>2, <3>3
  <2>2. ASSUME NEW w \in Workers
        PROVE  Progress(w)'
    <3>1. Progress(w)
      OBVIOUS
    <3>2. CASE target[w] = cfile[c] /\ pc[w] \in LockSteps
      BY <2>0, <3>1, <3>2 DEF Progress, Opening, Clearing, LockSteps, DataSteps
    <3>3. CASE ~(target[w] = cfile[c] /\ pc[w] \in LockSteps)
      BY <3>1, <3>3 DEF Progress, LockSteps, DataSteps
    <3>4. QED
      BY <3>2, <3>3
  <2>3. \A e \in Clients : Opening(e)'
    BY DEF Opening, Clearing
  <2>4. Apart'
    BY DEF Apart, Transferring, Modifying
  <2>5. QED
    BY <2>1, <2>2, <2>3, <2>4
<1>6. ASSUME NEW v \in Values, app_write(c, v)
      PROVE  Safety'
  <2> USE <1>6 DEF app_write
  <2>0. /\ cfile[c] \in Files /\ Opening(c)
        /\ cfile[c] \notin overlapped =>
             \A w \in Workers : target[w] = cfile[c] => pc[w] \notin DataSteps
    BY NoTransfer DEF Opening, Clearing, Modes
  <2>1. ASSUME NEW f \in Files
        PROVE  Kept(f)'
    <3>1. CASE f = cfile[c]
      BY <2>0, <3>1 DEF Kept, Opening
    <3>2. CASE f # cfile[c]
      BY <3>2 DEF Kept
    <3>3. QED
      BY <3>1, <3>2
  <2>2. ASSUME NEW w \in Workers
        PROVE  Progress(w)'
    <3>1. Progress(w)
      OBVIOUS
    <3>2. CASE target[w] = cfile[c] /\ pc[w] \in LockSteps
      BY <2>0, <3>1, <3>2 DEF Progress, Opening, Clearing, LockSteps, DataSteps
    <3>3. CASE ~(target[w] = cfile[c] /\ pc[w] \in LockSteps)
      BY <3>1, <3>3 DEF Progress, LockSteps, DataSteps
    <3>4. QED
      BY <3>2, <3>3
  <2>3. \A e \in Clients : Opening(e)'
    BY DEF Opening, Clearing
  <2>4. Apart'
    BY DEF Apart, Transferring, Modifying
  <2>5. QED
    BY <2>1, <2>2, <2>3, <2>4
<1>7. ASSUME app_exit(c)
      PROVE  Safety'
  <2> USE <1>7 DEF app_exit, CReturn
  <2>1. \A f \in Files : Kept(f)'
    BY DEF Kept
  <2>2. \A w \in Workers : Progress(w)'
    BY DEF Progress, LockSteps, DataSteps
  <2>3. \A e \in Clients : Opening(e)'
    BY DEF Opening, Clearing
  <2>4. Apart'
    BY DEF Apart, Transferring, Modifying
  <2>5. QED
    BY <2>1, <2>2, <2>3, <2>4
<1>8. QED
  BY <1>1, <1>2, <1>3, <1>4, <1>5, <1>6, <1>7 DEF open

LEMMA NextSafety ==
  ASSUME Protected
  PROVE  Inv /\ [Next]_vars => Safety'
<1> SUFFICES ASSUME Inv, [Next]_vars PROVE Safety'
  OBVIOUS
<1>1. ASSUME NEW w \in Workers, NEW f \in Files, Start(w, f)
      PROVE  Safety'
  <2> USE <1>1 DEF Start, Inv, Safety, TypeOK
  <2>1. \A g \in Files : Kept(g)'
    BY DEF Kept
  <2>2. \A v \in Workers : Progress(v)'
    BY DEF Progress, LockSteps, DataSteps
  <2>3. \A c \in Clients : Opening(c)'
    BY DEF Opening
  <2>4. Apart'
    BY DEF Apart, Transferring, Modifying, DataSteps
  <2>5. QED
    BY <2>1, <2>2, <2>3, <2>4
<1>2. CASE Crash
  <2> USE <1>2 DEF Crash, Inv, Safety, TypeOK
  <2>1. \A g \in Files : Kept(g)'
    BY DEF Kept
  <2>2. \A v \in Workers : Progress(v)'
    BY DEF Progress, LockSteps, DataSteps
  <2>3. \A c \in Clients : Opening(c)'
    BY DEF Opening
  <2>4. Apart'
    BY DEF Apart, Transferring, DataSteps
  <2>5. QED
    BY <2>1, <2>2, <2>3, <2>4
<1>3. CASE UNCHANGED vars
  BY <1>3 DEF vars, Inv, Safety, Kept, Progress, Opening, Apart, Transferring, Modifying
<1>4. CASE \E w \in Workers : transfer(w)
  BY <1>4, WorkerSafety
<1>5. CASE \E c \in Clients : open(c) \/ app_exit(c)
  BY <1>5, ClientSafety
<1>6. CASE \E c \in Clients, f \in Files, m \in Modes : real_open(c, f, m)
  BY <1>6, ClientSafety
<1>7. CASE \E c \in Clients, v \in Values : app_write(c, v)
  BY <1>7, ClientSafety
<1>8. QED
  BY <1>1, <1>2, <1>3, <1>4, <1>5, <1>6, <1>7 DEF Next

LEMMA InvConsequences ==
  ASSUME Inv
  PROVE  NoLoss /\ LocalIntact /\ CleanupPossible
<1> USE DEF Inv, Safety
<1>1. NoLoss
  BY DEF NoLoss, Kept
<1>2. LocalIntact
  BY DEF LocalIntact, Kept
<1>3. CleanupPossible
  BY DEF CleanupPossible, Progress, LockExclusive, Holding, LockSteps, DataSteps
<1>4. QED
  BY <1>1, <1>2, <1>3

LEMMA SpecInv ==
  ASSUME Protected
  PROVE  Spec => []Inv
<1>1. Init => Inv
  BY InitType, InitExclusive, InitSafety DEF Inv
<1>2. Inv /\ [Next]_vars => Inv'
  BY NextType, NextExclusive, NextSafety DEF Inv
<1>3. QED
  BY <1>1, <1>2, PTL DEF Spec

\* Unless is_local_file (taken for local) or the second ftruncate of upload_file
\* fails, no content is lost: whatever else fails, whenever the daemon crashes or an
\* application dies, and however many threads transfer the file.
THEOREM ContentKept ==
  ASSUME Protected
  PROVE  Spec => []NoLoss
<1>1. Inv => NoLoss
  BY InvConsequences
<1>2. QED
  BY SpecInv, <1>1, PTL

\* Under the same faults a file that open() takes for local is whole.
THEOREM LocalFilesWhole ==
  ASSUME Protected
  PROVE  Spec => []LocalIntact
<1>1. Inv => LocalIntact
  BY InvConsequences
<1>2. QED
  BY SpecInv, <1>1, PTL

\* The attributes that the clean-up calls of upload_file and download_file remove
\* are there, as their comments claim, for files no client could modify meanwhile.
THEOREM CleanupNeverFails ==
  ASSUME Protected
  PROVE  Spec => []CleanupPossible
<1>1. Inv => CleanupPossible
  BY InvConsequences
<1>2. QED
  BY SpecInv, <1>1, PTL

\* upload_file truncates only what the store has under the file's object_id.
THEOREM EvictionSafe ==
  ASSUME Protected
  PROVE  Spec => EvictOnlyStored
<1> DEFINE Kind(w) == At(w, "truncate") /\ pc'[w] = "extend" =>
                        \/ target[w] \in overlapped
                        \/ /\ stub[target[w]] /\ objectId[target[w]] # NoId
                           /\ store[objectId[target[w]]] = data[target[w]]
<1>1. Inv => \A w \in Workers : Kind(w)
  BY DEF Inv, Safety, Progress, LockSteps, DataSteps
<1>2. QED
  BY SpecInv, <1>1, PTL DEF EvictOnlyStored

\* open() returns a descriptor only for a file whose content is in it.
THEOREM OpenSafe ==
  ASSUME Protected
  PROVE  Spec => OpenReturnsContent
<1> DEFINE Returns(c) == cpc[c] # "open" /\ cpc'[c] = "open" =>
                           \/ cfile[c] \in overlapped'
                           \/ ~stub'[cfile[c]] /\ data'[cfile[c]] \in expected'[cfile[c]]
<1>1. ASSUME Inv, Inv', [Next]_vars, NEW c \in Clients, cpc[c] # "open", cpc'[c] = "open"
      PROVE  Returns(c)
  <2>1. \/ finish_open_common(c) \/ poll_file_location(c)
        \/ clear_object_id(c) /\ cpc[c] = "clear_oid"
    <3> USE <1>1 DEF Inv, TypeOK
    <3>1. CASE \E w \in Workers : transfer(w)
      <4>1. PICK w \in Workers : transfer(w)
        BY <3>1
      <4>2. CASE HeldStep(w)
        BY <4>2, HeldFrame DEF Frame
      <4>3. CASE ~HeldStep(w)
        BY <4>1, <4>3 DEF transfer, HeldStep, try_lock_file, try_lock_file_fails, unlock_file
      <4>4. QED
        BY <4>2, <4>3
    <3>2. CASE \E e \in Clients : open(e)
      <4>1. PICK e \in Clients : open(e)
        BY <3>2
      <4>2. e = c
        BY <4>1 DEF open, finish_open_common, poll_file_location, clear_stub, clear_object_id,
                    Opened, CReturn
      <4>3. QED
        BY <4>1, <4>2 DEF open, clear_stub, clear_object_id, Opened, CReturn
    <3>3. CASE UNCHANGED vars \/ Crash \/ \E w \in Workers, f \in Files : Start(w, f)
      BY <3>3 DEF vars, Crash, Start
    <3>4. CASE \E e \in Clients, f \in Files, m \in Modes : real_open(e, f, m)
      BY <3>4 DEF real_open
    <3>5. CASE \E e \in Clients, v \in Values : app_write(e, v)
      BY <3>5 DEF app_write
    <3>6. CASE \E e \in Clients : app_exit(e)
      BY <3>6 DEF app_exit, CReturn
    <3>7. QED
      BY <3>1, <3>2, <3>3, <3>4, <3>5, <3>6 DEF Next
  <2>2. cfile[c] \in overlapped' \/ ~stub'[cfile[c]]
    <3>1. Opening(c) /\ cfile[c] \in Files /\ overlapped \subseteq overlapped'
      BY <1>1, <2>1 DEF Inv, Safety, TypeOK, finish_open_common, poll_file_location,
                        clear_object_id, Opened, Overlap, CReturn
    <3>2. QED
      BY <1>1, <2>1, <3>1 DEF Inv, TypeOK, Opening, finish_open_common, poll_file_location,
                              clear_object_id, CReturn
  <2>3. cfile[c] \in Files /\ LocalIntact'
    <3>1. LocalIntact'
      BY <1>1 DEF Inv, Safety, Kept, LocalIntact
    <3>2. QED
      BY <1>1, <2>1, <3>1 DEF Inv, TypeOK, finish_open_common, poll_file_location, clear_object_id
  <2>4. QED
    BY <2>2, <2>3 DEF LocalIntact
<1>2. Inv /\ Inv' /\ [Next]_vars => [\A c \in Clients : Returns(c)]_vars
  BY <1>1
<1>3. QED
  BY SpecInv, <1>2, PTL DEF OpenReturnsContent, Spec

\* A file that is being uploaded stays local until its stub is set.
Unstubbed ==
  \A w \in Workers : pc[w] \in {"read", "put", "set_oid", "set_stub"} => ~stub[target[w]]

LEMMA NextUnstubbed ==
  ASSUME Protected, Inv, Unstubbed, [Next]_vars
  PROVE  Unstubbed'
<1> USE DEF Inv, TypeOK, Unstubbed, LockExclusive, Holding, LockSteps, DataSteps
<1>1. ASSUME NEW w \in Workers, transfer(w)
      PROVE  Unstubbed'
  <2>1. CASE try_lock_file(w) \/ try_lock_file_fails(w) \/ remove_object_id(w) \/ unlock_file(w)
    BY <2>1 DEF try_lock_file, try_lock_file_fails, remove_object_id, unlock_file, Return
  <2>2. CASE upload_is_local(w)
    BY <2>2 DEF upload_is_local, Fault, Protected
  <2>3. CASE upload_read(w) \/ upload_put(w) \/ upload_set_object_id(w)
    BY <2>3 DEF upload_read, upload_put, upload_set_object_id
  <2>4. CASE upload_set_stub(w)
    BY <2>4 DEF upload_set_stub
  <2>5. CASE upload_fstat(w) \/ upload_truncate(w) \/ upload_extend(w)
    BY <2>5 DEF upload_fstat, upload_truncate, upload_extend
  <2>6. CASE upload_undo_object_id(w) \/ upload_undo_stub(w)
    BY <2>6 DEF upload_undo_object_id, upload_undo_stub
  <2>7. CASE download_file(w)
    BY <2>7 DEF download_file, download_is_local, download_get_object_id, download_first_chunk,
                download_last_chunk, download_remove_stub
  <2> QED
    BY <1>1, <2>1, <2>2, <2>3, <2>4, <2>5, <2>6, <2>7 DEF transfer, upload_file
<1>2. ASSUME NEW c \in Clients, open(c) \/ app_exit(c)
      PROVE  Unstubbed'
  BY <1>2 DEF open, app_exit, finish_open_common, poll_file_location, clear_stub, clear_object_id
<1>3. CASE \E c \in Clients, f \in Files, m \in Modes : real_open(c, f, m)
  BY <1>3 DEF real_open
<1>4. CASE \E c \in Clients, v \in Values : app_write(c, v)
  BY <1>4 DEF app_write
<1>5. CASE Crash \/ UNCHANGED vars \/ \E w \in Workers, f \in Files : Start(w, f)
  BY <1>5 DEF Crash, vars, Start
<1> QED
  BY <1>1, <1>2, <1>3, <1>4, <1>5 DEF Next

\* What the store has for a remote file is never replaced, unless is_local_file
\* fails: no upload of the zeros that the eviction left.
THEOREM RemoteObjectsKept ==
  ASSUME Protected
  PROVE  Spec => RemoteObjectKept
<1> DEFINE Same(f) == stub[f] /\ objectId[f] # NoId => store'[objectId[f]] = store[objectId[f]]
<1>1. Init => Unstubbed
  BY DEF Init, Unstubbed
<1>2. ASSUME Inv, Unstubbed, [Next]_vars
      PROVE  \A f \in Files : Same(f)
  <2> USE <1>2 DEF Inv, TypeOK
  <2>1. ASSUME NEW w \in Workers, upload_put(w)
        PROVE  \A f \in Files : Same(f)
    <3>1. target[w] \in Files /\ ~stub[target[w]] /\ key[w] = ObjectIdOf[target[w]]
      BY <2>1 DEF upload_put, Unstubbed, Safety, Progress
    <3>2. \A f \in Files : stub[f] /\ objectId[f] # NoId => objectId[f] # key[w]
      BY <3>1 DEF Safety, Kept, Protected
    <3> QED
      BY <2>1, <3>2 DEF upload_put
  <2>2. CASE UNCHANGED store
    BY <2>2
  <2>3. (\A w \in Workers : ~upload_put(w)) => UNCHANGED store
    BY DEF Next, transfer, upload_file, download_file, open, vars, Start, try_lock_file,
           try_lock_file_fails, unlock_file, remove_object_id, upload_is_local, upload_read,
           upload_set_object_id, upload_set_stub, upload_fstat, upload_truncate, upload_extend,
           upload_undo_object_id, upload_undo_stub, download_is_local, download_get_object_id,
           download_first_chunk, download_last_chunk, download_remove_stub, Crash, real_open,
           finish_open_common, poll_file_location, clear_stub, clear_object_id, app_write, app_exit
  <2> QED
    BY <2>1, <2>2, <2>3
<1>3. Inv /\ Unstubbed /\ [Next]_vars => [\A f \in Files : Same(f)]_vars
  BY <1>2
<1>4. Inv /\ Unstubbed /\ [Next]_vars => Unstubbed'
  BY NextUnstubbed
<1> QED
  BY SpecInv, <1>1, <1>3, <1>4, PTL DEF RemoteObjectKept, Spec
=============================================================================
