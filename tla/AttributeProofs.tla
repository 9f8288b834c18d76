---------------------------- MODULE AttributeProofs ----------------------------
(* When the attributes of a file agree: a theorem about Tiering for all files,  *)
(* threads and clients.  It does not need Protected: a failing is_local_file or *)
(* second ftruncate costs the content of a file, and leaves it local or remote. *)
EXTENDS TieringProofs

USE DEF disk, worker, client, history, At, Goto, CAt, CGoto,
        is_local_file_fd, is_local_file, schedule_download

\* The failures after which the code leaves one attribute without the other.
Repaired == {"remove_xattr", "lib_clear", "kill"} \cap Faults = {}

Agree(f) == stub[f] <=> objectId[f] # NoId

\* A client is between its two fremovexattr calls.
HalfCleared(f) == \E c \in Clients : cfile[c] = f /\ cpc[c] = "clear_oid"

\* The attributes of its file before each call of a transfer thread.
Marks(w) ==
  LET f == target[w] IN
  pc[w] \in LockSteps /\ f \notin overlapped =>
    /\ pc[w] \in {"check", "read", "put", "set_oid", "get_oid", "fetch", "write", "rm_stub"} => Agree(f)
    /\ pc[w] = "set_stub" => ~stub[f] /\ objectId[f] # NoId
    /\ pc[w] \in {"fstat", "truncate", "extend", "undo_oid"} => stub[f] /\ objectId[f] # NoId
    /\ pc[w] = "undo_stub" => stub[f] /\ objectId[f] = NoId
    /\ pc[w] = "rm_oid" => ~stub[f]
    /\ pc[w] = "unlock" => Agree(f) \/ HalfCleared(f)

\* What clear_xattrs has done so far.
Clears(c) ==
  /\ cpc[c] \in {"clear_stub", "clear_oid"} => cmode[c] = "trunc"
  /\ cpc[c] # "clear_oid_eio"
  /\ cpc[c] = "clear_oid" /\ cfile[c] \notin overlapped => ~stub[cfile[c]]

\* A file that is neither locked nor half cleared.
Settled == \A f \in Files \ overlapped : locked[f] \/ HalfCleared(f) \/ Agree(f)

Marked ==
  /\ \A w \in Workers : Marks(w)
  /\ \A c \in Clients : Clears(c)
  /\ Settled
  /\ Apart

LEMMA InitMarked == Init => Marked
<1> SUFFICES ASSUME Init PROVE Marked
  OBVIOUS
<1>1. \A w \in Workers : Marks(w)
  BY DEF Init, Marks, LockSteps, DataSteps
<1>2. \A c \in Clients : Clears(c)
  BY DEF Init, Clears
<1>3. Settled
  BY DEF Init, Settled, Agree
<1>4. Apart
  BY DEF Init, Apart, Modifying
<1>5. QED
  BY <1>1, <1>2, <1>3, <1>4 DEF Marked

-----------------------------------------------------------------------------
(* Steps of the transfer threads *)

\* A step under the lock leaves the attributes of its file as the next call expects them.
LEMMA HeldMarks ==
  ASSUME TypeOK, Marked, Repaired, NEW w \in Workers, HeldStep(w)
  PROVE  Marks(w)'
<1> DEFINE f == target[w]
<1>1. f \in Files /\ Marks(w)
  BY HeldFrame DEF Frame, TypeOK, DataSteps, Marked
<1>2. Frame(w)
  BY HeldFrame
<1>3. ASSUME pc'[w] = "unlock", f \notin overlapped => Agree(f)'
      PROVE  Marks(w)'
  BY <1>2, <1>3 DEF Marks, Frame
<1> USE <1>1 DEF TypeOK, LockSteps, DataSteps, Agree
<1>4. CASE upload_is_local(w)
  BY <1>3, <1>4 DEF upload_is_local, Marks
<1>5. CASE upload_read(w)
  BY <1>3, <1>5 DEF upload_read, Marks
<1>6. CASE upload_put(w)
  BY <1>3, <1>6 DEF upload_put, Marks
<1>7. CASE upload_set_object_id(w)
  BY <1>3, <1>7, KeysAssumption, ConstantsAssumption DEF upload_set_object_id, Marks
<1>8. CASE upload_set_stub(w)
  BY <1>3, <1>8 DEF upload_set_stub, Marks
<1>9. CASE upload_fstat(w)
  BY <1>3, <1>9 DEF upload_fstat, Marks
<1>10. CASE upload_truncate(w)
  BY <1>3, <1>10 DEF upload_truncate, Marks
<1>11. CASE upload_extend(w)
  BY <1>3, <1>11 DEF upload_extend, Marks
<1>12. CASE upload_undo_object_id(w)
  BY <1>3, <1>12 DEF upload_undo_object_id, Marks, Fault, Repaired
<1>13. CASE upload_undo_stub(w)
  BY <1>3, <1>13 DEF upload_undo_stub, Marks, Fault, Repaired
<1>14. CASE download_is_local(w)
  BY <1>3, <1>14 DEF download_is_local, Marks
<1>15. CASE download_get_object_id(w)
  BY <1>3, <1>15 DEF download_get_object_id, Marks
<1>16. CASE download_first_chunk(w)
  BY <1>3, <1>16 DEF download_first_chunk, Marks
<1>17. CASE download_last_chunk(w)
  BY <1>3, <1>17 DEF download_last_chunk, Marks
<1>18. CASE download_remove_stub(w)
  BY <1>3, <1>18 DEF download_remove_stub, Marks
<1>19. CASE remove_object_id(w)
  BY <1>3, <1>19 DEF remove_object_id, Marks, Fault, Repaired
<1>20. QED
  BY <1>4, <1>5, <1>6, <1>7, <1>8, <1>9, <1>10, <1>11, <1>12, <1>13, <1>14, <1>15, <1>16, <1>17,
     <1>18, <1>19 DEF HeldStep, upload_file, download_file

\* It disturbs no other thread, file or client.
LEMMA HeldMarked ==
  ASSUME TypeOK, LockExclusive, Marked, Repaired, NEW w \in Workers, HeldStep(w)
  PROVE  Marked'
<1> DEFINE f == target[w]
<1>1. Frame(w)
  BY HeldFrame
<1>2. f \in Files /\ pc[w] \in LockSteps
  BY <1>1 DEF TypeOK, Frame, LockSteps, DataSteps
<1>3. ASSUME NEW v \in Workers
      PROVE  Marks(v)'
  <2>1. CASE v = w
    BY <2>1, HeldMarks
  <2>2. CASE v # w /\ pc[v] \in LockSteps
    <3>1. target[v] \in Files /\ target[v] # f
      BY <1>2, <2>2 DEF TypeOK, LockExclusive, Holding, LockSteps, DataSteps
    <3>2. Marks(v) /\ pc'[v] = pc[v] /\ target'[v] = target[v]
      BY <1>1, <2>2 DEF Marked, Frame, TypeOK
    <3>3. QED
      BY <1>1, <3>1, <3>2 DEF Frame, Marks, Agree, HalfCleared
  <2>3. CASE v # w /\ pc[v] \notin LockSteps
    BY <1>1, <2>3 DEF Frame, TypeOK, Marks
  <2>4. QED
    BY <2>1, <2>2, <2>3
<1>4. ASSUME NEW c \in Clients
      PROVE  Clears(c)'
  <2>1. Clears(c) /\ UNCHANGED <<cpc, cfile, cmode, overlapped>>
    BY <1>1 DEF Marked, Frame
  <2>2. CASE cpc[c] = "clear_oid" /\ cfile[c] = f /\ pc[w] \in DataSteps
    <3>1. Transferring(f) /\ Modifying(f)
      BY <2>1, <2>2 DEF Transferring, Modifying, Clears
    <3>2. f \in overlapped
      BY <1>2, <3>1 DEF Marked, Apart
    <3>3. QED
      BY <2>1, <2>2, <3>2 DEF Clears
  <2>3. CASE cpc[c] # "clear_oid" \/ cfile[c] # f \/ pc[w] = "rm_oid"
    <3>1. cpc[c] = "clear_oid" => cfile[c] \in Files /\ stub'[cfile[c]] = stub[cfile[c]]
      BY <1>1, <2>3 DEF Frame, TypeOK
    <3>2. QED
      BY <2>1, <3>1 DEF Clears
  <2>4. QED
    BY <1>1, <2>2, <2>3 DEF Frame
<1>5. Settled'
  <2>1. locked[f]
    BY <1>2 DEF LockExclusive, Holding
  <2>2. QED
    BY <1>1, <1>2, <2>1 DEF Marked, Settled, Frame, Agree, HalfCleared
<1>6. Apart'
  <2>1. \A g \in Files : Transferring(g)' => Transferring(g)
    BY <1>1 DEF Frame, Transferring, TypeOK, DataSteps, LockSteps
  <2>2. \A g \in Files : Modifying(g)' => Modifying(g)
    BY <1>1 DEF Frame, Modifying
  <2>3. QED
    BY <1>1, <2>1, <2>2 DEF Frame, Marked, Apart
<1>7. QED
  BY <1>3, <1>4, <1>5, <1>6 DEF Marked

LEMMA WorkerMarked ==
  ASSUME TypeOK, LockExclusive, Marked, Repaired, NEW w \in Workers, transfer(w)
  PROVE  Marked'
<1> USE DEF TypeOK, LockSteps, DataSteps
<1>1. CASE try_lock_file(w)
  <2> DEFINE f == target[w]
  <2>1. f \in Files /\ ~locked[f] /\ f \notin overlapped' => ~Modifying(f)
    BY <1>1 DEF try_lock_file
  <2>2. f \in Files /\ f \notin overlapped' => Agree(f)
    <3>1. HalfCleared(f) => Modifying(f)
      BY DEF HalfCleared, Modifying, Marked, Clears
    <3>2. QED
      BY <1>1, <2>1, <3>1 DEF Marked, Settled, try_lock_file
  <2>3. \A v \in Workers : Marks(v)'
    BY <1>1, <2>2 DEF try_lock_file, Marks, Marked, Agree, HalfCleared
  <2>4. \A c \in Clients : Clears(c)'
    BY <1>1 DEF try_lock_file, Marked, Clears
  <2>5. Settled'
    BY <1>1 DEF try_lock_file, Marked, Settled, Agree, HalfCleared
  <2>6. Apart'
    BY <1>1, <2>1 DEF try_lock_file, Marked, Apart, Transferring, Modifying
  <2>7. QED
    BY <2>3, <2>4, <2>5, <2>6 DEF Marked
<1>2. CASE try_lock_file_fails(w)
  <2> USE <1>2 DEF try_lock_file_fails, Return, Marked
  <2>1. \A v \in Workers : Marks(v)'
    BY DEF Marks, Agree, HalfCleared
  <2>2. \A c \in Clients : Clears(c)'
    BY DEF Clears
  <2>3. Settled'
    BY DEF Settled, Agree, HalfCleared
  <2>4. Apart'
    BY DEF Apart, Transferring, Modifying
  <2>5. QED
    BY <2>1, <2>2, <2>3, <2>4
<1>3. CASE unlock_file(w)
  <2> USE <1>3 DEF unlock_file, Return, Marked
  <2>1. \A v \in Workers : Marks(v)'
    BY DEF Marks, Agree, HalfCleared
  <2>2. \A c \in Clients : Clears(c)'
    BY DEF Clears
  <2>3. Settled'
    <3>1. target[w] \in Files /\ Marks(w)
      OBVIOUS
    <3>2. \A f \in Files : f # target[w] => locked'[f] = locked[f]
      OBVIOUS
    <3>3. target[w] \notin overlapped => Agree(target[w]) \/ HalfCleared(target[w])
      BY <3>1 DEF Marks
    <3>4. QED
      BY <3>2, <3>3 DEF Settled, Agree, HalfCleared
  <2>4. Apart'
    BY DEF Apart, Transferring, Modifying
  <2>5. QED
    BY <2>1, <2>2, <2>3, <2>4
<1>4. CASE HeldStep(w)
  BY <1>4, HeldMarked
<1>5. QED
  BY <1>1, <1>2, <1>3, <1>4 DEF transfer, HeldStep

-----------------------------------------------------------------------------
(* Steps of the clients *)

\* Steps that change no attribute, and end or begin no clearing.
Bystander ==
  /\ UNCHANGED <<stub, locked, objectId, worker>>
  /\ overlapped \subseteq overlapped'
  /\ \A f \in Files : HalfCleared(f) => HalfCleared(f)'

LEMMA BystanderMarks ==
  ASSUME TypeOK, Marked, Bystander
  PROVE  (\A w \in Workers : Marks(w)') /\ Settled'
<1> USE DEF Bystander, Marked
<1>1. ASSUME NEW w \in Workers
      PROVE  Marks(w)'
  BY DEF Marks, Agree, TypeOK, LockSteps, DataSteps
<1>2. Settled'
  BY DEF Settled, Agree
<1>3. QED
  BY <1>1, <1>2

LEMMA ClientMarked ==
  ASSUME TypeOK, Marked, Repaired, NEW c \in Clients
  PROVE  /\ \A f \in Files, m \in Modes : real_open(c, f, m) => Marked'
         /\ open(c) => Marked'
         /\ \A v \in Values : app_write(c, v) => Marked'
         /\ app_exit(c) => Marked'
<1> USE DEF TypeOK
<1>1. ASSUME NEW f \in Files, NEW m \in Modes, real_open(c, f, m)
      PROVE  Marked'
  <2> USE <1>1 DEF real_open, Overlap
  <2>1. Bystander
    BY DEF Bystander, HalfCleared
  <2>2. \A e \in Clients : Clears(e)'
    BY DEF Clears, Marked
  <2>3. Apart'
    BY DEF Apart, Transferring, Modifying, Marked
  <2>4. QED
    BY <2>1, <2>2, <2>3, BystanderMarks DEF Marked
<1>2. ASSUME finish_open_common(c)
      PROVE  Marked'
  <2> USE <1>2 DEF finish_open_common, Opened, Overlap, CReturn
  <2>1. Bystander
    BY DEF Bystander, HalfCleared
  <2>2. \A e \in Clients : Clears(e)'
    BY DEF Clears, Marked
  <2>3. Apart'
    BY DEF Apart, Transferring, Modifying, Marked
  <2>4. QED
    BY <2>1, <2>2, <2>3, BystanderMarks DEF Marked
<1>3. ASSUME poll_file_location(c)
      PROVE  Marked'
  <2> USE <1>3 DEF poll_file_location, Opened, Overlap, CReturn
  <2>1. Bystander
    BY DEF Bystander, HalfCleared
  <2>2. \A e \in Clients : Clears(e)'
    BY DEF Clears, Marked
  <2>3. Apart'
    BY DEF Apart, Transferring, Modifying, Marked
  <2>4. QED
    BY <2>1, <2>2, <2>3, BystanderMarks DEF Marked
<1>4. ASSUME clear_stub(c)
      PROVE  Marked'
  <2> USE <1>4 DEF clear_stub, Fault, Repaired
  <2> DEFINE f == cfile[c]
  <2>0. f \in Files /\ Modifying(f) /\ HalfCleared(f)' /\ stub' = [stub EXCEPT ![f] = FALSE]
    BY DEF Marked, Clears, Modifying, HalfCleared
  <2>1. f \notin overlapped => \A w \in Workers : target[w] = f => pc[w] \notin DataSteps
    BY <2>0 DEF Marked, Apart, Transferring
  <2>2. \A g \in Files : HalfCleared(g) => HalfCleared(g)'
    BY DEF HalfCleared
  <2>3. ASSUME NEW w \in Workers
        PROVE  Marks(w)'
    <3>1. Marks(w)
      BY DEF Marked
    <3>2. CASE target[w] = f
      BY <2>0, <2>1, <3>1, <3>2 DEF Marks, LockSteps, DataSteps
    <3>3. CASE target[w] # f
      BY <2>2, <3>1, <3>3 DEF Marks, LockSteps, DataSteps, Agree
    <3>4. QED
      BY <3>2, <3>3
  <2>4. \A e \in Clients : Clears(e)'
    BY DEF Clears, Marked
  <2>5. Settled'
    BY <2>0, <2>2 DEF Settled, Marked, Agree
  <2>6. Apart'
    BY DEF Apart, Transferring, Modifying, Marked
  <2>7. QED
    BY <2>3, <2>4, <2>5, <2>6 DEF Marked
<1>5. ASSUME clear_object_id(c)
      PROVE  Marked'
  <2> USE <1>5 DEF clear_object_id, Opened, Overlap, CReturn, Fault, Repaired
  <2> DEFINE f == cfile[c]
  <2>0. /\ f \in Files /\ Modifying(f) /\ cpc[c] = "clear_oid"
        /\ objectId' = [objectId EXCEPT ![f] = NoId] /\ overlapped \subseteq overlapped'
        /\ f \notin overlapped => ~stub[f]
    BY DEF Marked, Clears, Modifying
  <2>1. f \notin overlapped => \A w \in Workers : target[w] = f => pc[w] \notin DataSteps
    BY <2>0 DEF Marked, Apart, Transferring
  <2>2. \A g \in Files : g # f /\ HalfCleared(g) => HalfCleared(g)'
    BY DEF HalfCleared
  <2>3. f \notin overlapped => Agree(f)'
    BY <2>0 DEF Agree
  <2>4. ASSUME NEW w \in Workers
        PROVE  Marks(w)'
    <3>1. Marks(w)
      BY DEF Marked
    <3>2. CASE target[w] = f
      BY <2>0, <2>1, <2>3, <3>1, <3>2 DEF Marks, LockSteps, DataSteps
    <3>3. CASE target[w] # f
      BY <2>0, <2>2, <3>1, <3>3 DEF Marks, LockSteps, DataSteps, Agree
    <3>4. QED
      BY <3>2, <3>3
  <2>5. \A e \in Clients : Clears(e)'
    BY DEF Clears, Marked
  <2>6. Settled'
    BY <2>0, <2>2, <2>3 DEF Settled, Marked, Agree
  <2>7. Apart'
    BY DEF Apart, Transferring, Modifying, Marked
  <2>8. QED
    BY <2>4, <2>5, <2>6, <2>7 DEF Marked
<1>6. ASSUME NEW v \in Values, app_write(c, v)
      PROVE  Marked'
  <2> USE <1>6 DEF app_write
  <2>1. Bystander
    BY DEF Bystander, HalfCleared
  <2>2. \A e \in Clients : Clears(e)'
    BY DEF Clears, Marked
  <2>3. Apart'
    BY DEF Apart, Transferring, Modifying, Marked
  <2>4. QED
    BY <2>1, <2>2, <2>3, BystanderMarks DEF Marked
<1>7. ASSUME app_exit(c)
      PROVE  Marked'
  <2> USE <1>7 DEF app_exit, CReturn, Fault, Repaired
  <2>1. Bystander
    BY DEF Bystander, HalfCleared
  <2>2. \A e \in Clients : Clears(e)'
    BY DEF Clears, Marked
  <2>3. Apart'
    BY DEF Apart, Transferring, Modifying, Marked
  <2>4. QED
    BY <2>1, <2>2, <2>3, BystanderMarks DEF Marked
<1>8. QED
  BY <1>1, <1>2, <1>3, <1>4, <1>5, <1>6, <1>7 DEF open

-----------------------------------------------------------------------------
LEMMA NextMarked ==
  ASSUME TypeOK, LockExclusive, Marked, Repaired, [Next]_vars
  PROVE  Marked'
<1>1. CASE \E w \in Workers, f \in Files : Start(w, f)
  <2> USE <1>1 DEF Start, Marked, TypeOK
  <2>1. \A w \in Workers : Marks(w)'
    BY DEF Marks, Agree, HalfCleared, LockSteps, DataSteps
  <2>2. \A c \in Clients : Clears(c)'
    BY DEF Clears
  <2>3. Settled'
    BY DEF Settled, Agree, HalfCleared
  <2>4. Apart'
    BY DEF Apart, Transferring, Modifying, DataSteps
  <2>5. QED
    BY <2>1, <2>2, <2>3, <2>4
<1>2. CASE Crash
  <2> USE <1>2 DEF Crash, Marked, TypeOK
  <2>1. \A w \in Workers : Marks(w)'
    BY DEF Marks, LockSteps, DataSteps
  <2>2. \A c \in Clients : Clears(c)'
    BY DEF Clears
  <2>3. Settled'
    BY DEF Settled, Agree, HalfCleared
  <2>4. Apart'
    BY DEF Apart, Transferring, DataSteps
  <2>5. QED
    BY <2>1, <2>2, <2>3, <2>4
<1>3. CASE UNCHANGED vars
  BY <1>3 DEF vars, Marked, Marks, Clears, Settled, Agree, HalfCleared, Apart, Transferring, Modifying
<1>4. CASE \E w \in Workers : transfer(w)
  BY <1>4, WorkerMarked
<1>5. CASE \E c \in Clients : open(c) \/ app_exit(c)
  BY <1>5, ClientMarked
<1>6. CASE \E c \in Clients, f \in Files, m \in Modes : real_open(c, f, m)
  BY <1>6, ClientMarked
<1>7. CASE \E c \in Clients, v \in Values : app_write(c, v)
  BY <1>7, ClientMarked
<1>8. QED
  BY <1>1, <1>2, <1>3, <1>4, <1>5, <1>6, <1>7 DEF Next

\* Unless a failing fremovexattr, in the daemon or in clear_xattrs, or the death of
\* a client between two removals leaves one attribute alone, the attributes
\* of a file that nobody transfers or clears agree: every other failure of upload_file
\* and download_file is undone or leaves the file locked, and so does every crash.
THEOREM AttributesRepaired ==
  ASSUME Repaired
  PROVE  Spec => []AttributesAgree
<1>1. Init => Marked
  BY InitMarked
<1>2. TypeOK /\ LockExclusive /\ Marked /\ [Next]_vars => Marked'
  BY NextMarked
<1>3. Marked => AttributesAgree
  BY DEF Marked, Settled, HalfCleared, Agree, AttributesAgree
<1>4. QED
  BY TypeCorrect, MutualExclusion, <1>1, <1>2, <1>3, PTL DEF Spec

\* Under the same hypothesis no failure path of upload_file or download_file returns
\* with the file locked: only a crash leaves a lock behind.
THEOREM LocksReleased ==
  ASSUME Repaired
  PROVE  Spec => LockReleased
<1> DEFINE Released == \A w \in Workers :
                         Holding(w) /\ pc'[w] = "idle" => ~locked'[target[w]] \/ Crash
<1>1. ASSUME TypeOK, [Next]_vars, NEW w \in Workers, Holding(w), pc'[w] = "idle", ~Crash
      PROVE  ~locked'[target[w]]
  <2> USE <1>1 DEF TypeOK, Holding, LockSteps, DataSteps
  <2>1. ASSUME NEW v \in Workers, transfer(v)
        PROVE  unlock_file(v) /\ v = w
    <3>1. CASE HeldStep(v)
      BY <3>1, HeldFrame DEF Frame
    <3>2. CASE try_lock_file(v) \/ try_lock_file_fails(v) \/ unlock_file(v)
      BY <3>2 DEF try_lock_file, try_lock_file_fails, unlock_file, Return
    <3>3. QED
      BY <2>1, <3>1, <3>2 DEF transfer, HeldStep
  <2>2. CASE \E v \in Workers : transfer(v)
    BY <2>1, <2>2 DEF unlock_file, Fault, Repaired
  <2>3. ASSUME NEW c \in Clients, open(c)
        PROVE  UNCHANGED pc
    BY <2>3 DEF open, finish_open_common, poll_file_location, clear_stub, clear_object_id
  <2>4. CASE \E v \in Workers, f \in Files : Start(v, f)
    BY <2>4 DEF Start
  <2>5. QED
    BY <2>2, <2>3, <2>4 DEF Next, vars, real_open, app_write, app_exit
<1>2. TypeOK /\ [Next]_vars => [Released]_vars
  BY <1>1
<1>3. QED
  BY TypeCorrect, <1>2, PTL DEF LockReleased, Spec
=============================================================================
