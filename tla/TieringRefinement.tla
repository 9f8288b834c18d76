-------------------------- MODULE TieringRefinement --------------------------
(* Tiering implements TieredFiles: what applications find in a file is what  *)
(* they wrote last, for all files, threads, clients, contents and faults.    *)
EXTENDS TieringProofs

USE DEF disk, worker, client, history, At, Goto, CAt, CGoto,
        is_local_file_fd, is_local_file, schedule_download

\* The file has what its object has when its stub or its object_id goes.
Exact(w) ==
  LET f == target[w] IN
  f \notin overlapped =>
    /\ pc[w] \in {"undo_oid", "rm_stub"} => store[objectId[f]] = data[f]
    /\ pc[w] = "undo_stub" /\ objectId[f] # NoId => store[objectId[f]] = data[f]

ViewInv == Inv /\ Unstubbed /\ \A w \in Workers : Exact(w)

-----------------------------------------------------------------------------
(* From files and clients one by one to View, Here and Phase *)

LEMMA ViewStays ==
  ASSUME \A g \in Files : ContentOf(g)' = ContentOf(g)
  PROVE  View' = View
  BY DEF View

LEMMA ViewBecomes ==
  ASSUME NEW f \in Files, NEW v,
         ContentOf(f)' = IF ContentOf(f) = Spoiled THEN Spoiled ELSE v,
         \A g \in Files : g # f => ContentOf(g)' = ContentOf(g)
  PROVE  Applications!Becomes(f, v)
  BY DEF View, Applications!Becomes, Applications!Spoiled, Spoiled

LEMMA PhaseStays ==
  ASSUME \A c \in Clients : PhaseOf(c)' = PhaseOf(c)
  PROVE  Phase' = Phase
  BY DEF Phase

LEMMA PhaseBecomes ==
  ASSUME NEW c \in Clients, NEW s, PhaseOf(c)' = s,
         \A d \in Clients : d # c => PhaseOf(d)' = PhaseOf(d)
  PROVE  Phase' = [Phase EXCEPT ![c] = s]
  BY DEF Phase

\* Of a settled file no client is truncating any more.
Settles(c, f) ==
  PhaseOf(c)' = IF cfile[c] = f /\ PhaseOf(c) = "truncating" THEN "opening" ELSE PhaseOf(c)

LEMMA PhaseSettles ==
  ASSUME NEW f, \A c \in Clients : Settles(c, f)
  PROVE  Phase' = Applications!Settled(f)
  BY DEF Phase, Settles, Applications!Settled

LEMMA HereBecomes ==
  ASSUME TypeOK, NEW f \in Files, \A g \in Files : g # f => stub'[g] = stub[g],
         stub' \in [Files -> BOOLEAN]
  PROVE  \/ Here' = Here /\ stub'[f] = stub[f]
         \/ Here' = [Here EXCEPT ![f] = ~@] /\ stub'[f] = ~stub[f]
<1>1. CASE stub'[f] = stub[f]
  <2>1. \A g \in Files : stub'[g] = stub[g]
    BY <1>1
  <2>2. Here' = Here
    BY <2>1, Zenon DEF Here
  <2>3. QED
    BY <1>1, <2>2
<1>2. CASE stub'[f] # stub[f]
  <2>1. stub[f] \in BOOLEAN /\ stub'[f] \in BOOLEAN
    BY DEF TypeOK
  <2>2. stub'[f] = ~stub[f]
    BY <1>2, <2>1
  <2>3. \A g \in Files : (~stub'[g]) = IF g = f THEN ~ ~stub[f] ELSE ~stub[g]
    BY <2>1, <2>2
  <2>4. Here' = [g \in Files |-> IF g = f THEN ~ ~stub[f] ELSE ~stub[g]]
    BY <2>3, Zenon DEF Here
  <2>5. [Here EXCEPT ![f] = ~@] = [g \in Files |-> IF g = f THEN ~ ~stub[f] ELSE ~stub[g]]
    BY Zenon DEF Here
  <2>6. QED
    BY <2>2, <2>4, <2>5
<1>3. QED
  BY <1>1, <1>2

\* A file whose attributes, content and object stay is what it was.
LEMMA SameContent ==
  ASSUME NEW g, data'[g] = data[g], stub'[g] = stub[g], objectId'[g] = objectId[g],
         Remote(g) => store'[objectId[g]] = store[objectId[g]],
         g \in overlapped' <=> g \in overlapped
  PROVE  ContentOf(g)' = ContentOf(g)
  BY DEF ContentOf, Remote

\* A client at the same step of its open() is in the same phase while its file is remote,
\* and overlapped, as before.
LEMMA SamePhase ==
  ASSUME NEW c, cpc'[c] = cpc[c], cfile'[c] = cfile[c], cmode'[c] = cmode[c],
         \/ cpc[c] \in {"closed", "open"} \/ cmode[c] # "trunc"
         \/ /\ cfile[c] \in overlapped' <=> cfile[c] \in overlapped
            /\ Remote(cfile[c])' <=> Remote(cfile[c])
  PROVE  PhaseOf(c)' = PhaseOf(c)
  BY DEF PhaseOf

-----------------------------------------------------------------------------
(* Exact is kept *)

LEMMA HeldExact ==
  ASSUME Inv, Protected, NEW w \in Workers, HeldStep(w), \A v \in Workers : Exact(v)
  PROVE  Exact(w)'
<1> DEFINE f == target[w]
<1>1. /\ TypeOK /\ Kept(f) /\ Progress(w) /\ Exact(w) /\ f \in Files /\ pc[w] \in LockSteps
      /\ UNCHANGED <<target, overlapped>> /\ pc'[w] \in LockSteps
  <2>1. Frame(w) /\ f \in Files
    BY HeldFrame DEF Inv, Frame, TypeOK, DataSteps
  <2>2. QED
    BY <2>1 DEF Inv, Safety, Frame, LockSteps
<1> USE DEF LockSteps, DataSteps
<1>2. CASE upload_truncate(w)
  <2>1. pc'[w] = "undo_oid" => UNCHANGED <<data, store, objectId>>
    BY <1>1, <1>2 DEF upload_truncate, TypeOK
  <2>2. f \notin overlapped => store[objectId[f]] = data[f]
    BY <1>1, <1>2 DEF upload_truncate, Progress
  <2>3. pc'[w] \in {"undo_oid", "extend"}
    BY <1>1, <1>2 DEF upload_truncate, TypeOK
  <2>4. QED
    BY <1>1, <2>1, <2>2, <2>3 DEF Exact
<1>3. CASE upload_undo_object_id(w)
  <2>1. pc'[w] = "undo_stub" /\ UNCHANGED <<data, store>>
    BY <1>1, <1>3 DEF upload_undo_object_id, TypeOK
  <2>2. objectId'[f] = NoId \/ objectId' = objectId
    BY <1>1, <1>3 DEF upload_undo_object_id, TypeOK
  <2>3. f \notin overlapped => store[objectId[f]] = data[f]
    BY <1>1, <1>3 DEF upload_undo_object_id, Exact
  <2>4. QED
    BY <1>1, <2>1, <2>2, <2>3 DEF Exact
<1>4. CASE download_last_chunk(w)
  <2>1. pc'[w] = "rm_stub" => data'[f] = Written(data[f], seen[w], seen[w])
    BY <1>1, <1>4 DEF download_last_chunk, TypeOK
  <2>2. UNCHANGED <<store, objectId>> /\ pc'[w] \in {"rm_stub", "unlock"}
    BY <1>1, <1>4 DEF download_last_chunk, TypeOK
  <2>3. f \notin overlapped =>
          /\ seen[w] = store[objectId[f]]
          /\ store[objectId[f]] = Empty => data[f] = Empty
    BY <1>1, <1>4 DEF download_last_chunk, Progress, Kept
  <2>4. pc'[w] = "rm_stub" /\ f \notin overlapped => store[objectId[f]] = data'[f]
    BY <2>1, <2>3 DEF Written
  <2>5. QED
    BY <1>1, <2>2, <2>4 DEF Exact
<1>5. CASE upload_extend(w)
  <2>1. pc'[w] = "unlock"
    BY <1>1, <1>5 DEF upload_extend, Fault, Protected, TypeOK
  <2>2. QED
    BY <2>1 DEF Exact
<1>6. CASE ~(upload_truncate(w) \/ upload_undo_object_id(w) \/ download_last_chunk(w) \/ upload_extend(w))
  <2>1. pc'[w] \notin {"undo_oid", "rm_stub", "undo_stub"}
    <3> USE <1>1 DEF TypeOK
    <3>1. CASE upload_file(w)
      BY <1>6, <3>1 DEF upload_file, upload_is_local, upload_read, upload_put, upload_set_object_id,
                        upload_set_stub, upload_fstat, upload_undo_stub
    <3>2. CASE download_file(w)
      BY <1>6, <3>2 DEF download_file, download_is_local, download_get_object_id,
                        download_first_chunk, download_remove_stub
    <3>3. CASE remove_object_id(w)
      BY <3>3 DEF remove_object_id
    <3>4. QED
      BY <3>1, <3>2, <3>3 DEF HeldStep
  <2>2. QED
    BY <2>1 DEF Exact
<1>7. QED
  BY <1>2, <1>3, <1>4, <1>5, <1>6

\* A step under the lock of one file leaves another one and its object as they are.
LEMMA HeldElsewhere ==
  ASSUME Inv, Protected, NEW w \in Workers, HeldStep(w), NEW g \in Files, g # target[w]
  PROVE  /\ data'[g] = data[g] /\ stub'[g] = stub[g] /\ objectId'[g] = objectId[g]
         /\ objectId[g] # NoId => store'[objectId[g]] = store[objectId[g]]
<1>1. Frame(w) /\ target[w] \in Files
  BY HeldFrame DEF Inv, Frame, TypeOK, DataSteps
<1>2. pc[w] = "put" => key[w] = ObjectIdOf[target[w]]
  BY DEF Inv, Safety, Progress
<1>3. objectId[g] \in {NoId, ObjectIdOf[g]}
  BY DEF Inv, Safety, Kept
<1>4. ObjectIdOf[g] # ObjectIdOf[target[w]] /\ ObjectIdOf[g] \in ObjectIds
  BY <1>1, KeysAssumption DEF Protected
<1>5. QED
  BY <1>1, <1>2, <1>3, <1>4 DEF Frame

\* A client leaves alone what a transfer works on, or the file becomes overlapped.
ClientStep(c) ==
  \/ open(c) \/ app_exit(c)
  \/ \E f \in Files, m \in Modes : real_open(c, f, m)
  \/ \E v \in Values : app_write(c, v)

LEMMA ClientElsewhere ==
  ASSUME Inv, NEW c \in Clients, ClientStep(c)
  PROVE  /\ UNCHANGED <<store, worker>> /\ overlapped \subseteq overlapped'
         /\ \A w \in Workers : pc[w] \in DataSteps /\ target[w] \notin overlapped' =>
              LET f == target[w]
              IN  data'[f] = data[f] /\ stub'[f] = stub[f] /\ objectId'[f] = objectId[f]
<1>1. UNCHANGED <<store, worker>> /\ overlapped \subseteq overlapped'
  BY DEF ClientStep, open, app_exit, real_open, app_write, finish_open_common, poll_file_location,
         clear_stub, clear_object_id, Opened, Overlap
<1>2. ASSUME NEW w \in Workers, pc[w] \in DataSteps, target[w] \notin overlapped'
      PROVE  /\ data'[target[w]] = data[target[w]] /\ stub'[target[w]] = stub[target[w]]
             /\ objectId'[target[w]] = objectId[target[w]]
  <2> USE <1>1, <1>2 DEF Inv, TypeOK
  <2>0. target[w] \in Files
    BY DEF DataSteps
  <2>1. CASE finish_open_common(c) \/ poll_file_location(c) \/ app_exit(c)
    BY <2>1 DEF finish_open_common, poll_file_location, app_exit
  <2>2. CASE clear_stub(c) \/ clear_object_id(c)
    <3>1. cmode[c] = "trunc" /\ cpc[c] # "closed"
      BY <2>2 DEF Safety, Opening, Clearing, clear_stub, clear_object_id
    <3>2. cfile[c] # target[w]
      BY <3>1, NoTransfer
    <3>3. QED
      BY <2>0, <2>2, <3>2 DEF clear_stub, clear_object_id
  <2>3. ASSUME NEW v \in Values, app_write(c, v)
        PROVE  /\ data'[target[w]] = data[target[w]] /\ stub'[target[w]] = stub[target[w]]
               /\ objectId'[target[w]] = objectId[target[w]]
    <3>1. cfile[c] # target[w]
      BY <2>3, NoTransfer DEF app_write, Modes
    <3>2. QED
      BY <2>3, <3>1 DEF app_write
  <2>4. ASSUME NEW f \in Files, NEW m \in Modes, real_open(c, f, m)
        PROVE  /\ data'[target[w]] = data[target[w]] /\ stub'[target[w]] = stub[target[w]]
               /\ objectId'[target[w]] = objectId[target[w]]
    <3>1. m = "trunc" => f # target[w]
      BY <2>4 DEF real_open, Overlap, Transferring
    <3>2. QED
      BY <2>0, <2>4, <3>1 DEF real_open
  <2>5. QED
    BY <2>1, <2>2, <2>3, <2>4 DEF ClientStep, open
<1>3. QED
  BY <1>1, <1>2

LEMMA NextExact ==
  ASSUME Inv, Protected, \A w \in Workers : Exact(w), [Next]_vars, NEW v \in Workers
  PROVE  Exact(v)'
<1>1. ASSUME NEW w \in Workers, HeldStep(w)
      PROVE  Exact(v)'
  <2>1. Frame(w)
    BY <1>1, HeldFrame DEF Inv
  <2>2. CASE v = w
    BY <1>1, <2>2, HeldExact
  <2>3. CASE v # w
    <3>1. pc'[v] = pc[v] /\ UNCHANGED <<target, overlapped>>
      BY <2>1, <2>3 DEF Frame, Inv, TypeOK
    <3>2. CASE pc[v] \in LockSteps
      <4>1. target[v] \in Files /\ target[v] # target[w]
        BY <2>1, <2>3, <3>2
        DEF Inv, TypeOK, LockExclusive, Holding, Frame, LockSteps, DataSteps
      <4>2. pc[v] \in {"undo_oid", "rm_stub"} /\ target[v] \notin overlapped => objectId[target[v]] # NoId
        BY DEF Inv, Safety, Progress, LockSteps, DataSteps
      <4>3. QED
        BY <1>1, <3>1, <4>1, <4>2, HeldElsewhere DEF Exact
    <3>3. CASE pc[v] \notin LockSteps
      BY <3>1, <3>3 DEF Exact, LockSteps, DataSteps
    <3>4. QED
      BY <3>2, <3>3
  <2>4. QED
    BY <2>2, <2>3
<1>2. ASSUME NEW c \in Clients, ClientStep(c)
      PROVE  Exact(v)'
  BY <1>2, ClientElsewhere DEF Exact, DataSteps
<1>3. CASE Crash \/ UNCHANGED vars \/ \E w \in Workers, f \in Files : Start(w, f)
  BY <1>3 DEF Crash, vars, Start, Exact, Inv, TypeOK
<1>4. ASSUME NEW w \in Workers,
             try_lock_file(w) \/ try_lock_file_fails(w) \/ unlock_file(w)
      PROVE  Exact(v)'
  <2>1. UNCHANGED <<data, store, objectId>> /\ overlapped \subseteq overlapped'
    BY <1>4 DEF try_lock_file, try_lock_file_fails, unlock_file
  <2>2. pc'[v] \in {"undo_oid", "rm_stub", "undo_stub"} => pc'[v] = pc[v] /\ target'[v] = target[v]
    BY <1>4 DEF try_lock_file, try_lock_file_fails, unlock_file, Return, Inv, TypeOK
  <2>3. QED
    BY <2>1, <2>2 DEF Exact
<1>5. QED
  BY <1>1, <1>2, <1>3, <1>4 DEF Next, transfer, HeldStep, ClientStep

LEMMA SpecViewInv ==
  ASSUME Protected
  PROVE  Spec => []ViewInv
<1>1. Init => ViewInv
  <2>1. Init => Inv
    BY InitType, InitExclusive, InitSafety DEF Inv
  <2>2. Init => Unstubbed /\ \A w \in Workers : Exact(w)
    BY DEF Init, Unstubbed, Exact
  <2>3. QED
    BY <2>1, <2>2 DEF ViewInv
<1>2. ViewInv /\ [Next]_vars => ViewInv'
  <2>1. Inv /\ [Next]_vars => Inv'
    BY NextType, NextExclusive, NextSafety DEF Inv
  <2>2. QED
    BY <2>1, NextUnstubbed, NextExact DEF ViewInv
<1>3. QED
  BY <1>1, <1>2, PTL DEF Spec

-----------------------------------------------------------------------------
(* The steps of a transfer move a file or nothing *)

Unseen == UNCHANGED <<View, Here, Phase, cfile, cmode>>

LEMMA HeldContent ==
  ASSUME ViewInv, Protected, NEW w \in Workers, HeldStep(w), NEW f \in Files, f = target[w]
  PROVE  ContentOf(f)' = ContentOf(f)
<1>1. /\ TypeOK /\ Kept(f) /\ Progress(w) /\ Exact(w) /\ f \in Files /\ pc[w] \in LockSteps
      /\ UNCHANGED <<target, overlapped>>
  <2>1. Frame(w) /\ f \in Files
    BY HeldFrame DEF ViewInv, Inv, Frame, TypeOK, DataSteps
  <2>2. QED
    BY <2>1 DEF ViewInv, Inv, Safety, Frame, LockSteps
<1>2. CASE f \in overlapped
  BY <1>1, <1>2 DEF ContentOf
<1>3. CASE f \notin overlapped
  <2> USE <1>1, <1>3 DEF TypeOK, Progress, LockSteps, DataSteps, ContentOf, Remote
  <2>1. CASE upload_is_local(w) \/ upload_read(w) \/ upload_fstat(w) \/ download_is_local(w) \/ download_get_object_id(w)
    BY <2>1 DEF upload_is_local, upload_read, upload_fstat, download_is_local, download_get_object_id
  <2>2. CASE upload_put(w)
    BY <2>2 DEF upload_put
  <2>3. CASE upload_set_object_id(w)
    BY <2>3 DEF upload_set_object_id
  <2>4. CASE upload_set_stub(w)
    BY <2>4 DEF upload_set_stub
  <2>5. CASE upload_truncate(w) \/ upload_extend(w)
    BY <2>5 DEF upload_truncate, upload_extend
  <2>6. CASE upload_undo_object_id(w)
    BY <2>6 DEF upload_undo_object_id, Exact
  <2>7. CASE upload_undo_stub(w)
    BY <2>7 DEF upload_undo_stub, Exact
  <2>8. CASE download_first_chunk(w)
    <3>1. Remote(f) /\ UNCHANGED <<stub, objectId, store>>
      BY <2>8, KeysAssumption, ConstantsAssumption DEF download_first_chunk
    <3>2. QED
      BY <3>1
  <2>9. CASE download_last_chunk(w)
    BY <2>9 DEF download_last_chunk
  <2>10. CASE download_remove_stub(w)
    BY <2>10 DEF download_remove_stub, Exact
  <2>11. CASE remove_object_id(w)
    BY <2>11 DEF remove_object_id
  <2>12. QED
    BY <2>1, <2>2, <2>3, <2>4, <2>5, <2>6, <2>7, <2>8, <2>9, <2>10, <2>11
    DEF HeldStep, upload_file, download_file
<1>4. QED
  BY <1>2, <1>3

LEMMA HeldPhase ==
  ASSUME ViewInv, Protected, NEW w \in Workers, HeldStep(w), NEW c \in Clients
  PROVE  PhaseOf(c)' = PhaseOf(c)
<1>1. Frame(w) /\ target[w] \in Files /\ Inv
  BY HeldFrame DEF ViewInv, Inv, Frame, TypeOK, DataSteps
<1>2. UNCHANGED <<client, overlapped>>
  BY <1>1 DEF Frame
<1>3. CASE cpc[c] \in {"closed", "open"} \/ cmode[c] # "trunc" \/ cfile[c] \in overlapped
  BY <1>2, <1>3 DEF PhaseOf
<1>4. CASE cpc[c] # "closed" /\ cmode[c] = "trunc" /\ cfile[c] \notin overlapped
  <2>1. cfile[c] \in Files
    BY <1>1, <1>4 DEF Inv, TypeOK
  <2>2. CASE cfile[c] = target[w]
    <3>1. pc[w] = "rm_oid"
      BY <1>1, <1>4, <2>2, NoTransfer DEF Frame
    <3>2. ~stub[target[w]] /\ ~stub'[target[w]]
      BY <1>1, <1>4, <2>2, <3>1 DEF Inv, Safety, Progress, Frame, LockSteps
    <3>3. QED
      BY <1>2, <2>2, <3>2 DEF PhaseOf, Remote
  <2>3. CASE cfile[c] # target[w]
    BY <1>1, <1>2, <2>1, <2>3, HeldElsewhere DEF PhaseOf, Remote
  <2>4. QED
    BY <2>2, <2>3
<1>5. QED
  BY <1>3, <1>4

LEMMA HeldMoves ==
  ASSUME ViewInv, Protected, NEW w \in Workers, HeldStep(w), TypeOK'
  PROVE  (target[w] \in Files /\ Applications!Move(target[w])) \/ Unseen
<1>1. Frame(w) /\ target[w] \in Files /\ Inv
  BY HeldFrame DEF ViewInv, Inv, Frame, TypeOK, DataSteps
<1>2. View' = View
  <2>1. ASSUME NEW g \in Files, g # target[w]
        PROVE  ContentOf(g)' = ContentOf(g)
    BY <1>1, <2>1, HeldElsewhere DEF Frame, ContentOf, Remote
  <2>2. QED
    BY <2>1, HeldContent, ViewStays, Zenon
<1>3. Phase' = Phase
  BY HeldPhase, PhaseStays
<1>4. Here' = Here \/ Here' = [Here EXCEPT ![target[w]] = ~@]
  BY <1>1, HereBecomes DEF Frame, Inv, TypeOK
<1>5. UNCHANGED <<cfile, cmode>>
  BY <1>1 DEF Frame
<1>6. QED
  BY <1>1, <1>2, <1>3, <1>4, <1>5 DEF Applications!Move, Unseen

\* A transfer that begins while a client can modify the file spoils the file.
LEMMA LockSpoils ==
  ASSUME ViewInv, NEW w \in Workers, try_lock_file(w)
  PROVE  (target[w] \in Files /\ Applications!Spoil(target[w])) \/ Unseen
<1> PICK f \in Files : f = target[w]
  BY DEF try_lock_file, ViewInv, Inv, TypeOK
<1>1. UNCHANGED <<data, stub, objectId, store, client>>
  BY DEF try_lock_file
<1>2. Here' = Here
  BY <1>1 DEF Here
<1>3. CASE ~Modifying(f)
  <2>1. overlapped' = overlapped
    BY <1>3 DEF try_lock_file
  <2>2. View' = View /\ Phase' = Phase
    BY <1>1, <2>1 DEF View, Phase, ContentOf, PhaseOf, Remote
  <2>3. QED
    BY <1>1, <1>2, <2>2 DEF Unseen
<1>4. CASE Modifying(f)
  <2>1. overlapped' = overlapped \cup {f}
    BY <1>4 DEF try_lock_file
  <2>2. ContentOf(f)' = Spoiled
    BY <2>1 DEF ContentOf
  <2>3. \A g \in Files : g # f => ContentOf(g)' = ContentOf(g)
    BY <1>1, <2>1 DEF ContentOf, Remote
  <2>4. Applications!Becomes(f, Spoiled)
    BY <1>1, <2>2, <2>3, ViewBecomes
  <2>5. \A c \in Clients : Settles(c, f)
    BY <1>1, <2>1 DEF Settles, PhaseOf, Remote
  <2>6. Phase' = Applications!Settled(f)
    BY <2>5, PhaseSettles
  <2>7. \E c \in Clients : /\ cfile[c] = f
                           /\ \/ cmode[c] = "trunc" /\ Phase[c] # "closed"
                              \/ cmode[c] = "write" /\ Phase[c] = "open"
    BY <1>4 DEF Modifying, Phase, PhaseOf
  <2>8. QED
    BY <1>1, <1>2, <2>4, <2>6, <2>7 DEF Applications!Spoil, Applications!Spoiled, Spoiled
<1>5. QED
  BY <1>3, <1>4

LEMMA WorkerUnseen ==
  ASSUME \/ \E w \in Workers, f \in Files : Start(w, f)
         \/ \E w \in Workers : try_lock_file_fails(w) \/ unlock_file(w)
         \/ Crash \/ UNCHANGED vars
  PROVE  Unseen
<1>1. UNCHANGED <<data, stub, objectId, store, client, overlapped>>
  BY DEF Start, try_lock_file_fails, unlock_file, Crash, vars
<1>2. QED
  BY <1>1 DEF Unseen, View, Here, Phase, ContentOf, PhaseOf, Remote

-----------------------------------------------------------------------------
(* The steps of a client are its own *)

LEMMA ClientPhase ==
  ASSUME NEW c \in Clients, TypeOK
  PROVE  /\ Phase[c] = PhaseOf(c)
         /\ Phase[c] = "closed" <=> cpc[c] = "closed"
         /\ cpc[c] # "closed" => cfile[c] \in Files
  BY DEF Phase, PhaseOf, TypeOK

\* The phases of the other clients do not depend on c.
LEMMA OthersPhase ==
  ASSUME TypeOK, NEW c \in Clients, NEW d \in Clients, d # c,
         UNCHANGED <<stub, objectId>>,
         cpc'[d] = cpc[d], cfile'[d] = cfile[d], cmode'[d] = cmode[d],
         \/ overlapped' = overlapped
         \/ PhaseOf(d) # "truncating" /\ overlapped \subseteq overlapped'
  PROVE  PhaseOf(d)' = PhaseOf(d)
  BY DEF PhaseOf, Remote, TypeOK

\* A file becomes overlapped: nobody is truncating it.
LEMMA OverlapSpoils ==
  ASSUME ViewInv, NEW f \in Files, UNCHANGED <<data, stub, objectId, store>>,
         Transferring(f), overlapped' = overlapped \cup {f}
  PROVE  /\ Applications!Becomes(f, Spoiled)
         /\ \A d \in Clients : cfile[d] = f => PhaseOf(d) # "truncating"
<1>1. ContentOf(f)' = Spoiled
  BY DEF ContentOf
<1>2. \A g \in Files : g # f => ContentOf(g)' = ContentOf(g)
  BY DEF ContentOf, Remote
<1>3. Applications!Becomes(f, Spoiled)
  BY <1>1, <1>2, ViewBecomes
<1>4. ASSUME NEW d \in Clients, cfile[d] = f, PhaseOf(d) = "truncating"
      PROVE  FALSE
  <2>1. Modifying(f) /\ f \notin overlapped
    BY <1>4 DEF Modifying, PhaseOf
  <2>2. QED
    BY <2>1 DEF ViewInv, Inv, Safety, Apart
<1>5. QED
  BY <1>3, <1>4

LEMMA ClosedView ==
  ASSUME TypeOK, NEW c \in Clients, cpc[c] # "closed", CReturn(c),
         UNCHANGED <<data, stub, objectId, store, overlapped>>
  PROVE  Applications!Close(c)
<1>1. View' = View /\ Here' = Here
  BY DEF View, Here, ContentOf, Remote
<1>2. PhaseOf(c)' = "closed"
  BY DEF CReturn, PhaseOf, TypeOK
<1>3. \A d \in Clients : d # c => PhaseOf(d)' = PhaseOf(d)
  BY OthersPhase DEF CReturn, TypeOK
<1>4. Phase' = [Phase EXCEPT ![c] = "closed"]
  BY <1>2, <1>3, PhaseBecomes
<1>5. QED
  BY <1>1, <1>4, ClientPhase DEF Applications!Close, CReturn

LEMMA OpenedView ==
  ASSUME ViewInv, NEW c \in Clients, cpc[c] \notin {"closed", "open"}, Opened(c), ~stub[cfile[c]],
         UNCHANGED <<data, stub, objectId, store, cfile, cmode>>
  PROVE  Applications!Return(c)
<1> PICK f \in Files : f = cfile[c]
  BY DEF ViewInv, Inv, TypeOK
<1>1. TypeOK /\ Here' = Here /\ Here[f]
  BY DEF Here, ViewInv, Inv
<1>2. Phase[c] = "opening" /\ PhaseOf(c)' = "open"
  BY <1>1 DEF Phase, PhaseOf, Remote, Opened, TypeOK
<1>3. CASE overlapped' = overlapped
  <2>1. View' = View
    BY <1>3 DEF View, ContentOf, Remote
  <2>2. \A d \in Clients : d # c => PhaseOf(d)' = PhaseOf(d)
    BY <1>1, <1>3, OthersPhase DEF Opened, TypeOK
  <2>3. Phase' = [Phase EXCEPT ![c] = "open"]
    BY <1>2, <2>2, PhaseBecomes
  <2>4. QED
    BY <1>1, <1>2, <2>1, <2>3 DEF Applications!Return
<1>4. CASE overlapped' # overlapped
  <2>1. cmode[c] = "write" /\ Transferring(f) /\ overlapped' = overlapped \cup {f}
    BY <1>4 DEF Opened, Overlap
  <2>2. /\ Applications!Becomes(f, Spoiled)
        /\ \A d \in Clients : cfile[d] = f => PhaseOf(d) # "truncating"
    BY <2>1, OverlapSpoils
  <2>3. ASSUME NEW d \in Clients, d # c
        PROVE  PhaseOf(d)' = PhaseOf(d)
    BY <1>1, <2>1, <2>2, <2>3 DEF Opened, TypeOK, PhaseOf, Remote
  <2>4. Phase' = [Phase EXCEPT ![c] = "open"]
    BY <1>2, <2>3, PhaseBecomes
  <2>5. QED
    BY <1>1, <1>2, <2>1, <2>2, <2>4 DEF Applications!Return, Applications!Spoiled, Spoiled
<1>5. QED
  BY <1>3, <1>4

LEMMA RealOpenView ==
  ASSUME ViewInv, NEW c \in Clients, NEW f \in Files, NEW m \in Modes, real_open(c, f, m)
  PROVE  Applications!Open(c, f, m)
<1>1. /\ TypeOK /\ Here' = Here /\ Phase[c] = "closed"
      /\ cfile' = [cfile EXCEPT ![c] = f] /\ cmode' = [cmode EXCEPT ![c] = m]
      /\ cpc[c] = "closed" /\ cpc' = [cpc EXCEPT ![c] = "check"]
      /\ UNCHANGED <<stub, objectId, store>>
      /\ cpc'[c] = "check" /\ cfile'[c] = f /\ cmode'[c] = m
  BY DEF Here, ViewInv, Inv, real_open, Phase, PhaseOf, TypeOK
<1>2. ASSUME overlapped' = overlapped
      PROVE  \A d \in Clients : d # c => PhaseOf(d)' = PhaseOf(d)
  BY <1>1, <1>2, OthersPhase
<1>3. CASE m # "trunc"
  <2>1. UNCHANGED <<data, overlapped>>
    BY <1>3 DEF real_open, Overlap
  <2>2. View' = View
    BY <1>1, <2>1 DEF View, ContentOf, Remote
  <2>3. PhaseOf(c)' = "opening"
    BY <1>1, <1>3 DEF PhaseOf
  <2>4. Phase' = [Phase EXCEPT ![c] = "opening"]
    BY <1>2, <2>1, <2>3, PhaseBecomes
  <2>5. QED
    BY <1>1, <1>3, <2>2, <2>4 DEF Applications!Open
<1>4. CASE m = "trunc" /\ overlapped' = overlapped
  <2>1. data' = [data EXCEPT ![f] = Empty]
    BY <1>4 DEF real_open
  <2>2. \A g \in Files : g # f => ContentOf(g)' = ContentOf(g)
    BY <1>1, <1>4, <2>1 DEF ContentOf, Remote, TypeOK
  <2>3. CASE f \notin overlapped /\ Remote(f)
    <3>1. ContentOf(f)' = ContentOf(f)
      BY <1>1, <1>4, <2>3 DEF ContentOf, Remote
    <3>2. View' = View
      BY <2>2, <3>1, ViewStays
    <3>3. PhaseOf(c)' = "truncating"
      BY <1>1, <1>4, <2>3 DEF PhaseOf, Remote
    <3>4. Phase' = [Phase EXCEPT ![c] = "truncating"]
      BY <1>2, <1>4, <3>3, PhaseBecomes
    <3>5. ~Here[f]
      BY <2>3, Zenon DEF Remote, Here
    <3>6. QED
      BY <1>1, <1>4, <3>2, <3>4, <3>5 DEF Applications!Open
  <2>4. CASE ~(f \notin overlapped /\ Remote(f))
    <3>1. ContentOf(f)' = IF ContentOf(f) = Spoiled THEN Spoiled ELSE Empty
      BY <1>1, <1>4, <2>1, <2>4, ConstantsAssumption DEF ContentOf, Remote, TypeOK, Content,
         Spoiled, Empty, Hole, Torn
    <3>2. Applications!Becomes(f, Empty)
      BY <2>2, <3>1, ViewBecomes
    <3>3. PhaseOf(c)' = "opening"
      BY <1>1, <1>4, <2>4 DEF PhaseOf, Remote
    <3>4. Phase' = [Phase EXCEPT ![c] = "opening"]
      BY <1>2, <1>4, <3>3, PhaseBecomes
    <3>5. QED
      BY <1>1, <1>4, <3>2, <3>4 DEF Applications!Open
  <2>5. QED
    BY <2>3, <2>4
<1>5. CASE m = "trunc" /\ overlapped' # overlapped
  <2>1. Transferring(f) /\ overlapped' = overlapped \cup {f} /\ data' = [data EXCEPT ![f] = Empty]
    BY <1>5 DEF real_open, Overlap
  <2>2. ContentOf(f)' = Spoiled
    BY <2>1 DEF ContentOf
  <2>3. \A g \in Files : g # f => ContentOf(g)' = ContentOf(g)
    BY <1>1, <2>1 DEF ContentOf, Remote, TypeOK
  <2>4. Applications!Becomes(f, Spoiled)
    BY <2>2, <2>3, ViewBecomes
  <2>5. ASSUME NEW d \in Clients, d # c
        PROVE  PhaseOf(d)' = PhaseOf(d)
    <3>1. cfile[d] = f /\ cmode[d] = "trunc" /\ cpc[d] # "closed" => f \in overlapped
      BY <2>1 DEF ViewInv, Inv, Safety, Apart, Modifying
    <3>2. cpc'[d] = cpc[d] /\ cfile'[d] = cfile[d] /\ cmode'[d] = cmode[d]
      BY <1>1, <2>5 DEF TypeOK
    <3>3. QED
      BY <1>1, <2>1, <3>1, <3>2 DEF PhaseOf, Remote
  <2>6. PhaseOf(c)' = "opening"
    BY <1>1, <2>1 DEF PhaseOf
  <2>7. Phase' = [Phase EXCEPT ![c] = "opening"]
    BY <2>5, <2>6, PhaseBecomes
  <2>8. QED
    BY <1>1, <1>5, <2>4, <2>7 DEF Applications!Open, Applications!Spoiled, Spoiled
<1>6. QED
  BY <1>3, <1>4, <1>5

\* A client goes on in open() without a change of its own.
LEMMA ContinueUnseen ==
  ASSUME ViewInv, NEW c \in Clients, cpc[c] \notin {"closed", "open"}, NEW s \in OpenSteps,
         CGoto(c, s), s \notin {"closed", "open"},
         UNCHANGED <<data, stub, objectId, store, cfile, cmode, overlapped>>
  PROVE  Unseen
<1>1. View' = View /\ Here' = Here
  BY DEF View, Here, ContentOf, Remote
<1>2. TypeOK /\ cpc'[c] = s /\ \A d \in Clients : d # c => cpc'[d] = cpc[d]
  BY DEF ViewInv, Inv, TypeOK
<1>3. \A d \in Clients : PhaseOf(d)' = PhaseOf(d)
  BY <1>2 DEF PhaseOf, Remote
<1>4. QED
  BY <1>1, <1>3, PhaseStays DEF Unseen

LEMMA FinishOpenView ==
  ASSUME ViewInv, NEW c \in Clients, finish_open_common(c) \/ poll_file_location(c)
  PROVE  Applications!Return(c) \/ Applications!Close(c) \/ Unseen
<1>1. TypeOK /\ cpc[c] \in {"check", "wait"} /\ UNCHANGED <<data, stub, objectId, store>>
  BY DEF ViewInv, Inv, finish_open_common, poll_file_location
<1>2. \/ Opened(c) /\ ~stub[cfile[c]] /\ UNCHANGED <<cfile, cmode>>
      \/ CReturn(c) /\ UNCHANGED overlapped
      \/ (CGoto(c, "clear_stub") \/ CGoto(c, "wait")) /\ UNCHANGED <<cfile, cmode, overlapped>>
  <2>1. CASE finish_open_common(c)
    BY <2>1 DEF finish_open_common
  <2>2. CASE poll_file_location(c)
    BY <2>2 DEF poll_file_location
  <2>3. QED
    BY <2>1, <2>2
<1>3. CASE Opened(c) /\ ~stub[cfile[c]] /\ UNCHANGED <<cfile, cmode>>
  BY <1>1, <1>3, OpenedView
<1>4. CASE CReturn(c) /\ UNCHANGED overlapped
  BY <1>1, <1>4, ClosedView
<1>5. CASE (CGoto(c, "clear_stub") \/ CGoto(c, "wait")) /\ UNCHANGED <<cfile, cmode, overlapped>>
  BY <1>1, <1>5, ContinueUnseen DEF OpenSteps
<1>6. QED
  BY <1>2, <1>3, <1>4, <1>5

\* The stub of a truncated file goes: if it was remote, O_TRUNC takes effect here.
LEMMA ClearStubView ==
  ASSUME ViewInv, NEW c \in Clients, clear_stub(c), TypeOK'
  PROVE  \/ (Applications!Move(cfile[c]) \/ Applications!Truncate(cfile[c])) /\ cfile[c] \in Files
         \/ Unseen
<1> PICK f \in Files : f = cfile[c]
  BY DEF ViewInv, Inv, TypeOK, clear_stub
<1>1. /\ TypeOK /\ cpc[c] = "clear_stub" /\ cmode[c] = "trunc"
      /\ UNCHANGED <<data, objectId, store, cfile, cmode, overlapped>>
      /\ f \notin overlapped /\ stub[f] => data[f] = Empty
      /\ f \notin overlapped => objectId[f] \in ObjectIds \cup {NoId}
  BY DEF clear_stub, ViewInv, Inv, Safety, Opening, Clearing, TypeOK
<1>2. CASE CGoto(c, "clear_oid_eio") /\ UNCHANGED stub
  BY <1>1, <1>2, ContinueUnseen DEF OpenSteps
<1>3. CASE CGoto(c, "clear_oid") /\ stub' = [stub EXCEPT ![f] = FALSE]
  <2>1. /\ stub'[f] = FALSE /\ \A g \in Files : g # f => stub'[g] = stub[g]
        /\ cpc'[c] = "clear_oid" /\ \A d \in Clients : d # c => cpc'[d] = cpc[d]
    BY <1>1, <1>3 DEF TypeOK
  <2>2. \A g \in Files : g # f => ContentOf(g)' = ContentOf(g)
    BY <1>1, <2>1 DEF ContentOf, Remote
  <2>3. CASE f \in overlapped \/ ~Remote(f)
    <3>1. ContentOf(f)' = ContentOf(f)
      BY <1>1, <2>1, <2>3 DEF ContentOf, Remote
    <3>2. \A d \in Clients : PhaseOf(d)' = PhaseOf(d)
      <4>1. ASSUME NEW d \in Clients
            PROVE  cpc[d] \in {"closed", "open"} \/ cfile[d] \in Files
        BY <1>1 DEF TypeOK
      <4>2. QED
        BY <1>1, <2>1, <2>3, <4>1 DEF PhaseOf, Remote
    <3>3. View' = View /\ Phase' = Phase
      BY <2>2, <3>1, <3>2, ViewStays, PhaseStays
    <3>4. Here' = Here \/ Here' = [Here EXCEPT ![f] = ~@]
      BY <1>1, <2>1, HereBecomes DEF TypeOK
    <3>5. QED
      BY <1>1, <3>3, <3>4 DEF Applications!Move, Unseen
  <2>4. CASE f \notin overlapped /\ Remote(f)
    <3>1. ContentOf(f)' = Empty
      BY <1>1, <2>1, <2>4 DEF ContentOf, Remote
    <3>2. ContentOf(f) # Spoiled
      BY <1>1, <2>4, ConstantsAssumption
      DEF ContentOf, Remote, TypeOK, Content, Spoiled, Empty, Hole, Torn, Absent
    <3>3. Applications!Becomes(f, Empty)
      BY <2>2, <3>1, <3>2, ViewBecomes
    <3>4. \A g \in Files : (~stub'[g]) = [Here EXCEPT ![f] = TRUE][g]
      BY <2>1, Zenon DEF Here
    <3>5. Here' = [Here EXCEPT ![f] = TRUE]
      BY <3>4, Zenon DEF Here
    <3>6. ASSUME NEW d \in Clients
          PROVE  Settles(d, f)
      <4>1. cpc[d] \in {"closed", "open"} \/ cfile[d] \in Files
        BY <1>1 DEF TypeOK
      <4>2. QED
        BY <1>1, <2>1, <2>4, <4>1 DEF Settles, PhaseOf, Remote
    <3>7. Phase' = Applications!Settled(f)
      BY <3>6, PhaseSettles
    <3>8. Phase[c] = "truncating"
      BY <1>1, <2>4 DEF Phase, PhaseOf
    <3>9. QED
      BY <1>1, <3>3, <3>5, <3>7, <3>8 DEF Applications!Truncate
  <2>5. QED
    BY <2>3, <2>4
<1>4. QED
  BY <1>2, <1>3 DEF clear_stub

\* The object_id goes as well: a stub that could not be removed leaves a file nobody can
\* fetch, and open() fails.
LEMMA ClearObjectIdView ==
  ASSUME ViewInv, NEW c \in Clients, clear_object_id(c)
  PROVE  Applications!Return(c) \/ Applications!Close(c)
<1> PICK f \in Files : f = cfile[c]
  BY DEF ViewInv, Inv, TypeOK, clear_object_id
<1>1. /\ TypeOK /\ cpc[c] \in {"clear_oid", "clear_oid_eio"} /\ cmode[c] = "trunc"
      /\ UNCHANGED <<data, stub, store>> /\ Here' = Here
      /\ f \notin overlapped /\ stub[f] => data[f] = Empty
      /\ f \notin overlapped /\ cpc[c] = "clear_oid" => ~stub[f]
  BY DEF clear_object_id, ViewInv, Inv, Safety, Opening, Clearing, Here
<1>2. CASE CReturn(c) /\ UNCHANGED <<objectId, overlapped>>
  BY <1>1, <1>2, ClosedView
<1>3. CASE ~(CReturn(c) /\ UNCHANGED <<objectId, overlapped>>)
  <2>1. /\ objectId' = [objectId EXCEPT ![f] = NoId] /\ overlapped' = overlapped
        /\ \/ cpc[c] = "clear_oid" /\ CGoto(c, "open") /\ UNCHANGED <<cfile, cmode>>
           \/ cpc[c] = "clear_oid_eio" /\ CReturn(c)
    BY <1>1, <1>3 DEF clear_object_id, Opened, Overlap
  <2>2. /\ objectId'[f] = NoId /\ \A g \in Files : g # f => objectId'[g] = objectId[g]
        /\ \A d \in Clients : d # c =>
             cpc'[d] = cpc[d] /\ cfile'[d] = cfile[d] /\ cmode'[d] = cmode[d]
        /\ \A d \in Clients : cpc[d] \in {"closed", "open"} \/ cfile[d] \in Files
    BY <1>1, <2>1 DEF TypeOK, CReturn
  <2>3. \A g \in Files : g # f => ContentOf(g)' = ContentOf(g)
    BY <1>1, <2>1, <2>2 DEF ContentOf, Remote
  <2>4. PhaseOf(c)' = IF cpc[c] = "clear_oid" THEN "open" ELSE "closed"
    BY <1>1, <2>1 DEF PhaseOf, CReturn, TypeOK
  <2>5. CASE f \in overlapped \/ ~Remote(f)
    <3>1. View' = View
      BY <1>1, <2>1, <2>2, <2>3, <2>5, ViewStays DEF ContentOf, Remote
    <3>2. \A d \in Clients : d # c => PhaseOf(d)' = PhaseOf(d)
      BY <1>1, <2>1, <2>2, <2>5 DEF PhaseOf, Remote
    <3>3. Phase' = [Phase EXCEPT ![c] = IF cpc[c] = "clear_oid" THEN "open" ELSE "closed"]
      BY <2>4, <3>2, PhaseBecomes
    <3>4. Phase[c] = "opening"
      BY <1>1, <2>5 DEF Phase, PhaseOf
    <3>5. CASE cpc[c] = "clear_oid"
      <4>1. Here[f] \/ View[f] = Spoiled
        BY <1>1, <3>5, Zenon DEF Here, View, ContentOf
      <4>2. QED
        BY <1>1, <2>1, <3>1, <3>3, <3>4, <3>5, <4>1
        DEF Applications!Return, Applications!Spoiled, Spoiled
    <3>6. CASE cpc[c] = "clear_oid_eio"
      BY <1>1, <2>1, <3>1, <3>3, <3>4, <3>6 DEF Applications!Close, CReturn
    <3>7. QED
      BY <1>1, <3>5, <3>6
  <2>6. CASE f \notin overlapped /\ Remote(f)
    <3>1. cpc[c] = "clear_oid_eio" /\ CReturn(c)
      BY <1>1, <2>1, <2>6 DEF Remote
    <3>2. ContentOf(f)' = Empty
      BY <1>1, <2>1, <2>2, <2>6 DEF ContentOf, Remote
    <3>3. ContentOf(f) # Spoiled
      BY <1>1, <2>6, ConstantsAssumption
      DEF ContentOf, Remote, TypeOK, Content, Spoiled, Empty, Hole, Torn, Absent
    <3>4. Applications!Becomes(f, Empty)
      BY <2>3, <3>2, <3>3, ViewBecomes
    <3>5. Phase[c] = "truncating"
      BY <1>1, <2>6 DEF Phase, PhaseOf
    <3>6. ASSUME NEW d \in Clients, d # c
          PROVE  Settles(d, f)
      BY <1>1, <2>1, <2>2, <2>6, <3>6 DEF Settles, PhaseOf, Remote
    <3>7. Phase' = [Applications!Settled(f) EXCEPT ![c] = "closed"]
      BY <2>4, <3>1, <3>6 DEF Phase, Settles, Applications!Settled
    <3>8. QED
      BY <1>1, <3>1, <3>4, <3>5, <3>7 DEF Applications!Close, CReturn
  <2>7. QED
    BY <2>5, <2>6
<1>4. QED
  BY <1>2, <1>3

LEMMA AppWriteView ==
  ASSUME ViewInv, NEW c \in Clients, NEW v \in Values, app_write(c, v)
  PROVE  Applications!Write(c, v)
<1> PICK f \in Files : f = cfile[c]
  BY DEF ViewInv, Inv, TypeOK, app_write
<1>1. /\ TypeOK /\ cpc[c] = "open" /\ cmode[c] # "read"
      /\ UNCHANGED <<stub, objectId, store, client, overlapped>>
      /\ f \notin overlapped => ~stub[f]
      /\ data'[f] = v /\ \A g \in Files : g # f => data'[g] = data[g]
  BY DEF app_write, ViewInv, Inv, Safety, Opening, TypeOK
<1>2. \A g \in Files : g # f => ContentOf(g)' = ContentOf(g)
  BY <1>1 DEF ContentOf, Remote
<1>3. ContentOf(f)' = IF ContentOf(f) = Spoiled THEN Spoiled ELSE v
  BY <1>1, ConstantsAssumption
  DEF ContentOf, Remote, TypeOK, Content, Spoiled, Empty, Hole, Torn, Absent
<1>4. Applications!Becomes(f, v)
  BY <1>2, <1>3, ViewBecomes
<1>5. Here' = Here /\ Phase' = Phase /\ Phase[c] = "open"
  BY <1>1 DEF Here, Phase, PhaseOf, Remote
<1>6. QED
  BY <1>1, <1>4, <1>5 DEF Applications!Write

-----------------------------------------------------------------------------
LEMMA InitView == Init => Applications!Init
<1> SUFFICES ASSUME Init
             PROVE  Applications!Init
  OBVIOUS
<1>1. View = data
  <2>1. \A f \in Files : ContentOf(f) = data[f]
    BY DEF Init, ContentOf, Remote
  <2>2. QED
    BY <2>1 DEF Init, View
<1>2. Here = [f \in Files |-> TRUE] /\ Phase = [c \in Clients |-> "closed"]
  BY DEF Init, Here, Phase, PhaseOf
<1>3. QED
  BY <1>1, <1>2 DEF Init, Applications!Init

LEMMA NextView ==
  ASSUME ViewInv, TypeOK', Protected, [Next]_vars
  PROVE  Applications!Next \/ Unseen
<1>1. ASSUME NEW w \in Workers, transfer(w)
      PROVE  Applications!Next \/ Unseen
  <2>1. CASE HeldStep(w)
    BY <2>1, HeldMoves DEF Applications!Next
  <2>2. CASE try_lock_file(w)
    BY <2>2, LockSpoils DEF Applications!Next
  <2>3. CASE try_lock_file_fails(w) \/ unlock_file(w)
    BY <2>3, WorkerUnseen
  <2>4. QED
    BY <1>1, <2>1, <2>2, <2>3 DEF transfer, HeldStep
<1>2. ASSUME NEW c \in Clients, open(c) \/ app_exit(c)
      PROVE  Applications!Next \/ Unseen
  <2>1. CASE finish_open_common(c) \/ poll_file_location(c)
    BY <2>1, FinishOpenView DEF Applications!Next
  <2>2. CASE clear_stub(c)
    BY <2>2, ClearStubView DEF Applications!Next
  <2>3. CASE clear_object_id(c)
    BY <2>3, ClearObjectIdView DEF Applications!Next
  <2>4. CASE app_exit(c)
    BY <2>4, ClosedView DEF Applications!Next, app_exit, ViewInv, Inv
  <2>5. QED
    BY <1>2, <2>1, <2>2, <2>3, <2>4 DEF open
<1>3. ASSUME NEW c \in Clients, NEW f \in Files, NEW m \in Modes, real_open(c, f, m)
      PROVE  Applications!Next
  BY <1>3, RealOpenView DEF Applications!Next, Applications!Modes, Modes
<1>4. ASSUME NEW c \in Clients, NEW v \in Values, app_write(c, v)
      PROVE  Applications!Next
  BY <1>4, AppWriteView DEF Applications!Next
<1>5. CASE Crash \/ UNCHANGED vars \/ \E w \in Workers, f \in Files : Start(w, f)
  BY <1>5, WorkerUnseen
<1>6. QED
  BY <1>1, <1>2, <1>3, <1>4, <1>5 DEF Next

\* upload_file, download_file and the library's open() implement files that tiering does
\* not change: whatever is evicted, fetched, retried, interrupted by a crash or fails
\* (short of is_local_file and the second ftruncate), every application finds what was
\* written last in a file nobody could change during its transfer, and its O_TRUNC takes
\* effect at one instant of its open().
THEOREM TieringTransparent ==
  ASSUME Protected
  PROVE  Spec => Transparent
<1>1. Init => Applications!Init
  BY InitView
<1>2. ViewInv /\ ViewInv' /\ [Next]_vars => [Applications!Next]_<<View, Here, Phase, cfile, cmode>>
  BY NextView DEF ViewInv, Inv, Unseen
<1>3. QED
  BY SpecViewInv, <1>1, <1>2, PTL DEF Spec, Transparent, Applications!Spec
=============================================================================
