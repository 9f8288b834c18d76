------------------------- MODULE RingQueueRefinement -------------------------
(* The circular buffer implements the FIFO queue that queue.h promises: every *)
(* history of calls is linearizable, for all numbers of threads and elements. *)
EXTENDS RingQueueProofs, SequenceTheorems

USE DEF offsets, mutexes, caller, At, Goto, Continue, Finish, Return, Broadcast

-----------------------------------------------------------------------------
(* What a thread holds between its steps *)

\* A thread is in a call exactly while its result is pending.
InCalls == \A t \in Threads : pc[t] = "idle" <=> result[t] # Pending

\* Past the parameter check a push is of an element that fits.
Fitting == \A t \in Threads : OwnsTail(t) => Fits(call[t])

\* The element in transit is the one of the call: in the slot before tail_offset for
\* a producer, in the caller's buffer and still in the front slot for a consumer.
InTransit ==
  \A t \in Threads :
    /\ At(t, "push_count") => tail # 0 /\ slot[tail - 1] = call[t].elem
    /\ At(t, "pop_count") => buf[t] = slot[Front] /\ SizeOf[buf[t]] <= call[t].room

LinearInv == Inv /\ InCalls /\ Fitting /\ InTransit

LEMMA ResultsDiffer == Pending \notin {Failed, Done} /\ Pending \notin Elems
  BY QueueAssumption DEF Pending, Failed, Done

LEMMA StepInCalls ==
  ASSUME Inv, InCalls, NEW t \in Threads, step(t)
  PROVE  InCalls'
<1> USE ResultsDiffer DEF Inv, TypeOK, InCalls
<1>1. ASSUME NEW c \in Pushes, queue_push(t, c) PROVE InCalls'
  BY <1>1 DEF queue_push
<1>2. ASSUME NEW c \in Pops, queue_pop(t, c) PROVE InCalls'
  BY <1>2 DEF queue_pop
<1>3. CASE push_lock_tail(t)
  BY <1>3 DEF push_lock_tail
<1>4. CASE push_check_size(t)
  BY <1>4 DEF push_check_size
<1>5. CASE push_write(t)
  BY <1>5 DEF push_write
<1>6. CASE push_count(t)
  BY <1>6 DEF push_count
<1>7. CASE pop_lock_head(t)
  BY <1>7 DEF pop_lock_head
<1>8. CASE pop_check_size(t)
  BY <1>8 DEF pop_check_size
<1>9. CASE pop_read(t)
  BY <1>9 DEF pop_read
<1>10. CASE pop_count(t)
  BY <1>10 DEF pop_count, Sound, Filled
<1>11. CASE spurious_wakeup(t)
  BY <1>11 DEF spurious_wakeup
<1>12. CASE cancel(t)
  BY <1>12 DEF cancel
<1> QED
  BY <1>1, <1>2, <1>3, <1>4, <1>5, <1>6, <1>7, <1>8, <1>9, <1>10, <1>11, <1>12 DEF step, push, pop

LEMMA StepFitting ==
  ASSUME TypeOK, Fitting, NEW t \in Threads, step(t)
  PROVE  Fitting'
<1> USE DEF TypeOK, Fitting, OwnsTail, PushSteps, PopSteps, Fits
<1>1. ASSUME NEW c \in Pushes, queue_push(t, c) PROVE Fitting'
  BY <1>1 DEF queue_push
<1>2. ASSUME NEW c \in Pops, queue_pop(t, c) PROVE Fitting'
  BY <1>2 DEF queue_pop
<1>3. CASE push_lock_tail(t)
  BY <1>3 DEF push_lock_tail
<1>4. CASE push_check_size(t)
  BY <1>4 DEF push_check_size
<1>5. CASE push_write(t)
  BY <1>5 DEF push_write
<1>6. CASE push_count(t)
  BY <1>6 DEF push_count
<1>7. CASE pop_lock_head(t)
  BY <1>7 DEF pop_lock_head
<1>8. CASE pop_check_size(t)
  BY <1>8 DEF pop_check_size
<1>9. CASE pop_read(t)
  BY <1>9 DEF pop_read
<1>10. CASE pop_count(t)
  BY <1>10 DEF pop_count
<1>11. CASE spurious_wakeup(t)
  BY <1>11 DEF spurious_wakeup
<1>12. CASE cancel(t)
  BY <1>12 DEF cancel
<1> QED
  BY <1>1, <1>2, <1>3, <1>4, <1>5, <1>6, <1>7, <1>8, <1>9, <1>10, <1>11, <1>12 DEF step, push, pop

-----------------------------------------------------------------------------
(* The ring *)

LEMMA RingDistinct ==
  ASSUME NEW h \in 0..MaxSize - 1, NEW i \in 0..MaxSize - 1, NEW j \in 0..MaxSize - 1, i # j
  PROVE  Wrap(h + i) # Wrap(h + j)
  BY QueueAssumption DEF Wrap

LEMMA FrontTaken ==
  ASSUME TypeOK
  PROVE  /\ Front \in 0..MaxSize - 1
         /\ Taken = 0 => Front = head
         /\ Taken = 1 => Front = IF head = 0 THEN MaxSize - 1 ELSE head - 1
  BY QueueAssumption DEF TypeOK, Front, Taken

\* cur_size slots after the front is the slot that the next push fills, or has filled.
LEMMA BackSlot ==
  ASSUME TypeOK, Placed, size < MaxSize, Taken = 1 => size > 0
  PROVE  /\ Written = 0 => Wrap(Front + size) = Wrap(tail)
         /\ Written = 1 => Wrap(Front + size) = IF tail = 0 THEN MaxSize - 1 ELSE tail - 1
<1> USE QueueAssumption DEF Wrap
<1>1. head \in 0..MaxSize - 1 /\ tail \in 0..MaxSize /\ size \in 0..MaxSize - 1
  BY DEF TypeOK
<1>2. Written \in {0, 1} /\ Taken \in {0, 1}
  BY TransitType
<1>3. CASE Taken = 0
  <2>1. Front = head
    BY <1>3, FrontTaken
  <2> QED
    BY <1>1, <1>2, <1>3, <2>1 DEF Placed
<1>4. CASE Taken = 1
  <2>1. Front = IF head = 0 THEN MaxSize - 1 ELSE head - 1
    BY <1>4, FrontTaken
  <2> QED
    BY <1>1, <1>2, <1>4, <2>1 DEF Placed
<1> QED
  BY <1>2, <1>3, <1>4

LEMMA StepInTransit ==
  ASSUME Inv, InTransit, NEW t \in Threads, step(t)
  PROVE  InTransit'
<1> USE QueueAssumption DEF Inv, TypeOK
<1>0. Moves(t)
  BY StepMoves DEF Sound
<1>1. CASE push_write(t) /\ Written = 0 /\ Transit(1, Taken)
  <2>1. Wrap(tail) \in 0..MaxSize - 1 /\ tail' = Wrap(tail) + 1
    BY <1>1, WrapType DEF push_write
  <2>2. slot'[tail' - 1] = call[t].elem
    BY <1>1, <2>1 DEF push_write
  <2>3. ASSUME NEW u \in Threads, At(u, "pop_count")
        PROVE  Front' = Front /\ slot'[Front] = slot[Front]
    <3>1. Taken = 1 /\ size > 0 /\ size < MaxSize /\ Front' = Front
      BY <1>1, <2>3 DEF Taken, Sound, Checked, Front, push_write
    <3>2. Wrap(Front + size) = Wrap(tail)
      BY <1>1, <3>1, BackSlot DEF Sound
    <3>4. Wrap(Front + 0) = Front
      BY FrontTaken DEF Wrap
    <3>5. size \in 0..MaxSize - 1 /\ 0 \in 0..MaxSize - 1 /\ size # 0
      BY <3>1
    <3>6. Front \in 0..MaxSize - 1
      BY FrontTaken
    <3>7. Wrap(Front + size) # Wrap(Front + 0)
      BY <3>5, <3>6, RingDistinct
    <3>3. Wrap(tail) # Front
      BY <3>2, <3>4, <3>7
    <3> QED
      BY <1>1, <2>1, <3>1, <3>3, FrontTaken DEF push_write
  <2>4. \A u \in Threads : At(u, "push_count")' => u = t
    BY <1>1 DEF push_write, Sound, Owned, OwnsTail, PushSteps
  <2> QED
    BY <1>1, <2>1, <2>2, <2>3, <2>4 DEF push_write, InTransit
<1>2. CASE push_count(t) /\ Written = 1 /\ Transit(0, Taken)
  <2>1. \A u \in Threads : ~At(u, "push_count")'
    BY <1>2 DEF push_count, Sound, Owned, OwnsTail, PushSteps
  <2>2. \A u \in Threads : At(u, "pop_count")' => At(u, "pop_count")
    BY <1>2 DEF push_count
  <2> QED
    BY <1>2, <2>1, <2>2 DEF push_count, InTransit, Front
<1>3. CASE pop_read(t) /\ At(t, "read") /\ At(t, "pop_count")' /\ Taken = 0 /\ Transit(Written, 1)
  <2>1. Front' = head /\ buf'[t] = slot[head] /\ SizeOf[slot[head]] <= call[t].room
    <3>1. head' = Wrap(head + 1) /\ buf'[t] = slot[head] /\ SizeOf[slot[head]] <= call[t].room
      BY <1>3 DEF pop_read
    <3>2. Front' = IF head' = 0 THEN MaxSize - 1 ELSE head' - 1
      BY <1>3 DEF Front
    <3> QED
      BY <3>1, <3>2 DEF Wrap
  <2>2. \A u \in Threads : At(u, "pop_count")' => u = t
    BY <1>3 DEF pop_read, Taken
  <2> QED
    BY <1>3, <2>1, <2>2 DEF pop_read, InTransit
<1>4. CASE pop_count(t) /\ Taken = 1 /\ Transit(Written, 0)
  <2>1. \A u \in Threads : ~At(u, "pop_count")'
    BY <1>4 DEF pop_count, Sound, Owned, OwnsHead, PopSteps
  <2> QED
    BY <1>4, <2>1 DEF pop_count, InTransit
<1>5. CASE UNCHANGED offsets /\ Transit(Written, Taken) /\ \A u \in Threads : Stays(u)
  <2>1. ASSUME NEW u \in Threads, pc'[u] \in {"push_count", "pop_count"}
        PROVE  pc[u] = pc'[u] /\ call'[u] = call[u]
    BY <1>5, <2>1 DEF Stays
  <2>2. ASSUME NEW u \in Threads, pc'[u] = "pop_count"
        PROVE  Front' = Front
    BY <1>5, <2>1, <2>2 DEF Front
  <2>3. ASSUME NEW u \in Threads, pc'[u] = "push_count"
        PROVE  tail' # 0 /\ slot'[tail' - 1] = call'[u].elem
    BY <1>5, <2>1, <2>3 DEF InTransit
  <2>4. ASSUME NEW u \in Threads, pc'[u] = "pop_count"
        PROVE  buf'[u] = slot'[Front'] /\ SizeOf[buf'[u]] <= call'[u].room
    BY <1>5, <2>1, <2>2, <2>4 DEF InTransit, Stays
  <2> QED
    BY <2>3, <2>4 DEF InTransit
<1> QED
  BY <1>0, <1>1, <1>2, <1>3, <1>4, <1>5 DEF Moves

-----------------------------------------------------------------------------
(* The refinement *)

SeqContents == Contents \in Seq(Elems) /\ Len(Contents) = size

LEMMA ContentsSeq ==
  ASSUME LinearInv
  PROVE  Contents \in Seq(Elems) /\ Len(Contents) = size
<1> USE QueueAssumption DEF LinearInv, Inv, TypeOK, Sound
<1>1. ASSUME NEW i \in 1..size
      PROVE  slot[Wrap(Front + i - 1)] \in Elems
  <2>1. CASE Taken = 0
    <3>1. Front = head /\ i - 1 \in 0..MaxSize - 1 /\ i - 1 + 0 < size + Written
      BY <2>1, FrontTaken, TransitType
    <3>2. slot[Wrap(head + (i - 1))] \in Elems
      BY <2>1, <3>1 DEF Filled
    <3>3. head + (i - 1) = Front + i - 1
      BY <3>1
    <3> QED
      BY <3>2, <3>3
  <2>2. CASE Taken = 1 /\ i = 1
    <3>1. PICK u \in Threads : At(u, "pop_count")
      BY <2>2 DEF Taken
    <3>2. slot[Front] \in Elems
      BY <3>1 DEF Filled, InTransit
    <3>3. Wrap(Front + i - 1) = Front
      BY <2>2, FrontTaken DEF Wrap
    <3> QED
      BY <3>2, <3>3
  <2>3. CASE Taken = 1 /\ i # 1
    <3>1. i - 2 \in 0..MaxSize - 1 /\ (i - 2) + 1 < size + Written
      BY <2>3, TransitType
    <3>2. slot[Wrap(head + (i - 2))] \in Elems
      BY <2>3, <3>1 DEF Filled
    <3>3. Wrap(head + (i - 2)) = Wrap(Front + i - 1)
      <4>1. Front = IF head = 0 THEN MaxSize - 1 ELSE head - 1
        BY <2>3, FrontTaken
      <4> QED
        BY <2>3, <4>1 DEF Wrap
    <3> QED
      BY <3>2, <3>3
  <2> QED
    BY <2>1, <2>2, <2>3, TransitType
<1>2. Contents \in [1..size -> Elems]
  BY <1>1 DEF Contents
<1> QED
  BY <1>2

LEMMA ContentsSeqNext == LinearInv' => SeqContents'
<1>1. LinearInv => SeqContents
  BY ContentsSeq DEF SeqContents
<1> QED
  BY <1>1, PTL

LEMMA ContentsKept ==
  ASSUME size' = size, Front' = Front,
         \A i \in 1..size : slot'[Wrap(Front + i - 1)] = slot[Wrap(Front + i - 1)]
  PROVE  Contents' = Contents
  BY DEF Contents, Wrap

\* The two modules write the same calls and results.
LEMMA SameNames ==
  /\ Fifo!Pending = Pending /\ Fifo!Done = Done /\ Fifo!Failed = Failed
  /\ Fifo!NoCall = NoCall /\ Fifo!Calls = Pushes \cup Pops
  /\ \A c \in Pushes : Fifo!Fits(c) <=> Fits(c)
  BY DEF Fifo!Pending, Pending, Fifo!Done, Done, Fifo!Failed, Failed, Fifo!NoCall, NoCall,
         Fifo!Calls, Fifo!Pushes, Fifo!Pops, Pushes, Pops, Fifo!Fits, Fits

LEMMA ContentsStay ==
  ASSUME UNCHANGED <<slot, head, size>>,
         \A u \in Threads : At(u, "pop_count")' <=> At(u, "pop_count")
  PROVE  Contents' = Contents
<1>1. Front' = Front
  BY DEF Front
<1> QED
  BY <1>1 DEF Contents, Wrap

LEMMA SimInvoke ==
  ASSUME LinearInv, NEW t \in Threads, NEW c \in Pushes \cup Pops,
         queue_push(t, c) \/ queue_pop(t, c)
  PROVE  Fifo!Invoke(t, c)
<1>1. Contents' = Contents
  BY ContentsStay DEF queue_push, queue_pop, LinearInv, Inv, TypeOK
<1> QED
  BY <1>1, SameNames DEF queue_push, queue_pop, Fifo!Invoke, LinearInv, InCalls

LEMMA ReturnStep ==
  ASSUME NEW t \in Threads, NEW v, Finish(t, v), result[t] = Pending
  PROVE  Fifo!Returns(t, v)
  BY SameNames DEF Fifo!Returns

\* A failed call leaves the queue as it is.
LEMMA SimFailure ==
  ASSUME LinearInv, NEW t \in Threads, UNCHANGED <<slot, head, size>>, Return(t, Failed),
         pc[t] \in {"lock_tail", "push_size", "pop_size", "read"}
  PROVE  Contents' = Contents /\ Fifo!Returns(t, Fifo!Failed)
<1>1. Contents' = Contents
  BY ContentsStay DEF LinearInv, Inv, TypeOK
<1> QED
  BY <1>1, ReturnStep, SameNames DEF LinearInv, InCalls

LEMMA SimPushFailure ==
  ASSUME LinearInv, NEW t \in Threads, UNCHANGED <<slot, head, size>>, Return(t, Failed),
         \/ pc[t] = "lock_tail" /\ ~Fits(call[t])
         \/ pc[t] = "push_size" /\ size = MaxSize /\ ~call[t].wait
  PROVE  Fifo!Push(t)
<1>1. call[t] \in Pushes /\ call[t].op = "push"
  BY DEF LinearInv, Inv, TypeOK, PushSteps, Pushes
<1>2. Contents' = Contents /\ Fifo!Returns(t, Fifo!Failed)
  BY SimFailure
<1>3. pc[t] = "push_size" => Fits(call[t])
  BY DEF LinearInv, Fitting, OwnsTail, PushSteps
<1> QED
  BY <1>1, <1>2, <1>3, ContentsSeq, SameNames DEF Fifo!Push

LEMMA SimPopFailure ==
  ASSUME LinearInv, NEW t \in Threads, UNCHANGED <<slot, head, size>>, Return(t, Failed),
         \/ pc[t] = "pop_size" /\ size = 0 /\ ~call[t].wait
         \/ pc[t] = "read" /\ SizeOf[slot[head]] > call[t].room
  PROVE  Fifo!Pop(t)
<1>1. call[t] \in Pops /\ call[t].op = "pop"
  BY DEF LinearInv, Inv, TypeOK, PopSteps, Pops
<1>2. Contents' = Contents /\ Fifo!Returns(t, Fifo!Failed)
  BY SimFailure
<1>3. CASE pc[t] = "pop_size" /\ size = 0 /\ ~call[t].wait
  <2>1. Contents = << >>
    BY <1>3, ContentsSeq, EmptySeq
  <2> QED
    BY <1>1, <1>2, <1>3, <2>1 DEF Fifo!Pop
<1>4. CASE pc[t] = "read" /\ SizeOf[slot[head]] > call[t].room
  <2>1. Taken = 0 /\ size > 0
    BY <1>4 DEF Taken, LinearInv, Inv, Sound, Owned, Checked, OwnsHead, PopSteps, TypeOK
  <2>2. Front = head /\ Wrap(Front + 1 - 1) = head
    BY <2>1, FrontTaken, QueueAssumption DEF LinearInv, Inv, Wrap
  <2>3. Contents # << >>
    BY <2>1, ContentsSeq, EmptySeq
  <2>4. Contents[1] = slot[head]
    BY <2>1, <2>2 DEF Contents, LinearInv, Inv, TypeOK
  <2>5. Head(Contents) = slot[head]
    BY <2>3, <2>4, ContentsSeq
  <2> QED
    BY <1>1, <1>2, <1>4, <2>3, <2>5 DEF Fifo!Pop
<1> QED
  BY <1>3, <1>4

LEMMA SimWrite ==
  ASSUME LinearInv, NEW t \in Threads, push_write(t)
  PROVE  UNCHANGED <<Contents, call, result>>
<1> USE QueueAssumption DEF LinearInv, Inv, TypeOK, Sound
<1>1. Written = 0 /\ size < MaxSize
  BY DEF push_write, Written, Owned, OwnsTail, PushSteps, Checked
<1>2. Front' = Front
  BY DEF push_write, Front
<1>3. Wrap(Front + size) = Wrap(tail)
  BY <1>1, BackSlot DEF Taken, Checked
<1>4. ASSUME NEW i \in 1..size
      PROVE  slot'[Wrap(Front + i - 1)] = slot[Wrap(Front + i - 1)]
  <2>1. i - 1 \in 0..MaxSize - 1 /\ size \in 0..MaxSize - 1 /\ i - 1 # size
    BY <1>1
  <2>2. Front \in 0..MaxSize - 1
    BY FrontTaken
  <2>3. Wrap(Front + (i - 1)) # Wrap(Front + size)
    BY <2>1, <2>2, RingDistinct
  <2>4. Front + (i - 1) = Front + i - 1
    BY <2>1, <2>2
  <2> QED
    BY <1>3, <2>3, <2>4 DEF push_write
<1>5. Contents' = Contents
  BY <1>2, <1>4, ContentsKept DEF push_write
<1> QED
  BY <1>5 DEF push_write

LEMMA SimRead ==
  ASSUME LinearInv, NEW t \in Threads, pop_read(t), At(t, "pop_count")'
  PROVE  UNCHANGED <<Contents, call, result>>
<1> USE QueueAssumption DEF LinearInv, Inv, TypeOK, Sound
<1>1. head' = Wrap(head + 1) /\ UNCHANGED <<slot, size, caller>>
  BY DEF pop_read
<1>2. Front = head
  BY DEF pop_read, Front, Owned, OwnsHead, PopSteps
<1>3. Front' = IF head' = 0 THEN MaxSize - 1 ELSE head' - 1
  BY DEF Front
<1>4. Front' = Front
  BY <1>1, <1>2, <1>3 DEF Wrap
<1>5. Contents' = Contents
  BY <1>1, <1>4, ContentsKept
<1> QED
  BY <1>1, <1>5

LEMMA SimPush ==
  ASSUME LinearInv, LinearInv', NEW t \in Threads, push_count(t)
  PROVE  Fifo!Push(t)
<1> USE QueueAssumption DEF LinearInv, Inv, TypeOK, Sound
<1>1. /\ call[t] \in Pushes /\ call[t].op = "push" /\ Fits(call[t]) /\ call[t].elem \in Elems
      /\ result[t] = Pending
  BY DEF push_count, PushSteps, Pushes, Fitting, OwnsTail, InCalls
<1>2. Written = 1 /\ size < MaxSize /\ size' = size + 1 /\ UNCHANGED <<slot, head>>
  BY DEF push_count, Written, Checked
<1>3. Front' = Front
  BY DEF push_count, Front
<1>4. slot[Wrap(Front + size)] = call[t].elem
  <2>1. tail # 0 /\ slot[tail - 1] = call[t].elem
    BY DEF push_count, InTransit
  <2>2. Wrap(Front + size) = IF tail = 0 THEN MaxSize - 1 ELSE tail - 1
    BY <1>2, BackSlot DEF Taken, Checked
  <2> QED
    BY <2>1, <2>2
<1>5. Contents' = Append(Contents, call[t].elem)
  <2> DEFINE A == Append(Contents, call[t].elem)
  <2>1. Contents \in Seq(Elems) /\ Len(Contents) = size
    BY ContentsSeq
  <2>2. Contents' \in Seq(Elems) /\ Len(Contents') = size + 1
    BY <1>2, ContentsSeqNext DEF SeqContents
  <2>3. A \in Seq(Elems) /\ Len(A) = size + 1
    BY <1>1, <2>1, AppendProperties
  <2>4. ASSUME NEW i \in 1..size + 1
        PROVE  Contents'[i] = A[i]
    <3>1. Contents'[i] = slot[Wrap(Front + i - 1)]
      BY <1>2, <1>3 DEF Contents, Wrap
    <3>2. CASE i = size + 1
      <4>1. Front + i - 1 = Front + size
        BY <3>2, FrontTaken
      <4> QED
        BY <1>1, <1>4, <2>1, <3>1, <3>2, <4>1, AppendProperties
    <3>3. CASE i \in 1..size
      <4>1. A[i] = Contents[i]
        BY <1>1, <2>1, <3>3, AppendProperties
      <4> QED
        BY <3>1, <3>3, <4>1 DEF Contents
    <3>4. size \in Nat
      OBVIOUS
    <3>5. i = size + 1 \/ i \in 1..size
      BY <2>4, <3>4
    <3> QED
      BY <3>2, <3>3, <3>5
  <2> QED
    BY <2>2, <2>3, <2>4, SeqEqual
<1>6. Fifo!Returns(t, Done)
  BY <1>1, ReturnStep DEF push_count
<1>7. Len(Contents) < MaxSize
  BY <1>2, ContentsSeq
<1> QED
  BY <1>1, <1>5, <1>6, <1>7, SameNames DEF Fifo!Push

LEMMA SimPop ==
  ASSUME LinearInv, LinearInv', NEW t \in Threads, pop_count(t)
  PROVE  Fifo!Pop(t)
<1> USE QueueAssumption DEF LinearInv, Inv, TypeOK, Sound
<1>1. call[t] \in Pops /\ call[t].op = "pop" /\ result[t] = Pending
  BY DEF pop_count, PopSteps, Pops, InCalls
<1>2. Taken = 1 /\ size > 0 /\ size' = size - 1 /\ UNCHANGED <<slot, head>>
  BY DEF pop_count, Taken, Checked
<1>3. buf[t] = slot[Front] /\ SizeOf[buf[t]] <= call[t].room
  BY DEF pop_count, InTransit
<1>4. Contents # << >> /\ Head(Contents) = buf[t]
  <2>1. Contents # << >>
    BY <1>2, ContentsSeq, EmptySeq
  <2>2. Wrap(Front + 1 - 1) = Front
    BY FrontTaken DEF Wrap
  <2>3. Contents[1] = buf[t]
    BY <1>2, <1>3, <2>2 DEF Contents
  <2> QED
    BY <2>1, <2>3, ContentsSeq
<1>5. Contents' = Tail(Contents)
  <2>1. Contents \in Seq(Elems) /\ Len(Contents) = size
    BY ContentsSeq
  <2>2. Contents' \in Seq(Elems) /\ Len(Contents') = size - 1
    BY <1>2, ContentsSeqNext DEF SeqContents
  <2>3. Tail(Contents) \in Seq(Elems) /\ Len(Tail(Contents)) = size - 1
    BY <1>4, <2>1, HeadTailProperties
  <2>4. ASSUME NEW i \in 1..size - 1
        PROVE  Contents'[i] = Tail(Contents)[i]
    <3>1. Front' = head
      BY DEF pop_count, Front, Owned, OwnsHead, PopSteps
    <3>2. Contents'[i] = slot[Wrap(head + i - 1)]
      BY <1>2, <2>4, <3>1 DEF Contents, Wrap
    <3>3. Tail(Contents)[i] = Contents[i + 1]
      BY <1>4, <2>1, <2>3, <2>4, HeadTailProperties
    <3>7. i + 1 \in 1..size
      BY <1>2, <2>4
    <3>4. Contents[i + 1] = slot[Wrap(Front + (i + 1) - 1)]
      BY <3>7 DEF Contents
    <3>5. Front = IF head = 0 THEN MaxSize - 1 ELSE head - 1
      BY <1>2, FrontTaken
    <3>6. Wrap(Front + (i + 1) - 1) = Wrap(head + i - 1)
      BY <2>4, <3>5 DEF Wrap
    <3> QED
      BY <3>2, <3>3, <3>4, <3>6
  <2> QED
    BY <2>2, <2>3, <2>4, SeqEqual
<1>6. Fifo!Returns(t, buf[t])
  BY <1>1, ReturnStep DEF pop_count
<1> QED
  BY <1>1, <1>3, <1>4, <1>5, <1>6 DEF Fifo!Pop

LEMMA StepFifo ==
  ASSUME LinearInv, LinearInv', NEW t \in Threads, step(t)
  PROVE  Fifo!Next \/ UNCHANGED <<Contents, call, result>>
<1>1. ASSUME NEW c \in Pushes \cup Pops, queue_push(t, c) \/ queue_pop(t, c)
      PROVE  Fifo!Next
  BY <1>1, SimInvoke, SameNames DEF Fifo!Next
<1>2. CASE UNCHANGED <<slot, head, size, caller>> /\ \A u \in Threads : At(u, "pop_count")' <=> At(u, "pop_count")
  BY <1>2, ContentsStay
<1>3. CASE push_lock_tail(t)
  <2>1. CASE ~Fits(call[t]) /\ Return(t, Failed)
    BY <1>3, <2>1, SimPushFailure DEF push_lock_tail, Fifo!Next
  <2> QED
    BY <1>2, <1>3, <2>1 DEF push_lock_tail, LinearInv, Inv, TypeOK
<1>4. CASE push_check_size(t)
  <2>1. CASE size = MaxSize /\ ~call[t].wait /\ Return(t, Failed)
    BY <1>4, <2>1, SimPushFailure DEF push_check_size, Fifo!Next
  <2> QED
    BY <1>2, <1>4, <2>1 DEF push_check_size, LinearInv, Inv, TypeOK
<1>5. CASE push_write(t)
  BY <1>5, SimWrite
<1>6. CASE push_count(t)
  BY <1>6, SimPush DEF Fifo!Next
<1>7. CASE pop_lock_head(t)
  BY <1>2, <1>7 DEF pop_lock_head, LinearInv, Inv, TypeOK
<1>8. CASE pop_check_size(t)
  <2>1. CASE size = 0 /\ ~call[t].wait /\ Return(t, Failed)
    BY <1>8, <2>1, SimPopFailure DEF pop_check_size, Fifo!Next
  <2> QED
    BY <1>2, <1>8, <2>1 DEF pop_check_size, LinearInv, Inv, TypeOK
<1>9. CASE pop_read(t)
  <2>1. CASE SizeOf[slot[head]] > call[t].room /\ UNCHANGED head /\ Return(t, Failed)
    BY <1>9, <2>1, SimPopFailure DEF pop_read, Fifo!Next
  <2>2. CASE Goto(t, "pop_count")
    BY <1>9, <2>2, SimRead DEF LinearInv, Inv, TypeOK
  <2> QED
    BY <1>9, <2>1, <2>2 DEF pop_read
<1>10. CASE pop_count(t)
  BY <1>10, SimPop DEF Fifo!Next
<1>11. CASE spurious_wakeup(t)
  BY <1>2, <1>11 DEF spurious_wakeup, LinearInv, Inv, TypeOK
<1>12. CASE cancel(t)
  BY <1>2, <1>12 DEF cancel, LinearInv, Inv, TypeOK
<1> QED
  BY <1>1, <1>3, <1>4, <1>5, <1>6, <1>7, <1>8, <1>9, <1>10, <1>11, <1>12 DEF step, push, pop

LEMMA InitLinear == Init => LinearInv /\ Fifo!Init
<1> SUFFICES ASSUME Init PROVE LinearInv /\ Fifo!Init
  OBVIOUS
<1>1. Inv
  BY InitType, InitSound DEF Inv
<1>2. InCalls /\ Fitting /\ InTransit
  BY ResultsDiffer DEF Init, InCalls, Fitting, InTransit, OwnsTail, PushSteps
<1>3. size = 0
  BY DEF Init, queue_init
<1>4. Contents = << >>
  BY <1>1, <1>2, <1>3, ContentsSeq, EmptySeq DEF LinearInv
<1> QED
  BY <1>1, <1>2, <1>4, SameNames DEF LinearInv, Init, Fifo!Init

LEMMA NextLinear == LinearInv /\ [Next]_vars => LinearInv'
<1> SUFFICES ASSUME LinearInv, [Next]_vars PROVE LinearInv'
  OBVIOUS
<1>1. Inv'
  BY NextSound DEF LinearInv
<1>2. ASSUME NEW t \in Threads, step(t) PROVE InCalls' /\ Fitting' /\ InTransit'
  BY <1>2, StepInCalls, StepFitting, StepInTransit DEF LinearInv, Inv
<1>3. CASE UNCHANGED vars
  <2>1. Front' = Front
    BY <1>3 DEF vars, Front
  <2>2. InCalls' /\ Fitting'
    BY <1>3 DEF vars, LinearInv, InCalls, Fitting, OwnsTail, Fits
  <2>3. InTransit'
    BY <1>3, <2>1 DEF vars, LinearInv, InTransit
  <2> QED
    BY <1>1, <2>2, <2>3 DEF LinearInv
<1> QED
  BY <1>1, <1>2, <1>3 DEF Next, step, LinearInv

\* queue_push, queue_try_push, queue_pop and queue_try_pop implement the FIFO queue of
\* queue.h: each call takes effect at one instant between its invocation and its return.
THEOREM QueueLinearizable == Spec => Linearizable
<1>1. Init => LinearInv /\ Fifo!Init
  BY InitLinear
<1>2. LinearInv /\ [Next]_vars => LinearInv'
  BY NextLinear
<1>3. LinearInv /\ LinearInv' /\ [Next]_vars => [Fifo!Next]_<<Contents, call, result>>
  <2> SUFFICES ASSUME LinearInv, LinearInv', [Next]_vars
               PROVE  Fifo!Next \/ UNCHANGED <<Contents, call, result>>
    OBVIOUS
  <2>1. CASE UNCHANGED vars
    BY <2>1 DEF vars, Contents, Front, Wrap
  <2> QED
    BY <2>1, StepFifo DEF Next, step
<1> QED
  BY <1>1, <1>2, <1>3, PTL DEF Spec, Linearizable, Fifo!Spec
=============================================================================
