--------------------------- MODULE RingQueueProofs ---------------------------
(* Theorems about RingQueue for any number of threads, any elements and any  *)
(* size of the queue, with threads cancelled or not.                         *)
EXTENDS RingQueue, TLAPS

USE DEF offsets, mutexes, caller, At, Goto, Continue, Finish, Return, Broadcast

-----------------------------------------------------------------------------
(* The inductive invariant *)

\* A thread past its first lock call owns the mutex of its end of the queue.
Owned ==
  \A t \in Threads :
    /\ OwnsTail(t) => tailMutex = t
    /\ OwnsHead(t) => headMutex = t

\* What the check of cur_size found still holds when the lock on it is gone.
Checked ==
  /\ \A t \in Threads : pc[t] \in {"write", "push_count"} => size < MaxSize
  /\ \A t \in Threads : pc[t] \in {"read", "pop_count"} => size > 0

\* 1 while an element is in the buffer and not in cur_size; 1 while an element is
\* in cur_size and not between head_offset and tail_offset.
Written == IF \E t \in Threads : At(t, "push_count") THEN 1 ELSE 0
Taken   == IF \E t \in Threads : At(t, "pop_count") THEN 1 ELSE 0

\* tail_offset is cur_size elements after head_offset, around the ring.
Placed ==
  \/ head + size + Written = tail + Taken
  \/ head + size + Written = tail + Taken + MaxSize
  \/ head + size + Written + MaxSize = tail + Taken

\* Every slot from the head to the tail holds an element.
Filled ==
  /\ \A i \in 0..MaxSize - 1 : i + Taken < size + Written => slot[Wrap(head + i)] \in Elems
  /\ \A t \in Threads : At(t, "pop_count") => buf[t] \in Elems

Sound == Owned /\ Checked /\ Placed /\ Filled /\ NoLostWakeup

-----------------------------------------------------------------------------
(* Type correctness and the inductive invariant, step by step *)

LEMMA WrapType ==
  ASSUME NEW i \in 0..2 * MaxSize - 1
  PROVE  Wrap(i) \in 0..MaxSize - 1
  BY QueueAssumption DEF Wrap

LEMMA InitType == Init => TypeOK
  BY QueueAssumption DEF Init, queue_init, TypeOK, Steps, PushSteps, PopSteps, NoCall

\* A step of one thread.
step(t) ==
  \/ \E c \in Pushes : queue_push(t, c)
  \/ \E c \in Pops : queue_pop(t, c)
  \/ push(t) \/ pop(t) \/ spurious_wakeup(t) \/ cancel(t)

LEMMA StepOwned ==
  ASSUME TypeOK, Owned, NEW t \in Threads, step(t)
  PROVE  Owned'
<1> USE QueueAssumption DEF TypeOK, Owned, OwnsTail, OwnsHead, Steps, PushSteps, PopSteps
<1>1. ASSUME NEW c \in Pushes, queue_push(t, c) PROVE Owned'
  BY <1>1 DEF queue_push
<1>2. ASSUME NEW c \in Pops, queue_pop(t, c) PROVE Owned'
  BY <1>2 DEF queue_pop
<1>3. CASE push_lock_tail(t)
  BY <1>3 DEF push_lock_tail
<1>4. CASE push_check_size(t)
  BY <1>4 DEF push_check_size
<1>5. CASE push_write(t)
  BY <1>5 DEF push_write
<1>6. CASE push_count(t)
  BY <1>6 DEF push_count
<1>7. CASE pop_lock_head(t)
  BY <1>7 DEF pop_lock_head
<1>8. CASE pop_check_size(t)
  BY <1>8 DEF pop_check_size
<1>9. CASE pop_read(t)
  <2>1. /\ pc'[t] = "pop_count" /\ headMutex' = headMutex
        \/ pc'[t] = "idle"
    BY <1>9 DEF pop_read
  <2>2. tailMutex' = tailMutex /\ \A u \in Threads : u # t => pc'[u] = pc[u]
    BY <1>9 DEF pop_read
  <2>3. headMutex = t /\ \A u \in Threads : u # t => ~OwnsHead(u)
    BY <1>9 DEF pop_read
  <2>4. pc[t] = "read"
    BY <1>9 DEF pop_read
  <2> QED
    BY <2>1, <2>2, <2>3, <2>4
<1>10. CASE pop_count(t)
  BY <1>10 DEF pop_count
<1>11. CASE spurious_wakeup(t)
  BY <1>11 DEF spurious_wakeup
<1>12. CASE cancel(t)
  BY <1>12 DEF cancel
<1> QED
  BY <1>1, <1>2, <1>3, <1>4, <1>5, <1>6, <1>7, <1>8, <1>9, <1>10, <1>11, <1>12 DEF step, push, pop

\* The type of what a thread has of its own, and how its next step keeps it.
ThreadsType ==
  /\ pc \in [Threads -> Steps]
  /\ buf \in [Threads -> Elems \cup {None}]
  /\ call \in [Threads -> Pushes \cup Pops \cup {NoCall}]
  /\ result \in [Threads -> Elems \cup {Pending, Done, Failed}]
  /\ \A t \in Threads : pc[t] \in PushSteps => call[t] \in Pushes
  /\ \A t \in Threads : pc[t] \in PopSteps => call[t] \in Pops

LEMMA ContinueType ==
  ASSUME TypeOK, NEW t \in Threads, NEW s \in Steps, Continue(t, s),
         \/ pc[t] \in PushSteps /\ s \in PushSteps
         \/ pc[t] \in PopSteps /\ s \in PopSteps
  PROVE  ThreadsType'
<1>1. pc' \in [Threads -> Steps] /\ pc'[t] = s /\ \A u \in Threads : u # t => pc'[u] = pc[u]
  BY DEF TypeOK
<1>2. UNCHANGED <<buf, caller>>
  OBVIOUS
<1>3. PushSteps \cap PopSteps = {}
  BY DEF PushSteps, PopSteps
<1>4. \A u \in Threads : /\ pc'[u] \in PushSteps => call[u] \in Pushes
                         /\ pc'[u] \in PopSteps => call[u] \in Pops
  BY <1>1, <1>3 DEF TypeOK
<1>5. QED
  BY <1>1, <1>2, <1>4 DEF TypeOK, ThreadsType

LEMMA ReturnType ==
  ASSUME TypeOK, NEW t \in Threads, NEW v \in Elems \cup {Pending, Done, Failed}, Return(t, v)
  PROVE  ThreadsType'
<1>1. /\ pc' \in [Threads -> Steps]
      /\ buf' \in [Threads -> Elems \cup {None}]
      /\ call' \in [Threads -> Pushes \cup Pops \cup {NoCall}]
      /\ result' \in [Threads -> Elems \cup {Pending, Done, Failed}]
  BY DEF TypeOK, Steps
<1>2. pc'[t] = "idle" /\ \A u \in Threads : u # t => pc'[u] = pc[u] /\ call'[u] = call[u]
  BY DEF TypeOK
<1>3. "idle" \notin PushSteps \cup PopSteps
  BY DEF PushSteps, PopSteps
<1>4. \A u \in Threads : /\ pc'[u] \in PushSteps => call'[u] \in Pushes
                         /\ pc'[u] \in PopSteps => call'[u] \in Pops
  BY <1>2, <1>3 DEF TypeOK
<1>5. QED
  BY <1>1, <1>4 DEF ThreadsType

LEMMA StepType ==
  ASSUME TypeOK, Owned, Checked, Filled, NEW t \in Threads, step(t)
  PROVE  TypeOK'
<1> USE QueueAssumption DEF TypeOK, Steps, PushSteps, PopSteps, Checked
<1>1. ASSUME NEW c \in Pushes, queue_push(t, c) PROVE TypeOK'
  BY <1>1 DEF queue_push
<1>2. ASSUME NEW c \in Pops, queue_pop(t, c) PROVE TypeOK'
  BY <1>2 DEF queue_pop
<1>3. CASE push_lock_tail(t)
  <2>1. ThreadsType'
    BY <1>3, ContinueType, ReturnType DEF push_lock_tail
  <2>2. tailMutex' \in Threads \cup {Free} /\ UNCHANGED <<offsets, headMutex, sizeMutex>>
    BY <1>3 DEF push_lock_tail
  <2> QED
    BY <2>1, <2>2 DEF ThreadsType
<1>4. CASE push_check_size(t)
  <2>1. ThreadsType'
    BY <1>4, ContinueType, ReturnType DEF push_check_size
  <2>2. tailMutex' \in Threads \cup {Free} /\ UNCHANGED <<offsets, headMutex, sizeMutex>>
    BY <1>4 DEF push_check_size
  <2> QED
    BY <2>1, <2>2 DEF ThreadsType
<1>5. CASE push_write(t)
  <2>1. call[t].elem \in Elems
    BY <1>5 DEF push_write, Pushes
  <2>2. Wrap(tail) \in 0..MaxSize - 1
    BY WrapType
  <2>3. slot' \in [0..MaxSize - 1 -> Elems \cup {None}] /\ tail' \in 0..MaxSize
    BY <1>5, <2>1, <2>2 DEF push_write
  <2> QED
    BY <1>5, <2>3 DEF push_write
<1>6. CASE push_count(t)
  BY <1>6 DEF push_count
<1>7. CASE pop_lock_head(t)
  BY <1>7 DEF pop_lock_head
<1>8. CASE pop_check_size(t)
  <2>1. ThreadsType'
    BY <1>8, ContinueType, ReturnType DEF pop_check_size
  <2>2. headMutex' \in Threads \cup {Free} /\ UNCHANGED <<offsets, tailMutex, sizeMutex>>
    BY <1>8 DEF pop_check_size
  <2> QED
    BY <2>1, <2>2 DEF ThreadsType
<1>9. CASE pop_read(t)
  <2>1. head' \in 0..MaxSize - 1
    <3>1. head + 1 \in 0..2 * MaxSize - 1
      OBVIOUS
    <3>2. head' \in {head, Wrap(head + 1)}
      BY <1>9 DEF pop_read
    <3> QED
      BY <3>1, <3>2, WrapType
  <2>2. UNCHANGED <<slot, tail, size, tailMutex, sizeMutex>>
    BY <1>9 DEF pop_read
  <2>3. CASE headMutex' = Free /\ Return(t, Failed)
    <3>1. ThreadsType'
      BY <2>3, ReturnType
    <3> QED
      BY <2>1, <2>2, <2>3, <3>1 DEF ThreadsType
  <2>4. CASE /\ buf' = [buf EXCEPT ![t] = slot[head]] /\ Goto(t, "pop_count")
             /\ UNCHANGED <<headMutex, caller>>
    <3>1. buf' \in [Threads -> Elems \cup {None}] /\ pc' \in [Threads -> Steps]
      BY <2>4
    <3>2. /\ pc[t] \in PopSteps
          /\ \A u \in Threads : pc'[u] = pc[u] \/ (u = t /\ pc'[u] = "pop_count")
      BY <1>9, <2>4 DEF pop_read
    <3>3. ThreadsType'
      BY <2>4, <3>1, <3>2 DEF ThreadsType
    <3> QED
      BY <2>1, <2>2, <2>4, <3>3 DEF ThreadsType
  <2> QED
    BY <1>9, <2>3, <2>4 DEF pop_read
<1>10. CASE pop_count(t)
  <2>1. size' \in 0..MaxSize
    BY <1>10 DEF pop_count
  <2>2. result' \in [Threads -> Elems \cup {Pending, Done, Failed}]
    BY <1>10 DEF pop_count, Filled
  <2> QED
    BY <1>10, <2>1, <2>2 DEF pop_count
<1>11. CASE spurious_wakeup(t)
  <2>1. PICK s \in {"push_size", "pop_size"} : Continue(t, s)
    BY <1>11 DEF spurious_wakeup
  <2>2. ThreadsType'
    BY <1>11, <2>1, ContinueType DEF spurious_wakeup
  <2> QED
    BY <2>1, <2>2, <1>11 DEF spurious_wakeup, ThreadsType
<1>12. CASE cancel(t)
  BY <1>12 DEF cancel
<1> QED
  BY <1>1, <1>2, <1>3, <1>4, <1>5, <1>6, <1>7, <1>8, <1>9, <1>10, <1>11, <1>12 DEF step, push, pop

LEMMA StepChecked ==
  ASSUME TypeOK, Owned, Checked, NEW t \in Threads, step(t)
  PROVE  Checked'
<1> USE QueueAssumption DEF TypeOK, Owned, Checked, OwnsTail, OwnsHead, PushSteps, PopSteps
<1>1. ASSUME NEW c \in Pushes, queue_push(t, c) PROVE Checked'
  BY <1>1 DEF queue_push
<1>2. ASSUME NEW c \in Pops, queue_pop(t, c) PROVE Checked'
  BY <1>2 DEF queue_pop
<1>3. CASE push_lock_tail(t)
  BY <1>3 DEF push_lock_tail
<1>4. CASE push_check_size(t)
  BY <1>4 DEF push_check_size
<1>5. CASE push_write(t)
  BY <1>5 DEF push_write
<1>6. CASE push_count(t)
  BY <1>6 DEF push_count
<1>7. CASE pop_lock_head(t)
  BY <1>7 DEF pop_lock_head
<1>8. CASE pop_check_size(t)
  BY <1>8 DEF pop_check_size
<1>9. CASE pop_read(t)
  BY <1>9 DEF pop_read
<1>10. CASE pop_count(t)
  BY <1>10 DEF pop_count
<1>11. CASE spurious_wakeup(t)
  BY <1>11 DEF spurious_wakeup
<1>12. CASE cancel(t)
  BY <1>12 DEF cancel
<1> QED
  BY <1>1, <1>2, <1>3, <1>4, <1>5, <1>6, <1>7, <1>8, <1>9, <1>10, <1>11, <1>12 DEF step, push, pop

LEMMA StepWakeup ==
  ASSUME TypeOK, Owned, Checked, NoLostWakeup, NEW t \in Threads, step(t)
  PROVE  NoLostWakeup'
<1> USE QueueAssumption DEF TypeOK, Owned, Checked, NoLostWakeup, OwnsTail, OwnsHead,
                            PushSteps, PopSteps
<1>1. ASSUME NEW c \in Pushes, queue_push(t, c) PROVE NoLostWakeup'
  BY <1>1 DEF queue_push
<1>2. ASSUME NEW c \in Pops, queue_pop(t, c) PROVE NoLostWakeup'
  BY <1>2 DEF queue_pop
<1>3. CASE push_lock_tail(t)
  BY <1>3 DEF push_lock_tail
<1>4. CASE push_check_size(t)
  BY <1>4 DEF push_check_size
<1>5. CASE push_write(t)
  BY <1>5 DEF push_write
<1>6. CASE push_count(t)
  BY <1>6 DEF push_count
<1>7. CASE pop_lock_head(t)
  BY <1>7 DEF pop_lock_head
<1>8. CASE pop_check_size(t)
  BY <1>8 DEF pop_check_size
<1>9. CASE pop_read(t)
  BY <1>9 DEF pop_read
<1>10. CASE pop_count(t)
  BY <1>10 DEF pop_count
<1>11. CASE spurious_wakeup(t)
  BY <1>11 DEF spurious_wakeup
<1>12. CASE cancel(t)
  BY <1>12 DEF cancel
<1> QED
  BY <1>1, <1>2, <1>3, <1>4, <1>5, <1>6, <1>7, <1>8, <1>9, <1>10, <1>11, <1>12 DEF step, push, pop

LEMMA TransitType == Written \in {0, 1} /\ Taken \in {0, 1}
  BY DEF Written, Taken

\* How the elements in transit change.
Transit(w, c) == Written' = w /\ Taken' = c

\* A thread with an element in transit goes on having it.
Stays(u) == pc'[u] \in {"push_count", "pop_count"} =>
              pc'[u] = pc[u] /\ buf'[u] = buf[u] /\ call'[u] = call[u]

Moves(t) ==
  \/ push_write(t) /\ Written = 0 /\ Transit(1, Taken)
  \/ push_count(t) /\ Written = 1 /\ Transit(0, Taken)
  \/ pop_read(t) /\ At(t, "read") /\ At(t, "pop_count")' /\ Taken = 0 /\ Transit(Written, 1)
  \/ pop_count(t) /\ Taken = 1 /\ Transit(Written, 0)
  \/ /\ UNCHANGED offsets /\ Transit(Written, Taken)
     /\ \A u \in Threads : Stays(u)

LEMMA StepMoves ==
  ASSUME TypeOK, Owned, NEW t \in Threads, step(t)
  PROVE  Moves(t)
<1> USE DEF TypeOK, Owned, OwnsTail, OwnsHead, PushSteps, PopSteps, Written, Taken,
           Moves, Transit, Stays
<1>1. ASSUME NEW c \in Pushes, queue_push(t, c) PROVE Moves(t)
  BY <1>1 DEF queue_push
<1>2. ASSUME NEW c \in Pops, queue_pop(t, c) PROVE Moves(t)
  BY <1>2 DEF queue_pop
<1>3. CASE push_lock_tail(t)
  BY <1>3 DEF push_lock_tail
<1>4. CASE push_check_size(t)
  BY <1>4 DEF push_check_size
<1>5. CASE push_write(t)
  BY <1>5 DEF push_write
<1>6. CASE push_count(t)
  BY <1>6 DEF push_count
<1>7. CASE pop_lock_head(t)
  BY <1>7 DEF pop_lock_head
<1>8. CASE pop_check_size(t)
  BY <1>8 DEF pop_check_size
<1>9. CASE pop_read(t)
  BY <1>9 DEF pop_read
<1>10. CASE pop_count(t)
  BY <1>10 DEF pop_count
<1>11. CASE spurious_wakeup(t)
  BY <1>11 DEF spurious_wakeup
<1>12. CASE cancel(t)
  BY <1>12 DEF cancel
<1> QED
  BY <1>1, <1>2, <1>3, <1>4, <1>5, <1>6, <1>7, <1>8, <1>9, <1>10, <1>11, <1>12 DEF step, push, pop

LEMMA StepPlaced ==
  ASSUME TypeOK, Owned, Checked, Placed, NEW t \in Threads, step(t)
  PROVE  Placed'
<1> USE QueueAssumption DEF TypeOK, Checked, Placed, Transit, Wrap
<1>0. Moves(t)
  BY StepMoves
<1>1. CASE push_write(t) /\ Written = 0 /\ Transit(1, Taken)
  BY <1>1 DEF push_write, Taken
<1>2. CASE push_count(t) /\ Written = 1 /\ Transit(0, Taken)
  BY <1>2 DEF push_count, Taken
<1>3. CASE pop_read(t) /\ At(t, "read") /\ At(t, "pop_count")' /\ Taken = 0 /\ Transit(Written, 1)
  <2>1. head' = Wrap(head + 1) /\ UNCHANGED <<tail, size>> /\ size > 0
    BY <1>3 DEF pop_read
  <2> QED
    BY <1>3, <2>1, TransitType
<1>4. CASE pop_count(t) /\ Taken = 1 /\ Transit(Written, 0)
  BY <1>4 DEF pop_count, Written
<1>5. CASE UNCHANGED offsets /\ Transit(Written, Taken)
  BY <1>5
<1> QED
  BY <1>0, <1>1, <1>2, <1>3, <1>4, <1>5 DEF Moves

\* Where the next element goes, seen from the head.
LEMMA TailSlot ==
  ASSUME TypeOK, Placed, Written = 0, NEW i \in 0..MaxSize - 1, i + Taken = size
  PROVE  Wrap(head + i) = Wrap(tail)
  BY QueueAssumption DEF TypeOK, Placed, Wrap, Taken

\* The slots seen from the head move by one when the head does.
LEMMA NextSlot ==
  ASSUME NEW h \in 0..MaxSize - 1, NEW i \in 0..MaxSize - 2
  PROVE  Wrap(Wrap(h + 1) + i) = Wrap(h + (i + 1))
  BY QueueAssumption DEF Wrap

LEMMA StepFilled ==
  ASSUME TypeOK, Owned, Checked, Placed, Filled, NEW t \in Threads, step(t)
  PROVE  Filled'
<1> USE QueueAssumption DEF TypeOK, Checked, Filled, Transit
<1>0. Moves(t)
  BY StepMoves
<1>1. CASE push_write(t) /\ Written = 0 /\ Transit(1, Taken)
  <2>1. call[t].elem \in Elems
    BY <1>1 DEF push_write, Pushes, PushSteps
  <2>2. ASSUME NEW i \in 0..MaxSize - 1, i + Taken < size + 1
        PROVE  slot'[Wrap(head + i)] \in Elems
    <3>1. Wrap(head + i) \in 0..MaxSize - 1
      BY WrapType
    <3>2. CASE i + Taken < size
      BY <1>1, <2>1, <3>1, <3>2 DEF push_write
    <3>3. CASE i + Taken = size
      BY <1>1, <2>1, <3>1, <3>3, TailSlot DEF push_write
    <3> QED
      BY <2>2, <3>2, <3>3 DEF Taken
  <2> QED
    BY <1>1, <2>2 DEF push_write
<1>2. CASE push_count(t) /\ Written = 1 /\ Transit(0, Taken)
  <2>1. \A i \in 0..MaxSize - 1 : i + Taken < size' + 0 => slot[Wrap(head + i)] \in Elems
    BY <1>2 DEF push_count
  <2> QED
    BY <1>2, <2>1 DEF push_count, Finish
<1>3. CASE pop_read(t) /\ At(t, "read") /\ At(t, "pop_count")' /\ Taken = 0 /\ Transit(Written, 1)
  <2>1. slot[head] \in Elems
    <3>1. Wrap(head + 0) = head /\ size > 0 /\ 0 \in 0..MaxSize - 1
      BY <1>3 DEF Wrap
    <3> QED
      BY <1>3, <3>1 DEF Written
  <2>2. ASSUME NEW i \in 0..MaxSize - 1, i + 1 < size + Written
        PROVE  slot[Wrap(head' + i)] \in Elems
    <3>1. i + 1 \in 0..MaxSize - 1 /\ i \in 0..MaxSize - 2
      BY <2>2 DEF Written
    <3>2. Wrap(head' + i) = Wrap(head + (i + 1))
      BY <1>3, <3>1, NextSlot DEF pop_read
    <3>3. (i + 1) + Taken < size + Written
      BY <1>3, <2>2, TransitType
    <3>4. slot[Wrap(head + (i + 1))] \in Elems
      BY <3>1, <3>3
    <3> QED
      BY <3>2, <3>4
  <2> QED
    BY <1>3, <2>1, <2>2 DEF pop_read
<1>4. CASE pop_count(t) /\ Taken = 1 /\ Transit(Written, 0)
  <2>1. ASSUME NEW i \in 0..MaxSize - 1, i + 0 < size' + Written
        PROVE  slot[Wrap(head + i)] \in Elems
    <3>1. size' = size - 1
      BY <1>4 DEF pop_count
    <3>2. i + 1 < size + Written
      BY <2>1, <3>1, TransitType
    <3> QED
      BY <1>4, <3>2
  <2>2. \A u \in Threads : ~At(u, "pop_count")'
    BY <1>4 DEF pop_count, Owned, OwnsHead, PopSteps
  <2> QED
    BY <1>4, <2>1, <2>2 DEF pop_count
<1>5. CASE /\ UNCHANGED offsets /\ Transit(Written, Taken)
           /\ \A u \in Threads : Stays(u)
  BY <1>5 DEF Stays
<1> QED
  BY <1>0, <1>1, <1>2, <1>3, <1>4, <1>5 DEF Moves

-----------------------------------------------------------------------------
(* Safety theorems *)

Inv == TypeOK /\ Sound

LEMMA InitSound == Init => Sound
<1> USE QueueAssumption DEF Init, queue_init
<1>1. Init => Owned /\ Checked /\ NoLostWakeup
  BY DEF Owned, Checked, NoLostWakeup, OwnsTail, OwnsHead, PushSteps, PopSteps
<1>2. Init => Written = 0 /\ Taken = 0
  BY DEF Written, Taken
<1>3. Init => Placed /\ Filled
  BY <1>2 DEF Placed, Filled
<1>4. QED
  BY <1>1, <1>3 DEF Sound

LEMMA NextSound == Inv /\ [Next]_vars => Inv'
<1> SUFFICES ASSUME Inv, [Next]_vars PROVE Inv'
  OBVIOUS
<1>1. ASSUME NEW t \in Threads, step(t) PROVE Inv'
  BY <1>1, StepOwned, StepType, StepChecked, StepPlaced, StepFilled, StepWakeup
  DEF Inv, Sound
<1>2. CASE UNCHANGED vars
  <2> USE <1>2 DEF vars, Inv, Sound
  <2>1. TypeOK' /\ Owned' /\ Checked' /\ NoLostWakeup'
    BY DEF TypeOK, Owned, Checked, NoLostWakeup, OwnsTail, OwnsHead
  <2>2. Written' = Written /\ Taken' = Taken
    BY DEF Written, Taken
  <2>3. Placed' /\ Filled'
    BY <2>2 DEF Placed, Filled, Wrap
  <2> QED
    BY <2>1, <2>3
<1> QED
  BY <1>1, <1>2 DEF Next, step

LEMMA SpecInv == Spec => []Inv
<1>1. Init => Inv
  BY InitType, InitSound DEF Inv
<1>2. QED
  BY <1>1, NextSound, PTL DEF Spec

\* Every variable keeps its type: head_offset and tail_offset never leave the
\* buffer, cur_size never exceeds max_size, whatever the threads do.
THEOREM TypeCorrect == Spec => []TypeOK
<1>1. Inv => TypeOK
  BY DEF Inv
<1>2. QED
  BY SpecInv, <1>1, PTL

\* The two memcpy calls of queue_push_common and queue_pop_common never touch the
\* same slot at the same time, though no mutex is common to them.
THEOREM SlotsApart == Spec => []NoSlotRace
<1>1. Inv => NoSlotRace
  <2> SUFFICES ASSUME Inv, NEW p \in Threads, NEW c \in Threads, At(p, "write"), At(c, "read"),
                      Wrap(tail) = head
               PROVE  FALSE
    BY DEF NoSlotRace
  <2>1. Written = 0 /\ Taken = 0
    BY DEF Inv, Sound, Owned, OwnsTail, OwnsHead, PushSteps, PopSteps, Written, Taken
  <2>2. size \in 1..MaxSize - 1
    BY QueueAssumption DEF Inv, Sound, TypeOK, Checked
  <2> QED
    BY <2>1, <2>2, QueueAssumption DEF Inv, Sound, TypeOK, Placed, Wrap
<1>2. QED
  BY SpecInv, <1>1, PTL

\* Broadcasting only when the queue stops being empty or full is enough.
THEOREM WakeupsKept == Spec => []NoLostWakeup
<1>1. Inv => NoLostWakeup
  BY DEF Inv, Sound
<1>2. QED
  BY SpecInv, <1>1, PTL

-----------------------------------------------------------------------------
(* Deadlock *)

\* Who owns a mutex is in a call of its end, or was cancelled there and owns size_mutex
\* for good.
Engaged ==
  /\ \A t \in Threads : pc[t] = "cancelled" => sizeMutex # Free
  /\ \A t \in Threads : pc[t] = "idle" => call[t] = NoCall
  /\ \A t \in Threads : tailMutex = t => OwnsTail(t) \/ pc[t] = "cancelled"
  /\ \A t \in Threads : headMutex = t => OwnsHead(t) \/ pc[t] = "cancelled"

LEMMA StepEngaged ==
  ASSUME Inv, Engaged, NEW t \in Threads, step(t)
  PROVE  Engaged'
<1> USE QueueAssumption DEF Inv, Sound, TypeOK, Owned, Engaged, OwnsTail, OwnsHead,
        Steps, PushSteps, PopSteps
<1>1. ASSUME NEW c \in Pushes, queue_push(t, c) PROVE Engaged'
  BY <1>1 DEF queue_push
<1>2. ASSUME NEW c \in Pops, queue_pop(t, c) PROVE Engaged'
  BY <1>2 DEF queue_pop
<1>3. CASE push_lock_tail(t)
  BY <1>3 DEF push_lock_tail
<1>4. CASE push_check_size(t)
  BY <1>4 DEF push_check_size
<1>5. CASE push_write(t)
  BY <1>5 DEF push_write
<1>6. CASE push_count(t)
  BY <1>6 DEF push_count
<1>7. CASE pop_lock_head(t)
  BY <1>7 DEF pop_lock_head
<1>8. CASE pop_check_size(t)
  BY <1>8 DEF pop_check_size
<1>9. CASE pop_read(t)
  BY <1>9 DEF pop_read
<1>10. CASE pop_count(t)
  BY <1>10 DEF pop_count
<1>11. CASE spurious_wakeup(t)
  BY <1>11 DEF spurious_wakeup
<1>12. CASE cancel(t)
  BY <1>12 DEF cancel
<1> QED
  BY <1>1, <1>2, <1>3, <1>4, <1>5, <1>6, <1>7, <1>8, <1>9, <1>10, <1>11, <1>12 DEF step, push, pop

LEMMA EngagedGoesOn ==
  ASSUME Inv, Engaged
  PROVE  NoDeadlock
<1> SUFFICES ASSUME NEW u \in Threads, pc[u] # "idle", sizeMutex = Free,
                    \A t \in Threads : ~Runs(t)
             PROVE  \/ size = MaxSize /\ ~InCall("pop")
                    \/ size = 0 /\ ~InCall("push")
  BY DEF NoDeadlock
<1> USE DEF Inv, Sound, TypeOK, Steps, PushSteps, PopSteps
<1>1. \A t \in Threads : pc[t] \in {"idle", "lock_tail", "lock_head", "full_wait", "empty_wait"}
  BY DEF Runs, Engaged
<1>2. \A t \in Threads : pc[t] \in PushSteps => size = MaxSize
  <2> TAKE t \in Threads
  <2>1. CASE pc[t] = "full_wait"
    BY <2>1 DEF NoLostWakeup
  <2>2. CASE pc[t] = "lock_tail"
    <3>1. PICK v \in Threads : tailMutex = v
      BY <2>2 DEF Runs
    <3>2. pc[v] = "full_wait"
      BY <1>1, <3>1 DEF Engaged, OwnsTail
    <3> QED
      BY <3>2 DEF NoLostWakeup
  <2> QED
    BY <1>1, <2>1, <2>2
<1>3. \A t \in Threads : pc[t] \in PopSteps => size = 0
  <2> TAKE t \in Threads
  <2>1. CASE pc[t] = "empty_wait"
    BY <2>1 DEF NoLostWakeup
  <2>2. CASE pc[t] = "lock_head"
    <3>1. PICK v \in Threads : headMutex = v
      BY <2>2 DEF Runs
    <3>2. pc[v] = "empty_wait"
      BY <1>1, <3>1 DEF Engaged, OwnsHead
    <3> QED
      BY <3>2 DEF NoLostWakeup
  <2> QED
    BY <1>1, <2>1, <2>2
<1>4. /\ InCall("push") => size = MaxSize
      /\ InCall("pop") => size = 0
  <2>1. \A t \in Threads : call[t].op = "push" => pc[t] \notin PopSteps /\ pc[t] # "idle"
    BY DEF Engaged, Pops, NoCall
  <2>2. \A t \in Threads : call[t].op = "pop" => pc[t] \notin PushSteps /\ pc[t] # "idle"
    BY DEF Engaged, Pushes, NoCall
  <2> QED
    BY <1>1, <1>2, <1>3, <2>1, <2>2 DEF InCall
<1>5. size = MaxSize \/ size = 0
  BY <1>1, <1>2, <1>3
<1> QED
  BY <1>4, <1>5, QueueAssumption

\* queue_push and queue_pop never deadlock, for any number of threads: producers keep
\* tail_mutex and consumers head_mutex while they wait, and neither needs the other's.
THEOREM DeadlockFree == Spec => []NoDeadlock
<1>1. Init => Engaged
  BY QueueAssumption DEF Init, queue_init, Engaged
<1>2. Inv /\ Engaged /\ [Next]_vars => Engaged'
  <2>1. CASE UNCHANGED vars
    BY <2>1 DEF vars, Engaged, OwnsTail, OwnsHead
  <2> QED
    BY <2>1, StepEngaged DEF Next, step
<1>3. Inv /\ Engaged => NoDeadlock
  BY EngagedGoesOn
<1> QED
  BY SpecInv, <1>1, <1>2, <1>3, PTL DEF Spec
=============================================================================
