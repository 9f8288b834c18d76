------------------------------ MODULE RingQueue ------------------------------
(***************************************************************************)
(* The circular buffer of src/com/queue.c: queue_push, queue_try_push,     *)
(* queue_pop and queue_try_pop at the granularity of their pthread calls,  *)
(* for threads of several processes over one shared memory object.         *)
(*                                                                         *)
(* A byte offset into the buffer is the number of its slot: the buffer     *)
(* begins at slot 0 and ends at slot MaxSize.  A stretch of code under     *)
(* size_mutex is one step: nothing in it blocks but pthread_cond_wait,     *)
(* which ends the step, so size_mutex is free between steps, unless a      *)
(* thread is cancelled inside pthread_cond_wait.                           *)
(***************************************************************************)
EXTENDS Naturals, Sequences

CONSTANTS Threads, Elems, SizeOf, Rooms, MaxSize, DataMaxSize,
  Cancellable   \* threads that another thread may pthread_cancel

Free == "free"
None == "no element"

ASSUME QueueAssumption ==
  /\ MaxSize \in Nat \ {0}
  /\ DataMaxSize \in Nat
  /\ SizeOf \in [Elems -> Nat]
  /\ Rooms \subseteq Nat
  /\ Free \notin Threads
  /\ {None, "pending", "0", "-1"} \cap Elems = {}

VARIABLES
  slot,       \* the buffer
  head,       \* head_offset
  tail,       \* tail_offset
  size,       \* cur_size
  headMutex,  \* owner of head_mutex, or Free
  tailMutex,  \* owner of tail_mutex, or Free
  sizeMutex,  \* Free, or the thread cancelled while it owned size_mutex
  pc,         \* the next step of each thread
  buf,        \* the data buffer of a pop
  call,       \* the function a thread is in, with its arguments, or NoCall
  result      \* what its last call returned, or Pending

offsets == <<slot, head, tail, size>>
mutexes == <<headMutex, tailMutex, sizeMutex>>
caller  == <<call, result>>
vars    == <<offsets, mutexes, pc, buf, caller>>

PushSteps == {"lock_tail", "push_size", "full_wait", "write", "push_count"}
PopSteps  == {"lock_head", "pop_size", "empty_wait", "read", "pop_count"}
Steps     == PushSteps \cup PopSteps \cup {"idle", "cancelled"}

Pending == "pending"
Done    == "0"
Failed  == "-1"
NoCall  == [op |-> "none"]
Pushes  == [op : {"push"}, elem : Elems, wait : BOOLEAN]
Pops    == [op : {"pop"}, room : Rooms, wait : BOOLEAN]

queue_init ==
  /\ slot = [i \in 0..MaxSize - 1 |-> None]
  /\ head = 0 /\ tail = 0 /\ size = 0
  /\ headMutex = Free /\ tailMutex = Free /\ sizeMutex = Free

Init ==
  /\ queue_init
  /\ pc = [t \in Threads |-> "idle"]
  /\ buf = [t \in Threads |-> None]
  /\ call = [t \in Threads |-> NoCall]
  /\ result = [t \in Threads |-> Failed]

At(t, s) == pc[t] = s
Goto(t, s) == pc' = [pc EXCEPT ![t] = s]
Finish(t, value) ==
  /\ call' = [call EXCEPT ![t] = NoCall]
  /\ buf' = [buf EXCEPT ![t] = None]
  /\ result' = [result EXCEPT ![t] = value]
Return(t, value) == Goto(t, "idle") /\ Finish(t, value)
Continue(t, s) == Goto(t, s) /\ UNCHANGED <<buf, caller>>

\* pthread_cond_broadcast: the threads that wait at step `from` go on at step `to`,
\* where they need size_mutex again.  t itself goes to step s.
Broadcast(t, s, from, to) ==
  pc' = [u \in Threads |-> IF u = t THEN s ELSE IF pc[u] = from THEN to ELSE pc[u]]

-----------------------------------------------------------------------------
(* queue_push and queue_try_push *)

\* The parameters are checked before any lock is taken.
Fits(c) == SizeOf[c.elem] \in 1..DataMaxSize

queue_push(t, c) ==
  /\ At(t, "idle")
  /\ call' = [call EXCEPT ![t] = c]
  /\ result' = [result EXCEPT ![t] = Pending]
  /\ Goto(t, "lock_tail")
  /\ UNCHANGED <<offsets, mutexes, buf>>

push_lock_tail(t) ==
  /\ At(t, "lock_tail")
  /\ \/ ~Fits(call[t]) /\ Return(t, Failed) /\ UNCHANGED tailMutex
     \/ Fits(call[t]) /\ tailMutex = Free /\ tailMutex' = t /\ Continue(t, "push_size")
  /\ UNCHANGED <<offsets, headMutex, sizeMutex>>

\* Mutant: the loop condition lets one element too many in.
push_check_size_off_by_one(t) ==
  /\ At(t, "push_size") /\ sizeMutex = Free
  /\ \/ size <= MaxSize /\ Continue(t, "write") /\ UNCHANGED tailMutex
     \/ size > MaxSize /\ call[t].wait /\ Continue(t, "full_wait") /\ UNCHANGED tailMutex
     \/ size > MaxSize /\ ~call[t].wait /\ tailMutex' = Free /\ Return(t, Failed)
  /\ UNCHANGED <<offsets, headMutex, sizeMutex>>

\* Mutant: the error path of queue_try_push does not unlock tail_mutex.
push_check_size_keeping_lock(t) ==
  /\ At(t, "push_size") /\ sizeMutex = Free
  /\ \/ size # MaxSize /\ Continue(t, "write")
     \/ size = MaxSize /\ call[t].wait /\ Continue(t, "full_wait")
     \/ size = MaxSize /\ ~call[t].wait /\ Return(t, Failed)
  /\ UNCHANGED <<offsets, mutexes>>

\* while (cur_size == max_size), evaluated again after every wake-up.
push_check_size(t) ==
  /\ At(t, "push_size") /\ sizeMutex = Free
  /\ \/ size # MaxSize /\ Continue(t, "write") /\ UNCHANGED tailMutex
     \/ size = MaxSize /\ call[t].wait /\ Continue(t, "full_wait") /\ UNCHANGED tailMutex
     \/ size = MaxSize /\ ~call[t].wait /\ tailMutex' = Free /\ Return(t, Failed)
  /\ UNCHANGED <<offsets, headMutex, sizeMutex>>

\* The end of the buffer is its beginning.
Wrap(i) == IF i >= MaxSize THEN i - MaxSize ELSE i

\* Mutant: tail_offset moves on past the end of the buffer.
push_write_unwrapped(t) ==
  /\ At(t, "write")
  /\ slot' = [i \in DOMAIN slot |-> IF i = tail THEN call[t].elem ELSE slot[i]]
  /\ tail' = tail + 1
  /\ Goto(t, "push_count")
  /\ UNCHANGED <<head, size, mutexes, buf, caller>>

push_write(t) ==
  /\ At(t, "write")
  /\ slot' = [slot EXCEPT ![Wrap(tail)] = call[t].elem]
  /\ tail' = Wrap(tail) + 1
  /\ Goto(t, "push_count")
  /\ UNCHANGED <<head, size, mutexes, buf, caller>>

push_count(t) ==
  /\ At(t, "push_count") /\ sizeMutex = Free
  /\ size' = size + 1
  /\ \/ size = 0 /\ Broadcast(t, "idle", "empty_wait", "pop_size")
     \/ size # 0 /\ Goto(t, "idle")
  /\ tailMutex' = Free
  /\ Finish(t, Done)
  /\ UNCHANGED <<slot, head, tail, headMutex, sizeMutex>>

-----------------------------------------------------------------------------
(* queue_pop and queue_try_pop *)

queue_pop(t, c) ==
  /\ At(t, "idle")
  /\ call' = [call EXCEPT ![t] = c]
  /\ result' = [result EXCEPT ![t] = Pending]
  /\ Goto(t, "lock_head")
  /\ UNCHANGED <<offsets, mutexes, buf>>

pop_lock_head(t) ==
  /\ At(t, "lock_head")
  /\ headMutex = Free /\ headMutex' = t
  /\ Goto(t, "pop_size")
  /\ UNCHANGED <<offsets, tailMutex, sizeMutex, buf, caller>>

pop_check_size(t) ==
  /\ At(t, "pop_size") /\ sizeMutex = Free
  /\ \/ size # 0 /\ Continue(t, "read") /\ UNCHANGED headMutex
     \/ size = 0 /\ call[t].wait /\ Continue(t, "empty_wait") /\ UNCHANGED headMutex
     \/ size = 0 /\ ~call[t].wait /\ headMutex' = Free /\ Return(t, Failed)
  /\ UNCHANGED <<offsets, tailMutex, sizeMutex>>

\* Mutant: the error path does not unlock head_mutex.
pop_read_keeping_lock(t) ==
  /\ At(t, "read")
  /\ \/ SizeOf[slot[head]] > call[t].room /\ Return(t, Failed) /\ UNCHANGED head
     \/ /\ SizeOf[slot[head]] <= call[t].room
        /\ buf' = [buf EXCEPT ![t] = slot[head]]
        /\ head' = Wrap(head + 1)
        /\ Goto(t, "pop_count") /\ UNCHANGED caller
  /\ UNCHANGED <<slot, tail, size, mutexes>>

\* An element that does not fit the caller's buffer stays at the head.
pop_read(t) ==
  /\ At(t, "read")
  /\ \/ /\ SizeOf[slot[head]] > call[t].room
        /\ headMutex' = Free /\ Return(t, Failed) /\ UNCHANGED head
     \/ /\ SizeOf[slot[head]] <= call[t].room
        /\ buf' = [buf EXCEPT ![t] = slot[head]]
        /\ head' = Wrap(head + 1)
        /\ Goto(t, "pop_count") /\ UNCHANGED <<headMutex, caller>>
  /\ UNCHANGED <<slot, tail, size, tailMutex, sizeMutex>>

\* Mutant: fullness_cond is signalled when the queue becomes empty.
pop_count_signal_empty(t) ==
  /\ At(t, "pop_count") /\ sizeMutex = Free
  /\ size' = size - 1
  /\ \/ size = 1 /\ Broadcast(t, "idle", "full_wait", "push_size")
     \/ size # 1 /\ Goto(t, "idle")
  /\ headMutex' = Free
  /\ Finish(t, buf[t])
  /\ UNCHANGED <<slot, head, tail, tailMutex, sizeMutex>>

pop_count(t) ==
  /\ At(t, "pop_count") /\ sizeMutex = Free
  /\ size' = size - 1
  /\ \/ size = MaxSize /\ Broadcast(t, "idle", "full_wait", "push_size")
     \/ size # MaxSize /\ Goto(t, "idle")
  /\ headMutex' = Free
  /\ Finish(t, buf[t])
  /\ UNCHANGED <<slot, head, tail, tailMutex, sizeMutex>>

-----------------------------------------------------------------------------
\* Mutant: the wait for room is under an if, not a while.
spurious_wakeup_unchecked(t) ==
  /\ \/ At(t, "full_wait") /\ Goto(t, "write")
     \/ At(t, "empty_wait") /\ Goto(t, "pop_size")
  /\ UNCHANGED <<offsets, mutexes, buf, caller>>

\* pthread_cond_wait may return without a broadcast.
spurious_wakeup(t) ==
  /\ \/ At(t, "full_wait") /\ Goto(t, "push_size")
     \/ At(t, "empty_wait") /\ Goto(t, "pop_size")
  /\ UNCHANGED <<offsets, mutexes, buf, caller>>

\* pthread_cond_wait is a cancellation point: it takes size_mutex back and the
\* thread ends, with no clean-up handler to release what it owns.
cancel(t) ==
  /\ t \in Cancellable
  /\ pc[t] \in {"full_wait", "empty_wait"} /\ sizeMutex = Free
  /\ Goto(t, "cancelled")
  /\ sizeMutex' = t
  /\ UNCHANGED <<offsets, headMutex, tailMutex, buf, caller>>

push(t) == push_lock_tail(t) \/ push_check_size(t) \/ push_write(t) \/ push_count(t)
pop(t)  == pop_lock_head(t) \/ pop_check_size(t) \/ pop_read(t) \/ pop_count(t)

Next ==
  \E t \in Threads :
    \/ \E c \in Pushes : queue_push(t, c)
    \/ \E c \in Pops : queue_pop(t, c)
    \/ push(t)
    \/ pop(t)
    \/ spurious_wakeup(t)
    \/ cancel(t)

Spec == Init /\ [][Next]_vars

\* The scheduler runs every thread that can run.  Nothing is assumed of the order
\* in which a mutex is granted, and no caller has to call.
Fairness == \A t \in Threads : WF_vars(push(t)) /\ WF_vars(pop(t))
FairSpec == Spec /\ Fairness

-----------------------------------------------------------------------------
(* Properties *)

OwnsTail(t) == pc[t] \in PushSteps \ {"lock_tail"}
OwnsHead(t) == pc[t] \in PopSteps \ {"lock_head"}

TypeOK ==
  /\ slot \in [0..MaxSize - 1 -> Elems \cup {None}]
  /\ head \in 0..MaxSize - 1
  /\ tail \in 0..MaxSize
  /\ size \in 0..MaxSize
  /\ headMutex \in Threads \cup {Free}
  /\ tailMutex \in Threads \cup {Free}
  /\ sizeMutex \in Threads \cup {Free}
  /\ pc \in [Threads -> Steps]
  /\ buf \in [Threads -> Elems \cup {None}]
  /\ call \in [Threads -> Pushes \cup Pops \cup {NoCall}]
  /\ result \in [Threads -> Elems \cup {Pending, Done, Failed}]
  /\ \A t \in Threads : pc[t] \in PushSteps => call[t] \in Pushes
  /\ \A t \in Threads : pc[t] \in PopSteps => call[t] \in Pops

\* A producer never writes the slot a consumer reads: tail_mutex and head_mutex are
\* different mutexes, so only cur_size keeps the two memcpy calls apart.
NoSlotRace ==
  \A p, c \in Threads : At(p, "write") /\ At(c, "read") => Wrap(tail) # head

\* No wake-up is lost, although pthread_cond_broadcast is called only on the change
\* from empty and the change from full: a thread sleeps on fullness_cond only while
\* the queue is full and on emptiness_cond only while it is empty.
NoLostWakeup ==
  \A t \in Threads :
    /\ At(t, "full_wait") => size = MaxSize
    /\ At(t, "empty_wait") => size = 0

InCall(op) == \E t \in Threads : call[t].op = op

\* The mutex that the next step of t locks is free, and nobody has to wake t.
Runs(t) ==
  \/ At(t, "lock_tail") /\ (~Fits(call[t]) \/ tailMutex = Free)
  \/ At(t, "lock_head") /\ headMutex = Free
  \/ pc[t] \in {"push_size", "push_count", "pop_size", "pop_count"} /\ sizeMutex = Free
  \/ pc[t] \in {"write", "read"}

\* Calls stand still only on a full queue that nobody pops from and on an empty one that
\* nobody pushes on, although a waiting call keeps the mutex of its end and calls of both
\* ends need size_mutex: whoever a mutex is waited for goes on, unless a thread was
\* cancelled.
NoDeadlock ==
  (\E t \in Threads : pc[t] # "idle") /\ sizeMutex = Free =>
    \/ \E t \in Threads : Runs(t)
    \/ size = MaxSize /\ ~InCall("pop")
    \/ size = 0 /\ ~InCall("push")

\* Producers and consumers never wait for each other for good: while some thread is
\* in a push and some thread is in a pop, calls go on returning, unless a thread was
\* cancelled.
SomeCallReturns == \E t \in Threads : result[t] = Pending /\ result'[t] # Pending
CallsComplete ==
  <>[](InCall("push") /\ InCall("pop") /\ sizeMutex = Free) => []<><<SomeCallReturns>>_vars

\* The elements the queue holds, the front first.  A consumer between its memcpy
\* and its cur_size-- has moved head_offset already.
Front ==
  IF \E t \in Threads : At(t, "pop_count")
    THEN IF head = 0 THEN MaxSize - 1 ELSE head - 1
    ELSE head
Contents == [i \in 1..size |-> slot[Wrap(Front + i - 1)]]

Fifo == INSTANCE BoundedFifo WITH q <- Contents

\* Every history of calls is one of a FIFO queue bounded by max_size, each call
\* taking effect between its invocation and its return.
Linearizable == Fifo!Spec

\* "If the queue is full, returns immediatelly with error status", "If the queue is
\* empty, return immediatelly with a error" (queue.h): a try function never stands
\* behind a thread that waits for the queue to change.
TryNeverWaits ==
  \A t, u \in Threads :
    /\ At(t, "lock_tail") /\ ~call[t].wait /\ Fits(call[t]) /\ tailMutex = u => ~At(u, "full_wait")
    /\ At(t, "lock_head") /\ ~call[t].wait /\ headMutex = u => ~At(u, "empty_wait")

\* "safe to use this implementation in the code which supports deffered thread
\* cancellation" (queue.h): a cancelled thread leaves no mutex locked.
CancelSafe ==
  \A t \in Threads : At(t, "cancelled") => t \notin {headMutex, tailMutex, sizeMutex}
=============================================================================
