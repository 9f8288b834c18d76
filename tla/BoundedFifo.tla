----------------------------- MODULE BoundedFifo -----------------------------
(***************************************************************************)
(* What src/inc/queue.h promises to the callers of a queue: each call      *)
(* takes effect at one instant between its invocation and its return, on a *)
(* FIFO queue of at most MaxSize elements.  The try functions fail when    *)
(* the queue is full or empty, the others wait.                            *)
(***************************************************************************)
EXTENDS Naturals, Sequences

CONSTANTS
  Threads,      \* threads of any process that call queue functions
  Elems,        \* what callers push
  SizeOf,       \* the size of each element in bytes
  Rooms,        \* the sizes of the buffers that callers pop into
  MaxSize,      \* queue_max_size
  DataMaxSize   \* data_max_size

VARIABLES
  q,       \* the elements in the queue, the front first
  call,    \* the call each thread is in, or NoCall
  result   \* what the last call of each thread returned, or Pending

Pending == "pending"
Done    == "0"       \* a push returned 0
Failed  == "-1"

NoCall == [op |-> "none"]
Pushes == [op : {"push"}, elem : Elems, wait : BOOLEAN]
Pops   == [op : {"pop"}, room : Rooms, wait : BOOLEAN]
Calls  == Pushes \cup Pops

Init ==
  /\ q = <<>>
  /\ call = [t \in Threads |-> NoCall]
  /\ result = [t \in Threads |-> Failed]

Invoke(t, c) ==
  /\ result[t] # Pending
  /\ call' = [call EXCEPT ![t] = c]
  /\ result' = [result EXCEPT ![t] = Pending]
  /\ UNCHANGED q

Returns(t, value) ==
  /\ result[t] = Pending
  /\ result' = [result EXCEPT ![t] = value]
  /\ call' = [call EXCEPT ![t] = NoCall]

\* "incorrect input parameters provided": the only reason for which a waiting push fails.
Fits(c) == SizeOf[c.elem] \in 1..DataMaxSize

Push(t) ==
  LET c == call[t] IN
  /\ c.op = "push"
  /\ \/ Fits(c) /\ Len(q) < MaxSize /\ q' = Append(q, c.elem) /\ Returns(t, Done)
     \/ Fits(c) /\ Len(q) = MaxSize /\ ~c.wait /\ UNCHANGED q /\ Returns(t, Failed)
     \/ ~Fits(c) /\ UNCHANGED q /\ Returns(t, Failed)

Pop(t) ==
  LET c == call[t] IN
  /\ c.op = "pop"
  /\ \/ /\ q # <<>> /\ SizeOf[Head(q)] <= c.room
        /\ q' = Tail(q) /\ Returns(t, Head(q))
     \/ q # <<>> /\ SizeOf[Head(q)] > c.room /\ UNCHANGED q /\ Returns(t, Failed)
     \/ q = <<>> /\ ~c.wait /\ UNCHANGED q /\ Returns(t, Failed)

Next ==
  \E t \in Threads :
    \/ \E c \in Calls : Invoke(t, c)
    \/ Push(t)
    \/ Pop(t)

Spec == Init /\ [][Next]_<<q, call, result>>
=============================================================================
