------------------------------ MODULE RingQueue ------------------------------
(***************************************************************************)
(* The circular array that both bounded queues of Project5 are built from: *)
(* buffer[BUFFER_SIZE + 1] in producerConsumer/buffer.c and                *)
(* workQueue[QUEUE_SIZE + 1] in threadPool/threadpool.c.  One slot is kept *)
(* unused: the queue is empty when front = rear, and full when the slot    *)
(* after rear is front.  Elements lie in the slots after front, up to and  *)
(* including rear.                                                         *)
(***************************************************************************)
EXTENDS Integers

CONSTANT Size      \* BUFFER_SIZE or QUEUE_SIZE: one less than the slots

Slots == 0 .. Size

\* The slot after i: (i + 1) % (SIZE + 1).
Succ(i) == (i + 1) % (Size + 1)

IsFull(front, rear) == Succ(rear) = front

IsEmpty(front, rear) == rear = front

(***************************************************************************)
(* How many elements a ring with these two indices holds, and which ones,  *)
(* in the order they were put there.                                       *)
(***************************************************************************)
Occupancy(front, rear) ==
  IF front <= rear THEN rear - front ELSE rear - front + Size + 1

Contents(slots, front, rear) ==
  [k \in 1 .. Occupancy(front, rear) |-> slots[(front + k) % (Size + 1)]]

=============================================================================
