---------------------------- MODULE BoundedBuffer ----------------------------
(***************************************************************************)
(* What the bounded queues of Project5 promise to the threads that share   *)
(* them: a first-in first-out channel of at most Capacity items in which   *)
(* every item a sender puts in comes out once, in order, to one receiver.  *)
(*                                                                         *)
(* No semaphore, lock or index appears here.  hand[t] is the item thread t *)
(* is responsible for: a sender's from the moment it has one to send until *)
(* it is in the queue, a receiver's from the moment it is taken until the  *)
(* receiver is through with it.                                            *)
(***************************************************************************)
EXTENDS Naturals, Sequences

CONSTANTS Capacity, Items, Blank, Senders, Receivers

VARIABLES queue, hand

bbVars == <<queue, hand>>

Init ==
  /\ queue = << >>
  /\ hand = [t \in Senders \cup Receivers |-> Blank]

\* A sender without an item comes by a new one.
Produce(t) ==
  /\ hand[t] = Blank
  /\ \E x \in Items : hand' = [hand EXCEPT ![t] = x]
  /\ UNCHANGED queue

\* A sender's item moves to the tail of the queue, and leaves its hand.
Put(t) ==
  /\ hand[t] # Blank
  /\ Len(queue) < Capacity
  /\ queue' = Append(queue, hand[t])
  /\ hand' = [hand EXCEPT ![t] = Blank]

\* The oldest item moves to the hand of a receiver that has none.
Take(t) ==
  /\ hand[t] = Blank
  /\ queue # << >>
  /\ queue' = Tail(queue)
  /\ hand' = [hand EXCEPT ![t] = Head(queue)]

\* A receiver is through with its item, or a thread is cancelled holding one.
LetGo(t) ==
  /\ hand[t] # Blank
  /\ hand' = [hand EXCEPT ![t] = Blank]
  /\ UNCHANGED queue

Next ==
  \/ \E t \in Senders : Produce(t) \/ Put(t) \/ LetGo(t)
  \/ \E t \in Receivers : Take(t) \/ LetGo(t)

Spec == Init /\ [][Next]_bbVars

=============================================================================
