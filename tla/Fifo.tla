--------------------------------- MODULE Fifo ---------------------------------
(***************************************************************************)
(* What a level's linked list promises: a queue per level.  An order joins *)
(* at the back, under the next arrival stamp, and leaves from anywhere;    *)
(* those that stay keep their places.                                      *)
(*                                                                         *)
(* It is the queue the engine's model uses (OrderBook's Rest and Unlink)   *)
(* as a specification of its own; LevelQueue is shown to implement it.     *)
(***************************************************************************)
EXTENDS Naturals, SequencesExt

CONSTANT Queues

VARIABLES
  lists,   \* lists[q]: arrival stamps, front to back
  stamp    \* the next stamp

FifoInit == lists = [q \in Queues |-> <<>>] /\ stamp = 1

Join(q) == lists' = [lists EXCEPT ![q] = Append(@, stamp)] /\ stamp' = stamp + 1

Leave(q) ==
  /\ \E i \in DOMAIN lists[q] : lists' = [lists EXCEPT ![q] = RemoveAt(@, i)]
  /\ UNCHANGED stamp

FifoNext == \E q \in Queues : Join(q) \/ Leave(q)

FifoSpec == FifoInit /\ [][FifoNext]_<<lists, stamp>>
===============================================================================
