---------------------------- MODULE BoundedFifo ----------------------------
(***************************************************************************)
(* What Core/Parallel/Types/ConcurrentQueue.h promises to the threads that *)
(* share it: a first-in first-out queue of at most Capacity elements.  A   *)
(* thread offers an element and later either has it appended exactly once  *)
(* or is told that it was not, and a thread that takes an element takes    *)
(* the oldest one.  A non-blocking Push may be refused at any time; how    *)
(* often the implementation refuses is the subject of the properties of    *)
(* ConcurrentQueue itself.                                                 *)
(***************************************************************************)
EXTENDS Naturals, Sequences

CONSTANTS
  Producers,   (* threads that call Push                                   *)
  Consumers,   (* threads that call Pop                                    *)
  Values,      (* elements                                                 *)
  Capacity,    (* MaxCapacity                                              *)
  NoValue      (* no element                                               *)

VARIABLES
  items,       (* the elements in the queue, oldest first                  *)
  offer,       (* the element each producer has on offer, or NoValue       *)
  got          (* the element each consumer took last, or NoValue          *)

fifoVars == <<items, offer, got>>

FifoInit ==
  /\ items = << >>
  /\ offer = [t \in Producers |-> NoValue]
  /\ got = [t \in Consumers |-> NoValue]

Offer(t, v) ==
  /\ offer[t] = NoValue
  /\ offer' = [offer EXCEPT ![t] = v]
  /\ UNCHANGED <<items, got>>

Insert(t) ==
  /\ offer[t] # NoValue
  /\ Len(items) < Capacity
  /\ items' = Append(items, offer[t])
  /\ offer' = [offer EXCEPT ![t] = NoValue]
  /\ UNCHANGED got

Refuse(t) ==
  /\ offer[t] # NoValue
  /\ offer' = [offer EXCEPT ![t] = NoValue]
  /\ UNCHANGED <<items, got>>

Take(t) ==
  /\ items # << >>
  /\ got' = [got EXCEPT ![t] = Head(items)]
  /\ items' = Tail(items)
  /\ UNCHANGED offer

FifoNext ==
  \/ \E t \in Producers : \/ \E v \in Values : Offer(t, v)
                          \/ Insert(t)
                          \/ Refuse(t)
  \/ \E t \in Consumers : Take(t)

FifoSpec == FifoInit /\ [][FifoNext]_fifoVars
============================================================================
