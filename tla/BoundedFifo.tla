---------------------------- MODULE BoundedFifo ----------------------------
(***************************************************************************)
(* What a data queue promises its users: a first-in first-out buffer of at *)
(* most Size items.  Each item put is taken once, by one thread, in order. *)
(***************************************************************************)
EXTENDS Naturals, Sequences

CONSTANTS Threads, Items, Size, NoItem

VARIABLES
  buffer,      \* the items in the queue, oldest first
  got          \* the item each thread took last

Init == buffer = <<>> /\ got = [t \in Threads |-> NoItem]

Put(i) ==
  /\ Len(buffer) < Size
  /\ buffer' = Append(buffer, i)
  /\ UNCHANGED got

Take(t) ==
  /\ buffer # <<>>
  /\ got' = [got EXCEPT ![t] = Head(buffer)]
  /\ buffer' = Tail(buffer)

Clear == buffer' = <<>> /\ UNCHANGED got

Next == Clear \/ (\E i \in Items : Put(i)) \/ (\E t \in Threads : Take(t))

Spec == Init /\ [][Next]_<<buffer, got>>
=============================================================================
