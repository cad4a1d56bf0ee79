------------------------------ MODULE SuspList ------------------------------
(***************************************************************************)
(* A list of suspended threads, as ipc.c keeps one in each object: what a  *)
(* timeout and a change of priority do to it.                              *)
(***************************************************************************)
EXTENDS Sequences, SequencesExt

\* A thread's place in the list it is in.
Position(list, t) == CHOOSE i \in 1 .. Len(list) : list[i] = t

\* rt_list_remove: wherever it stands, the others keep their order.
Removed(list, t) == RemoveAt(list, Position(list, t))
=============================================================================
