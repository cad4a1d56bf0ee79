------------------------------ MODULE MCMutex ------------------------------
(* Instances of Mutex for TLC. *)
EXTENDS Mutex

CONSTANTS high, mid, low, idle, outer, inner

FourThreads  == {high, mid, low, idle}
TwoTimed     == {high, mid}
ThreeTimed   == {high, mid, low}
OneMutex     == {outer}
TwoMutexes   == {outer, inner}

Prios == [t \in Threads |-> CASE t = high -> 1 [] t = mid -> 2 [] t = low -> 3 [] OTHER -> 4]
Nesting == [m \in Mutexes |-> IF m = outer THEN 1 ELSE 2]
=============================================================================
