----------------------------- MODULE BlockPool -----------------------------
(***************************************************************************)
(* What a memory pool promises its users: a block is free or held by one   *)
(* user, an allocation hands out a free one, a release takes one back.     *)
(* AudioReplay uses the pool of the audio device in this form.             *)
(***************************************************************************)
CONSTANT Blocks

VARIABLES free, held

Init == free = Blocks /\ held = {}

Alloc(b) == b \in free /\ free' = free \ {b} /\ held' = held \cup {b}

Release(b) == b \in held /\ free' = free \cup {b} /\ held' = held \ {b}

Next == \E b \in Blocks : Alloc(b) \/ Release(b)

Spec == Init /\ [][Next]_<<free, held>>
=============================================================================
