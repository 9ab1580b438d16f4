----------------------------- MODULE DelayQueue -----------------------------
(***************************************************************************)
(* What the heap of the delayed calls promises: a set of calls, of which   *)
(* one of the earliest is taken at a time.                                 *)
(***************************************************************************)
EXTENDS Integers

VARIABLE held

Init == held = {}

Insert == held \subseteq held'

Take(call) ==
    /\ \A other \in held : ~(other.target < call.target)
    /\ held' = held \ {call}

Next == Insert \/ \E call \in held : Take(call)

Spec == Init /\ [][Next]_held
=============================================================================
