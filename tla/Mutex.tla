------------------------------- MODULE Mutex -------------------------------
(***************************************************************************)
(* What the lock and the lease of a project are for: at any time at most   *)
(* one process is inside, and it gets out before another one gets in.  A   *)
(* process that dies inside counts as out.                                 *)
(***************************************************************************)
CONSTANTS Process, Nobody

VARIABLE holder

Init == holder = Nobody

Acquire(p) == holder = Nobody /\ holder' = p

Release == holder # Nobody /\ holder' = Nobody

Next == (\E p \in Process : Acquire(p)) \/ Release

Spec == Init /\ [][Next]_holder
=============================================================================
