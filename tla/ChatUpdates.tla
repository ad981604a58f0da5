----------------------------- MODULE ChatUpdates -----------------------------
(***************************************************************************)
(* What the specifications of a chat's updates have in common: updates of  *)
(* one chat are handled by workers, each at a phase of its own; the list   *)
(* of what went wrong, history, says which promises still stand.  Sessions *)
(* and PlanForm extend it, and have their steps on names of their own, so  *)
(* that one module can prove about both.                                   *)
(***************************************************************************)
EXTENDS Integers, Sequences, FiniteSets

CONSTANTS
    Workers,      \* bound: updates handled at the same time
    Troubles,     \* what may go wrong
    MaxTroubles,  \* bound: how often
    NULL

VARIABLES
    task,         \* the update each worker handles
    troubles      \* what went wrong, in order

\* A worker with an update, which is at the phase, and goes on to another.
At(w, phase) == task[w] # NULL /\ task[w].phase = phase
To(w, phase) == task' = [task EXCEPT ![w].phase = phase]

\* A step in which something goes wrong, and one in which nothing does.
Occurs(k) == /\ k \in Troubles /\ Len(troubles) < MaxTroubles
             /\ troubles' = Append(troubles, k)
Quiet == UNCHANGED troubles
Met(kinds) == \E i \in 1 .. Len(troubles) : troubles[i] \in kinds
=============================================================================
