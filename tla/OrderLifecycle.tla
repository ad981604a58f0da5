--------------------------- MODULE OrderLifecycle ---------------------------
(***************************************************************************)
(* What the service promises about one order, whatever process touches it: *)
(* it waits for an executor, is held by exactly one, may go back to wait,  *)
(* is done by its holder (who alone may take it up again) and, once        *)
(* closed, never comes back.  Orders implements this specification.        *)
(***************************************************************************)
CONSTANTS OrderIds, Executors, NULL

VARIABLES phase,    \* where each order is
          holder    \* who holds it, who finished it, or who held it when it closed

vars == <<phase, holder>>

Init ==
    /\ phase = [o \in OrderIds |-> "absent"]
    /\ holder = [o \in OrderIds |-> NULL]

Submit(o) ==
    /\ phase[o] = "absent"
    /\ phase' = [phase EXCEPT ![o] = "waiting"]
    /\ UNCHANGED holder

Take(o, e) ==
    /\ phase[o] = "waiting"
    /\ phase' = [phase EXCEPT ![o] = "held"]
    /\ holder' = [holder EXCEPT ![o] = e]

PutBack(o) ==
    /\ phase[o] = "held"
    /\ phase' = [phase EXCEPT ![o] = "waiting"]
    /\ holder' = [holder EXCEPT ![o] = NULL]

\* Finish and Resume keep the holder: no one else may finish or take up again.
Finish(o) ==
    /\ phase[o] = "held"
    /\ phase' = [phase EXCEPT ![o] = "done"]
    /\ UNCHANGED holder

Resume(o) ==
    /\ phase[o] = "done"
    /\ phase' = [phase EXCEPT ![o] = "held"]
    /\ UNCHANGED holder

\* Cancellation closes one order, the expiry job any number of them at once.
Close(S) ==
    /\ \A o \in S : phase[o] # "absent"
    /\ phase' = [o \in OrderIds |-> IF o \in S THEN "closed" ELSE phase[o]]
    /\ UNCHANGED holder

Next ==
    \/ \E o \in OrderIds : Submit(o) \/ PutBack(o) \/ Finish(o) \/ Resume(o)
    \/ \E o \in OrderIds, e \in Executors : Take(o, e)
    \/ \E S \in SUBSET OrderIds : Close(S)

Spec == Init /\ [][Next]_vars
=============================================================================
