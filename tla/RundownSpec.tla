---------------------------- MODULE RundownSpec ----------------------------
(***************************************************************************)
(* What rundown protection promises its clients, without saying how: while *)
(* the protected structure is open, references may be taken; once it is    *)
(* being run down no reference is granted any more; and it is closed only  *)
(* when every reference has been given back.                               *)
(***************************************************************************)
CONSTANT Refs            \* the references that clients may hold

VARIABLES phase,         \* "open", "closing" (waiting for holders), "closed"
          held           \* the references granted and not yet given back

vars == <<phase, held>>

Init == phase = "open" /\ held = {}

Acquire == /\ phase = "open"
           /\ \E S \in SUBSET (Refs \ held) : held' = held \cup S
           /\ UNCHANGED phase

Release == /\ \E S \in SUBSET held : held' = held \ S
           /\ UNCHANGED phase

(* The rundown begins. With nothing held it is over at once. *)
Close == /\ phase = "open"
         /\ phase' = IF held = {} THEN "closed" ELSE "closing"
         /\ UNCHANGED held

(* The waiter returns. *)
Drain == /\ phase = "closing" /\ held = {}
         /\ phase' = "closed"
         /\ UNCHANGED held

(* ExReInitializeRundownProtection: the structure is put back into use. *)
Reopen == phase = "closed" /\ phase' = "open" /\ UNCHANGED held

Next == Acquire \/ Release \/ Close \/ Drain \/ Reopen

Spec == Init /\ [][Next]_vars
=============================================================================
