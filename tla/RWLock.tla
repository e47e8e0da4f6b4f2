------------------------------- MODULE RWLock -------------------------------
(***************************************************************************)
(* What a lock with shared and exclusive modes promises, without saying    *)
(* how: an exclusive holder is alone, shared holders are with shared       *)
(* holders only, and a shared holder may become the exclusive one when it  *)
(* is alone.                                                               *)
(***************************************************************************)
CONSTANT Threads

VARIABLE held            \* how each thread holds the lock

Mode == {"none", "shared", "exclusive"}

Init == held = [t \in Threads |-> "none"]

Alone(t) == \A u \in Threads \ {t} : held[u] = "none"

AcquireExclusive(t) == /\ held[t] = "none" /\ Alone(t)
                       /\ held' = [held EXCEPT ![t] = "exclusive"]

AcquireShared(t) == /\ held[t] = "none"
                    /\ \A u \in Threads : held[u] # "exclusive"
                    /\ held' = [held EXCEPT ![t] = "shared"]

Convert(t) == /\ held[t] = "shared" /\ Alone(t)
              /\ held' = [held EXCEPT ![t] = "exclusive"]

Release(t) == /\ held[t] # "none"
              /\ held' = [held EXCEPT ![t] = "none"]

Next == \E t \in Threads : \/ AcquireExclusive(t) \/ AcquireShared(t)
                           \/ Convert(t) \/ Release(t)

Spec == Init /\ [][Next]_held
=============================================================================
