---------------------------- MODULE ResourceSpec ----------------------------
(***************************************************************************)
(* What an executive resource promises: a lock with shared and exclusive   *)
(* modes whose exclusive holder may keep it shared, and whose holders may  *)
(* hand it to a name that stands for whoever will release it.              *)
(***************************************************************************)
CONSTANTS Threads, Names

VARIABLE held

Lock == INSTANCE RWLock WITH Threads <- Threads \cup Names, held <- held

Downgrade(t) == /\ held[t] = "exclusive"
                /\ held' = [held EXCEPT ![t] = "shared"]

(* Several threads may hand their shared holds to the same name.           *)
HandOver(t, n) == /\ held[t] # "none" /\ held[n] \in {"none", held[t]}
                  /\ held' = [held EXCEPT ![t] = "none", ![n] = held[t]]

Next == \/ \E t \in Threads : \/ Lock!AcquireExclusive(t) \/ Lock!AcquireShared(t)
                              \/ Downgrade(t)
                              \/ \E n \in Names : HandOver(t, n)
        \/ \E a \in Threads \cup Names : Lock!Release(a)

ResourceSpec == Lock!Init /\ [][Next]_held
=============================================================================
