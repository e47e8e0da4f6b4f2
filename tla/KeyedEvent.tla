----------------------------- MODULE KeyedEvent -----------------------------
(***************************************************************************)
(* Keyed events (ntoskrnl/ex/keyedevt.c): a wait and a release of the same *)
(* key meet, whichever comes first; the one that comes second finds the    *)
(* other in a list and wakes it. Both may have a timeout.                  *)
(*                                                                         *)
(* The two lists are those of one hash bucket, used under its push lock by *)
(* all keys that fall into it; a section under the lock is one step.       *)
(***************************************************************************)
EXTENDS Naturals, Sequences

CONSTANTS Threads, Keys, NULL

VARIABLES WaitList, ReleaseList,   \* the threads in them, oldest first
          KeyedWaitValue,          \* per thread, the key it is listed for
          KeyedWaitSemaphore,      \* per thread, count of its semaphore
          Timeout,                 \* per thread, whether its wait may end by itself
          kpc, Status              \* where its call is, and what it returned

lists == <<WaitList, ReleaseList>>
vars == <<lists, KeyedWaitValue, KeyedWaitSemaphore, Timeout, kpc, Status>>

Init == /\ WaitList = <<>> /\ ReleaseList = <<>>
        /\ KeyedWaitValue = [t \in Threads |-> NULL]
        /\ KeyedWaitSemaphore = [t \in Threads |-> 0]
        /\ Timeout = [t \in Threads |-> FALSE]
        /\ kpc = [t \in Threads |-> "out"]
        /\ Status = [t \in Threads |-> NULL]

Returns(t, status) == /\ kpc' = [kpc EXCEPT ![t] = "returned"]
                      /\ Status' = [Status EXCEPT ![t] = status]
                      /\ Timeout' = [Timeout EXCEPT ![t] = FALSE]

(* The oldest thread in a list that is there for a key.                    *)
Listed(list, key) == {i \in DOMAIN list : KeyedWaitValue[list[i]] = key}
Partner(list, key) ==
    list[CHOOSE i \in Listed(list, key) : \A j \in Listed(list, key) : i <= j]

InList(t, list) == \E i \in DOMAIN list : list[i] = t

(* RemoveEntryList, if the thread is still in the list.                    *)
Without(list, t) ==
    LET at == CHOOSE i \in DOMAIN list : list[i] = t IN
    IF InList(t, list) THEN [i \in 1 .. Len(list) - 1 |-> list[IF i < at THEN i ELSE i + 1]]
    ELSE list

(* A partner is found: it is taken off its list and woken.                 *)
Meet(t, key, list) ==
    /\ Listed(list, key) # {}
    /\ KeyedWaitSemaphore' = [KeyedWaitSemaphore EXCEPT ![Partner(list, key)] = @ + 1]
    /\ Returns(t, "STATUS_SUCCESS")
    /\ UNCHANGED KeyedWaitValue

(* Fault: the semaphore keeps the count of an earlier wait.                *)
Enlist_KeepsCount(t, key, list, timeout) ==
    /\ Listed(list, key) = {}
    /\ KeyedWaitValue' = [KeyedWaitValue EXCEPT ![t] = key]
    /\ Timeout' = [Timeout EXCEPT ![t] = timeout]
    /\ kpc' = [kpc EXCEPT ![t] = "wait"]
    /\ UNCHANGED <<KeyedWaitSemaphore, Status>>

(* None is found: the thread goes into its own list.                       *)
Enlist(t, key, list, timeout) ==
    /\ Listed(list, key) = {}
    /\ KeyedWaitValue' = [KeyedWaitValue EXCEPT ![t] = key]
    /\ KeyedWaitSemaphore' = [KeyedWaitSemaphore EXCEPT ![t] = 0]
    /\ Timeout' = [Timeout EXCEPT ![t] = timeout]
    /\ kpc' = [kpc EXCEPT ![t] = "wait"]
    /\ UNCHANGED Status

(* ExpReleaseOrWaitForKeyedEvent up to its wait, as a release and as a     *)
(* wait.                                                                   *)
ExpReleaseKeyedEvent(t, key, timeout) ==
    /\ kpc[t] = "out"
    /\ \/ /\ Meet(t, key, WaitList)
          /\ WaitList' = Without(WaitList, Partner(WaitList, key))
          /\ UNCHANGED ReleaseList
       \/ /\ Enlist(t, key, WaitList, timeout)
          /\ ReleaseList' = Append(ReleaseList, t)
          /\ UNCHANGED WaitList

ExpWaitForKeyedEvent(t, key, timeout) ==
    /\ kpc[t] = "out"
    /\ \/ /\ Meet(t, key, ReleaseList)
          /\ ReleaseList' = Without(ReleaseList, Partner(ReleaseList, key))
          /\ UNCHANGED WaitList
       \/ /\ Enlist(t, key, ReleaseList, timeout)
          /\ WaitList' = Append(WaitList, t)
          /\ UNCHANGED ReleaseList

(* The thread was woken by its partner.                                    *)
WaitSatisfied(t) ==
    /\ kpc[t] = "wait" /\ KeyedWaitSemaphore[t] > 0
    /\ KeyedWaitSemaphore' = [KeyedWaitSemaphore EXCEPT ![t] = @ - 1]
    /\ KeyedWaitValue' = [KeyedWaitValue EXCEPT ![t] = NULL]
    /\ Returns(t, "STATUS_SUCCESS")
    /\ UNCHANGED lists

(* Nobody has come in time; somebody may still come before the thread has  *)
(* the lock again.                                                         *)
WaitTimesOut(t) ==
    /\ kpc[t] = "wait" /\ Timeout[t] /\ KeyedWaitSemaphore[t] = 0
    /\ kpc' = [kpc EXCEPT ![t] = "timedOut"]
    /\ UNCHANGED <<lists, KeyedWaitValue, KeyedWaitSemaphore, Timeout, Status>>

(* Fault: a timed out thread stays in its list.                            *)
Delist_Stays(t) ==
    /\ kpc[t] = "timedOut"
    /\ KeyedWaitValue' = [KeyedWaitValue EXCEPT ![t] = NULL]
    /\ Returns(t, "STATUS_TIMEOUT")
    /\ UNCHANGED <<lists, KeyedWaitSemaphore>>

(* It leaves its list if it is still in one, and has timed out either way. *)
Delist(t) ==
    /\ kpc[t] = "timedOut"
    /\ WaitList' = Without(WaitList, t)
    /\ ReleaseList' = Without(ReleaseList, t)
    /\ KeyedWaitValue' = [KeyedWaitValue EXCEPT ![t] = NULL]
    /\ Returns(t, "STATUS_TIMEOUT")
    /\ UNCHANGED KeyedWaitSemaphore

(* The caller has looked at the status.                                    *)
Consume(t) ==
    /\ kpc[t] = "returned"
    /\ kpc' = [kpc EXCEPT ![t] = "out"]
    /\ Status' = [Status EXCEPT ![t] = NULL]
    /\ UNCHANGED <<lists, KeyedWaitValue, KeyedWaitSemaphore, Timeout>>

KernelStep(t) == WaitSatisfied(t) \/ WaitTimesOut(t) \/ Delist(t)

Next == \E t \in Threads :
            \/ \E key \in Keys, timeout \in BOOLEAN :
                   ExpReleaseKeyedEvent(t, key, timeout) \/ ExpWaitForKeyedEvent(t, key, timeout)
            \/ KernelStep(t) \/ Consume(t)

Spec == Init /\ [][Next]_vars
-----------------------------------------------------------------------------
TypeOK == /\ WaitList \in Seq(Threads) /\ ReleaseList \in Seq(Threads)
          /\ KeyedWaitValue \in [Threads -> Keys \cup {NULL}]
          /\ KeyedWaitSemaphore \in [Threads -> {0, 1}]
          /\ Timeout \in [Threads -> BOOLEAN]
          /\ kpc \in [Threads -> {"out", "wait", "timedOut", "returned"}]
          /\ Status \in [Threads -> {NULL, "STATUS_SUCCESS", "STATUS_TIMEOUT"}]

Distinct(list) == \A i, j \in DOMAIN list : list[i] = list[j] => i = j

(* A wait and a release of one key are never both listed: none of them is  *)
(* left behind by the other. A thread is in one list once, or in none, and *)
(* only while its call is under way; when it has been taken off, exactly   *)
(* then its semaphore counts the wakeup that it has not yet consumed or    *)
(* was too late to see.                                                    *)
Rendezvous ==
    /\ \A i \in DOMAIN WaitList, j \in DOMAIN ReleaseList :
           KeyedWaitValue[WaitList[i]] # KeyedWaitValue[ReleaseList[j]]
    /\ Distinct(WaitList) /\ Distinct(ReleaseList)
    /\ \A t \in Threads :
           LET listed == InList(t, WaitList) \/ InList(t, ReleaseList) IN
           /\ listed => kpc[t] \in {"wait", "timedOut"} /\ KeyedWaitSemaphore[t] = 0
           /\ kpc[t] \in {"wait", "timedOut"} /\ ~listed => KeyedWaitSemaphore[t] = 1
=============================================================================
