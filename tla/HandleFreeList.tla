--------------------------- MODULE HandleFreeList ---------------------------
(***************************************************************************)
(* The free lists of a handle table (ntoskrnl/ex/handle.c). Free entries   *)
(* are chained through NextFreeTableEntry in two lists: handles are        *)
(* allocated from FirstFree, and LastFree is moved to it when it runs out. *)
(* Both are changed by interlocked operations without a lock; the four     *)
(* push locks tell those who free a handle which list to put it on. Each   *)
(* access to shared memory is a step, the push locks do what RWLock says.  *)
(*                                                                         *)
(* A handle is the index of its entry; index 0 of a page of the table is   *)
(* reserved. StrictFIFO is zero in every table: nothing sets it. The       *)
(* levels above the pages only find an entry.                              *)
(***************************************************************************)
EXTENDS Naturals

CONSTANTS Threads,
          LOW_LEVEL_ENTRIES,  \* entries of a page
          MaxPages            \* bound: pages a table grows to

Locks == 0..3
GrantedAccess == LOW_LEVEL_ENTRIES * MaxPages   \* what an entry in use has for a link

VARIABLES FirstFree, LastFree, NextHandleNeedingPool, HandleCount,
          NextFreeTableEntry,
          HandleTableLock,           \* per lock, how each thread has it
          inUse,                     \* the handles that callers have
          pc, OldValue, NewValue,    \* of an allocation
          Handle, Free, i            \* handle being freed and its list; lock waited on

shared == <<FirstFree, LastFree, NextHandleNeedingPool, NextFreeTableEntry, HandleTableLock>>
users == <<inUse, HandleCount>>
locals == <<OldValue, NewValue, Handle, Free, i>>
vars == <<shared, users, pc, locals>>

(* The entries of a page are chained in order, the last one to a given     *)
(* value.                                                                  *)
PageChain(first, last) ==
    [h \in first + 1..first + LOW_LEVEL_ENTRIES - 1 |->
         IF h = first + LOW_LEVEL_ENTRIES - 1 THEN last ELSE h + 1]

(* ExpAllocateHandleTable, of a new table.                                 *)
Init == /\ FirstFree = 1 /\ LastFree = 0
        /\ NextHandleNeedingPool = LOW_LEVEL_ENTRIES
        /\ NextFreeTableEntry = PageChain(0, 0)
        /\ HandleTableLock = [l \in Locks |-> [t \in Threads |-> "none"]]
        /\ inUse = {} /\ HandleCount = 0
        /\ pc = [t \in Threads |-> "idle"]
        /\ OldValue = [t \in Threads |-> 0]
        /\ NewValue = [t \in Threads |-> 0]
        /\ Handle = [t \in Threads |-> 0]
        /\ Free = [t \in Threads |-> "none"]
        /\ i = [t \in Threads |-> 0]

Goto(t, label) == pc' = [pc EXCEPT ![t] = label]

Locked(l) == \E t \in Threads : HandleTableLock[l][t] # "none"

ExAcquirePushLockExclusive(t, l) ==
    ~Locked(l) /\ HandleTableLock' = [HandleTableLock EXCEPT ![l][t] = "exclusive"]

ExAcquirePushLockShared(t, l) ==
    /\ \A u \in Threads : HandleTableLock[l][u] # "exclusive"
    /\ HandleTableLock' = [HandleTableLock EXCEPT ![l][t] = "shared"]

ReleasePushLock(t, l) == HandleTableLock' = [HandleTableLock EXCEPT ![l][t] = "none"]

SetOld(t, value) == OldValue' = [OldValue EXCEPT ![t] = value]
-----------------------------------------------------------------------------
(* ExpAllocateHandleTableEntry: with no free handle in sight the table is  *)
(* locked, and the list looked at again.                                   *)
ReadFirstFree(t) ==
    /\ pc[t] \in {"idle", "read"}
    /\ SetOld(t, FirstFree)
    /\ Goto(t, IF FirstFree = 0 THEN "lockTable" ELSE "share")
    /\ UNCHANGED <<shared, users, NewValue, Handle, Free, i>>

LockTable(t) ==
    /\ pc[t] = "lockTable"
    /\ ExAcquirePushLockExclusive(t, 0)
    /\ Goto(t, "readAgain")
    /\ UNCHANGED <<FirstFree, LastFree, NextHandleNeedingPool, NextFreeTableEntry, users, locals>>

ReadAgain(t) ==
    /\ pc[t] = "readAgain"
    /\ SetOld(t, FirstFree)
    /\ Goto(t, IF FirstFree = 0 THEN "takeLastFree" ELSE "unlockTable")
    /\ UNCHANGED <<shared, users, NewValue, Handle, Free, i>>

(* ExpMoveFreeHandles: LastFree is taken, those who have one of the other  *)
(* locks are waited for, and the list is put in FirstFree.                 *)
TakeLastFree(t) ==
    /\ pc[t] = "takeLastFree"
    /\ SetOld(t, LastFree)
    /\ LastFree' = 0
    /\ i' = [i EXCEPT ![t] = 1]
    /\ Goto(t, IF LastFree = 0 THEN "grow" ELSE "waitOnLock")
    /\ UNCHANGED <<FirstFree, NextHandleNeedingPool, NextFreeTableEntry, HandleTableLock,
                   users, NewValue, Handle, Free>>

NextLock(t) == IF i[t] < 3 THEN i' = [i EXCEPT ![t] = @ + 1] /\ Goto(t, "waitOnLock")
                           ELSE i' = [i EXCEPT ![t] = 0] /\ Goto(t, "install")

(* A lock that is held is acquired and released.                           *)
ExWaitOnPushLock(t) ==
    /\ \/ /\ pc[t] = "waitOnLock" /\ ~Locked(i[t])
          /\ NextLock(t)
          /\ UNCHANGED HandleTableLock
       \/ /\ pc[t] = "waitOnLock" /\ Locked(i[t])
          /\ Goto(t, "acquireLock")
          /\ UNCHANGED <<HandleTableLock, i>>
       \/ /\ pc[t] = "acquireLock"
          /\ ExAcquirePushLockExclusive(t, i[t])
          /\ Goto(t, "releaseLock")
          /\ UNCHANGED i
       \/ /\ pc[t] = "releaseLock"
          /\ ReleasePushLock(t, i[t])
          /\ NextLock(t)
    /\ UNCHANGED <<FirstFree, LastFree, NextHandleNeedingPool, NextFreeTableEntry, users,
                   OldValue, NewValue, Handle, Free>>

Install(t) ==
    /\ pc[t] = "install"
    /\ FirstFree' = IF FirstFree = 0 THEN OldValue[t] ELSE FirstFree
    /\ Goto(t, IF FirstFree = 0 THEN "unlockTable" ELSE "reverse")
    /\ UNCHANGED <<LastFree, NextHandleNeedingPool, NextFreeTableEntry, HandleTableLock, users,
                   locals>>

(* Reversing the list is not implemented: ASSERT(FALSE), and on without    *)
(* the list that was taken.                                                *)
Reverse(t) ==
    /\ pc[t] = "reverse"
    /\ Goto(t, "unlockTable")
    /\ UNCHANGED <<shared, users, locals>>

UnlockTable(t) ==
    /\ pc[t] = "unlockTable"
    /\ ReleasePushLock(t, 0)
    /\ Goto(t, "share")
    /\ UNCHANGED <<FirstFree, LastFree, NextHandleNeedingPool, NextFreeTableEntry, users, locals>>
-----------------------------------------------------------------------------
(* ExpAllocateHandleTableEntrySlow: a new page, if there is memory and the *)
(* table is not full, and its first free handle.                           *)
Grow(t) ==
    /\ pc[t] = "grow"
    /\ \/ /\ Goto(t, "failed")
          /\ UNCHANGED <<NextHandleNeedingPool, NextFreeTableEntry, NewValue>>
       \/ /\ NextHandleNeedingPool < GrantedAccess
          /\ LET new == PageChain(NextHandleNeedingPool, 0) IN
             NextFreeTableEntry' = [h \in DOMAIN NextFreeTableEntry \cup DOMAIN new |->
                                       IF h \in DOMAIN new THEN new[h] ELSE NextFreeTableEntry[h]]
          /\ NewValue' = [NewValue EXCEPT ![t] = NextHandleNeedingPool + 1]
          /\ NextHandleNeedingPool' = NextHandleNeedingPool + LOW_LEVEL_ENTRIES
          /\ Goto(t, "chain")
    /\ i' = [i EXCEPT ![t] = 0]
    /\ UNCHANGED <<FirstFree, LastFree, HandleTableLock, users, OldValue, Handle, Free>>

LastOfPage(t) == NewValue[t] + LOW_LEVEL_ENTRIES - 2

(* Its loop: the handles that came free meanwhile follow the new ones.     *)
ChainPage(t) ==
    /\ pc[t] = "chain"
    /\ SetOld(t, FirstFree)
    /\ NextFreeTableEntry' = [NextFreeTableEntry EXCEPT ![LastOfPage(t)] = FirstFree]
    /\ Goto(t, "publish")
    /\ UNCHANGED <<FirstFree, LastFree, NextHandleNeedingPool, HandleTableLock, users, NewValue,
                   Handle, Free, i>>

PublishPage(t) ==
    /\ pc[t] = "publish"
    /\ IF FirstFree = OldValue[t]
       THEN FirstFree' = NewValue[t] /\ Goto(t, "grown")
       ELSE UNCHANGED FirstFree /\ Goto(t, "chain")
    /\ UNCHANGED <<LastFree, NextHandleNeedingPool, NextFreeTableEntry, HandleTableLock, users,
                   locals>>

UnlockGrown(t) ==
    /\ pc[t] \in {"grown", "failed"}
    /\ ReleasePushLock(t, 0)
    /\ Goto(t, IF pc[t] = "grown" THEN "readGrown" ELSE "readFailed")
    /\ UNCHANGED <<FirstFree, LastFree, NextHandleNeedingPool, NextFreeTableEntry, users, locals>>

(* The allocation fails when nobody else has found a handle either.        *)
ReadGrown(t) ==
    /\ pc[t] \in {"readGrown", "readFailed"}
    /\ SetOld(t, FirstFree)
    /\ Goto(t, IF FirstFree # 0 THEN "share"
               ELSE IF pc[t] = "readGrown" THEN "lockTable" ELSE "idle")
    /\ UNCHANGED <<shared, users, NewValue, Handle, Free, i>>
-----------------------------------------------------------------------------
(* The first free handle is taken under the lock it falls to, shared,      *)
(* unless the list has changed. A handle beyond the table has no entry,    *)
(* and the thread that looks it up stops.                                  *)
Share(t) ==
    /\ pc[t] = "share" /\ OldValue[t] < NextHandleNeedingPool
    /\ ExAcquirePushLockShared(t, OldValue[t] % 4)
    /\ Goto(t, "compare")
    /\ UNCHANGED <<FirstFree, LastFree, NextHandleNeedingPool, NextFreeTableEntry, users, locals>>

Compare(t) ==
    /\ pc[t] = "compare"
    /\ Goto(t, IF FirstFree = OldValue[t] THEN "readLink" ELSE "retry")
    /\ UNCHANGED <<shared, users, locals>>

ReadLink(t) ==
    /\ pc[t] = "readLink"
    /\ NewValue' = [NewValue EXCEPT ![t] = NextFreeTableEntry[OldValue[t]]]
    /\ Goto(t, "pop")
    /\ UNCHANGED <<shared, users, OldValue, Handle, Free, i>>

Pop(t) ==
    /\ pc[t] = "pop"
    /\ IF FirstFree = OldValue[t]
       THEN FirstFree' = NewValue[t] /\ Goto(t, "popped")
       ELSE UNCHANGED FirstFree /\ Goto(t, "retry")
    /\ UNCHANGED <<LastFree, NextHandleNeedingPool, NextFreeTableEntry, HandleTableLock, users,
                   locals>>

Unshare(t) ==
    /\ pc[t] \in {"retry", "popped"}
    /\ ReleasePushLock(t, OldValue[t] % 4)
    /\ Goto(t, IF pc[t] = "popped" THEN "create" ELSE "read")
    /\ UNCHANGED <<FirstFree, LastFree, NextHandleNeedingPool, NextFreeTableEntry, users, locals>>

(* ExCreateHandle writes the entry it was given, its link included.        *)
ExCreateHandle(t) ==
    /\ pc[t] = "create"
    /\ HandleCount' = HandleCount + 1
    /\ NextFreeTableEntry' = [NextFreeTableEntry EXCEPT ![OldValue[t]] = GrantedAccess]
    /\ inUse' = inUse \cup {OldValue[t]}
    /\ OldValue' = [OldValue EXCEPT ![t] = 0]
    /\ NewValue' = [NewValue EXCEPT ![t] = 0]
    /\ Goto(t, "idle")
    /\ UNCHANGED <<FirstFree, LastFree, NextHandleNeedingPool, HandleTableLock, Handle, Free, i>>
-----------------------------------------------------------------------------
(* ExpFreeHandleTableEntry, of a handle that some caller has closed: it    *)
(* goes to FirstFree if the lock it falls to is held.                      *)
ExpFreeHandleTableEntry(t, h) ==
    /\ pc[t] = "idle" /\ h \in inUse
    /\ inUse' = inUse \ {h}
    /\ HandleCount' = HandleCount - 1
    /\ Handle' = [Handle EXCEPT ![t] = h]
    /\ Free' = [Free EXCEPT ![t] = IF Locked(h % 4) THEN "FirstFree" ELSE "LastFree"]
    /\ Goto(t, "link")
    /\ UNCHANGED <<shared, OldValue, NewValue, i>>

Head(t) == IF Free[t] = "FirstFree" THEN FirstFree ELSE LastFree

LinkFree(t) ==
    /\ pc[t] = "link"
    /\ SetOld(t, Head(t))
    /\ NextFreeTableEntry' = [NextFreeTableEntry EXCEPT ![Handle[t]] = Head(t)]
    /\ Goto(t, "push")
    /\ UNCHANGED <<FirstFree, LastFree, NextHandleNeedingPool, HandleTableLock, users, NewValue,
                   Handle, Free, i>>

PushFree(t) ==
    /\ pc[t] = "push"
    /\ \/ /\ Head(t) = OldValue[t]
          /\ FirstFree' = IF Free[t] = "FirstFree" THEN Handle[t] ELSE FirstFree
          /\ LastFree' = IF Free[t] = "LastFree" THEN Handle[t] ELSE LastFree
          /\ Handle' = [Handle EXCEPT ![t] = 0]
          /\ Free' = [Free EXCEPT ![t] = "none"]
          /\ SetOld(t, 0)
          /\ Goto(t, "idle")
       \/ /\ Head(t) # OldValue[t]
          /\ Goto(t, "link")
          /\ UNCHANGED <<FirstFree, LastFree, Handle, Free, OldValue>>
    /\ UNCHANGED <<NextHandleNeedingPool, NextFreeTableEntry, HandleTableLock, users, NewValue, i>>
-----------------------------------------------------------------------------
Allocate(t) == \/ ReadFirstFree(t) \/ LockTable(t) \/ ReadAgain(t)
               \/ TakeLastFree(t) \/ ExWaitOnPushLock(t) \/ Install(t) \/ Reverse(t)
               \/ UnlockTable(t)
               \/ Grow(t) \/ ChainPage(t) \/ PublishPage(t) \/ UnlockGrown(t) \/ ReadGrown(t)
               \/ Share(t) \/ Compare(t) \/ ReadLink(t) \/ Pop(t) \/ Unshare(t)
               \/ ExCreateHandle(t)

Next == \E t \in Threads : \/ Allocate(t)
                           \/ \E h \in inUse : ExpFreeHandleTableEntry(t, h)
                           \/ LinkFree(t) \/ PushFree(t)

Spec == Init /\ [][Next]_vars
-----------------------------------------------------------------------------
(* The ASSERTs of ExpAllocateHandleTableEntry and ExpMoveFreeHandles: the  *)
(* link of an entry that is taken off the free list is a handle of the     *)
(* table, and a table that is not strict FIFO has nothing to reverse. The  *)
(* first fails for an entry that is on the list while a caller has it, the *)
(* second when a handle was put on FirstFree while LastFree was moved.     *)
AssertsHold == \A t \in Threads :
    /\ pc[t] = "popped" => NewValue[t] < NextHandleNeedingPool
    /\ pc[t] # "reverse"
=============================================================================
