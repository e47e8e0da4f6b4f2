----------------------------- MODULE HandleEntry -----------------------------
(***************************************************************************)
(* The entries of a handle table: ntoskrnl/ex/handle.c, with the routines  *)
(* of ntoskrnl/ex/pushlock.c that block on and unblock a push lock used as *)
(* an event. An entry is locked by clearing a bit of its value. A thread   *)
(* that finds it locked links a wait block on its stack into the table's   *)
(* HandleContentionEvent, looks again, and waits; whoever unlocks or       *)
(* destroys an entry takes the whole list and wakes everyone, whichever    *)
(* entry they wait for. Each access to shared memory is a step.            *)
(*                                                                         *)
(* Which entry a new handle gets is left to the allocator: any free one.   *)
(***************************************************************************)

CONSTANTS Threads, Handles, Objects, NULL

ASSUME NULLAssumption == NULL \notin Threads \cup [Object : Objects, lockBit : BOOLEAN]

VARIABLES Entry,                      \* the Value of each entry
          allocated,                  \* the entries that are off the free list
          HandleContentionEvent,      \* the newest wait block; a block is named by its thread
          Link, Flags, WakeEvent,     \* WaitBlock->Next, its wait bit and its event
          pc, Handle, OldValue, OldBlock,
          WaitBlock, NextWaitBlock,   \* where an unblocker is in the list it took
          after                       \* what follows ExfUnblockPushLock

table == <<Entry, allocated>>
blocks == <<HandleContentionEvent, Link, Flags, WakeEvent>>
walk == <<WaitBlock, NextWaitBlock, after>>
locals == <<Handle, OldValue, OldBlock, walk>>
vars == <<table, blocks, pc, locals>>

(* A value is zero, or an object with the lock bit, which is set while the *)
(* entry is not locked.                                                    *)
Values == [Object : Objects, lockBit : BOOLEAN]
Unlocked(v) == v # NULL /\ v.lockBit
Locked(v) == v # NULL /\ ~v.lockBit

(* A new table, all of whose entries are free.                             *)
Init ==
    /\ Entry = [h \in Handles |-> NULL]
    /\ allocated = {}
    /\ HandleContentionEvent = NULL
    /\ Link = [t \in Threads |-> NULL]
    /\ Flags = [t \in Threads |-> FALSE]
    /\ WakeEvent = [t \in Threads |-> FALSE]
    /\ pc = [t \in Threads |-> "idle"]
    /\ Handle \in {[t \in Threads |-> h] : h \in Handles}
    /\ OldValue = [t \in Threads |-> NULL]
    /\ OldBlock = [t \in Threads |-> NULL]
    /\ WaitBlock = [t \in Threads |-> NULL]
    /\ NextWaitBlock = [t \in Threads |-> NULL]
    /\ after = [t \in Threads |-> "idle"]

Goto(t, label) == pc' = [pc EXCEPT ![t] = label]

-----------------------------------------------------------------------------
(* ExpLockHandleTableEntry, the loop that ExMapHandleToPointer,            *)
(* ExDestroyHandle, ExChangeHandle, ExSweepHandleTable, ExEnumHandleTable  *)
(* and ExDupHandleTable enter with the handle they were given. (Those that *)
(* first look at the entry without locking it only return earlier.)        *)
BeginLock(t) ==
    /\ pc[t] = "idle"
    /\ \E h \in Handles : Handle' = [Handle EXCEPT ![t] = h]
    /\ Goto(t, "read")
    /\ UNCHANGED <<table, blocks, OldValue, OldBlock, walk>>

ReadEntry(t) ==
    /\ pc[t] = "read"
    /\ LET v == Entry[Handle[t]] IN
       \/ Unlocked(v) /\ OldValue' = [OldValue EXCEPT ![t] = v] /\ Goto(t, "lock")
       \/ Locked(v) /\ Goto(t, "block") /\ UNCHANGED OldValue
       \/ v = NULL /\ Goto(t, "idle") /\ UNCHANGED OldValue
    /\ UNCHANGED <<table, blocks, Handle, OldBlock, walk>>

(* Fault: the bit is cleared by a plain write.                             *)
LockEntry_NoCompare(t) ==
    /\ pc[t] = "lock"
    /\ Entry' = [Entry EXCEPT ![Handle[t]] = [OldValue[t] EXCEPT !.lockBit = FALSE]]
    /\ Goto(t, "held")
    /\ OldValue' = [OldValue EXCEPT ![t] = NULL]
    /\ UNCHANGED <<allocated, blocks, Handle, OldBlock, walk>>

(* The entry is locked if it still has the value that was read.            *)
LockEntry(t) ==
    /\ pc[t] = "lock"
    /\ IF Entry[Handle[t]] = OldValue[t]
       THEN /\ Entry' = [Entry EXCEPT ![Handle[t]].lockBit = FALSE]
            /\ Goto(t, "held")
       ELSE /\ Goto(t, "block")
            /\ UNCHANGED Entry
    /\ OldValue' = [OldValue EXCEPT ![t] = NULL]
    /\ UNCHANGED <<allocated, blocks, Handle, OldBlock, walk>>

-----------------------------------------------------------------------------
(* ExpBlockOnLockedHandleEntry                                             *)

(* ExBlockPushLock prepares the block and reads the newest one.            *)
ExBlockPushLock(t) ==
    /\ pc[t] = "block"
    /\ Flags' = [Flags EXCEPT ![t] = TRUE]
    /\ OldBlock' = [OldBlock EXCEPT ![t] = HandleContentionEvent]
    /\ Goto(t, "push")
    /\ UNCHANGED <<table, HandleContentionEvent, Link, WakeEvent, Handle, OldValue, walk>>

(* Fault: the newest block is replaced by a plain write.                   *)
PushBlock_NoCompare(t) ==
    /\ pc[t] = "push"
    /\ Link' = [Link EXCEPT ![t] = OldBlock[t]]
    /\ HandleContentionEvent' = t
    /\ OldBlock' = [OldBlock EXCEPT ![t] = NULL]
    /\ Goto(t, "recheck")
    /\ UNCHANGED <<table, Flags, WakeEvent, Handle, OldValue, walk>>

(* Its loop: the block is linked in front of the one that was read, unless *)
(* that one is no longer the newest.                                       *)
PushBlock(t) ==
    /\ pc[t] = "push"
    /\ Link' = [Link EXCEPT ![t] = OldBlock[t]]
    /\ IF HandleContentionEvent = OldBlock[t]
       THEN /\ HandleContentionEvent' = t
            /\ OldBlock' = [OldBlock EXCEPT ![t] = NULL]
            /\ Goto(t, "recheck")
       ELSE /\ OldBlock' = [OldBlock EXCEPT ![t] = HandleContentionEvent]
            /\ UNCHANGED <<HandleContentionEvent, pc>>
    /\ UNCHANGED <<table, Flags, WakeEvent, Handle, OldValue, walk>>

(* Fault: the entry is not looked at again before the wait.                *)
Recheck_Waits(t) ==
    /\ pc[t] = "recheck"
    /\ Goto(t, "initEvent")
    /\ UNCHANGED <<table, blocks, locals>>

(* The entry may have been unlocked before the block was linked.           *)
Recheck(t) ==
    /\ pc[t] = "recheck"
    /\ \/ Locked(Entry[Handle[t]]) /\ Goto(t, "initEvent") /\ UNCHANGED after
       \/ ~Locked(Entry[Handle[t]]) /\ Goto(t, "unblock")
          /\ after' = [after EXCEPT ![t] = "ownBlock"]
    /\ UNCHANGED <<table, blocks, Handle, OldValue, OldBlock, WaitBlock, NextWaitBlock>>

(* ExTimedWaitForUnblockPushLock, called without a timeout. The loop that  *)
(* spins first can only find what ResetOwnBit finds.                       *)
InitializeEvent(t) ==
    /\ pc[t] = "initEvent"
    /\ WakeEvent' = [WakeEvent EXCEPT ![t] = FALSE]
    /\ Goto(t, "resetOwnBit")
    /\ UNCHANGED <<table, HandleContentionEvent, Link, Flags, locals>>

(* The thread waits if it resets the bit, and an unblocker that comes      *)
(* later signals it.                                                       *)
ResetOwnBit(t) ==
    /\ pc[t] = "resetOwnBit"
    /\ Flags' = [Flags EXCEPT ![t] = FALSE]
    /\ Goto(t, IF Flags[t] THEN "wait" ELSE "read")
    /\ UNCHANGED <<table, HandleContentionEvent, Link, WakeEvent, locals>>

KeWaitForSingleObject(t) ==
    /\ pc[t] = "wait" /\ WakeEvent[t]
    /\ WakeEvent' = [WakeEvent EXCEPT ![t] = FALSE]
    /\ Goto(t, "read")
    /\ UNCHANGED <<table, HandleContentionEvent, Link, Flags, locals>>

-----------------------------------------------------------------------------
(* ExfUnblockPushLock                                                      *)

(* Fault: an empty list is walked.                                         *)
TakeList_NoTest(t) ==
    /\ pc[t] = "unblock"
    /\ WaitBlock' = [WaitBlock EXCEPT ![t] = HandleContentionEvent]
    /\ HandleContentionEvent' = NULL
    /\ Goto(t, "readNext")
    /\ UNCHANGED <<table, Link, Flags, WakeEvent, Handle, OldValue, OldBlock, NextWaitBlock, after>>

(* The list, if there is one, now belongs to this thread.                  *)
TakeList(t) ==
    /\ pc[t] = "unblock"
    /\ WaitBlock' = [WaitBlock EXCEPT ![t] = HandleContentionEvent]
    /\ HandleContentionEvent' = NULL
    /\ Goto(t, IF HandleContentionEvent = NULL THEN "unblocked" ELSE "readNext")
    /\ UNCHANGED <<table, Link, Flags, WakeEvent, Handle, OldValue, OldBlock, NextWaitBlock, after>>

(* The next block is read before the bit is reset: after that the owner    *)
(* of the block may return.                                                *)
ReadNext(t) ==
    /\ pc[t] = "readNext"
    /\ NextWaitBlock' = [NextWaitBlock EXCEPT ![t] = Link[WaitBlock[t]]]
    /\ Goto(t, "resetBit")
    /\ UNCHANGED <<table, blocks, Handle, OldValue, OldBlock, WaitBlock, after>>

Advance(t) ==
    /\ WaitBlock' = [WaitBlock EXCEPT ![t] = NextWaitBlock[t]]
    /\ NextWaitBlock' = [NextWaitBlock EXCEPT ![t] = NULL]
    /\ Goto(t, IF NextWaitBlock[t] = NULL THEN "unblocked" ELSE "readNext")
    /\ UNCHANGED after

(* A bit that the owner has reset means that it waits.                     *)
ResetBit(t) ==
    /\ pc[t] = "resetBit"
    /\ Flags' = [Flags EXCEPT ![WaitBlock[t]] = FALSE]
    /\ \/ Flags[WaitBlock[t]] /\ Advance(t)
       \/ ~Flags[WaitBlock[t]] /\ Goto(t, "signal") /\ UNCHANGED walk
    /\ UNCHANGED <<table, HandleContentionEvent, Link, WakeEvent, Handle, OldValue, OldBlock>>

SignalEvent(t) ==
    /\ pc[t] = "signal"
    /\ WakeEvent' = [WakeEvent EXCEPT ![WaitBlock[t]] = TRUE]
    /\ Advance(t)
    /\ UNCHANGED <<table, HandleContentionEvent, Link, Flags, Handle, OldValue, OldBlock>>

(* Fault: a thread whose block another unblocker has does not wait for it. *)
Unblocked_Leaves(t) ==
    /\ pc[t] = "unblocked"
    /\ after' = [after EXCEPT ![t] = "idle"]
    /\ Goto(t, IF after[t] = "ownBlock" THEN "read" ELSE after[t])
    /\ UNCHANGED <<table, blocks, Handle, OldValue, OldBlock, WaitBlock, NextWaitBlock>>

(* A caller that gave its own block waits if another unblocker has it.     *)
Unblocked(t) ==
    /\ pc[t] = "unblocked"
    /\ after' = [after EXCEPT ![t] = "idle"]
    /\ Goto(t, IF after[t] # "ownBlock" THEN after[t]
               ELSE IF Flags[t] THEN "initEvent" ELSE "read")
    /\ UNCHANGED <<table, blocks, Handle, OldValue, OldBlock, WaitBlock, NextWaitBlock>>

-----------------------------------------------------------------------------
(* What the holder of an entry does with it.                               *)

ExUnlockHandleTableEntry(t) ==
    /\ pc[t] \in {"held", "created"}
    /\ Entry' = [Entry EXCEPT ![Handle[t]].lockBit = TRUE]
    /\ Goto(t, "unblock")
    /\ after' = [after EXCEPT ![t] = "idle"]
    /\ UNCHANGED <<allocated, blocks, Handle, OldValue, OldBlock, WaitBlock, NextWaitBlock>>

(* Fault: a handle is destroyed without a thought of those who wait.       *)
ExDestroyHandle_SkipsUnblock(t) ==
    /\ pc[t] = "held"
    /\ Entry' = [Entry EXCEPT ![Handle[t]] = NULL]
    /\ Goto(t, "free")
    /\ UNCHANGED <<allocated, blocks, locals>>

(* Fault: the entry is on the free list before the call is done with it.   *)
ExDestroyHandle_FreesFirst(t) ==
    /\ pc[t] = "held"
    /\ Entry' = [Entry EXCEPT ![Handle[t]] = NULL]
    /\ allocated' = allocated \ {Handle[t]}
    /\ Goto(t, "unblock")
    /\ after' = [after EXCEPT ![t] = "free"]
    /\ UNCHANGED <<blocks, Handle, OldValue, OldBlock, WaitBlock, NextWaitBlock>>

(* ExDestroyHandle, of an entry it has locked or was given locked.         *)
ExDestroyHandle(t) ==
    /\ pc[t] = "held"
    /\ Entry' = [Entry EXCEPT ![Handle[t]] = NULL]
    /\ Goto(t, "unblock")
    /\ after' = [after EXCEPT ![t] = "free"]
    /\ UNCHANGED <<allocated, blocks, Handle, OldValue, OldBlock, WaitBlock, NextWaitBlock>>

ExpFreeHandleTableEntry(t) ==
    /\ pc[t] = "free"
    /\ allocated' = allocated \ {Handle[t]}
    /\ Goto(t, "idle")
    /\ UNCHANGED <<Entry, blocks, locals>>

(* ExCreateHandle: the allocator takes an entry off the free list, and the *)
(* value, a locked one, is written without an interlocked operation.       *)
ExCreateHandle(t) ==
    /\ pc[t] = "idle"
    /\ \E h \in Handles \ allocated :
          /\ allocated' = allocated \cup {h}
          /\ Handle' = [Handle EXCEPT ![t] = h]
    /\ Goto(t, "write")
    /\ UNCHANGED <<Entry, blocks, OldValue, OldBlock, walk>>

WriteEntry(t) ==
    /\ pc[t] = "write"
    /\ \E o \in Objects : Entry' = [Entry EXCEPT ![Handle[t]] = [Object |-> o, lockBit |-> FALSE]]
    /\ Goto(t, "created")
    /\ UNCHANGED <<allocated, blocks, locals>>

-----------------------------------------------------------------------------
Blocking(t) == \/ ReadEntry(t) \/ LockEntry(t)
               \/ ExBlockPushLock(t) \/ PushBlock(t) \/ Recheck(t)
               \/ InitializeEvent(t) \/ ResetOwnBit(t) \/ KeWaitForSingleObject(t)

Unblocking(t) == \/ TakeList(t) \/ ReadNext(t) \/ ResetBit(t) \/ SignalEvent(t) \/ Unblocked(t)

Holding(t) == \/ ExUnlockHandleTableEntry(t) \/ ExDestroyHandle(t)
              \/ ExpFreeHandleTableEntry(t) \/ WriteEntry(t)

Continue(t) == Blocking(t) \/ Unblocking(t) \/ Holding(t)

Next == \E t \in Threads : BeginLock(t) \/ ExCreateHandle(t) \/ Continue(t)

Spec == Init /\ [][Next]_vars

(* Threads keep running, and holders unlock or destroy what they locked.   *)
FairSpec == Spec /\ \A t \in Threads : WF_vars(Continue(t))

-----------------------------------------------------------------------------
Walking == {"readNext", "resetBit", "signal"}

(* The values the variables range over: an unblocker in its list is at a   *)
(* block.                                                                  *)
TypeOK ==
    /\ Entry \in [Handles -> Values \cup {NULL}]
    /\ allocated \in SUBSET Handles
    /\ HandleContentionEvent \in Threads \cup {NULL}
    /\ Link \in [Threads -> Threads \cup {NULL}]
    /\ Flags \in [Threads -> BOOLEAN]
    /\ WakeEvent \in [Threads -> BOOLEAN]
    /\ pc \in [Threads -> {"idle", "read", "lock", "block", "push", "recheck", "initEvent",
                           "resetOwnBit", "wait", "unblock", "unblocked", "held", "free",
                           "write", "created"} \cup Walking]
    /\ Handle \in [Threads -> Handles]
    /\ OldValue \in [Threads -> Values \cup {NULL}]
    /\ OldBlock \in [Threads -> Threads \cup {NULL}]
    /\ WaitBlock \in [Threads -> Threads \cup {NULL}]
    /\ NextWaitBlock \in [Threads -> Threads \cup {NULL}]
    /\ after \in [Threads -> {"idle", "free", "ownBlock"}]
    /\ \A t \in Threads : pc[t] \in Walking <=> WaitBlock[t] # NULL

Holders(h) == {t \in Threads : pc[t] \in {"held", "created"} /\ Handle[t] = h}

(* The lock bit is a lock: an entry without it has exactly one thread that *)
(* may use or destroy it, and an entry with it, or without object, none.   *)
EntryExclusive == \A h \in Handles :
    /\ \A t, u \in Holders(h) : t = u
    /\ Locked(Entry[h]) <=> Holders(h) # {}

(* The ASSERT that an entry which is put on the free list has no object,   *)
(* and what the allocator relies on: nor has one that is on it.            *)
FreeEntriesEmpty ==
    /\ \A t \in Threads : pc[t] = "free" => Entry[Handle[t]] = NULL
    /\ \A h \in Handles \ allocated : Entry[h] = NULL

(* The blocks that are reached from a block by following links: those of   *)
(* every set that has the block and the next of each of its members.       *)
Closed(link, S) == \A x \in S : link[x] \in S \cup {NULL}

ReachedBy(link, b) ==
    IF b = NULL THEN {}
    ELSE {x \in Threads : \A S \in SUBSET Threads : b \in S /\ Closed(link, S) => x \in S}

Reached(b) == ReachedBy(Link, b)

Queued == Reached(HandleContentionEvent)

(* What an unblocker still has to unblock.                                 *)
Left(t) == CASE pc[t] = "readNext" -> Reached(WaitBlock[t])
             [] pc[t] \in {"resetBit", "signal"} -> {WaitBlock[t]} \cup Reached(NextWaitBlock[t])
             [] OTHER -> {}

(* The thread's wait block is linked, or was, and its frame exists.        *)
InBlockCall(t) == \/ pc[t] \in {"recheck", "initEvent", "resetOwnBit", "wait"}
                  \/ after[t] = "ownBlock"

(* Unblockers touch only wait blocks whose frames exist: no thread returns *)
(* while its block is in the list of the table or of an unblocker.         *)
TouchesLiveBlocks ==
    \A b \in Queued \cup UNION {Left(t) : t \in Threads} : InBlockCall(b)

(* No block is in two lists, so none is unblocked twice.                   *)
OneList == \A t \in Threads :
    /\ Left(t) \cap Queued = {}
    /\ \A u \in Threads \ {t} : Left(t) \cap Left(u) = {}

(* A thread that has not been told to go on is in a list, and a thread in  *)
(* a list has not: it has its bit set or waits for an event not yet set.   *)
NoWaiterLost == \A t \in Threads : InBlockCall(t) =>
    (t \in Queued \cup UNION {Left(u) : u \in Threads}
     <=> Flags[t] \/ (pc[t] = "wait" /\ ~WakeEvent[t]))

(* Every waiter is in one list until it is unblocked, once.                *)
WaitersListed == OneList /\ NoWaiterLost

(* A thread that decided to wait and that no unblocker has taken waits for *)
(* an entry that is locked, or someone is about to take the list.          *)
WakeupPending == \A t \in Queued :
    pc[t] \in {"initEvent", "resetOwnBit", "wait"} =>
        Locked(Entry[Handle[t]]) \/ \E u \in Threads : pc[u] = "unblock"

(* When no more calls come in, every call that asked for an entry returns, *)
(* with the entry or without: no unlock is missed by a thread that goes to *)
(* sleep, and no two threads unblock each other for ever.                  *)
CallsReturn ==
    <>[][\A t \in Threads : ~BeginLock(t) /\ ~ExCreateHandle(t)]_vars =>
        \A t \in Threads : <>[](pc[t] = "idle")

-----------------------------------------------------------------------------
(* The inductive invariant behind EntryExclusive and FreeEntriesEmpty.     *)

Unblocks == {"unblock", "unblocked"} \cup Walking

(* What a thread remembers: a value to compare with has the lock bit, and  *)
(* only a thread that unblocks has something left to do after it.          *)
LocalsInUse == \A t \in Threads :
    /\ pc[t] = "lock" => Unlocked(OldValue[t])
    /\ after[t] # "idle" => pc[t] \in Unblocks

(* A thread between clearing an entry and freeing it, or between getting a *)
(* free entry and writing it, has that entry for itself.                   *)
Owns(t) == pc[t] \in {"write", "free"} \/ after[t] = "free"

OwnersExclusive ==
    /\ \A t \in Threads : Owns(t) => Handle[t] \in allocated /\ Entry[Handle[t]] = NULL
    /\ \A t, u \in Threads : Owns(t) /\ Owns(u) /\ Handle[t] = Handle[u] => t = u

EntryInv == TypeOK /\ EntryExclusive /\ FreeEntriesEmpty /\ LocalsInUse /\ OwnersExclusive

-----------------------------------------------------------------------------
(* The inductive invariant behind TouchesLiveBlocks, WaitersListed and     *)
(* WakeupPending.                                                          *)

Listed == Queued \cup UNION {Left(t) : t \in Threads}

(* Following the links never leads back to a listed block.                 *)
NoCycle == \A b \in Listed : b \notin Reached(Link[b])

(* What the bit and the event of a block say about its thread: the event   *)
(* is set only for a thread that has reset its own bit. The next block     *)
(* that an unblocker remembers is still the next one.                      *)
BlockState == \A t \in Threads :
    /\ pc[t] = "push" => Flags[t]
    /\ pc[t] = "wait" => ~Flags[t]
    /\ pc[t] = "resetOwnBit" => ~WakeEvent[t]
    /\ pc[t] \in {"resetBit", "signal"} => NextWaitBlock[t] = Link[WaitBlock[t]]
    /\ pc[t] = "signal" => ~Flags[WaitBlock[t]]

(* A thread that took the list after its own recheck is not on it any more.*)
OwnTaken == \A t \in Threads :
    after[t] = "ownBlock" /\ pc[t] # "unblock" => t \notin Queued

ListInv == /\ EntryInv /\ BlockState /\ OwnTaken /\ NoCycle
           /\ TouchesLiveBlocks /\ WaitersListed /\ WakeupPending
==============================================================================
