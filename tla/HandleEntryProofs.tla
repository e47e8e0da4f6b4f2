-------------------------- MODULE HandleEntryProofs --------------------------
(***************************************************************************)
(* Proofs about HandleEntry, for any threads, handles and objects. The     *)
(* lock bit excludes because a thread compares with a value that has the   *)
(* bit; an entry without object is safe to write because it belongs to the *)
(* one thread that took it off the free list, or has not put it there yet. *)
(***************************************************************************)
EXTENDS HandleEntry, TLAPS

HolderPlaces == {"held", "created"}

(* A step that leaves the entries alone, by which no thread becomes or     *)
(* ceases to be a holder or an owner.                                      *)
LEMMA KeepsEntries ==
    ASSUME EntryInv, TypeOK', LocalsInUse', UNCHANGED table,
           \A t \in Threads :
              /\ pc'[t] \in HolderPlaces <=> pc[t] \in HolderPlaces
              /\ Owns(t)' <=> Owns(t)
              /\ pc[t] \in HolderPlaces \/ Owns(t) => Handle'[t] = Handle[t],
           \A t \in Threads : pc'[t] = "free" => Owns(t)'
    PROVE  EntryInv'
<1>1. \A h \in Handles : Holders(h)' = Holders(h)
  BY DEF Holders, HolderPlaces
<1>2. EntryExclusive'
  BY <1>1 DEF EntryInv, EntryExclusive, table
<1>3. OwnersExclusive'
  BY DEF EntryInv, OwnersExclusive, table
<1>4. FreeEntriesEmpty'
  BY <1>3 DEF EntryInv, FreeEntriesEmpty, OwnersExclusive, table
<1> QED
  BY <1>2, <1>3, <1>4 DEF EntryInv

(* A value with another lock bit.                                          *)
LEMMA WithLockBit ==
    ASSUME NEW v \in Values, NEW b \in BOOLEAN
    PROVE  /\ [v EXCEPT !.lockBit = b] \in Values
           /\ [v EXCEPT !.lockBit = b].lockBit = b
           /\ [v EXCEPT !.lockBit = b] # NULL
<1>1. [v EXCEPT !.lockBit = b] \in Values
  BY DEF Values
<1>2. [v EXCEPT !.lockBit = b].lockBit = b
  BY DEF Values
<1> QED
  BY <1>1, <1>2, NULLAssumption DEF Values

LEMMA InitInv == Init => EntryInv
<1> SUFFICES ASSUME Init PROVE EntryInv
  OBVIOUS
<1>1. TypeOK
  <2>1. Handle \in [Threads -> Handles]
    BY DEF Init
  <2>2. Flags \in [Threads -> BOOLEAN] /\ WakeEvent \in [Threads -> BOOLEAN]
    BY DEF Init
  <2> QED
    BY <2>1, <2>2 DEF Init, TypeOK, Walking
<1>2. EntryExclusive /\ FreeEntriesEmpty
  BY DEF Init, EntryExclusive, Holders, Locked, FreeEntriesEmpty
<1>3. LocalsInUse /\ OwnersExclusive
  BY DEF Init, LocalsInUse, OwnersExclusive, Owns
<1> QED
  BY <1>1, <1>2, <1>3 DEF EntryInv

-----------------------------------------------------------------------------
(* The steps of a thread that asks for an entry and blocks.                *)
LEMMA WaitingInv ==
    ASSUME EntryInv, NEW t \in Threads,
           \/ BeginLock(t) \/ ReadEntry(t) \/ ExBlockPushLock(t) \/ PushBlock(t) \/ Recheck(t)
           \/ InitializeEvent(t) \/ ResetOwnBit(t) \/ KeWaitForSingleObject(t)
    PROVE  EntryInv'
<1> USE DEF BeginLock, ReadEntry, ExBlockPushLock, PushBlock, Recheck, InitializeEvent,
            ResetOwnBit, KeWaitForSingleObject, Goto, table, blocks, walk, locals
<1>1. TypeOK'
  <2>1. CASE BeginLock(t)
    BY <2>1 DEF EntryInv, TypeOK, Walking, LocalsInUse, Unblocks
  <2>2. CASE ReadEntry(t)
    BY <2>2 DEF EntryInv, TypeOK, Walking, LocalsInUse, Unblocks
  <2>3. CASE ExBlockPushLock(t)
    BY <2>3 DEF EntryInv, TypeOK, Walking, LocalsInUse, Unblocks
  <2>4. CASE PushBlock(t)
    BY <2>4 DEF EntryInv, TypeOK, Walking, LocalsInUse, Unblocks
  <2>5. CASE Recheck(t)
    BY <2>5 DEF EntryInv, TypeOK, Walking, LocalsInUse, Unblocks
  <2>6. CASE InitializeEvent(t)
    BY <2>6 DEF EntryInv, TypeOK, Walking, LocalsInUse, Unblocks
  <2>7. CASE ResetOwnBit(t)
    BY <2>7 DEF EntryInv, TypeOK, Walking, LocalsInUse, Unblocks
  <2>8. CASE KeWaitForSingleObject(t)
    BY <2>8 DEF EntryInv, TypeOK, Walking, LocalsInUse, Unblocks
  <2> QED
    BY <2>1, <2>2, <2>3, <2>4, <2>5, <2>6, <2>7, <2>8
<1>2. LocalsInUse'
  BY DEF EntryInv, TypeOK, LocalsInUse, Unblocks, Walking
<1>3. UNCHANGED table
  OBVIOUS
<1>4. \A u \in Threads :
         /\ pc'[u] \in HolderPlaces <=> pc[u] \in HolderPlaces
         /\ Owns(u)' <=> Owns(u)
         /\ pc[u] \in HolderPlaces \/ Owns(u) => Handle'[u] = Handle[u]
         /\ pc'[u] = "free" => Owns(u)'
  BY DEF EntryInv, TypeOK, LocalsInUse, Unblocks, Walking, Owns, HolderPlaces
<1> QED
  BY <1>1, <1>2, <1>3, <1>4, KeepsEntries

(* The steps of an unblocker.                                              *)
LEMMA UnblockingInv == ASSUME EntryInv, NEW t \in Threads, Unblocking(t) PROVE EntryInv'
<1> USE DEF Unblocking, TakeList, ReadNext, ResetBit, SignalEvent, Unblocked, Advance,
            Goto, table, blocks, walk, locals
<1>1. TypeOK'
  <2>1. CASE TakeList(t)
    BY <2>1 DEF EntryInv, TypeOK, Walking, LocalsInUse, Unblocks
  <2>2. CASE ReadNext(t)
    BY <2>2 DEF EntryInv, TypeOK, Walking, LocalsInUse, Unblocks
  <2>3. CASE ResetBit(t)
    BY <2>3 DEF EntryInv, TypeOK, Walking, LocalsInUse, Unblocks
  <2>4. CASE SignalEvent(t)
    BY <2>4 DEF EntryInv, TypeOK, Walking, LocalsInUse, Unblocks
  <2>5. CASE Unblocked(t)
    BY <2>5 DEF EntryInv, TypeOK, Walking, LocalsInUse, Unblocks
  <2> QED
    BY <2>1, <2>2, <2>3, <2>4, <2>5
<1>2. LocalsInUse'
  BY DEF EntryInv, TypeOK, LocalsInUse, Unblocks, Walking
<1>3. UNCHANGED table
  OBVIOUS
<1>4. \A u \in Threads :
         /\ pc'[u] \in HolderPlaces <=> pc[u] \in HolderPlaces
         /\ Owns(u)' <=> Owns(u)
         /\ pc[u] \in HolderPlaces \/ Owns(u) => Handle'[u] = Handle[u]
         /\ pc'[u] = "free" => Owns(u)'
  BY DEF EntryInv, TypeOK, LocalsInUse, Unblocks, Walking, Owns, HolderPlaces
<1> QED
  BY <1>1, <1>2, <1>3, <1>4, KeepsEntries

-----------------------------------------------------------------------------
(* The steps that change an entry.                                         *)

(* The exchange succeeds on a value with the lock bit, so on an entry that *)
(* nobody holds.                                                           *)
LEMMA LockEntryInv == ASSUME EntryInv, NEW t \in Threads, LockEntry(t) PROVE EntryInv'
<1> USE DEF LockEntry, Goto, table, blocks, walk
<1>1. CASE Entry[Handle[t]] # OldValue[t]
  <2>1. TypeOK'
    BY <1>1 DEF EntryInv, TypeOK, Walking
  <2>2. LocalsInUse' /\ UNCHANGED table
    BY <1>1 DEF EntryInv, TypeOK, LocalsInUse, Unblocks, Walking
  <2>3. \A u \in Threads :
           /\ pc'[u] \in HolderPlaces <=> pc[u] \in HolderPlaces
           /\ Owns(u)' <=> Owns(u)
           /\ pc[u] \in HolderPlaces \/ Owns(u) => Handle'[u] = Handle[u]
           /\ pc'[u] = "free" => Owns(u)'
    BY <1>1 DEF EntryInv, TypeOK, LocalsInUse, Owns, HolderPlaces
  <2> QED
    BY <2>1, <2>2, <2>3, KeepsEntries
<1>2. CASE Entry[Handle[t]] = OldValue[t]
  <2> DEFINE h == Handle[t]
  <2>1. h \in Handles /\ Unlocked(Entry[h]) /\ Entry[h] \in Values
    BY <1>2 DEF EntryInv, TypeOK, LocalsInUse, Unlocked
  <2>2. /\ Entry'[h] \in Values /\ Locked(Entry'[h]) /\ Entry'[h] # NULL
        /\ \A g \in Handles \ {h} : Entry'[g] = Entry[g]
        /\ Entry' \in [Handles -> Values \cup {NULL}]
    <3>1. Entry' = [Entry EXCEPT ![h] = [Entry[h] EXCEPT !.lockBit = FALSE]]
      BY <1>2
    <3> QED
      BY <2>1, <3>1, WithLockBit DEF EntryInv, TypeOK, Locked
  <2>3. TypeOK'
    BY <1>2, <2>2 DEF EntryInv, TypeOK, Walking
  <2>4. LocalsInUse'
    BY <1>2 DEF EntryInv, TypeOK, LocalsInUse, Unblocks, Walking
  <2>5. /\ Holders(h) = {} /\ Holders(h)' = {t}
        /\ \A g \in Handles \ {h} : Holders(g)' = Holders(g)
    <3>1. Holders(h) = {}
      BY <2>1 DEF EntryInv, EntryExclusive, Unlocked, Locked
    <3>2. pc' = [pc EXCEPT ![t] = "held"] /\ Handle' = Handle /\ pc[t] = "lock"
      BY <1>2
    <3> QED
      BY <3>1, <3>2 DEF Holders, EntryInv, TypeOK
  <2>6. EntryExclusive'
    BY <2>2, <2>5 DEF EntryInv, EntryExclusive
  <2>7. \A u \in Threads : (Owns(u)' <=> Owns(u)) /\ (Owns(u) => Handle[u] # h)
    BY <1>2, <2>1 DEF EntryInv, TypeOK, LocalsInUse, OwnersExclusive, Owns, Unlocked
  <2>8. h \in allocated
    BY <2>1 DEF EntryInv, FreeEntriesEmpty, Unlocked
  <2>9. OwnersExclusive'
    BY <2>2, <2>7 DEF EntryInv, TypeOK, OwnersExclusive
  <2>10. FreeEntriesEmpty'
    BY <2>2, <2>8, <2>9 DEF EntryInv, TypeOK, FreeEntriesEmpty, OwnersExclusive, Owns
  <2> QED
    BY <2>3, <2>4, <2>6, <2>9, <2>10 DEF EntryInv
<1> QED
  BY <1>1, <1>2

(* The holder gives the entry back, or clears it and becomes its owner.    *)
LEMMA ReleaseInv ==
    ASSUME EntryInv, NEW t \in Threads, ExUnlockHandleTableEntry(t) \/ ExDestroyHandle(t)
    PROVE  EntryInv'
<1> USE DEF ExUnlockHandleTableEntry, ExDestroyHandle, Goto, blocks
<1> DEFINE h == Handle[t]
<1>1. /\ h \in Handles /\ Locked(Entry[h]) /\ Entry[h] \in Values /\ h \in allocated
      /\ Holders(h) = {t}
  <2>1. h \in Handles /\ t \in Holders(h)
    BY DEF EntryInv, TypeOK, Holders
  <2>2. Locked(Entry[h]) /\ Holders(h) = {t}
    BY <2>1 DEF EntryInv, EntryExclusive
  <2> QED
    BY <2>1, <2>2 DEF EntryInv, TypeOK, FreeEntriesEmpty, Locked
<1>2. /\ ~Locked(Entry'[h]) /\ Entry'[h] \in Values \cup {NULL}
      /\ \A g \in Handles \ {h} : Entry'[g] = Entry[g]
      /\ Entry' \in [Handles -> Values \cup {NULL}]
      /\ after'[t] = "free" => Entry'[h] = NULL
  <2>1. CASE ExUnlockHandleTableEntry(t)
    <3>1. Entry' = [Entry EXCEPT ![h] = [Entry[h] EXCEPT !.lockBit = TRUE]] /\ after'[t] = "idle"
      BY <2>1 DEF EntryInv, TypeOK
    <3> QED
      BY <1>1, <3>1, WithLockBit DEF EntryInv, TypeOK, Locked
  <2>2. CASE ExDestroyHandle(t)
    BY <1>1, <2>2 DEF EntryInv, TypeOK, Locked
  <2> QED
    BY <2>1, <2>2
<1>3. TypeOK'
  BY <1>2 DEF EntryInv, TypeOK, Walking
<1>4. LocalsInUse'
  BY DEF EntryInv, TypeOK, LocalsInUse, Unblocks
<1>5. Holders(h)' = {} /\ \A g \in Handles \ {h} : Holders(g)' = Holders(g)
  <2>1. /\ pc' = [pc EXCEPT ![t] = "unblock"] /\ Handle' = Handle
        /\ \A u \in Threads : u \in Holders(h) => u = t
    BY <1>1
  <2> QED
    BY <2>1 DEF Holders, EntryInv, TypeOK
<1>6. EntryExclusive'
  BY <1>2, <1>5 DEF EntryInv, EntryExclusive
<1>7. \A u \in Threads \ {t} : (Owns(u)' <=> Owns(u)) /\ (Owns(u) => Handle[u] # h)
  BY <1>1 DEF EntryInv, TypeOK, OwnersExclusive, Owns, Locked
<1>8. Owns(t)' => after'[t] = "free"
  BY DEF EntryInv, TypeOK, Owns
<1>9. OwnersExclusive'
  BY <1>1, <1>2, <1>7, <1>8 DEF EntryInv, TypeOK, OwnersExclusive
<1>10. FreeEntriesEmpty'
  BY <1>1, <1>2, <1>9 DEF EntryInv, TypeOK, FreeEntriesEmpty, OwnersExclusive, Owns
<1> QED
  BY <1>3, <1>4, <1>6, <1>9, <1>10 DEF EntryInv

(* An owner puts the entry on the free list, or a thread takes it off.     *)
LEMMA AllocationInv ==
    ASSUME EntryInv, NEW t \in Threads, ExpFreeHandleTableEntry(t) \/ ExCreateHandle(t)
    PROVE  EntryInv'
<1> USE DEF ExpFreeHandleTableEntry, ExCreateHandle, Goto, blocks, walk, locals
<1>1. TypeOK'
  BY DEF EntryInv, TypeOK, Walking
<1>2. LocalsInUse'
  BY DEF EntryInv, TypeOK, LocalsInUse, Unblocks, Walking
<1>3. \A h \in Handles : Holders(h)' = Holders(h)
  BY DEF Holders, EntryInv, TypeOK
<1>4. EntryExclusive'
  BY <1>3 DEF EntryInv, EntryExclusive
<1>5. CASE ExpFreeHandleTableEntry(t)
  <2>1. Owns(t) /\ ~Owns(t)' /\ \A u \in Threads \ {t} : Owns(u)' <=> Owns(u)
    BY <1>5 DEF EntryInv, TypeOK, LocalsInUse, Unblocks, Walking, Owns
  <2>2. OwnersExclusive'
    BY <1>5, <2>1 DEF EntryInv, TypeOK, OwnersExclusive
  <2>3. FreeEntriesEmpty'
    BY <1>5, <2>1 DEF EntryInv, TypeOK, OwnersExclusive, FreeEntriesEmpty
  <2> QED
    BY <1>1, <1>2, <1>4, <2>2, <2>3 DEF EntryInv
<1>6. CASE ExCreateHandle(t)
  <2>1. PICK h \in Handles \ allocated :
           /\ allocated' = allocated \cup {h}
           /\ Handle' = [Handle EXCEPT ![t] = h]
    BY <1>6
  <2>2. \A u \in Threads \ {t} : (Owns(u)' <=> Owns(u)) /\ Handle'[u] = Handle[u]
    BY <1>6, <2>1 DEF EntryInv, TypeOK, Owns
  <2>3. Handle'[t] = h /\ Entry'[h] = NULL
    BY <1>6, <2>1 DEF EntryInv, TypeOK, FreeEntriesEmpty
  <2>4. OwnersExclusive'
    BY <1>6, <2>1, <2>2, <2>3 DEF EntryInv, TypeOK, OwnersExclusive
  <2>5. FreeEntriesEmpty'
    BY <1>6, <2>1, <2>4 DEF EntryInv, TypeOK, FreeEntriesEmpty, OwnersExclusive, Owns
  <2> QED
    BY <1>1, <1>2, <1>4, <2>4, <2>5 DEF EntryInv
<1> QED
  BY <1>5, <1>6

(* The owner of a new entry writes a locked value and is its holder.       *)
LEMMA WriteEntryInv == ASSUME EntryInv, NEW t \in Threads, WriteEntry(t) PROVE EntryInv'
<1> USE DEF WriteEntry, Goto, blocks, walk, locals
<1> DEFINE h == Handle[t]
<1>1. h \in Handles /\ Owns(t) /\ h \in allocated /\ Entry[h] = NULL
  BY DEF EntryInv, TypeOK, OwnersExclusive, Owns
<1>2. /\ Entry'[h] \in Values /\ Locked(Entry'[h])
      /\ \A g \in Handles \ {h} : Entry'[g] = Entry[g]
      /\ Entry' \in [Handles -> Values \cup {NULL}]
  <2>1. PICK o \in Objects : Entry' = [Entry EXCEPT ![h] = [Object |-> o, lockBit |-> FALSE]]
    OBVIOUS
  <2>2. [Object |-> o, lockBit |-> FALSE] \in Values
    BY DEF Values
  <2>3. NULL \notin Values
    BY NULLAssumption DEF Values
  <2> QED
    BY <1>1, <2>1, <2>2, <2>3 DEF EntryInv, TypeOK, Locked
<1>3. TypeOK'
  BY <1>2 DEF EntryInv, TypeOK, Walking
<1>4. LocalsInUse'
  BY DEF EntryInv, TypeOK, LocalsInUse, Unblocks, Walking
<1>5. Holders(h)' = {t} /\ \A g \in Handles \ {h} : Holders(g)' = Holders(g)
  <2>1. Holders(h) = {}
    BY <1>1 DEF EntryInv, EntryExclusive, Locked
  <2> QED
    BY <2>1 DEF Holders, EntryInv, TypeOK
<1>6. EntryExclusive'
  BY <1>2, <1>5 DEF EntryInv, EntryExclusive
<1>7. ~Owns(t)' /\ \A u \in Threads \ {t} : (Owns(u)' <=> Owns(u)) /\ (Owns(u) => Handle[u] # h)
  BY <1>1 DEF EntryInv, TypeOK, LocalsInUse, Unblocks, Walking, OwnersExclusive, Owns
<1>8. OwnersExclusive'
  BY <1>2, <1>7 DEF EntryInv, TypeOK, OwnersExclusive
<1>9. FreeEntriesEmpty'
  BY <1>1, <1>2, <1>8 DEF EntryInv, TypeOK, FreeEntriesEmpty, OwnersExclusive, Owns
<1> QED
  BY <1>3, <1>4, <1>6, <1>8, <1>9 DEF EntryInv

LEMMA NextInv == EntryInv /\ [Next]_vars => EntryInv'
<1> SUFFICES ASSUME EntryInv, [Next]_vars PROVE EntryInv'
  OBVIOUS
<1>1. CASE UNCHANGED vars
  BY <1>1 DEF vars, table, blocks, walk, locals, EntryInv, TypeOK, EntryExclusive, Holders,
              FreeEntriesEmpty, LocalsInUse, OwnersExclusive, Owns
<1>2. CASE Next
  BY <1>2, WaitingInv, UnblockingInv, LockEntryInv, ReleaseInv, AllocationInv, WriteEntryInv
     DEF Next, Continue, Blocking, Holding
<1> QED
  BY <1>1, <1>2

-----------------------------------------------------------------------------
(* EntryInv holds in every state of a handle table.                        *)
THEOREM Invariance == Spec => []EntryInv
  BY InitInv, NextInv, PTL DEF Spec

(* The entries, the wait blocks and the threads' locals keep their types;  *)
(* an unblocker that is in its list is at a block.                         *)
THEOREM TypeCorrect == Spec => []TypeOK
<1>1. EntryInv => TypeOK
  BY DEF EntryInv
<1> QED
  BY <1>1, Invariance, PTL

(* ExpLockHandleTableEntry gives an entry to one thread at a time, also    *)
(* when the entry is destroyed and used for another object meanwhile.      *)
THEOREM LockSafe == Spec => []EntryExclusive
<1>1. EntryInv => EntryExclusive
  BY DEF EntryInv
<1> QED
  BY <1>1, Invariance, PTL

(* ExpFreeHandleTableEntry is reached with an entry without object, and no *)
(* entry that the allocator may hand out has one.                          *)
THEOREM FreeSafe == Spec => []FreeEntriesEmpty
<1>1. EntryInv => FreeEntriesEmpty
  BY DEF EntryInv
<1> QED
  BY <1>1, Invariance, PTL
==============================================================================
