--------------------------- MODULE HandleListProofs ---------------------------
(***************************************************************************)
(* Proofs about the lists of wait blocks of HandleEntry, for any threads.  *)
(* The blocks in the lists are exactly those of the threads that nobody    *)
(* has told to go on, no list runs into another or into itself, and so an  *)
(* unblocker that follows the links touches only frames that exist.        *)
(***************************************************************************)
EXTENDS HandleEntryProofs

Links == [Threads -> Threads \cup {NULL}]

-----------------------------------------------------------------------------
(* What is reached by following links.                                     *)

LEMMA ReachedClosed ==
    ASSUME NEW link \in Links, NEW b \in Threads
    PROVE  /\ ReachedBy(link, b) \subseteq Threads
           /\ b \in ReachedBy(link, b)
           /\ Closed(link, ReachedBy(link, b))
<1>1. b # NULL
  BY NULLAssumption
<1>2. ReachedBy(link, b) =
         {x \in Threads : \A S \in SUBSET Threads : b \in S /\ Closed(link, S) => x \in S}
  BY <1>1 DEF ReachedBy
<1>3. ASSUME NEW x \in ReachedBy(link, b), link[x] # NULL
      PROVE  link[x] \in ReachedBy(link, b)
  <2>1. x \in Threads /\ link[x] \in Threads
    BY <1>2, <1>3 DEF Links
  <2>2. \A S \in SUBSET Threads : b \in S /\ Closed(link, S) => link[x] \in S
    BY <1>2, <1>3 DEF Closed
  <2> QED
    BY <1>2, <2>1, <2>2
<1>4. Closed(link, ReachedBy(link, b))
  BY <1>3 DEF Closed
<1> QED
  BY <1>2, <1>4

LEMMA ReachedLeast ==
    ASSUME NEW link \in Links, NEW b \in Threads,
           NEW S \in SUBSET Threads, b \in S, Closed(link, S)
    PROVE  ReachedBy(link, b) \subseteq S
  BY NULLAssumption DEF ReachedBy

LEMMA NothingReached == ASSUME NEW link PROVE ReachedBy(link, NULL) = {}
  BY DEF ReachedBy

(* A block reaches itself and what the next one reaches.                   *)
LEMMA ReachedStep ==
    ASSUME NEW link \in Links, NEW b \in Threads
    PROVE  ReachedBy(link, b) = {b} \cup ReachedBy(link, link[b])
<1> DEFINE R == ReachedBy(link, b)
           N == ReachedBy(link, link[b])
<1>1. R \subseteq Threads /\ b \in R /\ Closed(link, R)
  BY ReachedClosed
<1>2. CASE link[b] = NULL
  <2>1. N = {}
    BY <1>2, NothingReached
  <2>2. Closed(link, {b})
    BY <1>2 DEF Closed
  <2> QED
    BY <1>1, <2>1, <2>2, ReachedLeast
<1>3. CASE link[b] # NULL
  <2>1. link[b] \in Threads
    BY <1>3 DEF Links
  <2>2. N \subseteq Threads /\ link[b] \in N /\ Closed(link, N)
    BY <2>1, ReachedClosed
  <2>3. Closed(link, {b} \cup N)
    BY <2>2 DEF Closed
  <2>4. R \subseteq {b} \cup N
    BY <2>2, <2>3, ReachedLeast
  <2>5. link[b] \in R
    BY <1>1, <1>3 DEF Closed
  <2>6. N \subseteq R
    BY <1>1, <2>1, <2>5, ReachedLeast
  <2> QED
    BY <1>1, <2>4, <2>6
<1> QED
  BY <1>2, <1>3

(* A list does not change when links outside it do.                        *)
LEMMA ReachedFrame ==
    ASSUME NEW old \in Links, NEW new \in Links, NEW b \in Threads \cup {NULL},
           \A x \in ReachedBy(old, b) : new[x] = old[x]
    PROVE  ReachedBy(new, b) = ReachedBy(old, b)
<1>1. CASE b = NULL
  BY <1>1, NothingReached
<1>2. CASE b \in Threads
  <2> DEFINE O == ReachedBy(old, b)
             N == ReachedBy(new, b)
  <2>1. O \subseteq Threads /\ b \in O /\ Closed(old, O)
    BY <1>2, ReachedClosed
  <2>2. N \subseteq Threads /\ b \in N /\ Closed(new, N)
    BY <1>2, ReachedClosed
  <2>3. Closed(new, O)
    BY <2>1 DEF Closed
  <2>4. N \subseteq O
    BY <1>2, <2>1, <2>3, ReachedLeast
  <2>5. Closed(old, N)
    BY <2>2, <2>4 DEF Closed
  <2>6. O \subseteq N
    BY <1>2, <2>2, <2>5, ReachedLeast
  <2> QED
    BY <2>4, <2>6
<1> QED
  BY <1>1, <1>2

-----------------------------------------------------------------------------
(* The lists of a state.                                                   *)

(* What an unblocker has left is what its current block reaches.           *)
LEMMA LeftIs == TypeOK /\ BlockState => \A u \in Threads : Left(u) = ReachedBy(Link, WaitBlock[u])
<1> SUFFICES ASSUME TypeOK, BlockState, NEW u \in Threads
             PROVE  Left(u) = ReachedBy(Link, WaitBlock[u])
  OBVIOUS
<1>1. CASE pc[u] = "readNext"
  BY <1>1 DEF Left, Reached
<1>2. CASE pc[u] \in {"resetBit", "signal"}
  <2>1. WaitBlock[u] \in Threads /\ Link \in Links /\ NextWaitBlock[u] = Link[WaitBlock[u]]
    BY <1>2 DEF TypeOK, Walking, BlockState, Links
  <2>2. Left(u) = {WaitBlock[u]} \cup ReachedBy(Link, Link[WaitBlock[u]])
    BY <1>2, <2>1 DEF Left, Reached
  <2> QED
    BY <2>1, <2>2, ReachedStep
<1>3. CASE pc[u] \notin Walking
  <2>1. WaitBlock[u] = NULL
    BY <1>3 DEF TypeOK
  <2>2. Left(u) = {}
    BY <1>3 DEF Left, Walking
  <2> QED
    BY <2>1, <2>2, NothingReached
<1> QED
  BY <1>1, <1>2, <1>3 DEF Walking

LEMMA LeftIsNext ==
    (TypeOK /\ BlockState)' => \A u \in Threads : Left(u)' = ReachedBy(Link', WaitBlock'[u])
<1>1. (TypeOK /\ BlockState => \A u \in Threads : Left(u) = ReachedBy(Link, WaitBlock[u]))'
  BY LeftIs, PTL
<1> QED
  BY <1>1

(* The threads that are in the call and that nobody has told to go on.     *)
Pending(t) == Flags[t] \/ (pc[t] = "wait" /\ ~WakeEvent[t])
WaitingThreads == {t \in Threads : InBlockCall(t) /\ Pending(t)}

(* TouchesLiveBlocks and NoWaiterLost together: the lists have the blocks  *)
(* of those threads.                                                       *)
LEMMA ListedIs ==
    ASSUME Listed \subseteq Threads
    PROVE  TouchesLiveBlocks /\ NoWaiterLost <=> Listed = WaitingThreads
  BY DEF TouchesLiveBlocks, NoWaiterLost, Listed, WaitingThreads, Pending

LEMMA ListedAreThreads == TypeOK /\ BlockState => Listed \subseteq Threads
<1> SUFFICES ASSUME TypeOK, BlockState PROVE Listed \subseteq Threads
  OBVIOUS
<1>1. Queued \subseteq Threads
  BY DEF Queued, Reached, ReachedBy
<1>2. \A u \in Threads : Left(u) \subseteq Threads
  BY LeftIs DEF ReachedBy
<1> QED
  BY <1>1, <1>2 DEF Listed

(* The parts of ListInv that are about the lists, in a form that follows   *)
(* from what a step does to them.                                          *)
ListParts == /\ TypeOK /\ BlockState /\ OwnTaken /\ NoCycle /\ OneList /\ WakeupPending
             /\ Listed = WaitingThreads

LEMMA ListPartsIs == ListInv <=> EntryInv /\ ListParts
<1>1. TypeOK /\ BlockState => (TouchesLiveBlocks /\ NoWaiterLost <=> Listed = WaitingThreads)
  BY ListedIs, ListedAreThreads
<1> QED
  BY <1>1 DEF ListInv, ListParts, WaitersListed, EntryInv

LEMMA ListPartsIsNext == ListInv' <=> EntryInv' /\ ListParts'
  BY ListPartsIs, PTL

(* A thread whose block is in a list is in the call: it is not about to    *)
(* prepare or push its block, and an unblocker's block is in its list.     *)
LEMMA ListedBlock ==
    ASSUME ListInv, NEW u \in Threads, pc[u] \in Walking
    PROVE  /\ WaitBlock[u] \in Threads
           /\ WaitBlock[u] \in Left(u)
           /\ WaitBlock[u] \in WaitingThreads
           /\ pc[WaitBlock[u]] \notin {"block", "push"}
<1>1. WaitBlock[u] \in Threads /\ Link \in Links /\ TypeOK /\ BlockState
  BY DEF ListInv, EntryInv, TypeOK, Links
<1>2. WaitBlock[u] \in Left(u)
  BY <1>1, LeftIs, ReachedClosed
<1>3. WaitBlock[u] \in WaitingThreads
  BY <1>2, ListPartsIs DEF ListParts, Listed
<1>4. pc[WaitBlock[u]] \notin {"block", "push"}
  BY <1>1, <1>3 DEF WaitingThreads, InBlockCall, ListInv, EntryInv, LocalsInUse, Unblocks, Walking
<1> QED
  BY <1>1, <1>2, <1>3, <1>4

LEMMA NotListed ==
    ASSUME ListInv, NEW t \in Threads, pc[t] \in {"block", "push"}
    PROVE  t \notin Listed /\ \A u \in Threads : WaitBlock[u] # t
<1>1. ~InBlockCall(t)
  BY DEF InBlockCall, ListInv, EntryInv, LocalsInUse, Unblocks, Walking
<1>2. t \notin Listed
  BY <1>1, ListPartsIs DEF ListParts, WaitingThreads
<1>3. \A u \in Threads : WaitBlock[u] # t
  BY ListedBlock, NULLAssumption DEF ListInv, EntryInv, TypeOK
<1> QED
  BY <1>2, <1>3

-----------------------------------------------------------------------------
(* BlockState, step by step. An unblocker resets the bit or sets the event *)
(* of a block that is in its list, whose thread therefore waits.           *)

LEMMA BlockingState == ASSUME ListInv, NEW t \in Threads, Blocking(t), TypeOK' PROVE BlockState'
<1> USE DEF Goto, table, blocks, walk, locals
<1>1. TypeOK /\ BlockState
  BY DEF ListInv, EntryInv
<1>2. \A u \in Threads : pc[u] \in {"resetBit", "signal"} => WaitBlock[u] \in Threads
  BY <1>1 DEF TypeOK, Walking
<1>3. CASE ReadEntry(t) \/ LockEntry(t) \/ Recheck(t)
  BY <1>1, <1>3 DEF ReadEntry, LockEntry, Recheck, TypeOK, BlockState
<1>4. CASE ExBlockPushLock(t)
  <2>1. \A u \in Threads : WaitBlock[u] # t
    BY <1>4, NotListed DEF ExBlockPushLock
  <2> QED
    BY <1>1, <1>2, <1>4, <2>1 DEF ExBlockPushLock, TypeOK, BlockState
<1>5. CASE PushBlock(t)
  <2>1. \A u \in Threads : WaitBlock[u] # t
    BY <1>5, NotListed DEF PushBlock
  <2> QED
    BY <1>1, <1>2, <1>5, <2>1 DEF PushBlock, TypeOK, BlockState
<1>6. CASE InitializeEvent(t)
  BY <1>1, <1>6 DEF InitializeEvent, TypeOK, BlockState
<1>7. CASE ResetOwnBit(t)
  BY <1>1, <1>2, <1>7 DEF ResetOwnBit, TypeOK, BlockState
<1>8. CASE KeWaitForSingleObject(t)
  BY <1>1, <1>8 DEF KeWaitForSingleObject, TypeOK, BlockState
<1> QED
  BY <1>3, <1>4, <1>5, <1>6, <1>7, <1>8 DEF Blocking

LEMMA UnblockingState == ASSUME ListInv, NEW t \in Threads, Unblocking(t), TypeOK' PROVE BlockState'
<1> USE DEF Goto, table, blocks, walk, locals
<1>1. TypeOK /\ BlockState
  BY DEF ListInv, EntryInv
<1>2. \A u \in Threads : pc[u] \in {"resetBit", "signal"} => WaitBlock[u] \in Threads
  BY <1>1 DEF TypeOK, Walking
<1>3. CASE TakeList(t)
  BY <1>1, <1>3 DEF TakeList, TypeOK, BlockState
<1>4. CASE ReadNext(t)
  BY <1>1, <1>4 DEF ReadNext, TypeOK, BlockState
<1>5. CASE ResetBit(t)
  <2> DEFINE b == WaitBlock[t]
  <2>1. b \in Threads /\ pc[b] \notin {"block", "push"}
    BY <1>5, ListedBlock DEF ResetBit, Walking
  <2>2. CASE Flags[b]
    BY <1>1, <1>2, <1>5, <2>1, <2>2 DEF ResetBit, Advance, TypeOK, BlockState
  <2>3. CASE ~Flags[b]
    BY <1>1, <1>2, <1>5, <2>1, <2>3 DEF ResetBit, TypeOK, BlockState
  <2> QED
    BY <2>2, <2>3
<1>6. CASE SignalEvent(t)
  <2> DEFINE b == WaitBlock[t]
  <2>1. b \in Threads /\ ~Flags[b] /\ b \in WaitingThreads
    BY <1>1, <1>6, ListedBlock DEF SignalEvent, Walking, BlockState
  <2>2. pc[b] = "wait"
    BY <2>1 DEF WaitingThreads, Pending
  <2> QED
    BY <1>1, <1>2, <1>6, <2>1, <2>2 DEF SignalEvent, Advance, TypeOK, BlockState
<1>7. CASE Unblocked(t)
  BY <1>1, <1>7 DEF Unblocked, TypeOK, BlockState
<1> QED
  BY <1>3, <1>4, <1>5, <1>6, <1>7 DEF Unblocking

LEMMA HoldingState ==
    ASSUME ListInv, NEW t \in Threads, BeginLock(t) \/ ExCreateHandle(t) \/ Holding(t), TypeOK'
    PROVE  BlockState'
  BY DEF ListInv, EntryInv, TypeOK, BlockState, Goto, table, blocks, walk, locals, BeginLock,
         ExCreateHandle, Holding, ExUnlockHandleTableEntry, ExDestroyHandle,
         ExpFreeHandleTableEntry, WriteEntry

-----------------------------------------------------------------------------
(* A step that changes neither the newest block nor the links nor where an *)
(* unblocker is leaves the lists as they are.                              *)
LEMMA KeepsLists ==
    ASSUME ListInv, EntryInv', BlockState', UNCHANGED <<HandleContentionEvent, Link, WaitBlock>>
    PROVE  /\ Queued' = Queued /\ Listed' = Listed
           /\ NoCycle' /\ OneList'
<1>1. TypeOK /\ BlockState /\ TypeOK'
  BY DEF ListInv, EntryInv
<1>2. Queued' = Queued
  BY DEF Queued, Reached
<1>3. \A u \in Threads : Left(u)' = Left(u)
  BY <1>1, LeftIs, LeftIsNext
<1>4. Listed' = Listed
  BY <1>2, <1>3 DEF Listed
<1>5. NoCycle'
  BY <1>4 DEF ListInv, NoCycle, Reached
<1>6. OneList'
  BY <1>2, <1>3 DEF ListInv, WaitersListed, OneList
<1> QED
  BY <1>2, <1>4, <1>5, <1>6

(* Such a step, when nobody starts or stops to wait.                       *)
LEMMA KeepsListParts ==
    ASSUME ListInv, EntryInv', BlockState', UNCHANGED <<HandleContentionEvent, Link, WaitBlock>>,
           WaitingThreads' = WaitingThreads,
           \A u \in Threads :
              /\ after'[u] = "ownBlock" /\ pc'[u] # "unblock" =>
                    after[u] = "ownBlock" /\ pc[u] # "unblock",
           \A u \in Queued : pc'[u] \in {"initEvent", "resetOwnBit", "wait"} =>
              \/ Locked(Entry'[Handle'[u]])
              \/ \E w \in Threads : pc'[w] = "unblock"
    PROVE  ListInv'
<1>1. /\ Queued' = Queued /\ Listed' = Listed
      /\ NoCycle' /\ OneList'
  BY KeepsLists
<1>2. Listed' = WaitingThreads'
  BY <1>1, ListPartsIs DEF ListParts
<1>3. OwnTaken'
  BY <1>1 DEF ListInv, OwnTaken
<1>4. WakeupPending'
  BY <1>1 DEF WakeupPending
<1> QED
  BY <1>1, <1>2, <1>3, <1>4, ListPartsIsNext DEF ListParts, EntryInv

-----------------------------------------------------------------------------
(* The steps of the threads that ask for entries.                          *)

WaitPlaces == {"initEvent", "resetOwnBit", "wait"}

LEMMA OutsideInv ==
    ASSUME ListInv, EntryInv', BlockState', NEW t \in Threads,
           BeginLock(t) \/ ExCreateHandle(t) \/ Holding(t) \/ ReadEntry(t) \/ LockEntry(t)
              \/ ExBlockPushLock(t)
    PROVE  ListInv'
<1> USE DEF BeginLock, ExCreateHandle, Holding, ExUnlockHandleTableEntry, ExDestroyHandle,
            ExpFreeHandleTableEntry, WriteEntry, ReadEntry, LockEntry, ExBlockPushLock,
            Goto, table, blocks, walk, locals
<1>1. EntryInv /\ TypeOK /\ LocalsInUse
  BY DEF ListInv, EntryInv
<1>2. UNCHANGED <<HandleContentionEvent, Link, WaitBlock>>
  OBVIOUS
<1>3. /\ ~InBlockCall(t) /\ ~InBlockCall(t)'
      /\ pc'[t] \notin WaitPlaces /\ after'[t] # "ownBlock"
  BY <1>1 DEF InBlockCall, TypeOK, LocalsInUse, Unblocks, Walking, WaitPlaces
<1>4. \A u \in Threads \ {t} :
         /\ pc'[u] = pc[u] /\ after'[u] = after[u] /\ Handle'[u] = Handle[u]
         /\ Flags'[u] = Flags[u] /\ WakeEvent'[u] = WakeEvent[u]
  BY <1>1 DEF TypeOK
<1>5. WaitingThreads' = WaitingThreads
  BY <1>3, <1>4 DEF WaitingThreads, InBlockCall, Pending
<1>6. \A u \in Threads : after'[u] = "ownBlock" /\ pc'[u] # "unblock" =>
                            after[u] = "ownBlock" /\ pc[u] # "unblock"
  BY <1>3, <1>4
<1>7. \/ pc'[t] = "unblock"
      \/ \A h \in Handles : Locked(Entry[h]) => Locked(Entry'[h])
  <2>1. CASE ExUnlockHandleTableEntry(t) \/ ExDestroyHandle(t)
    BY <1>1, <2>1 DEF TypeOK
  <2>2. CASE WriteEntry(t)
    <3>1. PICK o \in Objects : Entry' = [Entry EXCEPT ![Handle[t]] = [Object |-> o, lockBit |-> FALSE]]
      BY <2>2
    <3>2. Locked([Object |-> o, lockBit |-> FALSE])
      <4>1. [Object |-> o, lockBit |-> FALSE] \in Values /\ NULL \notin Values
        BY NULLAssumption DEF Values
      <4> QED
        BY <4>1 DEF Locked
    <3> QED
      BY <1>1, <3>1, <3>2 DEF TypeOK
  <2>3. CASE LockEntry(t)
    <3>1. CASE Entry[Handle[t]] = OldValue[t]
      <4>1. Handle[t] \in Handles /\ Entry[Handle[t]] \in Values
        BY <1>1, <2>3, <3>1 DEF TypeOK, LocalsInUse, Unlocked
      <4>2. Locked([Entry[Handle[t]] EXCEPT !.lockBit = FALSE])
        BY <4>1, WithLockBit DEF Locked
      <4> QED
        BY <1>1, <2>3, <3>1, <4>1, <4>2 DEF TypeOK
    <3>2. CASE Entry[Handle[t]] # OldValue[t]
      BY <2>3, <3>2
    <3> QED
      BY <3>1, <3>2
  <2>4. CASE UNCHANGED Entry
    BY <2>4
  <2> QED
    BY <2>1, <2>2, <2>3, <2>4
<1>8. \A u \in Queued : pc'[u] \in WaitPlaces =>
         Locked(Entry'[Handle'[u]]) \/ \E w \in Threads : pc'[w] = "unblock"
  <2> SUFFICES ASSUME NEW u \in Queued, pc'[u] \in WaitPlaces,
                      \A w \in Threads : pc'[w] # "unblock"
               PROVE  Locked(Entry'[Handle'[u]])
    OBVIOUS
  <2>1. u \in Threads \ {t}
    BY <1>3 DEF Queued, Reached, ReachedBy
  <2>2. \A w \in Threads : pc[w] # "unblock"
    BY <1>4
  <2>3. Locked(Entry[Handle[u]]) /\ Handle[u] \in Handles
    BY <1>1, <1>4, <2>1, <2>2 DEF ListInv, WakeupPending, WaitPlaces, TypeOK
  <2> QED
    BY <1>4, <1>7, <2>1, <2>3
<1> QED
  BY <1>2, <1>5, <1>6, <1>8, KeepsListParts DEF WaitPlaces

(* The steps of a thread whose block was pushed.                           *)
LEMMA InsideInv ==
    ASSUME ListInv, EntryInv', BlockState', NEW t \in Threads,
           Recheck(t) \/ InitializeEvent(t) \/ ResetOwnBit(t) \/ KeWaitForSingleObject(t)
    PROVE  ListInv'
<1> USE DEF Recheck, InitializeEvent, ResetOwnBit, KeWaitForSingleObject,
            Goto, table, blocks, walk, locals
<1>1. EntryInv /\ TypeOK /\ LocalsInUse /\ BlockState
  BY DEF ListInv, EntryInv
<1>2. UNCHANGED <<HandleContentionEvent, Link, WaitBlock, Entry, Handle>>
  OBVIOUS
<1>3. \A u \in Threads \ {t} :
         /\ pc'[u] = pc[u] /\ after'[u] = after[u]
         /\ Flags'[u] = Flags[u] /\ WakeEvent'[u] = WakeEvent[u]
  BY <1>1 DEF TypeOK
<1>4. t \in WaitingThreads' <=> t \in WaitingThreads
  <2>1. CASE Recheck(t)
    BY <1>1, <2>1 DEF TypeOK, WaitingThreads, InBlockCall, Pending
  <2>2. CASE InitializeEvent(t)
    BY <1>1, <2>2 DEF TypeOK, WaitingThreads, InBlockCall, Pending
  <2>3. CASE ResetOwnBit(t)
    BY <1>1, <2>3 DEF TypeOK, WaitingThreads, InBlockCall, Pending, BlockState, LocalsInUse,
                      Unblocks, Walking
  <2>4. CASE KeWaitForSingleObject(t)
    BY <1>1, <2>4 DEF TypeOK, WaitingThreads, InBlockCall, Pending, BlockState, LocalsInUse,
                      Unblocks, Walking
  <2> QED
    BY <2>1, <2>2, <2>3, <2>4
<1>5. WaitingThreads' = WaitingThreads
  BY <1>3, <1>4 DEF WaitingThreads, InBlockCall, Pending
<1>6. \A u \in Threads : after'[u] = "ownBlock" /\ pc'[u] # "unblock" =>
                            after[u] = "ownBlock" /\ pc[u] # "unblock"
  BY <1>1, <1>3 DEF TypeOK
<1>7. pc'[t] \in WaitPlaces => pc[t] \in WaitPlaces \/ Locked(Entry[Handle[t]])
  BY <1>1 DEF TypeOK, WaitPlaces
<1>8. \A u \in Queued : pc'[u] \in WaitPlaces =>
         Locked(Entry'[Handle'[u]]) \/ \E w \in Threads : pc'[w] = "unblock"
  <2> SUFFICES ASSUME NEW u \in Queued, pc'[u] \in WaitPlaces,
                      \A w \in Threads : pc'[w] # "unblock"
               PROVE  Locked(Entry'[Handle'[u]])
    OBVIOUS
  <2>1. u \in Threads
    BY DEF Queued, Reached, ReachedBy
  <2>2. \A w \in Threads : pc[w] # "unblock"
    BY <1>3
  <2> QED
    BY <1>2, <1>3, <1>7, <2>1, <2>2 DEF ListInv, WakeupPending, WaitPlaces
<1> QED
  BY <1>2, <1>5, <1>6, <1>8, KeepsListParts DEF WaitPlaces

-----------------------------------------------------------------------------
(* The steps of an unblocker that leave the lists alone.                   *)
LEMMA WalkingInv ==
    ASSUME ListInv, EntryInv', BlockState', NEW t \in Threads,
           ReadNext(t) \/ (ResetBit(t) /\ ~Flags[WaitBlock[t]]) \/ Unblocked(t)
    PROVE  ListInv'
<1> USE DEF Goto, table, blocks, walk, locals
<1>1. EntryInv /\ TypeOK /\ LocalsInUse /\ OwnTaken
  BY DEF ListInv, EntryInv
<1>2. /\ UNCHANGED <<HandleContentionEvent, Link, WaitBlock, Entry, Handle, WakeEvent>>
      /\ \A u \in Threads : pc'[u] = "unblock" <=> pc[u] = "unblock"
      /\ \A u \in Threads \ {t} : pc'[u] = pc[u] /\ after'[u] = after[u]
      /\ pc[t] \in Unblocks
  BY <1>1 DEF ReadNext, ResetBit, Unblocked, TypeOK, Unblocks, Walking
<1>3. UNCHANGED Flags
  <2>1. CASE ResetBit(t) /\ ~Flags[WaitBlock[t]]
    <3>1. WaitBlock[t] \in Threads
      BY <1>1, <2>1 DEF ResetBit, TypeOK, Walking
    <3> QED
      BY <1>1, <2>1, <3>1 DEF ResetBit, TypeOK
  <2> QED
    BY <2>1 DEF ReadNext, Unblocked
<1>4. /\ t \in WaitingThreads' <=> t \in WaitingThreads
      /\ after'[t] = "ownBlock" => after[t] = "ownBlock"
      /\ pc'[t] \in WaitPlaces => after[t] = "ownBlock" /\ pc[t] # "unblock"
  <2>1. CASE Unblocked(t)
    BY <1>1, <1>3, <2>1 DEF Unblocked, TypeOK, WaitingThreads, InBlockCall, Pending, WaitPlaces
  <2>2. CASE ReadNext(t) \/ ResetBit(t)
    BY <1>1, <1>2, <1>3, <2>2
       DEF ReadNext, ResetBit, Advance, TypeOK, WaitingThreads, InBlockCall, Pending, WaitPlaces,
           Unblocks, Walking
  <2> QED
    BY <2>1, <2>2
<1>5. WaitingThreads' = WaitingThreads
  BY <1>2, <1>3, <1>4 DEF WaitingThreads, InBlockCall, Pending
<1>6. \A u \in Threads : after'[u] = "ownBlock" /\ pc'[u] # "unblock" =>
                            after[u] = "ownBlock" /\ pc[u] # "unblock"
  BY <1>2, <1>4
<1>7. \A u \in Queued : pc'[u] \in WaitPlaces =>
         Locked(Entry'[Handle'[u]]) \/ \E w \in Threads : pc'[w] = "unblock"
  <2> SUFFICES ASSUME NEW u \in Queued, pc'[u] \in WaitPlaces
               PROVE  Locked(Entry[Handle[u]]) \/ \E w \in Threads : pc[w] = "unblock"
    BY <1>2
  <2>1. u \in Threads
    BY DEF Queued, Reached, ReachedBy
  <2>2. u # t
    BY <1>1, <1>4, <2>1 DEF OwnTaken
  <2> QED
    BY <1>2, <2>1, <2>2 DEF ListInv, WakeupPending, WaitPlaces
<1> QED
  BY <1>2, <1>5, <1>6, <1>7, KeepsListParts DEF WaitPlaces

(* The list is handed over whole.                                          *)
LEMMA TakeListInv ==
    ASSUME ListInv, EntryInv', BlockState', NEW t \in Threads, TakeList(t)
    PROVE  ListInv'
<1> USE DEF TakeList, Goto, table
<1>1. TypeOK /\ BlockState /\ TypeOK' /\ OneList
  BY DEF ListInv, EntryInv, WaitersListed
<1>2. Queued' = {}
  BY NothingReached DEF Queued, Reached
<1>3. Left(t) = {} /\ Left(t)' = Queued /\ \A u \in Threads \ {t} : Left(u)' = Left(u)
  <2>1. WaitBlock[t] = NULL
    BY <1>1 DEF TypeOK, Walking
  <2>2. WaitBlock'[t] = HandleContentionEvent /\ \A u \in Threads \ {t} : WaitBlock'[u] = WaitBlock[u]
    BY <1>1 DEF TypeOK
  <2> QED
    BY <1>1, <2>1, <2>2, LeftIs, LeftIsNext, NothingReached DEF Queued, Reached
<1>4. Listed' = Listed
  BY <1>2, <1>3 DEF Listed
<1>5. WaitingThreads' = WaitingThreads
  BY <1>1 DEF WaitingThreads, InBlockCall, Pending, TypeOK
<1>6. Listed' = WaitingThreads'
  BY <1>4, <1>5, ListPartsIs DEF ListParts
<1>7. NoCycle'
  BY <1>4 DEF ListInv, NoCycle, Reached
<1>8. OneList'
  BY <1>1, <1>2, <1>3 DEF OneList
<1>9. OwnTaken' /\ WakeupPending'
  BY <1>2 DEF OwnTaken, WakeupPending
<1> QED
  BY <1>1, <1>6, <1>7, <1>8, <1>9, ListPartsIsNext DEF ListParts

(* What a listed block reaches is listed.                                  *)
LEMMA ListedClosed ==
    ASSUME TypeOK, BlockState, NEW b \in Listed
    PROVE  b \in Threads /\ ReachedBy(Link, Link[b]) \subseteq Listed
<1>1. b \in Threads /\ Link \in Links
  BY ListedAreThreads DEF TypeOK, Links
<1>2. ASSUME NEW head \in Threads \cup {NULL}, b \in ReachedBy(Link, head)
      PROVE  ReachedBy(Link, b) \subseteq ReachedBy(Link, head)
  <2>1. head \in Threads
    BY <1>2, NothingReached
  <2> QED
    BY <1>1, <1>2, <2>1, ReachedClosed, ReachedLeast
<1>3. ReachedBy(Link, b) \subseteq Listed
  <2>1. CASE b \in Queued
    BY <1>2, <2>1 DEF Queued, Reached, Listed, TypeOK
  <2>2. CASE \E u \in Threads : b \in Left(u)
    <3>1. PICK u \in Threads : b \in Left(u)
      BY <2>2
    <3>2. Left(u) = ReachedBy(Link, WaitBlock[u]) /\ WaitBlock[u] \in Threads \cup {NULL}
      BY LeftIs DEF TypeOK
    <3> QED
      BY <1>2, <3>1, <3>2 DEF Listed
  <2> QED
    BY <2>1, <2>2 DEF Listed
<1> QED
  BY <1>1, <1>3, ReachedStep

(* A block that is in no list is linked in front of the newest one, or its *)
(* link is written in vain.                                                *)
LEMMA PushBlockInv ==
    ASSUME ListInv, EntryInv', BlockState', NEW t \in Threads, PushBlock(t)
    PROVE  ListInv'
<1> USE DEF PushBlock, Goto, table, walk
<1>1. /\ TypeOK /\ BlockState /\ LocalsInUse /\ TypeOK' /\ OneList /\ NoCycle
      /\ Link \in Links /\ Link' \in Links
  BY DEF ListInv, EntryInv, WaitersListed, TypeOK, Links
<1>2. t \notin Listed
  BY NotListed
<1>3. ASSUME NEW b \in Threads \cup {NULL}, t \notin ReachedBy(Link, b)
      PROVE  ReachedBy(Link', b) = ReachedBy(Link, b)
  <2>1. \A x \in ReachedBy(Link, b) : Link'[x] = Link[x]
    BY <1>1, <1>3 DEF ReachedBy, TypeOK
  <2> QED
    BY <1>1, <2>1, ReachedFrame
<1>4. \A u \in Threads : Left(u)' = Left(u)
  <2>1. \A u \in Threads : Left(u) = ReachedBy(Link, WaitBlock[u]) /\ t \notin Left(u)
    BY <1>1, <1>2, LeftIs DEF Listed
  <2>2. \A u \in Threads : Left(u)' = ReachedBy(Link', WaitBlock[u])
    BY <1>1, LeftIsNext
  <2>3. \A u \in Threads : WaitBlock[u] \in Threads \cup {NULL}
    BY <1>1 DEF TypeOK
  <2> QED
    BY <1>3, <2>1, <2>2, <2>3
<1>5. ReachedBy(Link', HandleContentionEvent) = Queued /\ t \notin Queued
  BY <1>1, <1>2, <1>3 DEF Queued, Reached, Listed, TypeOK
<1>6. \A b \in Listed : b \in Threads /\ Link'[b] = Link[b] /\ b \notin Reached(Link[b])'
  <2> SUFFICES ASSUME NEW b \in Listed
               PROVE  b \in Threads /\ Link'[b] = Link[b] /\ b \notin Reached(Link[b])'
    OBVIOUS
  <2>1. b \in Threads /\ t \notin ReachedBy(Link, Link[b]) /\ Link[b] \in Threads \cup {NULL}
    BY <1>1, <1>2, ListedClosed DEF Links
  <2>2. Link'[b] = Link[b]
    BY <1>1, <1>2, <2>1 DEF TypeOK
  <2>3. ReachedBy(Link', Link'[b]) = ReachedBy(Link, Link[b])
    BY <1>3, <2>1, <2>2
  <2> QED
    BY <1>1, <2>1, <2>2, <2>3 DEF NoCycle, Reached
<1>7. \A u \in Threads \ {t} : /\ pc'[u] = pc[u] /\ after'[u] = after[u] /\ Flags'[u] = Flags[u]
                               /\ WakeEvent'[u] = WakeEvent[u] /\ Handle'[u] = Handle[u]
  BY <1>1 DEF TypeOK
<1>8. after[t] = "idle" /\ after'[t] = "idle" /\ Flags'[t] /\ pc'[t] \in {"push", "recheck"}
  BY <1>1 DEF TypeOK, LocalsInUse, Unblocks, Walking, BlockState
<1>9. CASE HandleContentionEvent = OldBlock[t]
  <2>1. HandleContentionEvent' = t /\ Link'[t] = HandleContentionEvent /\ pc'[t] = "recheck"
    BY <1>1, <1>9 DEF TypeOK
  <2>2. Queued' = {t} \cup Queued
    BY <1>1, <1>5, <2>1, ReachedStep, ZenonT(40) DEF Queued, Reached
  <2>3. Listed' = {t} \cup Listed
    BY <1>4, <2>2 DEF Listed
  <2>4. WaitingThreads' = {t} \cup WaitingThreads
    BY <1>7, <1>8, <2>1 DEF WaitingThreads, InBlockCall, Pending
  <2>5. NoCycle'
    BY <1>5, <1>6, <2>1, <2>3 DEF NoCycle, Reached
  <2>6. OneList'
    BY <1>1, <1>2, <1>4, <2>2 DEF OneList, Listed
  <2>7. OwnTaken'
    BY <1>7, <1>8, <2>2 DEF ListInv, OwnTaken
  <2>8. WakeupPending'
    BY <1>7, <2>1, <2>2 DEF ListInv, WakeupPending, Queued, Reached, ReachedBy
  <2> QED
    BY <1>1, <2>3, <2>4, <2>5, <2>6, <2>7, <2>8, ListPartsIs, ListPartsIsNext DEF ListParts
<1>10. CASE HandleContentionEvent # OldBlock[t]
  <2>1. HandleContentionEvent' = HandleContentionEvent /\ pc' = pc
    BY <1>10
  <2>2. Queued' = Queued /\ Listed' = Listed
    BY <1>4, <1>5, <2>1 DEF Queued, Reached, Listed
  <2>3. WaitingThreads' = WaitingThreads
    BY <2>1 DEF WaitingThreads, InBlockCall, Pending
  <2>4. NoCycle'
    BY <1>6, <2>2 DEF NoCycle
  <2>5. OneList'
    BY <1>1, <1>4, <2>2 DEF OneList
  <2>6. OwnTaken' /\ WakeupPending'
    BY <2>1, <2>2 DEF ListInv, OwnTaken, WakeupPending
  <2> QED
    BY <1>1, <2>2, <2>3, <2>4, <2>5, <2>6, ListPartsIs, ListPartsIsNext DEF ListParts
<1> QED
  BY <1>9, <1>10

(* The block that an unblocker is done with leaves its list, at the moment *)
(* that its thread may go on.                                              *)
LEMMA AdvanceInv ==
    ASSUME ListInv, EntryInv', BlockState', NEW t \in Threads,
           (ResetBit(t) /\ Flags[WaitBlock[t]]) \/ SignalEvent(t)
    PROVE  ListInv'
<1> DEFINE b == WaitBlock[t]
<1>1. /\ TypeOK /\ BlockState /\ LocalsInUse /\ TypeOK' /\ OneList /\ NoCycle
      /\ Link \in Links
  BY DEF ListInv, EntryInv, WaitersListed, TypeOK, Links
<1>2. /\ Advance(t) /\ pc[t] \in {"resetBit", "signal"}
      /\ UNCHANGED <<Entry, HandleContentionEvent, Link, Handle>>
  BY DEF ResetBit, SignalEvent, table
<1>3. b \in Threads /\ b \in Left(t) /\ b \in WaitingThreads
  BY <1>2, ListedBlock DEF Walking
<1>4. WaitBlock'[t] = Link[b] /\ \A u \in Threads \ {t} : WaitBlock'[u] = WaitBlock[u]
  BY <1>1, <1>2 DEF Advance, TypeOK, BlockState
<1>5. Left(t)' = Left(t) \ {b} /\ \A u \in Threads \ {t} : Left(u)' = Left(u)
  <2>1. b \notin ReachedBy(Link, Link[b])
    BY <1>1, <1>3 DEF NoCycle, Listed, Reached
  <2>2. Left(t) = {b} \cup ReachedBy(Link, Link[b])
    BY <1>1, <1>3, LeftIs, ReachedStep
  <2> QED
    BY <1>1, <1>2, <1>4, <2>1, <2>2, LeftIs, LeftIsNext
<1>6. Queued' = Queued
  BY <1>2 DEF Queued, Reached
<1>7. Listed' = Listed \ {b}
  BY <1>1, <1>3, <1>5, <1>6 DEF Listed, OneList
<1>8. /\ \A u \in Threads \ {t} : pc'[u] = pc[u]
      /\ pc'[t] \in {"readNext", "unblocked"} /\ after' = after
  BY <1>1, <1>2 DEF Advance, Goto, TypeOK
<1>9. /\ \A u \in Threads \ {b} : Flags'[u] = Flags[u] /\ WakeEvent'[u] = WakeEvent[u]
      /\ ~Flags'[b] /\ ~(pc'[b] = "wait" /\ ~WakeEvent'[b])
  <2>1. CASE ResetBit(t) /\ Flags[b]
    <3>1. pc[b] # "wait"
      BY <1>1, <1>3, <2>1 DEF BlockState
    <3> QED
      BY <1>1, <1>3, <1>8, <2>1, <3>1 DEF ResetBit, TypeOK
  <2>2. CASE SignalEvent(t)
    BY <1>1, <1>3, <2>2 DEF SignalEvent, BlockState, TypeOK
  <2> QED
    BY <2>1, <2>2
<1>10. \A u \in Threads \ {b} : u \in WaitingThreads' <=> u \in WaitingThreads
  BY <1>2, <1>8, <1>9 DEF WaitingThreads, InBlockCall, Pending
<1>11. WaitingThreads' = WaitingThreads \ {b}
  BY <1>3, <1>9, <1>10 DEF WaitingThreads, Pending
<1>12. NoCycle'
  BY <1>1, <1>2, <1>7 DEF NoCycle, Reached
<1>13. OneList'
  BY <1>1, <1>5, <1>6 DEF OneList
<1>14. \A u \in Threads : pc'[u] = "unblock" <=> pc[u] = "unblock"
  BY <1>2, <1>8
<1>15. OwnTaken'
  BY <1>6, <1>8, <1>14 DEF ListInv, OwnTaken
<1>16. Queued \subseteq Threads /\ \A u \in Threads : pc'[u] \in WaitPlaces => pc[u] \in WaitPlaces
  BY <1>8 DEF WaitPlaces, Queued, Reached, ReachedBy
<1>17. WakeupPending'
  BY <1>2, <1>6, <1>14, <1>16 DEF ListInv, WakeupPending, WaitPlaces
<1> QED
  BY <1>1, <1>7, <1>11, <1>12, <1>13, <1>15, <1>17, ListPartsIs, ListPartsIsNext
     DEF ListParts

-----------------------------------------------------------------------------
LEMMA InitListInv == Init => ListInv
<1> SUFFICES ASSUME Init PROVE ListInv
  OBVIOUS
<1>1. EntryInv
  BY InitInv
<1>2. BlockState
  BY DEF Init, BlockState
<1>3. Queued = {} /\ \A u \in Threads : Left(u) = {}
  <2>1. TypeOK
    BY <1>1 DEF EntryInv
  <2> QED
    BY <1>2, <2>1, LeftIs, NothingReached DEF Init, Queued, Reached
<1>4. OwnTaken /\ NoCycle /\ TouchesLiveBlocks /\ OneList /\ WakeupPending
  BY <1>3 DEF OwnTaken, NoCycle, Listed, TouchesLiveBlocks, OneList, WakeupPending
<1>5. NoWaiterLost
  BY DEF Init, NoWaiterLost, InBlockCall
<1> QED
  BY <1>1, <1>2, <1>4, <1>5 DEF ListInv, WaitersListed

LEMMA NextListInv == ListInv /\ [Next]_vars => ListInv'
<1> SUFFICES ASSUME ListInv, [Next]_vars PROVE ListInv'
  OBVIOUS
<1>1. EntryInv'
  BY NextInv DEF ListInv
<1>2. TypeOK'
  BY <1>1 DEF EntryInv
<1>3. CASE UNCHANGED vars
  <2>1. BlockState'
    BY <1>3 DEF ListInv, BlockState, vars, table, blocks, walk, locals
  <2>2. WaitingThreads' = WaitingThreads
    BY <1>3 DEF WaitingThreads, InBlockCall, Pending, vars, table, blocks, walk, locals
  <2> QED
    BY <1>1, <1>3, <2>1, <2>2, KeepsListParts
       DEF ListInv, WakeupPending, vars, table, blocks, walk, locals
<1>4. CASE Next
  <2>1. PICK t \in Threads : BeginLock(t) \/ ExCreateHandle(t) \/ Continue(t)
    BY <1>4 DEF Next
  <2>2. BlockState'
    BY <1>2, <2>1, BlockingState, UnblockingState, HoldingState DEF Continue
  <2>3. CASE BeginLock(t) \/ ExCreateHandle(t) \/ Holding(t)
    BY <1>1, <2>2, <2>3, OutsideInv
  <2>4. CASE Blocking(t)
    BY <1>1, <2>2, <2>4, OutsideInv, InsideInv, PushBlockInv DEF Blocking
  <2>5. CASE Unblocking(t)
    BY <1>1, <2>2, <2>5, WalkingInv, TakeListInv, AdvanceInv DEF Unblocking
  <2> QED
    BY <2>1, <2>3, <2>4, <2>5 DEF Continue
<1> QED
  BY <1>3, <1>4

(* ListInv holds in every state of a handle table.                         *)
THEOREM ListInvariance == Spec => []ListInv
  BY InitListInv, NextListInv, PTL DEF Spec

(* ExfUnblockPushLock only resets bits and sets events of wait blocks that *)
(* are still on the stack of their threads, however many threads unblock   *)
(* at once.                                                                *)
THEOREM FramesSafe == Spec => []TouchesLiveBlocks
<1>1. ListInv => TouchesLiveBlocks
  BY DEF ListInv
<1> QED
  BY <1>1, ListInvariance, PTL

(* Every thread that waits for an entry is in exactly one list until it is *)
(* unblocked, and is unblocked once.                                       *)
THEOREM NoneLost == Spec => []WaitersListed
<1>1. ListInv => WaitersListed
  BY DEF ListInv
<1> QED
  BY <1>1, ListInvariance, PTL

(* No unlock is missed: a thread that went to wait after its recheck is    *)
(* taken along by an unblocker, or its entry is locked.                    *)
THEOREM NoWakeupMissed == Spec => []WakeupPending
<1>1. ListInv => WakeupPending
  BY DEF ListInv
<1> QED
  BY <1>1, ListInvariance, PTL
==============================================================================
