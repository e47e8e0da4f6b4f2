---------------------------- MODULE PushLockProofs ----------------------------
(***************************************************************************)
(* Proofs about PushLock, for any finite set of threads.                   *)
(***************************************************************************)
EXTENDS PushLock, FiniteSetTheorems, TLAPS

-----------------------------------------------------------------------------
(* What the parts of an action do, thread by thread.                       *)

Keeps(t, f, g) == \A u \in Threads : u # t => g[u] = f[u]

LEMMA GotoDoes ==
    ASSUME pc \in [Threads -> Labels], NEW t \in Threads, NEW label \in Labels, Goto(t, label)
    PROVE  pc' \in [Threads -> Labels] /\ pc'[t] = label /\ Keeps(t, pc, pc')
  BY DEF Goto, Keeps

LEMMA FrameDoes ==
    ASSUME frame \in [Threads -> FrameType], NEW t \in Threads, NEW f \in FrameType,
           frame' = [frame EXCEPT ![t] = f]
    PROVE  frame' \in [Threads -> FrameType] /\ frame'[t] = f /\ Keeps(t, frame, frame')
  BY DEF Keeps

LEMMA HoldDoes ==
    ASSUME held \in [Threads -> Modes], NEW t \in Threads, NEW mode \in Modes, Hold(t, mode)
    PROVE  held' \in [Threads -> Modes] /\ held'[t] = mode /\ Keeps(t, held, held')
  BY DEF Hold, Keeps

LEMMA FreeType == Free \in WordType /\ SharedOnce \in WordType
  BY DEF Free, SharedOnce, WordType

LEMMA NoFrameType == /\ NoFrame \in FrameType /\ NoFrame.call = "none"
                     /\ NoFrame.WaitBlock = NULL /\ NoFrame.OldValue = Free
  BY FreeType DEF NoFrame, FrameType

LEMMA NoBlockType == NoBlock \in WaitBlockType
  BY DEF NoBlock, WaitBlockType

LEMMA ReturnDoes ==
    ASSUME TypeOK, NEW t \in Threads, Return(t)
    PROVE  /\ pc' \in [Threads -> Labels] /\ pc'[t] = "idle" /\ Keeps(t, pc, pc')
           /\ frame' \in [Threads -> FrameType] /\ frame'[t] = NoFrame /\ Keeps(t, frame, frame')
<1>1. "idle" \in Labels
  BY DEF Labels
<1> QED
  BY <1>1, GotoDoes, FrameDoes, NoFrameType DEF Return, TypeOK

LEMMA SlowPathDoes ==
    ASSUME TypeOK, NEW t \in Threads, NEW api \in Ops \cup {"ReleaseWaitOn"}, SlowPath(t, api)
    PROVE  /\ pc' \in [Threads -> Labels] /\ pc'[t] = "read" /\ Keeps(t, pc, pc')
           /\ frame' \in [Threads -> FrameType] /\ frame'[t].call = api /\ Keeps(t, frame, frame')
<1>1. "read" \in Labels
  BY DEF Labels
<1> DEFINE f == [NoFrame EXCEPT !.call = api]
<1>2. f \in FrameType /\ f.call = api
  BY NoFrameType DEF FrameType
<1> QED
  BY <1>1, <1>2, GotoDoes, FrameDoes DEF SlowPath, TypeOK

LEMMA ReadDoes ==
    ASSUME TypeOK, NEW t \in Threads, Read(t)
    PROVE  /\ frame' \in [Threads -> FrameType] /\ Keeps(t, frame, frame')
           /\ frame'[t].call = frame[t].call /\ frame'[t].OldValue = PushLock
           /\ frame[t].call \notin Acquiring => frame'[t].WaitBlock = PushLock.Block
<1>1. PushLock \in WordType /\ PushLock.Block \in Threads \cup {NULL} /\ frame \in [Threads -> FrameType]
  BY DEF TypeOK, WordType
<1> DEFINE w == IF frame[t].call \in Acquiring THEN NULL ELSE PushLock.Block
<1>2. w \in Threads \cup {NULL} /\ frame' = [frame EXCEPT ![t].OldValue = PushLock, ![t].WaitBlock = w]
  BY <1>1 DEF Read
<1>3. frame[t].call \notin Acquiring => w = PushLock.Block
  OBVIOUS
<1> HIDE DEF w
<1>4. /\ frame' \in [Threads -> FrameType] /\ Keeps(t, frame, frame')
      /\ frame'[t].call = frame[t].call /\ frame'[t].OldValue = PushLock /\ frame'[t].WaitBlock = w
  BY <1>1, <1>2 DEF Keeps, FrameType
<1> QED
  BY <1>3, <1>4

LEMMA WalkFromDoes ==
    ASSUME TypeOK, NEW t \in Threads, NEW v \in WordType, NEW label \in Labels, WalkFrom(t, v, label)
    PROVE  /\ pc' \in [Threads -> Labels] /\ pc'[t] = label /\ Keeps(t, pc, pc')
           /\ frame' \in [Threads -> FrameType] /\ Keeps(t, frame, frame')
           /\ frame'[t].call = frame[t].call /\ frame'[t].WakeValue = v /\ frame'[t].WaitBlock = v.Block
<1>1. v.Block \in Threads \cup {NULL} /\ frame \in [Threads -> FrameType]
  BY DEF TypeOK, WordType
<1>2. frame' = [frame EXCEPT ![t].WakeValue = v, ![t].WaitBlock = v.Block]
  BY DEF WalkFrom
<1>3. /\ frame' \in [Threads -> FrameType] /\ Keeps(t, frame, frame')
      /\ frame'[t].call = frame[t].call /\ frame'[t].WakeValue = v /\ frame'[t].WaitBlock = v.Block
  BY <1>1, <1>2 DEF Keeps, FrameType
<1>4. pc' \in [Threads -> Labels] /\ pc'[t] = label /\ Keeps(t, pc, pc')
  BY GotoDoes DEF WalkFrom, TypeOK
<1> QED
  BY <1>3, <1>4

LEMMA CursorDoes ==
    ASSUME TypeOK, NEW t \in Threads, NEW b \in Threads \cup {NULL},
           frame' = [frame EXCEPT ![t].WaitBlock = b]
    PROVE  /\ frame' \in [Threads -> FrameType] /\ Keeps(t, frame, frame')
           /\ frame'[t].call = frame[t].call /\ frame'[t].WaitBlock = b
           /\ frame'[t].OldValue = frame[t].OldValue /\ frame'[t].WakeValue = frame[t].WakeValue
           /\ frame'[t].PreviousWaitBlock = frame[t].PreviousWaitBlock
  BY DEF Keeps, TypeOK, FrameType

LEMMA OldValueDoes ==
    ASSUME TypeOK, NEW t \in Threads, NEW v \in WordType,
           frame' = [frame EXCEPT ![t].OldValue = v]
    PROVE  /\ frame' \in [Threads -> FrameType] /\ Keeps(t, frame, frame')
           /\ frame'[t].call = frame[t].call /\ frame'[t].OldValue = v
<1> DEFINE f == [frame[t] EXCEPT !.OldValue = v]
<1>1. f \in FrameType /\ f.call = frame[t].call /\ f.OldValue = v
  BY DEF TypeOK, FrameType
<1>2. frame' = [frame EXCEPT ![t] = f]
  OBVIOUS
<1> HIDE DEF f
<1> QED
  BY <1>1, <1>2, FrameDoes DEF TypeOK

LEMMA LeaveWakeDoes ==
    ASSUME TypeOK, NEW t \in Threads, LeaveWake(t)
    PROVE  /\ pc' \in [Threads -> Labels] /\ Keeps(t, pc, pc')
           /\ frame' \in [Threads -> FrameType] /\ Keeps(t, frame, frame')
           /\ frame[t].call \in Acquiring => pc'[t] = "testWait" /\ frame'[t].call = frame[t].call
           /\ frame[t].call \notin Acquiring => pc'[t] = "idle" /\ frame'[t] = NoFrame
<1>1. CASE frame[t].call \in Acquiring
  <2>1. "testWait" \in Labels /\ Goto(t, "testWait")
    BY <1>1 DEF Labels, LeaveWake
  <2> DEFINE f == [frame[t] EXCEPT !.WakeValue = Free, !.WaitBlock = NULL, !.PreviousWaitBlock = NULL]
  <2>2. f \in FrameType /\ f.call = frame[t].call
    BY FreeType DEF TypeOK, FrameType
  <2>3. frame' = [frame EXCEPT ![t] = f]
    BY <1>1 DEF LeaveWake
  <2> HIDE DEF f
  <2> QED
    BY <1>1, <2>1, <2>2, <2>3, GotoDoes, FrameDoes DEF TypeOK
<1>2. CASE frame[t].call \notin Acquiring
  BY <1>2, ReturnDoes DEF LeaveWake
<1> QED
  BY <1>1, <1>2

-----------------------------------------------------------------------------
(* A calm step of a thread leaves the list, the blocks and the gates alone.*)

Moves(t) == /\ pc' \in [Threads -> Labels] /\ Keeps(t, pc, pc')
            /\ frame' \in [Threads -> FrameType] /\ Keeps(t, frame, frame')
            /\ held' \in [Threads -> Modes] /\ Keeps(t, held, held')

AtGates == {"gate", "signalGate"}

Signaling == {"clearWaking", "signal", "signalGate"}

(* What was known about several sharers is forgotten only when the last    *)
(* one leaves and no block has a share count.                              *)
SharersKnown(t) ==
    \/ PushLock'.MultipleShared = PushLock.MultipleShared
    \/ /\ ~PushLock'.MultipleShared
       /\ \A u \in Threads : u # t => held[u] = "none"
       /\ \A b \in Threads : Block[b].ShareCount = 0

Calm(t) ==
    /\ Moves(t)
    /\ UNCHANGED <<Block, gate, queue, taken>>
    /\ PushLock' \in WordType
    /\ PushLock'.Waiting = PushLock.Waiting /\ PushLock'.Block = PushLock.Block
    /\ SharersKnown(t)
    /\ pc[t] \notin AtGates /\ pc'[t] \notin AtGates
    /\ pc'[t] \in Signaling => pc[t] \in Signaling /\ frame'[t].WaitBlock = frame[t].WaitBlock
    /\ pc[t] \in Signaling => pc'[t] \in Signaling
    /\ BlockInUse(t)' <=> BlockInUse(t)

(* What WakersInList says of one thread.                                   *)
WakerInList(t) ==
    /\ PushLock.MultipleShared => pc[t] \in {"optimizeWalk", "optimizeDone"}
    /\ pc[t] # "clearWaking" =>
           /\ \E k \in DOMAIN queue : WakerAt(t, k)
           /\ frame[t].WakeValue.Waiting
           /\ frame[t].WakeValue.Locked <=> pc[t] \in {"optimizeWalk", "optimizeDone", "wakeLocked"}
           /\ frame[t].WakeValue.MultipleShared => pc[t] \in {"optimizeWalk", "optimizeDone"}

LEMMA CalmType == ASSUME TypeOK, NEW t \in Threads, Calm(t) PROVE TypeOK'
  BY DEF TypeOK, Calm, Moves

LEMMA CalmInUse ==
    ASSUME NEW t \in Threads, Calm(t)
    PROVE  \A u \in Threads : BlockInUse(u)' <=> BlockInUse(u)
  BY DEF Calm, Moves, Keeps, BlockInUse

LEMMA CalmReleasers ==
    ASSUME NEW t \in Threads, NEW u \in Threads, u # t, Calm(t), CallInUse(u), ReleaserSees(u)
    PROVE  CallInUse(u)' /\ ReleaserSees(u)'
<1>1. pc'[u] = pc[u] /\ frame'[u] = frame[u] /\ held'[u] = held[u] /\ queue' = queue
  BY DEF Calm, Moves, Keeps
<1>2. CallInUse(u)'
  BY <1>1 DEF CallInUse
<1>3. CASE PushLock'.MultipleShared = PushLock.MultipleShared
  <2>1. PushLock'.Waiting = PushLock.Waiting
    BY DEF Calm
  <2> QED
    BY <1>1, <1>2, <1>3, <2>1 DEF ReleaserSees, Old, Cursor, Oldest, InSeq
<1>4. CASE held[u] = "none"
  <2>1. pc[u] \notin {"tryRelease", "release", "releaseCount", "unlock"}
    BY <1>4 DEF CallInUse
  <2> QED
    BY <1>1, <1>2, <2>1 DEF ReleaserSees, Old
<1> QED
  BY <1>3, <1>4 DEF Calm, SharersKnown

LEMMA CalmLinks ==
    ASSUME NEW t \in Threads, Calm(t), LinksMatchQueue, ListShape
    PROVE  LinksMatchQueue' /\ ListShape'
<1>1. queue' = queue /\ Block' = Block /\ PushLock'.Waiting = PushLock.Waiting /\ PushLock'.Block = PushLock.Block
  BY DEF Calm
<1>2. LinksMatchQueue'
  BY <1>1 DEF LinksMatchQueue, FirstWithLast, Oldest
<1>3. CASE PushLock'.MultipleShared = PushLock.MultipleShared
  BY <1>1, <1>2, <1>3 DEF ListShape, Oldest
<1>4. CASE ~PushLock'.MultipleShared /\ \A b \in Threads : Block[b].ShareCount = 0
  BY <1>1, <1>2, <1>4 DEF ListShape, Oldest
<1> QED
  BY <1>3, <1>4 DEF Calm, SharersKnown

LEMMA CalmTaken ==
    ASSUME NEW t \in Threads, Calm(t), SignalsWhatItTook, NoWaiterLost
    PROVE  SignalsWhatItTook' /\ NoWaiterLost'
<1>1. queue' = queue /\ Block' = Block /\ taken' = taken
  BY DEF Calm
<1>2. \A u \in Threads : pc[u] \in Signaling => pc'[u] \in Signaling
  BY DEF Calm, Moves, Keeps
<1>3. \A u \in Threads : BlockInUse(u)' <=> BlockInUse(u)
  BY CalmInUse
<1>4. NoWaiterLost'
  BY <1>1, <1>2, <1>3 DEF NoWaiterLost, Pending, InSeq, Distinct, Signaling
<1>5. \A u \in Threads : pc'[u] \in {"clearWaking", "signal"} =>
          pc[u] \in {"clearWaking", "signal"} /\ frame'[u].WaitBlock = frame[u].WaitBlock
  BY DEF Calm, Moves, Keeps, Signaling, AtGates
<1>6. SignalsWhatItTook'
  BY <1>1, <1>5 DEF SignalsWhatItTook, Cursor
<1> QED
  BY <1>4, <1>6

LEMMA CalmWakers ==
    ASSUME NEW t \in Threads, Calm(t), WakersInList, t \in Wakers' => WakerInList(t)'
    PROVE  WakersInList'
<1>1. queue' = queue /\ Block' = Block /\ (PushLock'.MultipleShared => PushLock.MultipleShared)
  BY DEF Calm, SharersKnown
<1>2. ASSUME NEW u \in Wakers', u # t PROVE WakerInList(u)'
  <2>1. pc'[u] = pc[u] /\ frame'[u] = frame[u] /\ u \in Threads /\ u \in Wakers
    BY <1>2 DEF Calm, Moves, Keeps, Wakers
  <2>2. WakerInList(u)
    BY <2>1 DEF WakersInList, WakerInList
  <2>3. \A k \in DOMAIN queue : WakerAt(u, k) => WakerAt(u, k)'
    BY <1>1, <2>1 DEF WakerAt, First, Cursor, InSeq, Oldest
  <2> QED
    BY <1>1, <2>1, <2>2, <2>3 DEF WakerInList
<1>3. \A u \in Wakers' : WakerInList(u)'
  BY <1>2
<1> QED
  BY <1>3 DEF WakersInList, WakerInList

LEMMA CalmSignals ==
    ASSUME TypeOK, NEW t \in Threads, Calm(t), SignalsInUse
    PROVE  SignalsInUse'
<1>1. gate' = gate /\ Block' = Block /\ taken' = taken
  BY DEF Calm
<1>2. \A u \in Threads : BlockInUse(u)' <=> BlockInUse(u)
  BY CalmInUse
<1>3. \A u \in Threads : /\ pc'[u] = "gate" <=> pc[u] = "gate"
                         /\ pc'[u] = "signalGate" <=> pc[u] = "signalGate"
                         /\ pc'[u] = "signalGate" => frame'[u] = frame[u]
  BY DEF Calm, Moves, Keeps, AtGates
<1>4. \A u \in Threads : pc[u] = "signalGate" => Cursor(u) \in Threads
  BY DEF SignalsInUse, TypeOK, Cursor, FrameType
<1>5. \A u \in Threads : pc'[u] = "signalGate" => Cursor(u)' = Cursor(u)
  BY <1>3 DEF Cursor
<1>6. \A u \in Threads : pc'[u] = "signalGate" =>
          /\ Cursor(u)' # NULL /\ pc'[Cursor(u)'] = "gate"
          /\ Block'[Cursor(u)'].Signaled /\ ~gate'[Cursor(u)']
          /\ frame'[u].PreviousWaitBlock = IF taken'[u] = <<>> THEN NULL ELSE taken'[u][1]
  BY <1>1, <1>3, <1>4, <1>5 DEF SignalsInUse
<1>7. \A u \in Threads :
          /\ BlockInUse(u)' => (Block'[u].Wait <=> pc'[u] # "gate" /\ ~Block'[u].Signaled)
          /\ gate'[u] => pc'[u] = "gate" /\ Block'[u].Signaled
  BY <1>1, <1>2, <1>3 DEF SignalsInUse
<1>8. \A u, v \in Threads :
          pc'[u] = "signalGate" /\ pc'[v] = "signalGate" /\ Cursor(u)' = Cursor(v)' => u = v
  BY <1>3, <1>5 DEF SignalsInUse
<1> QED
  BY <1>6, <1>7, <1>8 DEF SignalsInUse

(* So it is enough to look at the word, at who has Waking and at the       *)
(* thread itself.                                                          *)
LEMMA CalmStep ==
    ASSUME PushInv, NEW t \in Threads, Calm(t),
           CallInUse(t)', ReleaserSees(t)', WordExact', CountsHolders', OneWaker',
           t \in Wakers' => WakerInList(t)'
    PROVE  PushInv'
<1>1. TypeOK' /\ WakersInList' /\ SignalsInUse' /\ SignalsWhatItTook' /\ NoWaiterLost'
  BY CalmType, CalmWakers, CalmSignals, CalmTaken DEF PushInv, ListIntact
<1>2. LinksMatchQueue' /\ ListShape'
  BY CalmLinks DEF PushInv, ListIntact
<1>3. \A u \in Threads : CallInUse(u)' /\ ReleaserSees(u)'
  BY CalmReleasers DEF PushInv
<1> QED
  BY <1>1, <1>2, <1>3 DEF PushInv, ListIntact

-----------------------------------------------------------------------------
(* The word and the holders.                                               *)

LEMMA SharersFinite == IsFiniteSet(Sharers) /\ Cardinality(Sharers) \in Nat
  BY NullAssumption, FS_Subset, FS_CardinalityType DEF Sharers

LEMMA NoSharers == Cardinality(Sharers) = 0 <=> Sharers = {}
  BY SharersFinite, FS_EmptySet

LEMMA OneSharer == Cardinality(Sharers) = 1 <=> \E t \in Threads : Sharers = {t}
<1>1. Cardinality(Sharers) = 1 <=> \E t : Sharers = {t}
  BY SharersFinite, FS_Singleton
<1> QED
  BY <1>1 DEF Sharers

(* The holders do not change, nor what the word says about them.           *)
LEMMA WordKept ==
    ASSUME WordExact, CountsHolders, NEW t \in Threads, Keeps(t, pc, pc'),
           pc[t] = "unlock" <=> pc'[t] = "unlock",
           held' = held, Block' = Block, queue' = queue,
           PushLock'.Locked = PushLock.Locked, PushLock'.Waiting = PushLock.Waiting,
           PushLock'.MultipleShared = PushLock.MultipleShared,
           PushLock'.Shared = PushLock.Shared, PushLock'.Block = PushLock.Block,
           PushLock'.Waking => PushLock.Waiting
    PROVE  WordExact' /\ CountsHolders'
<1>1. LastSharer' = LastSharer
  BY DEF LastSharer, Keeps
<1>2. Sharers' = Sharers
  BY DEF Sharers
<1>3. Oldest' = Oldest
  BY DEF Oldest
<1>4. WordExact'
  BY <1>1, <1>2, <1>3 DEF WordExact
<1>5. CountsHolders'
  BY <1>1, <1>2, <1>3 DEF CountsHolders
<1> QED
  BY <1>4, <1>5

LEMMA Unheld ==
    ASSUME TypeOK, WordExact, CountsHolders, ~PushLock.Locked
    PROVE  /\ \A u \in Threads : held[u] = "none"
           /\ Sharers = {} /\ LastSharer = {} /\ PushLock.Shared = 0 /\ ~PushLock.MultipleShared
<1>1. \A u \in Threads : held[u] = "none"
  BY DEF CountsHolders
<1>2. Sharers = {}
  BY <1>1 DEF Sharers
<1> QED
  BY <1>1, <1>2, NoSharers DEF WordExact, CountsHolders, LastSharer

(* A holder of a lock that is not shared is alone.                         *)
LEMMA HolderAlone ==
    ASSUME TypeOK, WordExact, NEW t \in Threads, held[t] # "none", Sharers \subseteq {t}
    PROVE  \A u \in Threads : u # t => held[u] = "none"
<1>1. ASSUME NEW u \in Threads, u # t, held[u] # "none" PROVE FALSE
  <2>1. held[u] # "shared"
    BY <1>1 DEF Sharers
  <2>2. held[u] = "exclusive"
    BY <1>1, <2>1 DEF TypeOK, Modes
  <2> QED
    BY <1>1, <2>2 DEF WordExact
<1> QED
  BY <1>1

LEMMA ExclusiveAlone ==
    ASSUME TypeOK, WordExact, CountsHolders, NEW t \in Threads, held[t] = "exclusive"
    PROVE  /\ Sharers = {} /\ LastSharer = {} /\ PushLock.Locked /\ PushLock.Shared = 0
           /\ ~PushLock.MultipleShared
           /\ \A u \in Threads : u # t => held[u] = "none"
<1>1. Sharers = {}
  BY DEF Sharers, WordExact
<1> QED
  BY <1>1, NoSharers, HolderAlone DEF WordExact, CountsHolders, LastSharer

LEMMA TakesExclusive ==
    ASSUME TypeOK, WordExact, CountsHolders, NEW t \in Threads, Moves(t), ~PushLock.Locked,
           PushLock' = [PushLock EXCEPT !.Locked = TRUE], held'[t] = "exclusive", pc'[t] # "unlock"
    PROVE  WordExact' /\ CountsHolders'
<1>1. /\ \A u \in Threads : held[u] = "none"
      /\ Sharers = {} /\ LastSharer = {} /\ PushLock.Shared = 0 /\ ~PushLock.MultipleShared
  BY Unheld
<1>2. \A u \in Threads : held'[u] # "none" <=> u = t
  BY <1>1 DEF Moves, Keeps
<1>3. Sharers' = {} /\ LastSharer' = {}
  BY <1>1, <1>2 DEF Sharers, LastSharer, Moves, Keeps
<1>4. Cardinality({}) = 0
  BY FS_EmptySet
<1>5. /\ PushLock'.Locked /\ PushLock'.Shared = 0 /\ ~PushLock'.MultipleShared
      /\ PushLock'.Waiting = PushLock.Waiting /\ PushLock'.Waking = PushLock.Waking
      /\ PushLock'.Block = PushLock.Block
  BY <1>1 DEF TypeOK, WordType
<1>6. WordExact'
  BY <1>2, <1>3, <1>5 DEF WordExact
<1>7. CountsHolders'
  BY <1>2, <1>3, <1>4, <1>5 DEF CountsHolders
<1> QED
  BY <1>6, <1>7

LEMMA TakesShared ==
    ASSUME TypeOK, WordExact, CountsHolders, NEW t \in Threads, Moves(t), SharedMayEnter(PushLock),
           PushLock' = [PushLock EXCEPT !.Locked = TRUE,
                                        !.Shared = IF PushLock.Waiting THEN @ ELSE @ + 1],
           held[t] = "none", held'[t] = "shared", pc'[t] # "unlock"
    PROVE  WordExact' /\ CountsHolders'
<1>1. ~PushLock.MultipleShared /\ LastSharer = {} /\ \A u \in Threads : held[u] # "exclusive"
  <2>1. CASE ~PushLock.Locked
    BY <2>1, Unheld DEF TypeOK
  <2>2. CASE ~PushLock.Waiting /\ PushLock.Shared > 0
    <3>1. Sharers # {}
      BY <2>2, NoSharers DEF CountsHolders
    <3>2. \A u \in Threads : held[u] # "exclusive"
      BY <3>1 DEF WordExact, Sharers
    <3> QED
      BY <2>2, <3>2 DEF WordExact
  <2> QED
    BY <2>1, <2>2 DEF SharedMayEnter
<1>2. Sharers' = Sharers \cup {t} /\ t \notin Sharers
  BY DEF Sharers, Moves, Keeps
<1>3. Cardinality(Sharers') = Cardinality(Sharers) + 1
  BY <1>2, SharersFinite, FS_AddElement
<1>4. LastSharer' = {}
  BY <1>1 DEF LastSharer, Moves, Keeps
<1>5. /\ PushLock'.Locked /\ ~PushLock'.MultipleShared
      /\ PushLock'.Waiting = PushLock.Waiting /\ PushLock'.Waking = PushLock.Waking
      /\ PushLock'.Block = PushLock.Block
      /\ PushLock'.Shared = IF PushLock.Waiting THEN PushLock.Shared ELSE PushLock.Shared + 1
  BY <1>1 DEF TypeOK, WordType
<1>6. PushLock.Waiting => Sharers = {}
  BY Unheld DEF SharedMayEnter
<1>7. \A u \in Threads : held'[u] # "exclusive"
  BY <1>1 DEF Moves, Keeps
<1>8. WordExact'
  BY <1>2, <1>4, <1>5, <1>6, <1>7 DEF WordExact
<1>9. PushLock.Waiting => Cardinality(Sharers') = 1
  BY <1>3, <1>6, NoSharers, SharersFinite
<1>10. CountsHolders'
  BY <1>3, <1>5, <1>9, SharersFinite DEF CountsHolders
<1> QED
  BY <1>8, <1>10

LEMMA Converts ==
    ASSUME TypeOK, WordExact, CountsHolders, NEW t \in Threads, Moves(t), PushLock = SharedOnce,
           PushLock' = [Free EXCEPT !.Locked = TRUE],
           held[t] = "shared", held'[t] = "exclusive", pc'[t] # "unlock"
    PROVE  WordExact' /\ CountsHolders'
<1>1. ~PushLock.Waiting /\ PushLock.Shared = 1
  BY DEF SharedOnce, Free
<1>2. Sharers = {t}
  <2>1. t \in Sharers
    BY DEF Sharers
  <2> QED
    BY <1>1, <2>1, OneSharer DEF CountsHolders
<1>3. \A u \in Threads : u # t => held[u] = "none"
  BY <1>2, HolderAlone
<1>4. \A u \in Threads : held'[u] # "none" <=> u = t
  BY <1>3 DEF Moves, Keeps
<1>5. Sharers' = {}
  BY <1>4 DEF Sharers
<1>6. LastSharer' = {}
  BY <1>1 DEF LastSharer, Moves, Keeps, WordExact
<1>7. /\ PushLock'.Locked /\ PushLock'.Shared = 0 /\ ~PushLock'.MultipleShared
      /\ ~PushLock'.Waiting /\ ~PushLock'.Waking /\ PushLock'.Block = NULL
  BY DEF Free
<1>8. Cardinality({}) = 0
  BY FS_EmptySet
<1>9. WordExact'
  BY <1>4, <1>5, <1>6, <1>7 DEF WordExact
<1>10. CountsHolders'
  BY <1>4, <1>5, <1>7, <1>8 DEF CountsHolders
<1> QED
  BY <1>9, <1>10

(* The only holder leaves.                                                 *)
LEMMA ReleasesAll ==
    ASSUME TypeOK, WordExact, CountsHolders, NEW t \in Threads, Moves(t),
           \A u \in Threads : u # t => held[u] = "none",
           held'[t] = "none", pc'[t] # "unlock",
           ~PushLock'.Locked, ~PushLock'.MultipleShared, PushLock'.Shared = 0,
           PushLock'.Waiting = PushLock.Waiting, PushLock'.Block = PushLock.Block,
           PushLock'.Waking => PushLock.Waiting
    PROVE  WordExact' /\ CountsHolders'
<1>1. \A u \in Threads : held'[u] = "none"
  BY DEF Moves, Keeps
<1>2. Sharers' = {}
  BY <1>1 DEF Sharers
<1>3. LastSharer' = {}
  BY DEF LastSharer, Moves, Keeps, WordExact, Sharers
<1>4. Cardinality({}) = 0
  BY FS_EmptySet
<1>5. WordExact'
  BY <1>1, <1>2, <1>3 DEF WordExact
<1>6. CountsHolders'
  BY <1>1, <1>2, <1>4 DEF CountsHolders
<1> QED
  BY <1>5, <1>6

(* One of several sharers leaves while nobody waits.                       *)
LEMMA ReleasesOne ==
    ASSUME TypeOK, WordExact, CountsHolders, NEW t \in Threads, Moves(t),
           ~PushLock.Waiting, PushLock.Shared > 1, held[t] # "none", held'[t] = "none", pc'[t] # "unlock",
           PushLock' = [PushLock EXCEPT !.Shared = @ - 1]
    PROVE  WordExact' /\ CountsHolders'
<1>1. PushLock.Shared = Cardinality(Sharers)
  BY DEF CountsHolders
<1>2. held[t] = "shared"
  BY ExclusiveAlone DEF TypeOK, Modes
<1>3. Sharers' = Sharers \ {t} /\ t \in Sharers
  BY <1>2 DEF Sharers, Moves, Keeps
<1>4. Cardinality(Sharers') = Cardinality(Sharers) - 1
  BY <1>3, SharersFinite, FS_RemoveElement
<1>5. ASSUME Sharers' = {} PROVE FALSE
  <2>1. Cardinality(Sharers') = 0
    BY <1>5, FS_EmptySet
  <2> QED
    BY <1>1, <1>4, <2>1, SharersFinite
<1>6. \A u \in Threads : held[u] # "exclusive"
  BY <1>3 DEF WordExact, Sharers
<1>7. \A u \in Threads : held'[u] # "exclusive"
  BY <1>6 DEF Moves, Keeps
<1>8. LastSharer' = {}
  BY DEF LastSharer, Moves, Keeps, WordExact
<1>9. /\ PushLock'.Locked = PushLock.Locked /\ PushLock'.MultipleShared = PushLock.MultipleShared
      /\ PushLock'.Waiting = PushLock.Waiting /\ PushLock'.Waking = PushLock.Waking
      /\ PushLock'.Block = PushLock.Block /\ PushLock'.Shared = PushLock.Shared - 1
  BY DEF TypeOK, WordType
<1>10. WordExact'
  BY <1>7, <1>8, <1>9 DEF WordExact
<1>11. \E u \in Threads : held'[u] # "none"
  BY <1>5 DEF Sharers
<1>12. PushLock.Locked
  BY <1>3 DEF CountsHolders, Sharers
<1>13. CountsHolders'
  BY <1>1, <1>4, <1>9, <1>11, <1>12 DEF CountsHolders, WordExact
<1> QED
  BY <1>10, <1>13

-----------------------------------------------------------------------------
(* Who has Waking.                                                         *)

WakerLabels == {"optimizeWalk", "optimizeDone", "wakeLocked", "wakeWalk", "wakePick", "clearWaking"}

LEMMA WakerKept ==
    ASSUME OneWaker, NEW t \in Threads, Keeps(t, pc, pc'),
           pc'[t] \in WakerLabels <=> pc[t] \in WakerLabels,
           PushLock'.Waking = PushLock.Waking, PushLock'.Waiting = PushLock.Waiting
    PROVE  OneWaker'
<1>1. Wakers' = Wakers
  BY DEF Wakers, WakerLabels, Keeps
<1> QED
  BY <1>1 DEF OneWaker

LEMMA WakerComes ==
    ASSUME OneWaker, NEW t \in Threads, Keeps(t, pc, pc'),
           pc'[t] \in WakerLabels, ~PushLock.Waking, PushLock'.Waking, PushLock'.Waiting
    PROVE  OneWaker'
<1>1. Wakers = {}
  BY DEF OneWaker
<1>2. Wakers' = {t}
  BY <1>1 DEF Wakers, WakerLabels, Keeps
<1> QED
  BY <1>2 DEF OneWaker

LEMMA WakerGoes ==
    ASSUME OneWaker, NEW t \in Threads, Keeps(t, pc, pc'),
           pc[t] \in WakerLabels, pc'[t] \notin WakerLabels, ~PushLock'.Waking
    PROVE  OneWaker'
<1>1. t \in Wakers /\ \A u \in Wakers : u = t
  BY DEF OneWaker, Wakers, WakerLabels
<1>2. Wakers' = {}
  BY <1>1 DEF Wakers, WakerLabels, Keeps
<1> QED
  BY <1>2 DEF OneWaker

(* A walk that begins at the newest block, with the word as it is.         *)
LEMMA WalkBegins ==
    ASSUME TypeOK', LinksMatchQueue', ListShape', NEW t \in Threads,
           frame'[t].WakeValue = PushLock', frame'[t].WaitBlock = PushLock'.Block,
           PushLock'.Waiting,
           \/ pc'[t] = "optimizeWalk" /\ PushLock'.Locked
           \/ pc'[t] = "wakeLocked" /\ PushLock'.Locked /\ ~PushLock'.MultipleShared
           \/ pc'[t] = "wakeWalk" /\ ~PushLock'.Locked /\ ~PushLock'.MultipleShared
    PROVE  WakerInList(t)'
<1>1. queue' # <<>> /\ PushLock'.Block = queue'[1] /\ Block'[queue'[1]].Previous = NULL
  BY DEF LinksMatchQueue, ListShape
<1>2. 1 \in DOMAIN queue' /\ Len(queue') \in Nat /\ Len(queue') >= 1
  BY <1>1 DEF TypeOK
<1>3. WakerAt(t, 1)'
  BY <1>1, <1>2 DEF WakerAt, First, Cursor, InSeq
<1> QED
  BY <1>2, <1>3 DEF WakerInList

-----------------------------------------------------------------------------
(* Steps that change nothing but a thread's place and its local variables. *)

Local(t) == /\ pc' \in [Threads -> Labels] /\ Keeps(t, pc, pc')
            /\ frame' \in [Threads -> FrameType] /\ Keeps(t, frame, frame')
            /\ UNCHANGED <<memory, history>>

Elsewhere == AtGates \cup Signaling \cup WakerLabels \cup {"unlock"}

LEMMA LocalStep ==
    ASSUME PushInv, NEW t \in Threads, Local(t),
           pc[t] \notin Elsewhere, pc'[t] \notin Elsewhere,
           BlockInUse(t)' <=> BlockInUse(t),
           CallInUse(t)', ReleaserSees(t)'
    PROVE  PushInv'
<1>1. Moves(t) /\ UNCHANGED <<PushLock, Block, gate, held, queue, taken>>
  BY DEF Local, Moves, memory, history, PushInv, TypeOK, Keeps
<1>2. Calm(t)
  BY <1>1 DEF Calm, SharersKnown, Elsewhere, PushInv, TypeOK
<1>3. pc[t] \notin WakerLabels /\ pc'[t] \notin WakerLabels /\ pc[t] # "unlock" /\ pc'[t] # "unlock"
  BY DEF Elsewhere
<1>4. OneWaker'
  BY <1>1, <1>3, WakerKept DEF PushInv, ListIntact, Moves
<1>5. PushLock'.Waking => PushLock.Waiting
  BY <1>1 DEF PushInv, ListIntact, OneWaker
<1>6. WordExact' /\ CountsHolders'
  BY <1>1, <1>3, <1>5, WordKept DEF PushInv, Moves
<1>7. t \notin Wakers'
  BY <1>3 DEF Wakers, WakerLabels
<1> QED
  BY <1>2, <1>4, <1>6, <1>7, CalmStep

LEMMA SlowPathInv ==
    ASSUME PushInv, NEW t \in Threads, NEW api \in Ops, pc[t] = "idle",
           IF held[t] = "none" THEN api \in Acquiring ELSE api = "ReleaseShared" /\ held[t] = "shared",
           SlowPath(t, api), UNCHANGED <<PushLock, Block, gate, held, history>>
    PROVE  PushInv'
<1>1. Local(t) /\ pc'[t] = "read" /\ frame'[t].call = api /\ held' = held
  BY SlowPathDoes DEF Local, memory, PushInv
<1>2. pc[t] \notin Elsewhere /\ pc'[t] \notin Elsewhere
  BY <1>1 DEF Elsewhere, AtGates, Signaling, WakerLabels
<1>3. frame[t].call = "none" /\ "none" \notin Acquiring
  BY DEF PushInv, CallInUse, Acquiring
<1>4. BlockInUse(t)' <=> BlockInUse(t)
  BY <1>1, <1>3 DEF BlockInUse
<1>5. CallInUse(t)'
  BY <1>1 DEF CallInUse
<1>6. ReleaserSees(t)'
  BY <1>1 DEF ReleaserSees
<1> QED
  BY <1>1, <1>2, <1>4, <1>5, <1>6, LocalStep

(* What a holder reads.                                                    *)
LEMMA ReadInv ==
    ASSUME PushInv, NEW t \in Threads, Local(t), held[t] # "none", pc[t] \in {"read", "release"},
           pc'[t] = "release", frame'[t].call = frame[t].call, frame'[t].OldValue = PushLock,
           frame'[t].WaitBlock = PushLock.Block
    PROVE  PushInv'
<1>0. held' = held /\ PushLock' = PushLock /\ queue' = queue
  BY DEF Local, memory, history
<1>1. pc[t] \notin Elsewhere /\ pc'[t] \notin Elsewhere
  BY DEF Elsewhere, AtGates, Signaling, WakerLabels
<1>2. frame[t].call \in {"ReleaseShared", "Release", "ReleaseWaitOn"} /\ CallInUse(t)
  BY DEF PushInv, CallInUse
<1>3. CallInUse(t)'
  BY <1>0, <1>2 DEF CallInUse
<1>4. BlockInUse(t)' <=> BlockInUse(t)
  BY <1>2 DEF BlockInUse, Acquiring
<1>5. PushLock.Locked
  BY DEF PushInv, CountsHolders
<1>6. frame[t].call = "ReleaseWaitOn" => PushLock.Shared = 0
  BY <1>2, ExclusiveAlone DEF CallInUse, PushInv
<1>7. PushLock.Waiting => InSeq(PushLock.Block, queue)
  <2>1. PushLock.Waiting => queue # <<>> /\ PushLock.Block = queue[1] /\ queue \in Seq(Threads)
    BY DEF PushInv, ListIntact, LinksMatchQueue, TypeOK
  <2> QED
    BY <2>1 DEF InSeq
<1>8. ReleaserSees(t)'
  BY <1>0, <1>5, <1>6, <1>7 DEF ReleaserSees, Old, Cursor, InSeq
<1> QED
  BY <1>1, <1>3, <1>4, <1>8, LocalStep

LEMMA ReadWordInv ==
    ASSUME PushInv, NEW t \in Threads, ReadWord(t)
    PROVE  PushInv'
<1> DEFINE label == IF frame[t].call \in Acquiring THEN "acquire" ELSE "release"
<1>1. label \in Labels /\ Goto(t, label)
  BY DEF ReadWord, Labels
<1>2. pc' \in [Threads -> Labels] /\ pc'[t] = label /\ Keeps(t, pc, pc')
  BY <1>1, GotoDoes DEF PushInv, TypeOK
<1>3. Local(t) /\ frame'[t].call = frame[t].call /\ frame'[t].OldValue = PushLock
      /\ (frame[t].call \notin Acquiring => frame'[t].WaitBlock = PushLock.Block)
  BY <1>2, ReadDoes DEF ReadWord, PushInv, Local
<1>4. held' = held /\ pc[t] = "read" /\ CallInUse(t)
  BY DEF ReadWord, memory, PushInv
<1>5. CASE frame[t].call \in Acquiring
  <2>1. pc'[t] = "acquire"
    BY <1>2, <1>5
  <2>2. pc[t] \notin Elsewhere /\ pc'[t] \notin Elsewhere
    BY <1>4, <2>1 DEF Elsewhere, AtGates, Signaling, WakerLabels
  <2>3. BlockInUse(t)' <=> BlockInUse(t)
    BY <1>4, <2>1 DEF BlockInUse
  <2>4. CallInUse(t)'
    BY <1>3, <1>4, <1>5, <2>1 DEF CallInUse, Acquiring
  <2>5. ReleaserSees(t)'
    BY <2>1 DEF ReleaserSees
  <2> QED
    BY <1>3, <2>2, <2>3, <2>4, <2>5, LocalStep
<1>6. CASE frame[t].call \notin Acquiring
  <2>1. pc'[t] = "release"
    BY <1>2, <1>6
  <2>2. held[t] # "none"
    BY <1>4, <1>6 DEF CallInUse
  <2> QED
    BY <1>3, <1>4, <1>6, <2>1, <2>2, ReadInv
<1> QED
  BY <1>5, <1>6

LEMMA RetryInv ==
    ASSUME PushInv, NEW t \in Threads, Retry(t), pc[t] \in {"acquire", "tryRelease"}
    PROVE  PushInv'
<1>1. "read" \in Labels /\ Goto(t, "read") /\ UNCHANGED <<memory, history>> /\ held' = held
  BY DEF Labels, Retry, memory
<1>2. pc' \in [Threads -> Labels] /\ pc'[t] = "read" /\ Keeps(t, pc, pc')
  BY <1>1, GotoDoes DEF PushInv, TypeOK
<1>3. /\ frame' \in [Threads -> FrameType] /\ Keeps(t, frame, frame')
      /\ frame'[t].call = frame[t].call
  BY FreeType, OldValueDoes DEF Retry, PushInv
<1>4. Local(t)
  BY <1>1, <1>2, <1>3 DEF Local
<1>5. pc[t] \notin Elsewhere /\ pc'[t] \notin Elsewhere
  BY <1>2 DEF Elsewhere, AtGates, Signaling, WakerLabels
<1>6. CallInUse(t) /\ frame[t].call \in Acquiring \cup {"Release"}
      /\ (pc[t] = "tryRelease" => frame[t].call \notin Acquiring)
  BY DEF PushInv, CallInUse, Acquiring
<1>7. CallInUse(t)'
  BY <1>1, <1>2, <1>3, <1>6 DEF CallInUse, Acquiring
<1>8. ReleaserSees(t)'
  BY <1>2 DEF ReleaserSees
<1>9. BlockInUse(t)' <=> BlockInUse(t)
  BY <1>2, <1>3, <1>6 DEF BlockInUse
<1> QED
  BY <1>4, <1>5, <1>7, <1>8, <1>9, LocalStep

LEMMA ReleaseBeginsInv ==
    ASSUME PushInv, NEW t \in Threads, ExReleasePushLock(t)
    PROVE  PushInv'
<1> DEFINE label == IF PushLock.Waiting THEN "read" ELSE "tryRelease"
           f == [NoFrame EXCEPT !.call = "Release", !.OldValue = PushLock]
<1>1. /\ pc[t] = "idle" /\ held[t] \in {"shared", "exclusive"} /\ "Release" \in Ops
      /\ Goto(t, label) /\ frame' = [frame EXCEPT ![t] = f]
      /\ UNCHANGED <<memory, history>> /\ held' = held /\ PushLock' = PushLock
  BY DEF ExReleasePushLock, Call, memory
<1>2. label \in Labels
  BY DEF Labels
<1>3. f \in FrameType /\ f.call = "Release" /\ f.OldValue = PushLock
  BY <1>1, NoFrameType DEF PushInv, TypeOK, FrameType
<1> HIDE DEF f
<1>4. pc' \in [Threads -> Labels] /\ pc'[t] = label /\ Keeps(t, pc, pc')
  BY <1>1, <1>2, GotoDoes DEF PushInv, TypeOK
<1>5. frame' \in [Threads -> FrameType] /\ frame'[t] = f /\ Keeps(t, frame, frame')
  BY <1>1, <1>3, FrameDoes DEF PushInv, TypeOK
<1>6. Local(t)
  BY <1>1, <1>4, <1>5 DEF Local
<1>7. pc[t] \notin Elsewhere /\ pc'[t] \notin Elsewhere
  BY <1>1, <1>4 DEF Elsewhere, AtGates, Signaling, WakerLabels
<1>8. frame[t].call = "none"
  BY <1>1 DEF PushInv, CallInUse
<1>9. BlockInUse(t)' <=> BlockInUse(t)
  BY <1>3, <1>5, <1>8 DEF BlockInUse, Acquiring
<1>10. CallInUse(t)'
  BY <1>1, <1>3, <1>4, <1>5 DEF CallInUse
<1>11. PushLock.Locked
  BY <1>1 DEF PushInv, CountsHolders
<1>12. ReleaserSees(t)'
  BY <1>3, <1>4, <1>5, <1>11 DEF ReleaserSees, Old
<1> QED
  BY <1>6, <1>7, <1>9, <1>10, <1>12, LocalStep

(* A sharer looks for the oldest block.                                    *)
LEMMA ReleaseWalkInv ==
    ASSUME PushInv, NEW t \in Threads, ReleaseWalk(t)
    PROVE  PushInv'
<1>1. /\ pc[t] = "release" /\ frame[t].call \in {"ReleaseShared", "Release"}
      /\ Old(t).Waiting /\ Old(t).MultipleShared
      /\ UNCHANGED <<memory, history>> /\ held' = held /\ PushLock' = PushLock /\ queue' = queue
  BY DEF ReleaseWalk, AtRelease, memory, history
<1>2. PushLock.MultipleShared /\ PushLock.Waiting /\ Old(t).Locked /\ CallInUse(t) /\ held[t] # "none"
  BY <1>1 DEF PushInv, ReleaserSees, CallInUse
<1>3. PICK i \in DOMAIN queue : queue[i] = Cursor(t)
  BY <1>1 DEF PushInv, ReleaserSees, InSeq
<1>4. queue \in Seq(Threads) /\ Len(queue) \in Nat /\ DOMAIN queue = 1 .. Len(queue)
      /\ Cursor(t) \in Threads /\ queue[Len(queue)] \in Threads
  BY <1>3 DEF PushInv, TypeOK
<1>5. Block[Cursor(t)].Last \in {NULL, Oldest}
  BY <1>2, <1>3 DEF PushInv, ListShape
<1>6. Block[Cursor(t)].Last = NULL => InSeq(Block[Cursor(t)].Next, queue) /\ Block[Cursor(t)].Next \in Threads
  <2>1. SUFFICES ASSUME Block[Cursor(t)].Last = NULL
                 PROVE  InSeq(Block[Cursor(t)].Next, queue) /\ Block[Cursor(t)].Next \in Threads
    OBVIOUS
  <2>2. Block[Oldest].Last = Oldest /\ Oldest \in Threads /\ Oldest # NULL
    BY <1>2, <1>4, NullAssumption DEF PushInv, ListShape, Oldest
  <2>3. i # Len(queue)
    BY <1>3, <2>1, <2>2 DEF Oldest
  <2>4. i \in 1 .. Len(queue) - 1
    BY <1>3, <1>4, <2>3
  <2>5. Block[Cursor(t)].Next = queue[i + 1]
    BY <1>3, <2>4 DEF PushInv, ListIntact, LinksMatchQueue
  <2>6. i + 1 \in DOMAIN queue
    BY <1>4, <2>4
  <2> QED
    BY <1>4, <2>5, <2>6 DEF InSeq
<1>7. /\ frame' \in [Threads -> FrameType] /\ Keeps(t, frame, frame') /\ frame'[t].call = frame[t].call
      /\ frame'[t].OldValue = frame[t].OldValue
      /\ pc' \in [Threads -> Labels] /\ Keeps(t, pc, pc')
      /\ \/ frame'[t].WaitBlock = Oldest /\ pc'[t] = "releaseCount"
         \/ InSeq(frame'[t].WaitBlock, queue) /\ pc'[t] = "release"
  <2>1. CASE /\ Block[Cursor(t)].Last # NULL
             /\ frame' = [frame EXCEPT ![t].WaitBlock = Block[Cursor(t)].Last]
             /\ Goto(t, "releaseCount")
    <3>1. Block[Cursor(t)].Last = Oldest /\ Oldest \in Threads
      BY <1>4, <1>5, <2>1 DEF Oldest
    <3>2. "releaseCount" \in Labels
      BY DEF Labels
    <3>3. /\ frame' \in [Threads -> FrameType] /\ Keeps(t, frame, frame') /\ frame'[t].call = frame[t].call
          /\ frame'[t].OldValue = frame[t].OldValue /\ frame'[t].WaitBlock = Oldest
      BY <2>1, <3>1, CursorDoes DEF PushInv
    <3> QED
      BY <2>1, <3>2, <3>3, GotoDoes DEF PushInv, TypeOK
  <2>2. CASE /\ Block[Cursor(t)].Last = NULL
             /\ frame' = [frame EXCEPT ![t].WaitBlock = Block[Cursor(t)].Next]
             /\ UNCHANGED pc
    <3>1. /\ frame' \in [Threads -> FrameType] /\ Keeps(t, frame, frame') /\ frame'[t].call = frame[t].call
          /\ frame'[t].OldValue = frame[t].OldValue /\ frame'[t].WaitBlock = Block[Cursor(t)].Next
      BY <1>6, <2>2, CursorDoes DEF PushInv
    <3> QED
      BY <1>1, <1>6, <2>2, <3>1 DEF PushInv, TypeOK, Keeps
  <2> QED
    BY <2>1, <2>2 DEF ReleaseWalk
<1>8. Local(t)
  BY <1>1, <1>7 DEF Local
<1>9. pc[t] \notin Elsewhere /\ pc'[t] \notin Elsewhere
  BY <1>1, <1>7 DEF Elsewhere, AtGates, Signaling, WakerLabels
<1>10. BlockInUse(t)' <=> BlockInUse(t)
  BY <1>1, <1>7 DEF BlockInUse, Acquiring
<1>11. CallInUse(t)'
  BY <1>1, <1>2, <1>7 DEF CallInUse
<1>12. ReleaserSees(t)'
  <2>1. frame'[t].OldValue.Waiting /\ frame'[t].OldValue.MultipleShared /\ frame'[t].OldValue.Locked
    BY <1>1, <1>2, <1>7 DEF Old
  <2> QED
    BY <1>1, <1>2, <1>7, <2>1 DEF ReleaserSees, Old, Cursor, Oldest, InSeq
<1> QED
  BY <1>8, <1>9, <1>10, <1>11, <1>12, LocalStep

LEMMA TryToWakeInv ==
    ASSUME PushInv, NEW t \in Threads, ExfTryToWakePushLock(t)
    PROVE  PushInv'
<1>1. /\ pc[t] = "tryWake" /\ UNCHANGED <<memory, history>> /\ held' = held
      /\ CallInUse(t) /\ frame[t].call = "none" /\ held[t] = "none"
  BY DEF ExfTryToWakePushLock, PushInv, CallInUse, memory
<1>2. /\ Local(t) /\ pc'[t] \in {"idle", "tryWakeSet"} /\ frame'[t].call = "none"
      /\ pc'[t] = "tryWakeSet" => /\ frame'[t].OldValue.Waiting /\ ~frame'[t].OldValue.Locked
                                  /\ ~frame'[t].OldValue.Waking
  <2>1. CASE Return(t)
    BY <1>1, <2>1, ReturnDoes, NoFrameType DEF Local, PushInv
  <2>2. CASE /\ frame' = [frame EXCEPT ![t].OldValue = PushLock] /\ Goto(t, "tryWakeSet")
             /\ PushLock.Waiting /\ ~PushLock.Locked /\ ~PushLock.Waking
    <3>1. "tryWakeSet" \in Labels
      BY DEF Labels
    <3>2. /\ frame' \in [Threads -> FrameType] /\ Keeps(t, frame, frame')
          /\ frame'[t].call = frame[t].call /\ frame'[t].OldValue = PushLock
      <4>1. TypeOK /\ PushLock \in WordType
        BY DEF PushInv, TypeOK
      <4> QED
        BY <2>2, <4>1, OldValueDoes
    <3> QED
      BY <1>1, <2>2, <3>1, <3>2, GotoDoes DEF PushInv, TypeOK, Local
  <2> QED
    BY <2>1, <2>2 DEF ExfTryToWakePushLock
<1>3. pc[t] \notin Elsewhere /\ pc'[t] \notin Elsewhere
  BY <1>1, <1>2 DEF Elsewhere, AtGates, Signaling, WakerLabels
<1>4. BlockInUse(t)' <=> BlockInUse(t)
  BY <1>1, <1>2 DEF BlockInUse, Acquiring
<1>5. CallInUse(t)' /\ ReleaserSees(t)'
  BY <1>1, <1>2 DEF CallInUse, ReleaserSees, Old
<1> QED
  BY <1>2, <1>3, <1>4, <1>5, LocalStep

(* A step to the start of the next call.                                   *)
LEMMA LocalReturnInv ==
    ASSUME PushInv, NEW t \in Threads, pc[t] = "tryWakeSet", Return(t), UNCHANGED <<memory, history>>
    PROVE  PushInv'
<1>1. Local(t) /\ pc'[t] = "idle" /\ frame'[t].call = "none" /\ held' = held
  BY ReturnDoes, NoFrameType DEF Local, PushInv, memory
<1>2. CallInUse(t) /\ frame[t].call = "none" /\ held[t] = "none"
  BY DEF PushInv, CallInUse
<1>3. pc[t] \notin Elsewhere /\ pc'[t] \notin Elsewhere
  BY <1>1 DEF Elsewhere, AtGates, Signaling, WakerLabels
<1>4. BlockInUse(t)' <=> BlockInUse(t)
  BY <1>1, <1>2 DEF BlockInUse, Acquiring
<1>5. CallInUse(t)' /\ ReleaserSees(t)'
  BY <1>1, <1>2 DEF CallInUse, ReleaserSees
<1> QED
  BY <1>1, <1>3, <1>4, <1>5, LocalStep

LEMMA RereadInv ==
    ASSUME PushInv, NEW t \in Threads, pc[t] = "release", Read(t),
           UNCHANGED <<PushLock, held, pc>>, UNCHANGED <<Block, gate, history>>
    PROVE  PushInv'
<1>1. held[t] # "none" /\ frame[t].call \notin Acquiring
  BY DEF PushInv, CallInUse, Acquiring
<1>2. Local(t) /\ frame'[t].call = frame[t].call /\ frame'[t].OldValue = PushLock
      /\ frame'[t].WaitBlock = PushLock.Block /\ pc'[t] = "release"
  BY <1>1, ReadDoes DEF PushInv, TypeOK, Local, memory, Keeps
<1> QED
  BY <1>1, <1>2, ReadInv

-----------------------------------------------------------------------------
(* Steps that take or give back the lock and leave Waking alone.           *)

Busy == AtGates \cup Signaling \cup WakerLabels

LEMMA HoldStep ==
    ASSUME PushInv, NEW t \in Threads, Moves(t), UNCHANGED <<Block, gate, history>>,
           PushLock' \in WordType, PushLock'.Waiting = PushLock.Waiting,
           PushLock'.Block = PushLock.Block, PushLock'.Waking = PushLock.Waking,
           SharersKnown(t), pc[t] \notin Busy, pc'[t] \notin Busy,
           ~BlockInUse(t), ~BlockInUse(t)',
           CallInUse(t)', ReleaserSees(t)', WordExact', CountsHolders'
    PROVE  PushInv'
<1>1. Calm(t)
  BY DEF Calm, Busy, history
<1>2. pc[t] \notin WakerLabels /\ pc'[t] \notin WakerLabels
  BY DEF Busy
<1>3. OneWaker'
  BY <1>2, WakerKept DEF PushInv, ListIntact, Moves
<1>4. t \notin Wakers'
  BY <1>2 DEF Wakers, WakerLabels
<1> QED
  BY <1>1, <1>3, <1>4, CalmStep

LEMMA IdleFacts ==
    ASSUME PushInv, NEW t \in Threads, pc[t] = "idle"
    PROVE  frame[t].call = "none" /\ pc[t] \notin Busy /\ ~BlockInUse(t)
  BY DEF PushInv, CallInUse, Busy, AtGates, Signaling, WakerLabels, BlockInUse, Acquiring

LEMMA FastStep ==
    ASSUME PushInv, NEW t \in Threads, pc[t] = "idle", UNCHANGED <<pc, frame>>,
           NEW mode \in Modes, Hold(t, mode), UNCHANGED <<Block, gate, history>>,
           PushLock' \in WordType, PushLock'.Waiting = PushLock.Waiting,
           PushLock'.Block = PushLock.Block, PushLock'.Waking = PushLock.Waking,
           PushLock'.MultipleShared = PushLock.MultipleShared, WordExact', CountsHolders'
    PROVE  PushInv'
<1>1. Moves(t) /\ held'[t] = mode
  BY HoldDoes DEF Moves, PushInv, TypeOK, Keeps
<1>2. frame'[t].call = "none" /\ pc'[t] = "idle" /\ pc[t] \notin Busy /\ ~BlockInUse(t)
  BY IdleFacts
<1>3. pc'[t] \notin Busy /\ ~BlockInUse(t)' /\ CallInUse(t)' /\ ReleaserSees(t)'
  BY <1>2 DEF BlockInUse, Acquiring, CallInUse, ReleaserSees
<1>4. SharersKnown(t)
  BY DEF SharersKnown
<1> QED
  BY <1>1, <1>2, <1>3, <1>4, HoldStep

LEMMA SetLockInv ==
    ASSUME PushInv, NEW t \in Threads, pc[t] = "idle", SetLock(t, "exclusive"),
           UNCHANGED <<Block, gate, history>>
    PROVE  PushInv'
<1>1. "exclusive" \in Modes
  BY DEF Modes
<1>2. Moves(t) /\ held'[t] = "exclusive" /\ pc'[t] = "idle"
  BY <1>1, HoldDoes DEF SetLock, Moves, PushInv, TypeOK, Keeps
<1>3. ~PushLock.Locked /\ PushLock' = [PushLock EXCEPT !.Locked = TRUE]
  BY DEF SetLock
<1>4. WordExact' /\ CountsHolders'
  BY <1>2, <1>3, TakesExclusive DEF PushInv
<1>5. /\ PushLock' \in WordType /\ PushLock'.Waiting = PushLock.Waiting
      /\ PushLock'.Block = PushLock.Block /\ PushLock'.Waking = PushLock.Waking
      /\ PushLock'.MultipleShared = PushLock.MultipleShared
  BY <1>3 DEF PushInv, TypeOK, WordType
<1> QED
  BY <1>1, <1>4, <1>5, FastStep DEF SetLock

LEMMA AcquireSharedFastInv ==
    ASSUME PushInv, NEW t \in Threads, pc[t] = "idle", held[t] = "none", PushLock = Free,
           PushLock' = SharedOnce, Hold(t, "shared"), UNCHANGED <<pc, frame>>,
           UNCHANGED <<Block, gate, history>>
    PROVE  PushInv'
<1>1. "shared" \in Modes
  BY DEF Modes
<1>2. Moves(t) /\ held'[t] = "shared" /\ pc'[t] = "idle"
  BY <1>1, HoldDoes DEF Moves, PushInv, TypeOK, Keeps
<1>3. PushLock' = [PushLock EXCEPT !.Locked = TRUE, !.Shared = IF PushLock.Waiting THEN @ ELSE @ + 1]
  BY DEF SharedOnce, Free
<1>4. SharedMayEnter(PushLock)
  BY DEF SharedMayEnter, Free
<1>5. WordExact' /\ CountsHolders'
  BY <1>2, <1>3, <1>4, TakesShared DEF PushInv
<1>6. /\ PushLock' \in WordType /\ PushLock'.Waiting = PushLock.Waiting
      /\ PushLock'.Block = PushLock.Block /\ PushLock'.Waking = PushLock.Waking
      /\ PushLock'.MultipleShared = PushLock.MultipleShared
  BY FreeType DEF SharedOnce, Free
<1> QED
  BY <1>1, <1>5, <1>6, FastStep

LEMMA ConvertInv ==
    ASSUME PushInv, NEW t \in Threads, ExConvertPushLockSharedToExclusive(t)
    PROVE  PushInv'
<1>1. "exclusive" \in Modes /\ pc[t] = "idle" /\ held[t] = "shared"
  BY DEF Modes, ExConvertPushLockSharedToExclusive, Call
<1>2. Moves(t) /\ held'[t] = "exclusive" /\ pc'[t] = "idle"
  BY <1>1, HoldDoes DEF ExConvertPushLockSharedToExclusive, Moves, PushInv, TypeOK, Keeps
<1>3. PushLock = SharedOnce /\ PushLock' = [Free EXCEPT !.Locked = TRUE]
  BY DEF ExConvertPushLockSharedToExclusive
<1>4. WordExact' /\ CountsHolders'
  BY <1>1, <1>2, <1>3, Converts DEF PushInv
<1>5. /\ PushLock' \in WordType /\ PushLock'.Waiting = PushLock.Waiting
      /\ PushLock'.Block = PushLock.Block /\ PushLock'.Waking = PushLock.Waking
      /\ PushLock'.MultipleShared = PushLock.MultipleShared
  BY <1>3 DEF SharedOnce, Free, WordType
<1> QED
  BY <1>1, <1>4, <1>5, FastStep DEF ExConvertPushLockSharedToExclusive

(* The slow paths take the lock.                                           *)
LEMMA TakeStep ==
    ASSUME PushInv, NEW t \in Threads, pc[t] = "acquire", NEW new \in WordType,
           NEW mode \in {"shared", "exclusive"},
           frame[t].call = "WaitOn" => mode = "exclusive", TakeLock(t, new, mode),
           PushLock'.Waiting = PushLock.Waiting, PushLock'.Block = PushLock.Block,
           PushLock'.Waking = PushLock.Waking, PushLock'.MultipleShared = PushLock.MultipleShared,
           Moves(t) /\ held'[t] = mode /\ pc'[t] \in {"idle", "read"} => WordExact' /\ CountsHolders'
    PROVE  PushInv'
<1>1. mode \in Modes /\ Hold(t, mode) /\ UNCHANGED <<Block, gate, history>> /\ PushLock' \in WordType
  BY DEF Modes, TakeLock
<1>2. /\ pc' \in [Threads -> Labels] /\ Keeps(t, pc, pc')
      /\ frame' \in [Threads -> FrameType] /\ Keeps(t, frame, frame')
      /\ \/ pc'[t] = "idle" /\ frame'[t].call = "none"
         \/ pc'[t] = "read" /\ frame'[t].call = "ReleaseWaitOn" /\ frame[t].call = "WaitOn"
  <2>1. CASE frame[t].call = "WaitOn"
    BY <2>1, SlowPathDoes DEF TakeLock, PushInv
  <2>2. CASE frame[t].call # "WaitOn"
    BY <2>2, ReturnDoes, NoFrameType DEF TakeLock, PushInv
  <2> QED
    BY <2>1, <2>2
<1>3. Moves(t) /\ held'[t] = mode
  BY <1>1, <1>2, HoldDoes DEF Moves, PushInv, TypeOK
<1>4. WordExact' /\ CountsHolders'
  BY <1>2, <1>3
<1>5. pc[t] \notin Busy /\ pc'[t] \notin Busy /\ ~BlockInUse(t) /\ ~BlockInUse(t)'
  BY <1>2 DEF Busy, AtGates, Signaling, WakerLabels, BlockInUse, Acquiring
<1>6. CallInUse(t)'
  BY <1>2, <1>3 DEF CallInUse
<1>7. ReleaserSees(t)'
  BY <1>2 DEF ReleaserSees
<1>8. SharersKnown(t)
  BY DEF SharersKnown
<1> QED
  BY <1>1, <1>3, <1>4, <1>5, <1>6, <1>7, <1>8, HoldStep

LEMMA LockExclusiveInv ==
    ASSUME PushInv, NEW t \in Threads, LockExclusive(t)
    PROVE  PushInv'
<1>1. pc[t] = "acquire"
  BY DEF LockExclusive
<1>2. CASE Retry(t)
  BY <1>1, <1>2, RetryInv
<1>3. CASE TakeLock(t, [Old(t) EXCEPT !.Locked = TRUE], "exclusive")
  <2> DEFINE new == [Old(t) EXCEPT !.Locked = TRUE]
  <2>1. PushLock = Old(t) /\ PushLock' = new /\ ~PushLock.Locked
    BY <1>3 DEF TakeLock, LockExclusive
  <2>2. PushLock' = [PushLock EXCEPT !.Locked = TRUE]
    BY <2>1
  <2>3. /\ new \in WordType /\ PushLock'.Waiting = PushLock.Waiting
        /\ PushLock'.Block = PushLock.Block /\ PushLock'.Waking = PushLock.Waking
        /\ PushLock'.MultipleShared = PushLock.MultipleShared
    BY <2>1 DEF PushInv, TypeOK, WordType
  <2>4. Moves(t) /\ held'[t] = "exclusive" /\ pc'[t] \in {"idle", "read"} => WordExact' /\ CountsHolders'
    BY <2>1, <2>2, TakesExclusive DEF PushInv
  <2> HIDE DEF new
  <2>5. TakeLock(t, new, "exclusive")
    BY <1>3 DEF new
  <2> QED
    BY <1>1, <2>3, <2>4, <2>5, TakeStep
<1> QED
  BY <1>2, <1>3 DEF LockExclusive

LEMMA LockSharedInv ==
    ASSUME PushInv, NEW t \in Threads, LockShared(t)
    PROVE  PushInv'
<1>1. pc[t] = "acquire" /\ frame[t].call # "WaitOn" /\ SharedMayEnter(Old(t))
  BY DEF LockShared, Exclusive
<1>2. CASE Retry(t)
  BY <1>1, <1>2, RetryInv
<1>3. CASE TakeLock(t, [Old(t) EXCEPT !.Locked = TRUE,
                                      !.Shared = IF Old(t).Waiting THEN @ ELSE @ + 1], "shared")
  <2> DEFINE new == [Old(t) EXCEPT !.Locked = TRUE, !.Shared = IF Old(t).Waiting THEN @ ELSE @ + 1]
  <2>1. PushLock = Old(t) /\ PushLock' = new
    BY <1>3 DEF TakeLock
  <2>2. PushLock' = [PushLock EXCEPT !.Locked = TRUE, !.Shared = IF PushLock.Waiting THEN @ ELSE @ + 1]
    BY <2>1
  <2>3. /\ new \in WordType /\ PushLock'.Waiting = PushLock.Waiting
        /\ PushLock'.Block = PushLock.Block /\ PushLock'.Waking = PushLock.Waking
        /\ PushLock'.MultipleShared = PushLock.MultipleShared
    <3> DEFINE n == IF PushLock.Waiting THEN PushLock.Shared ELSE PushLock.Shared + 1
    <3>1. PushLock \in WordType
      BY DEF PushInv, TypeOK
    <3>2. n \in Nat
      BY <3>1 DEF WordType
    <3>3. new = [PushLock EXCEPT !.Locked = TRUE, !.Shared = n]
      BY <2>1, <3>1 DEF WordType
    <3> HIDE DEF n, new
    <3> QED
      BY <2>1, <3>1, <3>2, <3>3 DEF WordType
  <2>4. held[t] = "none"
    BY <1>1 DEF PushInv, CallInUse
  <2>5. Moves(t) /\ held'[t] = "shared" /\ pc'[t] \in {"idle", "read"} => WordExact' /\ CountsHolders'
    BY <1>1, <2>1, <2>2, <2>4, TakesShared DEF PushInv
  <2> HIDE DEF new
  <2>6. TakeLock(t, new, "shared")
    BY <1>3 DEF new
  <2> QED
    BY <1>1, <2>3, <2>5, <2>6, TakeStep
<1> QED
  BY <1>2, <1>3 DEF LockShared

-----------------------------------------------------------------------------
(* Releases.                                                               *)

LEMMA GivesBack ==
    ASSUME PushInv, NEW t \in Threads, Moves(t), ~PushLock.Waiting, held[t] # "none",
           held'[t] = "none", pc'[t] # "unlock", PushLock' = WithoutOneSharer(PushLock)
    PROVE  /\ WordExact' /\ CountsHolders' /\ PushLock' \in WordType
           /\ PushLock'.Waiting = PushLock.Waiting /\ PushLock'.Block = PushLock.Block
           /\ PushLock'.Waking = PushLock.Waking
           /\ PushLock'.MultipleShared = PushLock.MultipleShared
<1>1. /\ PushLock \in WordType /\ TypeOK /\ WordExact /\ CountsHolders
      /\ ~PushLock.Waking /\ ~PushLock.MultipleShared /\ PushLock.Block = NULL
      /\ PushLock.Shared = Cardinality(Sharers)
  BY DEF PushInv, TypeOK, WordExact, CountsHolders
<1>2. CASE PushLock.Shared > 1
  <2>1. PushLock' = [PushLock EXCEPT !.Shared = @ - 1]
    BY <1>2 DEF WithoutOneSharer
  <2>2. PushLock.Shared - 1 \in Nat
    BY <1>1, <1>2 DEF WordType
  <2>3. /\ PushLock' \in WordType
        /\ PushLock'.Waiting = PushLock.Waiting /\ PushLock'.Block = PushLock.Block
        /\ PushLock'.Waking = PushLock.Waking
        /\ PushLock'.MultipleShared = PushLock.MultipleShared
    BY <1>1, <2>1, <2>2 DEF WordType
  <2> QED
    BY <1>1, <1>2, <2>1, <2>3, ReleasesOne
<1>3. CASE ~(PushLock.Shared > 1)
  <2>1. PushLock' = Free
    BY <1>3 DEF WithoutOneSharer
  <2>2. /\ PushLock' \in WordType /\ ~PushLock'.Locked /\ PushLock'.Shared = 0
        /\ ~PushLock'.Waiting /\ PushLock'.Block = NULL
        /\ ~PushLock'.Waking /\ ~PushLock'.MultipleShared
    BY <2>1, FreeType DEF Free
  <2>3. \A u \in Threads : u # t => held[u] = "none"
    <3>1. CASE held[t] = "exclusive"
      BY <1>1, <3>1, ExclusiveAlone
    <3>2. CASE held[t] = "shared"
      <4>1. t \in Sharers
        BY <3>2 DEF Sharers
      <4>2. Cardinality(Sharers) # 0
        BY <4>1, NoSharers
      <4>3. Cardinality(Sharers) = 1
        BY <1>1, <1>3, <4>2, SharersFinite
      <4>4. Sharers \subseteq {t}
        BY <4>1, <4>3, OneSharer
      <4> QED
        BY <1>1, <4>4, HolderAlone
    <3> QED
      BY <1>1, <3>1, <3>2 DEF TypeOK, Modes
  <2>4. PushLock.Waiting = FALSE /\ PushLock.Waking = FALSE /\ PushLock.MultipleShared = FALSE
    BY <1>1 DEF WordType
  <2>5. PushLock'.Waiting = FALSE /\ PushLock'.Waking = FALSE /\ PushLock'.MultipleShared = FALSE
    BY <2>1 DEF Free
  <2>6. WordExact' /\ CountsHolders'
    BY <1>1, <2>2, <2>3, <2>4, <2>5, ReleasesAll
  <2> QED
    BY <1>1, <2>2, <2>4, <2>5, <2>6
<1> QED
  BY <1>2, <1>3

LEMMA ReturnReleased ==
    ASSUME PushInv, NEW t \in Threads, pc[t] \in {"tryRelease", "release"}, PushLock = Old(t),
           ~Old(t).Waiting, PushLock' = WithoutOneSharer(Old(t)), Hold(t, "none"), Return(t),
           UNCHANGED <<Block, gate, history>>
    PROVE  PushInv'
<1>1. "none" \in Modes /\ held[t] # "none" /\ frame[t].call \notin Acquiring
  BY DEF Modes, PushInv, CallInUse, Acquiring
<1>2. Moves(t) /\ held'[t] = "none" /\ pc'[t] = "idle" /\ frame'[t].call = "none"
  BY <1>1, HoldDoes, ReturnDoes, NoFrameType DEF Moves, PushInv, TypeOK
<1>3. /\ WordExact' /\ CountsHolders' /\ PushLock' \in WordType
      /\ PushLock'.Waiting = PushLock.Waiting /\ PushLock'.Block = PushLock.Block
      /\ PushLock'.Waking = PushLock.Waking
      /\ PushLock'.MultipleShared = PushLock.MultipleShared
  BY <1>1, <1>2, GivesBack
<1>4. pc[t] \notin Busy /\ pc'[t] \notin Busy /\ ~BlockInUse(t) /\ ~BlockInUse(t)'
  BY <1>1, <1>2 DEF Busy, AtGates, Signaling, WakerLabels, BlockInUse, Acquiring
<1>5. CallInUse(t)' /\ ReleaserSees(t)' /\ SharersKnown(t)
  BY <1>2, <1>3 DEF CallInUse, ReleaserSees, SharersKnown
<1> QED
  BY <1>2, <1>3, <1>4, <1>5, HoldStep

LEMMA TryReleaseInv ==
    ASSUME PushInv, NEW t \in Threads, TryRelease(t)
    PROVE  PushInv'
<1>1. pc[t] = "tryRelease" /\ ~Old(t).Waiting
  BY DEF TryRelease, PushInv, ReleaserSees
<1> QED
  BY <1>1, ReturnReleased, RetryInv DEF TryRelease

LEMMA ReleaseUnwaitedInv ==
    ASSUME PushInv, NEW t \in Threads, ReleaseUnwaited(t)
    PROVE  PushInv'
  BY ReturnReleased, RereadInv DEF ReleaseUnwaited, AtRelease

LEMMA ReleaseSharedInv ==
    ASSUME PushInv, NEW t \in Threads, ExReleasePushLockShared(t)
    PROVE  PushInv'
<1>1. pc[t] = "idle" /\ held[t] = "shared" /\ "ReleaseShared" \in Ops /\ UNCHANGED <<Block, gate, history>>
  BY DEF ExReleasePushLockShared, Call
<1>2. CASE PushLock = SharedOnce /\ PushLock' = Free /\ Hold(t, "none") /\ UNCHANGED <<pc, frame>>
  <2>1. "none" \in Modes
    BY DEF Modes
  <2>2. Moves(t) /\ held'[t] = "none" /\ pc'[t] = "idle"
    BY <1>1, <1>2, <2>1, HoldDoes DEF Moves, PushInv, TypeOK, Keeps
  <2>3. ~PushLock.Waiting /\ PushLock' = WithoutOneSharer(PushLock)
    BY <1>2 DEF SharedOnce, Free, WithoutOneSharer
  <2>4. /\ WordExact' /\ CountsHolders' /\ PushLock' \in WordType
        /\ PushLock'.Waiting = PushLock.Waiting /\ PushLock'.Block = PushLock.Block
        /\ PushLock'.Waking = PushLock.Waking
        /\ PushLock'.MultipleShared = PushLock.MultipleShared
    BY <1>1, <2>2, <2>3, GivesBack
  <2> QED
    BY <1>1, <1>2, <2>1, <2>4, FastStep
<1>3. CASE SlowPath(t, "ReleaseShared") /\ UNCHANGED <<PushLock, held>>
  BY <1>1, <1>3, SlowPathInv
<1> QED
  BY <1>2, <1>3 DEF ExReleasePushLockShared

LEMMA ReleaseExclusiveInv ==
    ASSUME PushInv, NEW t \in Threads, ExReleasePushLockExclusive(t)
    PROVE  PushInv'
<1>1. /\ pc[t] = "idle" /\ held[t] = "exclusive" /\ UNCHANGED <<Block, gate, frame, history>>
      /\ PushLock' = [PushLock EXCEPT !.Locked = FALSE] /\ Hold(t, "none")
      /\ frame[t].call = "none" /\ pc[t] \notin Busy /\ ~BlockInUse(t)
  BY IdleFacts DEF ExReleasePushLockExclusive, Call
<1>2. "none" \in Modes /\ "tryWake" \in Labels
  BY DEF Modes, Labels
<1>3. pc' \in [Threads -> Labels] /\ Keeps(t, pc, pc') /\ pc'[t] \in {"idle", "tryWake"}
  <2>1. CASE Goto(t, "tryWake")
    BY <1>2, <2>1, GotoDoes DEF PushInv, TypeOK
  <2>2. CASE UNCHANGED pc
    BY <1>1, <2>2 DEF PushInv, TypeOK, Keeps
  <2> QED
    BY <2>1, <2>2 DEF ExReleasePushLockExclusive
<1>4. Moves(t) /\ held'[t] = "none"
  BY <1>1, <1>2, <1>3, HoldDoes DEF Moves, PushInv, TypeOK, Keeps
<1>5. /\ PushLock' \in WordType /\ PushLock'.Waiting = PushLock.Waiting
      /\ PushLock'.Block = PushLock.Block /\ PushLock'.Waking = PushLock.Waking
      /\ PushLock'.MultipleShared = PushLock.MultipleShared
      /\ PushLock'.Shared = PushLock.Shared /\ ~PushLock'.Locked
  BY <1>1 DEF PushInv, TypeOK, WordType
<1>6. /\ \A u \in Threads : u # t => held[u] = "none"
      /\ PushLock.Shared = 0 /\ ~PushLock.MultipleShared
  BY <1>1, ExclusiveAlone DEF PushInv
<1>7. PushLock'.Waking => PushLock.Waiting
  BY <1>5 DEF PushInv, ListIntact, OneWaker
<1>8. WordExact' /\ CountsHolders'
  BY <1>3, <1>4, <1>5, <1>6, <1>7, ReleasesAll DEF PushInv
<1>9. pc'[t] \notin Busy /\ ~BlockInUse(t)' /\ CallInUse(t)' /\ ReleaserSees(t)' /\ SharersKnown(t)
  BY <1>1, <1>3, <1>4, <1>5 DEF Busy, AtGates, Signaling, WakerLabels, BlockInUse, Acquiring,
                               CallInUse, ReleaserSees, SharersKnown
<1> QED
  BY <1>1, <1>4, <1>5, <1>8, <1>9, HoldStep

-----------------------------------------------------------------------------
(* A releaser sets Waking and becomes the waker.                           *)

LEMMA WakeStart ==
    ASSUME PushInv, NEW t \in Threads, Moves(t), UNCHANGED <<Block, gate, history>>,
           PushLock' \in WordType, PushLock.Waiting, PushLock'.Waiting,
           PushLock'.Block = PushLock.Block, ~PushLock.Waking, PushLock'.Waking,
           SharersKnown(t), pc[t] \notin Busy, ~BlockInUse(t), ~BlockInUse(t)',
           \/ pc'[t] = "wakeLocked" /\ PushLock'.Locked
           \/ pc'[t] = "wakeWalk" /\ ~PushLock'.Locked,
           frame'[t].WakeValue = PushLock', frame'[t].WaitBlock = PushLock'.Block,
           ~PushLock'.MultipleShared, held'[t] = "none", WordExact', CountsHolders'
    PROVE  PushInv'
<1>1. PushLock'.Waiting = PushLock.Waiting
  BY DEF PushInv, TypeOK, WordType
<1>2. Calm(t)
  BY <1>1 DEF Calm, Busy, history, AtGates, Signaling
<1>3. pc'[t] \in WakerLabels
  BY DEF WakerLabels
<1>4. OneWaker'
  BY <1>3, WakerComes DEF PushInv, ListIntact, Moves
<1>5. TypeOK' /\ LinksMatchQueue' /\ ListShape'
  BY <1>2, CalmType, CalmLinks DEF PushInv, ListIntact
<1>6. WakerInList(t)'
  BY <1>5, WalkBegins
<1>7. CallInUse(t)' /\ ReleaserSees(t)'
  BY DEF CallInUse, ReleaserSees
<1> QED
  BY <1>2, <1>4, <1>6, <1>7, CalmStep

LEMMA TryWakeSetInv ==
    ASSUME PushInv, NEW t \in Threads, TryWakeSet(t)
    PROVE  PushInv'
<1> DEFINE new == [Old(t) EXCEPT !.Waking = TRUE]
<1>1. /\ pc[t] = "tryWakeSet" /\ UNCHANGED <<Block, gate, held, history>>
      /\ frame[t].call = "none" /\ held[t] = "none" /\ held'[t] = "none"
  BY DEF TryWakeSet, PushInv, CallInUse
<1>2. CASE Return(t) /\ UNCHANGED PushLock
  BY <1>1, <1>2, LocalReturnInv DEF memory
<1>3. CASE PushLock = Old(t) /\ PushLock' = new /\ EnterWake(t, new)
  <2>1. new = [PushLock EXCEPT !.Waking = TRUE] /\ PushLock \in WordType
    BY <1>3 DEF PushInv, TypeOK
  <2>2. /\ new \in WordType /\ new.Waking /\ new.Locked = PushLock.Locked
        /\ new.Waiting = PushLock.Waiting /\ new.MultipleShared = PushLock.MultipleShared
        /\ new.Shared = PushLock.Shared /\ new.Block = PushLock.Block
    BY <2>1 DEF WordType
  <2> HIDE DEF new
  <2> DEFINE label == IF new.Locked THEN "wakeLocked" ELSE "wakeWalk"
  <2>3. label \in Labels /\ WalkFrom(t, new, label)
    BY <1>3 DEF Labels, EnterWake
  <2>4. /\ pc' \in [Threads -> Labels] /\ pc'[t] = label /\ Keeps(t, pc, pc')
        /\ frame' \in [Threads -> FrameType] /\ Keeps(t, frame, frame')
        /\ frame'[t].call = frame[t].call /\ frame'[t].WakeValue = new /\ frame'[t].WaitBlock = new.Block
    BY <2>2, <2>3, WalkFromDoes DEF PushInv
  <2>5. Moves(t)
    BY <1>1, <2>4 DEF Moves, PushInv, TypeOK, Keeps
  <2>6. PushLock.Waiting /\ ~PushLock.Waking /\ ~PushLock.Locked
    BY <1>1, <1>3 DEF PushInv, ReleaserSees
  <2>7. ~PushLock.MultipleShared
    BY <2>6, Unheld DEF PushInv
  <2>8. /\ pc[t] \notin Busy /\ pc[t] # "unlock" /\ pc'[t] # "unlock"
        /\ ~BlockInUse(t) /\ ~BlockInUse(t)' /\ SharersKnown(t)
    BY <1>1, <1>3, <2>2, <2>4 DEF Busy, AtGates, Signaling, WakerLabels, BlockInUse, Acquiring, SharersKnown
  <2>9. WordExact' /\ CountsHolders'
    BY <1>1, <1>3, <2>2, <2>4, <2>6, <2>8, WordKept DEF PushInv, history
  <2> QED
    BY <1>1, <1>3, <2>2, <2>4, <2>5, <2>6, <2>7, <2>8, <2>9, WakeStart
<1> QED
  BY <1>2, <1>3 DEF TryWakeSet

LEMMA StutterInv ==
    ASSUME PushInv, UNCHANGED vars
    PROVE  PushInv'
<1> USE DEF vars
<1>1. TypeOK'
  BY DEF PushInv, TypeOK
<1>2. Sharers' = Sharers /\ LastSharer' = LastSharer /\ Oldest' = Oldest /\ Wakers' = Wakers
  BY DEF Sharers, LastSharer, Oldest, Wakers
<1>3. WordExact' /\ CountsHolders'
  BY <1>2 DEF PushInv, WordExact, CountsHolders
<1>4. \A t \in Threads : Old(t)' = Old(t) /\ Cursor(t)' = Cursor(t) /\ First(t)' = First(t)
                         /\ (BlockInUse(t)' <=> BlockInUse(t))
  BY DEF Old, Cursor, First, BlockInUse
<1>5. \A t \in Threads : CallInUse(t)' /\ ReleaserSees(t)'
  BY <1>2, <1>4 DEF PushInv, CallInUse, ReleaserSees, InSeq
<1>6. OneWaker'
  BY <1>2 DEF PushInv, ListIntact, OneWaker
<1>7. LinksMatchQueue' /\ ListShape'
  BY <1>2 DEF PushInv, ListIntact, LinksMatchQueue, ListShape, FirstWithLast
<1>8. SignalsWhatItTook'
  BY <1>4 DEF PushInv, ListIntact, SignalsWhatItTook
<1>9. NoWaiterLost'
  BY <1>4 DEF PushInv, ListIntact, NoWaiterLost, Pending, InSeq, Distinct
<1>10. SignalsInUse'
  BY <1>4 DEF PushInv, SignalsInUse
<1>11. WakersInList'
  <2>1. \A t \in Threads : \A k \in DOMAIN queue : WakerAt(t, k) => WakerAt(t, k)'
    BY <1>2, <1>4 DEF WakerAt, InSeq
  <2>2. Wakers \subseteq Threads
    BY DEF Wakers
  <2> QED
    BY <1>2, <2>1, <2>2 DEF PushInv, WakersInList
<1> QED
  BY <1>1, <1>3, <1>5, <1>6, <1>7, <1>8, <1>9, <1>10, <1>11 DEF PushInv, ListIntact

(* A thread at the unlocking loop is the only holder, whether it was the   *)
(* last of several sharers, a single one or exclusive.                     *)
LEMMA UnlockerAlone ==
    ASSUME PushInv, NEW t \in Threads, PushLock.Waiting, held[t] # "none",
           PushLock.MultipleShared => pc[t] = "unlock"
    PROVE  \A u \in Threads : u # t => held[u] = "none"
<1>1. TypeOK /\ WordExact /\ CountsHolders
  BY DEF PushInv
<1>2. CASE held[t] = "exclusive"
  BY <1>1, <1>2, ExclusiveAlone
<1>3. CASE held[t] = "shared"
  <2>1. t \in Sharers
    BY <1>3 DEF Sharers
  <2>2. Sharers \subseteq {t}
    <3>1. CASE PushLock.MultipleShared
      BY <1>1, <3>1 DEF WordExact, LastSharer
    <3>2. CASE ~PushLock.MultipleShared
      BY <1>1, <2>1, <3>2 DEF WordExact, Sharers
    <3> QED
      BY <3>1, <3>2
  <2> QED
    BY <1>1, <2>2, HolderAlone
<1> QED
  BY <1>1, <1>2, <1>3 DEF TypeOK, Modes

(* When it leaves, every share count is zero.                              *)
LEMMA NoShareCount ==
    ASSUME PushInv, NEW t \in Threads, PushLock.MultipleShared => pc[t] = "unlock"
    PROVE  \A b \in Threads : Block[b].ShareCount = 0
<1>1. CASE PushLock.MultipleShared
  <2>1. t \in LastSharer /\ Sharers = {t}
    BY <1>1 DEF PushInv, WordExact, LastSharer
  <2>2. Sharers \ LastSharer = {}
    BY <2>1
  <2>3. Block[Oldest].ShareCount = Cardinality({})
    BY <1>1, <2>2 DEF PushInv, CountsHolders
  <2>4. Block[Oldest].ShareCount = 0
    BY <2>3, FS_EmptySet
  <2> QED
    BY <2>4 DEF PushInv, ListShape
<1>2. CASE ~PushLock.MultipleShared
  BY <1>2 DEF PushInv, ListShape
<1> QED
  BY <1>1, <1>2

LEMMA UnlockInv ==
    ASSUME PushInv, NEW t \in Threads, Unlock(t)
    PROVE  PushInv'
<1> DEFINE new == [Old(t) EXCEPT !.Locked = FALSE, !.MultipleShared = FALSE, !.Waking = TRUE]
<1>1. /\ AtUnlock(t) /\ UNCHANGED <<Block, gate, history>>
      /\ pc[t] \in {"unlock", "release"} /\ frame[t].call \notin Acquiring /\ held[t] # "none"
      /\ Old(t).Waiting /\ (Old(t).MultipleShared => pc[t] = "unlock")
  BY DEF Unlock, AtUnlock, AtRelease, PushInv, CallInUse, ReleaserSees, Acquiring
<1>2. CASE PushLock # Old(t) /\ UNCHANGED <<PushLock, held, pc, frame>>
  <2>1. UNCHANGED vars
    BY <1>1, <1>2 DEF vars, history
  <2> QED
    BY <2>1, StutterInv
<1>3. CASE /\ PushLock = Old(t) /\ PushLock' = new /\ Hold(t, "none")
           /\ IF Old(t).Waking THEN Return(t) ELSE EnterWake(t, new)
  <2>1. new = [PushLock EXCEPT !.Locked = FALSE, !.MultipleShared = FALSE, !.Waking = TRUE] /\ PushLock \in WordType
    BY <1>3 DEF PushInv, TypeOK
  <2>2. /\ new \in WordType /\ new.Waking = TRUE /\ ~new.Locked /\ ~new.MultipleShared
        /\ new.Waiting = PushLock.Waiting
        /\ new.Shared = PushLock.Shared /\ new.Block = PushLock.Block
    BY <2>1 DEF WordType
  <2> HIDE DEF new
  <2>3. /\ PushLock.Waiting /\ PushLock.Shared = 0
        /\ \A u \in Threads : u # t => held[u] = "none"
        /\ \A b \in Threads : Block[b].ShareCount = 0
    BY <1>1, <1>3, UnlockerAlone, NoShareCount DEF PushInv, CountsHolders
  <2>4. SharersKnown(t)
    BY <1>3, <2>2, <2>3 DEF SharersKnown
  <2>5. "none" \in Modes /\ pc[t] \notin Busy /\ ~BlockInUse(t)
    BY <1>1 DEF Modes, Busy, AtGates, Signaling, WakerLabels, BlockInUse
  <2>6. held' \in [Threads -> Modes] /\ held'[t] = "none" /\ Keeps(t, held, held')
    BY <1>3, <2>5, HoldDoes DEF PushInv, TypeOK
  <2>7. Moves(t) /\ pc'[t] # "unlock" => WordExact' /\ CountsHolders'
    BY <1>3, <2>2, <2>3, <2>6, ReleasesAll DEF PushInv
  <2>8. CASE Old(t).Waking
    <3>1. Moves(t) /\ pc'[t] = "idle" /\ frame'[t].call = "none"
      BY <1>3, <2>6, <2>8, ReturnDoes, NoFrameType DEF PushInv, Moves
    <3>2. pc'[t] \notin Busy /\ ~BlockInUse(t)' /\ CallInUse(t)' /\ ReleaserSees(t)'
      BY <2>6, <3>1 DEF Busy, AtGates, Signaling, WakerLabels, BlockInUse, Acquiring, CallInUse, ReleaserSees
    <3>3. PushLock'.Waking = PushLock.Waking
      BY <1>3, <2>1, <2>2, <2>8 DEF WordType
    <3> QED
      BY <1>1, <1>3, <2>2, <2>4, <2>5, <2>6, <2>7, <3>1, <3>2, <3>3, HoldStep
  <2>9. CASE ~Old(t).Waking
    <3>1. "wakeWalk" \in Labels /\ WalkFrom(t, new, "wakeWalk")
      BY <1>3, <2>2, <2>9 DEF Labels, EnterWake
    <3>2. /\ pc' \in [Threads -> Labels] /\ pc'[t] = "wakeWalk" /\ Keeps(t, pc, pc')
          /\ frame' \in [Threads -> FrameType] /\ Keeps(t, frame, frame')
          /\ frame'[t].call = frame[t].call /\ frame'[t].WakeValue = new /\ frame'[t].WaitBlock = new.Block
      BY <2>2, <3>1, WalkFromDoes DEF PushInv
    <3>3. Moves(t) /\ ~BlockInUse(t)'
      BY <1>1, <2>6, <3>2 DEF Moves, BlockInUse
    <3>4. WordExact' /\ CountsHolders' /\ ~PushLock.Waking
      BY <1>3, <2>7, <2>9, <3>2, <3>3
    <3> QED
      BY <1>1, <1>3, <2>2, <2>3, <2>4, <2>5, <2>6, <3>2, <3>3, <3>4, WakeStart
  <2> QED
    BY <2>8, <2>9
<1> QED
  BY <1>2, <1>3 DEF Unlock

LEMMA WaitOnReleaseInv ==
    ASSUME PushInv, NEW t \in Threads, ExfReleasePushLockExclusive(t)
    PROVE  PushInv'
<1> DEFINE new == [Old(t) EXCEPT !.Locked = FALSE, !.Waking = Old(t).Waiting]
<1>1. /\ pc[t] = "release" /\ frame[t].call = "ReleaseWaitOn" /\ held[t] = "exclusive"
      /\ UNCHANGED <<Block, gate, history>>
  BY DEF ExfReleasePushLockExclusive, PushInv, CallInUse
<1>2. CASE Read(t) /\ UNCHANGED <<PushLock, held, pc>>
  BY <1>1, <1>2, RereadInv
<1>3. CASE /\ PushLock = Old(t) /\ PushLock' = new /\ Hold(t, "none")
           /\ IF Old(t).Waiting /\ ~Old(t).Waking THEN EnterWake(t, new) ELSE Return(t)
  <2>1. new = [PushLock EXCEPT !.Locked = FALSE, !.Waking = PushLock.Waiting] /\ PushLock \in WordType
    BY <1>3 DEF PushInv, TypeOK
  <2>2. /\ new \in WordType /\ new.Waking = PushLock.Waiting /\ ~new.Locked
        /\ new.MultipleShared = PushLock.MultipleShared /\ new.Waiting = PushLock.Waiting
        /\ new.Shared = PushLock.Shared /\ new.Block = PushLock.Block
    BY <2>1 DEF WordType
  <2> HIDE DEF new
  <2>3. /\ ~PushLock.MultipleShared /\ PushLock.Shared = 0
        /\ \A u \in Threads : u # t => held[u] = "none"
    BY <1>1, ExclusiveAlone DEF PushInv
  <2>4. SharersKnown(t)
    BY <1>3, <2>2 DEF SharersKnown
  <2>5. "none" \in Modes /\ pc[t] \notin Busy /\ ~BlockInUse(t)
    BY <1>1 DEF Modes, Busy, AtGates, Signaling, WakerLabels, BlockInUse, Acquiring
  <2>6. held' \in [Threads -> Modes] /\ held'[t] = "none" /\ Keeps(t, held, held')
    BY <1>3, <2>5, HoldDoes DEF PushInv, TypeOK
  <2>7. Moves(t) /\ pc'[t] # "unlock" => WordExact' /\ CountsHolders'
    BY <1>3, <2>2, <2>3, <2>6, ReleasesAll DEF PushInv
  <2>8. CASE ~(Old(t).Waiting /\ ~Old(t).Waking)
    <3>1. Moves(t) /\ pc'[t] = "idle" /\ frame'[t].call = "none"
      BY <1>3, <2>6, <2>8, ReturnDoes, NoFrameType DEF PushInv, Moves
    <3>2. pc'[t] \notin Busy /\ ~BlockInUse(t)' /\ CallInUse(t)' /\ ReleaserSees(t)'
      BY <2>6, <3>1 DEF Busy, AtGates, Signaling, WakerLabels, BlockInUse, Acquiring, CallInUse, ReleaserSees
    <3>3. PushLock'.Waking = PushLock.Waking
      BY <1>3, <2>1, <2>2, <2>8 DEF WordType, PushInv, WordExact
    <3> QED
      BY <1>1, <1>3, <2>2, <2>4, <2>5, <2>6, <2>7, <3>1, <3>2, <3>3, HoldStep
  <2>9. CASE Old(t).Waiting /\ ~Old(t).Waking
    <3>1. "wakeWalk" \in Labels /\ WalkFrom(t, new, "wakeWalk")
      BY <1>3, <2>2, <2>9 DEF Labels, EnterWake
    <3>2. /\ pc' \in [Threads -> Labels] /\ pc'[t] = "wakeWalk" /\ Keeps(t, pc, pc')
          /\ frame' \in [Threads -> FrameType] /\ Keeps(t, frame, frame')
          /\ frame'[t].call = frame[t].call /\ frame'[t].WakeValue = new /\ frame'[t].WaitBlock = new.Block
      BY <2>2, <3>1, WalkFromDoes DEF PushInv
    <3>3. Moves(t) /\ ~BlockInUse(t)'
      BY <1>1, <2>6, <3>2 DEF Moves, BlockInUse, Acquiring
    <3>4. WordExact' /\ CountsHolders' /\ ~PushLock.Waking /\ PushLock.Waiting
      BY <1>3, <2>7, <2>9, <3>2, <3>3
    <3> QED
      BY <1>1, <1>3, <2>2, <2>3, <2>4, <2>5, <2>6, <3>2, <3>3, <3>4, WakeStart
  <2> QED
    BY <2>8, <2>9
<1> QED
  BY <1>2, <1>3 DEF ExfReleasePushLockExclusive

-----------------------------------------------------------------------------
(* The waker, as long as it leaves the list alone.                         *)

LEMMA WakerFacts ==
    ASSUME PushInv, NEW t \in Threads, pc[t] \in WakerLabels
    PROVE  /\ t \in Wakers /\ WakerInList(t) /\ PushLock.Waking /\ PushLock.Waiting
           /\ queue # <<>> /\ held[t] = "none" /\ pc[t] # "unlock"
           /\ \A u \in Threads : u # t => pc[u] \notin WakerLabels
<1>1. t \in Wakers
  BY DEF Wakers, WakerLabels
<1>2. WakerInList(t)
  BY <1>1 DEF PushInv, WakersInList, WakerInList
<1>3. PushLock.Waking /\ PushLock.Waiting /\ \A u \in Wakers : u = t
  BY <1>1 DEF PushInv, ListIntact, OneWaker
<1>4. held[t] = "none" /\ pc[t] # "unlock"
  BY DEF PushInv, CallInUse, WakerLabels
<1> QED
  BY <1>1, <1>2, <1>3, <1>4 DEF PushInv, ListIntact, LinksMatchQueue, Wakers, WakerLabels

LEMMA Rewalk ==
    ASSUME PushInv, NEW t \in Threads, pc[t] \in {"optimizeDone", "wakeLocked", "wakePick"},
           UNCHANGED <<memory, history>>,
           NEW label \in {"optimizeWalk", "wakeLocked", "wakeWalk"}, WalkFrom(t, PushLock, label),
           \/ label = "optimizeWalk" /\ PushLock.Locked
           \/ label = "wakeLocked" /\ PushLock.Locked /\ ~PushLock.MultipleShared
           \/ label = "wakeWalk" /\ ~PushLock.Locked /\ ~PushLock.MultipleShared
    PROVE  PushInv'
<1>1. label \in Labels /\ PushLock \in WordType /\ pc[t] \in WakerLabels /\ label \in WakerLabels
  BY DEF Labels, PushInv, TypeOK, WakerLabels
<1>2. /\ pc' \in [Threads -> Labels] /\ pc'[t] = label /\ Keeps(t, pc, pc')
      /\ frame' \in [Threads -> FrameType] /\ Keeps(t, frame, frame')
      /\ frame'[t].call = frame[t].call /\ frame'[t].WakeValue = PushLock
      /\ frame'[t].WaitBlock = PushLock.Block
  BY <1>1, WalkFromDoes DEF PushInv
<1>3. UNCHANGED <<PushLock, Block, gate, held, queue, taken>>
  BY DEF memory, history
<1>4. Moves(t)
  BY <1>2, <1>3 DEF Moves, PushInv, TypeOK, Keeps
<1>5. PushLock.Waking /\ PushLock.Waiting /\ held[t] = "none"
  BY <1>1, WakerFacts
<1>6. BlockInUse(t)' <=> BlockInUse(t)
  BY <1>2 DEF BlockInUse
<1>7. Calm(t)
  BY <1>1, <1>2, <1>3, <1>4, <1>6 DEF Calm, SharersKnown, AtGates, Signaling
<1>8. OneWaker'
  BY <1>1, <1>2, <1>3, WakerKept DEF PushInv, ListIntact
<1>9. WordExact' /\ CountsHolders'
  BY <1>2, <1>3, <1>5, WordKept DEF PushInv
<1>10. TypeOK' /\ LinksMatchQueue' /\ ListShape'
  BY <1>7, CalmType, CalmLinks DEF PushInv, ListIntact
<1>11. WakerInList(t)'
  BY <1>2, <1>3, <1>5, <1>10, WalkBegins
<1>12. CallInUse(t)' /\ ReleaserSees(t)'
  BY <1>2, <1>3, <1>5 DEF CallInUse, ReleaserSees
<1> QED
  BY <1>7, <1>8, <1>9, <1>11, <1>12, CalmStep

LEMMA WakerLeaves ==
    ASSUME PushInv, NEW t \in Threads, pc[t] \in {"optimizeDone", "wakeLocked"}, LeaveWake(t),
           PushLock' = [PushLock EXCEPT !.Waking = FALSE], UNCHANGED <<Block, gate, held, history>>
    PROVE  PushInv'
<1>1. /\ PushLock' \in WordType /\ PushLock'.Waking = FALSE /\ PushLock'.Locked = PushLock.Locked
      /\ PushLock'.Waiting = PushLock.Waiting /\ PushLock'.MultipleShared = PushLock.MultipleShared
      /\ PushLock'.Shared = PushLock.Shared /\ PushLock'.Block = PushLock.Block
  BY DEF PushInv, TypeOK, WordType
<1>2. /\ pc' \in [Threads -> Labels] /\ Keeps(t, pc, pc')
      /\ frame' \in [Threads -> FrameType] /\ Keeps(t, frame, frame')
      /\ frame[t].call \in Acquiring => pc'[t] = "testWait" /\ frame'[t].call = frame[t].call
      /\ frame[t].call \notin Acquiring => pc'[t] = "idle" /\ frame'[t].call = "none"
  BY LeaveWakeDoes, NoFrameType DEF PushInv
<1>3. pc'[t] \in {"testWait", "idle"}
  BY <1>2
<1>4. pc[t] \in WakerLabels /\ pc'[t] \notin WakerLabels
  BY <1>3 DEF WakerLabels
<1>5. held[t] = "none"
  BY <1>4, WakerFacts
<1>6. Moves(t)
  BY <1>2 DEF Moves, PushInv, TypeOK, Keeps
<1>7. BlockInUse(t)' <=> BlockInUse(t)
  BY <1>2 DEF BlockInUse, Acquiring
<1>8. Calm(t)
  BY <1>1, <1>3, <1>6, <1>7 DEF Calm, SharersKnown, AtGates, Signaling, history
<1>9. OneWaker'
  BY <1>1, <1>2, <1>4, WakerGoes DEF PushInv, ListIntact
<1>10. WordExact' /\ CountsHolders'
  BY <1>1, <1>2, <1>3, WordKept DEF PushInv, history
<1>11. CallInUse(t)'
  BY <1>2, <1>5 DEF CallInUse
<1>12. ReleaserSees(t)'
  BY <1>3 DEF ReleaserSees
<1>13. t \notin Wakers'
  BY <1>4 DEF Wakers, WakerLabels
<1> QED
  BY <1>8, <1>9, <1>10, <1>11, <1>12, <1>13, CalmStep

LEMMA OptimizeDoneInv ==
    ASSUME PushInv, NEW t \in Threads, OptimizeDone(t)
    PROVE  PushInv'
<1>1. pc[t] = "optimizeDone" /\ UNCHANGED <<Block, gate, held, history>>
  BY DEF OptimizeDone
<1>2. CASE PushLock' = [PushLock EXCEPT !.Waking = FALSE] /\ LeaveWake(t)
  BY <1>1, <1>2, WakerLeaves
<1>3. CASE EnterOptimize(t, PushLock) /\ UNCHANGED PushLock
  <2>1. UNCHANGED <<memory, history>>
    BY <1>1, <1>3 DEF memory
  <2>2. CASE PushLock.Locked
    BY <1>1, <1>3, <2>1, <2>2, Rewalk DEF EnterOptimize
  <2>3. CASE ~PushLock.Locked
    <3>1. ~PushLock.MultipleShared
      BY <2>3, Unheld DEF PushInv
    <3> QED
      BY <1>1, <1>3, <2>1, <2>3, <3>1, Rewalk DEF EnterOptimize
  <2> QED
    BY <2>2, <2>3
<1> QED
  BY <1>2, <1>3 DEF OptimizeDone

LEMMA ReenterWakeInv ==
    ASSUME PushInv, NEW t \in Threads, pc[t] \in {"wakeLocked", "wakePick"},
           EnterWake(t, PushLock), UNCHANGED <<memory, history>>
    PROVE  PushInv'
<1>1. ~PushLock.MultipleShared
  <2>1. pc[t] \in WakerLabels
    BY DEF WakerLabels
  <2> QED
    BY <2>1, WakerFacts DEF WakerInList
<1>2. CASE PushLock.Locked
  BY <1>1, <1>2, Rewalk DEF EnterWake
<1>3. CASE ~PushLock.Locked
  BY <1>1, <1>3, Rewalk DEF EnterWake
<1> QED
  BY <1>2, <1>3

LEMMA WakeLockedInv ==
    ASSUME PushInv, NEW t \in Threads, WakeLocked(t)
    PROVE  PushInv'
  BY WakerLeaves, ReenterWakeInv DEF WakeLocked, memory

LEMMA ClearWakingInv ==
    ASSUME PushInv, NEW t \in Threads, ClearWaking(t)
    PROVE  PushInv'
<1>1. pc[t] = "clearWaking" /\ UNCHANGED <<Block, gate, held, frame, history>> /\ "signal" \in Labels
  BY DEF ClearWaking, Labels
<1>2. /\ PushLock' \in WordType /\ PushLock'.Waking = FALSE /\ PushLock'.Locked = PushLock.Locked
      /\ PushLock'.Waiting = PushLock.Waiting /\ PushLock'.MultipleShared = PushLock.MultipleShared
      /\ PushLock'.Shared = PushLock.Shared /\ PushLock'.Block = PushLock.Block
  BY DEF ClearWaking, PushInv, TypeOK, WordType
<1>3. pc' \in [Threads -> Labels] /\ Keeps(t, pc, pc') /\ pc'[t] = "signal"
  BY <1>1, GotoDoes DEF ClearWaking, PushInv, TypeOK
<1>4. pc[t] \in WakerLabels /\ pc'[t] \notin WakerLabels
  BY <1>1, <1>3 DEF WakerLabels
<1>5. held[t] = "none"
  BY <1>4, WakerFacts
<1>6. Moves(t)
  BY <1>1, <1>3 DEF Moves, PushInv, TypeOK, Keeps
<1>7. BlockInUse(t)' <=> BlockInUse(t)
  BY <1>1, <1>3 DEF BlockInUse
<1>8. Calm(t)
  BY <1>1, <1>2, <1>3, <1>6, <1>7 DEF Calm, SharersKnown, AtGates, Signaling, history
<1>9. OneWaker'
  BY <1>2, <1>3, <1>4, WakerGoes DEF PushInv, ListIntact
<1>10. WordExact' /\ CountsHolders'
  BY <1>1, <1>2, <1>3, WordKept DEF PushInv, history
<1>11. CallInUse(t)' /\ ReleaserSees(t)'
  BY <1>1, <1>3, <1>5 DEF CallInUse, ReleaserSees
<1>12. t \notin Wakers'
  BY <1>4 DEF Wakers, WakerLabels
<1> QED
  BY <1>8, <1>9, <1>10, <1>11, <1>12, CalmStep

LEMMA QueueFacts ==
    ASSUME TypeOK
    PROVE  /\ queue \in Seq(Threads) /\ Len(queue) \in Nat /\ DOMAIN queue = 1 .. Len(queue)
           /\ \A i \in 1 .. Len(queue) : queue[i] \in Threads
           /\ queue # <<>> => /\ Len(queue) >= 1 /\ Len(queue) \in DOMAIN queue
                              /\ Oldest \in Threads /\ Oldest # NULL
  BY NullAssumption DEF TypeOK, Oldest

(* Where a walk is, and what its block says.                               *)
LEMMA WalkerFacts ==
    ASSUME PushInv, NEW t \in Threads, pc[t] \in {"optimizeWalk", "wakeWalk"}
    PROVE  \E k \in DOMAIN queue, m \in DOMAIN queue :
               /\ k <= m /\ First(t) = queue[k] /\ Cursor(t) = queue[m]
               /\ Block[queue[k]].Previous = NULL
               /\ \A j \in 1 .. m - 1 : Block[queue[j]].Last = NULL
               /\ \A j \in k + 1 .. m : Block[queue[j]].Previous = queue[j - 1]
               /\ Block[Cursor(t)].Last = NULL =>
                      m < Len(queue) /\ Block[Cursor(t)].Next = queue[m + 1]
               /\ Block[Cursor(t)].Last # NULL =>
                      /\ Block[Cursor(t)].Last = Oldest
                      /\ \A j \in m + 1 .. Len(queue) : Block[queue[j]].Previous = queue[j - 1]
<1>1. pc[t] \in WakerLabels /\ pc[t] # "clearWaking"
  BY DEF WakerLabels
<1>2. WakerInList(t) /\ queue # <<>>
  BY <1>1, WakerFacts
<1>3. PICK k \in DOMAIN queue : WakerAt(t, k)
  BY <1>1, <1>2 DEF WakerInList
<1>4. PICK m \in k .. Len(queue) :
          /\ Cursor(t) = queue[m]
          /\ \A j \in k .. m - 1 : Block[queue[j]].Last = NULL
          /\ \A j \in k + 1 .. m : Block[queue[j]].Previous = queue[j - 1]
  BY <1>3 DEF WakerAt
<1>5. Len(queue) \in Nat /\ DOMAIN queue = 1 .. Len(queue)
  BY QueueFacts DEF PushInv
<1>6. k \in Nat /\ 1 <= k /\ m \in Nat /\ k <= m /\ m <= Len(queue) /\ m \in DOMAIN queue
  BY <1>3, <1>4, <1>5
<1>7. First(t) = queue[k] /\ Block[queue[k]].Previous = NULL
  BY <1>3 DEF WakerAt
<1>8. \A j \in 1 .. m - 1 : Block[queue[j]].Last = NULL
  <2>1. \A j \in 1 .. k - 1 : Block[queue[j]].Last = NULL
    BY <1>3 DEF WakerAt
  <2> QED
    BY <1>4, <1>6, <2>1
<1>9. PICK i \in DOMAIN queue : /\ FirstWithLast(i)
                                /\ Block[queue[i]].Last = Oldest
                                /\ \A j \in i + 1 .. Len(queue) : Block[queue[j]].Previous = queue[j - 1]
  BY <1>2 DEF PushInv, ListIntact, LinksMatchQueue
<1>10. i \in Nat /\ 1 <= i /\ i <= Len(queue) /\ i >= m
  BY <1>5, <1>6, <1>8, <1>9 DEF FirstWithLast
<1>11. Block[Cursor(t)].Last = NULL => m < Len(queue) /\ Block[Cursor(t)].Next = queue[m + 1]
  <2>1. Block[Cursor(t)].Last = NULL => m # i
    BY <1>4, <1>9 DEF FirstWithLast
  <2>2. Block[Cursor(t)].Last = NULL => m < Len(queue) /\ m \in 1 .. Len(queue) - 1
    BY <1>5, <1>6, <1>10, <2>1
  <2> QED
    BY <1>4, <2>2 DEF PushInv, ListIntact, LinksMatchQueue
<1>12. Block[Cursor(t)].Last # NULL => m = i
  BY <1>4, <1>6, <1>9, <1>10 DEF FirstWithLast
<1>13. Block[Cursor(t)].Last # NULL =>
           /\ Block[Cursor(t)].Last = Oldest
           /\ \A j \in m + 1 .. Len(queue) : Block[queue[j]].Previous = queue[j - 1]
  BY <1>4, <1>9, <1>12
<1> QED
  BY <1>3, <1>4, <1>6, <1>7, <1>8, <1>11, <1>13

-----------------------------------------------------------------------------
(* Steps of the waker along the list. They change Last and Previous only,  *)
(* and those of no block that was taken off.                               *)

OnTheWay == {"optimizeWalk", "optimizeDone", "wakeWalk", "wakePick"}

SameBlock(b) == /\ Block'[b].Exclusive = Block[b].Exclusive /\ Block'[b].Wait = Block[b].Wait
                /\ Block'[b].Next = Block[b].Next /\ Block'[b].ShareCount = Block[b].ShareCount
                /\ Block'[b].Signaled = Block[b].Signaled

WakerEdits(t) ==
    /\ pc' \in [Threads -> Labels] /\ Keeps(t, pc, pc')
    /\ frame' \in [Threads -> FrameType] /\ Keeps(t, frame, frame')
    /\ frame'[t].call = frame[t].call
    /\ UNCHANGED <<PushLock, gate, held, queue, taken>>
    /\ pc[t] \in OnTheWay /\ pc'[t] \in OnTheWay
    /\ Block' \in [Threads -> WaitBlockType]
    /\ \A b \in Threads : SameBlock(b)
    /\ \A u \in Threads : \A i \in DOMAIN taken[u] :
           Block'[taken[u][i]].Previous = Block[taken[u][i]].Previous

(* Steps that leave alone what the signaling of waiters depends on.        *)
LEMMA EditsKeep ==
    ASSUME PushInv, NEW t \in Threads, Keeps(t, pc, pc'), Keeps(t, frame, frame'),
           UNCHANGED <<gate, queue, taken>>,
           pc[t] \notin AtGates \cup Signaling, pc'[t] \notin AtGates \cup Signaling,
           BlockInUse(t)' <=> BlockInUse(t),
           \A b \in Threads : Block'[b].Signaled = Block[b].Signaled /\ Block'[b].Wait = Block[b].Wait,
           \A u \in Threads : \A i \in DOMAIN taken[u] :
               Block'[taken[u][i]].Previous = Block[taken[u][i]].Previous
    PROVE  NoWaiterLost' /\ SignalsWhatItTook' /\ SignalsInUse'
<1>1. \A u \in Threads : BlockInUse(u)' <=> BlockInUse(u)
  BY DEF BlockInUse, Keeps
<1>2. \A u \in Threads : /\ pc'[u] \in AtGates \cup Signaling <=> pc[u] \in AtGates \cup Signaling
                         /\ pc'[u] \in AtGates \cup Signaling => pc'[u] = pc[u] /\ frame'[u] = frame[u]
  BY DEF Keeps
<1>3. NoWaiterLost'
  <2>1. \A u \in Threads : pc[u] \in Signaling => pc'[u] = pc[u]
    BY <1>2
  <2> QED
    BY <1>1, <2>1 DEF PushInv, ListIntact, NoWaiterLost, Pending, InSeq, Distinct, Signaling
<1>4. SignalsWhatItTook'
  <2>1. \A u \in Threads : pc'[u] \in {"clearWaking", "signal"} => pc'[u] = pc[u] /\ frame'[u] = frame[u]
    BY <1>2 DEF Signaling
  <2> QED
    BY <2>1 DEF PushInv, ListIntact, SignalsWhatItTook, Cursor
<1>5. SignalsInUse'
  <2>1. \A u \in Threads : /\ pc'[u] = "gate" <=> pc[u] = "gate"
                           /\ pc'[u] = "signalGate" <=> pc[u] = "signalGate"
                           /\ pc'[u] = "signalGate" => frame'[u] = frame[u]
    BY <1>2 DEF AtGates
  <2>2. \A u \in Threads : pc[u] = "signalGate" => Cursor(u) \in Threads
    BY DEF PushInv, SignalsInUse, TypeOK, Cursor, FrameType
  <2>3. \A u \in Threads : pc'[u] = "signalGate" => Cursor(u)' = Cursor(u)
    BY <2>1 DEF Cursor
  <2>4. \A u \in Threads : pc'[u] = "signalGate" =>
            /\ Cursor(u)' # NULL /\ pc'[Cursor(u)'] = "gate"
            /\ Block'[Cursor(u)'].Signaled /\ ~gate'[Cursor(u)']
            /\ frame'[u].PreviousWaitBlock = IF taken'[u] = <<>> THEN NULL ELSE taken'[u][1]
    BY <2>1, <2>2, <2>3 DEF PushInv, SignalsInUse
  <2>5. \A u \in Threads :
            /\ BlockInUse(u)' => (Block'[u].Wait <=> pc'[u] # "gate" /\ ~Block'[u].Signaled)
            /\ gate'[u] => pc'[u] = "gate" /\ Block'[u].Signaled
    BY <1>1, <2>1 DEF PushInv, SignalsInUse
  <2>6. \A u, v \in Threads :
            pc'[u] = "signalGate" /\ pc'[v] = "signalGate" /\ Cursor(u)' = Cursor(v)' => u = v
    BY <2>1, <2>3 DEF PushInv, SignalsInUse
  <2> QED
    BY <2>4, <2>5, <2>6 DEF SignalsInUse
<1> QED
  BY <1>3, <1>4, <1>5

LEMMA WakerEditsStep ==
    ASSUME PushInv, NEW t \in Threads, WakerEdits(t), LinksMatchQueue', ListShape', WakerInList(t)'
    PROVE  PushInv'
<1> USE DEF WakerEdits
<1>1. TypeOK' /\ queue' = queue /\ taken' = taken /\ held' = held /\ PushLock' = PushLock /\ gate' = gate
  BY DEF PushInv, TypeOK
<1>2. pc[t] \in WakerLabels /\ pc'[t] \in WakerLabels /\ pc[t] # "unlock" /\ pc'[t] # "unlock"
      /\ pc[t] \notin Signaling \ {"clearWaking"} /\ pc'[t] \notin Signaling
      /\ pc[t] \notin AtGates /\ pc'[t] \notin AtGates
  BY DEF OnTheWay, WakerLabels, Signaling, AtGates
<1>3. PushLock.Waiting /\ held[t] = "none" /\ queue # <<>> /\ \A u \in Threads : u # t => pc[u] \notin WakerLabels
  BY <1>2, WakerFacts
<1>4. Oldest' = Oldest /\ SameBlock(Oldest)
  BY <1>1, <1>3, QueueFacts DEF Oldest, PushInv
<1>5. Sharers' = Sharers /\ LastSharer' = LastSharer
  BY <1>1, <1>2 DEF Sharers, LastSharer, Keeps
<1>6. WordExact' /\ CountsHolders'
  BY <1>1, <1>4, <1>5 DEF PushInv, WordExact, CountsHolders, SameBlock
<1>7. OneWaker'
  BY <1>1, <1>2, WakerKept DEF PushInv, ListIntact
<1>8. \A u \in Threads : BlockInUse(u)' <=> BlockInUse(u)
  BY <1>2 DEF BlockInUse, Keeps, OnTheWay
<1>9. ASSUME NEW u \in Threads PROVE CallInUse(u)' /\ ReleaserSees(u)'
  <2>1. CASE u = t
    BY <1>1, <1>3, <2>1 DEF CallInUse, ReleaserSees, OnTheWay
  <2>2. CASE u # t
    <3>1. pc'[u] = pc[u] /\ frame'[u] = frame[u]
      BY <2>2 DEF Keeps
    <3>2. CallInUse(u) /\ ReleaserSees(u)
      BY DEF PushInv
    <3>3. CallInUse(u)'
      BY <1>1, <3>1, <3>2 DEF CallInUse
    <3>4. ReleaserSees(u)'
      BY <1>1, <1>4, <3>1, <3>2 DEF ReleaserSees, Old, Cursor, InSeq
    <3> QED
      BY <3>3, <3>4
  <2> QED
    BY <2>1, <2>2
<1>10. NoWaiterLost' /\ SignalsWhatItTook' /\ SignalsInUse'
  <2>1. \A b \in Threads : Block'[b].Signaled = Block[b].Signaled /\ Block'[b].Wait = Block[b].Wait
    BY DEF SameBlock
  <2>2. pc[t] \notin AtGates \cup Signaling /\ pc'[t] \notin AtGates \cup Signaling
    BY DEF OnTheWay, AtGates, Signaling
  <2> QED
    BY <1>8, <2>1, <2>2, EditsKeep
<1>11. WakersInList'
  <2>1. \A u \in Wakers' : u = t
    BY <1>3 DEF Wakers, WakerLabels, Keeps
  <2> QED
    BY <2>1 DEF WakersInList, WakerInList
<1> QED
  BY <1>1, <1>6, <1>7, <1>9, <1>10, <1>11 DEF PushInv, ListIntact

(* Nobody has taken what is on the list.                                   *)
LEMMA ListedNotTaken ==
    ASSUME PushInv, NEW m \in DOMAIN queue
    PROVE  /\ \A u \in Threads : \A i \in DOMAIN taken[u] : taken[u][i] # queue[m]
           /\ \A j \in DOMAIN queue : queue[j] = queue[m] => j = m
           /\ BlockInUse(queue[m]) /\ ~Block[queue[m]].Signaled
<1>1. queue[m] \in Threads /\ InSeq(queue[m], queue)
  BY QueueFacts DEF PushInv, InSeq
<1> QED
  BY <1>1 DEF PushInv, ListIntact, NoWaiterLost, Pending, InSeq, Distinct

LEMMA StepToNextInv ==
    ASSUME PushInv, NEW t \in Threads, pc[t] \in {"optimizeWalk", "wakeWalk"}, StepToNext(t)
    PROVE  PushInv'
<1>1. PICK k \in DOMAIN queue, m \in DOMAIN queue :
          /\ k <= m /\ First(t) = queue[k] /\ Cursor(t) = queue[m]
          /\ Block[queue[k]].Previous = NULL
          /\ \A j \in 1 .. m - 1 : Block[queue[j]].Last = NULL
          /\ \A j \in k + 1 .. m : Block[queue[j]].Previous = queue[j - 1]
          /\ Block[Cursor(t)].Last = NULL =>
                 m < Len(queue) /\ Block[Cursor(t)].Next = queue[m + 1]
  BY WalkerFacts
<1>2. /\ queue \in Seq(Threads) /\ Len(queue) \in Nat /\ DOMAIN queue = 1 .. Len(queue)
      /\ \A i \in 1 .. Len(queue) : queue[i] \in Threads
  BY QueueFacts DEF PushInv
<1> DEFINE c == queue[m]
           n == queue[m + 1]
<1>3. /\ Block[c].Last = NULL /\ m < Len(queue) /\ m + 1 \in DOMAIN queue
      /\ Block' = [Block EXCEPT ![n].Previous = c]
      /\ frame' = [frame EXCEPT ![t].WaitBlock = n]
      /\ UNCHANGED <<PushLock, gate, held, pc, queue, taken>>
  <2>1. Block[c].Last = NULL /\ m < Len(queue) /\ c = Cursor(t) /\ n = Block[Cursor(t)].Next
    BY <1>1 DEF StepToNext
  <2>2. m + 1 \in DOMAIN queue
    BY <1>2, <2>1
  <2> HIDE DEF c, n
  <2>3. Block' = [Block EXCEPT ![n].Previous = c] /\ frame' = [frame EXCEPT ![t].WaitBlock = n]
    BY <2>1 DEF StepToNext
  <2> QED
    BY <2>1, <2>2, <2>3 DEF StepToNext, history
<1>4. c \in Threads /\ n \in Threads /\ Block \in [Threads -> WaitBlockType]
  BY <1>2, <1>3 DEF PushInv, TypeOK
<1> HIDE DEF c, n
<1>5. /\ Block' \in [Threads -> WaitBlockType] /\ Block'[n].Previous = c
      /\ \A b \in Threads : SameBlock(b) /\ Block'[b].Last = Block[b].Last
      /\ \A b \in Threads : b # n => Block'[b].Previous = Block[b].Previous
  BY <1>3, <1>4 DEF WaitBlockType, SameBlock
<1>6. /\ frame' \in [Threads -> FrameType] /\ Keeps(t, frame, frame') /\ frame'[t].call = frame[t].call
      /\ frame'[t].WaitBlock = n /\ frame'[t].WakeValue = frame[t].WakeValue
  BY <1>3, <1>4, CursorDoes DEF PushInv
<1>7. /\ \A u \in Threads : \A i \in DOMAIN taken[u] : taken[u][i] # n
      /\ \A j \in DOMAIN queue : queue[j] = n => j = m + 1
  BY <1>3, ListedNotTaken DEF n
<1>8. WakerEdits(t)
  <2>1. \A u \in Threads : \A i \in DOMAIN taken[u] : taken[u][i] \in Threads
    BY DEF PushInv, TypeOK
  <2> QED
    BY <1>3, <1>5, <1>6, <1>7, <2>1 DEF WakerEdits, OnTheWay, PushInv, TypeOK, Keeps
<1>9. \A j \in DOMAIN queue : Block'[queue[j]].Previous = IF j = m + 1 THEN c ELSE Block[queue[j]].Previous
  BY <1>2, <1>5, <1>7 DEF n
<1>10. \A j \in DOMAIN queue : /\ Block'[queue[j]].Last = Block[queue[j]].Last
                               /\ Block'[queue[j]].Next = Block[queue[j]].Next
  BY <1>2, <1>5 DEF SameBlock
<1>11. LinksMatchQueue'
  <2>1. PICK i \in DOMAIN queue : /\ FirstWithLast(i) /\ Block[queue[i]].Last = Oldest
                                  /\ \A j \in i + 1 .. Len(queue) : Block[queue[j]].Previous = queue[j - 1]
    BY <1>2, <1>3 DEF PushInv, ListIntact, LinksMatchQueue
  <2>2. FirstWithLast(i)' /\ Block'[queue[i]].Last = Oldest'
    BY <1>2, <1>3, <1>10, <2>1 DEF FirstWithLast, Oldest
  <2>3. \A j \in i + 1 .. Len(queue) : Block'[queue[j]].Previous = queue[j - 1]
    BY <1>2, <1>9, <2>1 DEF c
  <2>4. \A j \in 1 .. Len(queue) - 1 : Block'[queue[j]].Next = queue[j + 1]
    BY <1>2, <1>10 DEF PushInv, ListIntact, LinksMatchQueue
  <2> QED
    BY <1>3, <2>1, <2>2, <2>3, <2>4 DEF PushInv, ListIntact, LinksMatchQueue
<1>12. ListShape'
  <2>1. Block'[queue[1]].Previous = Block[queue[1]].Previous
    BY <1>1, <1>2, <1>3, <1>9
  <2>2. \A b \in Threads : Block'[b].ShareCount = Block[b].ShareCount
    BY <1>5 DEF SameBlock
  <2>3. Len(queue) \in DOMAIN queue
    BY <1>1, <1>2
  <2> QED
    BY <1>3, <1>10, <2>1, <2>2, <2>3 DEF PushInv, ListShape, Oldest
<1>13. WakerInList(t)'
  <2>1. pc[t] \in WakerLabels /\ pc'[t] = pc[t]
    BY <1>3 DEF WakerLabels
  <2>2. WakerInList(t)
    BY <2>1, WakerFacts
  <2>3. k \in Nat /\ m \in Nat /\ 1 <= k
    BY <1>1, <1>2
  <2>4. First(t)' = queue[k] /\ Cursor(t)' = queue[m + 1]
    BY <1>1, <1>6 DEF First, Cursor, n
  <2>5. Block'[queue[k]].Previous = NULL
    BY <1>1, <1>9, <2>3
  <2>6. \A j \in 1 .. m : Block'[queue[j]].Last = NULL
    BY <1>1, <1>2, <1>3, <1>10, <2>3 DEF c
  <2>7. \A j \in k + 1 .. m + 1 : Block'[queue[j]].Previous = queue[j - 1]
    BY <1>1, <1>2, <1>3, <1>9, <2>3 DEF c
  <2>8. m + 1 \in k .. Len(queue)
    BY <1>1, <1>2, <1>3, <2>3
  <2>9. WakerAt(t, k)'
    <3>1. \A j \in 1 .. k - 1 : Block'[queue[j]].Last = NULL
      BY <1>1, <2>3, <2>6
    <3>2. \A j \in k .. (m + 1) - 1 : Block'[queue[j]].Last = NULL
      BY <2>3, <2>6
    <3>3. pc'[t] # "wakePick"
      BY <1>3
    <3> QED
      BY <1>3, <2>4, <2>5, <2>7, <2>8, <3>1, <3>2, <3>3 DEF WakerAt, InSeq
  <2> QED
    BY <1>1, <1>3, <1>6, <2>1, <2>2, <2>9 DEF WakerInList
<1> QED
  BY <1>8, <1>11, <1>12, <1>13, WakerEditsStep

LEMMA WakeWalkInv ==
    ASSUME PushInv, NEW t \in Threads, WakeWalk(t)
    PROVE  PushInv'
<1>0. pc[t] = "wakeWalk"
  BY DEF WakeWalk
<1>1. CASE StepToNext(t)
  BY <1>0, <1>1, StepToNextInv
<1>2. CASE /\ Block[Cursor(t)].Last # NULL
           /\ frame' = [frame EXCEPT ![t].WaitBlock = Block[Cursor(t)].Last]
           /\ Goto(t, "wakePick") /\ UNCHANGED <<memory, history>>
  <2>1. PICK k \in DOMAIN queue, m \in DOMAIN queue :
            /\ k <= m /\ First(t) = queue[k] /\ Cursor(t) = queue[m]
            /\ Block[queue[k]].Previous = NULL
            /\ \A j \in 1 .. m - 1 : Block[queue[j]].Last = NULL
            /\ \A j \in k + 1 .. m : Block[queue[j]].Previous = queue[j - 1]
            /\ Block[Cursor(t)].Last = Oldest
            /\ \A j \in m + 1 .. Len(queue) : Block[queue[j]].Previous = queue[j - 1]
    BY <1>0, <1>2, WalkerFacts
  <2>2. /\ queue \in Seq(Threads) /\ Len(queue) \in Nat /\ DOMAIN queue = 1 .. Len(queue)
        /\ \A i \in 1 .. Len(queue) : queue[i] \in Threads
    BY QueueFacts DEF PushInv
  <2>3. Oldest \in Threads /\ queue # <<>> /\ Len(queue) \in DOMAIN queue
    BY <2>1, <2>2 DEF Oldest
  <2>4. UNCHANGED <<PushLock, Block, gate, held, queue, taken>>
    BY <1>2 DEF memory, history
  <2>5. "wakePick" \in Labels
    BY DEF Labels
  <2>6. pc' \in [Threads -> Labels] /\ pc'[t] = "wakePick" /\ Keeps(t, pc, pc')
    BY <1>2, <2>5, GotoDoes DEF PushInv, TypeOK
  <2>7. /\ frame' \in [Threads -> FrameType] /\ Keeps(t, frame, frame') /\ frame'[t].call = frame[t].call
        /\ frame'[t].WaitBlock = Oldest /\ frame'[t].WakeValue = frame[t].WakeValue
    BY <1>2, <2>1, <2>3, CursorDoes DEF PushInv
  <2>8. WakerEdits(t)
    BY <1>0, <2>4, <2>6, <2>7 DEF WakerEdits, OnTheWay, SameBlock, PushInv, TypeOK
  <2>9. LinksMatchQueue' /\ ListShape'
    BY <2>4 DEF PushInv, ListIntact, LinksMatchQueue, ListShape, FirstWithLast, Oldest
  <2>10. WakerInList(t)'
    <3>1. pc[t] \in WakerLabels
      BY <1>0 DEF WakerLabels
    <3>2. WakerInList(t)
      BY <3>1, WakerFacts
    <3>3. k \in Nat /\ m \in Nat /\ 1 <= k
      BY <2>1, <2>2
    <3>4. First(t)' = queue[k] /\ Cursor(t)' = Oldest /\ Oldest' = Oldest /\ InSeq(Oldest, queue)
      BY <2>1, <2>3, <2>4, <2>7 DEF First, Cursor, Oldest, InSeq
    <3>5. \A j \in k + 1 .. Len(queue) : Block[queue[j]].Previous = queue[j - 1]
      BY <2>1, <2>2, <3>3
    <3>6. \A j \in 1 .. k - 1 : Block[queue[j]].Last = NULL
      BY <2>1, <3>3
    <3>7. WakerAt(t, k)'
      BY <2>1, <2>4, <2>6, <3>4, <3>5, <3>6 DEF WakerAt, InSeq
    <3> QED
      BY <1>0, <2>1, <2>4, <2>6, <2>7, <3>2, <3>7 DEF WakerInList
  <2> QED
    BY <2>8, <2>9, <2>10, WakerEditsStep
<1> QED
  BY <1>1, <1>2 DEF WakeWalk

LEMMA OptimizeWalkInv ==
    ASSUME PushInv, NEW t \in Threads, OptimizeWalk(t)
    PROVE  PushInv'
<1>0. pc[t] = "optimizeWalk"
  BY DEF OptimizeWalk
<1>1. CASE StepToNext(t)
  BY <1>0, <1>1, StepToNextInv
<1>2. CASE /\ Block[Cursor(t)].Last # NULL
           /\ Block' = [Block EXCEPT ![First(t)].Last = Block[Cursor(t)].Last]
           /\ Goto(t, "optimizeDone")
           /\ UNCHANGED <<PushLock, gate, held, frame, history>>
  <2>1. PICK k \in DOMAIN queue, m \in DOMAIN queue :
            /\ k <= m /\ First(t) = queue[k] /\ Cursor(t) = queue[m]
            /\ Block[queue[k]].Previous = NULL
            /\ \A j \in 1 .. m - 1 : Block[queue[j]].Last = NULL
            /\ \A j \in k + 1 .. m : Block[queue[j]].Previous = queue[j - 1]
            /\ Block[Cursor(t)].Last = Oldest
            /\ \A j \in m + 1 .. Len(queue) : Block[queue[j]].Previous = queue[j - 1]
    BY <1>0, <1>2, WalkerFacts
  <2>2. /\ queue \in Seq(Threads) /\ Len(queue) \in Nat /\ DOMAIN queue = 1 .. Len(queue)
        /\ \A i \in 1 .. Len(queue) : queue[i] \in Threads
    BY QueueFacts DEF PushInv
  <2>3. Oldest \in Threads /\ Oldest # NULL /\ queue # <<>> /\ Len(queue) \in DOMAIN queue
    BY <2>1, <2>2, NullAssumption DEF Oldest
  <2>4. UNCHANGED <<PushLock, gate, held, queue, taken>> /\ frame' = frame /\ Oldest' = Oldest
    BY <1>2 DEF history, Oldest
  <2>5. "optimizeDone" \in Labels
    BY DEF Labels
  <2>6. pc' \in [Threads -> Labels] /\ pc'[t] = "optimizeDone" /\ Keeps(t, pc, pc')
    BY <1>2, <2>5, GotoDoes DEF PushInv, TypeOK
  <2> DEFINE f == queue[k]
  <2>7. f \in Threads /\ Block' = [Block EXCEPT ![f].Last = Oldest] /\ Block \in [Threads -> WaitBlockType]
    BY <1>2, <2>1, <2>2 DEF PushInv, TypeOK
  <2> HIDE DEF f
  <2>8. /\ Block' \in [Threads -> WaitBlockType] /\ Block'[f].Last = Oldest
        /\ \A b \in Threads : SameBlock(b) /\ Block'[b].Previous = Block[b].Previous
        /\ \A b \in Threads : b # f => Block'[b].Last = Block[b].Last
    BY <2>3, <2>7 DEF WaitBlockType, SameBlock
  <2>9. WakerEdits(t)
    <3>1. \A u \in Threads : \A i \in DOMAIN taken[u] : taken[u][i] \in Threads
      BY DEF PushInv, TypeOK
    <3> QED
      BY <1>0, <2>4, <2>6, <2>8, <3>1 DEF WakerEdits, OnTheWay, PushInv, TypeOK, Keeps
  <2>10. \A j \in DOMAIN queue : queue[j] = f => j = k
    BY <2>1, ListedNotTaken DEF f
  <2>11. \A j \in DOMAIN queue :
             /\ Block'[queue[j]].Last = IF j = k THEN Oldest ELSE Block[queue[j]].Last
             /\ Block'[queue[j]].Next = Block[queue[j]].Next
             /\ Block'[queue[j]].Previous = Block[queue[j]].Previous
    BY <2>2, <2>8, <2>10 DEF f, SameBlock
  <2>12. k \in Nat /\ m \in Nat /\ 1 <= k /\ k <= Len(queue)
    BY <2>1, <2>2
  <2>13. \A j \in 1 .. k - 1 : Block'[queue[j]].Last = NULL
    BY <2>1, <2>2, <2>11, <2>12
  <2>14. LinksMatchQueue'
    <3>1. FirstWithLast(k)' /\ Block'[queue[k]].Last = Oldest
      BY <2>1, <2>3, <2>4, <2>11, <2>13 DEF FirstWithLast
    <3>2. \A j \in k + 1 .. Len(queue) : Block'[queue[j]].Previous = queue[j - 1]
      BY <2>1, <2>2, <2>11, <2>12
    <3>3. \A j \in 1 .. Len(queue) - 1 : Block'[queue[j]].Next = queue[j + 1]
      BY <2>2, <2>11 DEF PushInv, ListIntact, LinksMatchQueue
    <3> QED
      BY <2>1, <2>4, <3>1, <3>2, <3>3 DEF PushInv, ListIntact, LinksMatchQueue
  <2>15. ListShape'
    <3>1. Block'[queue[1]].Previous = Block[queue[1]].Previous
      BY <2>2, <2>11, <2>12
    <3>2. \A b \in Threads : Block'[b].ShareCount = Block[b].ShareCount
      BY <2>8 DEF SameBlock
    <3>3. PushLock.MultipleShared => Block'[Oldest].Last = Oldest
      BY <2>3, <2>11 DEF PushInv, ListShape, Oldest
    <3> QED
      BY <2>4, <2>11, <3>1, <3>2, <3>3 DEF PushInv, ListShape
  <2>16. WakerInList(t)'
    <3>1. pc[t] \in WakerLabels
      BY <1>0 DEF WakerLabels
    <3>2. WakerInList(t)
      BY <3>1, WakerFacts
    <3>3. First(t)' = queue[k] /\ Cursor(t)' = queue[m]
      BY <2>1, <2>4 DEF First, Cursor
    <3>4. Block'[queue[k]].Previous = NULL
      BY <2>1, <2>11
    <3>5. WakerAt(t, k)'
      BY <2>1, <2>4, <2>6, <2>13, <3>3, <3>4 DEF WakerAt, InSeq
    <3> QED
      BY <1>0, <2>1, <2>4, <2>6, <3>2, <3>5 DEF WakerInList
  <2> QED
    BY <2>9, <2>14, <2>15, <2>16, WakerEditsStep
<1> QED
  BY <1>1, <1>2 DEF OptimizeWalk

-----------------------------------------------------------------------------
(* A sharer counts itself out.                                             *)

(* Steps that leave alone the links of the blocks on the list.             *)
LEMMA ListKept ==
    ASSUME PushInv, UNCHANGED <<PushLock, queue>>,
           \A j \in DOMAIN queue : /\ Block'[queue[j]].Next = Block[queue[j]].Next
                                   /\ Block'[queue[j]].Last = Block[queue[j]].Last
                                   /\ Block'[queue[j]].Previous = Block[queue[j]].Previous,
           \A b \in Threads : Block'[b].ShareCount # 0 => Block[b].ShareCount # 0,
           \A u \in Wakers' : u \in Wakers /\ pc'[u] = pc[u] /\ frame'[u] = frame[u]
    PROVE  LinksMatchQueue' /\ ListShape' /\ WakersInList'
<1>1. Len(queue) \in Nat /\ DOMAIN queue = 1 .. Len(queue) /\ Oldest' = Oldest
  BY QueueFacts DEF PushInv, Oldest
<1>2. LinksMatchQueue'
  <2>1. queue # <<>> =>
            \E i \in DOMAIN queue : /\ FirstWithLast(i) /\ Block[queue[i]].Last = Oldest
                                    /\ \A j \in i + 1 .. Len(queue) : Block[queue[j]].Previous = queue[j - 1]
    BY DEF PushInv, ListIntact, LinksMatchQueue
  <2>2. ASSUME NEW i \in DOMAIN queue, FirstWithLast(i) PROVE FirstWithLast(i)'
    BY <1>1, <2>2 DEF FirstWithLast
  <2>3. ASSUME NEW i \in DOMAIN queue
        PROVE  \A j \in i + 1 .. Len(queue) : Block'[queue[j]].Previous = Block[queue[j]].Previous
    BY <1>1
  <2>4. \A j \in 1 .. Len(queue) - 1 : Block'[queue[j]].Next = queue[j + 1]
    BY <1>1 DEF PushInv, ListIntact, LinksMatchQueue
  <2>5. queue # <<>> =>
            \E i \in DOMAIN queue : /\ FirstWithLast(i)' /\ Block'[queue[i]].Last = Oldest
                                    /\ \A j \in i + 1 .. Len(queue) : Block'[queue[j]].Previous = queue[j - 1]
    BY <2>1, <2>2, <2>3
  <2> QED
    BY <1>1, <2>4, <2>5 DEF PushInv, ListIntact, LinksMatchQueue
<1>3. ListShape'
  <2>1. queue # <<>> => 1 \in DOMAIN queue /\ Len(queue) \in DOMAIN queue
    BY QueueFacts DEF PushInv
  <2>2. PushLock.MultipleShared => queue # <<>>
    BY DEF PushInv, CountsHolders, ListIntact, LinksMatchQueue
  <2> QED
    BY <1>1, <2>1, <2>2 DEF PushInv, ListShape, Oldest
<1>4. ASSUME NEW u \in Wakers' PROVE WakerInList(u)'
  <2>1. u \in Wakers /\ pc'[u] = pc[u] /\ frame'[u] = frame[u] /\ WakerInList(u)
    BY DEF PushInv, WakersInList, WakerInList
  <2>2. First(u)' = First(u) /\ Cursor(u)' = Cursor(u)
    BY <2>1 DEF First, Cursor
  <2>3. ASSUME NEW k \in DOMAIN queue, WakerAt(u, k) PROVE WakerAt(u, k)'
    <3>1. k \in Nat /\ 1 <= k /\ k <= Len(queue)
      BY <1>1
    <3>2. \A j \in 1 .. k - 1 : Block'[queue[j]].Last = NULL
      BY <1>1, <2>3, <3>1 DEF WakerAt
    <3>3. ASSUME NEW m \in k .. Len(queue)
          PROVE  /\ m \in Nat
                 /\ \A j \in k .. m - 1 : Block'[queue[j]].Last = Block[queue[j]].Last
                 /\ \A j \in k + 1 .. m : Block'[queue[j]].Previous = Block[queue[j]].Previous
      BY <1>1, <3>1
    <3>4. \A j \in k + 1 .. Len(queue) : Block'[queue[j]].Previous = Block[queue[j]].Previous
      BY <1>1, <3>1
    <3>5. /\ First(u) = queue[k] /\ Block'[queue[k]].Previous = NULL /\ InSeq(Cursor(u), queue)
      BY <1>1, <2>3 DEF WakerAt
    <3>6. ASSUME pc[u] \in {"optimizeWalk", "wakeWalk"}
          PROVE  \E m \in k .. Len(queue) :
                     /\ Cursor(u) = queue[m]
                     /\ \A j \in k .. m - 1 : Block'[queue[j]].Last = NULL
                     /\ \A j \in k + 1 .. m : Block'[queue[j]].Previous = queue[j - 1]
      <4>1. PICK m \in k .. Len(queue) :
                /\ Cursor(u) = queue[m]
                /\ \A j \in k .. m - 1 : Block[queue[j]].Last = NULL
                /\ \A j \in k + 1 .. m : Block[queue[j]].Previous = queue[j - 1]
        BY <2>3, <3>6 DEF WakerAt
      <4> QED
        BY <3>3, <4>1
    <3>7. ASSUME pc[u] = "wakePick"
          PROVE  /\ Cursor(u) = Oldest
                 /\ \A j \in k + 1 .. Len(queue) : Block'[queue[j]].Previous = queue[j - 1]
      BY <2>3, <3>4, <3>7 DEF WakerAt
    <3>8. queue' = queue /\ Oldest' = Oldest
      BY <1>1 DEF Oldest
    <3> QED
      BY <2>1, <2>2, <3>2, <3>5, <3>6, <3>7, <3>8 DEF WakerAt
  <2> QED
    BY <2>1, <2>3 DEF WakerInList
<1>5. WakersInList'
  BY <1>4 DEF WakersInList, WakerInList
<1> QED
  BY <1>2, <1>3, <1>5

LEMMA CounterFacts ==
    ASSUME PushInv, NEW t \in Threads, pc[t] = "releaseCount"
    PROVE  /\ held[t] = "shared" /\ Cursor(t) = Oldest /\ Oldest \in Threads /\ queue # <<>>
           /\ PushLock.Waiting /\ PushLock.MultipleShared /\ LastSharer = {}
           /\ frame[t].call \in {"ReleaseShared", "Release"} /\ Old(t).Locked /\ Old(t).Waiting
           /\ Old(t).MultipleShared
           /\ Block[Oldest].ShareCount = Cardinality(Sharers) /\ Cardinality(Sharers) >= 1
<1>1. /\ Cursor(t) = Oldest /\ PushLock.Waiting /\ PushLock.MultipleShared /\ held[t] # "none"
      /\ frame[t].call \in {"ReleaseShared", "Release"} /\ Old(t).Locked /\ Old(t).Waiting
      /\ Old(t).MultipleShared
  BY DEF PushInv, ReleaserSees, CallInUse
<1>2. queue # <<>> /\ Oldest \in Threads
  BY <1>1, QueueFacts DEF PushInv, ListIntact, LinksMatchQueue
<1>3. held[t] = "shared"
  BY <1>1, ExclusiveAlone DEF PushInv, TypeOK, Modes
<1>4. t \in Sharers
  BY <1>3 DEF Sharers
<1>5. LastSharer = {}
  BY <1>4 DEF PushInv, WordExact, LastSharer
<1>6. Sharers \ LastSharer = Sharers
  BY <1>5
<1>7. Block[Oldest].ShareCount = Cardinality(Sharers)
  BY <1>1, <1>6 DEF PushInv, CountsHolders
<1>8. Cardinality(Sharers) # 0
  BY <1>4, NoSharers
<1> QED
  BY <1>1, <1>2, <1>3, <1>5, <1>7, <1>8, SharersFinite

LEMMA ReleaseCountInv ==
    ASSUME PushInv, NEW t \in Threads, ReleaseCount(t)
    PROVE  PushInv'
<1>1. pc[t] = "releaseCount" /\ UNCHANGED <<PushLock, gate, queue, taken>>
  BY DEF ReleaseCount, history
<1>2. /\ held[t] = "shared" /\ Cursor(t) = Oldest /\ Oldest \in Threads /\ queue # <<>>
      /\ PushLock.Waiting /\ PushLock.MultipleShared /\ LastSharer = {}
      /\ frame[t].call \in {"ReleaseShared", "Release"} /\ Old(t).Locked /\ Old(t).Waiting
      /\ Old(t).MultipleShared
      /\ Block[Oldest].ShareCount = Cardinality(Sharers) /\ Cardinality(Sharers) >= 1
  BY <1>1, CounterFacts
<1> DEFINE n == Cardinality(Sharers) - 1
           b == Oldest
<1>3. n \in Nat /\ Block \in [Threads -> WaitBlockType] /\ b \in Threads
  BY <1>2, SharersFinite DEF PushInv, TypeOK
<1>4. ~(frame[t].call = "Release" /\ Block[Cursor(t)].ShareCount <= 0)
  BY <1>2, SharersFinite
<1>5. Block' = [Block EXCEPT ![b].ShareCount = n]
  <2>1. Block' = [Block EXCEPT ![Cursor(t)].ShareCount = Block[Cursor(t)].ShareCount - 1]
    BY <1>4 DEF ReleaseCount
  <2> QED
    BY <1>2, <2>1
<1> HIDE DEF n, b
<1>6. /\ Block' \in [Threads -> WaitBlockType] /\ Block'[b].ShareCount = n
      /\ \A c \in Threads : /\ Block'[c].Exclusive = Block[c].Exclusive /\ Block'[c].Wait = Block[c].Wait
                            /\ Block'[c].Next = Block[c].Next /\ Block'[c].Last = Block[c].Last
                            /\ Block'[c].Previous = Block[c].Previous
                            /\ Block'[c].Signaled = Block[c].Signaled
      /\ \A c \in Threads : c # b => Block'[c].ShareCount = Block[c].ShareCount
  BY <1>3, <1>5 DEF WaitBlockType
<1>7. IF n > 0 THEN Hold(t, "none") /\ Return(t) ELSE Goto(t, "unlock") /\ UNCHANGED <<held, frame>>
  BY <1>2, <1>4, <1>6 DEF ReleaseCount, b
<1>8. "unlock" \in Labels /\ "none" \in Modes
  BY DEF Labels, Modes
<1>9. /\ Moves(t)
      /\ \/ n > 0 /\ held'[t] = "none" /\ pc'[t] = "idle" /\ frame'[t].call = "none"
         \/ n = 0 /\ held' = held /\ pc'[t] = "unlock" /\ frame' = frame
  <2>1. CASE n > 0
    BY <1>7, <1>8, <2>1, HoldDoes, ReturnDoes, NoFrameType DEF Moves, PushInv, TypeOK
  <2>2. CASE ~(n > 0)
    <3>1. n = 0
      BY <1>3, <2>2
    <3> QED
      BY <1>7, <1>8, <2>2, <3>1, GotoDoes DEF Moves, PushInv, TypeOK, Keeps
  <2> QED
    BY <2>1, <2>2
<1>10. TypeOK' /\ Oldest' = Oldest
  BY <1>1, <1>6, <1>9 DEF PushInv, TypeOK, Moves, Oldest
<1>11. WordExact' /\ CountsHolders'
  <2>1. t \in Sharers /\ PushLock.Locked
    BY <1>2 DEF Sharers, PushInv, CountsHolders
  <2>2. CASE n > 0
    <3>1. Sharers' = Sharers \ {t} /\ LastSharer' = {}
      BY <1>2, <1>9, <2>2 DEF Sharers, LastSharer, Moves, Keeps
    <3>2. Cardinality(Sharers') = n /\ Sharers' \ LastSharer' = Sharers'
      BY <2>1, <3>1, SharersFinite, FS_RemoveElement DEF n
    <3>3. Sharers' # {}
      BY <2>2, <3>2, FS_EmptySet
    <3>4. \A u \in Threads : held'[u] # "exclusive"
      BY <1>2, <1>9, <2>2 DEF PushInv, WordExact, Moves, Keeps
    <3>5. \E u \in Threads : held'[u] # "none"
      BY <3>3 DEF Sharers
    <3>6. WordExact'
      BY <1>1, <1>2, <1>6, <1>10, <3>1, <3>3, <3>4 DEF PushInv, WordExact
    <3>7. CountsHolders'
      BY <1>1, <1>2, <1>6, <1>10, <2>1, <3>2, <3>5 DEF PushInv, CountsHolders, b
    <3> QED
      BY <3>6, <3>7
  <2>3. CASE n = 0
    <3>1. Cardinality(Sharers) = 1
      BY <2>3, SharersFinite DEF n
    <3>2. Sharers = {t}
      BY <2>1, <3>1, OneSharer
    <3>3. held' = held /\ Sharers' = Sharers /\ LastSharer' = {t}
      BY <1>2, <1>9, <2>3 DEF Sharers, LastSharer, Moves, Keeps
    <3>4. Sharers' \ LastSharer' = {}
      BY <3>2, <3>3
    <3>5. Cardinality({}) = 0
      BY FS_EmptySet
    <3>6. WordExact'
      BY <1>1, <1>2, <1>6, <1>10, <3>2, <3>3 DEF PushInv, WordExact
    <3>7. Block'[Oldest'].ShareCount = Cardinality(Sharers' \ LastSharer')
      BY <1>6, <1>10, <2>3, <3>4, <3>5 DEF b
    <3>8. CountsHolders'
      BY <1>1, <1>2, <3>3, <3>7 DEF PushInv, CountsHolders
    <3> QED
      BY <3>6, <3>8
  <2> QED
    BY <1>3, <2>2, <2>3
<1>12. ASSUME NEW u \in Threads PROVE CallInUse(u)' /\ ReleaserSees(u)'
  <2>1. CASE u = t
    <3>1. CallInUse(t)'
      BY <1>2, <1>9 DEF CallInUse
    <3>2. ReleaserSees(t)'
      BY <1>1, <1>2, <1>9 DEF ReleaserSees, Old
    <3> QED
      BY <2>1, <3>1, <3>2
  <2>2. CASE u # t
    <3>1. pc'[u] = pc[u] /\ frame'[u] = frame[u] /\ held'[u] = held[u]
      BY <1>9, <2>2 DEF Moves, Keeps
    <3>2. CallInUse(u) /\ ReleaserSees(u)
      BY DEF PushInv
    <3>3. CallInUse(u)'
      BY <3>1, <3>2 DEF CallInUse
    <3>4. ReleaserSees(u)'
      BY <1>1, <1>10, <3>1, <3>2 DEF ReleaserSees, Old, Cursor, InSeq
    <3> QED
      BY <3>3, <3>4
  <2> QED
    BY <2>1, <2>2
<1>13. pc[t] \notin WakerLabels /\ pc'[t] \notin WakerLabels
      /\ pc[t] \notin AtGates \cup Signaling /\ pc'[t] \notin AtGates \cup Signaling
  BY <1>1, <1>9 DEF WakerLabels, AtGates, Signaling
<1>14. OneWaker'
  BY <1>1, <1>9, <1>13, WakerKept DEF PushInv, ListIntact, Moves
<1>15. \A j \in DOMAIN queue : /\ queue[j] \in Threads
                               /\ Block'[queue[j]].Next = Block[queue[j]].Next
                               /\ Block'[queue[j]].Last = Block[queue[j]].Last
                               /\ Block'[queue[j]].Previous = Block[queue[j]].Previous
  BY <1>6, QueueFacts DEF PushInv
<1>16. LinksMatchQueue' /\ ListShape' /\ WakersInList'
  <2>1. \A u \in Wakers' : u \in Wakers /\ pc'[u] = pc[u] /\ frame'[u] = frame[u]
    BY <1>9, <1>13 DEF Wakers, WakerLabels, Moves, Keeps
  <2>2. \A c \in Threads : Block'[c].ShareCount # 0 => Block[c].ShareCount # 0
    BY <1>2, <1>3, <1>6 DEF b
  <2> QED
    BY <1>1, <1>15, <2>1, <2>2, ListKept
<1>17. NoWaiterLost' /\ SignalsWhatItTook' /\ SignalsInUse'
  <2>1. BlockInUse(t)' <=> BlockInUse(t)
    BY <1>2, <1>9 DEF BlockInUse, Acquiring
  <2>2. \A u \in Threads : \A i \in DOMAIN taken[u] : taken[u][i] \in Threads
    BY DEF PushInv, TypeOK
  <2> QED
    BY <1>1, <1>6, <1>9, <1>13, <2>1, <2>2, EditsKeep DEF Moves
<1> QED
  BY <1>10, <1>11, <1>12, <1>14, <1>16, <1>17 DEF PushInv, ListIntact

-----------------------------------------------------------------------------
(* A waiter goes to its gate, or goes on with its acquire.                 *)

LEMMA WaiterStep ==
    ASSUME PushInv, NEW t \in Threads, pc[t] \in {"testWait", "gate"},
           pc' \in [Threads -> Labels], Keeps(t, pc, pc'), pc'[t] \in {"gate", "acquire"},
           Block' \in [Threads -> WaitBlockType], Keeps(t, Block, Block'),
           gate' \in [Threads -> BOOLEAN], Keeps(t, gate, gate'), ~gate'[t],
           UNCHANGED <<PushLock, held, frame, history>>,
           Pending(t) => /\ Block'[t].Next = Block[t].Next /\ Block'[t].Last = Block[t].Last
                         /\ Block'[t].Previous = Block[t].Previous
                         /\ Block'[t].ShareCount = Block[t].ShareCount
                         /\ Block'[t].Exclusive = Block[t].Exclusive,
           Block'[t].ShareCount # 0 => Block[t].ShareCount # 0,
           pc'[t] = "gate" => (Block'[t].Signaled <=> Block[t].Signaled),
           pc'[t] = "acquire" => Block[t].Signaled,
           pc'[t] = "gate" => ~Block'[t].Wait,
           \A u \in Threads : pc[u] = "signalGate" => Cursor(u) # t
    PROVE  PushInv'
<1>1. UNCHANGED <<queue, taken>> /\ TypeOK' /\ Oldest' = Oldest
  BY DEF history, PushInv, TypeOK, Oldest
<1>2. frame[t].call \in Acquiring /\ held[t] = "none"
  BY DEF PushInv, CallInUse
<1>3. \A b \in Threads : Pending(b) => /\ Block'[b].Next = Block[b].Next /\ Block'[b].Last = Block[b].Last
                                       /\ Block'[b].Previous = Block[b].Previous
                                       /\ Block'[b].ShareCount = Block[b].ShareCount
                                       /\ Block'[b].Exclusive = Block[b].Exclusive
  BY DEF Keeps
<1>4. \A j \in DOMAIN queue : queue[j] \in Threads /\ Pending(queue[j])
  BY QueueFacts DEF Pending, InSeq, PushInv
<1>5. \A u \in Threads : \A i \in DOMAIN taken[u] : taken[u][i] \in Threads /\ Pending(taken[u][i])
  BY DEF Pending, InSeq, PushInv, TypeOK
<1>6. PushLock.MultipleShared => Oldest \in Threads /\ Pending(Oldest)
  <2>1. PushLock.MultipleShared => queue # <<>>
    BY DEF PushInv, CountsHolders, ListIntact, LinksMatchQueue
  <2>2. queue # <<>> => Len(queue) \in DOMAIN queue
    BY QueueFacts DEF PushInv
  <2> QED
    BY <1>4, <2>1, <2>2 DEF Oldest
<1>7. Sharers' = Sharers /\ LastSharer' = LastSharer
  BY DEF Sharers, LastSharer, Keeps
<1>8. WordExact' /\ CountsHolders'
  <2>1. PushLock.MultipleShared => /\ Block'[Oldest].ShareCount = Block[Oldest].ShareCount
                                   /\ Block'[Oldest].Exclusive = Block[Oldest].Exclusive
    BY <1>3, <1>6
  <2>2. WordExact'
    BY <1>1, <1>7, <2>1 DEF PushInv, WordExact
  <2>3. CountsHolders'
    BY <1>1, <1>7, <2>1 DEF PushInv, CountsHolders
  <2> QED
    BY <2>2, <2>3
<1>9. ASSUME NEW u \in Threads PROVE CallInUse(u)' /\ ReleaserSees(u)'
  <2>1. CASE u = t
    BY <1>2, <2>1 DEF CallInUse, ReleaserSees
  <2>2. CASE u # t
    <3>1. pc'[u] = pc[u] /\ frame'[u] = frame[u] /\ held'[u] = held[u]
      BY <2>2 DEF Keeps
    <3>2. CallInUse(u)'
      BY <3>1 DEF PushInv, CallInUse
    <3>3. ReleaserSees(u)'
      BY <1>1, <3>1 DEF PushInv, ReleaserSees, Old, Cursor, InSeq
    <3> QED
      BY <3>2, <3>3
  <2> QED
    BY <2>1, <2>2
<1>10. OneWaker'
  <2>1. pc[t] \notin WakerLabels /\ pc'[t] \notin WakerLabels
    BY DEF WakerLabels
  <2> QED
    BY <2>1, WakerKept DEF PushInv, ListIntact
<1>11. LinksMatchQueue' /\ ListShape' /\ WakersInList'
  <2>1. \A u \in Wakers' : u \in Wakers /\ pc'[u] = pc[u] /\ frame'[u] = frame[u]
    BY DEF Wakers, Keeps
  <2>2. \A b \in Threads : Block'[b].ShareCount # 0 => Block[b].ShareCount # 0
    BY DEF Keeps
  <2> QED
    BY <1>1, <1>3, <1>4, <2>1, <2>2, ListKept
<1>12. \A b \in Threads : BlockInUse(b)' /\ ~Block'[b].Signaled <=> BlockInUse(b) /\ ~Block[b].Signaled
  <2>1. BlockInUse(t)' <=> pc'[t] = "gate"
    BY <1>2 DEF BlockInUse
  <2>2. BlockInUse(t)
    BY <1>2 DEF BlockInUse
  <2>3. \A b \in Threads : b # t => (BlockInUse(b)' <=> BlockInUse(b)) /\ Block'[b] = Block[b]
    BY DEF BlockInUse, Keeps
  <2> QED
    BY <2>1, <2>2, <2>3
<1>13. NoWaiterLost'
  <2>1. \A u \in Threads : pc[u] \in Signaling => pc'[u] = pc[u]
    BY DEF Keeps, Signaling
  <2>2. \A b \in Threads : Pending(b)' <=> Pending(b)
    BY <1>1 DEF Pending, InSeq
  <2> QED
    BY <1>1, <1>12, <2>1, <2>2 DEF PushInv, ListIntact, NoWaiterLost, InSeq, Distinct, Signaling
<1>14. SignalsWhatItTook'
  <2>1. \A u \in Threads : pc'[u] \in {"clearWaking", "signal"} => pc'[u] = pc[u]
    BY DEF Keeps
  <2>2. \A u \in Threads : \A i \in DOMAIN taken[u] :
            Block'[taken[u][i]].Previous = Block[taken[u][i]].Previous
    BY <1>3, <1>5
  <2> QED
    BY <1>1, <2>1, <2>2 DEF PushInv, ListIntact, SignalsWhatItTook, Cursor
<1>15. SignalsInUse'
  <2>1. \A u \in Threads : pc'[u] = "signalGate" <=> pc[u] = "signalGate"
    BY DEF Keeps
  <2>2. \A u \in Threads : pc[u] = "signalGate" => Cursor(u) \in Threads /\ Cursor(u) # t
    BY DEF PushInv, SignalsInUse, TypeOK, Cursor, FrameType
  <2>3. \A u \in Threads : Cursor(u)' = Cursor(u)
    BY DEF Cursor
  <2>4. \A u \in Threads : pc'[u] = "signalGate" =>
            /\ Cursor(u)' # NULL /\ pc'[Cursor(u)'] = "gate"
            /\ Block'[Cursor(u)'].Signaled /\ ~gate'[Cursor(u)']
            /\ frame'[u].PreviousWaitBlock = IF taken'[u] = <<>> THEN NULL ELSE taken'[u][1]
    BY <1>1, <2>1, <2>2, <2>3 DEF PushInv, SignalsInUse, Keeps
  <2>5. ASSUME NEW u \in Threads
        PROVE  /\ BlockInUse(u)' => (Block'[u].Wait <=> pc'[u] # "gate" /\ ~Block'[u].Signaled)
               /\ gate'[u] => pc'[u] = "gate" /\ Block'[u].Signaled
    <3>1. CASE u = t
      BY <3>1 DEF BlockInUse
    <3>2. CASE u # t
      <4>1. pc'[u] = pc[u] /\ gate'[u] = gate[u] /\ Block'[u] = Block[u] /\ (BlockInUse(u)' <=> BlockInUse(u))
        BY <3>2 DEF Keeps, BlockInUse
      <4> QED
        BY <4>1 DEF PushInv, SignalsInUse
    <3> QED
      BY <3>1, <3>2
  <2>6. \A u, v \in Threads :
            pc'[u] = "signalGate" /\ pc'[v] = "signalGate" /\ Cursor(u)' = Cursor(v)' => u = v
    BY <2>1, <2>3 DEF PushInv, SignalsInUse
  <2> QED
    BY <2>4, <2>5, <2>6 DEF SignalsInUse
<1> QED
  BY <1>1, <1>8, <1>9, <1>10, <1>11, <1>13, <1>14, <1>15 DEF PushInv, ListIntact

LEMMA NotPending ==
    ASSUME PushInv, NEW t \in Threads, Block[t].Signaled
    PROVE  ~Pending(t)
  BY DEF PushInv, ListIntact, NoWaiterLost

LEMMA TestWaitInv ==
    ASSUME PushInv, NEW t \in Threads, TestWait(t)
    PROVE  PushInv'
<1>1. pc[t] = "testWait" /\ UNCHANGED <<PushLock, gate, held, frame, history>> /\ BlockInUse(t)
  BY DEF TestWait, PushInv, CallInUse, BlockInUse
<1>2. /\ gate' \in [Threads -> BOOLEAN] /\ Keeps(t, gate, gate') /\ ~gate'[t]
      /\ \A u \in Threads : pc[u] = "signalGate" => Cursor(u) # t
      /\ Block \in [Threads -> WaitBlockType]
      /\ "gate" \in Labels /\ "acquire" \in Labels
  BY <1>1 DEF PushInv, TypeOK, SignalsInUse, Keeps, Labels
<1>3. CASE /\ Block[t].Wait
           /\ Block' = [Block EXCEPT ![t].Wait = FALSE] /\ Goto(t, "gate")
  <2>1. pc' \in [Threads -> Labels] /\ Keeps(t, pc, pc') /\ pc'[t] = "gate"
    BY <1>2, <1>3, GotoDoes DEF PushInv, TypeOK
  <2>2. /\ Block' \in [Threads -> WaitBlockType] /\ Keeps(t, Block, Block') /\ ~Block'[t].Wait
        /\ Block'[t].Next = Block[t].Next /\ Block'[t].Last = Block[t].Last
        /\ Block'[t].Previous = Block[t].Previous /\ Block'[t].ShareCount = Block[t].ShareCount
        /\ Block'[t].Exclusive = Block[t].Exclusive /\ Block'[t].Signaled = Block[t].Signaled
    BY <1>2, <1>3 DEF WaitBlockType, Keeps
  <2> QED
    BY <1>1, <1>2, <2>1, <2>2, WaiterStep
<1>4. CASE ~Block[t].Wait /\ Block' = [Block EXCEPT ![t] = NoBlock] /\ Goto(t, "acquire")
  <2>1. pc' \in [Threads -> Labels] /\ Keeps(t, pc, pc') /\ pc'[t] = "acquire"
    BY <1>2, <1>4, GotoDoes DEF PushInv, TypeOK
  <2>2. Block[t].Signaled
    BY <1>1, <1>4 DEF PushInv, SignalsInUse
  <2>3. Block' \in [Threads -> WaitBlockType] /\ Keeps(t, Block, Block') /\ Block'[t].ShareCount = 0
    BY <1>2, <1>4, NoBlockType DEF Keeps, NoBlock
  <2> QED
    BY <1>1, <1>2, <2>1, <2>2, <2>3, NotPending, WaiterStep
<1> QED
  BY <1>3, <1>4 DEF TestWait

LEMMA KeWaitForGateInv ==
    ASSUME PushInv, NEW t \in Threads, KeWaitForGate(t)
    PROVE  PushInv'
<1>1. /\ pc[t] = "gate" /\ gate[t] /\ UNCHANGED <<PushLock, held, frame, history>>
      /\ gate' = [gate EXCEPT ![t] = FALSE] /\ Block' = [Block EXCEPT ![t] = NoBlock] /\ Goto(t, "acquire")
  BY DEF KeWaitForGate
<1>2. /\ gate' \in [Threads -> BOOLEAN] /\ Keeps(t, gate, gate') /\ ~gate'[t] /\ "acquire" \in Labels
  BY <1>1 DEF PushInv, TypeOK, Keeps, Labels
<1>3. Block[t].Signaled /\ \A u \in Threads : pc[u] = "signalGate" => Cursor(u) # t
  BY <1>1 DEF PushInv, SignalsInUse
<1>4. pc' \in [Threads -> Labels] /\ Keeps(t, pc, pc') /\ pc'[t] = "acquire"
  BY <1>1, <1>2, GotoDoes DEF PushInv, TypeOK
<1>5. Block' \in [Threads -> WaitBlockType] /\ Keeps(t, Block, Block') /\ Block'[t].ShareCount = 0
  BY <1>1, NoBlockType DEF Keeps, NoBlock, PushInv, TypeOK
<1> QED
  BY <1>1, <1>2, <1>3, <1>4, <1>5, NotPending, WaiterStep

-----------------------------------------------------------------------------
(* A waker signals what it took.                                           *)

HeadOrNull(s) == IF s = <<>> THEN NULL ELSE s[1]

LEMMA NextToSignalDoes ==
    ASSUME TypeOK, NEW t \in Threads, NEW previous \in Threads \cup {NULL}, NextToSignal(t, previous)
    PROVE  /\ pc' \in [Threads -> Labels] /\ Keeps(t, pc, pc')
           /\ frame' \in [Threads -> FrameType] /\ Keeps(t, frame, frame')
           /\ \/ /\ previous = NULL /\ frame[t].call \in Acquiring
                 /\ pc'[t] = "testWait" /\ frame'[t].call = frame[t].call
              \/ /\ previous = NULL /\ frame[t].call \notin Acquiring
                 /\ pc'[t] = "idle" /\ frame'[t].call = "none"
              \/ /\ previous # NULL /\ pc'[t] = "signal"
                 /\ frame'[t].call = frame[t].call /\ frame'[t].WaitBlock = previous
<1>1. CASE previous = NULL
  <2>1. LeaveWake(t)
    BY <1>1 DEF NextToSignal
  <2> QED
    BY <1>1, <2>1, LeaveWakeDoes, NoFrameType
<1>2. CASE previous # NULL
  <2>1. "signal" \in Labels
    BY DEF Labels
  <2> QED
    BY <1>2, <2>1, GotoDoes, CursorDoes DEF NextToSignal, TypeOK
<1> QED
  BY <1>1, <1>2

(* What both steps have in common: the waker has c blocks left to signal,  *)
(* and goes to the next one, to a gate or home.                            *)
SignalsOn(t) ==
    /\ pc' \in [Threads -> Labels] /\ Keeps(t, pc, pc')
    /\ frame' \in [Threads -> FrameType] /\ Keeps(t, frame, frame')
    /\ \/ /\ taken'[t] = <<>> /\ frame[t].call \in Acquiring
          /\ pc'[t] = "testWait" /\ frame'[t].call = frame[t].call
       \/ /\ taken'[t] = <<>> /\ frame[t].call \notin Acquiring
          /\ pc'[t] = "idle" /\ frame'[t].call = "none"
       \/ /\ taken'[t] # <<>> /\ pc'[t] = "signal"
          /\ frame'[t].call = frame[t].call /\ frame'[t].WaitBlock = taken'[t][1]
       \/ /\ pc'[t] = "signalGate"
          /\ frame'[t].call = frame[t].call /\ frame'[t].WaitBlock = frame[t].WaitBlock
          /\ frame'[t].PreviousWaitBlock = HeadOrNull(taken'[t])

LEMMA SignalingHolds ==
    ASSUME PushInv, NEW t \in Threads, pc[t] \in {"signal", "signalGate"}
    PROVE  held[t] = "none"
  BY DEF PushInv, CallInUse

LEMMA SignalsOnStep ==
    ASSUME PushInv, NEW t \in Threads, pc[t] \in {"signal", "signalGate"}, SignalsOn(t),
           UNCHANGED <<PushLock, held, queue>>,
           Block' \in [Threads -> WaitBlockType], gate' \in [Threads -> BOOLEAN],
           taken' \in [Threads -> Seq(Threads)],
           \A b \in Threads : /\ Block'[b].Next = Block[b].Next /\ Block'[b].Last = Block[b].Last
                              /\ Block'[b].Previous = Block[b].Previous
                              /\ Block'[b].ShareCount = Block[b].ShareCount
                              /\ Block'[b].Exclusive = Block[b].Exclusive,
           SignalsWhatItTook', NoWaiterLost', SignalsInUse'
    PROVE  PushInv'
<1> USE DEF SignalsOn
<1>1. TypeOK' /\ Oldest' = Oldest /\ held[t] = "none"
  BY SignalingHolds DEF PushInv, TypeOK, Oldest
<1>2. pc[t] \notin WakerLabels /\ pc'[t] \notin WakerLabels /\ pc[t] # "unlock" /\ pc'[t] # "unlock"
  BY DEF WakerLabels
<1>3. Sharers' = Sharers /\ LastSharer' = LastSharer
  BY <1>2 DEF Sharers, LastSharer, Keeps
<1>4. PushLock.MultipleShared => Oldest \in Threads
  BY QueueFacts DEF PushInv, CountsHolders, ListIntact, LinksMatchQueue
<1>5. WordExact' /\ CountsHolders'
  <2>1. WordExact'
    BY <1>1, <1>3, <1>4 DEF PushInv, WordExact
  <2>2. CountsHolders'
    BY <1>1, <1>3, <1>4 DEF PushInv, CountsHolders
  <2> QED
    BY <2>1, <2>2
<1>6. ASSUME NEW u \in Threads PROVE CallInUse(u)' /\ ReleaserSees(u)'
  <2>1. CASE u = t
    <3>1. CallInUse(t)'
      BY <1>1 DEF CallInUse
    <3>2. ReleaserSees(t)'
      BY DEF ReleaserSees
    <3> QED
      BY <2>1, <3>1, <3>2
  <2>2. CASE u # t
    <3>1. pc'[u] = pc[u] /\ frame'[u] = frame[u] /\ held'[u] = held[u]
      BY <2>2 DEF Keeps
    <3>2. CallInUse(u)'
      BY <3>1 DEF PushInv, CallInUse
    <3>3. ReleaserSees(u)'
      BY <1>1, <3>1 DEF PushInv, ReleaserSees, Old, Cursor, InSeq
    <3> QED
      BY <3>2, <3>3
  <2> QED
    BY <2>1, <2>2
<1>7. OneWaker'
  BY <1>2, WakerKept DEF PushInv, ListIntact
<1>8. LinksMatchQueue' /\ ListShape' /\ WakersInList'
  <2>1. \A u \in Wakers' : u \in Wakers /\ pc'[u] = pc[u] /\ frame'[u] = frame[u]
    BY <1>2 DEF Wakers, WakerLabels, Keeps
  <2>2. \A j \in DOMAIN queue : queue[j] \in Threads
    BY QueueFacts DEF PushInv
  <2> QED
    BY <2>1, <2>2, ListKept
<1> QED
  BY <1>1, <1>5, <1>6, <1>7, <1>8 DEF PushInv, ListIntact

LEMMA SignalsOnInUse ==
    ASSUME NEW t \in Threads, pc[t] \in {"signal", "signalGate"}, SignalsOn(t)
    PROVE  \A u \in Threads : BlockInUse(u)' <=> BlockInUse(u)
  BY DEF SignalsOn, BlockInUse, Keeps, Acquiring

LEMMA SignalGateInv ==
    ASSUME PushInv, NEW t \in Threads, SignalGate(t)
    PROVE  PushInv'
<1> DEFINE c == Cursor(t)
<1>1. pc[t] = "signalGate" /\ UNCHANGED <<PushLock, Block, held, queue, taken>>
      /\ gate' = [gate EXCEPT ![c] = TRUE] /\ NextToSignal(t, frame[t].PreviousWaitBlock)
  BY DEF SignalGate, history
<1>2. /\ c \in Threads /\ c # t /\ pc[c] = "gate" /\ Block[c].Signaled
      /\ frame[t].PreviousWaitBlock = HeadOrNull(taken[t])
      /\ frame[t].PreviousWaitBlock \in Threads \cup {NULL}
      /\ \A u \in Threads : u # t /\ pc[u] = "signalGate" => Cursor(u) # c
  BY <1>1 DEF PushInv, SignalsInUse, TypeOK, FrameType, Cursor, HeadOrNull
<1>3. taken[t] # <<>> => taken[t][1] \in Threads /\ taken[t][1] # NULL
  BY NullAssumption DEF PushInv, TypeOK
<1>4. SignalsOn(t) /\ pc'[t] # "signalGate"
  BY <1>1, <1>2, <1>3, NextToSignalDoes DEF PushInv, SignalsOn, HeadOrNull
<1> HIDE DEF c
<1>5. gate' \in [Threads -> BOOLEAN] /\ \A u \in Threads : u # c => gate'[u] = gate[u]
  BY <1>1, <1>2 DEF PushInv, TypeOK
<1>6. \A u \in Threads : BlockInUse(u)' <=> BlockInUse(u)
  BY <1>1, <1>4, SignalsOnInUse
<1>7. \A u \in Threads : u # t => pc'[u] = pc[u] /\ frame'[u] = frame[u]
  BY <1>4 DEF SignalsOn, Keeps
<1>8. taken[t] # <<>> => pc'[t] = "signal"
  BY <1>1, <1>4 DEF SignalsOn
<1>9. NoWaiterLost'
  BY <1>1, <1>6, <1>7, <1>8 DEF PushInv, ListIntact, NoWaiterLost, Pending, InSeq, Distinct
<1>10. SignalsWhatItTook'
  <2>1. pc'[t] \in {"clearWaking", "signal"} => taken[t] # <<>> /\ Cursor(t)' = taken[t][1]
    BY <1>1, <1>4 DEF SignalsOn, Cursor
  <2>2. \A u \in Threads : pc'[u] \in {"clearWaking", "signal"} => taken[u] # <<>> /\ Cursor(u)' = taken[u][1]
    BY <1>7, <2>1 DEF PushInv, ListIntact, SignalsWhatItTook, Cursor
  <2> QED
    BY <1>1, <2>2 DEF PushInv, ListIntact, SignalsWhatItTook
<1>11. SignalsInUse'
  <2>1. \A u \in Threads : pc'[u] = "signalGate" => u # t /\ pc[u] = "signalGate" /\ Cursor(u)' = Cursor(u)
                                                    /\ frame'[u] = frame[u]
    BY <1>4, <1>7 DEF Cursor
  <2>2. \A u \in Threads : pc[u] = "signalGate" => Cursor(u) \in Threads
    BY DEF PushInv, SignalsInUse, TypeOK, Cursor, FrameType
  <2>3. \A u \in Threads : pc[u] = "signalGate" => Cursor(u) # t
    BY <1>1 DEF PushInv, SignalsInUse
  <2>4. ASSUME NEW u \in Threads, pc'[u] = "signalGate"
        PROVE  /\ Cursor(u)' # NULL /\ pc'[Cursor(u)'] = "gate"
               /\ Block'[Cursor(u)'].Signaled /\ ~gate'[Cursor(u)']
               /\ frame'[u].PreviousWaitBlock = IF taken'[u] = <<>> THEN NULL ELSE taken'[u][1]
    <3>1. Cursor(u) # c /\ Cursor(u) \in Threads /\ Cursor(u) # t
      BY <1>2, <2>1, <2>2, <2>3, <2>4
    <3> QED
      BY <1>1, <1>5, <1>7, <2>1, <2>4, <3>1 DEF PushInv, SignalsInUse
  <2>5. \A u \in Threads : pc'[u] = "gate" <=> pc[u] = "gate"
    BY <1>1, <1>4, <1>7 DEF SignalsOn
  <2>6. ASSUME NEW u \in Threads
        PROVE  /\ BlockInUse(u)' => (Block'[u].Wait <=> pc'[u] # "gate" /\ ~Block'[u].Signaled)
               /\ gate'[u] => pc'[u] = "gate" /\ Block'[u].Signaled
    <3>1. gate'[u] => pc[u] = "gate" /\ Block[u].Signaled
      BY <1>2, <1>5 DEF PushInv, SignalsInUse
    <3> QED
      BY <1>1, <1>6, <2>5, <3>1 DEF PushInv, SignalsInUse
  <2>7. \A u, v \in Threads :
            pc'[u] = "signalGate" /\ pc'[v] = "signalGate" /\ Cursor(u)' = Cursor(v)' => u = v
    BY <2>1 DEF PushInv, SignalsInUse
  <2> QED
    BY <2>4, <2>6, <2>7 DEF SignalsInUse
<1> QED
  BY <1>1, <1>4, <1>5, <1>9, <1>10, <1>11, SignalsOnStep DEF PushInv, TypeOK

LEMMA TailFacts ==
    ASSUME NEW s \in Seq(Threads), s # <<>>
    PROVE  /\ Tail(s) \in Seq(Threads) /\ Len(s) \in Nat /\ Len(s) >= 1 /\ s[1] \in Threads
           /\ DOMAIN s = 1 .. Len(s) /\ DOMAIN Tail(s) = 1 .. Len(s) - 1 /\ Len(Tail(s)) = Len(s) - 1
           /\ \A i \in DOMAIN Tail(s) : Tail(s)[i] = s[i + 1] /\ i + 1 \in DOMAIN s
           /\ Tail(s) = <<>> <=> Len(s) = 1
<1>1. Tail(s) \in Seq(Threads) /\ Len(s) \in Nat /\ Len(s) >= 1 /\ s[1] \in Threads
      /\ DOMAIN s = 1 .. Len(s) /\ Len(Tail(s)) = Len(s) - 1
  OBVIOUS
<1>2. DOMAIN Tail(s) = 1 .. Len(s) - 1
  BY <1>1
<1>3. \A i \in DOMAIN Tail(s) : Tail(s)[i] = s[i + 1] /\ i + 1 \in DOMAIN s
  BY <1>1, <1>2
<1>4. Tail(s) = <<>> <=> Len(s) = 1
  BY <1>1
<1> QED
  BY <1>1, <1>2, <1>3, <1>4

LEMMA SignalInv ==
    ASSUME PushInv, NEW t \in Threads, Signal(t)
    PROVE  PushInv'
<1> DEFINE b == Cursor(t)
           s == taken[t]
<1>1. /\ pc[t] = "signal" /\ UNCHANGED <<PushLock, gate, held, queue>>
      /\ Block' = [Block EXCEPT ![b].Signaled = TRUE, ![b].Wait = FALSE]
      /\ taken' = [taken EXCEPT ![t] = Tail(s)]
  BY DEF Signal
<1>2. s \in Seq(Threads) /\ s # <<>> /\ b = s[1] /\ Block \in [Threads -> WaitBlockType]
      /\ taken \in [Threads -> Seq(Threads)]
  BY <1>1 DEF PushInv, TypeOK, ListIntact, SignalsWhatItTook
<1>3. /\ Tail(s) \in Seq(Threads) /\ Len(s) \in Nat /\ Len(s) >= 1 /\ b \in Threads
      /\ DOMAIN s = 1 .. Len(s) /\ DOMAIN Tail(s) = 1 .. Len(s) - 1 /\ Len(Tail(s)) = Len(s) - 1
      /\ \A i \in DOMAIN Tail(s) : Tail(s)[i] = s[i + 1] /\ i + 1 \in DOMAIN s
      /\ Tail(s) = <<>> <=> Len(s) = 1
  BY <1>2, TailFacts
<1>4. Block[b].Previous = HeadOrNull(Tail(s)) /\ Block[b].Previous \in Threads \cup {NULL}
  <2>0. 1 \in DOMAIN s /\ s = taken[t]
    BY <1>3
  <2> HIDE DEF s
  <2>1. Block[b].Previous = IF 1 < Len(s) THEN s[1 + 1] ELSE NULL
    BY <1>2, <2>0 DEF PushInv, ListIntact, SignalsWhatItTook
  <2>2. CASE Len(s) = 1
    BY <1>3, <2>1, <2>2 DEF HeadOrNull
  <2>3. CASE Len(s) # 1
    <3>0. 1 < Len(s) /\ 1 \in DOMAIN Tail(s)
      BY <1>3, <2>3
    <3>1. 1 < Len(s) /\ 1 \in DOMAIN Tail(s) /\ Tail(s)[1] = s[2] /\ s[2] \in Threads
      <4>1. Tail(s)[1] = s[1 + 1] /\ 1 + 1 \in DOMAIN s
        BY <1>3, <3>0
      <4> QED
        BY <1>2, <3>0, <4>1
    <3> QED
      BY <1>3, <2>1, <2>3, <3>1 DEF HeadOrNull
  <2> QED
    BY <2>2, <2>3
<1>5. /\ BlockInUse(b) /\ ~Block[b].Signaled /\ ~InSeq(b, queue)
      /\ \A u \in Threads : u # t => ~InSeq(b, taken[u])
      /\ \A i \in DOMAIN s : s[i] = b => i = 1
  <2>0. 1 \in DOMAIN s /\ s = taken[t]
    BY <1>3
  <2> HIDE DEF b, s
  <2>1. InSeq(b, s)
    BY <1>2, <2>0 DEF InSeq
  <2>2. Pending(b)
    BY <2>0, <2>1 DEF Pending
  <2>3. BlockInUse(b) /\ ~Block[b].Signaled
    BY <1>3, <2>2 DEF PushInv, ListIntact, NoWaiterLost
  <2>4. ~InSeq(b, queue) /\ \A u \in Threads : u # t => ~InSeq(b, taken[u])
    BY <1>2, <2>0 DEF PushInv, ListIntact, NoWaiterLost
  <2>5. Distinct(s)
    BY <2>0 DEF PushInv, ListIntact, NoWaiterLost
  <2> QED
    BY <1>2, <2>0, <2>3, <2>4, <2>5 DEF Distinct
<1> HIDE DEF b, s
<1>6. /\ Block' \in [Threads -> WaitBlockType] /\ Block'[b].Signaled /\ ~Block'[b].Wait
      /\ \A c \in Threads : /\ Block'[c].Next = Block[c].Next /\ Block'[c].Last = Block[c].Last
                            /\ Block'[c].Previous = Block[c].Previous
                            /\ Block'[c].ShareCount = Block[c].ShareCount
                            /\ Block'[c].Exclusive = Block[c].Exclusive
      /\ \A c \in Threads : c # b => /\ Block'[c].Signaled = Block[c].Signaled
                                     /\ Block'[c].Wait = Block[c].Wait
  <2> DEFINE r == [Block[b] EXCEPT !.Signaled = TRUE, !.Wait = FALSE]
  <2>1. /\ r \in WaitBlockType /\ r.Signaled /\ ~r.Wait /\ r.Next = Block[b].Next /\ r.Last = Block[b].Last
        /\ r.Previous = Block[b].Previous /\ r.ShareCount = Block[b].ShareCount
        /\ r.Exclusive = Block[b].Exclusive
    <3>1. PICK old \in WaitBlockType : old = Block[b]
      BY <1>2, <1>3
    <3> QED
      BY <3>1 DEF WaitBlockType
  <2>2. Block' = [Block EXCEPT ![b] = r]
    BY <1>1, <1>2, <1>3
  <2> HIDE DEF r
  <2>3. /\ Block' \in [Threads -> WaitBlockType] /\ Block'[b] = r
        /\ \A c \in Threads : c # b => Block'[c] = Block[c]
    BY <1>2, <1>3, <2>1, <2>2
  <2>4. ASSUME NEW c \in Threads
        PROVE  /\ Block'[c].Next = Block[c].Next /\ Block'[c].Last = Block[c].Last
               /\ Block'[c].Previous = Block[c].Previous
               /\ Block'[c].ShareCount = Block[c].ShareCount
               /\ Block'[c].Exclusive = Block[c].Exclusive
    <3>1. CASE c = b
      BY <2>1, <2>3, <3>1
    <3>2. CASE c # b
      BY <2>3, <3>2
    <3> QED
      BY <3>1, <3>2
  <2> QED
    BY <2>1, <2>3, <2>4
<1>7. taken' \in [Threads -> Seq(Threads)] /\ taken'[t] = Tail(s) /\ Keeps(t, taken, taken')
  BY <1>1, <1>2, <1>3 DEF Keeps
<1>8. /\ SignalsOn(t)
      /\ pc'[t] = "signalGate" => pc[b] = "gate" /\ b # t /\ ~gate[b]
  <2>1. CASE Block[b].Wait /\ NextToSignal(t, Block[b].Previous)
    <3>1. taken'[t] # <<>> => taken'[t][1] \in Threads /\ taken'[t][1] # NULL
      BY <1>3, <1>7, NullAssumption
    <3>2. Block[b].Previous = HeadOrNull(taken'[t]) /\ Block[b].Previous \in Threads \cup {NULL}
      BY <1>4, <1>7
    <3>3. pc'[t] # "signalGate"
      BY <2>1, <3>2, NextToSignalDoes DEF PushInv
    <3> QED
      BY <2>1, <3>1, <3>2, <3>3, NextToSignalDoes DEF PushInv, SignalsOn, HeadOrNull
  <2>2. CASE /\ ~Block[b].Wait /\ Goto(t, "signalGate")
             /\ frame' = [frame EXCEPT ![t].PreviousWaitBlock = Block[b].Previous]
    <3>1. "signalGate" \in Labels
      BY DEF Labels
    <3>2. pc' \in [Threads -> Labels] /\ Keeps(t, pc, pc') /\ pc'[t] = "signalGate"
      BY <2>2, <3>1, GotoDoes DEF PushInv, TypeOK
    <3>3. /\ frame' \in [Threads -> FrameType] /\ Keeps(t, frame, frame')
          /\ frame'[t].call = frame[t].call /\ frame'[t].WaitBlock = frame[t].WaitBlock
          /\ frame'[t].PreviousWaitBlock = Block[b].Previous
      BY <1>4, <2>2 DEF PushInv, TypeOK, FrameType, Keeps
    <3>4. pc[b] = "gate" /\ ~gate[b]
      BY <1>3, <1>5, <2>2 DEF PushInv, SignalsInUse
    <3> QED
      BY <1>1, <1>4, <1>7, <3>2, <3>3, <3>4 DEF SignalsOn
  <2> QED
    BY <2>1, <2>2 DEF Signal, b
<1>9. \A u \in Threads : BlockInUse(u)' <=> BlockInUse(u)
  BY <1>1, <1>8, SignalsOnInUse
<1>10. \A u \in Threads : u # t => pc'[u] = pc[u] /\ frame'[u] = frame[u] /\ taken'[u] = taken[u]
  BY <1>7, <1>8 DEF SignalsOn, Keeps
<1>11. NoWaiterLost'
  <2>1. \A u \in Threads : \A i \in DOMAIN taken'[u] :
            /\ InSeq(taken'[u][i], taken[u]) /\ taken'[u][i] \in Threads
            /\ taken'[u][i] # b
    <3>1. \A i \in DOMAIN Tail(s) : InSeq(Tail(s)[i], s) /\ Tail(s)[i] # b /\ Tail(s)[i] \in Threads
      BY <1>2, <1>3, <1>5 DEF InSeq
    <3>2. \A u \in Threads : u # t => \A i \in DOMAIN taken[u] :
              InSeq(taken[u][i], taken[u]) /\ taken[u][i] # b /\ taken[u][i] \in Threads
      BY <1>2, <1>5 DEF InSeq
    <3>3. taken'[t] = Tail(s) /\ s = taken[t]
      BY <1>7 DEF s
    <3> HIDE DEF s
    <3>4. ASSUME NEW u \in Threads
          PROVE  \A i \in DOMAIN taken'[u] : /\ InSeq(taken'[u][i], taken[u]) /\ taken'[u][i] \in Threads
                                            /\ taken'[u][i] # b
      <4>1. CASE u = t
        BY <3>1, <3>3, <4>1
      <4>2. CASE u # t
        <5>1. taken'[u] = taken[u]
          BY <1>10, <4>2
        <5> QED
          BY <3>2, <4>2, <5>1
      <4> QED
        BY <4>1, <4>2
    <3> QED
      BY <3>4
  <2>2. \A u \in Threads : \A c \in Threads : c # b /\ InSeq(c, taken[u]) => InSeq(c, taken'[u])
    <3>1. ASSUME NEW c \in Threads, c # b, InSeq(c, s) PROVE InSeq(c, Tail(s))
      <4>1. PICK i \in DOMAIN s : s[i] = c
        BY <3>1 DEF InSeq
      <4>2. i # 1 /\ i - 1 \in DOMAIN Tail(s)
        <5>1. i # 1
          BY <1>2, <3>1, <4>1
        <5>2. i \in 1 .. Len(s)
          BY <1>3, <4>1
        <5>3. i - 1 \in 1 .. Len(s) - 1
          BY <1>3, <5>1, <5>2
        <5> QED
          BY <1>3, <5>1, <5>3
      <4>3. Tail(s)[i - 1] = s[i]
        BY <1>3, <4>1, <4>2
      <4> QED
        BY <4>1, <4>2, <4>3 DEF InSeq
    <3>2. taken'[t] = Tail(s) /\ s = taken[t]
      BY <1>7 DEF s
    <3> HIDE DEF s
    <3>3. ASSUME NEW u \in Threads, NEW c \in Threads, c # b, InSeq(c, taken[u]) PROVE InSeq(c, taken'[u])
      <4>1. CASE u = t
        BY <3>1, <3>2, <3>3, <4>1
      <4>2. CASE u # t
        BY <1>10, <3>3, <4>2
      <4> QED
        BY <4>1, <4>2
    <3> QED
      BY <3>3
  <2>3. \A u, c \in Threads : InSeq(c, taken'[u]) <=> InSeq(c, taken[u]) /\ c # b
    BY <2>1, <2>2 DEF InSeq
  <2>4. \A c \in Threads : Pending(c)' <=> Pending(c) /\ c # b
    BY <1>1, <1>5, <2>3 DEF Pending, InSeq
  <2>5. \A c \in Threads : Pending(c)' <=> BlockInUse(c)' /\ ~Block'[c].Signaled
    BY <1>6, <1>9, <2>4 DEF PushInv, ListIntact, NoWaiterLost
  <2>6. ASSUME NEW u \in Threads PROVE Distinct(taken'[u])
    <3>1. CASE u = t
      <4>1. Distinct(s)
        BY DEF PushInv, ListIntact, NoWaiterLost, s
      <4>2. \A i, j \in DOMAIN Tail(s) : Tail(s)[i] = Tail(s)[j] => i = j
        BY <1>3, <4>1 DEF Distinct
      <4> QED
        BY <1>7, <3>1, <4>2 DEF Distinct
    <3>2. CASE u # t
      BY <1>10, <3>2 DEF PushInv, ListIntact, NoWaiterLost
    <3> QED
      BY <3>1, <3>2
  <2>7. \A u \in Threads : taken'[u] # <<>> => pc'[u] \in {"clearWaking", "signal", "signalGate"}
    BY <1>8, <1>10 DEF SignalsOn, PushInv, ListIntact, NoWaiterLost
  <2>8. ASSUME NEW u \in Threads, NEW i \in DOMAIN taken'[u]
        PROVE  /\ ~InSeq(taken'[u][i], queue)
               /\ \A v \in Threads \ {u} : ~InSeq(taken'[u][i], taken'[v])
    <3>1. PICK j \in DOMAIN taken[u] : taken[u][j] = taken'[u][i]
      BY <2>1 DEF InSeq
    <3>2. /\ ~InSeq(taken[u][j], queue)
          /\ \A v \in Threads \ {u} : ~InSeq(taken[u][j], taken[v])
      BY DEF PushInv, ListIntact, NoWaiterLost
    <3> QED
      BY <2>1, <2>3, <3>1, <3>2
  <2>9. Distinct(queue')
    BY <1>1 DEF PushInv, ListIntact, NoWaiterLost
  <2>10. \A u \in Threads : \A i \in DOMAIN taken'[u] : ~InSeq(taken'[u][i], queue')
    BY <1>1, <2>8
  <2> QED
    BY <2>5, <2>6, <2>7, <2>8, <2>9, <2>10 DEF NoWaiterLost
<1>12. SignalsWhatItTook'
  <2>1. pc'[t] \in {"clearWaking", "signal"} => taken'[t] # <<>> /\ Cursor(t)' = taken'[t][1]
    BY <1>8 DEF SignalsOn, Cursor
  <2>2. \A u \in Threads : pc'[u] \in {"clearWaking", "signal"} => taken'[u] # <<>> /\ Cursor(u)' = taken'[u][1]
    BY <1>10, <2>1 DEF PushInv, ListIntact, SignalsWhatItTook, Cursor
  <2>3. ASSUME NEW u \in Threads, NEW i \in DOMAIN taken'[u]
        PROVE  Block'[taken'[u][i]].Previous = IF i < Len(taken'[u]) THEN taken'[u][i + 1] ELSE NULL
    <3>0. taken'[u][i] \in Threads
      BY <1>7
    <3>1. CASE u = t
      <4>1. i \in DOMAIN Tail(s) /\ Len(taken'[u]) = Len(s) - 1 /\ taken'[u] = Tail(s)
        BY <1>3, <1>7, <2>3, <3>1
      <4>2. Tail(s)[i] = s[i + 1] /\ i + 1 \in DOMAIN s
        BY <1>3, <4>1
      <4>3. Block[s[i + 1]].Previous = IF i + 1 < Len(s) THEN s[(i + 1) + 1] ELSE NULL
        BY <4>2 DEF PushInv, ListIntact, SignalsWhatItTook, s
      <4>4. i + 1 < Len(s) => Tail(s)[i + 1] = s[(i + 1) + 1]
        BY <1>3, <4>1
      <4>5. i + 1 < Len(s) <=> i < Len(taken'[u])
        BY <1>3, <4>1
      <4> QED
        BY <1>6, <3>0, <4>1, <4>2, <4>3, <4>4, <4>5
    <3>2. CASE u # t
      BY <1>6, <1>10, <2>3, <3>0, <3>2 DEF PushInv, ListIntact, SignalsWhatItTook
    <3> QED
      BY <3>1, <3>2
  <2> QED
    BY <2>2, <2>3 DEF SignalsWhatItTook
<1>13. SignalsInUse'
  <2>1. \A u \in Threads : pc'[u] = "gate" <=> pc[u] = "gate"
    BY <1>1, <1>8, <1>10 DEF SignalsOn
  <2>2. ASSUME NEW u \in Threads
        PROVE  /\ BlockInUse(u)' => (Block'[u].Wait <=> pc'[u] # "gate" /\ ~Block'[u].Signaled)
               /\ gate'[u] => pc'[u] = "gate" /\ Block'[u].Signaled
    <3>1. CASE u = b
      BY <1>1, <1>5, <1>6, <2>1, <3>1 DEF PushInv, SignalsInUse
    <3>2. CASE u # b
      BY <1>1, <1>6, <1>9, <2>1, <3>2 DEF PushInv, SignalsInUse
    <3> QED
      BY <3>1, <3>2
  <2>3. \A u \in Threads : u # t /\ pc'[u] = "signalGate" =>
            /\ pc[u] = "signalGate" /\ Cursor(u)' = Cursor(u) /\ Cursor(u) \in Threads
            /\ Block[Cursor(u)].Signaled /\ Cursor(u) # b
    BY <1>5, <1>10 DEF PushInv, SignalsInUse, TypeOK, Cursor, FrameType
  <2>4. pc'[t] = "signalGate" => Cursor(t)' = b /\ frame'[t].PreviousWaitBlock = HeadOrNull(taken'[t])
    BY <1>8 DEF SignalsOn, Cursor, b
  <2>5. ASSUME NEW u \in Threads, pc'[u] = "signalGate"
        PROVE  /\ Cursor(u)' # NULL /\ pc'[Cursor(u)'] = "gate"
               /\ Block'[Cursor(u)'].Signaled /\ ~gate'[Cursor(u)']
               /\ frame'[u].PreviousWaitBlock = IF taken'[u] = <<>> THEN NULL ELSE taken'[u][1]
    <3>1. CASE u = t
      BY <1>1, <1>3, <1>6, <1>8, <2>1, <2>4, <2>5, <3>1, NullAssumption DEF HeadOrNull
    <3>2. CASE u # t
      BY <1>1, <1>6, <1>10, <2>1, <2>3, <2>5, <3>2 DEF PushInv, SignalsInUse
    <3> QED
      BY <3>1, <3>2
  <2>6. ASSUME NEW u \in Threads, NEW v \in Threads,
               pc'[u] = "signalGate", pc'[v] = "signalGate", Cursor(u)' = Cursor(v)'
        PROVE  u = v
    BY <2>3, <2>4, <2>6 DEF PushInv, SignalsInUse
  <2> QED
    BY <2>2, <2>5, <2>6 DEF SignalsInUse
<1> QED
  BY <1>1, <1>6, <1>7, <1>8, <1>11, <1>12, <1>13, SignalsOnStep DEF PushInv, TypeOK

-----------------------------------------------------------------------------
(* The waker takes blocks off the list.                                    *)

LEMMA TakesKeep ==
    ASSUME PushInv, NEW t \in Threads, pc[t] = "wakePick", pc'[t] \in {"clearWaking", "signal"},
           Keeps(t, pc, pc'), frame' = frame, gate' = gate,
           NEW r \in Seq(Threads), taken' = [taken EXCEPT ![t] = r], Distinct(queue'), Distinct(r),
           \A b \in Threads : InSeq(b, queue) <=> InSeq(b, queue') \/ InSeq(b, r),
           \A b \in Threads : ~(InSeq(b, queue') /\ InSeq(b, r)),
           \A b \in Threads : Block'[b].Signaled = Block[b].Signaled /\ Block'[b].Wait = Block[b].Wait
    PROVE  NoWaiterLost' /\ SignalsInUse'
<1>1. /\ taken \in [Threads -> Seq(Threads)] /\ taken'[t] = r
      /\ \A u \in Threads : u # t => taken'[u] = taken[u] /\ pc'[u] = pc[u]
  BY DEF PushInv, TypeOK, Keeps
<1>2. taken[t] = <<>>
  BY DEF PushInv, ListIntact, NoWaiterLost
<1>3. \A u \in Threads : BlockInUse(u)' <=> BlockInUse(u)
  BY <1>1 DEF BlockInUse
<1>4. \A b \in Threads : ~InSeq(b, taken[t])
  BY <1>2 DEF InSeq
<1>5. \A u, b \in Threads : InSeq(b, taken[u]) => u # t /\ taken'[u] = taken[u]
  BY <1>1, <1>4
<1>6. \A b \in Threads : Pending(b)' <=> Pending(b)
  <2>1. ASSUME NEW b \in Threads
        PROVE  (\E u \in Threads : InSeq(b, taken'[u])) <=> InSeq(b, r) \/ \E u \in Threads : InSeq(b, taken[u])
    BY <1>1, <1>5
  <2> QED
    BY <2>1 DEF Pending, InSeq
<1>7. \A u, b \in Threads : InSeq(b, taken[u]) => ~InSeq(b, queue) /\ \A v \in Threads \ {u} : ~InSeq(b, taken[v])
  BY DEF PushInv, ListIntact, NoWaiterLost, InSeq
<1>8. ASSUME NEW u \in Threads, NEW b \in Threads, InSeq(b, taken'[u])
      PROVE  ~InSeq(b, queue') /\ \A v \in Threads \ {u} : ~InSeq(b, taken'[v])
  <2>1. CASE u = t
    <3>1. InSeq(b, r) /\ InSeq(b, queue)
      BY <1>1, <1>8, <2>1
    <3> QED
      BY <1>1, <1>7, <2>1, <3>1
  <2>2. CASE u # t
    <3>1. InSeq(b, taken[u]) /\ ~InSeq(b, queue)
      BY <1>1, <1>7, <1>8, <2>2
    <3>2. ~InSeq(b, r) /\ ~InSeq(b, queue')
      BY <3>1
    <3> QED
      BY <1>1, <1>7, <3>1, <3>2
  <2> QED
    BY <2>1, <2>2
<1>9. NoWaiterLost'
  <2>1. \A b \in Threads : Pending(b)' <=> BlockInUse(b)' /\ ~Block'[b].Signaled
    BY <1>3, <1>6 DEF PushInv, ListIntact, NoWaiterLost
  <2>2. \A u \in Threads : Distinct(taken'[u]) /\ (taken'[u] # <<>> => pc'[u] \in {"clearWaking", "signal", "signalGate"})
    BY <1>1 DEF PushInv, ListIntact, NoWaiterLost
  <2>3. \A u \in Threads : \A i \in DOMAIN taken'[u] : taken'[u][i] \in Threads /\ InSeq(taken'[u][i], taken'[u])
    BY <1>1 DEF InSeq
  <2>4. \A u \in Threads : \A i \in DOMAIN taken'[u] :
            /\ ~InSeq(taken'[u][i], queue')
            /\ \A v \in Threads \ {u} : ~InSeq(taken'[u][i], taken'[v])
    BY <1>8, <2>3
  <2> QED
    BY <2>1, <2>2, <2>4 DEF NoWaiterLost
<1>10. SignalsInUse'
  <2>1. \A u \in Threads : /\ pc'[u] = "gate" <=> pc[u] = "gate"
                           /\ pc'[u] = "signalGate" <=> pc[u] = "signalGate"
                           /\ pc'[u] = "signalGate" => taken'[u] = taken[u]
    BY <1>1
  <2>2. \A u \in Threads : pc[u] = "signalGate" => Cursor(u) \in Threads
    BY DEF PushInv, SignalsInUse, TypeOK, Cursor, FrameType
  <2>3. \A u \in Threads : Cursor(u)' = Cursor(u)
    BY DEF Cursor
  <2>4. \A u \in Threads : pc'[u] = "signalGate" =>
            /\ Cursor(u)' # NULL /\ pc'[Cursor(u)'] = "gate"
            /\ Block'[Cursor(u)'].Signaled /\ ~gate'[Cursor(u)']
            /\ frame'[u].PreviousWaitBlock = IF taken'[u] = <<>> THEN NULL ELSE taken'[u][1]
    BY <2>1, <2>2, <2>3 DEF PushInv, SignalsInUse
  <2>5. \A u \in Threads :
            /\ BlockInUse(u)' => (Block'[u].Wait <=> pc'[u] # "gate" /\ ~Block'[u].Signaled)
            /\ gate'[u] => pc'[u] = "gate" /\ Block'[u].Signaled
    BY <1>3, <2>1 DEF PushInv, SignalsInUse
  <2>6. \A u, v \in Threads :
            pc'[u] = "signalGate" /\ pc'[v] = "signalGate" /\ Cursor(u)' = Cursor(v)' => u = v
    BY <2>1, <2>3 DEF PushInv, SignalsInUse
  <2> QED
    BY <2>4, <2>5, <2>6 DEF SignalsInUse
<1> QED
  BY <1>9, <1>10

(* Where the waker is when it picks.                                       *)
LEMMA PickFacts ==
    ASSUME PushInv, NEW t \in Threads, pc[t] = "wakePick"
    PROVE  /\ held[t] = "none" /\ queue # <<>> /\ PushLock.Waiting /\ ~PushLock.MultipleShared
           /\ \A b \in Threads : Block[b].ShareCount = 0
           /\ \E k \in DOMAIN queue :
                  /\ First(t) = queue[k] /\ Block[queue[k]].Previous = NULL /\ Cursor(t) = Oldest
                  /\ \A j \in 1 .. k - 1 : Block[queue[j]].Last = NULL
                  /\ \A j \in k + 1 .. Len(queue) : Block[queue[j]].Previous = queue[j - 1]
           /\ PushLock = frame[t].WakeValue => ~PushLock.Locked
           /\ \A u \in Threads : u # t => pc[u] \notin WakerLabels
<1>1. pc[t] \in WakerLabels
  BY DEF WakerLabels
<1>2. /\ WakerInList(t) /\ PushLock.Waiting /\ queue # <<>> /\ held[t] = "none"
      /\ \A u \in Threads : u # t => pc[u] \notin WakerLabels
  BY <1>1, WakerFacts
<1>3. ~PushLock.MultipleShared
  BY <1>2 DEF WakerInList
<1>4. \A b \in Threads : Block[b].ShareCount = 0
  BY <1>3 DEF PushInv, ListShape
<1> QED
  BY <1>2, <1>3, <1>4 DEF WakerInList, WakerAt

LEMMA ReversedFacts ==
    ASSUME NEW q \in Seq(Threads)
    PROVE  /\ Reversed(q) \in Seq(Threads) /\ Len(Reversed(q)) = Len(q) /\ DOMAIN Reversed(q) = 1 .. Len(q)
           /\ \A i \in 1 .. Len(q) : Reversed(q)[i] = q[Len(q) + 1 - i] /\ Len(q) + 1 - i \in 1 .. Len(q)
           /\ \A b \in Threads : InSeq(b, Reversed(q)) <=> InSeq(b, q)
           /\ Distinct(q) => Distinct(Reversed(q))
<1>1. Len(q) \in Nat /\ DOMAIN q = 1 .. Len(q)
  OBVIOUS
<1>2. \A i \in 1 .. Len(q) : Len(q) + 1 - i \in 1 .. Len(q)
  BY <1>1
<1>3. Reversed(q) \in [1 .. Len(q) -> Threads]
  BY <1>1, <1>2 DEF Reversed
<1>4. Reversed(q) \in Seq(Threads) /\ DOMAIN Reversed(q) = 1 .. Len(q)
  BY <1>1, <1>3
<1>5. Len(Reversed(q)) = Len(q)
  BY <1>1, <1>4
<1>6. \A i \in 1 .. Len(q) : Reversed(q)[i] = q[Len(q) + 1 - i]
  BY DEF Reversed
<1>7. \A b \in Threads : InSeq(b, Reversed(q)) <=> InSeq(b, q)
  <2>1. ASSUME NEW b \in Threads, InSeq(b, Reversed(q)) PROVE InSeq(b, q)
    BY <1>1, <1>2, <1>4, <1>6, <2>1 DEF InSeq
  <2>2. ASSUME NEW b \in Threads, InSeq(b, q) PROVE InSeq(b, Reversed(q))
    <3>1. PICK i \in DOMAIN q : q[i] = b
      BY <2>2 DEF InSeq
    <3>2. Len(q) + 1 - i \in 1 .. Len(q) /\ Len(q) + 1 - (Len(q) + 1 - i) = i
      BY <1>1, <1>2, <3>1
    <3>3. Reversed(q)[Len(q) + 1 - i] = b
      BY <1>6, <3>1, <3>2
    <3> QED
      BY <1>4, <3>2, <3>3 DEF InSeq
  <2> QED
    BY <2>1, <2>2
<1>8. Distinct(q) => Distinct(Reversed(q))
  <2>1. SUFFICES ASSUME Distinct(q), NEW i \in 1 .. Len(q), NEW j \in 1 .. Len(q),
                        Reversed(q)[i] = Reversed(q)[j]
                 PROVE  i = j
    BY <1>4 DEF Distinct
  <2>2. Len(q) + 1 - i = Len(q) + 1 - j
    BY <1>1, <1>2, <1>6, <2>1 DEF Distinct
  <2> QED
    BY <1>1, <2>2
<1> QED
  BY <1>2, <1>4, <1>5, <1>6, <1>7, <1>8

LEMMA WakeAllInv ==
    ASSUME PushInv, NEW t \in Threads, WakeAll(t)
    PROVE  PushInv'
<1>0. pc[t] = "wakePick" /\ UNCHANGED <<Block, gate, held>>
  BY DEF WakeAll
<1>1. CASE EnterWake(t, PushLock) /\ UNCHANGED <<PushLock, history>>
  BY <1>0, <1>1, ReenterWakeInv DEF memory, history
<1>2. CASE /\ PushLock = frame[t].WakeValue /\ PushLock' = Free /\ queue' = <<>>
           /\ taken' = [taken EXCEPT ![t] = Reversed(queue)]
           /\ Goto(t, "signal") /\ UNCHANGED frame
  <2>1. "signal" \in Labels
    BY DEF Labels
  <2>2. pc' \in [Threads -> Labels] /\ Keeps(t, pc, pc') /\ pc'[t] = "signal"
    BY <1>2, <2>1, GotoDoes DEF PushInv, TypeOK
  <2>3. /\ held[t] = "none" /\ queue # <<>>
        /\ \A b \in Threads : Block[b].ShareCount = 0
        /\ ~PushLock.Locked
        /\ \A u \in Threads : u # t => pc[u] \notin WakerLabels
    BY <1>0, <1>2, PickFacts
  <2>4. PICK k \in DOMAIN queue :
            /\ First(t) = queue[k] /\ Block[queue[k]].Previous = NULL /\ Cursor(t) = Oldest
            /\ \A j \in k + 1 .. Len(queue) : Block[queue[j]].Previous = queue[j - 1]
    BY <1>0, PickFacts
  <2>5. /\ queue \in Seq(Threads) /\ Len(queue) \in Nat /\ Len(queue) >= 1 /\ DOMAIN queue = 1 .. Len(queue)
        /\ Distinct(queue)
    BY <2>3, QueueFacts DEF PushInv, ListIntact, NoWaiterLost
  <2>6. k = 1
    <3>1. First(t) = queue[1]
      BY <1>2, <2>3 DEF First, PushInv, ListIntact, LinksMatchQueue
    <3>2. 1 \in DOMAIN queue
      BY <2>5
    <3>3. queue[1] = queue[k]
      BY <2>4, <3>1
    <3> QED
      BY <2>5, <3>2, <3>3 DEF Distinct
  <2> DEFINE r == Reversed(queue)
  <2>7. /\ r \in Seq(Threads) /\ Len(r) = Len(queue) /\ DOMAIN r = 1 .. Len(queue)
        /\ \A i \in 1 .. Len(queue) : r[i] = queue[Len(queue) + 1 - i] /\ Len(queue) + 1 - i \in 1 .. Len(queue)
        /\ \A b \in Threads : InSeq(b, r) <=> InSeq(b, queue)
        /\ Distinct(r)
    BY <2>5, ReversedFacts
  <2>8. taken' = [taken EXCEPT ![t] = r]
    BY <1>2
  <2> HIDE DEF r
  <2>9. /\ taken' \in [Threads -> Seq(Threads)] /\ taken'[t] = r
        /\ \A u \in Threads : u # t => taken'[u] = taken[u] /\ pc'[u] = pc[u] /\ frame'[u] = frame[u]
    BY <1>2, <2>2, <2>7, <2>8 DEF PushInv, TypeOK, Keeps
  <2>10. TypeOK'
    BY <1>0, <1>2, <2>2, <2>9, FreeType DEF PushInv, TypeOK
  <2>11. /\ \A u \in Threads : held[u] = "none"
         /\ Sharers = {} /\ LastSharer = {}
    BY <2>3, Unheld DEF PushInv
  <2>12. Sharers' = {} /\ LastSharer' = {}
    BY <1>0, <2>2, <2>11 DEF Sharers, LastSharer, Keeps
  <2>13. /\ PushLock'.Locked = FALSE /\ PushLock'.Waiting = FALSE /\ PushLock'.Waking = FALSE
         /\ PushLock'.MultipleShared = FALSE /\ PushLock'.Shared = 0 /\ PushLock'.Block = NULL
    BY <1>2 DEF Free
  <2>14. WordExact' /\ CountsHolders'
    <3>1. Cardinality({}) = 0
      BY FS_EmptySet
    <3>2. WordExact'
      BY <1>0, <2>11, <2>12, <2>13 DEF WordExact
    <3>3. CountsHolders'
      BY <1>0, <2>11, <2>12, <2>13, <3>1 DEF CountsHolders
    <3> QED
      BY <3>2, <3>3
  <2>15. ASSUME NEW u \in Threads PROVE CallInUse(u)' /\ ReleaserSees(u)'
    <3>1. CASE u = t
      BY <1>0, <2>2, <2>3, <3>1 DEF CallInUse, ReleaserSees
    <3>2. CASE u # t
      <4>1. pc'[u] = pc[u] /\ frame'[u] = frame[u] /\ held'[u] = held[u] /\ CallInUse(u) /\ ReleaserSees(u)
        BY <1>0, <2>9, <3>2 DEF PushInv
      <4>2. pc[u] \notin {"tryRelease", "release", "releaseCount", "unlock"}
        BY <2>11, <4>1 DEF CallInUse
      <4>3. CallInUse(u)'
        BY <4>1 DEF CallInUse
      <4>4. ReleaserSees(u)'
        BY <4>1, <4>2 DEF ReleaserSees, Old
      <4> QED
        BY <4>3, <4>4
    <3> QED
      BY <3>1, <3>2
  <2>16. Wakers' = {}
    BY <2>2, <2>3, <2>9 DEF Wakers, WakerLabels
  <2>17. OneWaker' /\ WakersInList'
    BY <2>13, <2>16 DEF OneWaker, WakersInList
  <2>18. LinksMatchQueue' /\ ListShape'
    <3>1. Len(queue') = 0 /\ DOMAIN queue' = {}
      BY <1>2
    <3>2. 1 .. Len(queue') - 1 = {}
      BY <3>1
    <3>3. LinksMatchQueue'
      BY <1>2, <2>13, <3>2 DEF LinksMatchQueue
    <3> QED
      BY <1>0, <1>2, <2>3, <2>13, <3>3 DEF ListShape
  <2>19. SignalsWhatItTook'
    <3>1. r # <<>> /\ Cursor(t)' = r[1]
      <4>1. Cursor(t)' = queue[Len(queue)]
        BY <1>2, <2>4 DEF Cursor, Oldest
      <4>2. r[1] = queue[Len(queue) + 1 - 1] /\ Len(queue) + 1 - 1 = Len(queue)
        BY <2>5, <2>7
      <4> QED
        BY <2>5, <2>7, <4>1, <4>2
    <3>2. ASSUME NEW i \in DOMAIN r
          PROVE  Block[r[i]].Previous = IF i < Len(r) THEN r[i + 1] ELSE NULL
      <4>1. r[i] = queue[Len(queue) + 1 - i] /\ i \in 1 .. Len(queue)
        BY <2>7, <3>2
      <4>2. CASE i < Len(r)
        <5>1. Len(queue) + 1 - i \in k + 1 .. Len(queue) /\ (Len(queue) + 1 - i) - 1 = Len(queue) + 1 - (i + 1)
              /\ i + 1 \in 1 .. Len(queue)
          BY <2>5, <2>6, <2>7, <4>1, <4>2
        <5>2. Block[queue[Len(queue) + 1 - i]].Previous = queue[(Len(queue) + 1 - i) - 1]
          BY <2>4, <5>1
        <5>3. r[i + 1] = queue[Len(queue) + 1 - (i + 1)]
          BY <2>7, <5>1
        <5> QED
          BY <4>1, <4>2, <5>1, <5>2, <5>3
      <4>3. CASE ~(i < Len(r))
        <5>1. Len(queue) + 1 - i = 1
          BY <2>5, <2>7, <4>1, <4>3
        <5> QED
          BY <2>4, <2>6, <4>1, <4>3, <5>1
      <4> QED
        BY <4>2, <4>3
    <3>3. \A u \in Threads : pc'[u] \in {"clearWaking", "signal"} => taken'[u] # <<>> /\ Cursor(u)' = taken'[u][1]
      BY <2>9, <3>1 DEF PushInv, ListIntact, SignalsWhatItTook, Cursor
    <3>4. \A u \in Threads : \A i \in DOMAIN taken'[u] :
              Block'[taken'[u][i]].Previous = IF i < Len(taken'[u]) THEN taken'[u][i + 1] ELSE NULL
      <4>1. ASSUME NEW u \in Threads, u # t, NEW i \in DOMAIN taken'[u]
            PROVE  Block'[taken'[u][i]].Previous = IF i < Len(taken'[u]) THEN taken'[u][i + 1] ELSE NULL
        <5>1. taken'[u] = taken[u] /\ Block' = Block
          BY <1>0, <2>9, <4>1
        <5>2. \A j \in DOMAIN taken[u] :
                  Block[taken[u][j]].Previous = IF j < Len(taken[u]) THEN taken[u][j + 1] ELSE NULL
          BY DEF PushInv, ListIntact, SignalsWhatItTook
        <5> QED
          BY <4>1, <5>1, <5>2
      <4>2. \A i \in DOMAIN taken'[t] :
                Block'[taken'[t][i]].Previous = IF i < Len(taken'[t]) THEN taken'[t][i + 1] ELSE NULL
        <5>1. taken'[t] = r /\ Block' = Block
          BY <1>0, <2>9
        <5> QED
          BY <3>2, <5>1
      <4> QED
        BY <4>1, <4>2
    <3> QED
      BY <3>3, <3>4 DEF SignalsWhatItTook
  <2>20. NoWaiterLost' /\ SignalsInUse'
    <3>1. \A b : ~InSeq(b, queue')
      BY <1>2 DEF InSeq
    <3>2. Distinct(queue')
      BY <1>2 DEF Distinct
    <3> QED
      BY <1>0, <1>2, <2>2, <2>7, <2>8, <3>1, <3>2, TakesKeep
  <2> QED
    BY <2>10, <2>14, <2>15, <2>17, <2>18, <2>19, <2>20 DEF PushInv, ListIntact
<1> QED
  BY <1>1, <1>2 DEF WakeAll

LEMMA FrontFacts ==
    ASSUME NEW q \in Seq(Threads), Len(q) > 1
    PROVE  LET f == SubSeq(q, 1, Len(q) - 1) IN
           /\ f \in Seq(Threads) /\ Len(f) = Len(q) - 1 /\ DOMAIN f = 1 .. Len(q) - 1
           /\ \A i \in 1 .. Len(q) - 1 : f[i] = q[i]
<1> DEFINE f == SubSeq(q, 1, Len(q) - 1)
<1>1. Len(q) \in Nat /\ Len(q) - 1 \in Nat
  OBVIOUS
<1>2. f \in Seq(Threads) /\ Len(f) = Len(q) - 1
  BY <1>1
<1>3. DOMAIN f = 1 .. Len(q) - 1
  BY <1>2
<1>4. \A i \in 1 .. Len(q) - 1 : f[i] = q[i]
  BY <1>1
<1> QED
  BY <1>2, <1>3, <1>4

LEMMA WakeLastInv ==
    ASSUME PushInv, NEW t \in Threads, WakeLast(t)
    PROVE  PushInv'
<1>0. /\ pc[t] = "wakePick" /\ UNCHANGED <<PushLock, gate, held, frame>>
      /\ Block[Cursor(t)].Previous # NULL /\ Goto(t, "clearWaking")
      /\ Block' = [Block EXCEPT ![First(t)].Last = Block[Cursor(t)].Previous, ![Cursor(t)].Previous = NULL]
      /\ taken' = [taken EXCEPT ![t] = <<queue[Len(queue)]>>]
      /\ queue' = SubSeq(queue, 1, Len(queue) - 1)
  BY DEF WakeLast, WakesAll
<1>1. "clearWaking" \in Labels
  BY DEF Labels
<1>2. pc' \in [Threads -> Labels] /\ Keeps(t, pc, pc') /\ pc'[t] = "clearWaking"
  BY <1>0, <1>1, GotoDoes DEF PushInv, TypeOK
<1>3. /\ held[t] = "none" /\ queue # <<>> /\ PushLock.Waiting /\ ~PushLock.MultipleShared
      /\ \A b \in Threads : Block[b].ShareCount = 0
      /\ \A u \in Threads : u # t => pc[u] \notin WakerLabels
  BY <1>0, PickFacts
<1>4. PICK k \in DOMAIN queue :
          /\ First(t) = queue[k] /\ Block[queue[k]].Previous = NULL /\ Cursor(t) = Oldest
          /\ \A j \in 1 .. k - 1 : Block[queue[j]].Last = NULL
          /\ \A j \in k + 1 .. Len(queue) : Block[queue[j]].Previous = queue[j - 1]
  BY <1>0, PickFacts
<1> DEFINE n == Len(queue)
           old == queue[n]
           first == queue[k]
           newOld == queue[n - 1]
<1>5. /\ queue \in Seq(Threads) /\ n \in Nat /\ DOMAIN queue = 1 .. n /\ Distinct(queue)
      /\ \A i \in 1 .. n : queue[i] \in Threads
  BY <1>3, QueueFacts DEF PushInv, ListIntact, NoWaiterLost
<1>6. Cursor(t) = old /\ k \in Nat /\ 1 <= k /\ k < n
  <2>1. k # n
    BY <1>0, <1>4 DEF Oldest
  <2> QED
    BY <1>4, <1>5, <2>1 DEF Oldest
<1>7. n - 1 \in 1 .. n /\ n \in 1 .. n /\ k \in 1 .. n /\ n - 1 \in Nat /\ n > 1 /\ k \in 1 .. n - 1
  BY <1>5, <1>6
<1>8. Block[old].Previous = newOld
  <2>1. n \in k + 1 .. n
    BY <1>5, <1>6
  <2> QED
    BY <1>4, <2>1
<1>9. /\ old \in Threads /\ first \in Threads /\ newOld \in Threads /\ first # old /\ newOld # NULL
  BY <1>5, <1>6, <1>7, NullAssumption DEF Distinct
<1>10. Block' = [Block EXCEPT ![first].Last = newOld, ![old].Previous = NULL]
  BY <1>0, <1>4, <1>6, <1>8
<1>11. /\ taken' = [taken EXCEPT ![t] = <<old>>] /\ Block \in [Threads -> WaitBlockType]
  BY <1>0 DEF PushInv, TypeOK
<1> HIDE DEF old, first, newOld
<1>12. /\ Block' \in [Threads -> WaitBlockType]
       /\ \A b \in Threads : SameBlock(b)
       /\ Block'[first].Last = newOld /\ Block'[old].Previous = NULL
       /\ \A b \in Threads : b # first => Block'[b].Last = Block[b].Last
       /\ \A b \in Threads : b # old => Block'[b].Previous = Block[b].Previous
  <2> DEFINE B == [Block EXCEPT ![first].Last = newOld]
  <2>1. /\ B \in [Threads -> WaitBlockType] /\ B[first].Last = newOld
        /\ \A b \in Threads : /\ B[b].Exclusive = Block[b].Exclusive /\ B[b].Wait = Block[b].Wait
                              /\ B[b].Next = Block[b].Next /\ B[b].ShareCount = Block[b].ShareCount
                              /\ B[b].Signaled = Block[b].Signaled /\ B[b].Previous = Block[b].Previous
        /\ \A b \in Threads : b # first => B[b].Last = Block[b].Last
    BY <1>9, <1>11 DEF WaitBlockType
  <2>2. Block' = [B EXCEPT ![old].Previous = NULL]
    BY <1>10
  <2> HIDE DEF B
  <2>3. /\ Block' \in [Threads -> WaitBlockType] /\ Block'[old].Previous = NULL
        /\ \A b \in Threads : /\ Block'[b].Exclusive = B[b].Exclusive /\ Block'[b].Wait = B[b].Wait
                              /\ Block'[b].Next = B[b].Next /\ Block'[b].ShareCount = B[b].ShareCount
                              /\ Block'[b].Signaled = B[b].Signaled /\ Block'[b].Last = B[b].Last
        /\ \A b \in Threads : b # old => Block'[b].Previous = B[b].Previous
    BY <1>9, <2>1, <2>2 DEF WaitBlockType
  <2> QED
    BY <1>9, <2>1, <2>3 DEF SameBlock
<1>13. /\ queue' \in Seq(Threads) /\ Len(queue') = n - 1 /\ DOMAIN queue' = 1 .. n - 1
       /\ \A i \in 1 .. n - 1 : queue'[i] = queue[i]
  BY <1>0, <1>5, <1>7, FrontFacts
<1>14. \A i \in 1 .. n : (queue[i] = old <=> i = n) /\ (queue[i] = first <=> i = k)
  BY <1>5, <1>7 DEF Distinct, old, first
<1> HIDE DEF n
<1>15. /\ taken' \in [Threads -> Seq(Threads)] /\ taken'[t] = <<old>>
       /\ \A u \in Threads : u # t => taken'[u] = taken[u] /\ pc'[u] = pc[u] /\ frame'[u] = frame[u]
  BY <1>0, <1>2, <1>9, <1>11 DEF PushInv, TypeOK, Keeps
<1>16. TypeOK'
  BY <1>0, <1>2, <1>12, <1>13, <1>15 DEF PushInv, TypeOK
<1>17. WordExact' /\ CountsHolders'
  <2>1. Sharers' = Sharers /\ LastSharer' = LastSharer
    BY <1>0, <1>2 DEF Sharers, LastSharer, Keeps
  <2>2. WordExact'
    BY <1>0, <1>3, <2>1 DEF PushInv, WordExact
  <2>3. CountsHolders'
    BY <1>0, <1>3, <2>1 DEF PushInv, CountsHolders
  <2> QED
    BY <2>2, <2>3
<1>18. ASSUME NEW u \in Threads PROVE CallInUse(u)' /\ ReleaserSees(u)'
  <2>1. CASE u = t
    BY <1>0, <1>2, <1>3, <2>1 DEF CallInUse, ReleaserSees
  <2>2. CASE u # t
    <3>1. pc'[u] = pc[u] /\ frame'[u] = frame[u] /\ held'[u] = held[u] /\ PushLock' = PushLock
          /\ CallInUse(u) /\ ReleaserSees(u)
      BY <1>0, <1>15, <2>2 DEF PushInv
    <3>2. CallInUse(u)'
      BY <3>1 DEF CallInUse
    <3>3. pc[u] \notin {"releaseCount", "unlock"} /\ ~(pc[u] = "release" /\ Old(u).Waiting /\ Old(u).MultipleShared)
      BY <1>3, <3>1 DEF ReleaserSees
    <3>4. ReleaserSees(u)'
      BY <3>1, <3>3 DEF ReleaserSees, Old
    <3> QED
      BY <3>2, <3>4
  <2> QED
    BY <2>1, <2>2
<1>19. OneWaker'
  <2>1. pc[t] \in WakerLabels /\ pc'[t] \in WakerLabels
    BY <1>0, <1>2 DEF WakerLabels
  <2> QED
    BY <1>0, <1>2, <2>1, WakerKept DEF PushInv, ListIntact
<1>20. WakersInList'
  <2>1. \A u \in Wakers' : u = t
    BY <1>3, <1>15 DEF Wakers, WakerLabels
  <2> QED
    BY <1>0, <1>2, <1>3, <2>1 DEF WakersInList
<1>21. Oldest' = newOld
  BY <1>7, <1>13 DEF Oldest, newOld
<1>22. \A i \in 1 .. n - 1 :
           /\ queue'[i] = queue[i] /\ queue[i] \in Threads /\ i \in 1 .. n
           /\ Block'[queue[i]].Next = Block[queue[i]].Next
           /\ Block'[queue[i]].Previous = Block[queue[i]].Previous
           /\ Block'[queue[i]].Last = IF i = k THEN newOld ELSE Block[queue[i]].Last
  <2>1. ASSUME NEW i \in 1 .. n - 1 PROVE i \in 1 .. n /\ i # n
    BY <1>5, <1>7, <2>1
  <2> QED
    BY <1>5, <1>12, <1>13, <1>14, <2>1 DEF SameBlock
<1>23. queue' # <<>> /\ queue'[1] = queue[1] /\ 1 \in 1 .. n - 1
  BY <1>5, <1>7, <1>13
<1>24. LinksMatchQueue'
  <2>1. ASSUME NEW i \in 1 .. Len(queue') - 1 PROVE Block'[queue'[i]].Next = queue'[i + 1]
    <3>1. i \in 1 .. n - 1 /\ i + 1 \in 1 .. n - 1 /\ i \in 1 .. Len(queue) - 1
      BY <1>5, <1>7, <1>13, <2>1 DEF n
    <3>2. Block[queue[i]].Next = queue[i + 1]
      BY <3>1 DEF PushInv, ListIntact, LinksMatchQueue
    <3> QED
      BY <1>22, <3>1, <3>2
  <2>2. FirstWithLast(k)' /\ Block'[queue'[k]].Last = Oldest' /\ k \in DOMAIN queue'
    <3>1. \A j \in 1 .. k - 1 : j \in 1 .. n - 1 /\ j # k
      BY <1>6, <1>7
    <3> QED
      BY <1>4, <1>7, <1>9, <1>13, <1>21, <1>22, <3>1 DEF FirstWithLast
  <2>3. ASSUME NEW j \in k + 1 .. Len(queue') PROVE Block'[queue'[j]].Previous = queue'[j - 1]
    <3>1. j \in 1 .. n - 1 /\ j - 1 \in 1 .. n - 1 /\ j \in k + 1 .. Len(queue)
      BY <1>5, <1>6, <1>7, <1>13, <2>3 DEF n
    <3> QED
      BY <1>4, <1>22, <3>1
  <2> QED
    BY <1>0, <1>3, <1>23, <2>1, <2>2, <2>3 DEF PushInv, ListIntact, LinksMatchQueue
<1>25. ListShape'
  <2>1. \A b \in Threads : Block'[b].ShareCount = 0
    BY <1>3, <1>12 DEF SameBlock
  <2> QED
    BY <1>0, <1>3, <1>22, <1>23, <2>1 DEF PushInv, ListShape
<1>26. NoWaiterLost' /\ SignalsInUse'
  <2>1. <<old>> \in Seq(Threads) /\ Distinct(<<old>>) /\ \A b \in Threads : InSeq(b, <<old>>) <=> b = old
    BY <1>9 DEF Distinct, InSeq
  <2>2. Distinct(queue')
    <3>1. \A i \in 1 .. n - 1 : i \in 1 .. n
      BY <1>22
    <3> QED
      BY <1>5, <1>13, <3>1 DEF Distinct
  <2>3. ASSUME NEW b \in Threads PROVE InSeq(b, queue') <=> InSeq(b, queue) /\ b # old
    <3>1. \A i \in 1 .. n : i # n => i \in 1 .. n - 1
      BY <1>5
    <3> QED
      BY <1>5, <1>13, <1>14, <1>22, <3>1 DEF InSeq
  <2>4. InSeq(old, queue)
    BY <1>5, <1>7 DEF InSeq, old
  <2>5. \A b \in Threads : Block'[b].Signaled = Block[b].Signaled /\ Block'[b].Wait = Block[b].Wait
    BY <1>12 DEF SameBlock
  <2> QED
    BY <1>0, <1>2, <1>11, <2>1, <2>2, <2>3, <2>4, <2>5, TakesKeep
<1>27. SignalsWhatItTook'
  <2>1. taken'[t] # <<>> /\ Cursor(t)' = taken'[t][1] /\ DOMAIN taken'[t] = {1} /\ Len(taken'[t]) = 1
    BY <1>0, <1>6, <1>9, <1>15 DEF Cursor
  <2>2. \A u \in Threads : pc'[u] \in {"clearWaking", "signal"} => taken'[u] # <<>> /\ Cursor(u)' = taken'[u][1]
    BY <1>15, <2>1 DEF PushInv, ListIntact, SignalsWhatItTook, Cursor
  <2>3. \A u \in Threads : u # t => \A i \in DOMAIN taken[u] : taken[u][i] \in Threads /\ taken[u][i] # old
    <3>1. n \in DOMAIN queue /\ queue[n] = old
      BY <1>5, <1>7 DEF old
    <3> QED
      BY <3>1, ListedNotTaken DEF PushInv, TypeOK
  <2>4. \A u \in Threads : \A i \in DOMAIN taken'[u] :
            Block'[taken'[u][i]].Previous = IF i < Len(taken'[u]) THEN taken'[u][i + 1] ELSE NULL
    <3>1. ASSUME NEW u \in Threads, u # t, NEW i \in DOMAIN taken'[u]
          PROVE  Block'[taken'[u][i]].Previous = IF i < Len(taken'[u]) THEN taken'[u][i + 1] ELSE NULL
      <4>1. taken'[u] = taken[u] /\ i \in DOMAIN taken[u]
        BY <1>15, <3>1
      <4>2. taken[u][i] \in Threads /\ taken[u][i] # old
        BY <2>3, <3>1, <4>1
      <4>3. Block'[taken[u][i]].Previous = Block[taken[u][i]].Previous
        BY <1>12, <4>2
      <4>4. Block[taken[u][i]].Previous = IF i < Len(taken[u]) THEN taken[u][i + 1] ELSE NULL
        BY <4>1 DEF PushInv, ListIntact, SignalsWhatItTook
      <4> QED
        BY <4>1, <4>3, <4>4
    <3>2. \A i \in DOMAIN taken'[t] :
              Block'[taken'[t][i]].Previous = IF i < Len(taken'[t]) THEN taken'[t][i + 1] ELSE NULL
      BY <1>12, <1>15, <2>1
    <3> QED
      BY <3>1, <3>2
  <2> QED
    BY <2>2, <2>4 DEF SignalsWhatItTook
<1> QED
  BY <1>16, <1>17, <1>18, <1>19, <1>20, <1>24, <1>25, <1>26, <1>27 DEF PushInv, ListIntact

-----------------------------------------------------------------------------
(* A new waiter: its block goes before all others.                         *)

LEMMA ConsFacts ==
    ASSUME NEW q \in Seq(Threads), NEW t \in Threads
    PROVE  LET p == <<t>> \o q IN
           /\ p \in Seq(Threads) /\ Len(p) = Len(q) + 1 /\ DOMAIN p = 1 .. Len(q) + 1
           /\ p # <<>> /\ p[1] = t
           /\ \A i \in 1 .. Len(q) : p[i + 1] = q[i]
           /\ \A b \in Threads : InSeq(b, p) <=> b = t \/ InSeq(b, q)
           /\ Distinct(q) /\ ~InSeq(t, q) => Distinct(p)
<1> DEFINE p == <<t>> \o q
<1>1. Len(q) \in Nat /\ DOMAIN q = 1 .. Len(q) /\ \A i \in 1 .. Len(q) : q[i] \in Threads
  OBVIOUS
<1>2. <<t>> \in Seq(Threads) /\ Len(<<t>>) = 1 /\ <<t>>[1] = t
  OBVIOUS
<1>3. p \in Seq(Threads) /\ Len(p) = Len(q) + 1
  BY <1>1, <1>2
<1>4. DOMAIN p = 1 .. Len(q) + 1 /\ p # <<>>
  BY <1>1, <1>3
<1>5. p[1] = t
  BY <1>1, <1>2
<1>6. \A i \in 1 .. Len(q) : p[i + 1] = q[i]
  <2>1. SUFFICES ASSUME NEW i \in 1 .. Len(q) PROVE p[i + 1] = q[i]
    OBVIOUS
  <2>2. i + 1 \in 1 .. Len(q) + 1 /\ i + 1 > 1 /\ (i + 1) - 1 = i
    BY <1>1
  <2> QED
    BY <1>1, <1>2, <2>2
<1> HIDE DEF p
<1>7. \A i \in DOMAIN p : i = 1 \/ (i - 1 \in 1 .. Len(q) /\ p[i] = q[i - 1])
  <2>1. SUFFICES ASSUME NEW i \in DOMAIN p, i # 1 PROVE i - 1 \in 1 .. Len(q) /\ p[i] = q[i - 1]
    OBVIOUS
  <2>2. i - 1 \in 1 .. Len(q) /\ (i - 1) + 1 = i
    BY <1>1, <1>4, <2>1
  <2> QED
    BY <1>6, <2>2
<1>8. ASSUME NEW b \in Threads PROVE InSeq(b, p) <=> b = t \/ InSeq(b, q)
  <2>1. ASSUME InSeq(b, q) PROVE InSeq(b, p)
    <3>1. PICK i \in 1 .. Len(q) : q[i] = b
      BY <1>1, <2>1 DEF InSeq
    <3>2. i + 1 \in DOMAIN p /\ p[i + 1] = b
      BY <1>1, <1>4, <1>6, <3>1
    <3> QED
      BY <3>2 DEF InSeq
  <2>2. 1 \in DOMAIN p
    BY <1>1, <1>4
  <2> QED
    BY <1>1, <1>5, <1>7, <2>1, <2>2 DEF InSeq
<1>9. ASSUME Distinct(q), ~InSeq(t, q) PROVE Distinct(p)
  <2>1. SUFFICES ASSUME NEW i \in DOMAIN p, NEW j \in DOMAIN p, p[i] = p[j] PROVE i = j
    BY DEF Distinct
  <2>2. \A m \in 1 .. Len(q) : q[m] # t
    BY <1>1, <1>9 DEF InSeq
  <2>3. CASE i = 1 \/ j = 1
    BY <1>5, <1>7, <2>1, <2>2, <2>3
  <2>4. CASE i # 1 /\ j # 1
    <3>1. i - 1 \in DOMAIN q /\ j - 1 \in DOMAIN q /\ q[i - 1] = q[j - 1]
      BY <1>1, <1>7, <2>1, <2>4
    <3>2. i - 1 = j - 1
      BY <1>9, <3>1 DEF Distinct
    <3> QED
      BY <1>1, <1>4, <3>2
  <2> QED
    BY <2>3, <2>4
<1> QED
  BY <1>3, <1>4, <1>5, <1>6, <1>8, <1>9 DEF p

LEMMA QueuedWordDoes ==
    ASSUME TypeOK, NEW t \in Threads
    PROVE  LET w == QueuedWord(t) IN
           /\ w \in WordType /\ w.Locked = Old(t).Locked /\ w.Waiting = TRUE /\ w.Waking = Old(t).Waiting
           /\ Old(t).Waiting => w.MultipleShared = Old(t).MultipleShared
           /\ ~Old(t).Waiting => (w.MultipleShared <=> Old(t).Shared > 1)
           /\ w.Shared = 0 /\ w.Block = t
<1> DEFINE m == IF Old(t).Waiting THEN Old(t).MultipleShared ELSE Old(t).Shared > 1
           w == QueuedWord(t)
<1>1. Old(t) \in WordType
  BY DEF TypeOK, FrameType, Old
<1>2. /\ m \in BOOLEAN /\ Old(t).Locked \in BOOLEAN /\ Old(t).Waiting \in BOOLEAN
      /\ Old(t).Waiting => m = Old(t).MultipleShared
      /\ ~Old(t).Waiting => (m <=> Old(t).Shared > 1)
  <2>1. /\ Old(t).Locked \in BOOLEAN /\ Old(t).Waiting \in BOOLEAN
        /\ Old(t).MultipleShared \in BOOLEAN /\ Old(t).Shared \in Nat
    BY <1>1 DEF WordType
  <2>2. CASE Old(t).Waiting = TRUE
    <3>1. m = Old(t).MultipleShared
      BY <2>2
    <3> QED
      BY <2>1, <2>2, <3>1
  <2>3. CASE Old(t).Waiting = FALSE
    <3>1. m = (Old(t).Shared > 1)
      BY <2>3
    <3> HIDE DEF m
    <3>2. CASE Old(t).Shared > 1
      BY <2>1, <2>3, <3>1, <3>2
    <3>3. CASE ~(Old(t).Shared > 1)
      BY <2>1, <2>3, <3>1, <3>3
    <3> QED
      BY <3>2, <3>3
  <2> QED
    BY <2>1, <2>2, <2>3
<1>3. w = [Locked |-> Old(t).Locked, Waiting |-> TRUE, Waking |-> Old(t).Waiting,
           MultipleShared |-> m, Shared |-> 0, Block |-> t]
  BY DEF QueuedWord
<1> HIDE DEF m, w
<1>4. w \in WordType
  BY <1>2, <1>3 DEF WordType
<1>5. /\ w.Locked = Old(t).Locked /\ w.Waiting = TRUE /\ w.Waking = Old(t).Waiting
      /\ w.MultipleShared = m /\ w.Shared = 0 /\ w.Block = t
  BY <1>3
<1> QED
  BY <1>2, <1>4, <1>5 DEF w

LEMMA WaitBlockDoes ==
    ASSUME TypeOK, NEW t \in Threads, NEW x \in BOOLEAN
    PROVE  LET b == WaitBlockFor(t, x) IN
           /\ b \in WaitBlockType /\ b.Exclusive = x /\ b.Wait = TRUE /\ b.Signaled = FALSE
           /\ b.Previous = NULL
           /\ Old(t).Waiting => b.Next = Old(t).Block /\ b.Last = NULL /\ b.ShareCount = 0
           /\ ~Old(t).Waiting => b.Last = t
           /\ ~Old(t).Waiting /\ Old(t).Shared > 1 /\ x => b.ShareCount = Old(t).Shared
           /\ ~(Old(t).Shared > 1) => b.ShareCount = 0
<1>1. Old(t) \in WordType
  BY DEF TypeOK, FrameType, Old
<1> QED
  BY <1>1 DEF WaitBlockFor, WordType, WaitBlockType

LEMMA EnqueueInv ==
    ASSUME PushInv, NEW t \in Threads, NEW x \in BOOLEAN, NEW v, pc[t] = "acquire",
           Old(t).Locked, x \/ Old(t).Waiting \/ Old(t).Shared = 0,
           v \in {QueuedWord(t), Old(t)}, Enqueue(t, x, v)
    PROVE  PushInv'
<1> DEFINE B == WaitBlockFor(t, x)
           w == QueuedWord(t)
<1>0. /\ PushLock = Old(t) /\ PushLock' = w /\ Block' = [Block EXCEPT ![t] = B]
      /\ gate' = [gate EXCEPT ![t] = FALSE] /\ queue' = <<t>> \o queue
      /\ UNCHANGED <<held, taken>> /\ PushLock.Locked
  BY DEF Enqueue
<1>1. TypeOK /\ WordExact /\ CountsHolders /\ ListShape /\ OneWaker /\ LinksMatchQueue
  BY DEF PushInv, ListIntact
<1>2. /\ w \in WordType /\ w.Locked = TRUE /\ w.Waiting = TRUE /\ w.Waking = PushLock.Waiting
      /\ PushLock.Waiting => w.MultipleShared = PushLock.MultipleShared
      /\ ~PushLock.Waiting => (w.MultipleShared <=> PushLock.Shared > 1)
      /\ w.Shared = 0 /\ w.Block = t /\ PushLock.Shared \in Nat
  <2>1. PushLock.Locked \in BOOLEAN /\ PushLock.Shared \in Nat
    BY <1>1 DEF TypeOK, WordType
  <2> QED
    BY <1>0, <1>1, <2>1, QueuedWordDoes
<1>3. /\ B \in WaitBlockType /\ B.Exclusive = x /\ B.Wait = TRUE /\ B.Signaled = FALSE
      /\ B.Previous = NULL
      /\ PushLock.Waiting => B.Next = PushLock.Block /\ B.Last = NULL /\ B.ShareCount = 0
      /\ ~PushLock.Waiting => B.Last = t
      /\ ~PushLock.Waiting /\ PushLock.Shared > 1 /\ x => B.ShareCount = PushLock.Shared
      /\ ~(PushLock.Shared > 1) => B.ShareCount = 0
  BY <1>0, <1>1, WaitBlockDoes
<1> HIDE DEF B, w
<1>4. /\ Block' \in [Threads -> WaitBlockType] /\ Block'[t] = B /\ Keeps(t, Block, Block')
      /\ gate' \in [Threads -> BOOLEAN] /\ gate'[t] = FALSE /\ Keeps(t, gate, gate')
  BY <1>0, <1>1, <1>3 DEF TypeOK, Keeps
<1>5. /\ pc' \in [Threads -> Labels] /\ Keeps(t, pc, pc')
      /\ frame' \in [Threads -> FrameType] /\ Keeps(t, frame, frame')
      /\ frame'[t].call = frame[t].call /\ pc'[t] \in {"testWait", "optimizeWalk"}
      /\ pc'[t] = "optimizeWalk" <=> PushLock.Waiting /\ ~PushLock.Waking
      /\ pc'[t] = "optimizeWalk" => frame'[t].WakeValue = v /\ frame'[t].WaitBlock = v.Block
  <2>1. "testWait" \in Labels /\ "optimizeWalk" \in Labels
    BY DEF Labels
  <2>2. CASE NeedWake(t)
    <3>1. v \in WordType /\ v.Locked
      BY <1>0, <1>1, <1>2 DEF TypeOK, w
    <3>2. WalkFrom(t, v, "optimizeWalk")
      BY <2>2, <3>1 DEF Enqueue, EnterOptimize
    <3> QED
      BY <1>0, <1>1, <2>1, <2>2, <3>1, <3>2, WalkFromDoes DEF NeedWake
  <2>3. CASE ~NeedWake(t)
    <3>1. Goto(t, "testWait") /\ frame' = frame
      BY <2>3 DEF Enqueue
    <3>2. pc' \in [Threads -> Labels] /\ Keeps(t, pc, pc') /\ pc'[t] = "testWait"
      BY <1>1, <2>1, <3>1, GotoDoes DEF TypeOK
    <3> QED
      BY <1>0, <1>1, <2>3, <3>1, <3>2 DEF NeedWake, TypeOK, Keeps
  <2> QED
    BY <2>2, <2>3
<1>6. /\ frame[t].call \in Acquiring /\ held[t] = "none" /\ ~BlockInUse(t) /\ ~Pending(t)
      /\ BlockInUse(t)'
  <2>1. CallInUse(t)
    BY DEF PushInv
  <2>2. frame[t].call \in Acquiring /\ held[t] = "none" /\ ~BlockInUse(t)
    BY <2>1 DEF CallInUse, BlockInUse
  <2>3. ~Pending(t)
    BY <2>2 DEF PushInv, ListIntact, NoWaiterLost
  <2> QED
    BY <1>5, <2>2, <2>3 DEF BlockInUse
<1> DEFINE n == Len(queue)
<1>7. /\ queue \in Seq(Threads) /\ n \in Nat /\ DOMAIN queue = 1 .. n
      /\ \A i \in 1 .. n : queue[i] \in Threads /\ queue[i] # t
      /\ Distinct(queue) /\ ~InSeq(t, queue)
  BY <1>1, <1>6, QueueFacts DEF PushInv, ListIntact, NoWaiterLost, Pending, InSeq
<1>8. /\ queue' \in Seq(Threads) /\ Len(queue') = n + 1 /\ DOMAIN queue' = 1 .. n + 1
      /\ queue' # <<>> /\ queue'[1] = t
      /\ \A i \in 1 .. n : queue'[i + 1] = queue[i]
      /\ \A b \in Threads : InSeq(b, queue') <=> b = t \/ InSeq(b, queue)
      /\ Distinct(queue')
  BY <1>0, <1>7, ConsFacts
<1>9. PushLock.Waiting => queue # <<>> /\ n >= 1 /\ PushLock.Block = queue[1]
  BY <1>1, <1>7 DEF LinksMatchQueue
<1>10. ~PushLock.Waiting =>
          /\ queue = <<>> /\ n = 0 /\ ~PushLock.Waking /\ ~PushLock.MultipleShared
          /\ LastSharer = {} /\ Wakers = {} /\ PushLock.Shared = Cardinality(Sharers)
  BY <1>1 DEF LinksMatchQueue, WordExact, OneWaker, CountsHolders
<1>11. /\ PushLock.Waiting => Oldest' = Oldest /\ Oldest \in Threads /\ Oldest # t
       /\ ~PushLock.Waiting => Oldest' = t
  <2>1. CASE PushLock.Waiting
    <3>1. n \in 1 .. n
      BY <1>7, <1>9, <2>1
    <3>2. queue'[n + 1] = queue[n]
      BY <1>8, <3>1
    <3> QED
      BY <1>7, <1>8, <2>1, <3>1, <3>2 DEF Oldest
  <2>2. CASE ~PushLock.Waiting
    BY <1>8, <1>10, <2>2 DEF Oldest
  <2> QED
    BY <2>1, <2>2
<1> HIDE DEF n
<1>12. TypeOK'
  BY <1>0, <1>1, <1>2, <1>4, <1>5, <1>8 DEF TypeOK
<1>13. Sharers' = Sharers /\ LastSharer' = LastSharer
  BY <1>0, <1>5 DEF Sharers, LastSharer, Keeps
<1>14. ASSUME NEW u \in Threads PROVE CallInUse(u)' /\ ReleaserSees(u)'
  <2>1. CASE u = t
    BY <1>0, <1>5, <1>6, <2>1 DEF CallInUse, ReleaserSees
  <2>2. CASE u # t
    <3>1. pc'[u] = pc[u] /\ frame'[u] = frame[u] /\ held'[u] = held[u] /\ CallInUse(u) /\ ReleaserSees(u)
      BY <1>0, <1>5, <2>2 DEF PushInv, Keeps
    <3>2. CallInUse(u)'
      BY <3>1 DEF CallInUse
    <3>3. Old(u)' = Old(u) /\ Cursor(u)' = Cursor(u)
      BY <3>1 DEF Old, Cursor
    <3>4. pc[u] \in {"release", "releaseCount", "unlock"} /\ Old(u).Waiting =>
              PushLock'.Waiting /\ (PushLock'.MultipleShared <=> Old(u).MultipleShared)
      BY <1>0, <1>2, <3>1 DEF ReleaserSees
    <3>5. pc[u] = "release" /\ Old(u).Waiting /\ Old(u).MultipleShared => InSeq(Cursor(u), queue')
      <4>1. ASSUME InSeq(Cursor(u), queue) PROVE InSeq(Cursor(u), queue')
        BY <1>7, <1>8, <4>1 DEF InSeq
      <4> QED
        BY <3>1, <4>1 DEF ReleaserSees
    <3>6. pc[u] = "releaseCount" => Cursor(u) = Oldest'
      BY <1>11, <3>1 DEF ReleaserSees
    <3>7. ReleaserSees(u)'
      BY <3>1, <3>3, <3>4, <3>5, <3>6 DEF ReleaserSees
    <3> QED
      BY <3>2, <3>7
  <2> QED
    BY <2>1, <2>2
<1>15. WordExact' /\ CountsHolders'
  <2>1. CASE PushLock.Waiting
    <3>1. Block'[Oldest'] = Block[Oldest]
      BY <1>4, <1>11, <2>1 DEF Keeps
    <3>2. WordExact'
      BY <1>0, <1>1, <1>2, <1>13, <2>1, <3>1 DEF WordExact
    <3>3. CountsHolders'
      BY <1>0, <1>1, <1>2, <1>13, <2>1, <3>1 DEF CountsHolders
    <3> QED
      BY <3>2, <3>3
  <2>2. CASE ~PushLock.Waiting
    <3>1. PushLock.Shared = Cardinality(Sharers) /\ LastSharer = {}
      BY <1>10, <2>2
    <3>2. ~(PushLock.Shared > 1) => Cardinality(Sharers) <= 1 /\ \A a, b \in Sharers : a = b
      <4>1. SUFFICES ASSUME ~(PushLock.Shared > 1)
                     PROVE  Cardinality(Sharers) <= 1 /\ \A a, b \in Sharers : a = b
        OBVIOUS
      <4>2. Cardinality(Sharers) = 0 \/ Cardinality(Sharers) = 1
        BY <1>2, <3>1, <4>1
      <4>3. \A a, b \in Sharers : a = b
        BY <4>2, NoSharers, OneSharer
      <4> QED
        BY <4>2, <4>3
    <3>3. PushLock.Shared > 1 => /\ Sharers # {} /\ Block'[Oldest'].Exclusive
                                 /\ Block'[Oldest'].ShareCount = Cardinality(Sharers)
      <4>1. SUFFICES ASSUME PushLock.Shared > 1
                     PROVE  /\ Sharers # {} /\ Block'[Oldest'].Exclusive
                            /\ Block'[Oldest'].ShareCount = Cardinality(Sharers)
        OBVIOUS
      <4>2. x
        BY <1>0, <1>2, <2>2, <4>1
      <4>3. Sharers # {}
        BY <3>1, <4>1, NoSharers
      <4> QED
        BY <1>3, <1>4, <1>11, <2>2, <3>1, <4>1, <4>2, <4>3
    <3>4. Sharers \ LastSharer = Sharers
      BY <3>1
    <3>5. WordExact'
      BY <1>0, <1>1, <1>2, <1>13, <2>2, <3>1, <3>2, <3>3 DEF WordExact
    <3>6. CountsHolders'
      BY <1>0, <1>1, <1>2, <1>13, <2>2, <3>1, <3>2, <3>3, <3>4 DEF CountsHolders
    <3> QED
      BY <3>5, <3>6
  <2> QED
    BY <2>1, <2>2
<1>16. OneWaker'
  <2>1. pc[t] \notin WakerLabels
    BY DEF WakerLabels
  <2>2. CASE PushLock.Waiting /\ ~PushLock.Waking
    <3>1. pc'[t] \in WakerLabels /\ PushLock'.Waking /\ PushLock'.Waiting
      BY <1>0, <1>2, <1>5, <2>2 DEF WakerLabels
    <3> QED
      BY <1>1, <1>5, <2>2, <3>1, WakerComes
  <2>3. CASE PushLock.Waiting /\ PushLock.Waking
    <3>1. pc'[t] \notin WakerLabels
      BY <1>5, <2>3 DEF WakerLabels
    <3>2. PushLock'.Waking = PushLock.Waking /\ PushLock'.Waiting = PushLock.Waiting
      <4>1. PushLock.Waking \in BOOLEAN /\ PushLock.Waiting \in BOOLEAN
        BY <1>1 DEF TypeOK, WordType
      <4> QED
        BY <1>0, <1>2, <2>3, <4>1
    <3> QED
      BY <1>1, <1>5, <2>1, <3>1, <3>2, WakerKept
  <2>4. CASE ~PushLock.Waiting
    <3>1. Wakers' = {}
      BY <1>5, <1>10, <2>4 DEF Wakers, Keeps
    <3> QED
      BY <1>0, <1>2, <2>4, <3>1 DEF OneWaker
  <2> QED
    BY <2>2, <2>3, <2>4
<1>17. \A i \in 1 .. n : /\ queue'[i + 1] = queue[i] /\ Block'[queue'[i + 1]] = Block[queue[i]]
                         /\ i + 1 \in 1 .. n + 1
  BY <1>4, <1>7, <1>8 DEF Keeps
<1>18. \A i \in 1 .. n + 1 : i = 1 \/ (i - 1 \in 1 .. n /\ (i - 1) + 1 = i)
  BY <1>7
<1>19. LinksMatchQueue'
  <2>1. ASSUME NEW i \in 1 .. Len(queue') - 1 PROVE Block'[queue'[i]].Next = queue'[i + 1]
    <3>1. n >= 1 /\ i \in 1 .. n /\ i \in 1 .. n + 1 /\ PushLock.Waiting
      BY <1>7, <1>8, <1>10, <2>1
    <3>2. CASE i = 1
      BY <1>3, <1>4, <1>8, <1>9, <3>1, <3>2
    <3>3. CASE i # 1
      <4>1. i - 1 \in 1 .. n /\ (i - 1) + 1 = i /\ i - 1 \in 1 .. Len(queue) - 1
        BY <1>7, <3>1, <3>3 DEF n
      <4>2. Block[queue[i - 1]].Next = queue[(i - 1) + 1]
        BY <1>1, <4>1 DEF LinksMatchQueue
      <4>3. Block'[queue'[(i - 1) + 1]] = Block[queue[i - 1]]
        BY <1>17, <4>1
      <4>4. queue'[i + 1] = queue[i]
        BY <1>17, <3>1
      <4> QED
        BY <4>1, <4>2, <4>3, <4>4
    <3> QED
      BY <3>2, <3>3
  <2>2. \E i \in DOMAIN queue' :
            /\ FirstWithLast(i)' /\ Block'[queue'[i]].Last = Oldest'
            /\ \A j \in i + 1 .. Len(queue') : Block'[queue'[j]].Previous = queue'[j - 1]
    <3>1. CASE PushLock.Waiting
      <4>1. PICK i \in 1 .. n :
                /\ FirstWithLast(i) /\ Block[queue[i]].Last = Oldest
                /\ \A j \in i + 1 .. n : Block[queue[j]].Previous = queue[j - 1]
        BY <1>1, <1>7, <1>9, <3>1 DEF LinksMatchQueue, n
      <4>2. i + 1 \in DOMAIN queue' /\ i \in Nat
        BY <1>8, <1>17, <4>1
      <4>3. FirstWithLast(i + 1)'
        <5>1. Block'[queue'[i + 1]].Last # NULL
          BY <1>17, <4>1 DEF FirstWithLast
        <5>2. ASSUME NEW j \in 1 .. (i + 1) - 1 PROVE Block'[queue'[j]].Last = NULL
          <6>1. j = 1 \/ (j - 1 \in 1 .. i - 1 /\ j - 1 \in 1 .. n /\ (j - 1) + 1 = j)
            BY <1>7, <4>1, <5>2
          <6>2. CASE j = 1
            BY <1>3, <1>4, <1>8, <3>1, <6>2
          <6>3. CASE j # 1
            <7>1. Block[queue[j - 1]].Last = NULL
              BY <4>1, <6>1, <6>3 DEF FirstWithLast
            <7> QED
              BY <1>17, <6>1, <6>3, <7>1
          <6> QED
            BY <6>2, <6>3
        <5> QED
          BY <5>1, <5>2 DEF FirstWithLast
      <4>4. Block'[queue'[i + 1]].Last = Oldest'
        BY <1>11, <1>17, <3>1, <4>1
      <4>5. ASSUME NEW j \in (i + 1) + 1 .. Len(queue') PROVE Block'[queue'[j]].Previous = queue'[j - 1]
        <5>1. /\ j - 1 \in i + 1 .. n /\ j - 1 \in 1 .. n /\ (j - 1) + 1 = j
              /\ (j - 1) - 1 \in 1 .. n /\ ((j - 1) - 1) + 1 = j - 1
          BY <1>7, <1>8, <4>1, <4>5
        <5>2. Block[queue[j - 1]].Previous = queue[(j - 1) - 1]
          BY <4>1, <5>1
        <5>3. queue'[((j - 1) - 1) + 1] = queue[(j - 1) - 1] /\ Block'[queue'[(j - 1) + 1]] = Block[queue[j - 1]]
          BY <1>17, <5>1
        <5> QED
          BY <5>1, <5>2, <5>3
      <4> QED
        BY <4>2, <4>3, <4>4, <4>5
    <3>2. CASE ~PushLock.Waiting
      <4>1. 1 \in DOMAIN queue' /\ 1 .. 1 - 1 = {} /\ 1 + 1 .. Len(queue') = {}
        BY <1>8, <1>10, <3>2
      <4>2. Block'[queue'[1]].Last = t /\ t # NULL
        BY <1>3, <1>4, <1>8, <3>2, NullAssumption
      <4>3. FirstWithLast(1)'
        BY <4>1, <4>2 DEF FirstWithLast
      <4> QED
        BY <1>11, <3>2, <4>1, <4>2, <4>3
    <3> QED
      BY <3>1, <3>2
  <2>3. /\ PushLock'.Waiting <=> queue' # <<>>
        /\ PushLock'.Block = IF queue' = <<>> THEN NULL ELSE queue'[1]
    BY <1>0, <1>2, <1>8
  <2> QED
    BY <2>1, <2>2, <2>3 DEF LinksMatchQueue
<1>20. ListShape'
  <2>1. Block'[queue'[1]].Previous = NULL
    BY <1>3, <1>4, <1>8
  <2>2. ASSUME PushLock'.MultipleShared
        PROVE  /\ \A i \in DOMAIN queue' : Block'[queue'[i]].Last \in {NULL, Oldest'}
               /\ Block'[Oldest'].Last = Oldest'
    <3>1. CASE PushLock.Waiting
      <4>1. /\ PushLock.MultipleShared /\ \A i \in 1 .. n : Block[queue[i]].Last \in {NULL, Oldest}
            /\ Block[Oldest].Last = Oldest
        BY <1>0, <1>1, <1>2, <1>7, <2>2, <3>1 DEF ListShape
      <4>2. ASSUME NEW i \in 1 .. n + 1 PROVE Block'[queue'[i]].Last \in {NULL, Oldest'}
        <5>1. CASE i = 1
          BY <1>3, <1>4, <1>8, <3>1, <5>1
        <5>2. CASE i # 1
          <6>1. i - 1 \in 1 .. n /\ (i - 1) + 1 = i
            BY <1>18, <5>2
          <6>2. Block'[queue'[(i - 1) + 1]] = Block[queue[i - 1]]
            BY <1>17, <6>1
          <6> QED
            BY <1>11, <3>1, <4>1, <6>1, <6>2
        <5> QED
          BY <5>1, <5>2
      <4>3. Block'[Oldest'] = Block[Oldest]
        BY <1>4, <1>11, <3>1 DEF Keeps
      <4> QED
        BY <1>8, <1>11, <3>1, <4>1, <4>2, <4>3
    <3>2. CASE ~PushLock.Waiting
      <4>1. \A i \in DOMAIN queue' : i = 1
        BY <1>8, <1>10, <3>2
      <4> QED
        BY <1>3, <1>4, <1>8, <1>11, <3>2, <4>1
    <3> QED
      BY <3>1, <3>2
  <2>3. ASSUME NEW b \in Threads, Block'[b].ShareCount # 0 PROVE PushLock'.MultipleShared /\ b = Oldest'
    <3>1. CASE b = t
      <4>1. ~PushLock.Waiting /\ PushLock.Shared > 1
        BY <1>3, <1>4, <2>3, <3>1
      <4> QED
        BY <1>0, <1>2, <1>11, <3>1, <4>1
    <3>2. CASE b # t
      <4>1. Block[b].ShareCount # 0
        BY <1>4, <2>3, <3>2 DEF Keeps
      <4>2. PushLock.MultipleShared /\ b = Oldest
        BY <1>1, <4>1 DEF ListShape
      <4>3. PushLock.Waiting
        BY <1>10, <4>2
      <4> QED
        BY <1>0, <1>2, <1>11, <4>2, <4>3
    <3> QED
      BY <3>1, <3>2
  <2> QED
    BY <2>1, <2>2, <2>3 DEF ListShape
<1>21. WakersInList'
  <2>1. ASSUME NEW u \in Wakers', u # t PROVE WakerInList(u)'
    <3>1. u \in Threads /\ pc'[u] = pc[u] /\ frame'[u] = frame[u]
      BY <1>5, <2>1 DEF Wakers, Keeps
    <3>2. u \in Wakers
      BY <2>1, <3>1 DEF Wakers
    <3>3. PushLock.Waiting /\ WakerInList(u)
      BY <1>10, <3>2 DEF PushInv, WakersInList, WakerInList
    <3>4. PushLock'.MultipleShared => pc'[u] \in {"optimizeWalk", "optimizeDone"}
      BY <1>0, <1>2, <3>1, <3>3 DEF WakerInList
    <3>5. ASSUME pc[u] # "clearWaking" PROVE \E k \in DOMAIN queue' : WakerAt(u, k)'
      <4>1. PICK k \in 1 .. n : WakerAt(u, k)
        BY <1>7, <3>3, <3>5 DEF WakerInList
      <4>2. k + 1 \in DOMAIN queue' /\ First(u)' = First(u) /\ Cursor(u)' = Cursor(u)
        BY <1>8, <1>17, <3>1 DEF First, Cursor
      <4>3. First(u)' = queue'[k + 1] /\ Block'[queue'[k + 1]].Previous = NULL
        BY <1>17, <4>1, <4>2 DEF WakerAt
      <4>4. ASSUME NEW j \in 1 .. (k + 1) - 1 PROVE Block'[queue'[j]].Last = NULL
        <5>1. j = 1 \/ (j - 1 \in 1 .. k - 1 /\ j - 1 \in 1 .. n /\ (j - 1) + 1 = j)
          BY <1>7, <4>1, <4>4
        <5>2. CASE j = 1
          BY <1>3, <1>4, <1>8, <3>3, <5>2
        <5>3. CASE j # 1
          <6>1. Block[queue[j - 1]].Last = NULL
            BY <4>1, <5>1, <5>3 DEF WakerAt
          <6> QED
            BY <1>17, <5>1, <5>3, <6>1
        <5> QED
          BY <5>2, <5>3
      <4>5. InSeq(Cursor(u)', queue')
        <5>1. PICK i \in 1 .. n : queue[i] = Cursor(u)
          BY <1>7, <4>1 DEF WakerAt, InSeq
        <5> QED
          BY <1>8, <1>17, <4>2, <5>1 DEF InSeq
      <4>6. ASSUME NEW m \in k .. n, \A j \in k + 1 .. m : Block[queue[j]].Previous = queue[j - 1],
                   NEW j \in (k + 1) + 1 .. m + 1
            PROVE  Block'[queue'[j]].Previous = queue'[j - 1]
        <5>1. /\ j - 1 \in k + 1 .. m /\ j - 1 \in 1 .. n /\ (j - 1) + 1 = j
              /\ (j - 1) - 1 \in 1 .. n /\ ((j - 1) - 1) + 1 = j - 1
          BY <1>7, <4>1, <4>6
        <5>2. Block[queue[j - 1]].Previous = queue[(j - 1) - 1]
          BY <4>6, <5>1
        <5>3. queue'[((j - 1) - 1) + 1] = queue[(j - 1) - 1] /\ Block'[queue'[(j - 1) + 1]] = Block[queue[j - 1]]
          BY <1>17, <5>1
        <5> QED
          BY <5>1, <5>2, <5>3
      <4>7. ASSUME pc[u] \in {"optimizeWalk", "wakeWalk"}
            PROVE  \E m \in k + 1 .. Len(queue') :
                       /\ Cursor(u)' = queue'[m]
                       /\ \A j \in k + 1 .. m - 1 : Block'[queue'[j]].Last = NULL
                       /\ \A j \in (k + 1) + 1 .. m : Block'[queue'[j]].Previous = queue'[j - 1]
        <5>1. PICK m \in k .. n :
                  /\ Cursor(u) = queue[m]
                  /\ \A j \in k .. m - 1 : Block[queue[j]].Last = NULL
                  /\ \A j \in k + 1 .. m : Block[queue[j]].Previous = queue[j - 1]
          BY <4>1, <4>7 DEF WakerAt, n
        <5>2. m \in 1 .. n /\ m + 1 \in k + 1 .. Len(queue')
          BY <1>7, <1>8, <4>1, <5>1
        <5>3. Cursor(u)' = queue'[m + 1]
          BY <1>17, <4>2, <5>1, <5>2
        <5>4. ASSUME NEW j \in k + 1 .. (m + 1) - 1 PROVE Block'[queue'[j]].Last = NULL
          <6>1. j - 1 \in k .. m - 1 /\ j - 1 \in 1 .. n /\ (j - 1) + 1 = j
            BY <1>7, <4>1, <5>1, <5>4
          <6>2. Block[queue[j - 1]].Last = NULL
            BY <5>1, <6>1
          <6> QED
            BY <1>17, <6>1, <6>2
        <5>5. \A j \in (k + 1) + 1 .. m + 1 : Block'[queue'[j]].Previous = queue'[j - 1]
          BY <4>6, <5>1
        <5> QED
          BY <5>2, <5>3, <5>4, <5>5
      <4>8. ASSUME pc[u] = "wakePick"
            PROVE  /\ Cursor(u)' = Oldest'
                   /\ \A j \in (k + 1) + 1 .. Len(queue') : Block'[queue'[j]].Previous = queue'[j - 1]
        <5>1. Cursor(u) = Oldest /\ \A j \in k + 1 .. n : Block[queue[j]].Previous = queue[j - 1]
          BY <4>1, <4>8 DEF WakerAt, n
        <5>2. n \in k .. n
          BY <1>7, <4>1
        <5>3. \A j \in (k + 1) + 1 .. n + 1 : Block'[queue'[j]].Previous = queue'[j - 1]
          BY <4>6, <5>1, <5>2
        <5> QED
          BY <1>8, <1>11, <3>3, <4>2, <5>1, <5>3
      <4>9. WakerAt(u, k + 1)'
        BY <3>1, <4>3, <4>4, <4>5, <4>7, <4>8 DEF WakerAt
      <4> QED
        BY <4>2, <4>9
    <3> QED
      BY <3>1, <3>3, <3>4, <3>5 DEF WakerInList
  <2>2. ASSUME t \in Wakers' PROVE WakerInList(t)'
    <3>1. /\ pc'[t] = "optimizeWalk" /\ PushLock.Waiting
          /\ frame'[t].WakeValue = v /\ frame'[t].WaitBlock = v.Block
      BY <1>5, <2>2 DEF Wakers
    <3>2. CASE v = QueuedWord(t)
      <4>1. v = PushLock' /\ PushLock'.Waiting /\ PushLock'.Locked
        BY <1>0, <1>2, <3>2 DEF w
      <4> QED
        BY <1>12, <1>19, <1>20, <3>1, <4>1, WalkBegins
    <3>3. CASE v = Old(t)
      <4>1. v = PushLock /\ v.Waiting /\ v.Locked /\ v.Block = queue[1] /\ n >= 1
        BY <1>0, <1>9, <3>1, <3>3
      <4>2. 1 \in 1 .. n /\ 1 + 1 = 2 /\ 2 \in DOMAIN queue' /\ 2 \in 2 .. Len(queue')
            /\ 2 .. 2 - 1 = {} /\ 2 + 1 .. 2 = {} /\ 1 .. 2 - 1 = {1}
        BY <1>7, <1>8, <4>1
      <4>3. queue'[2] = queue[1] /\ Block'[queue'[2]] = Block[queue[1]]
        BY <1>17, <4>2
      <4>4. First(t)' = queue'[2] /\ Cursor(t)' = queue'[2]
        BY <3>1, <4>1, <4>3 DEF First, Cursor
      <4>5. Block'[queue'[2]].Previous = NULL
        BY <1>1, <1>9, <3>1, <4>3 DEF ListShape
      <4>6. Block'[queue'[1]].Last = NULL
        BY <1>3, <1>4, <1>8, <3>1
      <4>7. InSeq(Cursor(t)', queue')
        BY <4>2, <4>4 DEF InSeq
      <4>8. WakerAt(t, 2)'
        BY <3>1, <4>2, <4>4, <4>5, <4>6, <4>7 DEF WakerAt
      <4> QED
        BY <3>1, <4>1, <4>2, <4>8 DEF WakerInList
    <3> QED
      BY <3>2, <3>3
  <2> QED
    BY <2>1, <2>2 DEF WakersInList, WakerInList
<1>22. \A u \in Threads : \A i \in DOMAIN taken[u] : taken[u][i] \in Threads /\ taken[u][i] # t
  BY <1>1, <1>6 DEF Pending, InSeq, TypeOK
<1>23. SignalsWhatItTook'
  <2>1. ASSUME NEW u \in Threads, pc'[u] \in {"clearWaking", "signal"}
        PROVE  taken'[u] # <<>> /\ Cursor(u)' = taken'[u][1]
    <3>1. u # t /\ pc'[u] = pc[u] /\ frame'[u] = frame[u] /\ taken'[u] = taken[u]
      BY <1>0, <1>5, <2>1 DEF Keeps
    <3> QED
      BY <2>1, <3>1 DEF PushInv, ListIntact, SignalsWhatItTook, Cursor
  <2>2. ASSUME NEW u \in Threads, NEW i \in DOMAIN taken'[u]
        PROVE  Block'[taken'[u][i]].Previous = IF i < Len(taken'[u]) THEN taken'[u][i + 1] ELSE NULL
    <3>1. taken'[u] = taken[u] /\ i \in DOMAIN taken[u]
      BY <1>0, <2>2
    <3>2. Block'[taken[u][i]].Previous = Block[taken[u][i]].Previous
      BY <1>4, <1>22, <3>1 DEF Keeps
    <3>3. Block[taken[u][i]].Previous = IF i < Len(taken[u]) THEN taken[u][i + 1] ELSE NULL
      BY <3>1 DEF PushInv, ListIntact, SignalsWhatItTook
    <3> QED
      BY <3>1, <3>2, <3>3
  <2> QED
    BY <2>1, <2>2 DEF SignalsWhatItTook
<1>24. \A u \in Threads : u # t => (BlockInUse(u)' <=> BlockInUse(u))
  BY <1>5 DEF BlockInUse, Keeps
<1>25. NoWaiterLost'
  <2>1. ASSUME NEW b \in Threads PROVE Pending(b)' <=> BlockInUse(b)' /\ ~Block'[b].Signaled
    <3>1. Pending(b)' <=> b = t \/ Pending(b)
      BY <1>0, <1>8 DEF Pending
    <3>2. CASE b = t
      BY <1>3, <1>4, <1>6, <3>1, <3>2
    <3>3. CASE b # t
      <4>1. Block'[b] = Block[b]
        BY <1>4, <3>3 DEF Keeps
      <4>2. Pending(b) <=> BlockInUse(b) /\ ~Block[b].Signaled
        BY DEF PushInv, ListIntact, NoWaiterLost
      <4> QED
        BY <1>24, <3>1, <3>3, <4>1, <4>2
    <3> QED
      BY <3>2, <3>3
  <2>2. ASSUME NEW u \in Threads
        PROVE  /\ Distinct(taken'[u])
               /\ taken'[u] # <<>> => pc'[u] \in {"clearWaking", "signal", "signalGate"}
               /\ \A i \in DOMAIN taken'[u] :
                      /\ ~InSeq(taken'[u][i], queue')
                      /\ \A z \in Threads \ {u} : ~InSeq(taken'[u][i], taken'[z])
    <3>1. /\ Distinct(taken[u])
          /\ taken[u] # <<>> => pc[u] \in {"clearWaking", "signal", "signalGate"}
          /\ \A i \in DOMAIN taken[u] :
                 /\ ~InSeq(taken[u][i], queue)
                 /\ \A z \in Threads \ {u} : ~InSeq(taken[u][i], taken[z])
      BY DEF PushInv, ListIntact, NoWaiterLost
    <3>2. taken[u] # <<>> => pc'[u] = pc[u]
      BY <1>5, <3>1 DEF Keeps
    <3>3. \A i \in DOMAIN taken[u] : ~InSeq(taken[u][i], queue')
      BY <1>8, <1>22, <3>1
    <3> QED
      BY <1>0, <3>1, <3>2, <3>3
  <2> QED
    BY <1>8, <2>1, <2>2 DEF NoWaiterLost
<1>26. SignalsInUse'
  <2>1. \A u \in Threads : pc'[u] = "signalGate" =>
            /\ u # t /\ pc[u] = "signalGate" /\ frame'[u] = frame[u] /\ Cursor(u)' = Cursor(u)
            /\ Cursor(u) # NULL /\ pc[Cursor(u)] = "gate" /\ Cursor(u) # t /\ Cursor(u) \in Threads
    <3>1. ASSUME NEW u \in Threads, pc'[u] = "signalGate"
          PROVE  /\ u # t /\ pc[u] = "signalGate" /\ frame'[u] = frame[u] /\ Cursor(u)' = Cursor(u)
      BY <1>5, <3>1 DEF Keeps, Cursor
    <3>2. \A u \in Threads : Cursor(u) \in Threads \cup {NULL}
      BY <1>1 DEF TypeOK, FrameType, Cursor
    <3>3. \A u \in Threads : pc[u] = "signalGate" => Cursor(u) # NULL /\ pc[Cursor(u)] = "gate"
      BY DEF PushInv, SignalsInUse
    <3> QED
      BY <3>1, <3>2, <3>3
  <2>2. ASSUME NEW u \in Threads
        PROVE  /\ BlockInUse(u)' => (Block'[u].Wait <=> pc'[u] # "gate" /\ ~Block'[u].Signaled)
               /\ gate'[u] => pc'[u] = "gate" /\ Block'[u].Signaled
    <3>1. CASE u = t
      BY <1>3, <1>4, <1>5, <3>1
    <3>2. CASE u # t
      BY <1>4, <1>5, <1>24, <3>2 DEF PushInv, SignalsInUse, Keeps
    <3> QED
      BY <3>1, <3>2
  <2>3. ASSUME NEW u \in Threads, pc'[u] = "signalGate"
        PROVE  /\ Cursor(u)' # NULL /\ pc'[Cursor(u)'] = "gate"
               /\ Block'[Cursor(u)'].Signaled /\ ~gate'[Cursor(u)']
               /\ frame'[u].PreviousWaitBlock = IF taken'[u] = <<>> THEN NULL ELSE taken'[u][1]
    <3>1. /\ u # t /\ pc[u] = "signalGate" /\ frame'[u] = frame[u] /\ Cursor(u)' = Cursor(u)
          /\ Cursor(u) \in Threads /\ Cursor(u) # t
      BY <2>1, <2>3
    <3>2. /\ Cursor(u) # NULL /\ pc[Cursor(u)] = "gate"
          /\ Block[Cursor(u)].Signaled /\ ~gate[Cursor(u)]
          /\ frame[u].PreviousWaitBlock = IF taken[u] = <<>> THEN NULL ELSE taken[u][1]
      BY <3>1 DEF PushInv, SignalsInUse
    <3>3. /\ pc'[Cursor(u)] = pc[Cursor(u)] /\ Block'[Cursor(u)] = Block[Cursor(u)]
          /\ gate'[Cursor(u)] = gate[Cursor(u)]
      BY <1>4, <1>5, <3>1 DEF Keeps
    <3> QED
      BY <1>0, <3>1, <3>2, <3>3
  <2>4. ASSUME NEW a \in Threads, NEW b \in Threads, pc'[a] = "signalGate", pc'[b] = "signalGate",
               Cursor(a)' = Cursor(b)'
        PROVE  a = b
    BY <2>1, <2>4 DEF PushInv, SignalsInUse
  <2> QED
    BY <2>2, <2>3, <2>4 DEF SignalsInUse
<1> QED
  BY <1>12, <1>14, <1>15, <1>16, <1>19, <1>20, <1>21, <1>23, <1>25, <1>26 DEF PushInv, ListIntact

LEMMA QueueInv ==
    ASSUME PushInv, NEW t \in Threads, QueueExclusive(t) \/ QueueShared(t)
    PROVE  PushInv'
<1>1. pc[t] = "acquire"
  BY DEF QueueExclusive, QueueShared
<1>2. CASE Retry(t)
  BY <1>1, <1>2, RetryInv
<1>3. CASE QueueExclusive(t) /\ ~Retry(t)
  BY <1>1, <1>3, EnqueueInv DEF QueueExclusive
<1>4. CASE QueueShared(t) /\ ~Retry(t)
  <2>1. Old(t) \in WordType
    BY DEF PushInv, TypeOK, FrameType, Old
  <2>2. Old(t).Locked /\ (Old(t).Waiting \/ Old(t).Shared = 0)
    BY <1>4, <2>1 DEF QueueShared, SharedMayEnter, WordType
  <2> QED
    BY <1>1, <1>4, <2>2, EnqueueInv DEF QueueShared
<1> QED
  BY <1>2, <1>3, <1>4

-----------------------------------------------------------------------------
(* The invariant holds at first and every step keeps it.                   *)

LEMMA InitInv == Init => PushInv
<1> SUFFICES ASSUME Init PROVE PushInv
  OBVIOUS
<1>1. /\ PushLock = Free /\ Block = [t \in Threads |-> NoBlock] /\ gate = [t \in Threads |-> FALSE]
      /\ held = [t \in Threads |-> "none"] /\ pc = [t \in Threads |-> "idle"]
      /\ frame = [t \in Threads |-> NoFrame] /\ queue = <<>> /\ taken = [t \in Threads |-> <<>>]
  BY DEF Init
<1>2. /\ PushLock.Locked = FALSE /\ PushLock.Waiting = FALSE /\ PushLock.Waking = FALSE
      /\ PushLock.MultipleShared = FALSE /\ PushLock.Shared = 0 /\ PushLock.Block = NULL
  BY <1>1 DEF Free
<1>3. \A t \in Threads : /\ held[t] = "none" /\ pc[t] = "idle" /\ frame[t].call = "none"
                         /\ Block[t].ShareCount = 0 /\ gate[t] = FALSE /\ taken[t] = <<>>
  BY <1>1, NoFrameType DEF NoBlock
<1>4. TypeOK
  <2>1. "idle" \in Labels /\ "none" \in Modes
    BY DEF Labels, Modes
  <2>2. <<>> \in Seq(Threads)
    OBVIOUS
  <2> QED
    BY <1>1, <2>1, <2>2, FreeType, NoBlockType, NoFrameType DEF TypeOK
<1>5. Sharers = {} /\ LastSharer = {} /\ Wakers = {}
  BY <1>3 DEF Sharers, LastSharer, Wakers
<1>6. WordExact /\ CountsHolders
  <2>1. Cardinality({}) = 0
    BY FS_EmptySet
  <2>2. WordExact
    BY <1>2, <1>3, <1>5 DEF WordExact
  <2> QED
    BY <1>2, <1>3, <1>5, <2>1, <2>2 DEF CountsHolders
<1>7. \A t \in Threads : CallInUse(t) /\ ReleaserSees(t)
  BY <1>3 DEF CallInUse, ReleaserSees
<1>8. OneWaker /\ WakersInList
  BY <1>2, <1>5 DEF OneWaker, WakersInList
<1>9. LinksMatchQueue /\ ListShape
  <2>1. Len(queue) = 0 /\ 1 .. Len(queue) - 1 = {}
    BY <1>1
  <2> QED
    BY <1>1, <1>2, <1>3, <2>1 DEF LinksMatchQueue, ListShape
<1>10. SignalsWhatItTook
  BY <1>3 DEF SignalsWhatItTook
<1>11. NoWaiterLost
  <2>1. \A b \in Threads : ~Pending(b) /\ ~BlockInUse(b)
    BY <1>1, <1>3 DEF Pending, InSeq, BlockInUse, Acquiring
  <2> QED
    BY <1>1, <1>3, <2>1 DEF NoWaiterLost, Distinct
<1>12. SignalsInUse
  BY <1>3 DEF SignalsInUse, BlockInUse, Acquiring
<1> QED
  BY <1>4, <1>6, <1>7, <1>8, <1>9, <1>10, <1>11, <1>12 DEF PushInv, ListIntact

LEMMA BeginInv ==
    ASSUME PushInv, NEW t \in Threads, Begin(t)
    PROVE  PushInv'
<1>1. ExAcquirePushLockExclusive(t) => PushInv'
  BY SetLockInv, SlowPathInv DEF ExAcquirePushLockExclusive, Call, Acquiring
<1>2. ExTryToAcquirePushLockExclusive(t) => PushInv'
  BY SetLockInv DEF ExTryToAcquirePushLockExclusive, Call
<1>3. ExAcquirePushLockShared(t) => PushInv'
  BY AcquireSharedFastInv, SlowPathInv DEF ExAcquirePushLockShared, Call, Acquiring
<1>4. ExWaitOnPushLock(t) => PushInv'
  BY SlowPathInv DEF ExWaitOnPushLock, Call, Acquiring, memory
<1> QED
  BY <1>1, <1>2, <1>3, <1>4, ConvertInv DEF Begin

LEMMA NextInv ==
    ASSUME PushInv, [Next]_vars
    PROVE  PushInv'
<1>1. CASE UNCHANGED vars
  BY <1>1, StutterInv
<1>2. ASSUME NEW t \in Threads, Begin(t) PROVE PushInv'
  BY <1>2, BeginInv
<1>3. ASSUME NEW t \in Threads, BeginRelease(t) PROVE PushInv'
  BY <1>3, ReleaseSharedInv, ReleaseExclusiveInv, ReleaseBeginsInv DEF BeginRelease
<1>4. ASSUME NEW t \in Threads, AcquireStep(t) PROVE PushInv'
  BY <1>4, ReadWordInv, LockExclusiveInv, LockSharedInv, QueueInv, TestWaitInv, KeWaitForGateInv
     DEF AcquireStep
<1>5. ASSUME NEW t \in Threads, WakeStep(t) PROVE PushInv'
  BY <1>5, OptimizeWalkInv, OptimizeDoneInv, WakeLockedInv, WakeWalkInv, WakeAllInv, WakeLastInv,
     ClearWakingInv, SignalInv, SignalGateInv DEF WakeStep
<1>6. ASSUME NEW t \in Threads, ReleaseStep(t) PROVE PushInv'
  BY <1>6, TryReleaseInv, ReleaseUnwaitedInv, ReleaseWalkInv, ReleaseCountInv, UnlockInv,
     WaitOnReleaseInv, TryToWakeInv, TryWakeSetInv DEF ReleaseStep
<1> QED
  BY <1>1, <1>2, <1>3, <1>4, <1>5, <1>6 DEF Next, Continue

-----------------------------------------------------------------------------
(* What the invariant says about the state.                                *)

LEMMA InvTouchesLiveBlocks == PushInv => TouchesLiveBlocks
<1> SUFFICES ASSUME PushInv, NEW t \in Threads
             PROVE  /\ pc[t] \in Walking \/ (AtRelease(t) /\ Old(t).Waiting /\ Old(t).MultipleShared) =>
                           Cursor(t) # NULL /\ BlockInUse(Cursor(t))
                    /\ pc[t] \in {"optimizeWalk", "wakePick"} => BlockInUse(First(t))
  BY DEF TouchesLiveBlocks
<1>1. \A b \in Threads : Pending(b) => BlockInUse(b) /\ b # NULL
  BY NullAssumption DEF PushInv, ListIntact, NoWaiterLost
<1>2. \A b : InSeq(b, queue) => b \in Threads /\ Pending(b)
  BY QueueFacts DEF PushInv, InSeq, Pending
<1>3. CASE pc[t] \in {"optimizeWalk", "optimizeDone", "wakeWalk", "wakePick"}
  <2>1. pc[t] \in WakerLabels
    BY <1>3 DEF WakerLabels
  <2>2. \E k \in DOMAIN queue : WakerAt(t, k)
    BY <1>3, <2>1, WakerFacts DEF WakerInList
  <2>3. InSeq(Cursor(t), queue) /\ InSeq(First(t), queue)
    BY <2>2 DEF WakerAt, InSeq
  <2> QED
    BY <1>1, <1>2, <2>3
<1>4. CASE pc[t] \in {"clearWaking", "signal"}
  <2>1. taken[t] # <<>> /\ Cursor(t) = taken[t][1] /\ taken[t] \in Seq(Threads)
    BY <1>4 DEF PushInv, TypeOK, ListIntact, SignalsWhatItTook
  <2>2. 1 \in DOMAIN taken[t] /\ Cursor(t) \in Threads
    BY <2>1, TailFacts
  <2>3. Pending(Cursor(t))
    BY <2>1, <2>2 DEF Pending, InSeq
  <2> QED
    BY <1>1, <1>4, <2>2, <2>3 DEF AtRelease
<1>5. CASE pc[t] = "signalGate"
  <2>1. Cursor(t) # NULL /\ pc[Cursor(t)] = "gate" /\ Cursor(t) \in Threads
    BY <1>5 DEF PushInv, TypeOK, FrameType, Cursor, SignalsInUse
  <2>2. frame[Cursor(t)].call \in Acquiring
    BY <2>1 DEF PushInv, CallInUse
  <2> QED
    BY <1>5, <2>1, <2>2 DEF BlockInUse
<1>6. CASE pc[t] = "releaseCount"
  <2>1. Cursor(t) = Oldest /\ Oldest \in Threads /\ queue # <<>>
    BY <1>6, CounterFacts
  <2>2. InSeq(Cursor(t), queue)
    BY <2>1, QueueFacts DEF PushInv, InSeq, Oldest
  <2> QED
    BY <1>1, <1>2, <1>6, <2>2
<1>7. CASE AtRelease(t) /\ Old(t).Waiting /\ Old(t).MultipleShared
  <2>1. pc[t] = "release" /\ InSeq(Cursor(t), queue)
    BY <1>7 DEF AtRelease, PushInv, ReleaserSees
  <2> QED
    BY <1>1, <1>2, <2>1
<1> QED
  BY <1>3, <1>4, <1>5, <1>6, <1>7 DEF Walking

LEMMA InvSanityChecks == PushInv => SanityChecks
<1> SUFFICES ASSUME PushInv, NEW t \in Threads
             PROVE  /\ pc[t] \in {"wakeLocked", "wakeWalk"} => ~frame[t].WakeValue.MultipleShared
                    /\ pc[t] = "wakeLocked" => frame[t].WakeValue.Waiting
                    /\ pc[t] = "wakePick" /\ ~WakesAll(t) => First(t) # Cursor(t) /\ PushLock.Waiting
                    /\ pc[t] = "signal" => ~Block[Cursor(t)].Signaled
                    /\ pc[t] = "gate" /\ gate[t] => Block[t].Signaled
                    /\ (pc[t] = "gate" /\ gate[t]) \/ (pc[t] = "testWait" /\ ~Block[t].Wait) =>
                           Block[t].ShareCount = 0
                    /\ pc[t] = "releaseCount" => Block[Cursor(t)].ShareCount > 0 /\ Block[Cursor(t)].Exclusive
                    /\ pc[t] \in {"tryRelease", "release"} => Old(t).Locked
                    /\ pc[t] = "release" /\ frame[t].call = "ReleaseWaitOn" =>
                           Old(t).Waiting \/ Old(t).Shared = 0
                    /\ pc[t] = "idle" /\ held[t] = "exclusive" => PushLock.Waiting \/ PushLock.Shared = 0
  BY DEF SanityChecks
<1>1. ASSUME pc[t] \in {"wakeLocked", "wakeWalk"}
      PROVE  ~frame[t].WakeValue.MultipleShared /\ frame[t].WakeValue.Waiting
  <2>1. pc[t] \in WakerLabels /\ pc[t] # "clearWaking"
    BY <1>1 DEF WakerLabels
  <2> QED
    BY <1>1, <2>1, WakerFacts DEF WakerInList
<1>2. ASSUME pc[t] = "wakePick", ~WakesAll(t) PROVE First(t) # Cursor(t) /\ PushLock.Waiting
  <2>1. PushLock.Waiting /\ \E k \in DOMAIN queue : First(t) = queue[k] /\ Block[queue[k]].Previous = NULL
    BY <1>2, PickFacts
  <2> QED
    BY <1>2, <2>1 DEF WakesAll
<1>3. ASSUME pc[t] = "signal" PROVE ~Block[Cursor(t)].Signaled
  <2>1. taken[t] # <<>> /\ Cursor(t) = taken[t][1] /\ taken[t] \in Seq(Threads)
    BY <1>3 DEF PushInv, TypeOK, ListIntact, SignalsWhatItTook
  <2>2. 1 \in DOMAIN taken[t] /\ Cursor(t) \in Threads
    BY <2>1, TailFacts
  <2>3. Pending(Cursor(t))
    BY <2>1, <2>2 DEF Pending, InSeq
  <2> QED
    BY <2>2, <2>3 DEF PushInv, ListIntact, NoWaiterLost
<1>4. ASSUME (pc[t] = "gate" /\ gate[t]) \/ (pc[t] = "testWait" /\ ~Block[t].Wait)
      PROVE  Block[t].Signaled /\ Block[t].ShareCount = 0
  <2>1. Block[t].Signaled
    <3>1. frame[t].call \in Acquiring /\ BlockInUse(t)
      BY <1>4 DEF PushInv, CallInUse, BlockInUse
    <3> QED
      BY <1>4, <3>1 DEF PushInv, SignalsInUse
  <2>2. ~Pending(t)
    BY <2>1, NotPending
  <2>3. ASSUME Block[t].ShareCount # 0 PROVE FALSE
    <3>1. PushLock.MultipleShared /\ t = Oldest
      BY <2>3 DEF PushInv, ListShape
    <3>2. queue # <<>>
      BY <3>1 DEF PushInv, WordExact, ListIntact, LinksMatchQueue
    <3>3. InSeq(t, queue)
      BY <3>1, <3>2, QueueFacts DEF PushInv, InSeq, Oldest
    <3> QED
      BY <2>2, <3>3 DEF Pending
  <2> QED
    BY <2>1, <2>3
<1>5. ASSUME pc[t] = "releaseCount" PROVE Block[Cursor(t)].ShareCount > 0 /\ Block[Cursor(t)].Exclusive
  <2>1. Block[Cursor(t)].ShareCount = Cardinality(Sharers) /\ Cardinality(Sharers) >= 1
        /\ Cursor(t) = Oldest /\ PushLock.MultipleShared
    BY <1>5, CounterFacts
  <2>2. Cardinality(Sharers) \in Nat
    BY SharersFinite
  <2> QED
    BY <2>1, <2>2 DEF PushInv, WordExact
<1>6. /\ pc[t] \in {"tryRelease", "release"} => Old(t).Locked
      /\ pc[t] = "release" /\ frame[t].call = "ReleaseWaitOn" => Old(t).Waiting \/ Old(t).Shared = 0
  BY DEF PushInv, ReleaserSees
<1>7. held[t] = "exclusive" => PushLock.Shared = 0
  BY ExclusiveAlone DEF PushInv
<1> QED
  BY <1>1, <1>2, <1>3, <1>4, <1>5, <1>6, <1>7

-----------------------------------------------------------------------------
(* Somebody is on the way to wake the waiters of a free lock.              *)

WakeNeeded == PushLock.Waiting /\ ~PushLock.Locked /\ ~PushLock.Waking

OnDuty(t) == \/ pc[t] = "tryWake"
             \/ pc[t] = "tryWakeSet" /\ PushLock = Old(t)
             \/ taken[t] # <<>>
             \/ AwakeAcquirer(t)

LEMMA DutyKept ==
    ASSUME WakeupPending, NEW t \in Threads, PushLock' = PushLock,
           Keeps(t, pc, pc'), Keeps(t, frame, frame'), Keeps(t, taken, taken'),
           \A u \in Threads : u # t => (Block[u].Signaled => Block'[u].Signaled),
           WakeNeeded /\ OnDuty(t) => \E u \in Threads : OnDuty(u)'
    PROVE  WakeupPending'
<1>1. SUFFICES ASSUME WakeNeeded PROVE \E u \in Threads : OnDuty(u)'
  BY DEF WakeupPending, WakeNeeded, OnDuty
<1>2. PICK u \in Threads : OnDuty(u)
  BY <1>1 DEF WakeupPending, WakeNeeded, OnDuty
<1>3. CASE u = t
  BY <1>1, <1>2, <1>3
<1>4. CASE u # t
  <2>1. /\ pc'[u] = pc[u] /\ frame'[u] = frame[u] /\ taken'[u] = taken[u]
        /\ Block[u].Signaled => Block'[u].Signaled
    BY <1>4 DEF Keeps
  <2>2. OnDuty(u)'
    BY <1>2, <2>1 DEF OnDuty, AwakeAcquirer, Old
  <2> QED
    BY <2>2
<1> QED
  BY <1>3, <1>4

LEMMA NotNeeded ==
    ASSUME ~WakeNeeded'
    PROVE  WakeupPending'
  BY DEF WakeNeeded, WakeupPending

LEMMA TakesDuty ==
    ASSUME NEW t \in Threads, OnDuty(t)'
    PROVE  WakeupPending'
  BY DEF OnDuty, WakeupPending

(* A thread that is not in an acquire, or is asleep in one, and has taken  *)
(* nothing off the list, has no duty.                                      *)
LEMMA OffDuty ==
    ASSUME PushInv, NEW t \in Threads, frame[t].call \notin Acquiring,
           pc[t] \notin {"tryWake", "tryWakeSet", "clearWaking", "signal", "signalGate"}
    PROVE  ~OnDuty(t)
  BY DEF PushInv, ListIntact, NoWaiterLost, OnDuty, AwakeAcquirer

LEMMA ReleaserCall ==
    ASSUME PushInv, NEW t \in Threads, pc[t] \in {"idle", "tryRelease", "release", "releaseCount", "unlock"}
    PROVE  frame[t].call \notin Acquiring
<1>1. CallInUse(t)
  BY DEF PushInv
<1> QED
  BY <1>1 DEF CallInUse, Acquiring

LEMMA BeginDuty ==
    ASSUME PushInv, WakeupPending, NEW t \in Threads, Begin(t)
    PROVE  WakeupPending'
<1>1. ASSUME SetLock(t, "exclusive") PROVE WakeupPending'
  <2>1. PushLock'.Locked
    BY <1>1 DEF SetLock, PushInv, TypeOK, WordType
  <2> QED
    BY <2>1, NotNeeded DEF WakeNeeded
<1>2. ASSUME PushLock' = SharedOnce \/ PushLock' = [Free EXCEPT !.Locked = TRUE] PROVE WakeupPending'
  <2>1. PushLock'.Locked
    BY <1>2 DEF SharedOnce, Free
  <2> QED
    BY <2>1, NotNeeded DEF WakeNeeded
<1>3. ASSUME NEW api \in Ops, pc[t] = "idle", SlowPath(t, api), UNCHANGED <<PushLock, Block, taken>>
      PROVE  WakeupPending'
  <2>1. Keeps(t, pc, pc') /\ Keeps(t, frame, frame')
    BY <1>3, SlowPathDoes DEF PushInv
  <2>2. ~OnDuty(t)
    BY <1>3, OffDuty, ReleaserCall
  <2>3. Keeps(t, taken, taken')
    BY <1>3 DEF Keeps
  <2> QED
    BY <1>3, <2>1, <2>2, <2>3, DutyKept
<1> QED
  BY <1>1, <1>2, <1>3 DEF Begin, ExAcquirePushLockExclusive, ExTryToAcquirePushLockExclusive,
     ExAcquirePushLockShared, ExConvertPushLockSharedToExclusive, ExWaitOnPushLock, Call, memory, history

LEMMA BeginReleaseDuty ==
    ASSUME PushInv, WakeupPending, NEW t \in Threads, BeginRelease(t)
    PROVE  WakeupPending'
<1>0. pc[t] = "idle"
  BY DEF BeginRelease, ExReleasePushLockShared, ExReleasePushLockExclusive, ExReleasePushLock, Call
<1>1. ~OnDuty(t)
  BY <1>0, OffDuty, ReleaserCall
<1>2. CASE ExReleasePushLockShared(t)
  <2>1. CASE PushLock' = Free
    <3>1. ~PushLock'.Waiting
      BY <2>1 DEF Free
    <3> QED
      BY <3>1, NotNeeded DEF WakeNeeded
  <2>2. CASE SlowPath(t, "ReleaseShared") /\ UNCHANGED <<PushLock, held>>
    <3>1. "ReleaseShared" \in Ops /\ UNCHANGED <<Block, taken>>
      BY <1>2 DEF ExReleasePushLockShared, Call, history
    <3>2. Keeps(t, pc, pc') /\ Keeps(t, frame, frame') /\ Keeps(t, taken, taken')
      BY <2>2, <3>1, SlowPathDoes DEF PushInv, Keeps
    <3> QED
      BY <1>1, <2>2, <3>1, <3>2, DutyKept
  <2> QED
    BY <1>2, <2>1, <2>2 DEF ExReleasePushLockShared
<1>3. CASE ExReleasePushLockExclusive(t)
  <2>1. /\ PushLock' = [PushLock EXCEPT !.Locked = FALSE]
        /\ PushLock.Waiting /\ ~PushLock.Waking => Goto(t, "tryWake")
    BY <1>3 DEF ExReleasePushLockExclusive
  <2>2. PushLock'.Waiting = PushLock.Waiting /\ PushLock'.Waking = PushLock.Waking
    BY <2>1 DEF PushInv, TypeOK, WordType
  <2>3. CASE PushLock.Waiting /\ ~PushLock.Waking
    <3>1. "tryWake" \in Labels
      BY DEF Labels
    <3>2. pc'[t] = "tryWake"
      BY <2>1, <2>3, <3>1, GotoDoes DEF PushInv, TypeOK
    <3>3. OnDuty(t)'
      BY <3>2 DEF OnDuty
    <3> QED
      BY <3>3, TakesDuty
  <2>4. CASE ~(PushLock.Waiting /\ ~PushLock.Waking)
    BY <2>2, <2>4, NotNeeded DEF WakeNeeded
  <2> QED
    BY <2>3, <2>4
<1>4. CASE ExReleasePushLock(t)
  <2>1. /\ frame' = [frame EXCEPT ![t] = [NoFrame EXCEPT !.call = "Release", !.OldValue = PushLock]]
        /\ \E label : pc' = [pc EXCEPT ![t] = label]
        /\ UNCHANGED <<PushLock, Block, taken>>
    BY <1>4 DEF ExReleasePushLock, Goto, memory, history
  <2>2. Keeps(t, pc, pc') /\ Keeps(t, frame, frame') /\ Keeps(t, taken, taken')
    BY <2>1 DEF PushInv, TypeOK, Keeps
  <2> QED
    BY <1>1, <2>1, <2>2, DutyKept
<1> QED
  BY <1>2, <1>3, <1>4 DEF BeginRelease

LEMMA RetryDuty ==
    ASSUME PushInv, WakeupPending, NEW t \in Threads, pc[t] \in {"acquire", "tryRelease"}, Retry(t)
    PROVE  WakeupPending'
<1>1. /\ UNCHANGED <<PushLock, Block, taken>> /\ Goto(t, "read")
      /\ frame' = [frame EXCEPT ![t].OldValue = Free]
  BY DEF Retry, memory, history
<1>2. "read" \in Labels
  BY DEF Labels
<1>3. Keeps(t, pc, pc') /\ pc'[t] = "read"
  BY <1>1, <1>2, GotoDoes DEF PushInv, TypeOK
<1>4. Keeps(t, frame, frame') /\ frame'[t].call = frame[t].call /\ Keeps(t, taken, taken')
  BY <1>1 DEF PushInv, TypeOK, FrameType, Keeps
<1>5. OnDuty(t) => OnDuty(t)'
  <2>1. SUFFICES ASSUME OnDuty(t) PROVE OnDuty(t)'
    OBVIOUS
  <2>2. frame[t].call \in Acquiring
    BY <2>1, OffDuty
  <2> QED
    BY <1>3, <1>4, <2>2 DEF OnDuty, AwakeAcquirer
<1> QED
  BY <1>1, <1>3, <1>4, <1>5, DutyKept

LEMMA AcquireDuty ==
    ASSUME PushInv, WakeupPending, NEW t \in Threads, AcquireStep(t)
    PROVE  WakeupPending'
<1>1. CASE ReadWord(t)
  <2> DEFINE label == IF frame[t].call \in Acquiring THEN "acquire" ELSE "release"
  <2>1. /\ UNCHANGED <<PushLock, Block, taken>> /\ Read(t) /\ pc[t] = "read" /\ Goto(t, label)
    BY <1>1 DEF ReadWord, memory, history
  <2>2. label \in Labels
    BY DEF Labels
  <2>3. Keeps(t, pc, pc') /\ pc'[t] = label
    <3> HIDE DEF label
    <3> QED
      BY <2>1, <2>2, GotoDoes DEF PushInv, TypeOK
  <2>4. Keeps(t, frame, frame') /\ frame'[t].call = frame[t].call /\ Keeps(t, taken, taken')
    BY <2>1, ReadDoes DEF PushInv, Keeps
  <2>5. OnDuty(t) => OnDuty(t)'
    <3>1. SUFFICES ASSUME OnDuty(t) PROVE OnDuty(t)'
      OBVIOUS
    <3>2. frame[t].call \in Acquiring
      BY <2>1, <3>1, OffDuty
    <3> QED
      BY <2>3, <2>4, <3>2 DEF OnDuty, AwakeAcquirer
  <2> QED
    BY <2>1, <2>3, <2>4, <2>5, DutyKept
<1>2. ASSUME NEW new \in WordType, new.Locked, NEW mode, TakeLock(t, new, mode) PROVE WakeupPending'
  BY <1>2, NotNeeded DEF TakeLock, WakeNeeded
<1>3. Old(t) \in WordType
  BY DEF PushInv, TypeOK, FrameType, Old
<1>4. CASE LockExclusive(t)
  <2> DEFINE new == [Old(t) EXCEPT !.Locked = TRUE]
  <2>1. new \in WordType /\ new.Locked
    BY <1>3 DEF WordType
  <2> QED
    BY <1>2, <1>4, <2>1, RetryDuty DEF LockExclusive
<1>5. CASE LockShared(t)
  <2> DEFINE s == IF Old(t).Waiting THEN Old(t).Shared ELSE Old(t).Shared + 1
             new == [Old(t) EXCEPT !.Locked = TRUE, !.Shared = s]
  <2>1. s \in Nat
    BY <1>3 DEF WordType
  <2>2. TakeLock(t, new, "shared") \/ Retry(t)
    BY <1>5 DEF LockShared
  <2> HIDE DEF s
  <2>3. new \in WordType /\ new.Locked
    BY <1>3, <2>1 DEF WordType
  <2> QED
    BY <1>2, <1>5, <2>2, <2>3, RetryDuty DEF LockShared
<1>6. ASSUME Old(t).Locked, NEW x, NEW v, Enqueue(t, x, v) PROVE WakeupPending'
  <2>1. PushLock'.Locked
    BY <1>6, QueuedWordDoes DEF PushInv, Enqueue
  <2> QED
    BY <2>1, NotNeeded DEF WakeNeeded
<1>7. CASE QueueExclusive(t) \/ QueueShared(t)
  <2>1. pc[t] = "acquire" /\ Old(t).Locked
    BY <1>7 DEF QueueExclusive, QueueShared, SharedMayEnter
  <2> QED
    BY <1>6, <1>7, <2>1, RetryDuty DEF QueueExclusive, QueueShared
<1>8. CASE TestWait(t) \/ KeWaitForGate(t)
  <2>1. /\ UNCHANGED <<PushLock, frame, taken>> /\ pc[t] \in {"testWait", "gate"}
        /\ \/ Block' = [Block EXCEPT ![t].Wait = FALSE] /\ Goto(t, "gate")
           \/ Block' = [Block EXCEPT ![t] = NoBlock] /\ Goto(t, "acquire")
    BY <1>8 DEF TestWait, KeWaitForGate, history
  <2>2. "gate" \in Labels /\ "acquire" \in Labels
    BY DEF Labels
  <2>3. /\ Keeps(t, pc, pc') /\ Keeps(t, frame, frame') /\ Keeps(t, taken, taken')
        /\ pc'[t] = "acquire" \/ (Block' = [Block EXCEPT ![t].Wait = FALSE])
    BY <2>1, <2>2, GotoDoes DEF PushInv, TypeOK, Keeps
  <2>4. /\ \A u \in Threads : u # t => Block'[u] = Block[u]
        /\ pc'[t] = "acquire" \/ Block'[t].Signaled = Block[t].Signaled
    BY <2>1, <2>3 DEF PushInv, TypeOK, WaitBlockType
  <2>5. frame[t].call \in Acquiring
    BY <2>1 DEF PushInv, CallInUse
  <2>6. OnDuty(t) => OnDuty(t)'
    BY <2>1, <2>4, <2>5 DEF OnDuty, AwakeAcquirer
  <2> QED
    BY <2>1, <2>3, <2>4, <2>6, DutyKept
<1> QED
  BY <1>1, <1>4, <1>5, <1>7, <1>8 DEF AcquireStep

LEMMA WakeDuty ==
    ASSUME PushInv, WakeupPending, NEW t \in Threads, WakeStep(t)
    PROVE  WakeupPending'
<1>1. ASSUME pc[t] \in WakerLabels, PushLock' = PushLock PROVE WakeupPending'
  BY <1>1, WakerFacts, NotNeeded DEF WakeNeeded
<1>2. CASE OptimizeWalk(t) \/ WakeWalk(t) \/ WakeLast(t)
  <2>1. PushLock' = PushLock /\ pc[t] \in WakerLabels
    BY <1>2 DEF OptimizeWalk, WakeWalk, WakeLast, StepToNext, memory, WakerLabels
  <2> QED
    BY <1>1, <2>1
<1>3. CASE OptimizeDone(t) \/ WakeLocked(t)
  <2>1. pc[t] \in {"optimizeDone", "wakeLocked"} /\ pc[t] \in WakerLabels
    BY <1>3 DEF OptimizeDone, WakeLocked, WakerLabels
  <2>2. CASE PushLock = frame[t].WakeValue /\ PushLock' = [PushLock EXCEPT !.Waking = FALSE]
    <3>1. PushLock.Locked
      BY <2>1, <2>2, WakerFacts DEF WakerInList
    <3>2. PushLock'.Locked
      BY <2>2, <3>1 DEF PushInv, TypeOK, WordType
    <3> QED
      BY <3>2, NotNeeded DEF WakeNeeded
  <2> QED
    BY <1>1, <1>3, <2>1, <2>2 DEF OptimizeDone, WakeLocked
<1>4. CASE WakeAll(t)
  <2>1. pc[t] \in WakerLabels /\ (PushLock' = Free \/ PushLock' = PushLock)
    BY <1>4 DEF WakeAll, WakerLabels
  <2>2. ~Free.Waiting
    BY DEF Free
  <2> QED
    BY <1>1, <2>1, <2>2, NotNeeded DEF WakeNeeded
<1>5. CASE ClearWaking(t)
  <2>1. taken[t] # <<>> /\ taken' = taken
    BY <1>5 DEF ClearWaking, history, PushInv, ListIntact, SignalsWhatItTook
  <2>2. OnDuty(t)'
    BY <2>1 DEF OnDuty
  <2> QED
    BY <2>2, TakesDuty
<1>6. CASE Signal(t)
  <2>0. PICK b : b = Cursor(t)
    OBVIOUS
  <2>1. /\ pc[t] = "signal" /\ Block' = [Block EXCEPT ![b].Signaled = TRUE, ![b].Wait = FALSE]
        /\ \/ NextToSignal(t, Block[b].Previous)
           \/ frame' = [frame EXCEPT ![t].PreviousWaitBlock = Block[b].Previous]
    BY <1>6, <2>0 DEF Signal
  <2>2. taken[t] # <<>> /\ b = taken[t][1] /\ taken[t] \in Seq(Threads)
    BY <2>0, <2>1 DEF PushInv, TypeOK, ListIntact, SignalsWhatItTook
  <2>3. b \in Threads /\ Pending(b)
    <3>1. 1 \in DOMAIN taken[t] /\ b \in Threads
      BY <2>2, TailFacts
    <3> QED
      BY <2>2, <3>1 DEF Pending, InSeq
  <2>4. frame[b].call \in Acquiring
    BY <2>3 DEF PushInv, ListIntact, NoWaiterLost, BlockInUse
  <2>5. Block'[b].Signaled = TRUE /\ Block[b].Previous \in Threads \cup {NULL}
    BY <2>1, <2>3 DEF PushInv, TypeOK, WaitBlockType
  <2>6. Keeps(t, frame, frame') /\ (frame[t].call \in Acquiring => frame'[t].call = frame[t].call)
    <3>1. ASSUME frame' = [frame EXCEPT ![t].PreviousWaitBlock = Block[b].Previous]
          PROVE  Keeps(t, frame, frame') /\ frame'[t].call = frame[t].call
      BY <3>1 DEF PushInv, TypeOK, FrameType, Keeps
    <3>2. ASSUME NextToSignal(t, Block[b].Previous)
          PROVE  Keeps(t, frame, frame') /\ (frame[t].call \in Acquiring => frame'[t].call = frame[t].call)
      BY <2>5, <3>2, NextToSignalDoes DEF PushInv
    <3> QED
      BY <2>1, <3>1, <3>2
  <2>7. frame'[b].call \in Acquiring
    BY <2>3, <2>4, <2>6 DEF Keeps
  <2>8. OnDuty(b)'
    BY <2>5, <2>7 DEF OnDuty, AwakeAcquirer
  <2> QED
    BY <2>3, <2>8, TakesDuty
<1>7. CASE SignalGate(t)
  <2>1. /\ pc[t] = "signalGate" /\ NextToSignal(t, frame[t].PreviousWaitBlock)
        /\ UNCHANGED <<PushLock, Block, taken>>
    BY <1>7 DEF SignalGate, history
  <2>2. frame[t].PreviousWaitBlock \in Threads \cup {NULL}
    BY DEF PushInv, TypeOK, FrameType
  <2>3. /\ Keeps(t, pc, pc') /\ Keeps(t, frame, frame') /\ Keeps(t, taken, taken')
        /\ frame[t].call \in Acquiring => frame'[t].call = frame[t].call
    BY <2>1, <2>2, NextToSignalDoes DEF PushInv, Keeps
  <2>4. OnDuty(t) => OnDuty(t)'
    BY <2>1, <2>3 DEF OnDuty, AwakeAcquirer
  <2> QED
    BY <2>1, <2>3, <2>4, DutyKept
<1> QED
  BY <1>2, <1>3, <1>4, <1>5, <1>6, <1>7 DEF WakeStep

LEMMA ReleaseDuty ==
    ASSUME PushInv, WakeupPending, NEW t \in Threads, ReleaseStep(t)
    PROVE  WakeupPending'
<1>1. Old(t) \in WordType /\ TypeOK
  BY DEF PushInv, TypeOK, FrameType, Old
<1>2. pc[t] \in {"tryRelease", "release", "releaseCount", "unlock"} => ~OnDuty(t)
  BY OffDuty, ReleaserCall
<1>3. ASSUME ~Old(t).Waiting, PushLock' = WithoutOneSharer(Old(t)) PROVE WakeupPending'
  <2>1. ~PushLock'.Waiting
    BY <1>1, <1>3 DEF WithoutOneSharer, Free, WordType
  <2> QED
    BY <2>1, NotNeeded DEF WakeNeeded
<1>4. ASSUME pc[t] = "release", Read(t), UNCHANGED <<PushLock, pc>>, UNCHANGED <<Block, taken>>
      PROVE  WakeupPending'
  <2>1. Keeps(t, pc, pc') /\ Keeps(t, frame, frame') /\ Keeps(t, taken, taken')
    BY <1>1, <1>4, ReadDoes DEF Keeps
  <2> QED
    BY <1>2, <1>4, <2>1, DutyKept
<1>5. CASE TryRelease(t)
  <2>1. pc[t] = "tryRelease" /\ ~Old(t).Waiting
    BY <1>5 DEF TryRelease, PushInv, ReleaserSees
  <2> QED
    BY <1>3, <1>5, <2>1, RetryDuty DEF TryRelease
<1>6. CASE ReleaseUnwaited(t)
  BY <1>3, <1>4, <1>6 DEF ReleaseUnwaited, AtRelease, history
<1>7. CASE ReleaseWalk(t)
  <2>1. /\ pc[t] = "release" /\ UNCHANGED <<PushLock, Block, taken>>
        /\ \E b : frame' = [frame EXCEPT ![t].WaitBlock = b]
        /\ Goto(t, "releaseCount") \/ UNCHANGED pc
    BY <1>7 DEF ReleaseWalk, AtRelease, memory, history
  <2>2. Keeps(t, pc, pc') /\ Keeps(t, frame, frame') /\ Keeps(t, taken, taken')
    BY <1>1, <2>1 DEF TypeOK, Keeps, Goto
  <2> QED
    BY <1>2, <2>1, <2>2, DutyKept
<1>8. CASE ReleaseCount(t)
  <2>1. /\ pc[t] = "releaseCount" /\ UNCHANGED <<PushLock, taken>>
        /\ \E c : Block' = [Block EXCEPT ![Cursor(t)].ShareCount = c]
        /\ Return(t) \/ (Goto(t, "unlock") /\ UNCHANGED frame)
    BY <1>8 DEF ReleaseCount, history
  <2>2. Keeps(t, pc, pc') /\ Keeps(t, frame, frame') /\ Keeps(t, taken, taken')
    BY <1>1, <2>1 DEF TypeOK, Keeps, Goto, Return
  <2>3. \A u \in Threads : Block'[u].Signaled = Block[u].Signaled
    BY <1>1, <2>1 DEF TypeOK, WaitBlockType
  <2> QED
    BY <1>2, <2>1, <2>2, <2>3, DutyKept
<1>9. CASE Unlock(t)
  <2>1. pc[t] \in {"unlock", "release"}
    BY <1>9 DEF Unlock, AtUnlock, AtRelease
  <2>2. CASE PushLock' = [Old(t) EXCEPT !.Locked = FALSE, !.MultipleShared = FALSE, !.Waking = TRUE]
    <3>1. PushLock'.Waking
      BY <1>1, <2>2 DEF WordType
    <3> QED
      BY <3>1, NotNeeded DEF WakeNeeded
  <2>3. CASE UNCHANGED <<PushLock, held, pc, frame>>
    <3>1. UNCHANGED <<Block, taken>>
      BY <1>9 DEF Unlock, history
    <3>2. Keeps(t, pc, pc') /\ Keeps(t, frame, frame') /\ Keeps(t, taken, taken')
      BY <2>3, <3>1 DEF Keeps
    <3> QED
      BY <1>2, <2>1, <2>3, <3>1, <3>2, DutyKept
  <2> QED
    BY <1>9, <2>2, <2>3 DEF Unlock
<1>10. CASE ExfReleasePushLockExclusive(t)
  <2>1. CASE PushLock' = [Old(t) EXCEPT !.Locked = FALSE, !.Waking = Old(t).Waiting]
    <3>1. PushLock'.Waking = Old(t).Waiting /\ PushLock'.Waiting = Old(t).Waiting
      BY <1>1, <2>1 DEF WordType
    <3> QED
      BY <3>1, NotNeeded DEF WakeNeeded
  <2>2. CASE Read(t) /\ UNCHANGED <<PushLock, held, pc>>
    BY <1>4, <1>10, <2>2 DEF ExfReleasePushLockExclusive, history
  <2> QED
    BY <1>10, <2>1, <2>2 DEF ExfReleasePushLockExclusive
<1>11. CASE ExfTryToWakePushLock(t)
  <2>1. pc[t] = "tryWake" /\ UNCHANGED <<PushLock, Block, taken>>
    BY <1>11 DEF ExfTryToWakePushLock, memory, history
  <2>2. CASE WakeNeeded
    <3>1. frame' = [frame EXCEPT ![t].OldValue = PushLock] /\ Goto(t, "tryWakeSet")
      BY <1>11, <2>2 DEF ExfTryToWakePushLock, WakeNeeded
    <3>2. pc'[t] = "tryWakeSet" /\ frame'[t].OldValue = PushLock
      BY <1>1, <3>1 DEF TypeOK, FrameType, Goto
    <3>3. OnDuty(t)'
      BY <2>1, <3>2 DEF OnDuty, Old
    <3> QED
      BY <3>3, TakesDuty
  <2>3. CASE ~WakeNeeded
    BY <2>1, <2>3, NotNeeded DEF WakeNeeded
  <2> QED
    BY <2>2, <2>3
<1>12. CASE TryWakeSet(t)
  <2>1. pc[t] = "tryWakeSet" /\ UNCHANGED <<Block, taken>>
    BY <1>12 DEF TryWakeSet, history
  <2>2. CASE PushLock' = [Old(t) EXCEPT !.Waking = TRUE]
    <3>1. PushLock'.Waking
      BY <1>1, <2>2 DEF WordType
    <3> QED
      BY <3>1, NotNeeded DEF WakeNeeded
  <2>3. CASE PushLock # Old(t) /\ Return(t) /\ UNCHANGED PushLock
    <3>1. Keeps(t, pc, pc') /\ Keeps(t, frame, frame') /\ Keeps(t, taken, taken')
      BY <1>1, <2>1, <2>3, ReturnDoes DEF Keeps
    <3>2. frame[t].call \notin Acquiring /\ taken[t] = <<>>
      BY <2>1 DEF PushInv, CallInUse, Acquiring, ListIntact, NoWaiterLost
    <3>3. ~OnDuty(t)
      BY <2>1, <2>3, <3>2 DEF OnDuty, AwakeAcquirer
    <3> QED
      BY <2>1, <2>3, <3>1, <3>3, DutyKept
  <2> QED
    BY <1>12, <2>2, <2>3 DEF TryWakeSet
<1> QED
  BY <1>5, <1>6, <1>7, <1>8, <1>9, <1>10, <1>11, <1>12 DEF ReleaseStep

LEMMA NextDuty ==
    ASSUME PushInv, WakeupPending, [Next]_vars
    PROVE  WakeupPending'
<1>1. CASE UNCHANGED vars
  BY <1>1 DEF vars, WakeupPending, AwakeAcquirer, Old
<1> QED
  BY <1>1, BeginDuty, BeginReleaseDuty, AcquireDuty, WakeDuty, ReleaseDuty DEF Next, Continue

-----------------------------------------------------------------------------
(* A step changes who holds the lock as the abstract lock may.             *)

LEMMA TakesExclusiveRW ==
    ASSUME PushInv, NEW t \in Threads, held[t] = "none", ~PushLock.Locked, Hold(t, "exclusive")
    PROVE  RW!Next
<1>1. \A u \in Threads : held[u] = "none"
  BY Unheld DEF PushInv
<1>2. RW!AcquireExclusive(t)
  BY <1>1 DEF Hold, RW!AcquireExclusive, RW!Alone
<1> QED
  BY <1>2 DEF RW!Next

LEMMA TakesSharedRW ==
    ASSUME PushInv, NEW t \in Threads, held[t] = "none", Hold(t, "shared"),
           ~PushLock.Locked \/ (~PushLock.Waiting /\ PushLock.Shared > 0)
    PROVE  RW!Next
<1>1. \A u \in Threads : held[u] # "exclusive"
  BY Unheld, ExclusiveAlone DEF PushInv
<1>2. RW!AcquireShared(t)
  BY <1>1 DEF Hold, RW!AcquireShared
<1> QED
  BY <1>2 DEF RW!Next

LEMMA GivesBackRW ==
    ASSUME NEW t \in Threads, held[t] # "none", Hold(t, "none")
    PROVE  RW!Next
<1>1. RW!Release(t)
  BY DEF Hold, RW!Release
<1> QED
  BY <1>1 DEF RW!Next

LEMMA BeginRW ==
    ASSUME PushInv, NEW t \in Threads, Begin(t)
    PROVE  [RW!Next]_held
<1>1. CASE ExAcquirePushLockExclusive(t) \/ ExTryToAcquirePushLockExclusive(t)
  BY <1>1, TakesExclusiveRW DEF ExAcquirePushLockExclusive, ExTryToAcquirePushLockExclusive, SetLock, Call
<1>2. CASE ExAcquirePushLockShared(t)
  <2>1. ~Free.Locked
    BY DEF Free
  <2> QED
    BY <1>2, <2>1, TakesSharedRW DEF ExAcquirePushLockShared, Call
<1>3. CASE ExConvertPushLockSharedToExclusive(t)
  <2>1. held[t] = "shared" /\ PushLock = SharedOnce /\ Hold(t, "exclusive")
    BY <1>3 DEF ExConvertPushLockSharedToExclusive, Call
  <2>2. ~PushLock.Waiting /\ PushLock.Shared = 1
    BY <2>1 DEF SharedOnce, Free
  <2>3. \E u \in Threads : Sharers = {u}
    BY <2>2, OneSharer DEF PushInv, CountsHolders
  <2>4. Sharers \subseteq {t}
    BY <2>1, <2>3 DEF Sharers
  <2>5. \A u \in Threads : u # t => held[u] = "none"
    BY <2>1, <2>4, HolderAlone DEF PushInv
  <2>6. RW!Convert(t)
    BY <2>1, <2>5 DEF Hold, RW!Convert, RW!Alone
  <2> QED
    BY <2>6 DEF RW!Next
<1>4. CASE ExWaitOnPushLock(t)
  BY <1>4 DEF ExWaitOnPushLock, memory
<1> QED
  BY <1>1, <1>2, <1>3, <1>4 DEF Begin

LEMMA AcquireRW ==
    ASSUME PushInv, NEW t \in Threads, AcquireStep(t)
    PROVE  [RW!Next]_held
<1>1. CASE Retry(t)
  BY <1>1 DEF Retry, memory
<1>2. pc[t] = "acquire" => held[t] = "none"
  BY DEF PushInv, CallInUse
<1>3. CASE LockExclusive(t)
  BY <1>1, <1>2, <1>3, TakesExclusiveRW DEF LockExclusive, TakeLock
<1>4. CASE LockShared(t)
  BY <1>1, <1>2, <1>4, TakesSharedRW DEF LockShared, TakeLock, SharedMayEnter
<1>5. CASE ReadWord(t) \/ QueueExclusive(t) \/ QueueShared(t) \/ TestWait(t) \/ KeWaitForGate(t)
  BY <1>1, <1>5 DEF ReadWord, QueueExclusive, QueueShared, Enqueue, TestWait, KeWaitForGate, memory
<1> QED
  BY <1>3, <1>4, <1>5 DEF AcquireStep

LEMMA ReleaseRW ==
    ASSUME PushInv, NEW t \in Threads, BeginRelease(t) \/ ReleaseStep(t)
    PROVE  [RW!Next]_held
<1>1. pc[t] \in {"tryRelease", "release", "releaseCount", "unlock"} => held[t] # "none"
  BY DEF PushInv, CallInUse
<1>2. CASE BeginRelease(t)
  BY <1>2, GivesBackRW DEF BeginRelease, ExReleasePushLockShared, ExReleasePushLockExclusive,
     ExReleasePushLock, Call, memory
<1>3. CASE TryRelease(t) \/ ReleaseUnwaited(t)
  BY <1>1, <1>3, GivesBackRW DEF TryRelease, Retry, ReleaseUnwaited, AtRelease, memory
<1>4. CASE ReleaseCount(t)
  BY <1>1, <1>4, GivesBackRW DEF ReleaseCount
<1>5. CASE Unlock(t) \/ ExfReleasePushLockExclusive(t)
  BY <1>1, <1>5, GivesBackRW DEF Unlock, AtUnlock, AtRelease, ExfReleasePushLockExclusive
<1>6. CASE ReleaseWalk(t) \/ ExfTryToWakePushLock(t) \/ TryWakeSet(t)
  BY <1>6 DEF ReleaseWalk, ExfTryToWakePushLock, TryWakeSet, memory
<1> QED
  BY <1>2, <1>3, <1>4, <1>5, <1>6 DEF ReleaseStep

LEMMA WakeRW ==
    ASSUME NEW t \in Threads, WakeStep(t)
    PROVE  UNCHANGED held
  BY DEF WakeStep, OptimizeWalk, StepToNext, OptimizeDone, WakeLocked, WakeWalk, WakeAll, WakeLast,
         ClearWaking, Signal, SignalGate, memory

LEMMA NextRW ==
    ASSUME PushInv, [Next]_vars
    PROVE  [RW!Next]_held
  BY BeginRW, AcquireRW, ReleaseRW, WakeRW DEF Next, Continue, vars

-----------------------------------------------------------------------------
(* The theorems.                                                           *)

(* The parts of the invariant support each other: none of the properties   *)
(* below is kept by every step of pushlock.c alone, all of them together   *)
(* are, for any finite set of threads.                                     *)
THEOREM PushInvariance == Spec => []PushInv
  BY InitInv, NextInv, PTL DEF Spec

(* The word, the wait blocks and the locals of every call stay within      *)
(* their types: no walk along Next or Last runs off the list.              *)
THEOREM TypeCorrect == Spec => []TypeOK
<1>1. PushInv => TypeOK
  BY DEF PushInv
<1> QED
  BY <1>1, PushInvariance, PTL

(* Every wait block that ExfWakePushLock, ExpOptimizePushLockList or a     *)
(* shared release dereferences is still on the stack of a waiter that has  *)
(* not returned.                                                           *)
THEOREM FramesSafe == Spec => []TouchesLiveBlocks
  BY PushInvariance, InvTouchesLiveBlocks, PTL

(* The word and the oldest wait block account for exactly the holders, as  *)
(* the share count moves from the word to the block and is counted down.   *)
THEOREM CountCorrect == Spec => []CountsHolders
<1>1. PushInv => CountsHolders
  BY DEF PushInv
<1> QED
  BY <1>1, PushInvariance, PTL

(* The list of wait blocks stays whole while threads push onto it, walk    *)
(* it, shorten it and cut it: its links describe the waiters in order, one *)
(* thread at a time edits it, and no waiter is lost or woken twice.        *)
THEOREM ListCorrect == Spec => []ListIntact
<1>1. PushInv => ListIntact
  BY DEF PushInv
<1> QED
  BY <1>1, PushInvariance, PTL

(* The ASSERTs of pushlock.c and ex.h hold.                                *)
THEOREM AssertionsHold == Spec => []SanityChecks
  BY PushInvariance, InvSanityChecks, PTL

(* Waiters never sleep on a free lock with nobody to wake them: whoever    *)
(* clears the lock bit, clears Waking or gives up on waking leaves a       *)
(* thread with that duty.                                                  *)
THEOREM NoWakeupMissed == Spec => []WakeupPending
<1>1. Init => WakeupPending
  BY DEF Init, Free, WakeupPending
<1>2. PushInv /\ WakeupPending /\ [Next]_vars => WakeupPending'
  BY NextDuty
<1> QED
  BY <1>1, <1>2, PushInvariance, PTL DEF Spec

(* A push lock is a lock with shared and exclusive modes: a grant in       *)
(* exclusive mode goes to a thread when nobody else has the lock, a grant  *)
(* in shared mode when nobody has it exclusively.                          *)
THEOREM PushLockImplements == Spec => Implements
<1>1. Init => RW!Init
  BY DEF Init, RW!Init
<1>2. PushInv /\ [Next]_vars => [RW!Next]_held
  BY NextRW
<1> QED
  BY <1>1, <1>2, PushInvariance, PTL DEF Spec, Implements, RW!Spec
=============================================================================
