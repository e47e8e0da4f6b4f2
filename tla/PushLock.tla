------------------------------ MODULE PushLock ------------------------------
(***************************************************************************)
(* Push locks: ntoskrnl/ex/pushlock.c and the inlines of                   *)
(* ntoskrnl/include/internal/ex.h.                                         *)
(*                                                                         *)
(* The lock is one word. Waiters link wait blocks on their own stacks into *)
(* a list whose newest member the word points to; the oldest is found by   *)
(* following Next until a block has a Last. One thread at a time, the one  *)
(* that set Waking, repairs the list or takes blocks out of it, while      *)
(* others push new blocks and, when the lock is shared, walk it to find    *)
(* the share count. Each access to memory another processor may touch is a *)
(* step; a loop over the list takes one step per block.                    *)
(***************************************************************************)
EXTENDS Integers, Sequences, FiniteSets

CONSTANTS Threads,
          NULL,
          Ops            \* the routines that clients call

ASSUME NullAssumption == NULL \notin Threads /\ IsFiniteSet(Threads)

ASSUME OpsAssumption ==
    Ops \subseteq {"AcquireExclusive", "TryToAcquireExclusive", "AcquireShared",
                   "ConvertSharedToExclusive", "WaitOn", "ReleaseShared",
                   "ReleaseExclusive", "Release"}

VARIABLES PushLock,      \* the word
          Block,         \* each thread's wait block
          gate,          \* the gate in it
          held,          \* how each thread holds the lock
          pc,            \* where each thread is
          frame,         \* the local variables of its call
          queue,         \* history: the blocks on the list, newest first
          taken          \* history: the blocks each waker took and has not signaled

vars == <<PushLock, Block, gate, held, pc, frame, queue, taken>>
history == <<queue, taken>>
memory == <<PushLock, Block, gate, held>>

(* Block and Shared are the same bits: Block has a meaning when Waiting is *)
(* set, Shared when it is not.                                             *)
Free == [Locked |-> FALSE, Waiting |-> FALSE, Waking |-> FALSE,
         MultipleShared |-> FALSE, Shared |-> 0, Block |-> NULL]

SharedOnce == [Free EXCEPT !.Locked = TRUE, !.Shared = 1]

NoBlock == [Exclusive |-> FALSE, Wait |-> FALSE, Next |-> NULL, Last |-> NULL,
            Previous |-> NULL, ShareCount |-> 0, Signaled |-> FALSE]

(* WakeValue is what the callers of ExfWakePushLock and                    *)
(* ExpOptimizePushLockList pass as OldValue.                               *)
NoFrame == [call |-> "none", OldValue |-> Free, WakeValue |-> Free,
            WaitBlock |-> NULL, PreviousWaitBlock |-> NULL]

(* _ExInitializePushLock                                                   *)
Init == /\ PushLock = Free
        /\ Block = [t \in Threads |-> NoBlock]
        /\ gate = [t \in Threads |-> FALSE]
        /\ held = [t \in Threads |-> "none"]
        /\ pc = [t \in Threads |-> "idle"]
        /\ frame = [t \in Threads |-> NoFrame]
        /\ queue = <<>>
        /\ taken = [t \in Threads |-> <<>>]

-----------------------------------------------------------------------------
Old(t) == frame[t].OldValue

Goto(t, label) == pc' = [pc EXCEPT ![t] = label]

Return(t) == Goto(t, "idle") /\ frame' = [frame EXCEPT ![t] = NoFrame]

Hold(t, mode) == held' = [held EXCEPT ![t] = mode]

Acquiring == {"AcquireExclusive", "AcquireShared", "WaitOn"}

Call(t, api, mode) == pc[t] = "idle" /\ held[t] = mode /\ api \in Ops

SlowPath(t, api) == Goto(t, "read") /\ frame' = [frame EXCEPT ![t] = [NoFrame EXCEPT !.call = api]]

(* The slow paths begin with a read of the word; a release also remembers  *)
(* where a walk of the list would begin.                                   *)
Read(t) == frame' = [frame EXCEPT ![t].OldValue = PushLock,
                                  ![t].WaitBlock = IF frame[t].call \in Acquiring
                                                   THEN NULL ELSE PushLock.Block]

ReadWord(t) == /\ pc[t] = "read"
               /\ Read(t)
               /\ Goto(t, IF frame[t].call \in Acquiring THEN "acquire" ELSE "release")
               /\ UNCHANGED <<memory, history>>

-----------------------------------------------------------------------------
(* Entering and leaving ExfWakePushLock and ExpOptimizePushLockList.       *)

WalkFrom(t, v, label) == /\ frame' = [frame EXCEPT ![t].WakeValue = v, ![t].WaitBlock = v.Block]
                         /\ Goto(t, label)

EnterWake(t, v) == WalkFrom(t, v, IF v.Locked THEN "wakeLocked" ELSE "wakeWalk")

EnterOptimize(t, v) == WalkFrom(t, v, IF v.Locked THEN "optimizeWalk" ELSE "wakeWalk")

(* A waiter goes on to its wait; a release is over.                        *)
LeaveWake(t) ==
    IF frame[t].call \in Acquiring
    THEN /\ Goto(t, "testWait")
         /\ frame' = [frame EXCEPT ![t] = [@ EXCEPT !.WakeValue = Free, !.WaitBlock = NULL,
                                                    !.PreviousWaitBlock = NULL]]
    ELSE Return(t)

-----------------------------------------------------------------------------
(* Acquiring.                                                              *)

SetLock(t, mode) == /\ ~PushLock.Locked
                    /\ PushLock' = [PushLock EXCEPT !.Locked = TRUE]
                    /\ Hold(t, mode)
                    /\ UNCHANGED <<pc, frame>>

ExAcquirePushLockExclusive(t) ==
    /\ Call(t, "AcquireExclusive", "none")
    /\ \/ SetLock(t, "exclusive")
       \/ PushLock.Locked /\ SlowPath(t, "AcquireExclusive") /\ UNCHANGED <<PushLock, held>>
    /\ UNCHANGED <<Block, gate, history>>

(* A failed try changes nothing.                                           *)
ExTryToAcquirePushLockExclusive(t) ==
    /\ Call(t, "TryToAcquireExclusive", "none")
    /\ SetLock(t, "exclusive")
    /\ UNCHANGED <<Block, gate, history>>

ExAcquirePushLockShared(t) ==
    /\ Call(t, "AcquireShared", "none")
    /\ \/ /\ PushLock = Free
          /\ PushLock' = SharedOnce
          /\ Hold(t, "shared")
          /\ UNCHANGED <<pc, frame>>
       \/ PushLock # Free /\ SlowPath(t, "AcquireShared") /\ UNCHANGED <<PushLock, held>>
    /\ UNCHANGED <<Block, gate, history>>

ExConvertPushLockSharedToExclusive(t) ==
    /\ Call(t, "ConvertSharedToExclusive", "shared")
    /\ PushLock = SharedOnce
    /\ PushLock' = [Free EXCEPT !.Locked = TRUE]
    /\ Hold(t, "exclusive")
    /\ UNCHANGED <<Block, gate, pc, frame, history>>

ExWaitOnPushLock(t) ==
    /\ Call(t, "WaitOn", "none")
    /\ PushLock.Locked
    /\ SlowPath(t, "WaitOn")
    /\ UNCHANGED <<memory, history>>

(* A failed exchange starts over with a new read.                          *)
Retry(t) == /\ PushLock # Old(t)
            /\ Goto(t, "read")
            /\ frame' = [frame EXCEPT ![t].OldValue = Free]
            /\ UNCHANGED <<memory, history>>

(* The lock is taken; the call returns or (ExWaitOnPushLock) the release   *)
(* follows at once.                                                        *)
TakeLock(t, new, mode) ==
    /\ PushLock = Old(t)
    /\ PushLock' = new
    /\ Hold(t, mode)
    /\ IF frame[t].call = "WaitOn" THEN SlowPath(t, "ReleaseWaitOn") ELSE Return(t)
    /\ UNCHANGED <<Block, gate, history>>

Exclusive(t) == frame[t].call \in {"AcquireExclusive", "WaitOn"}

LockExclusive(t) ==
    /\ pc[t] = "acquire" /\ Exclusive(t)
    /\ ~Old(t).Locked
    /\ TakeLock(t, [Old(t) EXCEPT !.Locked = TRUE], "exclusive") \/ Retry(t)

(* Fault: an exclusive holder is taken for a sharer.                       *)
SharedMayEnter_ForgetsCount(old) == ~old.Locked \/ ~old.Waiting

(* A locked word may be shared further unless somebody waits.              *)
SharedMayEnter(old) == ~old.Locked \/ (~old.Waiting /\ old.Shared > 0)

(* With waiters on the list there is no room for a share count: the sharer *)
(* only sets the lock bit.                                                 *)
LockShared(t) ==
    /\ pc[t] = "acquire" /\ ~Exclusive(t)
    /\ SharedMayEnter(Old(t))
    /\ \/ TakeLock(t, [Old(t) EXCEPT !.Locked = TRUE,
                                     !.Shared = IF Old(t).Waiting THEN @ ELSE @ + 1], "shared")
       \/ Retry(t)

(* The block is filled in before the compare-exchange publishes it.        *)
WaitBlockFor(t, exclusive) ==
    [Exclusive |-> exclusive,
     Wait |-> TRUE,
     Next |-> IF Old(t).Waiting THEN Old(t).Block ELSE NULL,
     Last |-> IF Old(t).Waiting THEN NULL ELSE t,
     Previous |-> NULL,
     ShareCount |-> IF exclusive /\ ~Old(t).Waiting /\ Old(t).Shared > 1 THEN Old(t).Shared ELSE 0,
     Signaled |-> FALSE]

(* Fault: two sharers do not count as several.                             *)
QueuedWord_OffByOne(t) ==
    [Locked |-> Old(t).Locked,
     Waiting |-> TRUE,
     Waking |-> Old(t).Waiting,
     MultipleShared |-> IF Old(t).Waiting THEN Old(t).MultipleShared ELSE Old(t).Shared > 2,
     Shared |-> 0,
     Block |-> t]

(* A first exclusive waiter takes the share count over into its block.     *)
QueuedWord(t) ==
    [Locked |-> Old(t).Locked,
     Waiting |-> TRUE,
     Waking |-> Old(t).Waiting,
     MultipleShared |-> IF Old(t).Waiting THEN Old(t).MultipleShared ELSE Old(t).Shared > 1,
     Shared |-> 0,
     Block |-> t]

NeedWake(t) == Old(t).Waiting /\ ~Old(t).Waking

Enqueue(t, exclusive, wakeValue) ==
    /\ PushLock = Old(t)
    /\ PushLock' = QueuedWord(t)
    /\ Block' = [Block EXCEPT ![t] = WaitBlockFor(t, exclusive)]
    /\ gate' = [gate EXCEPT ![t] = FALSE]
    /\ queue' = <<t>> \o queue
    /\ IF NeedWake(t) THEN EnterOptimize(t, wakeValue)
                      ELSE Goto(t, "testWait") /\ UNCHANGED frame
    /\ UNCHANGED <<held, taken>>

QueueExclusive(t) ==
    /\ pc[t] = "acquire" /\ Exclusive(t)
    /\ Old(t).Locked
    /\ Enqueue(t, TRUE, QueuedWord(t)) \/ Retry(t)

(* ExpOptimizePushLockList is given the value from before the exchange.    *)
QueueShared(t) ==
    /\ pc[t] = "acquire" /\ ~Exclusive(t)
    /\ ~SharedMayEnter(Old(t))
    /\ Enqueue(t, FALSE, Old(t)) \/ Retry(t)

(* The waiter tests and resets its own wait bit. If a waker was first, it  *)
(* does not wait on the gate. It goes on with the value it saw before it   *)
(* queued, however old. What is in its block is of no use any more.        *)
TestWait(t) ==
    /\ pc[t] = "testWait"
    /\ IF Block[t].Wait
       THEN Block' = [Block EXCEPT ![t].Wait = FALSE] /\ Goto(t, "gate")
       ELSE Block' = [Block EXCEPT ![t] = NoBlock] /\ Goto(t, "acquire")
    /\ UNCHANGED <<PushLock, gate, held, frame, history>>

KeWaitForGate(t) ==
    /\ pc[t] = "gate" /\ gate[t]
    /\ gate' = [gate EXCEPT ![t] = FALSE]
    /\ Block' = [Block EXCEPT ![t] = NoBlock]
    /\ Goto(t, "acquire")
    /\ UNCHANGED <<PushLock, held, frame, history>>

-----------------------------------------------------------------------------
(* ExpOptimizePushLockList                                                 *)

Cursor(t) == frame[t].WaitBlock
First(t) == frame[t].WakeValue.Block

(* A walk of the list passes a block without a Last: it goes on to Next,   *)
(* which learns its Previous.                                              *)
StepToNext(t) ==
    /\ Block[Cursor(t)].Last = NULL
    /\ Block' = [Block EXCEPT ![Block[Cursor(t)].Next].Previous = Cursor(t)]
    /\ frame' = [frame EXCEPT ![t].WaitBlock = Block[Cursor(t)].Next]
    /\ UNCHANGED <<PushLock, gate, held, pc, history>>

OptimizeWalk(t) ==
    /\ pc[t] = "optimizeWalk"
    /\ \/ StepToNext(t)
       \/ /\ Block[Cursor(t)].Last # NULL
          /\ Block' = [Block EXCEPT ![First(t)].Last = Block[Cursor(t)].Last]
          /\ Goto(t, "optimizeDone")
          /\ UNCHANGED <<PushLock, gate, held, frame, history>>

OptimizeDone(t) ==
    /\ pc[t] = "optimizeDone"
    /\ \/ /\ PushLock = frame[t].WakeValue
          /\ PushLock' = [PushLock EXCEPT !.Waking = FALSE]
          /\ LeaveWake(t)
       \/ /\ PushLock # frame[t].WakeValue
          /\ EnterOptimize(t, PushLock)
          /\ UNCHANGED PushLock
    /\ UNCHANGED <<Block, gate, held, history>>

-----------------------------------------------------------------------------
(* ExfWakePushLock                                                         *)

(* Fault: Waking is cleared without comparing.                             *)
WakeLocked_NoCompare(t) ==
    /\ pc[t] = "wakeLocked"
    /\ PushLock' = [PushLock EXCEPT !.Waking = FALSE]
    /\ LeaveWake(t)
    /\ UNCHANGED <<Block, gate, held, history>>

(* Locked again: the next release will wake.                               *)
WakeLocked(t) ==
    /\ pc[t] = "wakeLocked"
    /\ \/ /\ PushLock = frame[t].WakeValue
          /\ PushLock' = [PushLock EXCEPT !.Waking = FALSE]
          /\ LeaveWake(t)
       \/ /\ PushLock # frame[t].WakeValue
          /\ EnterWake(t, PushLock)
          /\ UNCHANGED PushLock
    /\ UNCHANGED <<Block, gate, held, history>>

WakeWalk(t) ==
    /\ pc[t] = "wakeWalk"
    /\ \/ StepToNext(t)
       \/ /\ Block[Cursor(t)].Last # NULL
          /\ frame' = [frame EXCEPT ![t].WaitBlock = Block[Cursor(t)].Last]
          /\ Goto(t, "wakePick")
          /\ UNCHANGED <<memory, history>>

WakesAll(t) == ~Block[Cursor(t)].Exclusive \/ Block[Cursor(t)].Previous = NULL

Reversed(s) == [i \in 1 .. Len(s) |-> s[Len(s) + 1 - i]]

(* A sharer is the oldest waiter, or there is only one: all are taken.     *)
WakeAll(t) ==
    /\ pc[t] = "wakePick" /\ WakesAll(t)
    /\ \/ /\ PushLock = frame[t].WakeValue
          /\ PushLock' = Free
          /\ queue' = <<>>
          /\ taken' = [taken EXCEPT ![t] = Reversed(queue)]
          /\ Goto(t, "signal")
          /\ UNCHANGED frame
       \/ /\ PushLock # frame[t].WakeValue
          /\ EnterWake(t, PushLock)
          /\ UNCHANGED <<PushLock, history>>
    /\ UNCHANGED <<Block, gate, held>>

(* Fault: the list is cut at the oldest block, not at the newest.          *)
WakeLast_CutsOldest(t) ==
    /\ pc[t] = "wakePick" /\ ~WakesAll(t)
    /\ Block' = [Block EXCEPT ![Cursor(t)] = [@ EXCEPT !.Last = Block[Cursor(t)].Previous,
                                                         !.Previous = NULL]]
    /\ taken' = [taken EXCEPT ![t] = <<queue[Len(queue)]>>]
    /\ queue' = SubSeq(queue, 1, Len(queue) - 1)
    /\ Goto(t, "clearWaking")
    /\ UNCHANGED <<PushLock, gate, held, frame>>

(* Otherwise only the oldest, an exclusive waiter, is taken.               *)
WakeLast(t) ==
    /\ pc[t] = "wakePick" /\ ~WakesAll(t)
    /\ Block' = [Block EXCEPT ![First(t)].Last = Block[Cursor(t)].Previous,
                              ![Cursor(t)].Previous = NULL]
    /\ taken' = [taken EXCEPT ![t] = <<queue[Len(queue)]>>]
    /\ queue' = SubSeq(queue, 1, Len(queue) - 1)
    /\ Goto(t, "clearWaking")
    /\ UNCHANGED <<PushLock, gate, held, frame>>

ClearWaking(t) ==
    /\ pc[t] = "clearWaking"
    /\ PushLock' = [PushLock EXCEPT !.Waking = FALSE]
    /\ Goto(t, "signal")
    /\ UNCHANGED <<Block, gate, held, frame, history>>

NextToSignal(t, previous) ==
    IF previous = NULL
    THEN LeaveWake(t)
    ELSE Goto(t, "signal") /\ frame' = [frame EXCEPT ![t].WaitBlock = previous]

(* Fault: the gate is signaled whoever reset the wait bit.                 *)
Signal_Always(t) ==
    LET b == Cursor(t) IN
    /\ pc[t] = "signal"
    /\ Block' = [Block EXCEPT ![b].Signaled = TRUE, ![b].Wait = FALSE]
    /\ taken' = [taken EXCEPT ![t] = Tail(@)]
    /\ Goto(t, "signalGate")
    /\ frame' = [frame EXCEPT ![t].PreviousWaitBlock = Block[b].Previous]
    /\ UNCHANGED <<PushLock, gate, held, queue>>

(* The block may be gone as soon as its wait bit is reset, so Previous is  *)
(* read first. If the waiter was first to reset it, it is at its gate.     *)
Signal(t) ==
    LET b == Cursor(t) IN
    /\ pc[t] = "signal"
    /\ Block' = [Block EXCEPT ![b].Signaled = TRUE, ![b].Wait = FALSE]
    /\ taken' = [taken EXCEPT ![t] = Tail(@)]
    /\ IF Block[b].Wait
       THEN NextToSignal(t, Block[b].Previous)
       ELSE /\ Goto(t, "signalGate")
            /\ frame' = [frame EXCEPT ![t].PreviousWaitBlock = Block[b].Previous]
    /\ UNCHANGED <<PushLock, gate, held, queue>>

SignalGate(t) ==
    /\ pc[t] = "signalGate"
    /\ gate' = [gate EXCEPT ![Cursor(t)] = TRUE]
    /\ NextToSignal(t, frame[t].PreviousWaitBlock)
    /\ UNCHANGED <<PushLock, Block, held, history>>

-----------------------------------------------------------------------------
(* Releasing.                                                              *)

ExReleasePushLockShared(t) ==
    /\ Call(t, "ReleaseShared", "shared")
    /\ \/ /\ PushLock = SharedOnce
          /\ PushLock' = Free
          /\ Hold(t, "none")
          /\ UNCHANGED <<pc, frame>>
       \/ PushLock # SharedOnce /\ SlowPath(t, "ReleaseShared") /\ UNCHANGED <<PushLock, held>>
    /\ UNCHANGED <<Block, gate, history>>

ExReleasePushLockExclusive(t) ==
    /\ Call(t, "ReleaseExclusive", "exclusive")
    /\ PushLock' = [PushLock EXCEPT !.Locked = FALSE]
    /\ Hold(t, "none")
    /\ IF PushLock.Waiting /\ ~PushLock.Waking THEN Goto(t, "tryWake") ELSE UNCHANGED pc
    /\ UNCHANGED <<Block, gate, frame, history>>

(* ExReleasePushLock takes either kind of lock. It reads the word and, if  *)
(* nobody waits, tries once before its slow path.                          *)
ExReleasePushLock(t) ==
    /\ \E mode \in {"shared", "exclusive"} : Call(t, "Release", mode)
    /\ frame' = [frame EXCEPT ![t] = [NoFrame EXCEPT !.call = "Release", !.OldValue = PushLock]]
    /\ Goto(t, IF PushLock.Waiting THEN "read" ELSE "tryRelease")
    /\ UNCHANGED <<memory, history>>

WithoutOneSharer(v) == IF v.Shared > 1 THEN [v EXCEPT !.Shared = @ - 1] ELSE Free

TryRelease(t) ==
    /\ pc[t] = "tryRelease"
    /\ \/ /\ PushLock = Old(t)
          /\ PushLock' = WithoutOneSharer(Old(t))
          /\ Hold(t, "none")
          /\ Return(t)
          /\ UNCHANGED <<Block, gate, history>>
       \/ Retry(t)

AtRelease(t) == pc[t] = "release" /\ frame[t].call \in {"ReleaseShared", "Release"}

ReleaseUnwaited(t) ==
    /\ AtRelease(t) /\ ~Old(t).Waiting
    /\ \/ /\ PushLock = Old(t)
          /\ PushLock' = WithoutOneSharer(Old(t))
          /\ Hold(t, "none")
          /\ Return(t)
       \/ /\ PushLock # Old(t)
          /\ Read(t)
          /\ UNCHANGED <<PushLock, held, pc>>
    /\ UNCHANGED <<Block, gate, history>>

ReleaseWalk(t) ==
    /\ AtRelease(t) /\ Old(t).Waiting /\ Old(t).MultipleShared
    /\ LET b == Block[Cursor(t)] IN
       \/ /\ b.Last # NULL
          /\ frame' = [frame EXCEPT ![t].WaitBlock = b.Last]
          /\ Goto(t, "releaseCount")
       \/ /\ b.Last = NULL
          /\ frame' = [frame EXCEPT ![t].WaitBlock = b.Next]
          /\ UNCHANGED pc
    /\ UNCHANGED <<memory, history>>

(* Fault: the sharer counts itself out of the newest block.                *)
ReleaseCount_WrongBlock(t) ==
    LET b == Old(t).Block IN
    /\ pc[t] = "releaseCount"
    /\ Block' = [Block EXCEPT ![b].ShareCount = @ - 1]
    /\ IF Block'[b].ShareCount > 0
       THEN Hold(t, "none") /\ Return(t)
       ELSE Goto(t, "unlock") /\ UNCHANGED <<held, frame>>
    /\ UNCHANGED <<PushLock, gate, history>>

(* Only the last of several sharers goes on to unlock. (ExfReleasePushLock *)
(* leaves a share count of zero alone.)                                    *)
ReleaseCount(t) ==
    LET b == Cursor(t)
        skip == frame[t].call = "Release" /\ Block[b].ShareCount <= 0 IN
    /\ pc[t] = "releaseCount"
    /\ Block' = [Block EXCEPT ![b].ShareCount = IF skip THEN @ ELSE @ - 1]
    /\ IF ~skip /\ Block'[b].ShareCount > 0
       THEN Hold(t, "none") /\ Return(t)
       ELSE Goto(t, "unlock") /\ UNCHANGED <<held, frame>>
    /\ UNCHANGED <<PushLock, gate, history>>

AtUnlock(t) == \/ pc[t] = "unlock"
               \/ AtRelease(t) /\ Old(t).Waiting /\ ~Old(t).MultipleShared

(* Fault: the word still says that several threads share it.               *)
Unlock_KeepsMultipleShared(t) ==
    LET new == [Old(t) EXCEPT !.Locked = FALSE, !.Waking = TRUE] IN
    /\ AtUnlock(t)
    /\ \/ /\ PushLock = Old(t)
          /\ PushLock' = new
          /\ Hold(t, "none")
          /\ IF Old(t).Waking THEN Return(t) ELSE EnterWake(t, new)
       \/ /\ PushLock # Old(t)
          /\ UNCHANGED <<PushLock, held, pc, frame>>
    /\ UNCHANGED <<Block, gate, history>>

(* The unlocking loop of ExfReleasePushLock and ExfReleasePushLockShared.  *)
(* A failed exchange is repeated with the same OldValue.                   *)
Unlock(t) ==
    LET new == [Old(t) EXCEPT !.Locked = FALSE, !.MultipleShared = FALSE, !.Waking = TRUE] IN
    /\ AtUnlock(t)
    /\ \/ /\ PushLock = Old(t)
          /\ PushLock' = new
          /\ Hold(t, "none")
          /\ IF Old(t).Waking THEN Return(t) ELSE EnterWake(t, new)
       \/ /\ PushLock # Old(t)
          /\ UNCHANGED <<PushLock, held, pc, frame>>
    /\ UNCHANGED <<Block, gate, history>>

(* ExfReleasePushLockExclusive, which ExWaitOnPushLock calls.              *)
ExfReleasePushLockExclusive(t) ==
    LET wakes == Old(t).Waiting /\ ~Old(t).Waking
        new == [Old(t) EXCEPT !.Locked = FALSE, !.Waking = Old(t).Waiting] IN
    /\ pc[t] = "release" /\ frame[t].call = "ReleaseWaitOn"
    /\ \/ /\ PushLock = Old(t)
          /\ PushLock' = new
          /\ Hold(t, "none")
          /\ IF wakes THEN EnterWake(t, new) ELSE Return(t)
       \/ /\ PushLock # Old(t)
          /\ Read(t)
          /\ UNCHANGED <<PushLock, held, pc>>
    /\ UNCHANGED <<Block, gate, history>>

ExfTryToWakePushLock(t) ==
    /\ pc[t] = "tryWake"
    /\ IF PushLock.Waking \/ PushLock.Locked \/ ~PushLock.Waiting
       THEN Return(t)
       ELSE /\ frame' = [frame EXCEPT ![t].OldValue = PushLock]
            /\ Goto(t, "tryWakeSet")
    /\ UNCHANGED <<memory, history>>

(* Whoever changed the word has taken over the duty to wake.               *)
TryWakeSet(t) ==
    LET new == [Old(t) EXCEPT !.Waking = TRUE] IN
    /\ pc[t] = "tryWakeSet"
    /\ \/ PushLock = Old(t) /\ PushLock' = new /\ EnterWake(t, new)
       \/ PushLock # Old(t) /\ Return(t) /\ UNCHANGED PushLock
    /\ UNCHANGED <<Block, gate, held, history>>

-----------------------------------------------------------------------------
Begin(t) == \/ ExAcquirePushLockExclusive(t) \/ ExTryToAcquirePushLockExclusive(t)
            \/ ExAcquirePushLockShared(t) \/ ExConvertPushLockSharedToExclusive(t)
            \/ ExWaitOnPushLock(t)

BeginRelease(t) == \/ ExReleasePushLockShared(t) \/ ExReleasePushLockExclusive(t)
                   \/ ExReleasePushLock(t)

AcquireStep(t) == \/ ReadWord(t) \/ LockExclusive(t) \/ LockShared(t)
                  \/ QueueExclusive(t) \/ QueueShared(t)
                  \/ TestWait(t) \/ KeWaitForGate(t)

WakeStep(t) == \/ OptimizeWalk(t) \/ OptimizeDone(t)
               \/ WakeLocked(t) \/ WakeWalk(t) \/ WakeAll(t) \/ WakeLast(t)
               \/ ClearWaking(t) \/ Signal(t) \/ SignalGate(t)

ReleaseStep(t) == \/ TryRelease(t) \/ ReleaseUnwaited(t) \/ ReleaseWalk(t)
                  \/ ReleaseCount(t) \/ Unlock(t) \/ ExfReleasePushLockExclusive(t)
                  \/ ExfTryToWakePushLock(t) \/ TryWakeSet(t)

Continue(t) == AcquireStep(t) \/ WakeStep(t) \/ ReleaseStep(t)

Next == \E t \in Threads : Begin(t) \/ BeginRelease(t) \/ Continue(t)

Spec == Init /\ [][Next]_vars

(* Every thread keeps running, and a holder releases.                      *)
FairSpec == Spec /\ \A t \in Threads : WF_vars(BeginRelease(t) \/ Continue(t))
-----------------------------------------------------------------------------
WordType == [Locked : BOOLEAN, Waiting : BOOLEAN, Waking : BOOLEAN,
             MultipleShared : BOOLEAN, Shared : Nat, Block : Threads \cup {NULL}]

Labels == {"idle", "read", "acquire", "testWait", "gate", "optimizeWalk", "optimizeDone",
           "wakeLocked", "wakeWalk", "wakePick", "clearWaking", "signal", "signalGate",
           "tryRelease", "release", "releaseCount", "unlock", "tryWake", "tryWakeSet"}

WaitBlockType == [Exclusive : BOOLEAN, Wait : BOOLEAN, Signaled : BOOLEAN,
                  Next : Threads \cup {NULL}, Last : Threads \cup {NULL},
                  Previous : Threads \cup {NULL}, ShareCount : Nat]

FrameType == [call : Ops \cup {"none", "ReleaseWaitOn"}, OldValue : WordType, WakeValue : WordType,
              WaitBlock : Threads \cup {NULL}, PreviousWaitBlock : Threads \cup {NULL}]

Modes == {"none", "shared", "exclusive"}

(* The values the variables range over. In particular no walk of the list  *)
(* runs off its end.                                                       *)
TypeOK ==
    /\ PushLock \in WordType
    /\ Block \in [Threads -> WaitBlockType]
    /\ gate \in [Threads -> BOOLEAN]
    /\ held \in [Threads -> Modes]
    /\ pc \in [Threads -> Labels]
    /\ frame \in [Threads -> FrameType]
    /\ queue \in Seq(Threads)
    /\ taken \in [Threads -> Seq(Threads)]

(* A thread's block is in use from the exchange that publishes it until    *)
(* the thread has seen that it was signaled.                               *)
BlockInUse(t) == frame[t].call \in Acquiring /\ pc[t] \notin {"read", "acquire"}

Walking == {"optimizeWalk", "optimizeDone", "wakeWalk", "wakePick", "clearWaking", "signal",
            "signalGate", "releaseCount"}

(* Whatever block a thread is about to touch, as the one its cursor or its *)
(* first-block pointer names, still belongs to a waiter's running call:    *)
(* no stack is touched after its owner has left.                           *)
TouchesLiveBlocks == \A t \in Threads :
    /\ pc[t] \in Walking \/ (AtRelease(t) /\ Old(t).Waiting /\ Old(t).MultipleShared) =>
           Cursor(t) # NULL /\ BlockInUse(Cursor(t))
    /\ pc[t] \in {"optimizeWalk", "wakePick"} => BlockInUse(First(t))

Sharers == {t \in Threads : held[t] = "shared"}

(* The last of several sharers between counting itself out and unlocking.  *)
LastSharer == {t \in Threads : pc[t] = "unlock"}

Oldest == queue[Len(queue)]

(* The word and the share count of the oldest waiter account for the       *)
(* holders, wherever the count is kept at the moment.                      *)
CountsHolders ==
    /\ PushLock.Locked <=> \E t \in Threads : held[t] # "none"
    /\ PushLock.Shared = IF PushLock.Waiting THEN 0 ELSE Cardinality(Sharers)
    /\ PushLock.Waiting /\ ~PushLock.MultipleShared => Cardinality(Sharers) <= 1
    /\ PushLock.MultipleShared =>
           /\ PushLock.Waiting
           /\ Block[Oldest].ShareCount = Cardinality(Sharers \ LastSharer)

Wakers == {t \in Threads : pc[t] \in {"optimizeWalk", "optimizeDone", "wakeLocked", "wakeWalk",
                                      "wakePick", "clearWaking"}}

(* Waking is the right to change the list: exactly one thread has it while *)
(* the bit is set.                                                         *)
OneWaker == /\ PushLock.Waking <=> Wakers # {}
            /\ PushLock.Waking => PushLock.Waiting
            /\ \A t, u \in Wakers : t = u

(* A thread that is awake inside an acquire and will take the lock before  *)
(* it sleeps, unless it finds somebody else holding it.                    *)
AwakeAcquirer(t) == /\ frame[t].call \in Acquiring
                    /\ pc[t] \in {"read", "acquire"} \/ Block[t].Signaled

(* When the lock is free and threads wait, somebody is on the way to wake  *)
(* them: the thread that has Waking, an exclusive holder that has just     *)
(* unlocked and not yet looked, a waker with a waiter to signal, or a      *)
(* thread that will take the lock and so release it.                       *)
WakeupPending ==
    PushLock.Waiting /\ ~PushLock.Locked /\ ~PushLock.Waking =>
        \E t \in Threads : \/ pc[t] = "tryWake"
                           \/ pc[t] = "tryWakeSet" /\ PushLock = Old(t)
                           \/ taken[t] # <<>>
                           \/ AwakeAcquirer(t)

(* The first block, from the newest on, that knows the oldest.             *)
FirstWithLast(i) == /\ Block[queue[i]].Last # NULL
                    /\ \A j \in 1 .. i - 1 : Block[queue[j]].Last = NULL

(* The pointers describe the list: it begins where the word says, Next     *)
(* leads from each block to the one queued before it, the first Last that  *)
(* a walk meets is the oldest, and behind it Previous leads back.          *)
LinksMatchQueue ==
    /\ PushLock.Waiting <=> queue # <<>>
    /\ PushLock.Block = IF queue = <<>> THEN NULL ELSE queue[1]
    /\ \A i \in 1 .. Len(queue) - 1 : Block[queue[i]].Next = queue[i + 1]
    /\ queue # <<>> =>
           \E i \in DOMAIN queue :
               /\ FirstWithLast(i)
               /\ Block[queue[i]].Last = Oldest
               /\ \A j \in i + 1 .. Len(queue) : Block[queue[j]].Previous = queue[j - 1]

(* What a waker goes through by Previous is what it took off the list, no  *)
(* more and no less.                                                       *)
SignalsWhatItTook == \A t \in Threads :
    /\ pc[t] \in {"clearWaking", "signal"} => taken[t] # <<>> /\ Cursor(t) = taken[t][1]
    /\ \A i \in DOMAIN taken[t] :
           Block[taken[t][i]].Previous = IF i < Len(taken[t]) THEN taken[t][i + 1] ELSE NULL

InSeq(b, s) == \E i \in DOMAIN s : s[i] = b

Distinct(s) == \A i, j \in DOMAIN s : s[i] = s[j] => i = j

(* The blocks on the list or in the hands of a waker.                      *)
Pending(b) == InSeq(b, queue) \/ \E t \in Threads : InSeq(b, taken[t])

(* A waiter that has not been signaled, and no other thread, is on the     *)
(* list or in the hands of exactly one waker that is still signaling, once.*)
NoWaiterLost ==
    /\ \A b \in Threads : Pending(b) <=> BlockInUse(b) /\ ~Block[b].Signaled
    /\ Distinct(queue)
    /\ \A t \in Threads :
           /\ Distinct(taken[t])
           /\ taken[t] # <<>> => pc[t] \in {"clearWaking", "signal", "signalGate"}
           /\ \A i \in DOMAIN taken[t] :
                  /\ ~InSeq(taken[t][i], queue)
                  /\ \A u \in Threads \ {t} : ~InSeq(taken[t][i], taken[u])

(* The list stays whole while threads queue, walk it and wake: one thread  *)
(* at a time changes it, its pointers describe the waiters in their order, *)
(* a waker has what it took off and nothing else, and no waiter is lost.   *)
ListIntact == OneWaker /\ LinksMatchQueue /\ SignalsWhatItTook /\ NoWaiterLost

(* The remaining ASSERTs of pushlock.c.                                    *)
SanityChecks == \A t \in Threads :
    /\ pc[t] \in {"wakeLocked", "wakeWalk"} => ~frame[t].WakeValue.MultipleShared
    /\ pc[t] = "wakeLocked" => frame[t].WakeValue.Waiting
    /\ pc[t] = "wakePick" /\ ~WakesAll(t) => First(t) # Cursor(t) /\ PushLock.Waiting
    /\ pc[t] = "signal" => ~Block[Cursor(t)].Signaled
    /\ pc[t] = "gate" /\ gate[t] => Block[t].Signaled
    /\ (pc[t] = "gate" /\ gate[t]) \/ (pc[t] = "testWait" /\ ~Block[t].Wait) =>
           Block[t].ShareCount = 0
    /\ pc[t] = "releaseCount" => Block[Cursor(t)].ShareCount > 0 /\ Block[Cursor(t)].Exclusive
    /\ pc[t] \in {"tryRelease", "release"} => Old(t).Locked
    /\ pc[t] = "release" /\ frame[t].call = "ReleaseWaitOn" =>
           Old(t).Waiting \/ Old(t).Shared = 0
    /\ pc[t] = "idle" /\ held[t] = "exclusive" => PushLock.Waiting \/ PushLock.Shared = 0

RW == INSTANCE RWLock WITH Threads <- Threads, held <- held

(* A push lock is a lock with shared and exclusive modes.                  *)
Implements == RW!Spec

(* From some time on no thread asks for the lock any more.                 *)
Quiet == <>[][\A t \in Threads : ~Begin(t)]_vars

(* A release returns: when no thread asks for the lock any more, none      *)
(* stays in its unlocking loop.                                            *)
ReleaseReturns == Quiet => <>[](\A t \in Threads : ~AtUnlock(t))
-----------------------------------------------------------------------------
(* The inductive invariant behind all of these.                            *)

(* Who is where with the lock and without it.                              *)
CallInUse(t) ==
    /\ pc[t] \in {"idle", "tryWake", "tryWakeSet"} => frame[t].call = "none"
    /\ pc[t] \in {"acquire", "testWait", "gate"} => frame[t].call \in Acquiring
    /\ IF held[t] = "none"
       THEN /\ pc[t] \notin {"tryRelease", "release", "releaseCount", "unlock"}
            /\ pc[t] = "read" => frame[t].call \in Acquiring
       ELSE /\ pc[t] \in {"idle", "read", "tryRelease", "release", "releaseCount", "unlock"}
            /\ pc[t] # "idle" => frame[t].call \in {"ReleaseShared", "Release", "ReleaseWaitOn"}
            /\ frame[t].call = "ReleaseShared" => held[t] = "shared"
            /\ frame[t].call = "ReleaseWaitOn" => /\ held[t] = "exclusive"
                                                  /\ pc[t] \in {"read", "release"}
            /\ pc[t] = "tryRelease" => frame[t].call = "Release"

(* The word tells how the lock is held. A sharer that counted itself out   *)
(* is the last.                                                            *)
WordExact ==
    /\ \A t, u \in Threads : held[t] = "exclusive" /\ held[u] # "none" => t = u
    /\ ~PushLock.Waiting => /\ ~PushLock.Waking /\ ~PushLock.MultipleShared
                            /\ PushLock.Block = NULL
    /\ PushLock.Waiting /\ ~PushLock.MultipleShared => \A t, u \in Sharers : t = u
    /\ PushLock.MultipleShared => Sharers # {} /\ Block[Oldest].Exclusive
    /\ \A t \in LastSharer : PushLock.MultipleShared /\ Sharers = {t}

(* What a releaser has read is still true while it holds the lock: once    *)
(* somebody waits, the word says so until the lock is free.                *)
ReleaserSees(t) ==
    /\ pc[t] \in {"tryRelease", "release", "releaseCount", "unlock"} => Old(t).Locked
    /\ pc[t] = "tryRelease" => ~Old(t).Waiting
    /\ pc[t] \in {"release", "releaseCount", "unlock"} /\ Old(t).Waiting =>
           /\ PushLock.Waiting
           /\ PushLock.MultipleShared <=> Old(t).MultipleShared
    /\ pc[t] \in {"releaseCount", "unlock"} => Old(t).Waiting /\ Old(t).MultipleShared
    /\ pc[t] = "release" /\ frame[t].call = "ReleaseWaitOn" => Old(t).Waiting \/ Old(t).Shared = 0
    /\ pc[t] = "release" /\ Old(t).Waiting /\ Old(t).MultipleShared => InSeq(Cursor(t), queue)
    /\ pc[t] = "releaseCount" => Cursor(t) = Oldest
    /\ pc[t] = "tryWakeSet" => Old(t).Waiting /\ ~Old(t).Locked /\ ~Old(t).Waking

(* While several share the lock every Last is the oldest block, which has  *)
(* one, wherever a walk begins; no walk has gone past the newest block;    *)
(* only the oldest has a share count, and only then.                       *)
ListShape ==
    /\ queue # <<>> => Block[queue[1]].Previous = NULL
    /\ PushLock.MultipleShared =>
           /\ \A i \in DOMAIN queue : Block[queue[i]].Last \in {NULL, Oldest}
           /\ Block[Oldest].Last = Oldest
    /\ \A b \in Threads : Block[b].ShareCount # 0 => PushLock.MultipleShared /\ b = Oldest

(* A waker is at a block of the list that it reached from the newest one   *)
(* it knows of.                                                            *)
WakerAt(t, k) ==
    /\ First(t) = queue[k] /\ Block[queue[k]].Previous = NULL
    /\ \A j \in 1 .. k - 1 : Block[queue[j]].Last = NULL
    /\ InSeq(Cursor(t), queue)
    /\ pc[t] \in {"optimizeWalk", "wakeWalk"} =>
           \E m \in k .. Len(queue) :
               /\ Cursor(t) = queue[m]
               /\ \A j \in k .. m - 1 : Block[queue[j]].Last = NULL
               /\ \A j \in k + 1 .. m : Block[queue[j]].Previous = queue[j - 1]
    /\ pc[t] = "wakePick" =>
           /\ Cursor(t) = Oldest
           /\ \A j \in k + 1 .. Len(queue) : Block[queue[j]].Previous = queue[j - 1]

WakersInList == \A t \in Wakers :
    /\ PushLock.MultipleShared => pc[t] \in {"optimizeWalk", "optimizeDone"}
    /\ pc[t] # "clearWaking" =>
           /\ \E k \in DOMAIN queue : WakerAt(t, k)
           /\ frame[t].WakeValue.Waiting
           /\ frame[t].WakeValue.Locked <=> pc[t] \in {"optimizeWalk", "optimizeDone", "wakeLocked"}
           /\ frame[t].WakeValue.MultipleShared => pc[t] \in {"optimizeWalk", "optimizeDone"}

(* What the wait bit, the gate and the signaled flag of a block say about  *)
(* its thread. A waker at a gate is alone there.                           *)
SignalsInUse ==
    /\ \A t \in Threads :
           /\ BlockInUse(t) => (Block[t].Wait <=> pc[t] # "gate" /\ ~Block[t].Signaled)
           /\ gate[t] => pc[t] = "gate" /\ Block[t].Signaled
           /\ pc[t] = "signalGate" =>
                  /\ Cursor(t) # NULL /\ pc[Cursor(t)] = "gate"
                  /\ Block[Cursor(t)].Signaled /\ ~gate[Cursor(t)]
                  /\ frame[t].PreviousWaitBlock = IF taken[t] = <<>> THEN NULL ELSE taken[t][1]
    /\ \A t, u \in Threads :
           pc[t] = "signalGate" /\ pc[u] = "signalGate" /\ Cursor(t) = Cursor(u) => t = u

PushInv == /\ TypeOK /\ WordExact /\ CountsHolders
           /\ \A t \in Threads : CallInUse(t) /\ ReleaserSees(t)
           /\ ListIntact /\ ListShape /\ WakersInList /\ SignalsInUse
=============================================================================
