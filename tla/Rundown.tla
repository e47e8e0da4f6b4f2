------------------------------ MODULE Rundown ------------------------------
(***************************************************************************)
(* Rundown protection: ntoskrnl/ex/rundown.c and the inlines of            *)
(* ntoskrnl/include/internal/ex.h (the EX_RUNDOWN_REF part; the cache-aware *)
(* descriptors are in RundownCacheAware).                                  *)
(*                                                                         *)
(* Every access to memory that another processor may touch is one step:    *)
(* a read of RunRef->Count, an interlocked operation, an event operation.  *)
(* Threads take and give back references at any time; one owner runs the   *)
(* descriptor down, marks it completed and puts it back into use.          *)
(***************************************************************************)
EXTENDS Integers, FiniteSets

CONSTANTS Threads,        \* threads that use the protected structure
          Refs,           \* names of the references they may hold at once
          WaitBlockAddr   \* address of the owner's wait block, shifted by one

ASSUME RefsAssumption == IsFiniteSet(Refs)

(* A wait block is never at address zero.                                  *)
ASSUME AddrAssumption == WaitBlockAddr \in Nat \ {0}

VARIABLES RunRef,         \* the descriptor's word
          WaitBlock,      \* the EX_RUNDOWN_WAIT_BLOCK on the owner's stack
          pc,             \* where each thread is
          Value,          \* each thread's local copy of the word
          op,             \* the references a thread's call asks for or returns
          held,           \* the references granted and not yet given back
          owner,          \* where the owner is
          ownerValue      \* the owner's local copy of the word

vars == <<RunRef, WaitBlock, pc, Value, op, held, owner, ownerValue>>

(***************************************************************************)
(* The word. Bit 0 is EX_RUNDOWN_ACTIVE, the rest is either a count of     *)
(* references or, in a rundown, the address of a wait block.               *)
(***************************************************************************)
Word == [active : BOOLEAN, n : Int]

CountWord(k) == [active |-> FALSE, n |-> k]

EX_RUNDOWN_ACTIVE == [active |-> TRUE, n |-> 0]

WaitBlockPointer == [active |-> TRUE, n |-> WaitBlockAddr]

Masked(w) == CountWord(w.n)

(* _ExInitializeRundownProtection                                          *)
Init == /\ RunRef = CountWord(0)
        /\ WaitBlock = [Count |-> 0, signaled |-> FALSE]
        /\ pc = [t \in Threads |-> "idle"]
        /\ Value = [t \in Threads |-> CountWord(0)]
        /\ op = [t \in Threads |-> {}]
        /\ held = {}
        /\ owner = "open"
        /\ ownerValue = CountWord(0)

ownerVars == <<owner, ownerValue>>

Busy == UNION {op[t] : t \in Threads}

Goto(t, label) == pc' = [pc EXCEPT ![t] = label]

Finish(t) == Goto(t, "idle") /\ op' = [op EXCEPT ![t] = {}]

-----------------------------------------------------------------------------
(* Taking references.                                                      *)

(* Fault: the Ex routine forgets to scale its increment by Count.          *)
Grant_IncrementsByOne(t) == /\ RunRef' = CountWord(Value[t].n + 1)
                            /\ held' = held \cup op[t]
                            /\ Finish(t)
                            /\ UNCHANGED Value

(* A successful compare-exchange grants the references of the call.        *)
Grant(t) == /\ RunRef' = CountWord(Value[t].n + Cardinality(op[t]))
            /\ held' = held \cup op[t]
            /\ Finish(t)
            /\ UNCHANGED Value

(* Fault: the loop does not look at EX_RUNDOWN_ACTIVE.                     *)
TestForAcquire_IgnoresActive(t) ==
    /\ Value' = [Value EXCEPT ![t] = RunRef]
    /\ Goto(t, "acquireCAS")
    /\ UNCHANGED <<RunRef, op, held>>

(* Look at a freshly read word: refuse in a rundown, else try to change it. *)
TestForAcquire(t) ==
    /\ Value' = [Value EXCEPT ![t] = RunRef]
    /\ IF RunRef.active THEN Finish(t)
                        ELSE Goto(t, "acquireCAS") /\ UNCHANGED op
    /\ UNCHANGED <<RunRef, held>>

_ExAcquireRundownProtection(t) ==
    /\ pc[t] = "idle"
    /\ \E r \in Refs \ (held \cup Busy) : op' = [op EXCEPT ![t] = {r}]
    /\ Value' = [Value EXCEPT ![t] = Masked(RunRef)]
    /\ Goto(t, "acquireFast")
    /\ UNCHANGED <<RunRef, WaitBlock, held, ownerVars>>

AcquireFastCAS(t) ==
    /\ pc[t] = "acquireFast"
    /\ IF RunRef = Value[t]
       THEN Grant(t)
       ELSE Goto(t, "ExfAcquire") /\ UNCHANGED <<RunRef, Value, op, held>>
    /\ UNCHANGED <<WaitBlock, ownerVars>>

(* The Ex routine takes several references and has no fast path.           *)
ExfAcquireRundownProtectionEx(t) ==
    /\ pc[t] = "idle"
    /\ \E S \in (SUBSET (Refs \ (held \cup Busy))) \ {{}} :
          op' = [op EXCEPT ![t] = S]
    /\ Goto(t, "ExfAcquire")
    /\ UNCHANGED <<RunRef, WaitBlock, Value, held, ownerVars>>

ExfAcquireRundownProtection(t) ==
    /\ pc[t] = "ExfAcquire"
    /\ TestForAcquire(t)
    /\ UNCHANGED <<WaitBlock, ownerVars>>

AcquireCAS(t) ==
    /\ pc[t] = "acquireCAS"
    /\ IF RunRef = Value[t] THEN Grant(t) ELSE TestForAcquire(t)
    /\ UNCHANGED <<WaitBlock, ownerVars>>

-----------------------------------------------------------------------------
(* Giving references back. Any thread may return any reference.            *)

Drop(t) == held' = held \ op[t]

Subtract(t) == /\ RunRef' = CountWord(Value[t].n - Cardinality(op[t]))
               /\ Drop(t)
               /\ Finish(t)
               /\ UNCHANGED Value

TestForRelease(t) ==
    /\ Value' = [Value EXCEPT ![t] = RunRef]
    /\ Goto(t, IF RunRef.active THEN "releaseBlock" ELSE "releaseCAS")
    /\ UNCHANGED <<RunRef, op, held>>

_ExReleaseRundownProtection(t) ==
    /\ pc[t] = "idle"
    /\ \E r \in held \ Busy : op' = [op EXCEPT ![t] = {r}]
    /\ Value' = [Value EXCEPT ![t] = Masked(RunRef)]
    /\ Goto(t, "releaseFast")
    /\ UNCHANGED <<RunRef, WaitBlock, held, ownerVars>>

ReleaseFastCAS(t) ==
    /\ pc[t] = "releaseFast"
    /\ IF RunRef = Value[t]
       THEN Subtract(t)
       ELSE Goto(t, "ExfRelease") /\ UNCHANGED <<RunRef, Value, op, held>>
    /\ UNCHANGED <<WaitBlock, ownerVars>>

ExfReleaseRundownProtectionEx(t) ==
    /\ pc[t] = "idle"
    /\ \E S \in (SUBSET (held \ Busy)) \ {{}} : op' = [op EXCEPT ![t] = S]
    /\ Goto(t, "ExfRelease")
    /\ UNCHANGED <<RunRef, WaitBlock, Value, held, ownerVars>>

ExfReleaseRundownProtection(t) ==
    /\ pc[t] = "ExfRelease"
    /\ TestForRelease(t)
    /\ UNCHANGED <<WaitBlock, ownerVars>>

ReleaseCAS(t) ==
    /\ pc[t] = "releaseCAS"
    /\ IF RunRef = Value[t] THEN Subtract(t) ELSE TestForRelease(t)
    /\ UNCHANGED <<WaitBlock, ownerVars>>

(* Fault: the last holder is taken to be the one that leaves one behind.   *)
ReleaseWaitBlock_SignalsEarly(t) ==
    /\ pc[t] = "releaseBlock"
    /\ WaitBlock' = [WaitBlock EXCEPT !.Count = @ - Cardinality(op[t])]
    /\ Drop(t)
    /\ op' = [op EXCEPT ![t] = {}]
    /\ Goto(t, IF WaitBlock'.Count <= 1 THEN "signal" ELSE "idle")
    /\ UNCHANGED <<RunRef, Value, ownerVars>>

(* Fault: the Ex routine compares the old count with 1 instead of Count.   *)
ReleaseWaitBlock_ComparesWithOne(t) ==
    /\ pc[t] = "releaseBlock"
    /\ WaitBlock' = [WaitBlock EXCEPT !.Count = @ - Cardinality(op[t])]
    /\ Drop(t)
    /\ op' = [op EXCEPT ![t] = {}]
    /\ Goto(t, IF WaitBlock.Count = 1 THEN "signal" ELSE "idle")
    /\ UNCHANGED <<RunRef, Value, ownerVars>>

(* The word held a wait block: take the references off its count, and be   *)
(* the one to wake the owner when nothing is left.                         *)
ReleaseWaitBlock(t) ==
    /\ pc[t] = "releaseBlock"
    /\ WaitBlock' = [WaitBlock EXCEPT !.Count = @ - Cardinality(op[t])]
    /\ Drop(t)
    /\ op' = [op EXCEPT ![t] = {}]
    /\ Goto(t, IF WaitBlock'.Count = 0 THEN "signal" ELSE "idle")
    /\ UNCHANGED <<RunRef, Value, ownerVars>>

SignalOwner(t) ==
    /\ pc[t] = "signal"
    /\ WaitBlock' = [WaitBlock EXCEPT !.signaled = TRUE]
    /\ Goto(t, "idle")
    /\ UNCHANGED <<RunRef, Value, op, held, ownerVars>>

-----------------------------------------------------------------------------
(* The owner.                                                              *)

threadVars == <<pc, Value, op, held>>

(* Fault: the retry keeps the count of the first attempt.                  *)
Prepare_KeepsCount ==
    /\ ownerValue' = RunRef
    /\ WaitBlock' = [Count |-> IF owner = "publish" THEN WaitBlock.Count ELSE RunRef.n,
                     signaled |-> FALSE]
    /\ owner' = "publish"
    /\ UNCHANGED RunRef

(* Put the waiter's view of the count into its block before publishing it; *)
(* the event is initialized while the block is still private.              *)
Prepare == /\ ownerValue' = RunRef
           /\ WaitBlock' = [Count |-> RunRef.n, signaled |-> FALSE]
           /\ owner' = "publish"
           /\ UNCHANGED RunRef

(* ExpChangeRundown(RunRef, EX_RUNDOWN_ACTIVE, 0), tried twice: once inline *)
(* and once at the top of the slow path.                                   *)
ActivateOr(Otherwise) ==
    IF RunRef \in {CountWord(0), EX_RUNDOWN_ACTIVE}
    THEN /\ RunRef' = EX_RUNDOWN_ACTIVE
         /\ owner' = "drained"
         /\ UNCHANGED <<WaitBlock, ownerValue>>
    ELSE Otherwise

_ExWaitForRundownProtectionRelease ==
    /\ owner \in {"open", "completed"}
    /\ ActivateOr(owner' = "ExfWait" /\ UNCHANGED <<RunRef, WaitBlock, ownerValue>>)
    /\ UNCHANGED threadVars

ExfWaitForRundownProtectionRelease ==
    /\ owner = "ExfWait"
    /\ ActivateOr(Prepare)
    /\ UNCHANGED threadVars

(* Fault: the pointer is stored without comparing the word.                *)
PublishWaitBlock_NoCompare ==
    /\ owner = "publish"
    /\ RunRef' = WaitBlockPointer
    /\ owner' = IF ownerValue.n = 0 THEN "drained" ELSE "waiting"
    /\ UNCHANGED <<WaitBlock, ownerValue>>
    /\ UNCHANGED threadVars

(* Fault: off by one in the test that skips the wait.                      *)
PublishWaitBlock_OffByOne ==
    /\ owner = "publish"
    /\ IF RunRef = ownerValue
       THEN /\ RunRef' = WaitBlockPointer
            /\ owner' = IF ownerValue.n <= 1 THEN "drained" ELSE "waiting"
            /\ UNCHANGED <<WaitBlock, ownerValue>>
       ELSE Prepare
    /\ UNCHANGED threadVars

PublishWaitBlock ==
    /\ owner = "publish"
    /\ IF RunRef = ownerValue
       THEN /\ RunRef' = WaitBlockPointer
            /\ owner' = IF ownerValue.n = 0 THEN "drained" ELSE "waiting"
            /\ UNCHANGED <<WaitBlock, ownerValue>>
       ELSE Prepare
    /\ UNCHANGED threadVars

(* Fault: the owner polls the count instead of waiting for the event.      *)
WaitSatisfied_PollsCount ==
    /\ owner = "waiting"
    /\ WaitBlock.Count = 0
    /\ owner' = "drained"
    /\ UNCHANGED <<RunRef, WaitBlock, ownerValue, threadVars>>

(* KeWaitForSingleObject on a synchronization event.                       *)
WaitSatisfied ==
    /\ owner = "waiting"
    /\ WaitBlock.signaled
    /\ WaitBlock' = [WaitBlock EXCEPT !.signaled = FALSE]
    /\ owner' = "drained"
    /\ UNCHANGED <<RunRef, ownerValue, threadVars>>

_ExRundownCompleted ==
    /\ owner = "drained"
    /\ RunRef' = EX_RUNDOWN_ACTIVE
    /\ owner' = "completed"
    /\ UNCHANGED <<WaitBlock, ownerValue, threadVars>>

ExfReInitializeRundownProtection ==
    /\ owner \in {"drained", "completed"}
    /\ RunRef' = CountWord(0)
    /\ owner' = "open"
    /\ UNCHANGED <<WaitBlock, ownerValue, threadVars>>

-----------------------------------------------------------------------------
ReleaseCall(t) == \/ _ExReleaseRundownProtection(t)
                  \/ ExfReleaseRundownProtectionEx(t)

AcquireCall(t) == \/ _ExAcquireRundownProtection(t)
                  \/ ExfAcquireRundownProtectionEx(t)

(* The steps a call takes once it has begun.                               *)
InCall(t) == \/ AcquireFastCAS(t)
             \/ ExfAcquireRundownProtection(t)
             \/ AcquireCAS(t)
             \/ ReleaseFastCAS(t)
             \/ ExfReleaseRundownProtection(t)
             \/ ReleaseCAS(t)
             \/ ReleaseWaitBlock(t)
             \/ SignalOwner(t)

OwnerStep == \/ _ExWaitForRundownProtectionRelease
             \/ ExfWaitForRundownProtectionRelease
             \/ PublishWaitBlock
             \/ WaitSatisfied
             \/ _ExRundownCompleted
             \/ ExfReInitializeRundownProtection

Next == \/ \E t \in Threads : AcquireCall(t) \/ ReleaseCall(t) \/ InCall(t)
        \/ OwnerStep

Spec == Init /\ [][Next]_vars

(***************************************************************************)
(* Threads are scheduled, so a call that has begun takes its next step and *)
(* a signalled wait is satisfied. Clients pair every successful acquire    *)
(* with a release (the contract of the interface): a reference that could  *)
(* be returned again and again is in the end returned, whatever else its   *)
(* holder does in between, failed acquires included.                       *)
(***************************************************************************)
Fairness == /\ \A t \in Threads : WF_vars(InCall(t))
            /\ WF_vars(WaitSatisfied)
            /\ SF_vars(\E t \in Threads : ReleaseCall(t))

FairSpec == Spec /\ Fairness

-----------------------------------------------------------------------------
(* The values the variables range over: no counter goes below zero.        *)
TypeOK ==
    /\ RunRef \in [active : BOOLEAN, n : Nat]
    /\ WaitBlock \in [Count : Nat, signaled : BOOLEAN]
    /\ pc \in [Threads -> {"idle", "acquireFast", "ExfAcquire", "acquireCAS",
                           "releaseFast", "ExfRelease", "releaseCAS",
                           "releaseBlock", "signal"}]
    /\ Value \in [Threads -> [active : BOOLEAN, n : Nat]]
    /\ op \in [Threads -> SUBSET Refs]
    /\ held \in SUBSET Refs
    /\ owner \in {"open", "ExfWait", "publish", "waiting", "drained", "completed"}
    /\ ownerValue \in [active : BOOLEAN, n : Nat]

(* When ExWaitForRundownProtectionRelease has returned, nobody holds a     *)
(* reference, so the owner may free what the descriptor protects.          *)
RundownProtects == owner \in {"drained", "completed"} => held = {}

(* A thread about to decrement the count in a wait block, or to signal its *)
(* event, finds the owner still inside its wait: the block, which lives on *)
(* the owner's stack, is not touched after the owner has returned.         *)
WaitBlockInUse ==
    \A t \in Threads :
        /\ pc[t] \in {"releaseBlock", "signal"} => owner = "waiting"
        /\ pc[t] = "releaseBlock" => Value[t] = WaitBlockPointer

(* The ASSERTs of rundown.c and ex.h: the publishing loop never meets an   *)
(* active word, the block's count is zero once the wait is over, and the   *)
(* active bit is set when the rundown is completed or the word reset.      *)
SanityChecks ==
    /\ owner = "publish" => ~ownerValue.active
    /\ owner = "waiting" /\ WaitBlock.signaled => WaitBlock.Count = 0
    /\ owner \in {"drained", "completed"} => RunRef.active

(* The word, or in a rundown the published wait block, counts exactly the  *)
(* references that are held: none is lost when the owner moves the count   *)
(* from the word to its block against concurrent acquires and releases.    *)
CountsReferences ==
    /\ ~RunRef.active => RunRef.n = Cardinality(held)
    /\ owner = "waiting" => WaitBlock.Count = Cardinality(held)

(* No step grants a reference while a rundown is active, even one whose    *)
(* caller read the word before the rundown began.                          *)
NoNewReference == [][RunRef.active => held' \subseteq held]_vars

(* The owner's wait ends: the last release always finds the wait block and *)
(* signals it, in whatever order releases and the publication happen.      *)
WaitReturns == owner = "waiting" ~> owner = "drained"

(***************************************************************************)
(* The inductive invariant: what every thread knows about the references   *)
(* its call is about, and where the owner and the signal are.              *)
(***************************************************************************)
Acquiring == {"acquireFast", "ExfAcquire", "acquireCAS"}
Releasing == {"releaseFast", "ExfRelease", "releaseCAS", "releaseBlock"}

(* A call works on references of its own: ones nobody has yet, or ones     *)
(* that are held and that no other call is giving back.                    *)
CallsOwnTheirRefs ==
    /\ \A t \in Threads :
          /\ pc[t] \in {"idle", "signal"} => op[t] = {}
          /\ pc[t] \in Acquiring => op[t] \cap held = {}
          /\ pc[t] \in Releasing => op[t] # {} /\ op[t] \subseteq held
    /\ \A t, u \in Threads : t # u => op[t] \cap op[u] = {}

(* Local copies of the word that a compare-exchange will be tried with.    *)
LocalCopies ==
    /\ \A t \in Threads :
          pc[t] \in {"acquireFast", "acquireCAS", "releaseFast", "releaseCAS"}
              => ~Value[t].active
    /\ owner = "publish" => WaitBlock = [Count |-> ownerValue.n, signaled |-> FALSE]

(* The active bit is set exactly from the publication to the reset.        *)
WordFollowsOwner ==
    /\ RunRef.active <=> owner \in {"waiting", "drained", "completed"}
    /\ owner = "waiting" => RunRef = WaitBlockPointer
    /\ owner = "completed" => RunRef = EX_RUNDOWN_ACTIVE

(* There is one signal per rundown, sent when nothing is held any more.    *)
OneSignal ==
    /\ owner = "waiting" /\ held # {} => ~WaitBlock.signaled
    /\ \A t \in Threads : pc[t] = "signal" => held = {} /\ ~WaitBlock.signaled
    /\ \A t, u \in Threads : pc[t] = "signal" /\ pc[u] = "signal" => t = u

IInv == /\ TypeOK
        /\ CallsOwnTheirRefs
        /\ LocalCopies
        /\ WordFollowsOwner
        /\ OneSignal
        /\ RundownProtects
        /\ WaitBlockInUse
        /\ SanityChecks
        /\ CountsReferences

(* The descriptor implements the promise of RundownSpec.                   *)
phase == IF ~RunRef.active THEN "open"
         ELSE IF owner = "waiting" THEN "closing" ELSE "closed"

Abstract == INSTANCE RundownSpec WITH Refs <- Refs, phase <- phase, held <- held

Implements == Abstract!Spec
=============================================================================
