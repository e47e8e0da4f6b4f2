--------------------------- MODULE RundownProofs ---------------------------
(***************************************************************************)
(* Proofs about Rundown, for any set of threads and any finite set of      *)
(* references. IInv is inductive; every safety property the runs check     *)
(* follows from it, and so does the refinement of RundownSpec.             *)
(***************************************************************************)
EXTENDS Rundown, FiniteSetTheorems, TLAPS

(* Sizes of the sets of references the word counts.                        *)
LEMMA RefCounts ==
    ASSUME NEW H \in SUBSET Refs, NEW S \in SUBSET Refs
    PROVE  /\ Cardinality(H) \in Nat
           /\ Cardinality(H) = 0 <=> H = {}
           /\ H \cap S = {} => Cardinality(H \cup S) = Cardinality(H) + Cardinality(S)
           /\ S \subseteq H => Cardinality(H \ S) = Cardinality(H) - Cardinality(S)
<1>1. IsFiniteSet(H) /\ IsFiniteSet(S)
  BY RefsAssumption, FS_Subset
<1>2. Cardinality(H) \in Nat /\ Cardinality(S) \in Nat
  BY <1>1, FS_CardinalityType
<1>3. Cardinality(H) = 0 <=> H = {}
  BY <1>1, FS_EmptySet
<1>4. ASSUME H \cap S = {}
      PROVE  Cardinality(H \cup S) = Cardinality(H) + Cardinality(S)
  <2>1. Cardinality(H \cap S) = 0
    BY <1>4, FS_EmptySet
  <2>2. Cardinality(H \cup S) = Cardinality(H) + Cardinality(S) - Cardinality(H \cap S)
    BY <1>1, FS_Union
  <2> QED
    BY <2>1, <2>2, <1>2
<1>5. ASSUME S \subseteq H
      PROVE  Cardinality(H \ S) = Cardinality(H) - Cardinality(S)
  <2>1. H \cap S = S
    BY <1>5
  <2> QED
    BY <2>1, <1>1, FS_Difference
<1> QED
  BY <1>2, <1>3, <1>4, <1>5

(* The same for the references of a call and those that are held.          *)
LEMMA CallCounts ==
    ASSUME TypeOK, NEW t \in Threads
    PROVE  /\ Cardinality(held) \in Nat
           /\ Cardinality(held) = 0 <=> held = {}
           /\ Cardinality(op[t]) \in Nat
           /\ op[t] \cap held = {} =>
                 Cardinality(held \cup op[t]) = Cardinality(held) + Cardinality(op[t])
           /\ Cardinality(held \ op[t]) \in Nat
           /\ Cardinality(held \ op[t]) = 0 <=> held \ op[t] = {}
           /\ op[t] \subseteq held =>
                 Cardinality(held \ op[t]) = Cardinality(held) - Cardinality(op[t])
<1>1. op[t] \in SUBSET Refs /\ held \in SUBSET Refs /\ held \ op[t] \in SUBSET Refs
  BY DEF TypeOK
<1>2. held \cap op[t] = op[t] \cap held
  OBVIOUS
<1> QED
  BY <1>1, <1>2, RefCounts

LEMMA InitInv == Init => IInv
<1> SUFFICES ASSUME Init PROVE IInv
  OBVIOUS
<1> Cardinality({}) = 0
  BY FS_EmptySet
<1> QED
  BY DEF Init, IInv, TypeOK, CallsOwnTheirRefs, LocalCopies, WordFollowsOwner,
         OneSignal, RundownProtects, WaitBlockInUse, SanityChecks,
         CountsReferences, CountWord, Acquiring, Releasing

-----------------------------------------------------------------------------
(* What a thread's steps do, one lemma per effect.                         *)

(* A call begins, with references of its own.                              *)
LEMMA CallBegins ==
    ASSUME IInv, NEW t \in Threads, pc[t] = "idle",
           NEW S \in SUBSET Refs, S \cap Busy = {}, op' = [op EXCEPT ![t] = S],
           NEW label \in (Acquiring \cup Releasing) \ {"acquireCAS", "releaseCAS", "releaseBlock"},
           Goto(t, label),
           label \in Acquiring => S \cap held = {},
           label \in Releasing => S # {} /\ S \subseteq held,
           Value' = Value \/ Value' = [Value EXCEPT ![t] = Masked(RunRef)],
           label \in {"acquireFast", "releaseFast"} =>
               Value' = [Value EXCEPT ![t] = Masked(RunRef)],
           UNCHANGED <<RunRef, WaitBlock, held, ownerVars>>
    PROVE  IInv'
<1> USE DEF IInv, Goto, ownerVars
<1>1. TypeOK'
  <2>1. Masked(RunRef) \in [active : BOOLEAN, n : Nat]
    BY DEF TypeOK, Masked, CountWord
  <2>2. Value' \in [Threads -> [active : BOOLEAN, n : Nat]]
    BY <2>1 DEF TypeOK
  <2> QED
    BY <2>2 DEF TypeOK, Acquiring, Releasing
<1>2. CallsOwnTheirRefs'
  BY DEF TypeOK, CallsOwnTheirRefs, Acquiring, Releasing, Busy
<1>3. LocalCopies'
  BY DEF TypeOK, LocalCopies, Acquiring, Releasing, Masked, CountWord
<1>4. OneSignal' /\ WaitBlockInUse'
  BY DEF TypeOK, OneSignal, WaitBlockInUse, Acquiring, Releasing
<1> QED
  BY <1>1, <1>2, <1>3, <1>4
     DEF WordFollowsOwner, RundownProtects, SanityChecks, CountsReferences

(* The fast path fails and the slow path is entered.                       *)
LEMMA FallsBack ==
    ASSUME IInv, NEW t \in Threads,
           \/ pc[t] = "acquireFast" /\ Goto(t, "ExfAcquire")
           \/ pc[t] = "releaseFast" /\ Goto(t, "ExfRelease"),
           UNCHANGED <<RunRef, Value, op, held, WaitBlock, ownerVars>>
    PROVE  IInv'
<1> USE DEF IInv, Goto, ownerVars
<1>1. TypeOK'
  BY DEF TypeOK
<1>2. CallsOwnTheirRefs'
  BY DEF TypeOK, CallsOwnTheirRefs, Acquiring, Releasing
<1>3. LocalCopies' /\ OneSignal' /\ WaitBlockInUse'
  BY DEF TypeOK, LocalCopies, OneSignal, WaitBlockInUse
<1> QED
  BY <1>1, <1>2, <1>3
     DEF WordFollowsOwner, RundownProtects, SanityChecks, CountsReferences

(* A compare-exchange of an acquire succeeds.                              *)
LEMMA Grants ==
    ASSUME IInv, NEW t \in Threads, pc[t] \in {"acquireFast", "acquireCAS"},
           RunRef = Value[t], Grant(t), UNCHANGED <<WaitBlock, ownerVars>>
    PROVE  IInv'
<1> USE DEF IInv, Goto, Finish, ownerVars
<1>1. /\ ~RunRef.active
      /\ RunRef.n = Cardinality(held)
      /\ op[t] \cap held = {}
      /\ owner \in {"open", "ExfWait", "publish"}
  BY DEF TypeOK, LocalCopies, CountsReferences, CallsOwnTheirRefs, Acquiring, WordFollowsOwner
<1>2. /\ held' = held \cup op[t]
      /\ pc' = [pc EXCEPT ![t] = "idle"]
      /\ op' = [op EXCEPT ![t] = {}]
      /\ UNCHANGED <<Value, WaitBlock, owner, ownerValue>>
      /\ RunRef' = [active |-> FALSE, n |-> Cardinality(held')]
  BY <1>1, CallCounts DEF Grant, CountWord
<1>3. held' \in SUBSET Refs /\ Cardinality(held') \in Nat
  BY <1>2, RefCounts DEF TypeOK
<1>4. TypeOK'
  BY <1>2, <1>3 DEF TypeOK
<1>5. CallsOwnTheirRefs'
  BY <1>2 DEF TypeOK, CallsOwnTheirRefs, Acquiring, Releasing
<1>6. LocalCopies' /\ OneSignal' /\ WaitBlockInUse'
  BY <1>1, <1>2 DEF TypeOK, LocalCopies, OneSignal, WaitBlockInUse
<1>7. WordFollowsOwner' /\ RundownProtects' /\ SanityChecks' /\ CountsReferences'
  BY <1>1, <1>2 DEF WordFollowsOwner, RundownProtects, SanityChecks, CountsReferences
<1> QED
  BY <1>4, <1>5, <1>6, <1>7

(* An acquire looks at the word: it is refused or tries (again).           *)
LEMMA TestsForAcquire ==
    ASSUME IInv, NEW t \in Threads, pc[t] \in {"ExfAcquire", "acquireCAS"},
           TestForAcquire(t), UNCHANGED <<WaitBlock, ownerVars>>
    PROVE  IInv'
<1> USE DEF IInv, Goto, Finish, ownerVars, TestForAcquire
<1>1. TypeOK'
  BY DEF TypeOK
<1>2. CallsOwnTheirRefs'
  BY DEF TypeOK, CallsOwnTheirRefs, Acquiring, Releasing
<1>3. LocalCopies'
  BY DEF TypeOK, LocalCopies
<1>4. OneSignal' /\ WaitBlockInUse'
  BY SMTT(40) DEF TypeOK, OneSignal, WaitBlockInUse
<1> QED
  BY <1>1, <1>2, <1>3, <1>4
     DEF WordFollowsOwner, RundownProtects, SanityChecks, CountsReferences

(* A compare-exchange of a release succeeds.                               *)
LEMMA Subtracts ==
    ASSUME IInv, NEW t \in Threads, pc[t] \in {"releaseFast", "releaseCAS"},
           RunRef = Value[t], Subtract(t), UNCHANGED <<WaitBlock, ownerVars>>
    PROVE  IInv'
<1> USE DEF IInv, Goto, Finish, ownerVars
<1>1. /\ ~RunRef.active
      /\ RunRef.n = Cardinality(held)
      /\ op[t] \subseteq held
      /\ owner \in {"open", "ExfWait", "publish"}
  BY DEF TypeOK, LocalCopies, CountsReferences, CallsOwnTheirRefs, Releasing, WordFollowsOwner
<1>2. /\ held' = held \ op[t]
      /\ pc' = [pc EXCEPT ![t] = "idle"]
      /\ op' = [op EXCEPT ![t] = {}]
      /\ UNCHANGED <<Value, WaitBlock, owner, ownerValue>>
      /\ RunRef' = [active |-> FALSE, n |-> Cardinality(held')]
  BY <1>1, CallCounts DEF Subtract, Drop, CountWord
<1>3. held' \in SUBSET Refs /\ Cardinality(held') \in Nat
  BY <1>2, RefCounts DEF TypeOK
<1>4. TypeOK'
  BY <1>2, <1>3 DEF TypeOK
<1>5. CallsOwnTheirRefs'
  BY <1>2 DEF TypeOK, CallsOwnTheirRefs, Acquiring, Releasing
<1>6. LocalCopies' /\ OneSignal' /\ WaitBlockInUse'
  BY <1>1, <1>2 DEF TypeOK, LocalCopies, OneSignal, WaitBlockInUse
<1>7. WordFollowsOwner' /\ RundownProtects' /\ SanityChecks' /\ CountsReferences'
  BY <1>1, <1>2 DEF WordFollowsOwner, RundownProtects, SanityChecks, CountsReferences
<1> QED
  BY <1>4, <1>5, <1>6, <1>7

(* A release looks at the word. What it holds keeps the owner in its wait. *)
LEMMA TestsForRelease ==
    ASSUME IInv, NEW t \in Threads, pc[t] \in {"ExfRelease", "releaseCAS"},
           TestForRelease(t), UNCHANGED <<WaitBlock, ownerVars>>
    PROVE  IInv'
<1> USE DEF IInv, Goto, ownerVars, TestForRelease
<1>1. op[t] # {} /\ op[t] \subseteq held /\ held # {}
  BY DEF CallsOwnTheirRefs, Releasing
<1>2. RunRef.active => owner = "waiting" /\ RunRef = WaitBlockPointer
  BY <1>1 DEF WordFollowsOwner, RundownProtects
<1>3. TypeOK'
  BY DEF TypeOK
<1>4. CallsOwnTheirRefs'
  BY <1>1 DEF TypeOK, CallsOwnTheirRefs, Acquiring, Releasing
<1>5. LocalCopies'
  BY DEF TypeOK, LocalCopies
<1>6. OneSignal'
  BY DEF TypeOK, OneSignal
<1>7. WaitBlockInUse'
  BY <1>2 DEF TypeOK, WaitBlockInUse, WaitBlockPointer
<1> QED
  BY <1>3, <1>4, <1>5, <1>6, <1>7
     DEF WordFollowsOwner, RundownProtects, SanityChecks, CountsReferences

(* References are taken off the published wait block.                      *)
LEMMA TakesOffWaitBlock ==
    ASSUME IInv, NEW t \in Threads, ReleaseWaitBlock(t)
    PROVE  IInv'
<1> USE DEF IInv, Goto, ownerVars
<1>1. /\ owner = "waiting"
      /\ op[t] # {} /\ op[t] \subseteq held
      /\ WaitBlock.Count = Cardinality(held)
      /\ pc[t] = "releaseBlock"
  BY DEF ReleaseWaitBlock, WaitBlockInUse, CallsOwnTheirRefs, Releasing, CountsReferences
<1>2. ~WaitBlock.signaled /\ \A u \in Threads : pc[u] # "signal"
  BY <1>1 DEF OneSignal
<1>3. held' = held \ op[t] /\ held' \in SUBSET Refs
  BY DEF ReleaseWaitBlock, Drop, TypeOK
<1>4. /\ Cardinality(held') \in Nat
      /\ Cardinality(held') = 0 <=> held' = {}
  BY <1>3, RefCounts
<1>5. /\ op' = [op EXCEPT ![t] = {}]
      /\ UNCHANGED <<RunRef, Value, owner, ownerValue>>
      /\ WaitBlock' = [Count |-> Cardinality(held'), signaled |-> FALSE]
      /\ pc' = [pc EXCEPT ![t] = IF held' = {} THEN "signal" ELSE "idle"]
  <2>1. Cardinality(held') = Cardinality(held) - Cardinality(op[t])
    BY <1>1, <1>3, CallCounts
  <2>2. WaitBlock' = [Count |-> Cardinality(held'), signaled |-> FALSE]
    BY <2>1, <1>1, <1>2 DEF ReleaseWaitBlock, TypeOK
  <2>3. WaitBlock'.Count = 0 <=> held' = {}
    BY <2>2, <1>4
  <2> QED
    BY <2>2, <2>3 DEF ReleaseWaitBlock
<1>6. TypeOK'
  BY <1>3, <1>4, <1>5 DEF TypeOK
<1>7. CallsOwnTheirRefs'
  BY <1>3, <1>5 DEF TypeOK, CallsOwnTheirRefs, Acquiring, Releasing
<1>8. LocalCopies'
  BY <1>1, <1>5 DEF TypeOK, LocalCopies
<1>9. OneSignal'
  BY <1>2, <1>3, <1>5 DEF TypeOK, OneSignal
<1>10. WaitBlockInUse'
  BY <1>1, <1>5 DEF TypeOK, WaitBlockInUse
<1>11. WordFollowsOwner' /\ RundownProtects' /\ SanityChecks' /\ CountsReferences'
  BY <1>1, <1>5 DEF WordFollowsOwner, RundownProtects, SanityChecks, CountsReferences,
                    WaitBlockPointer
<1> QED
  BY <1>6, <1>7, <1>8, <1>9, <1>10, <1>11

(* The last holder signals the owner's event.                              *)
LEMMA Signals ==
    ASSUME IInv, NEW t \in Threads, SignalOwner(t)
    PROVE  IInv'
<1> USE DEF IInv, Goto, ownerVars
<1>1. owner = "waiting" /\ held = {} /\ pc[t] = "signal"
  BY DEF SignalOwner, WaitBlockInUse, OneSignal
<1>2. /\ WaitBlock.Count = 0
      /\ WaitBlock' = [Count |-> 0, signaled |-> TRUE]
      /\ pc' = [pc EXCEPT ![t] = "idle"]
      /\ UNCHANGED <<RunRef, Value, op, held, owner, ownerValue>>
  BY <1>1, FS_EmptySet DEF SignalOwner, CountsReferences, TypeOK
<1>3. TypeOK'
  BY <1>2 DEF TypeOK
<1>4. CallsOwnTheirRefs'
  BY <1>1, <1>2 DEF TypeOK, CallsOwnTheirRefs, Acquiring, Releasing
<1>5. LocalCopies'
  BY <1>1, <1>2 DEF TypeOK, LocalCopies
<1>6. OneSignal' /\ WaitBlockInUse'
  BY <1>1, <1>2 DEF TypeOK, OneSignal, WaitBlockInUse
<1>7. WordFollowsOwner' /\ RundownProtects' /\ SanityChecks' /\ CountsReferences'
  BY <1>1, <1>2, FS_EmptySet
     DEF WordFollowsOwner, RundownProtects, SanityChecks, CountsReferences
<1> QED
  BY <1>3, <1>4, <1>5, <1>6, <1>7

-----------------------------------------------------------------------------
(* What the owner's steps do.                                              *)

(* The owner finds nothing held and sets the active bit.                   *)
LEMMA Activates ==
    ASSUME IInv, owner \in {"open", "ExfWait", "completed"},
           RunRef \in {CountWord(0), EX_RUNDOWN_ACTIVE},
           RunRef' = EX_RUNDOWN_ACTIVE, owner' = "drained",
           UNCHANGED <<WaitBlock, ownerValue, threadVars>>
    PROVE  IInv'
<1> USE DEF IInv, threadVars
<1>1. held = {}
  <2>1. Cardinality(held) = 0 <=> held = {}
    BY RefCounts DEF TypeOK
  <2>2. CASE ~RunRef.active
    BY <2>1, <2>2 DEF CountsReferences, CountWord, EX_RUNDOWN_ACTIVE
  <2>3. CASE RunRef.active
    BY <2>3 DEF WordFollowsOwner, RundownProtects
  <2> QED
    BY <2>2, <2>3
<1>2. RunRef'.active /\ TypeOK'
  BY DEF TypeOK, EX_RUNDOWN_ACTIVE
<1>3. CallsOwnTheirRefs' /\ LocalCopies' /\ OneSignal' /\ WaitBlockInUse'
  BY <1>1 DEF CallsOwnTheirRefs, LocalCopies, OneSignal, WaitBlockInUse
<1> QED
  BY <1>1, <1>2, <1>3
     DEF WordFollowsOwner, RundownProtects, SanityChecks, CountsReferences

(* The owner copies the count into its private wait block.                 *)
LEMMA Prepares ==
    ASSUME IInv, owner \in {"ExfWait", "publish"}, Prepare, UNCHANGED threadVars
    PROVE  IInv'
<1> USE DEF IInv, threadVars, Prepare
<1>1. ~RunRef.active
  BY DEF WordFollowsOwner
<1>2. TypeOK'
  BY DEF TypeOK
<1>3. CallsOwnTheirRefs' /\ LocalCopies' /\ OneSignal' /\ WaitBlockInUse'
  BY DEF CallsOwnTheirRefs, LocalCopies, OneSignal, WaitBlockInUse
<1> QED
  BY <1>1, <1>2, <1>3
     DEF WordFollowsOwner, RundownProtects, SanityChecks, CountsReferences

(* The owner's compare-exchange publishes the block.                       *)
LEMMA Publishes ==
    ASSUME IInv, owner = "publish", RunRef = ownerValue,
           RunRef' = WaitBlockPointer,
           owner' = IF ownerValue.n = 0 THEN "drained" ELSE "waiting",
           UNCHANGED <<WaitBlock, ownerValue, threadVars>>
    PROVE  IInv'
<1> USE DEF IInv, threadVars
<1>1. /\ ~RunRef.active
      /\ RunRef.n = Cardinality(held)
      /\ WaitBlock.Count = Cardinality(held)
      /\ ~WaitBlock.signaled
      /\ \A t \in Threads : pc[t] \notin {"releaseBlock", "signal"}
  BY DEF WordFollowsOwner, CountsReferences, LocalCopies, WaitBlockInUse
<1>2. ownerValue.n = 0 <=> held = {}
  BY <1>1, RefCounts DEF TypeOK
<1>3. RunRef'.active /\ TypeOK'
  BY AddrAssumption DEF TypeOK, WaitBlockPointer
<1>4. CallsOwnTheirRefs' /\ LocalCopies' /\ OneSignal' /\ WaitBlockInUse'
  BY <1>1 DEF CallsOwnTheirRefs, LocalCopies, OneSignal, WaitBlockInUse
<1> QED
  BY <1>1, <1>2, <1>3, <1>4
     DEF WordFollowsOwner, RundownProtects, SanityChecks, CountsReferences

(* The owner's wait is satisfied: nothing is held and nobody is about to   *)
(* touch the block.                                                        *)
LEMMA Wakes ==
    ASSUME IInv, WaitSatisfied
    PROVE  IInv'
<1> USE DEF IInv, threadVars
<1>1. /\ owner = "waiting" /\ WaitBlock.signaled
      /\ WaitBlock.Count = 0
      /\ RunRef = WaitBlockPointer /\ RunRef.active
  BY DEF WaitSatisfied, SanityChecks, WordFollowsOwner, WaitBlockPointer
<1>2. held = {}
  BY <1>1, RefCounts DEF TypeOK, CountsReferences
<1>3. \A t \in Threads : pc[t] \notin {"releaseBlock", "signal"}
  BY <1>1, <1>2 DEF OneSignal, CallsOwnTheirRefs, Releasing
<1>4. TypeOK'
  BY DEF WaitSatisfied, TypeOK
<1>5. CallsOwnTheirRefs' /\ LocalCopies' /\ OneSignal' /\ WaitBlockInUse'
  BY <1>2, <1>3 DEF WaitSatisfied, CallsOwnTheirRefs, LocalCopies, OneSignal, WaitBlockInUse
<1> QED
  BY <1>1, <1>2, <1>4, <1>5
     DEF WaitSatisfied, WordFollowsOwner, RundownProtects, SanityChecks, CountsReferences

(* The owner marks the rundown completed, or puts the word back to zero.   *)
LEMMA SetsWord ==
    ASSUME IInv, _ExRundownCompleted \/ ExfReInitializeRundownProtection
    PROVE  IInv'
<1> USE DEF IInv, threadVars, _ExRundownCompleted, ExfReInitializeRundownProtection
<1>1. held = {} /\ Cardinality(held) = 0
  BY FS_EmptySet DEF RundownProtects
<1>2. TypeOK'
  <2>1. /\ EX_RUNDOWN_ACTIVE \in [active : BOOLEAN, n : Nat]
        /\ CountWord(0) \in [active : BOOLEAN, n : Nat]
    BY DEF EX_RUNDOWN_ACTIVE, CountWord
  <2> QED
    BY <2>1 DEF TypeOK
<1>3. CallsOwnTheirRefs' /\ LocalCopies' /\ OneSignal' /\ WaitBlockInUse'
  BY DEF CallsOwnTheirRefs, LocalCopies, OneSignal, WaitBlockInUse
<1> QED
  BY <1>1, <1>2, <1>3
     DEF WordFollowsOwner, RundownProtects, SanityChecks, CountsReferences,
         EX_RUNDOWN_ACTIVE, CountWord

-----------------------------------------------------------------------------
(* Every step preserves the invariant, one case per action.                *)
LEMMA StepInv == IInv /\ [Next]_vars => IInv'
<1> SUFFICES ASSUME IInv, [Next]_vars PROVE IInv'
  OBVIOUS
<1>1. ASSUME NEW t \in Threads, _ExAcquireRundownProtection(t) PROVE IInv'
  <2>1. PICK r \in Refs \ (held \cup Busy) : op' = [op EXCEPT ![t] = {r}]
    BY <1>1 DEF _ExAcquireRundownProtection
  <2>2. {r} \in SUBSET Refs /\ {r} \cap Busy = {} /\ {r} \cap held = {}
    BY <2>1
  <2> QED
    BY <1>1, <2>1, <2>2, CallBegins DEF _ExAcquireRundownProtection, Acquiring, Releasing
<1>2. ASSUME NEW t \in Threads, ExfAcquireRundownProtectionEx(t) PROVE IInv'
  <2>1. PICK S \in (SUBSET (Refs \ (held \cup Busy))) \ {{}} : op' = [op EXCEPT ![t] = S]
    BY <1>2 DEF ExfAcquireRundownProtectionEx
  <2> QED
    BY <1>2, <2>1, CallBegins DEF ExfAcquireRundownProtectionEx, Acquiring, Releasing
<1>3. ASSUME NEW t \in Threads, _ExReleaseRundownProtection(t) PROVE IInv'
  <2>1. PICK r \in held \ Busy : op' = [op EXCEPT ![t] = {r}]
    BY <1>3 DEF _ExReleaseRundownProtection
  <2>2. {r} \in SUBSET Refs
    BY <2>1 DEF IInv, TypeOK
  <2> QED
    BY <1>3, <2>1, <2>2, CallBegins, ZenonT(40) DEF _ExReleaseRundownProtection, Acquiring, Releasing
<1>4. ASSUME NEW t \in Threads, ExfReleaseRundownProtectionEx(t) PROVE IInv'
  <2>1. PICK S \in (SUBSET (held \ Busy)) \ {{}} : op' = [op EXCEPT ![t] = S]
    BY <1>4 DEF ExfReleaseRundownProtectionEx
  <2>2. S \cap Busy = {} /\ S # {} /\ S \subseteq held
    BY <2>1
  <2>3. S \in SUBSET Refs
    BY <2>2 DEF IInv, TypeOK
  <2> QED
    BY <1>4, <2>1, <2>2, <2>3, CallBegins DEF ExfReleaseRundownProtectionEx, Acquiring, Releasing
<1>5. ASSUME NEW t \in Threads, InCall(t) PROVE IInv'
  <2>1. CASE AcquireFastCAS(t)
    BY <2>1, Grants, FallsBack DEF AcquireFastCAS
  <2>2. CASE ExfAcquireRundownProtection(t)
    BY <2>2, TestsForAcquire DEF ExfAcquireRundownProtection
  <2>3. CASE AcquireCAS(t)
    BY <2>3, Grants, TestsForAcquire DEF AcquireCAS
  <2>4. CASE ReleaseFastCAS(t)
    BY <2>4, Subtracts, FallsBack DEF ReleaseFastCAS
  <2>5. CASE ExfReleaseRundownProtection(t)
    BY <2>5, TestsForRelease DEF ExfReleaseRundownProtection
  <2>6. CASE ReleaseCAS(t)
    BY <2>6, Subtracts, TestsForRelease DEF ReleaseCAS
  <2> QED
    BY <1>5, <2>1, <2>2, <2>3, <2>4, <2>5, <2>6, TakesOffWaitBlock, Signals DEF InCall
<1>6. CASE _ExWaitForRundownProtectionRelease
  <2>1. CASE RunRef \in {CountWord(0), EX_RUNDOWN_ACTIVE}
    BY <1>6, <2>1, Activates DEF _ExWaitForRundownProtectionRelease, ActivateOr
  <2>2. CASE RunRef \notin {CountWord(0), EX_RUNDOWN_ACTIVE}
    <3>1. /\ owner = "open" /\ owner' = "ExfWait"
          /\ UNCHANGED <<RunRef, WaitBlock, ownerValue, threadVars>>
      BY <1>6, <2>2 DEF _ExWaitForRundownProtectionRelease, ActivateOr, IInv, WordFollowsOwner
    <3>2. TypeOK' /\ CallsOwnTheirRefs' /\ LocalCopies' /\ OneSignal' /\ WaitBlockInUse'
      BY <3>1 DEF IInv, threadVars, TypeOK, CallsOwnTheirRefs, LocalCopies, OneSignal, WaitBlockInUse
    <3> QED
      BY <3>1, <3>2 DEF IInv, threadVars, WordFollowsOwner, RundownProtects, SanityChecks,
                        CountsReferences
  <2> QED
    BY <2>1, <2>2
<1>7. CASE ExfWaitForRundownProtectionRelease
  BY <1>7, Activates, Prepares DEF ExfWaitForRundownProtectionRelease, ActivateOr
<1>8. CASE PublishWaitBlock
  BY <1>8, Publishes, Prepares DEF PublishWaitBlock
<1>9. CASE UNCHANGED vars
  BY <1>9 DEF vars, IInv, TypeOK, CallsOwnTheirRefs, LocalCopies, WordFollowsOwner,
              OneSignal, RundownProtects, WaitBlockInUse, SanityChecks, CountsReferences
<1> QED
  BY <1>1, <1>2, <1>3, <1>4, <1>5, <1>6, <1>7, <1>8, <1>9, Wakes, SetsWord
     DEF Next, OwnerStep, AcquireCall, ReleaseCall

(* The invariant holds in every reachable state.                           *)
THEOREM Invariance == Spec => []IInv
  BY InitInv, StepInv, PTL DEF Spec

(* No counter of rundown.c goes below zero and no state is malformed.      *)
THEOREM TypeCorrect == Spec => []TypeOK
<1> IInv => TypeOK
  BY DEF IInv
<1> QED
  BY Invariance, PTL

(* When the wait for a rundown has returned, no reference is held.         *)
THEOREM RundownSafe == Spec => []RundownProtects
<1> IInv => RundownProtects
  BY DEF IInv
<1> QED
  BY Invariance, PTL

(* The wait block on the owner's stack is touched only during its wait.    *)
THEOREM WaitBlockSafe == Spec => []WaitBlockInUse
<1> IInv => WaitBlockInUse
  BY DEF IInv
<1> QED
  BY Invariance, PTL

(* The ASSERTs of the code hold.                                           *)
THEOREM AssertionsHold == Spec => []SanityChecks
<1> IInv => SanityChecks
  BY DEF IInv
<1> QED
  BY Invariance, PTL

(* The word or the wait block counts exactly the references held.          *)
THEOREM CountCorrect == Spec => []CountsReferences
<1> IInv => CountsReferences
  BY DEF IInv
<1> QED
  BY Invariance, PTL

(* The steps that change the set of held references.                       *)
LEMMA HeldChanges ==
    ASSUME IInv, [Next]_vars
    PROVE  \/ ~RunRef.active /\ held \subseteq held' /\ held' \subseteq Refs /\ RunRef'.active = RunRef.active
           \/ held' \subseteq held /\ RunRef'.active = RunRef.active /\ owner' = owner
           \/ held' = held
<1>1. ASSUME NEW t \in Threads, Grant(t), RunRef = Value[t],
             pc[t] \in {"acquireFast", "acquireCAS"}
      PROVE  ~RunRef.active /\ held \subseteq held' /\ held' \subseteq Refs /\ RunRef'.active = RunRef.active
  BY <1>1 DEF IInv, TypeOK, LocalCopies, Grant, CountWord
<1>2. ASSUME NEW t \in Threads, Subtract(t), RunRef = Value[t],
             pc[t] \in {"releaseFast", "releaseCAS"}
      PROVE  held' \subseteq held /\ RunRef'.active = RunRef.active
  BY <1>2 DEF IInv, TypeOK, LocalCopies, Subtract, Drop, CountWord
<1>3. ASSUME NEW t \in Threads, InCall(t)
      PROVE  \/ ~RunRef.active /\ held \subseteq held' /\ held' \subseteq Refs /\ RunRef'.active = RunRef.active
             \/ held' \subseteq held /\ RunRef'.active = RunRef.active /\ owner' = owner
             \/ held' = held
  BY <1>1, <1>2, <1>3
     DEF InCall, AcquireFastCAS, ExfAcquireRundownProtection, AcquireCAS, ReleaseFastCAS,
         ExfReleaseRundownProtection, ReleaseCAS, ReleaseWaitBlock, SignalOwner,
         TestForAcquire, TestForRelease, Drop, ownerVars
<1> QED
  BY <1>3 DEF Next, vars, OwnerStep, AcquireCall, ReleaseCall, threadVars,
      _ExAcquireRundownProtection, ExfAcquireRundownProtectionEx,
      _ExReleaseRundownProtection, ExfReleaseRundownProtectionEx,
      _ExWaitForRundownProtectionRelease, ExfWaitForRundownProtectionRelease,
      PublishWaitBlock, WaitSatisfied, _ExRundownCompleted,
      ExfReInitializeRundownProtection

(* No reference is granted once the active bit is set.                     *)
THEOREM NoReferenceInRundown == Spec => NoNewReference
<1>1. IInv /\ [Next]_vars => [RunRef.active => held' \subseteq held]_vars
  BY HeldChanges
<1> QED
  BY <1>1, Invariance, PTL DEF Spec, NoNewReference

-----------------------------------------------------------------------------
(* The refinement of RundownSpec.                                          *)

LEMMA InitRefines == Init => Abstract!Init
  BY DEF Init, Abstract!Init, phase, CountWord

LEMMA StepRefines ==
    IInv /\ IInv' /\ [Next]_vars => [Abstract!Next]_(Abstract!vars)
<1> SUFFICES ASSUME IInv, IInv', [Next]_vars, ~UNCHANGED Abstract!vars
             PROVE  Abstract!Next
  OBVIOUS
<1>1. ASSUME NEW t \in Threads, AcquireCall(t) \/ ReleaseCall(t) PROVE FALSE
  BY <1>1 DEF AcquireCall, ReleaseCall, _ExAcquireRundownProtection,
      ExfAcquireRundownProtectionEx, _ExReleaseRundownProtection,
      ExfReleaseRundownProtectionEx, ownerVars, phase, Abstract!vars
<1>2. ASSUME NEW t \in Threads, InCall(t) PROVE Abstract!Next
  <2>1. owner' = owner
    BY <1>2 DEF InCall, AcquireFastCAS, ExfAcquireRundownProtection, AcquireCAS, ReleaseFastCAS,
         ExfReleaseRundownProtection, ReleaseCAS, ReleaseWaitBlock, SignalOwner, ownerVars
  <2>2. RunRef'.active <=> RunRef.active
    BY <2>1 DEF IInv, WordFollowsOwner
  <2>3. UNCHANGED phase
    BY <2>1, <2>2 DEF phase
  <2>4. CASE ~RunRef.active /\ held \subseteq held' /\ held' \subseteq Refs
    <3>1. held' = held \cup (held' \ held) /\ held' \ held \in SUBSET (Refs \ held)
      BY <2>4
    <3> QED
      BY <2>3, <2>4, <3>1 DEF Abstract!Next, Abstract!Acquire, phase
  <2>5. CASE held' \subseteq held
    <3>1. held' = held \ (held \ held') /\ held \ held' \in SUBSET held
      BY <2>5
    <3> QED
      BY <2>3, <3>1 DEF Abstract!Next, Abstract!Release
  <2> QED
    BY <2>4, <2>5, HeldChanges
<1>3. CASE OwnerStep
  <2>1. UNCHANGED held
    BY <1>3 DEF OwnerStep, threadVars, _ExWaitForRundownProtectionRelease,
        ExfWaitForRundownProtectionRelease, PublishWaitBlock, WaitSatisfied,
        _ExRundownCompleted, ExfReInitializeRundownProtection
  <2>2. phase' # phase
    BY <2>1 DEF Abstract!vars
  <2>3. CASE phase = "open"
    <3>1. phase' = IF held = {} THEN "closed" ELSE "closing"
      <4>1. ~RunRef.active /\ RunRef'.active
        BY <2>2, <2>3 DEF phase
      <4>2. owner' = "waiting" => held # {}
        <5>1. owner' = "waiting" => PublishWaitBlock /\ owner = "publish" /\ RunRef = ownerValue /\ ownerValue.n # 0
          BY <1>3, <4>1 DEF OwnerStep, _ExWaitForRundownProtectionRelease, ActivateOr, Prepare,
              ExfWaitForRundownProtectionRelease, PublishWaitBlock, WaitSatisfied,
              _ExRundownCompleted, ExfReInitializeRundownProtection
        <5> QED
          BY <5>1, <4>1, FS_EmptySet DEF IInv, CountsReferences
      <4>3. owner' # "waiting" => held = {}
        BY <4>1, <2>1 DEF IInv, WordFollowsOwner, RundownProtects
      <4> QED
        BY <4>1, <4>2, <4>3 DEF phase
    <3> QED
      BY <2>1, <2>3, <3>1 DEF Abstract!Next, Abstract!Close
  <2>4. CASE phase = "closing"
    <3>1. owner = "waiting" /\ RunRef.active
      BY <2>4 DEF phase
    <3>2. WaitSatisfied
      BY <1>3, <3>1 DEF OwnerStep, _ExWaitForRundownProtectionRelease,
              ExfWaitForRundownProtectionRelease, PublishWaitBlock,
              _ExRundownCompleted, ExfReInitializeRundownProtection
    <3>3. owner' = "drained" /\ RunRef' = RunRef
      BY <3>2 DEF WaitSatisfied
    <3>4. held = {} /\ phase' = "closed"
      BY <3>1, <3>3, <2>1 DEF phase, IInv, RundownProtects
    <3> QED
      BY <2>1, <2>4, <3>4 DEF Abstract!Next, Abstract!Drain
  <2>5. CASE phase = "closed"
    <3>1. RunRef.active /\ owner \in {"drained", "completed"}
      BY <2>5 DEF phase, IInv, WordFollowsOwner
    <3>2. owner' # "waiting"
      BY <1>3, <3>1 DEF OwnerStep, _ExWaitForRundownProtectionRelease, ActivateOr,
              ExfWaitForRundownProtectionRelease, PublishWaitBlock, WaitSatisfied,
              _ExRundownCompleted, ExfReInitializeRundownProtection
    <3>3. phase' = "open"
      BY <2>2, <2>5, <3>2 DEF phase
    <3> QED
      BY <2>1, <2>5, <3>3 DEF Abstract!Next, Abstract!Reopen
  <2> QED
    BY <2>3, <2>4, <2>5 DEF phase
<1>4. CASE UNCHANGED vars
  BY <1>4 DEF vars, phase, Abstract!vars
<1> QED
  BY <1>1, <1>2, <1>3, <1>4 DEF Next

(* The descriptor implements the promise made to its clients.              *)
THEOREM Refinement == Spec => Implements
<1>1. Abstract!Spec <=> Abstract!Init /\ [][Abstract!Next]_(Abstract!vars)
  BY DEF Abstract!Spec
<1> QED
  BY <1>1, InitRefines, StepRefines, Invariance, PTL DEF Spec, Implements
=============================================================================
