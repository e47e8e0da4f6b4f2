------------------------- MODULE RundownCacheAware -------------------------
(***************************************************************************)
(* Cache-aware rundown protection (ntoskrnl/ex/rundown.c): one word per    *)
(* processor, one wait block for all of them. A reference may be taken on  *)
(* one processor and given back on another, so the count in a single word  *)
(* may be negative; only the sum means anything.                           *)
(*                                                                         *)
(* The read and compare-exchange loops on a word are one step here: nothing *)
(* but the word decides what they do (Rundown models the loops). What a    *)
(* release does after it has read a wait-block pointer is several steps.   *)
(***************************************************************************)
EXTENDS Integers, FiniteSets

CONSTANTS Threads,
          Refs,
          KeNumberProcessors,
          Number,              \* of words; a processor uses word p % Number
          MaxSkew              \* bound: how far a word's count may stray from zero

ASSUME SizesAssumption == /\ KeNumberProcessors \in Nat \ {0}
                          /\ Number \in Nat \ {0}
                          /\ IsFiniteSet(Refs)

VARIABLES RunRefs,             \* the words
          WaitBlock,           \* on the stack of the waiting owner
          pc, op,              \* as in Rundown
          held,
          owner,
          Current,             \* the owner's loop index
          TotalCount,          \* the owner's sum of the counts it replaced
          damaged              \* history: see Damages

vars == <<RunRefs, WaitBlock, pc, op, held, owner, Current, TotalCount, damaged>>

Words == 0 .. Number - 1

CountWord(k) == [active |-> FALSE, ptr |-> "none", n |-> k]
EX_RUNDOWN_ACTIVE == [active |-> TRUE, ptr |-> "NULL", n |-> 0]
WaitBlockPointer == [active |-> TRUE, ptr |-> "WaitBlock", n |-> 0]

(* ExGetRunRefForGivenProcessor                                            *)
RunRefForProcessor(p) == p % Number

Init == /\ RunRefs = [w \in Words |-> CountWord(0)]
        /\ WaitBlock = [Count |-> 0, signaled |-> FALSE]
        /\ pc = [t \in Threads |-> "idle"]
        /\ op = [t \in Threads |-> {}]
        /\ held = {}
        /\ owner = "open"
        /\ Current = 0
        /\ TotalCount = 0
        /\ damaged = FALSE

ownerVars == <<owner, Current, TotalCount, damaged>>

Busy == UNION {op[t] : t \in Threads}

-----------------------------------------------------------------------------
(* The owner's stack frame, and with it the wait block, exists from the    *)
(* first publication until the wait returns.                               *)
FrameIsLive == owner \in {"publishing", "deciding", "waiting", "skipping"}

(* Two things spoil the counts for good: a wait that is skipped while      *)
(* references are held, and a release that meets a word still holding the  *)
(* pointer of a finished rundown (its reference was taken on a word that   *)
(* the loop of ReInitializeCacheAware had already reset).                  *)
Damages(event) == damaged' = (damaged \/ event)

(* A refused acquire changes nothing.                                      *)
AcquireCacheAware(t) ==
    /\ pc[t] = "idle"
    /\ \E p \in 0 .. KeNumberProcessors - 1, S \in (SUBSET (Refs \ (held \cup Busy))) \ {{}} :
          LET w == RunRefForProcessor(p) IN
          /\ ~RunRefs[w].active
          /\ RunRefs[w].n + Cardinality(S) <= MaxSkew
          /\ RunRefs' = [RunRefs EXCEPT ![w] = CountWord(@.n + Cardinality(S))]
          /\ held' = held \cup S
    /\ UNCHANGED <<WaitBlock, pc, op, ownerVars>>

ReleaseCacheAware(t) ==
    /\ pc[t] = "idle"
    /\ \E p \in 0 .. KeNumberProcessors - 1, S \in (SUBSET (held \ Busy)) \ {{}} :
          LET w == RunRefForProcessor(p) IN
          IF ~RunRefs[w].active
          THEN /\ RunRefs[w].n - Cardinality(S) >= -MaxSkew
               /\ RunRefs' = [RunRefs EXCEPT ![w] = CountWord(@.n - Cardinality(S))]
               /\ held' = held \ S
               /\ UNCHANGED <<pc, op, damaged>>
          ELSE /\ op' = [op EXCEPT ![t] = S]
               /\ pc' = [pc EXCEPT ![t] = IF RunRefs[w].ptr = "NULL" THEN "bugcheck"
                                                                     ELSE "releaseBlock"]
               /\ Damages(~FrameIsLive)
               /\ UNCHANGED <<RunRefs, held>>
    /\ UNCHANGED <<WaitBlock, owner, Current, TotalCount>>

(* Fault: a release that takes the count below zero signals too.           *)
ReleaseWaitBlock_SignalsBelowZero(t) ==
    /\ pc[t] = "releaseBlock"
    /\ held' = held \ op[t]
    /\ op' = [op EXCEPT ![t] = {}]
    /\ IF FrameIsLive
       THEN /\ WaitBlock' = [WaitBlock EXCEPT !.Count = @ - Cardinality(op[t])]
            /\ pc' = [pc EXCEPT ![t] = IF WaitBlock'.Count <= 0 THEN "signal" ELSE "idle"]
       ELSE /\ pc' \in {[pc EXCEPT ![t] = "signal"], [pc EXCEPT ![t] = "idle"]}
            /\ UNCHANGED WaitBlock
    /\ UNCHANGED <<RunRefs, ownerVars>>

(* Once the frame is gone the decrement hits whatever is on the stack now, *)
(* which may or may not make the releaser believe it was the last.         *)
ReleaseWaitBlock(t) ==
    /\ pc[t] = "releaseBlock"
    /\ held' = held \ op[t]
    /\ op' = [op EXCEPT ![t] = {}]
    /\ IF FrameIsLive
       THEN /\ WaitBlock' = [WaitBlock EXCEPT !.Count = @ - Cardinality(op[t])]
            /\ pc' = [pc EXCEPT ![t] = IF WaitBlock'.Count = 0 THEN "signal" ELSE "idle"]
       ELSE /\ pc' \in {[pc EXCEPT ![t] = "signal"], [pc EXCEPT ![t] = "idle"]}
            /\ UNCHANGED WaitBlock
    /\ UNCHANGED <<RunRefs, ownerVars>>

SignalOwner(t) ==
    /\ pc[t] = "signal"
    /\ WaitBlock' = [WaitBlock EXCEPT !.signaled = @ \/ FrameIsLive]
    /\ pc' = [pc EXCEPT ![t] = "idle"]
    /\ UNCHANGED <<RunRefs, op, held, ownerVars>>

-----------------------------------------------------------------------------
threadVars == <<pc, op, held>>

(* A damaged descriptor is followed to the end of its rundown, no further. *)
BeginWait ==
    /\ owner = "open" /\ ~damaged
    /\ owner' = "publishing"
    /\ Current' = 0
    /\ TotalCount' = 0
    /\ WaitBlock' = [Count |-> 0, signaled |-> FALSE]
    /\ UNCHANGED <<RunRefs, damaged, threadVars>>

(* Fault: the sum keeps only the last word's count.                        *)
PublishWaitBlock_Overwrites ==
    /\ owner = "publishing"
    /\ RunRefs' = [RunRefs EXCEPT ![Current] = WaitBlockPointer]
    /\ TotalCount' = RunRefs[Current].n
    /\ Current' = Current + 1
    /\ owner' = IF Current' < Number THEN "publishing" ELSE "deciding"
    /\ UNCHANGED <<WaitBlock, damaged, threadVars>>

(* Fault: the loop leaves out the last word.                               *)
PublishWaitBlock_SkipsLast ==
    /\ owner = "publishing"
    /\ RunRefs' = [RunRefs EXCEPT ![Current] = WaitBlockPointer]
    /\ TotalCount' = TotalCount + RunRefs[Current].n
    /\ Current' = Current + 1
    /\ owner' = IF Current' < Number - 1 THEN "publishing" ELSE "deciding"
    /\ UNCHANGED <<WaitBlock, damaged, threadVars>>

PublishWaitBlock ==
    /\ owner = "publishing"
    /\ RunRefs' = [RunRefs EXCEPT ![Current] = WaitBlockPointer]
    /\ TotalCount' = TotalCount + RunRefs[Current].n
    /\ Current' = Current + 1
    /\ owner' = IF Current' < Number THEN "publishing" ELSE "deciding"
    /\ UNCHANGED <<WaitBlock, damaged, threadVars>>

(* The sum is added to what the releases have subtracted so far. The wait  *)
(* is entered when the old count was the negated sum.                      *)
DecideToWait ==
    /\ owner = "deciding"
    /\ IF TotalCount = 0
       THEN owner' = "skipping" /\ UNCHANGED WaitBlock
       ELSE /\ WaitBlock' = [Count |-> WaitBlock.Count + TotalCount, signaled |-> FALSE]
            /\ owner' = IF WaitBlock.Count = -TotalCount THEN "waiting" ELSE "skipping"
    /\ Damages(owner' = "skipping" /\ held # {})
    /\ UNCHANGED <<RunRefs, Current, TotalCount, threadVars>>

ReturnFromWait ==
    /\ owner \in {"waiting", "skipping"}
    /\ owner = "waiting" => WaitBlock.signaled
    /\ owner' = "returned"
    /\ UNCHANGED <<RunRefs, WaitBlock, Current, TotalCount, damaged, threadVars>>

(* A loop that stores v in every word, started at from and ending at to.   *)
SetWords(from, during, to, v) ==
    \/ /\ owner \in from
       /\ owner' = during
       /\ Current' = 0
       /\ UNCHANGED <<RunRefs, WaitBlock, TotalCount, damaged, threadVars>>
    \/ /\ owner = during
       /\ RunRefs' = [RunRefs EXCEPT ![Current] = v]
       /\ Current' = Current + 1
       /\ owner' = IF Current' < Number THEN during ELSE to
       /\ UNCHANGED <<WaitBlock, TotalCount, damaged, threadVars>>

RundownCompletedCacheAware ==
    SetWords({"returned"}, "completing", "completed", EX_RUNDOWN_ACTIVE)

ReInitializeCacheAware ==
    SetWords({"returned", "completed"}, "reinitializing", "open", CountWord(0))

-----------------------------------------------------------------------------
ThreadStep(t) == \/ AcquireCacheAware(t)
                 \/ ReleaseCacheAware(t)
                 \/ ReleaseWaitBlock(t)
                 \/ SignalOwner(t)

OwnerStep == \/ BeginWait
             \/ PublishWaitBlock
             \/ DecideToWait
             \/ ReturnFromWait
             \/ RundownCompletedCacheAware
             \/ ReInitializeCacheAware

Next == (\E t \in Threads : ThreadStep(t)) \/ OwnerStep

Spec == Init /\ [][Next]_vars

-----------------------------------------------------------------------------
(* The sum of the counts of the words from w on.                           *)
SumFrom(words, w) ==
    LET sum[i \in 0 .. Number] == IF i = Number THEN 0 ELSE words[i].n + sum[i + 1]
    IN  sum[w]

(* Wherever references are taken and given back while the owner walks the  *)
(* words, what is left in the words, what the owner has collected and what *)
(* has been subtracted from the block add up to the references held; so at *)
(* the decision the sum is not negative (the code's ASSERT), and a sum of  *)
(* zero really means that nothing is held. (Once damaged, no count can be  *)
(* right.)                                                                 *)
SumIsExact == ~damaged =>
    /\ owner \in {"publishing", "deciding"} =>
           TotalCount + WaitBlock.Count + SumFrom(RunRefs, Current) = Cardinality(held)
    /\ owner = "deciding" => TotalCount >= 0 /\ (TotalCount = 0 => held = {})

(* The event is initialized only after the block has been published; no    *)
(* releaser signals it before that.                                        *)
NoEarlySignal ==
    ~damaged /\ owner \in {"publishing", "deciding"} =>
        ~WaitBlock.signaled /\ \A t \in Threads : pc[t] # "signal"

AllPublished == owner \in {"deciding", "waiting", "skipping", "returned"}

(* Once every word has been replaced, no step grants a reference.          *)
NoNewReference == [][AllPublished => held' \subseteq held]_vars

(* While a reference is held the owner's wait has not returned:            *)
(* classpnp's remove lock promises its holders that no remove request is   *)
(* completed.                                                              *)
RundownProtects == owner = "returned" => held = {}

-----------------------------------------------------------------------------
(* The inductive invariant behind SumIsExact, NoEarlySignal and            *)
(* NoNewReference.                                                         *)

Loops == {"publishing", "completing", "reinitializing"}

TypeOK ==
    /\ RunRefs \in [Words -> [active : BOOLEAN, ptr : {"none", "NULL", "WaitBlock"}, n : Int]]
    /\ WaitBlock \in [Count : Int, signaled : BOOLEAN]
    /\ pc \in [Threads -> {"idle", "releaseBlock", "signal", "bugcheck"}]
    /\ op \in [Threads -> SUBSET Refs]
    /\ held \in SUBSET Refs
    /\ owner \in {"open", "deciding", "waiting", "skipping", "returned", "completed"} \cup Loops
    /\ Current \in 0 .. Number
    /\ owner \in Loops => Current < Number
    /\ owner = "deciding" => Current = Number
    /\ TotalCount \in Int
    /\ damaged \in BOOLEAN

(* The words that the owner has replaced and not yet reset, whose counts   *)
(* are gone.                                                               *)
WordsReplaced == \A w \in Words :
    /\ RunRefs[w].active <=>
           \/ owner = "publishing" /\ w < Current
           \/ owner \in {"deciding", "waiting", "skipping", "returned", "completing", "completed"}
           \/ owner = "reinitializing" /\ w >= Current
    /\ RunRefs[w].active => RunRefs[w].n = 0

(* A releaser that has read the pointer gives back references it holds;    *)
(* as long as the counts are right the owner has not decided yet, and no   *)
(* releaser is the last.                                                   *)
Releasers == \A t \in Threads :
    /\ pc[t] \in {"idle", "signal"} => op[t] = {}
    /\ pc[t] = "releaseBlock" => op[t] # {} /\ op[t] \subseteq held
    /\ ~damaged => pc[t] # "signal"
    /\ ~damaged /\ pc[t] = "releaseBlock" => owner \in {"publishing", "deciding"}
    /\ \A u \in Threads \ {t} : op[t] \cap op[u] = {}

(* Where the references are counted; once the owner has decided, there are *)
(* none.                                                                   *)
Counted == ~damaged =>
    /\ owner \in {"open", "reinitializing"} => SumFrom(RunRefs, 0) = Cardinality(held)
    /\ owner \in {"publishing", "deciding"} =>
           /\ TotalCount + WaitBlock.Count + SumFrom(RunRefs, Current) = Cardinality(held)
           /\ WaitBlock.Count <= 0
           /\ ~WaitBlock.signaled
    /\ owner \in {"waiting", "skipping", "returned", "completing", "completed"} => held = {}

CountInv == TypeOK /\ WordsReplaced /\ Releasers /\ Counted
=============================================================================
