----------------------------- MODULE RemoveLock -----------------------------
(***************************************************************************)
(* Remove locks: ntoskrnl/io/iomgr/remlock.c. A driver's dispatch routines *)
(* take the lock for the time of a request; the handler of the remove      *)
(* request, itself a holder, marks the lock removed and waits for the      *)
(* others, after which the driver frees the device and the lock with it.   *)
(* Each access to shared memory is a step; the list of tracking blocks is  *)
(* changed under its spin lock, in one step.                               *)
(***************************************************************************)
EXTENDS Integers, Sequences, FiniteSets

CONSTANTS Threads,
          Tags           \* what callers pass to tell their acquisitions apart

ASSUME ThreadsAssumption == IsFiniteSet(Threads)

VARIABLES IoCount, Removed, RemoveEvent,  \* Lock->Common
          Dbg,                            \* a debug lock, which tracks its holders?
          Blocks,                         \* Lock->Dbg.Blocks: tags, newest first
          LowMemoryCount,                 \* Lock->Dbg.LowMemoryCount
          held,                           \* the threads that were granted the lock
          Tag,                            \* and the tag each gave
          pc

vars == <<IoCount, Removed, RemoveEvent, Dbg, Blocks, LowMemoryCount, held, Tag, pc>>
tracking == <<Dbg, Blocks, LowMemoryCount, Tag>>

(* Fault: the count begins at zero.                                        *)
Init_NoBias == /\ IoCount = 0 /\ Removed = FALSE /\ RemoveEvent = FALSE
               /\ Dbg \in BOOLEAN /\ Blocks = <<>> /\ LowMemoryCount = 0
               /\ held = {}
               /\ Tag \in {[t \in Threads |-> g] : g \in Tags}
               /\ pc = [t \in Threads |-> "idle"]

(* IoInitializeRemoveLockEx, for a debug lock or a free one by its size.   *)
(* The count of one stands for the device being there.                     *)
Init == /\ IoCount = 1 /\ Removed = FALSE /\ RemoveEvent = FALSE
        /\ Dbg \in BOOLEAN /\ Blocks = <<>> /\ LowMemoryCount = 0
        /\ held = {}
        /\ Tag \in {[t \in Threads |-> g] : g \in Tags}
        /\ pc = [t \in Threads |-> "idle"]

Goto(t, label) == pc' = [pc EXCEPT ![t] = label]

-----------------------------------------------------------------------------
(* IoAcquireRemoveLockEx. Requests may come in until the remove handler    *)
(* has waited.                                                             *)
Acquire(t) ==
    /\ pc[t] = "idle" /\ t \notin held
    /\ \A u \in Threads : pc[u] \notin {"removed", "crashed"}
    /\ IoCount' = IoCount + 1
    /\ Tag' \in {[Tag EXCEPT ![t] = g] : g \in Tags}
    /\ Goto(t, "testRemoved")
    /\ UNCHANGED <<Removed, RemoveEvent, Dbg, Blocks, LowMemoryCount, held>>

TestRemoved(t) ==
    /\ pc[t] = "testRemoved"
    /\ \/ Removed /\ Goto(t, "backOut") /\ UNCHANGED held
       \/ ~Removed /\ held' = held \cup {t} /\ Goto(t, IF Dbg THEN "track" ELSE "idle")
    /\ UNCHANGED <<IoCount, Removed, RemoveEvent, tracking>>

(* The allocation of the tracking block succeeds or fails.                 *)
Track(t) ==
    /\ pc[t] = "track"
    /\ \/ Blocks' = <<Tag[t]>> \o Blocks /\ UNCHANGED LowMemoryCount
       \/ LowMemoryCount' = LowMemoryCount + 1 /\ UNCHANGED Blocks
    /\ Goto(t, "idle")
    /\ UNCHANGED <<IoCount, Removed, RemoveEvent, Dbg, Tag, held>>

(* The end of a hold or of a refused acquisition: whoever counts down to   *)
(* zero sets the event.                                                    *)
CountDown(t) == /\ IoCount' = IoCount - 1
                /\ Goto(t, IF IoCount' = 0 THEN "setEvent" ELSE "idle")

(* Fault: only a release sets the event, a refused acquisition does not.   *)
BackOut_NeverSignals(t) ==
    /\ pc[t] = "backOut"
    /\ IoCount' = IoCount - 1
    /\ Goto(t, "idle")
    /\ UNCHANGED <<Removed, RemoveEvent, tracking, held>>

(* Fault: a refused acquisition stays counted.                             *)
BackOut_KeepsCount(t) ==
    /\ pc[t] = "backOut"
    /\ Goto(t, "idle")
    /\ UNCHANGED <<IoCount, Removed, RemoveEvent, tracking, held>>

BackOut(t) ==
    /\ pc[t] = "backOut"
    /\ CountDown(t)
    /\ UNCHANGED <<Removed, RemoveEvent, tracking, held>>

KeSetEvent(t) ==
    /\ pc[t] = "setEvent"
    /\ RemoveEvent' = TRUE
    /\ Goto(t, "idle")
    /\ UNCHANGED <<IoCount, Removed, tracking, held>>

-----------------------------------------------------------------------------
(* IoReleaseRemoveLockEx                                                   *)

Positions(g) == {i \in DOMAIN Blocks : Blocks[i] = g}

Without(s, i) == [j \in 1 .. Len(s) - 1 |-> s[IF j < i THEN j ELSE j + 1]]

(* Fault: all blocks with the tag are freed.                               *)
Untrack_FreesAll(t) ==
    /\ Dbg /\ pc[t] = "idle" /\ t \in held
    /\ \/ /\ Positions(Tag[t]) # {}
          /\ Blocks' = SelectSeq(Blocks, LAMBDA g : g # Tag[t])
          /\ Goto(t, "decrement")
       \/ /\ Positions(Tag[t]) = {}
          /\ Goto(t, "missing")
          /\ UNCHANGED Blocks
    /\ UNCHANGED <<IoCount, Removed, RemoveEvent, Dbg, LowMemoryCount, Tag, held>>

(* The first block with the caller's tag is freed, whoever allocated it.   *)
Untrack(t) ==
    /\ Dbg /\ pc[t] = "idle" /\ t \in held
    /\ \/ \E i \in Positions(Tag[t]) :
             /\ \A j \in Positions(Tag[t]) : i <= j
             /\ Blocks' = Without(Blocks, i)
             /\ Goto(t, "decrement")
       \/ /\ Positions(Tag[t]) = {}
          /\ Goto(t, "missing")
          /\ UNCHANGED Blocks
    /\ UNCHANGED <<IoCount, Removed, RemoveEvent, Dbg, LowMemoryCount, Tag, held>>

(* No block: one allocation that failed is made good for, if there was one *)
(* (if not, the ASSERT is taken and the count restored).                   *)
Missing(t) ==
    /\ pc[t] = "missing"
    /\ LowMemoryCount' = IF LowMemoryCount > 0 THEN LowMemoryCount - 1 ELSE LowMemoryCount
    /\ Goto(t, "decrement")
    /\ UNCHANGED <<IoCount, Removed, RemoveEvent, Dbg, Blocks, Tag, held>>

Decrement(t) ==
    /\ t \in held
    /\ pc[t] = "decrement" \/ (~Dbg /\ pc[t] = "idle")
    /\ held' = held \ {t}
    /\ CountDown(t)
    /\ UNCHANGED <<Removed, RemoveEvent, tracking>>

-----------------------------------------------------------------------------
(* IoReleaseRemoveLockAndWaitEx                                            *)

(* One remove request comes to a device.                                   *)
ReleaseAndWait(t) ==
    /\ pc[t] = "idle" /\ t \in held
    /\ ~Removed
    /\ Removed' = TRUE
    /\ Goto(t, "dropOwn")
    /\ UNCHANGED <<IoCount, RemoveEvent, tracking, held>>

DropOwn(t) ==
    /\ pc[t] = "dropOwn"
    /\ IoCount' = IoCount - 1
    /\ Goto(t, "dropDevice")
    /\ UNCHANGED <<Removed, RemoveEvent, tracking, held>>

(* Fault: the handler still counts its own hold.                           *)
DropDevice_OffByOne(t) ==
    /\ pc[t] = "dropDevice"
    /\ IoCount' = IoCount - 1
    /\ held' = held \ {t}
    /\ Goto(t, IF IoCount' > 1 THEN "wait" ELSE "reap")
    /\ UNCHANGED <<Removed, RemoveEvent, tracking>>

DropDevice(t) ==
    /\ pc[t] = "dropDevice"
    /\ IoCount' = IoCount - 1
    /\ held' = held \ {t}
    /\ Goto(t, IF IoCount' > 0 THEN "wait" ELSE "reap")
    /\ UNCHANGED <<Removed, RemoveEvent, tracking>>

WaitForOthers(t) ==
    /\ pc[t] = "wait" /\ RemoveEvent
    /\ RemoveEvent' = FALSE
    /\ Goto(t, "reap")
    /\ UNCHANGED <<IoCount, Removed, tracking, held>>

(* A debug lock frees the last tracking block, and leaves the pointer to   *)
(* it. If there is no block the ASSERT fails or the null pointer is read.  *)
Reap(t) ==
    /\ pc[t] = "reap"
    /\ Goto(t, IF Dbg /\ Blocks = <<>> THEN "crashed" ELSE "removed")
    /\ UNCHANGED <<IoCount, Removed, RemoveEvent, tracking, held>>

-----------------------------------------------------------------------------
(* Nothing runs after a bug check.                                         *)
Crashed == \E t \in Threads : pc[t] = "crashed"

Continue(t) == /\ ~Crashed
               /\ \/ TestRemoved(t) \/ Track(t) \/ BackOut(t) \/ KeSetEvent(t)
                  \/ Untrack(t) \/ Missing(t) \/ Decrement(t)
                  \/ DropOwn(t) \/ DropDevice(t) \/ WaitForOthers(t) \/ Reap(t)

Next == \E t \in Threads : Acquire(t) \/ ReleaseAndWait(t) \/ Continue(t)

Spec == Init /\ [][Next]_vars

(* Threads keep running, and holders release.                              *)
FairSpec == Spec /\ \A t \in Threads : WF_vars(Continue(t))

-----------------------------------------------------------------------------
(* The values the variables range over; the count is never negative, which *)
(* the ASSERTs on LockValue require.                                       *)
TypeOK ==
    /\ IoCount \in Nat
    /\ Removed \in BOOLEAN
    /\ RemoveEvent \in BOOLEAN
    /\ Dbg \in BOOLEAN
    /\ Blocks \in Seq(Tags)
    /\ LowMemoryCount \in Int
    /\ held \in SUBSET Threads
    /\ Tag \in [Threads -> Tags]
    /\ pc \in [Threads -> {"idle", "testRemoved", "track", "backOut", "setEvent", "missing",
                           "decrement", "dropOwn", "dropDevice", "wait", "reap", "removed",
                           "crashed"}]

AfterWait == {"reap", "removed", "crashed"}

(* Every thread that was granted the lock and has not given it back keeps  *)
(* the remove handler from returning, however acquisitions race with it.   *)
RemoveProtects == (\E t \in Threads : pc[t] \in AfterWait) => held = {}

Counted == held \cup {t \in Threads : pc[t] \in {"testRemoved", "backOut"}}

DeviceDropped == \E t \in Threads : pc[t] \in {"wait"} \cup AfterWait

OwnDropped == \E t \in Threads : pc[t] = "dropDevice"

(* The count is the number of holders and of threads that are finding out  *)
(* whether they may hold, plus one for the device.                         *)
CountExact == IoCount = Cardinality(Counted) + (IF DeviceDropped \/ OwnDropped THEN 0 ELSE 1)

Looking == {t \in Threads : pc[t] = "missing"}

(* The ASSERTs: a release that counts down to zero finds the lock removed, *)
(* the handler's first decrement leaves the count positive, a tag that is  *)
(* not found finds a failed allocation, also when several threads look for *)
(* one, and a block remains for the handler unless an allocation failed.   *)
SanityChecks == \A t \in Threads :
    /\ pc[t] = "setEvent" => Removed
    /\ pc[t] = "dropOwn" => IoCount > 1
    /\ pc[t] = "missing" => LowMemoryCount >= Cardinality(Looking)
    /\ pc[t] = "reap" /\ Dbg /\ LowMemoryCount = 0 => Blocks # <<>>

Removing == {"dropOwn", "dropDevice", "wait"} \cup AfterWait

(* The acquisitions for which a block was, or should have been, queued and *)
(* is not yet looked for.                                                  *)
Tracked == {t \in Threads : pc[t] \in Removing \/ (t \in held /\ pc[t] = "idle")}

(* Blocks and failed allocations balance the tracked acquisitions, and no  *)
(* tag has more blocks than holders, although a release may take another   *)
(* holder's block: so a tag that is not found is due to a failure.         *)
TrackingBalances == Dbg =>
    /\ Len(Blocks) + LowMemoryCount = Cardinality(Tracked) + Cardinality(Looking)
    /\ \A g \in Tags : Cardinality(Positions(g)) <= Cardinality({t \in Tracked : Tag[t] = g})

(* Counting and tracking stay sound through refusals and failed            *)
(* allocations.                                                            *)
TrackingSound == SanityChecks /\ TrackingBalances

(* The allocation of a tracking block failed and was not made good for.    *)
UntrackedHold == Dbg /\ LowMemoryCount > 0

(* When no more requests come in, the remove handler's wait ends and it    *)
(* returns, unless a tracking block that should be left for it is missing. *)
RemoveReturns ==
    <>[][\A t \in Threads : ~Acquire(t)]_vars =>
        \A t \in Threads :
            pc[t] = "wait" ~> pc[t] = "removed" \/ (pc[t] = "crashed" /\ UntrackedHold)

-----------------------------------------------------------------------------
(* The inductive invariant behind RemoveProtects and CountExact.           *)

(* Where a thread may be while it holds the lock, and while it does not.   *)
HoldersPlaces == \A t \in Threads :
    /\ pc[t] \in {"track", "missing", "decrement", "dropOwn", "dropDevice"} => t \in held
    /\ pc[t] \in {"testRemoved", "backOut", "setEvent", "wait"} \cup AfterWait => t \notin held

(* There is one remove handler, and the lock is marked before it counts    *)
(* down and before any acquisition is refused.                             *)
OneRemover ==
    /\ \A t, u \in Threads : pc[t] \in Removing /\ pc[u] \in Removing => t = u
    /\ \A t \in Threads : pc[t] \in Removing \cup {"backOut"} => Removed

(* The event is set only after the last holder has gone.                   *)
Drained == (RemoveEvent \/ \E t \in Threads : pc[t] \in {"setEvent"} \cup AfterWait) =>
               held = {} /\ Removed

IInv == TypeOK /\ CountExact /\ HoldersPlaces /\ OneRemover /\ Drained

(* The one behind TrackingSound. Each block can be charged to a tracked    *)
(* acquisition with its tag, and no two blocks to the same: not by who     *)
(* allocated it, since a release may free another holder's block.          *)
Charged(m, blocks, S, tag) ==
    /\ m \in [DOMAIN blocks -> S]
    /\ \A i, j \in DOMAIN blocks : m[i] = m[j] => i = j
    /\ \A i \in DOMAIN blocks : tag[m[i]] = blocks[i]

ChargesBalance == Dbg =>
    /\ Len(Blocks) + LowMemoryCount = Cardinality(Tracked) + Cardinality(Looking)
    /\ \E m \in [DOMAIN Blocks -> Tracked] : Charged(m, Blocks, Tracked, Tag)

(* Only a debug lock looks for tags.                                       *)
LooksOnlyDbg == Looking # {} => Dbg

TrackInv == IInv /\ ChargesBalance /\ LooksOnlyDbg
=============================================================================
