------------------------------ MODULE Resource ------------------------------
(***************************************************************************)
(* Executive resources (ntoskrnl/ex/resource.c): a readers-writer lock     *)
(* with recursion that keeps its owners in a table.                        *)
(*                                                                         *)
(* Every routine works under the resource's spin lock, so the code between *)
(* two points where that lock is dropped is one step. The lock is dropped  *)
(* to allocate (the event, the semaphore, a larger table), to wait, and    *)
(* before the waiters that were granted the resource are signaled. A grant *)
(* is anonymous: it is a count of the semaphore or the state of the event, *)
(* and a thread that came later may take it.                               *)
(*                                                                         *)
(* A resource can be handed to an owner pointer, a name that is not a      *)
(* thread; whoever releases it does nothing else with the resource in the  *)
(* meantime, and is modelled as an agent of that name.                     *)
(***************************************************************************)
EXTENDS Naturals, FiniteSets, FiniteSetsExt

CONSTANTS Threads, Pointers,
          NULL,
          GRANTED,           \* the OwnerThread 1 of a resource given to a waiter
          InitialTableSize,  \* 3 in the code
          TableIncrement,    \* 4 in the code
          MaxRecursion       \* bound: acquisitions beyond the first of their owner

Agents == Threads \cup Pointers

ASSUME SizeAssumption == /\ InitialTableSize \in Nat \ {0, 1}
                         /\ TableIncrement \in Nat \ {0}
                         /\ MaxRecursion \in Nat
ASSUME NameAssumption == /\ Threads \cap Pointers = {}
                         /\ {NULL, GRANTED} \cap Agents = {} /\ NULL # GRANTED
                         /\ NULL \notin Nat /\ NULL \notin BOOLEAN
ASSUME FiniteAssumption == IsFiniteSet(Agents)

VARIABLES Exclusive,         \* the flag ResourceOwnedExclusive
          ActiveCount, ActiveEntries,
          NumberOfSharedWaiters, NumberOfExclusiveWaiters,
          Owner,             \* 0 is OwnerEntry, the others are the table's entries
          TableSize,         \* kept in the unused entry 0 of the table; 0 without one
          SharedWaiters,     \* count of the semaphore, NULL before it is allocated
          ExclusiveWaiters,  \* state of the event, NULL before it is allocated
          crashed,           \* a walk left the table or found no owner, or there is
                             \* no memory for a table
          pc, frame,         \* where each agent is, and its call's variables
          held               \* how the agents hold the resource

counts  == <<Exclusive, ActiveCount, ActiveEntries>>
waiters == <<NumberOfSharedWaiters, NumberOfExclusiveWaiters>>
table   == <<Owner, TableSize>>
objects == <<SharedWaiters, ExclusiveWaiters>>
local   == <<pc, frame>>
vars    == <<counts, waiters, table, objects, crashed, local, held>>

SharedCalls == {"Shared", "StarveExclusive", "WaitForExclusive"}
Calls == SharedCalls \cup {"Exclusive", "TryExclusive"}

FreeEntry == [OwnerThread |-> NULL, OwnerCount |-> 0]
NoFrame == [call |-> "none", Wait |-> FALSE, OldSize |-> 0, Count |-> 0]

(* ExInitializeResourceLite clears the structure.                          *)
Init == /\ Exclusive = FALSE /\ ActiveCount = 0 /\ ActiveEntries = 0
        /\ NumberOfSharedWaiters = 0 /\ NumberOfExclusiveWaiters = 0
        /\ Owner = [i \in {0} |-> FreeEntry] /\ TableSize = 0
        /\ SharedWaiters = NULL /\ ExclusiveWaiters = NULL
        /\ crashed = FALSE
        /\ pc = [a \in Agents |-> "idle"]
        /\ frame = [a \in Agents |-> NoFrame]
        /\ held = [a \in Agents |-> "none"]

Goto(a, label) == /\ pc' = [pc EXCEPT ![a] = label]
                  /\ frame' = [frame EXCEPT ![a] = NoFrame]

Return(a) == Goto(a, "idle")

SetHeld(a, mode) == held' = [held EXCEPT ![a] = mode]

-----------------------------------------------------------------------------
HasTable == DOMAIN Owner # {0}

(* A table whose size has been lost: a walk does not meet its limit.       *)
Unlimited == HasTable /\ TableSize = 0

EntriesOf(o) == {i \in DOMAIN Owner : Owner[i].OwnerThread = o}

FirstOf(S) == IF S = {} THEN NULL ELSE Min(S)

(* The first free entry of the table, NULL if there is none.               *)
ExpFindFreeEntry == FirstOf(EntriesOf(NULL) \ {0})

(* The entry of an owner or else a free one, the first of all only if it   *)
(* is eligible.                                                            *)
ExpFindEntryForThread(o, FirstEntryInelligible) ==
    LET free == EntriesOf(NULL) \ (IF FirstEntryInelligible THEN {0} ELSE {}) IN
    IF EntriesOf(o) # {} THEN Min(EntriesOf(o))
    ELSE IF Unlimited THEN NULL
    ELSE FirstOf(free)

(* The lock is dropped to allocate, and the call starts again after it.    *)
Suspend(t, label, call, Wait) ==
    /\ pc' = [pc EXCEPT ![t] = label]
    /\ frame' = [frame EXCEPT ![t] = [NoFrame EXCEPT !.call = call, !.Wait = Wait,
                                                     !.OldSize = TableSize]]
    /\ UNCHANGED <<counts, waiters, table, objects, crashed, held>>

Resume(t) == /\ pc' = [pc EXCEPT ![t] = "retry"]
             /\ frame' = [frame EXCEPT ![t].OldSize = 0]

(* No entry found: a larger table is needed. In a table without limit the  *)
(* walk does not end.                                                      *)
BeginExpand(t, call, Wait) ==
    \/ ~Unlimited /\ Suspend(t, "expand", call, Wait)
    \/ /\ Unlimited /\ crashed' = TRUE
       /\ UNCHANGED <<counts, waiters, table, objects, local, held>>

(* The thread has been granted the resource, and has no entry yet.         *)
Claiming(t) == \/ pc[t] = "claim"
               \/ pc[t] = "expand" /\ frame[t].call = "WaitForExclusive" /\ held[t] = "shared"

NewSize(OldSize) == IF OldSize = 0 THEN InitialTableSize ELSE OldSize + TableIncrement

(* The new table: what the remembered one had, and free entries.           *)
InstallTable(OldSize) ==
    /\ TableSize' = NewSize(OldSize)
    /\ Owner' = [i \in 0 .. TableSize' - 1 |->
                    IF i = 0 \/ i < OldSize THEN Owner[i] ELSE FreeEntry]

(* Fault: whether the table was replaced is not looked at; the memory that *)
(* the remembered pointer names is the newer table's by now.               *)
ExpExpandResourceOwnerTable_NoCheck(t) ==
    /\ ~crashed /\ pc[t] = "expand"
    /\ InstallTable(frame[t].OldSize)
    /\ IF Claiming(t) THEN Goto(t, "claim") ELSE Resume(t)
    /\ UNCHANGED <<counts, waiters, objects, crashed, held>>

(* The larger table replaces the one seen before the lock was dropped,     *)
(* unless another thread was faster: then the pointer differs or, where    *)
(* the freed memory was used for the newer table, the size, which only     *)
(* grows while there are callers. Without memory for it a null pointer is  *)
(* written through.                                                        *)
ExpExpandResourceOwnerTable(t) ==
    /\ ~crashed /\ pc[t] = "expand"
    /\ \/ /\ crashed' = TRUE
          /\ UNCHANGED <<table, local>>
       \/ /\ IF TableSize = frame[t].OldSize THEN InstallTable(frame[t].OldSize)
             ELSE UNCHANGED table
          /\ IF Claiming(t) THEN Goto(t, "claim") ELSE Resume(t)
          /\ UNCHANGED crashed
    /\ UNCHANGED <<counts, waiters, objects, held>>

ExpAllocateExclusiveWaiterEvent(t) ==
    /\ ~crashed /\ pc[t] = "allocateEvent"
    /\ ExclusiveWaiters' = IF ExclusiveWaiters = NULL THEN FALSE ELSE ExclusiveWaiters
    /\ Resume(t)
    /\ UNCHANGED <<counts, waiters, table, SharedWaiters, crashed, held>>

ExpAllocateSharedWaiterSemaphore(t) ==
    /\ ~crashed /\ pc[t] = "allocateSemaphore"
    /\ SharedWaiters' = IF SharedWaiters = NULL THEN 0 ELSE SharedWaiters
    /\ Resume(t)
    /\ UNCHANGED <<counts, waiters, table, ExclusiveWaiters, crashed, held>>
-----------------------------------------------------------------------------
OwnedBy(t) == Exclusive /\ Owner[0].OwnerThread = t

(* Nobody has it: the caller takes the first entry.                        *)
TakeUnowned(t, mode) ==
    /\ Exclusive' = (mode = "exclusive")
    /\ ActiveEntries' = 1 /\ ActiveCount' = 1
    /\ Owner' = [Owner EXCEPT ![0] = [OwnerThread |-> t, OwnerCount |-> 1]]
    /\ SetHeld(t, mode) /\ Return(t)
    /\ UNCHANGED <<waiters, TableSize, objects, crashed>>

Recurse(t, i) ==
    /\ Owner' = [Owner EXCEPT ![i].OwnerCount = @ + 1]
    /\ Return(t)
    /\ UNCHANGED <<counts, waiters, TableSize, objects, crashed, held>>

Refuse(t) == Return(t) /\ UNCHANGED <<counts, waiters, table, objects, crashed, held>>

ExAcquireResourceExclusiveLite(t, Wait) ==
    \/ ActiveEntries = 0 /\ TakeUnowned(t, "exclusive")
    \/ ActiveEntries # 0 /\ OwnedBy(t) /\ Recurse(t, 0)
    \/ /\ ActiveEntries # 0 /\ ~OwnedBy(t)
       /\ \/ ~Wait /\ Refuse(t)
          \/ /\ Wait /\ ExclusiveWaiters = NULL
             /\ Suspend(t, "allocateEvent", "Exclusive", Wait)
          \/ /\ Wait /\ ExclusiveWaiters # NULL
             /\ NumberOfExclusiveWaiters' = NumberOfExclusiveWaiters + 1
             /\ Goto(t, "waitExclusive")
             /\ UNCHANGED <<counts, NumberOfSharedWaiters, table, objects, crashed, held>>

ExTryToAcquireResourceExclusiveLite(t) ==
    \/ ActiveCount = 0 /\ TakeUnowned(t, "exclusive")
    \/ ActiveCount # 0 /\ OwnedBy(t) /\ Recurse(t, 0)
    \/ ActiveCount # 0 /\ ~OwnedBy(t) /\ Refuse(t)

(* A shared caller that has to wait, with the entry it will own if it has  *)
(* one already.                                                            *)
WaitShared(t, i, call, Wait) ==
    \/ ~Wait /\ Refuse(t)
    \/ Wait /\ SharedWaiters = NULL /\ Suspend(t, "allocateSemaphore", call, Wait)
    \/ /\ Wait /\ SharedWaiters # NULL
       /\ Owner' = IF i = NULL THEN Owner
                   ELSE [Owner EXCEPT ![i] = [OwnerThread |-> t, OwnerCount |-> 1]]
       /\ NumberOfSharedWaiters' = NumberOfSharedWaiters + 1
       /\ Goto(t, IF i = NULL THEN "waitUnlisted" ELSE "waitShared")
       /\ UNCHANGED <<counts, NumberOfExclusiveWaiters, TableSize, objects, crashed, held>>

(* One more sharer.                                                        *)
Join(t, i) ==
    /\ Owner' = [Owner EXCEPT ![i] = [OwnerThread |-> t, OwnerCount |-> 1]]
    /\ ActiveEntries' = ActiveEntries + 1
    /\ SetHeld(t, "shared") /\ Return(t)
    /\ UNCHANGED <<Exclusive, ActiveCount, waiters, TableSize, objects, crashed>>

(* What the three routines for shared access do alike: unless nobody has   *)
(* it or the caller has it exclusively, wait for an exclusive owner.       *)
AcquireUnshared(t, call, Wait) ==
    \/ ActiveEntries = 0 /\ TakeUnowned(t, "shared")
    \/ ActiveEntries # 0 /\ OwnedBy(t) /\ Recurse(t, 0)
    \/ /\ ActiveEntries # 0 /\ Exclusive /\ ~OwnedBy(t)
       /\ LET i == ExpFindFreeEntry IN
          IF i = NULL THEN BeginExpand(t, call, Wait) ELSE WaitShared(t, i, call, Wait)

OwnedShared == ActiveEntries # 0 /\ ~Exclusive

ExAcquireResourceSharedLite(t, Wait) ==
    LET FirstEntryBusy == NumberOfExclusiveWaiters > 0
        i == ExpFindEntryForThread(t, FirstEntryBusy) IN
    \/ AcquireUnshared(t, "Shared", Wait)
    \/ OwnedShared /\ i = NULL /\ BeginExpand(t, "Shared", Wait)
    \/ OwnedShared /\ i # NULL /\ Owner[i].OwnerThread = t /\ Recurse(t, i)
    \/ /\ OwnedShared /\ i # NULL /\ Owner[i].OwnerThread # t
       /\ IF FirstEntryBusy THEN WaitShared(t, i, "Shared", Wait) ELSE Join(t, i)

(* Sharers are joined whoever waits.                                       *)
JoinSharers(t, call, Wait) ==
    LET i == ExpFindEntryForThread(t, FALSE) IN
    \/ i = NULL /\ BeginExpand(t, call, Wait)
    \/ i # NULL /\ Owner[i].OwnerThread = t /\ Recurse(t, i)
    \/ i # NULL /\ Owner[i].OwnerThread # t /\ Join(t, i)

ExAcquireSharedStarveExclusive(t, Wait) ==
    \/ AcquireUnshared(t, "StarveExclusive", Wait)
    \/ OwnedShared /\ JoinSharers(t, "StarveExclusive", Wait)

(* With an exclusive waiter the caller waits without an entry, whether or  *)
(* not it has one, and looks for one afterwards.                           *)
ExAcquireSharedWaitForExclusive(t, Wait) ==
    \/ AcquireUnshared(t, "WaitForExclusive", Wait)
    \/ /\ OwnedShared /\ NumberOfExclusiveWaiters > 0
       /\ WaitShared(t, NULL, "WaitForExclusive", Wait)
    \/ /\ OwnedShared /\ NumberOfExclusiveWaiters = 0
       /\ JoinSharers(t, "WaitForExclusive", Wait)

(* The section under the lock, entered by a new call or by one that had to *)
(* drop the lock.                                                          *)
Acquire(t, call, Wait) ==
    \/ call = "Exclusive" /\ ExAcquireResourceExclusiveLite(t, Wait)
    \/ call = "TryExclusive" /\ ~Wait /\ ExTryToAcquireResourceExclusiveLite(t)
    \/ call = "Shared" /\ ExAcquireResourceSharedLite(t, Wait)
    \/ call = "StarveExclusive" /\ ExAcquireSharedStarveExclusive(t, Wait)
    \/ call = "WaitForExclusive" /\ ExAcquireSharedWaitForExclusive(t, Wait)

Recursions == MapThenSumSet(LAMBDA i : Owner[i].OwnerCount - 1, DOMAIN Owner \ EntriesOf(NULL))

(* A thread asks for the resource. A shared owner neither waits for        *)
(* exclusive access nor for others that do, which would wait for itself.   *)
Begin(t) ==
    /\ ~crashed /\ pc[t] = "idle"
    /\ held[t] # "none" => Recursions < MaxRecursion
    /\ \E call \in Calls, Wait \in BOOLEAN :
           /\ call \in {"Exclusive", "WaitForExclusive"} /\ held[t] = "shared" => ~Wait
           /\ Acquire(t, call, Wait)

Retry(t) == ~crashed /\ pc[t] = "retry" /\ Acquire(t, frame[t].call, frame[t].Wait)

(* ExpWaitForResource: a wait that times out is only repeated.             *)
WaitForSemaphore(t) ==
    /\ ~crashed /\ pc[t] \in {"waitShared", "waitUnlisted"} /\ SharedWaiters > 0
    /\ SharedWaiters' = SharedWaiters - 1
    /\ SetHeld(t, "shared")
    /\ IF pc[t] = "waitShared" THEN Return(t) ELSE Goto(t, "claim")
    /\ UNCHANGED <<counts, waiters, table, ExclusiveWaiters, crashed>>

(* The thread that waited without an entry looks for one.                  *)
ClaimEntry(t) ==
    LET i == ExpFindEntryForThread(t, TRUE) IN
    /\ ~crashed /\ pc[t] = "claim"
    /\ \/ i = NULL /\ BeginExpand(t, "WaitForExclusive", TRUE)
       \/ /\ i # NULL
          /\ Owner' = [Owner EXCEPT ![i] = [OwnerThread |-> t, OwnerCount |-> 1]]
          /\ Return(t)
          /\ UNCHANGED <<counts, waiters, TableSize, objects, crashed, held>>

WaitForEvent(t) ==
    /\ ~crashed /\ pc[t] = "waitExclusive" /\ ExclusiveWaiters = TRUE
    /\ ExclusiveWaiters' = FALSE
    /\ SetHeld(t, "exclusive")
    /\ Goto(t, "setOwner")
    /\ UNCHANGED <<counts, waiters, table, SharedWaiters, crashed>>

(* Without the spin lock.                                                  *)
SetOwner(t) ==
    /\ ~crashed /\ pc[t] = "setOwner"
    /\ Owner' = [Owner EXCEPT ![0].OwnerThread = t]
    /\ Return(t)
    /\ UNCHANGED <<counts, waiters, TableSize, objects, crashed, held>>
-----------------------------------------------------------------------------
(* The shared waiters that were made owners are woken after the unlock.    *)
ReleaseLater(a, Count) ==
    /\ pc' = [pc EXCEPT ![a] = "releaseSemaphore"]
    /\ frame' = [frame EXCEPT ![a].Count = Count]

KeReleaseSemaphore(a) ==
    /\ ~crashed /\ pc[a] = "releaseSemaphore"
    /\ SharedWaiters' = SharedWaiters + frame[a].Count
    /\ Return(a)
    /\ UNCHANGED <<counts, waiters, table, ExclusiveWaiters, crashed, held>>

(* The event wakes a thread that waits for it, and names it as the owner,  *)
(* or stays set for one that does not wait yet.                            *)
KeSetEventBoostPriority(a) ==
    /\ ~crashed /\ pc[a] = "setEvent"
    /\ \/ /\ ExclusiveWaiters' = TRUE
          /\ Return(a)
          /\ UNCHANGED <<Owner, held>>
       \/ \E t \in Threads :
              /\ pc[t] = "waitExclusive"
              /\ Owner' = [Owner EXCEPT ![0].OwnerThread = t]
              /\ pc' = [pc EXCEPT ![a] = "idle", ![t] = "setOwner"]
              /\ frame' = [frame EXCEPT ![a] = NoFrame]
              /\ SetHeld(t, "exclusive")
              /\ UNCHANGED ExclusiveWaiters
    /\ UNCHANGED <<counts, waiters, TableSize, SharedWaiters, crashed>>

(* Fault: the waiters it wakes are not made owners.                        *)
ExConvertExclusiveToSharedLite_OnlyWakes(t) ==
    /\ ~crashed /\ pc[t] = "idle" /\ held[t] = "exclusive"
    /\ Exclusive' = FALSE
    /\ SetHeld(t, "shared")
    /\ IF NumberOfSharedWaiters > 0
       THEN /\ NumberOfSharedWaiters' = 0
            /\ ReleaseLater(t, NumberOfSharedWaiters)
       ELSE UNCHANGED <<NumberOfSharedWaiters, local>>
    /\ UNCHANGED <<ActiveEntries, ActiveCount, NumberOfExclusiveWaiters, table, objects, crashed>>

ExConvertExclusiveToSharedLite(t) ==
    /\ ~crashed /\ pc[t] = "idle" /\ held[t] = "exclusive"
    /\ Exclusive' = FALSE
    /\ SetHeld(t, "shared")
    /\ IF NumberOfSharedWaiters > 0
       THEN /\ ActiveEntries' = ActiveEntries + NumberOfSharedWaiters
            /\ NumberOfSharedWaiters' = 0
            /\ ReleaseLater(t, NumberOfSharedWaiters)
       ELSE UNCHANGED <<ActiveEntries, NumberOfSharedWaiters, local>>
    /\ UNCHANGED <<ActiveCount, NumberOfExclusiveWaiters, table, objects, crashed>>

(* The resource is given to an exclusive waiter, whichever it is.          *)
GrantExclusive(a, i) ==
    /\ Exclusive' = TRUE /\ ActiveEntries' = 1
    /\ Owner' = [Owner EXCEPT ![i] = FreeEntry,
                              ![0] = [OwnerThread |-> GRANTED, OwnerCount |-> 1]]
    /\ NumberOfExclusiveWaiters' = NumberOfExclusiveWaiters - 1
    /\ Goto(a, "setEvent")
    /\ UNCHANGED <<ActiveCount, NumberOfSharedWaiters>>

(* The resource is given to all shared waiters.                            *)
GrantShared(a, i) ==
    /\ Exclusive' = FALSE /\ ActiveEntries' = NumberOfSharedWaiters
    /\ Owner' = [Owner EXCEPT ![i] = FreeEntry]
    /\ NumberOfSharedWaiters' = 0
    /\ ReleaseLater(a, NumberOfSharedWaiters)
    /\ UNCHANGED <<ActiveCount, NumberOfExclusiveWaiters>>

(* Nobody waits for it, or other sharers remain.                           *)
Leave(i) ==
    /\ Exclusive' = FALSE /\ ActiveEntries' = ActiveEntries - 1
    /\ ActiveCount' = IF ActiveEntries = 1 THEN 0 ELSE ActiveCount
    /\ Owner' = [Owner EXCEPT ![i] = FreeEntry]
    /\ UNCHANGED <<waiters, local>>

(* Fault: that there is an exclusive waiter is taken for granted.          *)
ToExclusive_Untested == ActiveEntries = 1

(* Fault: an exclusive waiter is let in while other sharers remain.        *)
ToExclusive_Early == NumberOfExclusiveWaiters > 0

(* Fault: sharers do not look for exclusive waiters.                       *)
ToExclusive_Forgets == Exclusive /\ NumberOfExclusiveWaiters > 0

(* Whom the resource is given to: after an exclusive owner shared waiters  *)
(* come first, after the last sharer exclusive ones.                       *)
ToExclusive == ActiveEntries = 1 /\ NumberOfExclusiveWaiters > 0

ToShared == Exclusive /\ NumberOfSharedWaiters > 0

(* The last of an owner's acquisitions is given back.                      *)
GiveUp(a, i) ==
    /\ \/ ToShared /\ GrantShared(a, i)
       \/ ~ToShared /\ ToExclusive /\ GrantExclusive(a, i)
       \/ ~ToShared /\ ~ToExclusive /\ Leave(i)
    /\ SetHeld(a, "none")
    /\ UNCHANGED <<TableSize, objects, crashed>>

(* The owner's entry is the first one or is looked up in the table; not to *)
(* find it is a bug check.                                                 *)
ExReleaseResourceForThreadLite(a) ==
    /\ ~crashed /\ pc[a] = "idle" /\ held[a] # "none"
    /\ LET i == IF Exclusive THEN 0 ELSE FirstOf(EntriesOf(a)) IN
       \/ /\ i = NULL \/ (i # 0 /\ TableSize = 0)
          /\ crashed' = TRUE
          /\ UNCHANGED <<counts, waiters, table, objects, local, held>>
       \/ /\ i # NULL /\ (i = 0 \/ TableSize # 0)
          /\ Owner[i].OwnerCount > 1
          /\ Owner' = [Owner EXCEPT ![i].OwnerCount = @ - 1]
          /\ UNCHANGED <<counts, waiters, TableSize, objects, crashed, local, held>>
       \/ /\ i # NULL /\ (i = 0 \/ TableSize # 0)
          /\ Owner[i].OwnerCount = 1
          /\ GiveUp(a, i)

(* A thread hands what it holds to an owner pointer, which may have an     *)
(* entry already.                                                          *)
ExSetResourceOwnerPointer(t, p) ==
    /\ ~crashed /\ pc[t] = "idle" /\ held[t] # "none"
    /\ \/ /\ Exclusive
          /\ Owner' = [Owner EXCEPT ![0].OwnerThread = p]
          /\ UNCHANGED <<ActiveEntries, crashed>>
          /\ held' = [held EXCEPT ![t] = "none", ![p] = "exclusive"]
       \/ /\ ~Exclusive /\ EntriesOf(p) = {} /\ ~Unlimited
          /\ Owner' = [Owner EXCEPT ![Min(EntriesOf(t))].OwnerThread = p]
          /\ UNCHANGED <<ActiveEntries, crashed>>
          /\ held' = [held EXCEPT ![t] = "none", ![p] = "shared"]
       \/ /\ ~Exclusive /\ EntriesOf(p) # {} /\ Recursions < MaxRecursion
          /\ LET this == Min(EntriesOf(p))
                 i == Min(EntriesOf(t)) IN
             /\ Owner' = [Owner EXCEPT ![this].OwnerCount = @ + Owner[i].OwnerCount,
                                       ![i] = FreeEntry]
          /\ ActiveEntries' = ActiveEntries - 1
          /\ held' = [held EXCEPT ![t] = "none"]
          /\ UNCHANGED crashed
       \/ /\ ~Exclusive /\ EntriesOf(p) = {} /\ Unlimited
          /\ crashed' = TRUE
          /\ UNCHANGED <<Owner, ActiveEntries, held>>
    /\ UNCHANGED <<Exclusive, ActiveCount, waiters, TableSize, objects, local>>
-----------------------------------------------------------------------------
Unused == ~crashed /\ \A a \in Agents : pc[a] = "idle" /\ held[a] = "none"

Reset == /\ Exclusive' = FALSE /\ ActiveCount' = 0 /\ ActiveEntries' = 0
         /\ NumberOfSharedWaiters' = 0 /\ NumberOfExclusiveWaiters' = 0
         /\ TableSize' = 0
         /\ UNCHANGED <<crashed, local, held>>

(* ExDeleteResourceLite, and the storage initialized again.                *)
DeleteAndInitialize ==
    /\ Unused /\ Reset
    /\ Owner' = [i \in {0} |-> FreeEntry]
    /\ SharedWaiters' = NULL /\ ExclusiveWaiters' = NULL

(* The table is kept and zeroed, the entry that holds its size included.   *)
ExReinitializeResourceLite ==
    /\ Unused /\ Reset
    /\ Owner' = [i \in DOMAIN Owner |-> FreeEntry]
    /\ SharedWaiters' = IF SharedWaiters = NULL THEN NULL ELSE 0
    /\ ExclusiveWaiters' = IF ExclusiveWaiters = NULL THEN NULL ELSE FALSE

AcquireStep(t) ==
    \/ Retry(t) \/ WaitForSemaphore(t) \/ ClaimEntry(t) \/ WaitForEvent(t) \/ SetOwner(t)
    \/ ExpAllocateExclusiveWaiterEvent(t) \/ ExpAllocateSharedWaiterSemaphore(t)
    \/ ExpExpandResourceOwnerTable(t)

ReleaseStep(a) == \/ KeReleaseSemaphore(a) \/ KeSetEventBoostPriority(a)
                  \/ ExReleaseResourceForThreadLite(a)

Next ==
    \/ \E t \in Threads : \/ Begin(t) \/ AcquireStep(t) \/ ExConvertExclusiveToSharedLite(t)
                          \/ \E p \in Pointers : ExSetResourceOwnerPointer(t, p)
    \/ \E a \in Agents : ReleaseStep(a)
    \/ DeleteAndInitialize \/ ExReinitializeResourceLite

Spec == Init /\ [][Next]_vars

(* As long as some call can go on or some owner can release, one does.     *)
Progress == (\E t \in Threads : AcquireStep(t)) \/ (\E a \in Agents : ReleaseStep(a))

FairSpec == Spec /\ WF_vars(Progress)
-----------------------------------------------------------------------------
Labels == {"idle", "retry", "expand", "allocateEvent", "allocateSemaphore", "waitShared",
           "waitUnlisted", "claim", "waitExclusive", "setOwner", "releaseSemaphore", "setEvent"}

(* The values the variables range over; in particular no count of owners,  *)
(* grants or waiters is taken below zero.                                  *)
TypeOK ==
    /\ Exclusive \in BOOLEAN /\ ActiveCount \in Nat /\ ActiveEntries \in Nat
    /\ NumberOfSharedWaiters \in Nat /\ NumberOfExclusiveWaiters \in Nat
    /\ TableSize \in Nat /\ 0 \in DOMAIN Owner
    /\ \A i \in DOMAIN Owner : Owner[i] \in [OwnerThread : Agents \cup {NULL, GRANTED},
                                             OwnerCount : Nat]
    /\ SharedWaiters \in Nat \cup {NULL} /\ ExclusiveWaiters \in BOOLEAN \cup {NULL}
    /\ crashed \in BOOLEAN
    /\ pc \in [Agents -> Labels]
    /\ frame \in [Agents -> [call : Calls \cup {"none"}, Wait : BOOLEAN,
                             OldSize : Nat, Count : Nat]]
    /\ held \in [Agents -> {"none", "shared", "exclusive"}]

At(labels) == {a \in Agents : pc[a] \in labels}

Holders == {a \in Agents : held[a] # "none"}

(* Grants on their way to a shared waiter: still in the hands of whoever   *)
(* released, or counted by the semaphore.                                  *)
PendingGrants == UNION {{a} \X (1 .. frame[a].Count) : a \in At({"releaseSemaphore"})}

SharedGrants == (IF SharedWaiters = NULL THEN 0 ELSE SharedWaiters) + Cardinality(PendingGrants)

(* The same for the one grant to an exclusive waiter.                      *)
ExclusiveGrants == (IF ExclusiveWaiters = TRUE THEN 1 ELSE 0) + Cardinality(At({"setEvent"}))

(* ActiveEntries counts the owners and the grants that nobody has taken    *)
(* yet, and the numbers of waiters the threads that wait and have not been *)
(* granted the resource, whoever takes whose grant. No grant is lost, and  *)
(* there is never one without a thread that waits for it. The exclusive    *)
(* flag says who they are for. Whether the resource is free, the two       *)
(* counters that routines look at for it agree.                            *)
GrantsCounted ==
    /\ ActiveEntries = Cardinality(Holders) + SharedGrants + ExclusiveGrants
    /\ ActiveCount = 0 <=> ActiveEntries = 0
    /\ NumberOfSharedWaiters + SharedGrants = Cardinality(At({"waitShared", "waitUnlisted"}))
    /\ NumberOfExclusiveWaiters + ExclusiveGrants = Cardinality(At({"waitExclusive"}))
    /\ IF Exclusive THEN ActiveEntries = 1 /\ SharedGrants = 0
       ELSE ExclusiveGrants = 0 /\ \A a \in Holders : held[a] = "shared"
    /\ NumberOfSharedWaiters > 0 => Exclusive \/ NumberOfExclusiveWaiters > 0
    /\ NumberOfExclusiveWaiters > 0 => ActiveEntries > 0

(* What the kernel's test of resources expects of ActiveCount: a second    *)
(* thread that shares the resource makes it two.                           *)
SharersCounted == ~Exclusive /\ SharedGrants = 0 => ActiveCount = Cardinality(Holders)

HasEntry(a) == \/ held[a] # "none" /\ ~Claiming(a) /\ pc[a] # "setOwner"
               \/ pc[a] = "waitShared"
               \/ pc[a] = "setOwner" /\ Owner[0].OwnerThread = a

(* The table knows every owner, once: whatever is granted, joined,         *)
(* converted, handed over or copied to a larger table, a release finds its *)
(* entry. A waiter's entry is never the first one, which the next          *)
(* exclusive grant takes.                                                  *)
OwnersRecorded ==
    /\ \A a \in Agents : Cardinality(EntriesOf(a)) = IF HasEntry(a) THEN 1 ELSE 0
    /\ \A a \in At({"waitShared"}) : Owner[0].OwnerThread # a
    /\ Exclusive => Owner[0].OwnerThread # NULL /\ Owner[0].OwnerCount > 0
    /\ EntriesOf(GRANTED) = IF ExclusiveGrants = 1 \/ \E a \in At({"setOwner"}) : Owner[0].OwnerThread # a
                            THEN {0} ELSE {}
    /\ \A i \in DOMAIN Owner : (Owner[i].OwnerThread = NULL) = (Owner[i].OwnerCount = 0)

RW == INSTANCE ResourceSpec WITH Threads <- Threads, Names <- Pointers, held <- held

(* A resource is a lock with shared and exclusive modes that can be        *)
(* downgraded and handed over.                                             *)
Implements == RW!ResourceSpec

(* The step begins a call of the thread that acquires or goes on.          *)
Asks(t) == /\ pc[t] = "idle"
           /\ \/ pc'[t] \notin {"idle", "releaseSemaphore", "setEvent"}
              \/ held[t] = "none" /\ held'[t] # "none"
              \/ \E i \in EntriesOf(t) : Owner'[i].OwnerCount > Owner[i].OwnerCount

(* From some time on no thread asks for the resource any more.             *)
Quiet == <>[][\A t \in Threads : ~Asks(t)]_<<pc, held, Owner>>

(* When no thread asks for the resource any more every call returns: each  *)
(* waiter is granted the resource, unless a walk of the table went wrong.  *)
CallsReturn == Quiet => <>[](crashed \/ \A a \in Agents : pc[a] = "idle")
-----------------------------------------------------------------------------
(* The inductive invariant behind GrantsCounted, OwnersRecorded and        *)
(* Implements.                                                             *)

(* Where an agent may be while it holds the resource and while it does     *)
(* not. An owner pointer does nothing but release.                         *)
Places == \A a \in Agents :
    /\ pc[a] \in {"retry", "allocateEvent", "allocateSemaphore", "waitShared", "waitUnlisted",
                  "waitExclusive"} => held[a] = "none"
    /\ pc[a] = "expand" => (held[a] = "none" \/ Claiming(a)) /\ ~Unlimited
    /\ pc[a] = "claim" => held[a] = "shared"
    /\ pc[a] = "setOwner" => held[a] = "exclusive"
    /\ pc[a] = "releaseSemaphore" => frame[a].Count > 0
    /\ pc[a] \in {"waitShared", "waitUnlisted", "releaseSemaphore"} => SharedWaiters # NULL
    /\ a \in Pointers => pc[a] \in {"idle", "releaseSemaphore", "setEvent"}

OneReleaser == \A a, b \in At({"releaseSemaphore"}) : a = b

TableShape == /\ 0 \in DOMAIN Owner /\ DOMAIN Owner \subseteq Nat
              /\ TableSize # 0 => DOMAIN Owner = 0 .. TableSize - 1

(* No two entries have one owner, and the first is where an exclusive      *)
(* owner is, or will be.                                                   *)
EntriesInUse ==
    /\ \A a \in Agents : EntriesOf(a) # {} <=> HasEntry(a)
    /\ \A i, j \in DOMAIN Owner :
           Owner[i].OwnerThread = Owner[j].OwnerThread /\ Owner[i].OwnerThread # NULL => i = j
    /\ \A i \in DOMAIN Owner : /\ Owner[i].OwnerThread = NULL <=> Owner[i].OwnerCount = 0
                               /\ Owner[i].OwnerThread = GRANTED => i = 0
    /\ \A a \in At({"waitShared"}) : Owner[0].OwnerThread # a
    /\ Owner[0].OwnerThread = GRANTED <=>
           ExclusiveGrants = 1 \/ \E a \in At({"setOwner"}) : Owner[0].OwnerThread # a
    /\ \A a \in Agents : held[a] = "exclusive" =>
           Owner[0].OwnerThread = a \/ (pc[a] = "setOwner" /\ Owner[0].OwnerThread = GRANTED)
    /\ Exclusive => \A a \in Holders : held[a] = "exclusive"

ResourceInv == TypeOK /\ GrantsCounted /\ Places /\ OneReleaser /\ TableShape /\ EntriesInUse
=============================================================================
