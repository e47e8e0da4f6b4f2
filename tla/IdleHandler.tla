---------------------------- MODULE IdleHandler ----------------------------
(***************************************************************************)
(* Processor idle handlers: ntoskrnl/po/ppm.c and PopIdle0 of              *)
(* ntoskrnl/po/power.c, for one processor. The idle thread of the          *)
(* processor uses the registered table under rundown protection; a driver  *)
(* on another processor registers and unregisters the table. The driver is *)
(* the only one that takes PopIdleHandlerLock for this processor; the idle *)
(* thread does not take it, so each store under the lock is a step.        *)
(***************************************************************************)
EXTENDS Integers

CONSTANTS Tables,         \* pool blocks a handler table may be allocated in
          NULL

VARIABLES RunRef,         \* PopIdleHandlerRundown[ProcessorNumber].Ref
          IdleHandlers,   \* Prcb->PowerState.IdleHandlers
          HasCount,       \* Prcb->PowerState.IdleHandlersCount is not zero
          allocated,      \* the tables that are allocated in the pool
          driver,         \* where the driver is
          Entries,        \* its local pointer to a table
          idle,           \* where the idle thread is
          Handlers        \* its local pointer to a table

vars == <<RunRef, IdleHandlers, HasCount, allocated, driver, Entries, idle, Handlers>>

CountWord(k) == [active |-> FALSE, n |-> k]
EX_RUNDOWN_ACTIVE == [active |-> TRUE, n |-> 0]

(* PopInitIdleHandlerSupport and PoInitializePrcb                          *)
Init == /\ RunRef = CountWord(0)
        /\ IdleHandlers = NULL
        /\ HasCount = FALSE
        /\ allocated = {}
        /\ driver = "idle"
        /\ Entries = NULL
        /\ idle = "idle"
        /\ Handlers = NULL

tableVars == <<IdleHandlers, HasCount>>
driverVars == <<driver, Entries>>
idleVars == <<idle, Handlers>>

-----------------------------------------------------------------------------
(* PoRegisterProcessorIdleHandler, past the checks of the arguments and    *)
(* the allocation: either may fail, which changes nothing.                 *)
RegisterAllocates ==
    /\ driver = "idle"
    /\ \E e \in Tables \ allocated : /\ allocated' = allocated \cup {e}
                                     /\ Entries' = e
    /\ driver' = "registering"
    /\ UNCHANGED <<RunRef, tableVars, idleVars>>

RegisterBusy ==
    /\ driver = "registering"
    /\ IdleHandlers # NULL
    /\ allocated' = allocated \ {Entries}
    /\ Entries' = NULL
    /\ driver' = "idle"
    /\ UNCHANGED <<RunRef, tableVars, idleVars>>

(* ExfReInitializeRundownProtection                                        *)
RegisterReInitializes ==
    /\ driver = "registering"
    /\ IdleHandlers = NULL
    /\ RunRef' = CountWord(0)
    /\ driver' = "storing"
    /\ UNCHANGED <<tableVars, allocated, Entries, idleVars>>

RegisterStoresTable ==
    /\ driver = "storing"
    /\ IdleHandlers' = Entries
    /\ driver' = "storingCount"
    /\ UNCHANGED <<RunRef, HasCount, allocated, Entries, idleVars>>

RegisterStoresCount ==
    /\ driver = "storingCount"
    /\ HasCount' = TRUE
    /\ Entries' = NULL
    /\ driver' = "idle"
    /\ UNCHANGED <<RunRef, IdleHandlers, allocated, idleVars>>

-----------------------------------------------------------------------------
(* PoUnregisterProcessorIdleHandler                                        *)

UnregisterClearsTable ==
    /\ driver = "idle"
    /\ Entries' = IdleHandlers
    /\ IdleHandlers' = NULL
    /\ driver' = "clearingCount"
    /\ UNCHANGED <<RunRef, HasCount, allocated, idleVars>>

UnregisterClearsCount ==
    /\ driver = "clearingCount"
    /\ HasCount' = FALSE
    /\ driver' = IF Entries = NULL THEN "idle" ELSE "completing"
    /\ UNCHANGED <<RunRef, IdleHandlers, allocated, Entries, idleVars>>

(* ExRundownCompleted, called before the wait.                             *)
UnregisterCompletes ==
    /\ driver = "completing"
    /\ RunRef' = EX_RUNDOWN_ACTIVE
    /\ driver' = "waiting"
    /\ UNCHANGED <<tableVars, allocated, Entries, idleVars>>

(* ExWaitForRundownProtectionRelease. The word is EX_RUNDOWN_ACTIVE: no    *)
(* acquire or release changes that, so only this path is taken.            *)
UnregisterWaits ==
    /\ driver = "waiting"
    /\ RunRef \in {CountWord(0), EX_RUNDOWN_ACTIVE}
    /\ RunRef' = EX_RUNDOWN_ACTIVE
    /\ driver' = "freeing"
    /\ UNCHANGED <<tableVars, allocated, Entries, idleVars>>

UnregisterFrees ==
    /\ driver = "freeing"
    /\ allocated' = allocated \ {Entries}
    /\ Entries' = NULL
    /\ driver' = "idle"
    /\ UNCHANGED <<RunRef, tableVars, idleVars>>

-----------------------------------------------------------------------------
(* PopIdle0. A refused acquire only halts the processor.                   *)
PopIdle0 ==
    /\ idle = "idle"
    /\ ~RunRef.active
    /\ RunRef' = CountWord(RunRef.n + 1)
    /\ idle' = "reading"
    /\ UNCHANGED <<tableVars, allocated, driverVars, Handlers>>

IdleReadsTable ==
    /\ idle = "reading"
    /\ Handlers' = IdleHandlers
    /\ idle' = "readingCount"
    /\ UNCHANGED <<RunRef, tableVars, allocated, driverVars>>

IdleReadsCount ==
    /\ idle = "readingCount"
    /\ idle' = IF Handlers # NULL /\ HasCount THEN "calling" ELSE "releasing"
    /\ UNCHANGED <<RunRef, tableVars, allocated, driverVars, Handlers>>

IdleCallsHandler ==
    /\ idle = "calling"
    /\ idle' = "releasing"
    /\ UNCHANGED <<RunRef, tableVars, allocated, driverVars, Handlers>>

(* ExReleaseRundownProtection: with the active bit set and no wait block,  *)
(* the release dereferences a null pointer.                                *)
IdleReleases ==
    /\ idle = "releasing"
    /\ IF RunRef.active
       THEN idle' = "bugcheck" /\ UNCHANGED <<RunRef, Handlers>>
       ELSE /\ RunRef' = CountWord(RunRef.n - 1)
            /\ Handlers' = NULL
            /\ idle' = "idle"
    /\ UNCHANGED <<tableVars, allocated, driverVars>>

-----------------------------------------------------------------------------
Next == \/ RegisterAllocates
        \/ RegisterBusy
        \/ RegisterReInitializes
        \/ RegisterStoresTable
        \/ RegisterStoresCount
        \/ UnregisterClearsTable
        \/ UnregisterClearsCount
        \/ UnregisterCompletes
        \/ UnregisterWaits
        \/ UnregisterFrees
        \/ PopIdle0
        \/ IdleReadsTable
        \/ IdleReadsCount
        \/ IdleCallsHandler
        \/ IdleReleases

Spec == Init /\ [][Next]_vars

-----------------------------------------------------------------------------
(* "Waits until the specified rundown descriptor has been released": when  *)
(* the wait of PoUnregisterProcessorIdleHandler has returned, the idle     *)
(* thread is not calling a handler of the table that is about to be freed. *)
WaitProtectsIdle == driver = "freeing" => ~(idle = "calling" /\ Handlers = Entries)
=============================================================================
