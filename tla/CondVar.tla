------------------------------ MODULE CondVar -------------------------------
(***************************************************************************)
(* Condition variables (sdk/lib/rtl/condvar.c), composed with the keyed    *)
(* event they sleep on.                                                    *)
(*                                                                         *)
(* The variable is a word: the head of a list of entries on the sleepers'  *)
(* stacks, and a bit that locks the list. A thread that finds the bit set  *)
(* spins, so taking the lock is one step that waits for the bit. An entry  *)
(* is named by its owner, and so is the key in it that the owner sleeps    *)
(* on.                                                                     *)
(***************************************************************************)
EXTENDS Naturals, Sequences

CONSTANTS Threads, NULL

ASSUME NULLAssumption == NULL \notin Threads

VARIABLES list,                \* the entries, newest first
          locked,              \* COND_VAR_LOCKED_FLAG
          ListRemovalHandled,  \* per entry
          CriticalSection,     \* owner of the caller's lock, or NULL
          pc, frame            \* where each thread is, and its call's variables

VARIABLES WaitList, ReleaseList, KeyedWaitValue, KeyedWaitSemaphore, Timeout, kpc, Status

KE == INSTANCE KeyedEvent WITH Threads <- Threads, Keys <- Threads, NULL <- NULL,
          WaitList <- WaitList, ReleaseList <- ReleaseList, KeyedWaitValue <- KeyedWaitValue,
          KeyedWaitSemaphore <- KeyedWaitSemaphore, Timeout <- Timeout, kpc <- kpc,
          Status <- Status

keyed == <<WaitList, ReleaseList, KeyedWaitValue, KeyedWaitSemaphore, Timeout, kpc, Status>>
entries == <<list, ListRemovalHandled>>
own == <<list, locked, ListRemovalHandled, CriticalSection, pc, frame>>
vars == <<own, keyed>>

NoFrame == [TimeOut |-> FALSE, ReleaseAll |-> FALSE, Entry |-> NULL, NextEntry |-> NULL,
            Remove |-> NULL]

Init == /\ list = <<>> /\ locked = FALSE
        /\ ListRemovalHandled = [t \in Threads |-> FALSE]
        /\ CriticalSection = NULL
        /\ pc = [t \in Threads |-> "idle"]
        /\ frame = [t \in Threads |-> NoFrame]
        /\ KE!Init

Goto(t, label) == pc' = [pc EXCEPT ![t] = label]

Return(t) == Goto(t, "idle") /\ frame' = [frame EXCEPT ![t] = NoFrame]

IsListed(e) == KE!InList(e, list)
-----------------------------------------------------------------------------
(* The caller's lock, a critical section or an SRW lock.                   *)
RtlEnterCriticalSection(t) ==
    /\ pc[t] = "idle" /\ CriticalSection = NULL
    /\ CriticalSection' = t
    /\ UNCHANGED <<entries, locked, pc, frame, keyed>>

RtlLeaveCriticalSection(t) ==
    /\ pc[t] = "idle" /\ CriticalSection = t
    /\ CriticalSection' = NULL
    /\ UNCHANGED <<entries, locked, pc, frame, keyed>>

(* InternalSleep: a fresh entry becomes the head of the list.              *)
InternalSleep(t, TimeOut) ==
    /\ pc[t] = "idle" /\ CriticalSection = t /\ ~locked
    /\ locked' = TRUE
    /\ list' = <<t>> \o list
    /\ ListRemovalHandled' = [ListRemovalHandled EXCEPT ![t] = FALSE]
    /\ frame' = [frame EXCEPT ![t].TimeOut = TimeOut]
    /\ Goto(t, "inserted")
    /\ UNCHANGED <<CriticalSection, keyed>>

UnlockInserted(t) ==
    /\ pc[t] = "inserted"
    /\ locked' = FALSE
    /\ Goto(t, "dropLock")
    /\ UNCHANGED <<entries, CriticalSection, frame, keyed>>

DropCallersLock(t) ==
    /\ pc[t] = "dropLock"
    /\ CriticalSection' = NULL
    /\ Goto(t, "sleep")
    /\ UNCHANGED <<entries, locked, frame, keyed>>

NtWaitForKeyedEvent(t) ==
    /\ pc[t] = "sleep"
    /\ KE!ExpWaitForKeyedEvent(t, t, frame[t].TimeOut)
    /\ Goto(t, "slept")
    /\ UNCHANGED <<entries, locked, CriticalSection, frame>>

(* Fault: the entry is left on the list.                                   *)
Awake_Leaves(t) ==
    /\ pc[t] = "slept" /\ KE!Consume(t)
    /\ Goto(t, "reacquire")
    /\ UNCHANGED <<entries, locked, CriticalSection, frame>>

(* Awake again, the thread looks whether its entry has been taken off.     *)
Awake(t) ==
    /\ pc[t] = "slept" /\ KE!Consume(t)
    /\ Goto(t, IF ListRemovalHandled[t] THEN "reacquire" ELSE "lockSelf")
    /\ UNCHANGED <<entries, locked, CriticalSection, frame>>

(* It takes the lock to remove its entry, unless a waker that has the lock *)
(* does so meanwhile.                                                      *)
LockSelf(t) ==
    /\ pc[t] = "lockSelf"
    /\ \/ ~locked /\ list # <<>> /\ locked' = TRUE /\ Goto(t, "removeSelf")
       \/ ~locked /\ list = <<>> /\ UNCHANGED locked /\ Goto(t, "reacquire")
       \/ ListRemovalHandled[t] /\ UNCHANGED locked /\ Goto(t, "reacquire")
    /\ UNCHANGED <<entries, CriticalSection, frame, keyed>>

(* Fault: the entry is removed without a look at the flag.                 *)
RemoveSelf_Always(t) ==
    /\ pc[t] = "removeSelf"
    /\ frame' = [frame EXCEPT ![t].Remove = t]
    /\ Goto(t, "unlink")
    /\ UNCHANGED <<entries, locked, CriticalSection, keyed>>

RemoveSelf(t) ==
    /\ pc[t] = "removeSelf"
    /\ frame' = [frame EXCEPT ![t].Remove = IF ListRemovalHandled[t] THEN NULL ELSE t]
    /\ Goto(t, "unlink")
    /\ UNCHANGED <<entries, locked, CriticalSection, keyed>>

ReacquireCallersLock(t) ==
    /\ pc[t] = "reacquire" /\ CriticalSection = NULL
    /\ CriticalSection' = t
    /\ Return(t)
    /\ UNCHANGED <<entries, locked, keyed>>
-----------------------------------------------------------------------------
(* The entry before a given one, towards the head.                         *)
Newer(s, e) == IF s[1] = e THEN NULL ELSE s[(CHOOSE i \in DOMAIN s : s[i] = e) - 1]

(* The waker is at an entry, and remembers the next before it wakes the    *)
(* owner.                                                                  *)
AtEntry(t, f, e) == [f EXCEPT !.Entry = e, !.NextEntry = Newer(list, e)]

(* InternalWake: there is nothing to do on an empty list, which is not     *)
(* locked. The oldest entry comes first.                                   *)
InternalWake(t, ReleaseAll) ==
    /\ pc[t] = "idle" /\ ~locked /\ list # <<>>
    /\ locked' = TRUE
    /\ frame' = [frame EXCEPT ![t] = AtEntry(t, [NoFrame EXCEPT !.ReleaseAll = ReleaseAll],
                                             list[Len(list)])]
    /\ Goto(t, "release")
    /\ UNCHANGED <<entries, CriticalSection, keyed>>

(* With a timeout of zero.                                                 *)
NtReleaseKeyedEvent(t) ==
    /\ pc[t] = "release"
    /\ KE!ExpReleaseKeyedEvent(t, frame[t].Entry, TRUE)
    /\ Goto(t, "released")
    /\ UNCHANGED <<entries, locked, CriticalSection, frame>>

(* STATUS_TIMEOUT is a success code.                                       *)
NT_SUCCESS(status) == status \in {"STATUS_SUCCESS", "STATUS_TIMEOUT"}

(* On to the next entry, or to the end of the loop.                        *)
Advance(t, f) ==
    IF f.NextEntry = NULL
    THEN Goto(t, "unlink") /\ frame' = [frame EXCEPT ![t] = f]
    ELSE Goto(t, "release") /\ frame' = [frame EXCEPT ![t] = AtEntry(t, f, f.NextEntry)]

(* The owner counts as woken: its entry is taken off the list and the      *)
(* owner told so, now or, if it is the head, when the list is unlocked.    *)
HandleReleased(t) ==
    LET e == frame[t].Entry
        isHead == e = list[1]
        f == [frame[t] EXCEPT !.Remove = IF isHead THEN e ELSE NULL] IN
    /\ pc[t] = "released" /\ KE!Consume(t)
    /\ IF NT_SUCCESS(Status[t])
       THEN /\ list' = IF isHead THEN list ELSE KE!Without(list, e)
            /\ ListRemovalHandled' = IF isHead THEN ListRemovalHandled
                                     ELSE [ListRemovalHandled EXCEPT ![e] = TRUE]
            /\ Advance(t, IF f.ReleaseAll THEN f ELSE [f EXCEPT !.NextEntry = NULL])
       ELSE Advance(t, frame[t]) /\ UNCHANGED entries
    /\ UNCHANGED <<locked, CriticalSection>>

(* InternalUnlockCondVar: the entry to remove is unlinked and its owner    *)
(* told, then the lock is given up.                                        *)
Unlink(t) ==
    LET e == frame[t].Remove IN
    /\ pc[t] = "unlink"
    /\ IF e = NULL THEN UNCHANGED entries
       ELSE /\ list' = KE!Without(list, e)
            /\ ListRemovalHandled' = [ListRemovalHandled EXCEPT ![e] = TRUE]
    /\ Goto(t, "unlock")
    /\ UNCHANGED <<locked, CriticalSection, frame, keyed>>

(* Fault: the lock is kept.                                                *)
Unlock_Forgets(t) ==
    /\ pc[t] = "unlock"
    /\ IF frame[t].Entry = NULL THEN Goto(t, "reacquire") /\ UNCHANGED frame ELSE Return(t)
    /\ UNCHANGED <<entries, locked, CriticalSection, keyed>>

(* A sleeper goes on with its own call, a waker is done.                   *)
Unlock(t) ==
    /\ pc[t] = "unlock"
    /\ locked' = FALSE
    /\ IF frame[t].Entry = NULL THEN Goto(t, "reacquire") /\ UNCHANGED frame ELSE Return(t)
    /\ UNCHANGED <<entries, CriticalSection, keyed>>

(* A step inside the keyed event.                                          *)
KeyedEventStep(t) == KE!KernelStep(t) /\ UNCHANGED own
-----------------------------------------------------------------------------
Begin(t) == \/ RtlEnterCriticalSection(t)
            \/ \E TimeOut \in BOOLEAN : InternalSleep(t, TimeOut)
            \/ \E ReleaseAll \in BOOLEAN : InternalWake(t, ReleaseAll)

Continue(t) == \/ RtlLeaveCriticalSection(t)
               \/ UnlockInserted(t) \/ DropCallersLock(t) \/ NtWaitForKeyedEvent(t)
               \/ Awake(t) \/ LockSelf(t) \/ RemoveSelf(t) \/ ReacquireCallersLock(t)
               \/ NtReleaseKeyedEvent(t) \/ HandleReleased(t) \/ Unlink(t) \/ Unlock(t)
               \/ KeyedEventStep(t)

Next == \E t \in Threads : Begin(t) \/ Continue(t)

Spec == Init /\ [][Next]_vars

(* Every thread keeps running, timeouts expire and the caller's lock is    *)
(* released.                                                               *)
FairSpec == Spec /\ \A t \in Threads : WF_vars(Continue(t))
-----------------------------------------------------------------------------
Labels == {"idle", "inserted", "dropLock", "sleep", "slept", "lockSelf", "removeSelf",
           "reacquire", "release", "released", "unlink", "unlock"}

(* The values the variables range over.                                    *)
TypeOK == /\ list \in Seq(Threads) /\ locked \in BOOLEAN
          /\ ListRemovalHandled \in [Threads -> BOOLEAN]
          /\ CriticalSection \in Threads \cup {NULL}
          /\ pc \in [Threads -> Labels]
          /\ frame \in [Threads -> [TimeOut : BOOLEAN, ReleaseAll : BOOLEAN,
                                    Entry : Threads \cup {NULL},
                                    NextEntry : Threads \cup {NULL},
                                    Remove : Threads \cup {NULL}]]
          /\ KE!TypeOK

(* The entry of a thread, on its stack, is in use from its insertion until *)
(* the thread knows that it is off the list.                               *)
EntryInUse(t) == \/ pc[t] \in {"inserted", "dropLock", "sleep", "slept", "lockSelf", "removeSelf"}
                 \/ pc[t] \in {"unlink", "unlock"} /\ frame[t].Entry = NULL

(* Whatever entry the list holds or a waker is going to touch is in use:   *)
(* no sleeper has returned and left its stack to be written to.            *)
TouchesLiveEntries ==
    /\ \A i \in DOMAIN list : EntryInUse(list[i])
    /\ \A t \in Threads :
           /\ pc[t] \in {"release", "released"} =>
                  /\ EntryInUse(frame[t].Entry)
                  /\ frame[t].NextEntry # NULL => EntryInUse(frame[t].NextEntry)
           /\ pc[t] = "unlink" /\ frame[t].Remove # NULL => EntryInUse(frame[t].Remove)

Lockers == {t \in Threads : pc[t] \in {"inserted", "removeSelf", "release", "released",
                                       "unlink", "unlock"}}

(* The list is the entries in use that nobody has said to be removed, each *)
(* once, and only the thread that has the lock changes it. An entry is     *)
(* removed once.                                                           *)
ListExact ==
    /\ KE!Distinct(list)
    /\ \A t \in Threads : EntryInUse(t) => (IsListed(t) <=> ~ListRemovalHandled[t])
    /\ \A t, u \in Lockers : t = u
    /\ locked <=> Lockers # {}
    /\ \A t \in Threads : pc[t] = "unlink" /\ frame[t].Remove # NULL => IsListed(frame[t].Remove)

(* A sleep and a wake that use one key meet or time out, and leave nothing *)
(* behind in the keyed event.                                              *)
Rendezvous == KE!Rendezvous

(* The step begins a call of the thread, or takes the caller's lock.       *)
Asks(t) == pc[t] = "idle" /\ (pc'[t] # "idle" \/ (CriticalSection # t /\ CriticalSection' = t))

(* From some time on no thread begins a call any more.                     *)
Quiet == <>[][\A t \in Threads : ~Asks(t)]_<<pc, CriticalSection>>

(* When no thread begins a call any more, every wake and every sleep with  *)
(* a timeout returns, and whoever does not return is asleep.               *)
CallsReturn ==
    Quiet => <>[](\A t \in Threads : \/ pc[t] = "idle"
                                     \/ pc[t] = "slept" /\ kpc[t] = "wait" /\ ~frame[t].TimeOut)

(* A thread whose entry a waker took off the list has been woken: when no  *)
(* thread begins a call any more, none of these is still asleep.           *)
WokenReturn == Quiet => <>[](\A t \in Threads : pc[t] = "slept" => ~ListRemovalHandled[t])
-----------------------------------------------------------------------------
(* The inductive invariant behind TouchesLiveEntries, ListExact and        *)
(* Rendezvous.                                                             *)

(* What the variables of a call mean: a waker is at a listed entry and     *)
(* remembers the one that comes next now, a sleeper is at none; a sleeper  *)
(* that unlocks the list is not on it any more.                            *)
FramesInUse == \A t \in Threads :
    /\ pc[t] = "idle" => frame[t] = NoFrame
    /\ pc[t] \in {"inserted", "dropLock", "sleep", "slept", "lockSelf", "removeSelf"} =>
           frame[t].Entry = NULL
    /\ pc[t] \in {"release", "released"} =>
           /\ IsListed(frame[t].Entry)
           /\ frame[t].NextEntry = Newer(list, frame[t].Entry)
           /\ frame[t].Remove = NULL
    /\ pc[t] = "unlink" /\ frame[t].Entry = NULL =>
           frame[t].Remove = IF ListRemovalHandled[t] THEN NULL ELSE t
    /\ pc[t] = "unlock" /\ frame[t].Entry = NULL => ListRemovalHandled[t]

ListedInUse == \A t \in Threads : IsListed(t) => EntryInUse(t)

CondInv == TypeOK /\ Rendezvous /\ ListExact /\ ListedInUse /\ FramesInUse
=============================================================================
