# TLA+ models of the NT executive's synchronization and lifetime core

ReactOS is an NT-compatible operating system. Everything above the kernel proper
(the object manager, the I/O manager, the cache manager, the drivers) rests on a
handful of lock-free and blocking primitives in `src/ntoskrnl/ex`, `src/ntoskrnl/ke`
(with their user-mode counterparts in `src/sdk/lib/rtl`) and the inlines of `src/ntoskrnl/include/internal`. They are short, they are
called from everywhere, and what they get wrong shows up once in a million
interleavings. This project models them at the granularity of single memory
accesses, checks them with TLC, and proves the central results with TLAPS.

`PROJECT.json` lists the components, the runs with their properties, a mutant of
the code for every property, the source lines of every definition, the findings,
the hazards and the theorems.

The map covers the primitives, not the tree: of some eight million lines, most are drivers,
applications, tests and vendored libraries that use them. The aim is that what is modelled is
modelled access by access.

## Inventory

### Modelled

| Component | State | Operations | Interacts with | What is hard | What makes it correct |
|---|---|---|---|---|---|
| Rundown protection, `ex/rundown.c`, `ex.h` | one word: a count, or the active bit with a pointer to a wait block; the wait block (count, event) on the owner's stack | acquire, release (by one or by count), wait, completed, re-initialize | events; users: idle handlers, callbacks, processes, registry | the count moves from the word into the owner's stack frame while others add and subtract | the wait returns when, and only when, nothing is held; nobody touches the frame after |
| Cache-aware rundown, `ex/rundown.c` | a word per processor, one wait block | the same, on the word of the current processor | classpnp's remove lock | counts of single words are negative; words are replaced one by one | the sum is exact; the same protection |
| Processor idle handlers, `po/ppm.c`, `po/power.c` | handler table, number of entries, rundown word | register, unregister, the idle loop | rundown protection | a table freed while the idle thread calls into it | no table is freed in use |
| Push locks, `ex/pushlock.c`, `ex.h` | one word; wait blocks linked on the stacks of the waiters | acquire and release, shared and exclusive, try, convert, wait-on; wake, list repair | gates | a list of stack frames that three kinds of threads walk at once; wakeups that get lost | a readers-writer lock; no waiter is forgotten; no dead frame is touched |
| Handle table entries, `ex/handle.c` (with block and unblock of `ex/pushlock.c`) | value of each entry with its lock bit; the contention event, a list of stack wait blocks | lock, unlock, destroy, create; block, wait for unblock, unblock | object manager, process and thread ids, atoms | test, queue, test again, sleep: an unlock in between | the bit excludes; nobody sleeps on an unlocked entry |
| Remove locks, `io/iomgr/remlock.c` | count, removed flag, event; for debug locks a list of tracking blocks and a count of failed allocations | acquire, release, release-and-wait | drivers' dispatch and remove routines | the acquisition counts itself before it looks at the flag | the remove handler returns when nobody holds the lock |
| Handle free lists, `ex/handle.c` | `FirstFree`, `LastFree`, links in free entries, four push locks | allocate, free, move, grow | push locks; entries | a pop by compare-exchange, protected from reuse by locks that the free routine only looks at | a link that is followed is a handle of the table; a handle has one user |
| Executive resources, `ex/resource.c` | flag, counts of owners and of waiters, an owner entry and a table of them; an event and a semaphore made when first needed | exclusive, shared, starve-exclusive, wait-for-exclusive, try; convert, hand over, release; delete, re-initialize | dispatcher; file systems, cache manager | grants are counted by the releaser and picked up later by anyone who waits; the table grows with the lock dropped; an owner written without the lock | a readers-writer lock; a release finds its owner; no grant is lost |
| Keyed events, `ex/keyedevt.c` | per bucket a list of waiters and one of releasers; per thread a key and a semaphore | wait, release, timeout | push locks, semaphores; user-mode locks | a timeout that races with the partner that has already taken the thread off its list | a wait and a release of one key meet or time out, and leave nothing behind |
| Condition variables, `sdk/lib/rtl/condvar.c` | a word: a list of entries on the sleepers' stacks, and a lock bit | sleep, wake one, wake all | keyed events, the caller's lock | an entry is removed by its owner or by a waker; the sleeper is listed before it sleeps | each entry is removed once; nobody touches a frame that is gone; who is woken returns |

### Not modelled yet

| Component | State and operations | What is hard | Plan |
|---|---|---|---|
| Guarded and fast mutexes, `ke/gmutex.c`, `ex/fmutex.c` | count with wait and wake bits; acquire, contend, release | the wake bit is passed between releaser and contender | 1 |
| Executive callbacks, `ex/callback.c` | fast reference (count in the low bits of a pointer), rundown word; reference, dereference, compare-exchange block | counts are split between the pointer and the block | 2, on top of `Rundown` |
| Work queues and KQUEUE, `ex/work.c`, `ke/queue.c` | entries, waiters, current and maximum count; insert, remove, new workers | the limit while workers block; the worker that times out | 3 |
| APCs, DPCs, timers, device queues, `ke/` | queues per thread or processor, inserted and busy flags | an object queued again while it is being delivered or retired | 4 |
| Object lifetime, `ob/obref.c`, `ob/oblife.c` | pointer and handle counts, deferred deletion list | last reference and new handle at once | 5, with handles |
| IRP completion and cancellation, `io/iomgr/irp.c` | stack location, cancel routine, pending flag | completion and cancellation at once | 6 |
| Cache manager views, oplocks, LPC, thread termination (`cc/view.c`, `fsrtl/oplock.c`, `lpc/send.c`, `ps/kill.c`) | reference counts, break state, message queues | larger protocols on top of all of the above | late |

Left out: the memory manager (page tables and working sets need the hardware), the
scheduler (policy under one lock), plain spin locks (an atomic instruction), security
checks, the registry and name-space parsing (sequential), the rest of the power manager
(requests in sequence), the debugger, and everything outside `ntoskrnl` (boot loader,
HAL, drivers, win32ss, user mode, vendored libraries), which uses these primitives
and does not own them. The dispatcher (`ke/wait.c`) appears in every model through what
it promises: an event, gate or synchronization event is a flag that a wait consumes.

## Modules

| Module | What it is |
|---|---|
| `RundownSpec` | abstract descriptor: a set of references, open, closing, drained |
| `Rundown` | the word and the wait block; refines `RundownSpec` (`Implements`) |
| `RundownProofs` | proofs about `Rundown` |
| `RundownCacheAware` | the per-processor variant |
| `RundownCacheAwareProofs` | proofs about `RundownCacheAware` |
| `ResourceSpec` | abstract resource: `RWLock` with downgrade and hand-over to a name |
| `Resource` | executive resources; refines `ResourceSpec` (`Implements`) |
| `ResourceProofs` | proofs about `Resource`, the refinement included |
| `KeyedEvent` | one bucket of a keyed event |
| `CondVar` | condition variables composed with `KeyedEvent` (`KE == INSTANCE KeyedEvent WITH ...`): a sleep or a wake is a step of both, and the event's own steps interleave with those of the variable |
| `CondVarProofs` | proofs about `CondVar` and the `KeyedEvent` in it |
| `HandleFreeList` | the two free lists of a handle table, over four locks that do what `RWLock` says |
| `IdleHandler` | register and unregister of `ppm.c` composed with `PopIdle0`, over a rundown word |
| `RWLock` | abstract readers-writer lock |
| `PushLock` | the push lock; refines `RWLock` (`Implements`) |
| `PushLockProofs` | proofs about `PushLock`, the refinement included |
| `HandleEntry` | handle entries, the contention event, and the block and unblock routines of push locks |
| `HandleEntryProofs` | proofs about `HandleEntry`: the lock bit and the free entries |
| `HandleListProofs` | proofs about `HandleEntry`: the contention list |
| `RemoveLock` | remove locks, free and debug |
| `RemoveLockProofs` | proofs about `RemoveLock` |
| `MC...` | the instances TLC runs |

### How the models follow the code

Threads run the calls of the client interface in any order the interface allows: a
release is called by a thread that holds, a conversion by one that holds shared. `pc[t]` says where
in a call a thread is. A step is one access to memory that other processors use: a read,
a write or an interlocked operation, with the private computation that follows.
Memory is sequentially consistent (the interlocked operations are full barriers, and the
volatile reads between them are single words). Names are those of the source; a definition named
`X_Fault` is a mutant of `X` and is not part of any specification.

* **Rundown.** `RunRef` is a record of the active bit and a number: a count, or
  `WaitBlockAddr`, the address of the one wait block. Thus a count and a pointer can be confused,
  as in the code, by a step that forgets the bit. `WaitBlock` has `Count` and the event;
  `owner` is the thread that runs the descriptor down. References are named
  (`Refs`), so that a thread can give back only what somebody got, and `held` is the set that
  the count is compared with. Both the inlines of `ex.h` (a masked read and one exchange, then
  the slow path) and the loops of `rundown.c` are there.
* **RundownCacheAware.** A reference is taken on the word of some processor and given back on
  the word of another. The loops on a word are one step (`Rundown` has them step by step);
  the replacement of the words by the owner is one step per word. A release that finds a
  pointer to no block takes a bugcheck state; `damaged` records that a wait block was
  changed after its frame was gone, after which a new rundown is not begun. The exploration of a word's
  count is bounded by `MaxSkew`.
* **IdleHandler.** The driver's calls go step by step through the writes of the table
  pointer, of the number of entries and of the rundown word; the idle thread runs `PopIdle0`. The number of
  entries is abstracted to zero or not.
* **PushLock.** The word is a record of its bits with a share count or a pointer; a wait block
  belongs to a thread. Walks over the list take one step per block. The local variables that survive a
  step are in `frame`. `queue` and `taken` are history: the list as it should be, and what each waker
  took. A gate is a flag. Spinning before a wait is left out: it finds what the test after it finds.
  A value that is overwritten before it is read again (a wait block after the wake-up, the word of a
  failed exchange) is cleared, which keeps the states few; `TouchesLiveBlocks` shows that nobody else
  reads the block.
* **HandleEntry.** The value of an entry is null or an object with the lock bit (set while the entry
  is *not* locked). Which entry a new handle gets is the allocator's choice of any free one. The
  wait for an unblock has no timeout, as in its only caller.
* **RemoveLock.** `Dbg` tells a debug lock from a free one. Tracking blocks are the sequence of
  their tags; an allocation may fail. Tick-count and high-watermark warnings are left out. Requests
  may come in until the remove handler has returned; one remove request comes to a device. A handler that finds no
  block to free, because the allocation of one failed, reads through a null pointer (`remlock.c:274-286`): it is
  `crashed` instead of `removed`, and nothing runs after it.

* **HandleFreeList.** A handle is the index of its entry. The four table locks do what `RWLock`
  says, which `pushlock_safety` checks of the real ones. An entry that is in use has an access mask in the
  field that links a free one, as in the union of the source. The levels above the pages are left out: they only find an entry.
* **Resource.** A section under the resource's spin lock is one step; everything that happens with the lock
  dropped (the allocations, the growth of the table, the waits, the signals and the owner that a woken
  exclusive waiter writes) is a step of its own. Entry 0 is `OwnerEntry`, the others are the
  table. `held` is what each thread or owner pointer believes to have; it is history, and is mapped to
  `ResourceSpec`. The event of the exclusive waiters may be taken by any thread that waits, as the
  dispatcher lets it. `crashed` records a walk past the end of the table (after `ExReinitializeResourceLite`
  has cleared its size), a release without owner, or a larger table for which there was no memory and which is
  written to all the same (`resource.c:346-352`); nothing happens after it. A thread that grows the table remembers
  the pointer and the size from before it dropped the lock; the size stands for both in the test at 358, since it only grows while
  threads are in their calls, and the new table gets as many entries as were remembered. A thread that
  holds shared does not ask for exclusive access and wait, which would wait for itself.
* **KeyedEvent.** A section under the bucket's push lock is one step; a timeout and the section that follows it
  are two, so that a partner may come in between. Keys and threads are sets; all fall in one bucket.
* **CondVar.** The list is the sequence of its entries, newest first; an entry is named by its owner. The
  lock bit, the list, and the flag by which an owner learns that its entry is off the list are separate, and
  so are the steps that set them. The caller's lock is a critical section (`sdk/lib/rtl/critical.c`) or an SRW lock,
  abstracted to a plain lock: the callers of a sleep hold it once, and the order among those that wait for it does not matter here. A call that still spins
  for the lock bit when it comes in (`InternalLockCondVar` of a sleep or a wake) has not begun, so `CallsReturn` says nothing of how long it spins. `NT_SUCCESS` accepts `STATUS_TIMEOUT`, as in the headers.

## What TLC checks

| Run | Instance | Distinct states | Shows |
|---|---|---|---|
| `rundown_checks` | 3 threads, 2 references, fair | 196,595 | The wait returns only when nothing is held and always returns; no reference is granted in a rundown; the stack block is not touched after the wait; the count is exact; the ASSERTs hold; `RundownSpec` is implemented. |
| `cacheaware_safety` | 2 threads, 2 references, 3 processors on 2 words | 7,614 | No reference is counted twice or lost while words are replaced; no release signals the event before it is initialized; nothing is granted after the last word. |
| `cacheaware_protects` | the same | violation | The wait returns while a reference is held. |
| `idle_wait` | 3 tables | violation | A table is freed while the idle thread calls a handler in it. |
| `pushlock_safety` | 3 threads, all routines, symmetry | 126,341 | The lock implements `RWLock`; the list stays well formed (`ListIntact`: one waker, links that match the queue, wakers that signal what they took, no waiter lost); no dead frame touched; the ASSERTs hold. |
| `pushlock_release` | 3 threads, shared and exclusive, fair | violation | A release that repeats an exchange with the value that failed. |
| `handle_entries` | 3 threads, 1 entry, 2 objects, fair | 290,850 | One holder per entry; free entries are empty; every waiter is in exactly one list until it is told to go on; a thread sleeps only on a locked entry or with an unblocker on its way; every call returns. |
| `removelock_checks` | 3 threads, 2 tags, free and debug, fair | 19,500 | The handler returns only when nobody holds the lock; its wait ends, and it returns unless a tracking allocation failed; the count is exact; tracking balances. |
| `resource_checks` | 3 threads, 1 owner pointer, table of 3 growing by 4, fair | 795,110 | Grants are neither lost nor given twice; each owner has its entry while threads grow the table at once; `ResourceSpec` is implemented; when nobody asks any more, every call returns. |
| `condvar_checks` | 3 threads, fair | 508,042 | No frame is touched after its owner left; each entry is removed once; sleeps and wakes leave nothing in the keyed event; wakes and timed sleeps return. |
| `condvar_woken` | the same | violation | A sleeper whose entry was taken off the list is never woken. |
| `freelist_asserts` | 2 threads, pages of 5 entries, 2 pages | violation | An access mask becomes the first free handle. |

Every property of a passing run is violated by its mutant, a plausible slip in a
mapped definition: a dropped comparison, an off-by-one, a skipped signal.

### Bounds

* *Rundown.* Three threads let one thread stand between its read and its exchange, or between its
  count-down and its signal, while two others release and the owner goes through a whole cycle of wait,
  completion and re-initialization. Two references make "the last" differ from "one". The theorems
  remove the bounds.
* *Cache-aware.* Two words suffice for a reference that moves from a replaced word to one not yet replaced and back; a
  third processor makes two share a word. `MaxSkew = 2` is the number of references.
* *Idle handlers.* Three tables: one in use by the idle thread, one registered, one that loses.
* *Push locks.* With three threads a list of two waiters behind a holder, or two sharers and a
  waiter.
* *Handle entries.* A holder and two waiters, or two unblockers and a waiter. One entry is enough for wakeups that
  are not for the waiter (the entry is locked again by another thread), and two objects
  let an entry be destroyed and come back with another value.
* *Remove locks.* A handler, a holder and a late request; two tags, so that one may be used twice.
* *Resources.* Three threads: an owner, a waiter of each kind, and one that comes in between the release
  and the pick-up of a grant. The table starts with 3 entries, of which two can be used, so that it grows with
  two sharers beside an owner pointer; it then grows by 4, as in the code. One recursion (`MaxRecursion`) tells a recursive
  release from the last.
* *Condition variables.* Two sleepers and a waker, or a sleeper and two wakers; an entry that is the head, and
  one that is not.
* *Free lists.* A page of 5 entries has a handle for each of the four locks; a second page makes the table grow.

Symmetry is used in the push lock run without liveness only. Deadlock is checked except in
`cacheaware_safety` (a damaged descriptor or a bugcheck is an end), in the run of remove locks (after the removal,
or a crash in it, nothing more happens), of resources (`crashed` is an end), of condition variables (everyone may be asleep),
and of free lists (a thread that looks up a handle out of range stops).

### Fairness

* *Rundown*: weak fairness of every call in progress and of the satisfied wait: the scheduler runs
  every thread. Strong fairness of beginning a release: clients pair acquire and release. A release can be
  disabled in between only by another thread that gives back the same reference.
* *Push locks, handle entries, remove locks, resources, condition variables*: weak fairness of each thread's next step in its
  call, and of the release by a thread that holds; of a timed keyed wait, that its time comes. The liveness properties are about the time
  when no new calls begin, since these locks promise no order among those that do.

No model has fairness of a client's decision to acquire, of an allocation's success or of a particular
outcome of a race.

## What is proved

All theorems are of the form `Spec => []P`, or `Spec => [][A]_vars` and `Spec => Abstract!Spec`, for every value of the constants.

* **Rundown** (assumes a finite set of references and a wait block address that is not zero).
  `TypeCorrect`, `RundownSafe`, `WaitBlockSafe`, `AssertionsHold`, `CountCorrect`,
  `NoReferenceInRundown`, `Refinement`. None of the properties is inductive: that the owner
  returned with nothing held depends on the count being exact at the moment of the exchange, which
  depends on what every thread in the middle of a call believes. `IInv` adds: a call owns the
  references it works on (`CallsOwnTheirRefs`); what a thread remembers of the word is a value its exchange can
  safely be compared with (`LocalCopies`); the word has the form that the owner's place
  requires (`WordFollowsOwner`); and at most one thread is about to signal, and then the
  count is zero and the owner waits (`OneSignal`). The refinement maps the owner's place and `held`
  to the abstract descriptor and follows step by step from the same invariant.
* **Cache-aware rundown** (assumes a positive number of words and a finite set of references).
  `SumExact`, `EventInitialized`, `NoLateReference`. The count of a single word means nothing, since a reference may be
  taken on one word and given back on another; only the sum does. `CountInv` says which words have been replaced
  (`WordsReplaced`), that releasers own what they give back and that none is the last before the owner has decided
  (`Releasers`), and where the sum is at each point of the owner's cycle (`Counted`). The sum over the words is a recursive
  function; that changing one word changes it by as much is proved by taking the largest index at which it would not, which
  needs no induction schema. The finding at `rundown.c:492` stays outside: the owner's *decision* is wrong, the number it decides on is right.
* **Handle entries** (assumes that null is neither a thread nor a value). `TypeCorrect`, `LockSafe`,
  `FreeSafe`. `EntryInv` adds that a thread about to exchange compares with a value that has the lock
  bit (`LocalsInUse`), and that an entry between clearing and freeing, or between allocation and writing, belongs to one
  thread (`OwnersExclusive`); otherwise a create could overwrite a value that a locker has just read.
* **The contention list** of the same module. `FramesSafe`, `NoneLost`, `NoWakeupMissed`. The blocks of a list are those
  in every set that has the first one and is closed under the links (`ReachedBy`); with this definition a push, a pop and
  the walk of an unblocker are set reasoning. `ListInv` adds that the links have no cycle (`NoCycle`), what the bit and the event of a
  block say about its thread (`BlockState`: the event is set only for a thread that has reset its own bit, and the
  next block that an unblocker remembers is still the next one), and that a thread which unblocks on behalf of itself is off the list (`OwnTaken`).
* **Remove locks** (assumes a finite set of threads). `TypeCorrect`, `RemoveSafe`, `CountCorrect`, `TrackingCorrect`. `IInv` adds
  where holders are (`HoldersPlaces`), that one thread removes and has marked the lock
  before anyone is refused (`OneRemover`), and that the event or a count of zero means that
  no holder is left (`Drained`). For the tracking of debug locks `TrackInv` adds that the blocks can be *charged* to acquisitions
  with their tags, no two to the same one. The assignment is not who allocated the block: a release frees the first block with its tag, which may be
  another holder's, and the charges are then exchanged. That the handler finds the block it asserts at 274 unless an allocation failed is part of
  the theorem: once nothing else is counted, the only charge left is its own.
* **Condition variables and keyed events** (assumes that null is not a thread). `TypeCorrect`, `EntriesSafe`, `EntriesListed`,
  `WaitAndReleaseMeet`. `CondInv` adds what the variables of a call mean (`FramesInUse`: a waker is at a listed entry and
  the entry it remembers as the next is the next one now, because only it has the lock; a sleeper that unlocks has been removed) and that whoever is listed is in
  its call (`ListedInUse`). The keyed event's steps change nothing of the variable and the other way round, except where a sleep or a wake is a
  step of both.
* **Executive resources** (assumes finite sets of threads and pointers, whose names differ from each other and from the
  two special values; a table that starts with at least two entries and grows by at least one).
  `TypeCorrect`, `GrantsExact`, `OwnersFound`, `ResourceImplements`. `ResourceInv` joins the two properties, which need each
  other (an exclusive grant is counted by `ActiveEntries` *and* is the special owner of entry 0), with where an agent may be while it holds and while it does not
  (`Places`), that the releaser which has shared grants in hand is the only one (`OneReleaser`), the shape of the table
  (`TableShape`) and the use of its entries (`EntriesInUse`). In the proofs the counters, the numbers of holders and of waiters and the
  grants are related by one predicate on numbers (`Balance`), so that each action's arithmetic is a step on naturals; what an action does to the table is one of a few changes of
  a single entry (`TableOK`, `EntryIs`). The first entry of a search exists because a set of naturals has a minimum, by well-foundedness. For the
  refinement: a semaphore count means that nobody holds exclusively, a set event or a releaser about to set it that nobody holds at all; so whichever thread takes the
  grant makes a step the abstract lock allows. Nothing is assumed of the order in which waiters are served. The theorems hold of behaviours with
  `ExReinitializeResourceLite` too: what its loss of the table size leads to is `crashed`, not a second owner.
* **Push locks** (assumes a finite set of threads, none of which is null). `TypeCorrect`, `FramesSafe`, `CountCorrect`,
  `ListCorrect`, `AssertionsHold`, `NoWakeupMissed`, `PushLockImplements`. `PushInv` is the conjunction of the properties with what
  they need of each other. `CallInUse`: who may be where with the lock and without it. `WordExact`: how the lock is held, as the word says
  it. `ReleaserSees`: a releaser works with an old copy of the word, and what it uses of it (that somebody waits, that several share) is still true,
  because waiting threads cannot be woken while the lock is held. `ListShape`: while several share the lock every `Last` on the list is
  the oldest block, so a sharer that walks it during a repair ends at the block with the count; no other block has a count. `WakersInList`: the thread that has Waking is
  at a block that it reached from the newest block it knows of, that block has no `Previous`, and no newer one has a `Last`; hence the
  walk of `ExfWakePushLock` leaves `Previous` complete from there to the oldest, although new blocks keep coming in front. `SignalsInUse`: what wait bit, gate and signaled flag of a block say about
  its thread. The list itself is the history variable `queue`: an action's effect on it is a push at the front, a cut at the end, or
  none, and the links are compared with it by index. Most actions touch neither list nor blocks and are handled by one lemma
  (`CalmStep`), edits by the owner of Waking by another (`WakerEditsStep`). `WakeupPending` then needs no strengthening of its own, only
  `PushInv`: each step keeps the duty to wake, passes it on, or ends the need for it. TLC checked `PushInv` on the instance of `pushlock_safety` before it was proved.

Only model-checked: all liveness (fairness and ENABLED are out of the prover's reach). Of the safety properties
that the runs check, every one is also a theorem. The idle handlers and the free lists have findings instead of properties that hold.

## Findings

The first five are runs that are expected to be violated; `PROJECT.json` quotes the lines of all.

1. `ex/rundown.c:492` — the cache-aware wait tests for equality where it needs inequality: it returns while
   references are held, and waits when none are.
2. `po/ppm.c:127` — unregister completes the rundown before it waits for it, so the wait returns at once and
   the table is freed in use. (The same code calls completion and re-initialization with the active bit clear,
   against the ASSERTs at `rundown.c:146` and `ex.h:971`.)
3. `ex/pushlock.c:1142` and `1006` — the unlocking loops repeat a failed exchange with the old value and do not end.
4. `sdk/lib/rtl/condvar.c:312` — a release of a key that times out counts as a success, so a wake that comes between a sleeper's
   listing and its keyed wait removes the entry and wakes nobody. The sleeper, if it has no timeout, sleeps for ever.
5. `ex/handle.c:304` — a handle is freed to the list that allocations are taking from exactly when a lock says
   that one is. A compare-exchange then succeeds with a stale link. (Without the conjunct on the link TLC goes on to the
   ASSERT(FALSE) at 677, and to one handle given to two callers.)
6. `ex/resource.c:971`, `1154`, `1353` — the kernel's own test (`modules/rostests/kmtests/ntos_ex/ExResource.c:399` and `437`) expects
   `ActiveCount` to be 2 when two threads share a resource. The code keeps it at 1, with an ASSERT that it is
   (970, 1153, 1352), and counts the sharers in `ActiveEntries`. `tlc -config Resource_sharers.cfg MCResource` checks the test's
   statement (`SharersCounted`) and finds two sharers counted as one. Which of the two is meant the repository does not say; the
   properties that hold say of `ActiveCount` only that it is zero exactly when nobody owns the resource.

Three more follow from the models without a race and are outcomes the properties allow for: a debug remove lock whose
tracking allocation failed has no block for the remove handler to free (`io/iomgr/remlock.c:274`), the memory for a larger owner
table is used without a look whether there was any (`ex/resource.c:346-352`), and `ExReinitializeResourceLite`
clears the size of the owner table with the entry that holds it (`ex/resource.c:1774`). The models end in `crashed` there.

## Hazards without a property

Listed in `PROJECT.json` with the reason: re-initialization of a cache-aware descriptor word by word
(`rundown.c:547`, nothing documented to compare with), the pair of unlocked reads in the idle loop
(`power.c:521`, needs tables of different sizes), a request that is refused after the removal (`remlock.c:133`, undocumented), and the cleared table size (`resource.c:1774`).

## Plan

1. *Model.* Guarded mutexes; callbacks as a client of `RundownSpec`; KQUEUE; then APCs, DPCs and object lifetime; tables of different
   sizes in `IdleHandler`.
