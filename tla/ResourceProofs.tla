--------------------------- MODULE ResourceProofs ---------------------------
(***************************************************************************)
(* Proofs about Resource, for any finite sets of threads and owner         *)
(* pointers, any table sizes and any depth of recursion.                   *)
(***************************************************************************)
EXTENDS Resource, FiniteSetTheorems, WellFoundedInduction, TLAPS

-----------------------------------------------------------------------------
(* Counting agents.                                                        *)

LEMMA AgentCounts ==
    ASSUME NEW S \in SUBSET Agents
    PROVE  /\ Cardinality(S) \in Nat
           /\ Cardinality(S) = 0 <=> S = {}
           /\ \A a \in Agents : a \notin S => Cardinality(S \cup {a}) = Cardinality(S) + 1
           /\ \A a \in Agents : a \in S => Cardinality(S \ {a}) = Cardinality(S) - 1
           /\ Cardinality(S) = 1 => \A a, b \in S : a = b
<1>1. IsFiniteSet(S)
  BY FiniteAssumption, FS_Subset
<1>2. Cardinality(S) = 1 => \A a, b \in S : a = b
  <2> SUFFICES ASSUME Cardinality(S) = 1, NEW a \in S, NEW b \in S, a # b PROVE FALSE
    OBVIOUS
  <2>1. IsFiniteSet(S \ {a}) /\ Cardinality(S \ {a}) = 0
    BY <1>1, FS_RemoveElement
  <2>2. S \ {a} = {}
    BY <2>1, FS_EmptySet
  <2> QED
    BY <2>2
<1> QED
  BY <1>1, <1>2, FS_CardinalityType, FS_EmptySet, FS_AddElement, FS_RemoveElement

(* The agents for which a function has one of some values, and how many    *)
(* they are.                                                               *)
Where(f, V) == {a \in Agents : f[a] \in V}

Many(f, V) == Cardinality(Where(f, V))

OthersKeep(t, f, g) == \A a \in Agents \ {t} : g[a] = f[a]

LEMMA ManyType ==
    ASSUME NEW f, NEW V
    PROVE  /\ Many(f, V) \in Nat
           /\ Many(f, V) = 0 <=> \A a \in Agents : f[a] \notin V
           /\ Many(f, V) = 1 => \A a, b \in Agents : f[a] \in V /\ f[b] \in V => a = b
<1> DEFINE S == Where(f, V)
<1>1. S \in SUBSET Agents
  BY DEF Where
<1>2. \A a : a \in S <=> a \in Agents /\ f[a] \in V
  BY DEF Where
<1> HIDE DEF S
<1>3. /\ Cardinality(S) \in Nat /\ (Cardinality(S) = 0 <=> S = {})
      /\ Cardinality(S) = 1 => \A a, b \in S : a = b
  BY <1>1, AgentCounts
<1>4. Many(f, V) = Cardinality(S)
  BY DEF Many, S
<1> QED
  BY <1>2, <1>3, <1>4

LEMMA Moved ==
    ASSUME NEW f, NEW g, NEW t \in Agents, OthersKeep(t, f, g), NEW V
    PROVE  /\ f[t] \in V /\ g[t] \notin V => Many(g, V) = Many(f, V) - 1
           /\ f[t] \notin V /\ g[t] \in V => Many(g, V) = Many(f, V) + 1
           /\ (f[t] \in V <=> g[t] \in V) => Many(g, V) = Many(f, V)
<1> DEFINE S == Where(f, V)
           T == Where(g, V)
<1>1. S \in SUBSET Agents
  BY DEF Where
<1>2. /\ f[t] \in V /\ g[t] \notin V => t \in S /\ T = S \ {t}
      /\ f[t] \notin V /\ g[t] \in V => t \notin S /\ T = S \cup {t}
      /\ (f[t] \in V <=> g[t] \in V) => T = S
  BY DEF Where, OthersKeep
<1> HIDE DEF S, T
<1>3. /\ t \in S /\ T = S \ {t} => Cardinality(T) = Cardinality(S) - 1
      /\ t \notin S /\ T = S \cup {t} => Cardinality(T) = Cardinality(S) + 1
  BY <1>1, AgentCounts
<1> QED
  BY <1>2, <1>3 DEF Many, S, T

(* Grants in the hands of those who release.                               *)
Hands(R, f) == UNION {{a} \X (1 .. f[a].Count) : a \in R}

LEMMA HandsEmpty == ASSUME NEW f PROVE Cardinality(Hands({}, f)) = 0
<1>1. Hands({}, f) = {}
  BY DEF Hands
<1> QED
  BY <1>1, FS_EmptySet

LEMMA HandsOne ==
    ASSUME NEW f, NEW a, f[a].Count \in Nat, NEW R, a \in R, \A b \in R : b = a
    PROVE  Cardinality(Hands(R, f)) = f[a].Count
<1> DEFINE n == f[a].Count
<1>1. R = {a}
  OBVIOUS
<1>2. Hands(R, f) = {a} \X (1 .. n)
  BY <1>1 DEF Hands
<1> HIDE DEF n
<1>3. IsFiniteSet({a}) /\ Cardinality({a}) = 1
  BY FS_Singleton
<1>4. n \in Nat
  BY DEF n
<1>5. IsFiniteSet(1 .. n) /\ Cardinality(1 .. n) = n
  BY <1>4, FS_Interval
<1>6. Cardinality({a} \X (1 .. n)) = Cardinality({a}) * Cardinality(1 .. n)
  BY <1>3, <1>5, FS_Product, Zenon
<1>7. 1 * n = n
  BY <1>4
<1> QED
  BY <1>2, <1>3, <1>5, <1>6, <1>7 DEF n

LEMMA HandsKept ==
    ASSUME NEW R, NEW f, NEW g, \A a \in R : g[a].Count = f[a].Count
    PROVE  Hands(R, g) = Hands(R, f)
  BY DEF Hands

-----------------------------------------------------------------------------
(* GrantsCounted in these terms: a relation between the resource's         *)
(* counters, the holders h, the grants sg and eg that are on their way,    *)
(* and the waiting threads ws and we.                                      *)
Owns == {"shared", "exclusive"}

SharedWaits == {"waitShared", "waitUnlisted"}

Granted(semaphore, p, f) ==
    (IF semaphore = NULL THEN 0 ELSE semaphore) + Cardinality(Hands(Where(p, {"releaseSemaphore"}), f))

IsSet(event) == event = TRUE

GrantedExclusive(event, p) == (IF IsSet(event) THEN 1 ELSE 0) + Many(p, {"setEvent"})

Balance(exclusive, entries, count, ns, ne, h, sg, eg, ws, we) ==
    /\ entries = h + sg + eg
    /\ count = 0 <=> entries = 0
    /\ ns + sg = ws
    /\ ne + eg = we
    /\ exclusive => entries = 1 /\ sg = 0
    /\ ~exclusive => eg = 0
    /\ ns > 0 => exclusive \/ ne > 0
    /\ ne > 0 => entries > 0

LEMMA GrantsAre ==
    ASSUME TypeOK
    PROVE  /\ SharedGrants = Granted(SharedWaiters, pc, frame)
           /\ ExclusiveGrants = GrantedExclusive(ExclusiveWaiters, pc)
           /\ GrantsCounted <=>
                 /\ Balance(Exclusive, ActiveEntries, ActiveCount, NumberOfSharedWaiters,
                            NumberOfExclusiveWaiters, Many(held, Owns),
                            Granted(SharedWaiters, pc, frame),
                            GrantedExclusive(ExclusiveWaiters, pc),
                            Many(pc, SharedWaits), Many(pc, {"waitExclusive"}))
                 /\ ~Exclusive => \A a \in Agents : held[a] # "exclusive"
<1>1. Holders = Where(held, Owns)
  BY DEF TypeOK, Holders, Where, Owns
<1>2. /\ At({"releaseSemaphore"}) = Where(pc, {"releaseSemaphore"})
      /\ At({"setEvent"}) = Where(pc, {"setEvent"})
      /\ At({"waitExclusive"}) = Where(pc, {"waitExclusive"})
      /\ At({"waitShared", "waitUnlisted"}) = Where(pc, SharedWaits)
  BY DEF At, Where, SharedWaits
<1>3. SharedGrants = Granted(SharedWaiters, pc, frame)
  BY <1>2 DEF SharedGrants, PendingGrants, Granted, Hands
<1>4. ExclusiveGrants = GrantedExclusive(ExclusiveWaiters, pc)
  BY <1>2 DEF ExclusiveGrants, GrantedExclusive, Many, IsSet
<1>5. (~Exclusive => \A a \in Holders : held[a] = "shared") <=>
      (~Exclusive => \A a \in Agents : held[a] # "exclusive")
  BY DEF TypeOK, Holders
<1>6. /\ Cardinality(Holders) = Many(held, Owns)
      /\ Cardinality(At({"waitShared", "waitUnlisted"})) = Many(pc, SharedWaits)
      /\ Cardinality(At({"waitExclusive"})) = Many(pc, {"waitExclusive"})
  BY <1>1, <1>2 DEF Many
<1> QED
  BY <1>3, <1>4, <1>5, <1>6 DEF GrantsCounted, Balance

LEMMA GrantsAreNext ==
    ASSUME TypeOK'
    PROVE  /\ SharedGrants' = Granted(SharedWaiters', pc', frame')
           /\ ExclusiveGrants' = GrantedExclusive(ExclusiveWaiters', pc')
           /\ GrantsCounted' <=>
                 /\ Balance(Exclusive', ActiveEntries', ActiveCount', NumberOfSharedWaiters',
                            NumberOfExclusiveWaiters', Many(held', Owns),
                            Granted(SharedWaiters', pc', frame'),
                            GrantedExclusive(ExclusiveWaiters', pc'),
                            Many(pc', SharedWaits), Many(pc', {"waitExclusive"}))
                 /\ ~Exclusive' => \A a \in Agents : held'[a] # "exclusive"
<1>1. Holders' = Where(held', Owns)
  BY DEF TypeOK, Holders, Where, Owns
<1>2. /\ At({"releaseSemaphore"})' = Where(pc', {"releaseSemaphore"})
      /\ At({"setEvent"})' = Where(pc', {"setEvent"})
      /\ At({"waitExclusive"})' = Where(pc', {"waitExclusive"})
      /\ At({"waitShared", "waitUnlisted"})' = Where(pc', SharedWaits)
  BY DEF At, Where, SharedWaits
<1>3. SharedGrants' = Granted(SharedWaiters', pc', frame')
  BY <1>2 DEF SharedGrants, PendingGrants, Granted, Hands
<1>4. ExclusiveGrants' = GrantedExclusive(ExclusiveWaiters', pc')
  BY <1>2 DEF ExclusiveGrants, GrantedExclusive, Many, IsSet
<1>5. (~Exclusive' => \A a \in Holders' : held'[a] = "shared") <=>
      (~Exclusive' => \A a \in Agents : held'[a] # "exclusive")
  BY DEF TypeOK, Holders
<1>6. /\ Cardinality(Holders') = Many(held', Owns)
      /\ Cardinality(At({"waitShared", "waitUnlisted"})') = Many(pc', SharedWaits)
      /\ Cardinality(At({"waitExclusive"})') = Many(pc', {"waitExclusive"})
  BY <1>1, <1>2 DEF Many
<1> QED
  BY <1>3, <1>4, <1>5, <1>6 DEF GrantsCounted, Balance

(* What is in the hands of the one agent that releases, if there is one.   *)
LEMMA HandsAre ==
    ASSUME NEW p, NEW f, \A a, b \in Where(p, {"releaseSemaphore"}) : a = b,
           \A a \in Agents : f[a].Count \in Nat
    PROVE  LET n == Cardinality(Hands(Where(p, {"releaseSemaphore"}), f)) IN
           /\ n \in Nat
           /\ \A a \in Agents : p[a] = "releaseSemaphore" => n = f[a].Count
           /\ (\A a \in Agents : p[a] # "releaseSemaphore") => n = 0
<1> DEFINE R == Where(p, {"releaseSemaphore"})
           n == Cardinality(Hands(R, f))
<1>1. \A a : a \in R <=> a \in Agents /\ p[a] = "releaseSemaphore"
  BY DEF Where
<1> HIDE DEF R
<1>2. ASSUME NEW a \in Agents, p[a] = "releaseSemaphore" PROVE n = f[a].Count
  BY <1>1, <1>2, HandsOne DEF R
<1>3. ASSUME \A a \in Agents : p[a] # "releaseSemaphore" PROVE n = 0
  <2>1. R = {}
    BY <1>1, <1>3
  <2> QED
    BY <2>1, HandsEmpty
<1>4. n \in Nat
  BY <1>2, <1>3
<1> QED
  BY <1>2, <1>3, <1>4 DEF R

(* What the invariant says of the numbers and of who is where.             *)
LEMMA Numbers ==
    ASSUME TypeOK, OneReleaser
    PROVE  /\ Granted(SharedWaiters, pc, frame) \in Nat
           /\ GrantedExclusive(ExclusiveWaiters, pc) \in Nat
           /\ Many(held, Owns) \in Nat /\ Many(pc, SharedWaits) \in Nat
           /\ Many(pc, {"waitExclusive"}) \in Nat /\ Many(pc, {"setEvent"}) \in Nat
           /\ Cardinality(Hands(Where(pc, {"releaseSemaphore"}), frame)) \in Nat
           /\ ActiveEntries \in Nat /\ NumberOfSharedWaiters \in Nat /\ NumberOfExclusiveWaiters \in Nat
           /\ SharedWaiters # NULL => SharedWaiters \in Nat
<1>1. \A a, b \in Where(pc, {"releaseSemaphore"}) : a = b
  BY DEF OneReleaser, At, Where
<1>2. \A a \in Agents : frame[a].Count \in Nat
  BY DEF TypeOK
<1>3. Cardinality(Hands(Where(pc, {"releaseSemaphore"}), frame)) \in Nat
  BY <1>1, <1>2, HandsAre
<1>4. SharedWaiters # NULL => SharedWaiters \in Nat
  BY DEF TypeOK
<1>5. Granted(SharedWaiters, pc, frame) \in Nat
  BY <1>3, <1>4 DEF Granted
<1>6. GrantedExclusive(ExclusiveWaiters, pc) \in Nat
  BY ManyType DEF GrantedExclusive
<1> QED
  BY <1>3, <1>4, <1>5, <1>6, ManyType DEF TypeOK

(* The state in the terms of the step lemmas.                              *)
LEMMA Facts ==
    ASSUME ResourceInv
    PROVE  LET h == Many(held, Owns)
               sg == Granted(SharedWaiters, pc, frame)
               eg == GrantedExclusive(ExclusiveWaiters, pc) IN
           /\ Balance(Exclusive, ActiveEntries, ActiveCount, NumberOfSharedWaiters,
                      NumberOfExclusiveWaiters, h, sg, eg,
                      Many(pc, SharedWaits), Many(pc, {"waitExclusive"}))
           /\ h \in Nat /\ sg \in Nat /\ eg \in Nat
           /\ SharedGrants = sg /\ ExclusiveGrants = eg
           /\ \A a \in Agents : held[a] = "exclusive" => Exclusive
           /\ h = 0 <=> \A a \in Agents : held[a] = "none"
           /\ Exclusive => \A a, b \in Agents : held[a] # "none" /\ held[b] # "none" => a = b
           /\ Exclusive => \A a \in Agents : held[a] \in {"none", "exclusive"}
           /\ eg = 0 <=> ~IsSet(ExclusiveWaiters) /\ \A a \in Agents : pc[a] # "setEvent"
           /\ \A a \in Agents : pc[a] = "releaseSemaphore" => sg > 0
           /\ \A a \in Agents : pc[a] \in SharedWaits => Many(pc, SharedWaits) > 0
<1> DEFINE h == Many(held, Owns)
           sg == Granted(SharedWaiters, pc, frame)
           eg == GrantedExclusive(ExclusiveWaiters, pc)
           hands == Cardinality(Hands(Where(pc, {"releaseSemaphore"}), frame))
<1>1. TypeOK /\ OneReleaser /\ GrantsCounted /\ Places /\ EntriesInUse
  BY DEF ResourceInv
<1>2. /\ Balance(Exclusive, ActiveEntries, ActiveCount, NumberOfSharedWaiters,
                 NumberOfExclusiveWaiters, h, sg, eg,
                 Many(pc, SharedWaits), Many(pc, {"waitExclusive"}))
      /\ \A a \in Agents : held[a] = "exclusive" => Exclusive
      /\ SharedGrants = sg /\ ExclusiveGrants = eg
  BY <1>1, GrantsAre
<1>3. /\ h \in Nat /\ sg \in Nat /\ eg \in Nat /\ hands \in Nat /\ Many(pc, {"setEvent"}) \in Nat
      /\ Many(pc, SharedWaits) \in Nat /\ (SharedWaiters # NULL => SharedWaiters \in Nat)
  BY <1>1, Numbers
<1>4. h = 0 <=> \A a \in Agents : held[a] = "none"
  BY <1>1, ManyType DEF TypeOK, Owns
<1>5. Exclusive => h \in {0, 1}
  BY <1>2, <1>3 DEF Balance
<1>6. Exclusive => \A a, b \in Agents : held[a] # "none" /\ held[b] # "none" => a = b
  <2>1. h = 1 => \A a, b \in Agents : held[a] \in Owns /\ held[b] \in Owns => a = b
    BY ManyType
  <2>2. \A a \in Agents : held[a] # "none" <=> held[a] \in Owns
    BY <1>1 DEF TypeOK, Owns
  <2> QED
    BY <1>4, <1>5, <2>1, <2>2
<1>7. Exclusive => \A a \in Agents : held[a] \in {"none", "exclusive"}
  BY <1>1 DEF EntriesInUse, Holders
<1>8. eg = 0 <=> ~IsSet(ExclusiveWaiters) /\ \A a \in Agents : pc[a] # "setEvent"
  <2>1. Many(pc, {"setEvent"}) = 0 <=> \A a \in Agents : pc[a] # "setEvent"
    BY ManyType
  <2> QED
    BY <1>3, <2>1 DEF GrantedExclusive
<1>9. ASSUME NEW a \in Agents, pc[a] = "releaseSemaphore" PROVE sg > 0
  <2>1. hands = frame[a].Count
    <3>1. \A c, b \in Where(pc, {"releaseSemaphore"}) : c = b
      BY <1>1 DEF OneReleaser, At, Where
    <3>2. \A b \in Agents : frame[b].Count \in Nat
      BY <1>1 DEF TypeOK
    <3> QED
      BY <1>9, <3>1, <3>2, HandsAre
  <2>2. frame[a].Count > 0
    BY <1>1, <1>9 DEF Places
  <2>3. sg = (IF SharedWaiters = NULL THEN 0 ELSE SharedWaiters) + hands
    BY DEF Granted
  <2> QED
    BY <1>3, <2>1, <2>2, <2>3
<1>10. ASSUME NEW a \in Agents, pc[a] \in SharedWaits PROVE Many(pc, SharedWaits) > 0
  BY <1>3, <1>10, ManyType
<1> QED
  BY <1>2, <1>3, <1>4, <1>6, <1>7, <1>8, <1>9, <1>10

-----------------------------------------------------------------------------
(* Steps that change neither who has the resource nor who waits for it.    *)
Calm == {"idle", "retry", "expand", "allocateEvent", "allocateSemaphore", "claim"}

(* The table may have grown, and the counts of recursion changed.          *)
OwnersKept ==
    /\ DOMAIN Owner \subseteq DOMAIN Owner'
    /\ \A i \in DOMAIN Owner : Owner'[i].OwnerThread = Owner[i].OwnerThread
    /\ \A i \in DOMAIN Owner' : i \notin DOMAIN Owner => Owner'[i].OwnerThread = NULL
    /\ \A i \in DOMAIN Owner' : Owner'[i].OwnerThread = NULL <=> Owner'[i].OwnerCount = 0

(* One agent moves, and none of the sets that are counted changes.         *)
LEMMA CalmCounts ==
    ASSUME ResourceInv, NEW t \in Agents, TypeOK', UNCHANGED <<counts, waiters, held>>,
           pc[t] \in Calm, pc'[t] \in Calm, OthersKeep(t, pc, pc'), OthersKeep(t, frame, frame'),
           SharedWaiters' = SharedWaiters \/ (SharedWaiters = NULL /\ SharedWaiters' = 0),
           IsSet(ExclusiveWaiters') <=> IsSet(ExclusiveWaiters)
    PROVE  GrantsCounted' /\ OneReleaser' /\ ExclusiveGrants' = ExclusiveGrants
<1>1. TypeOK /\ OneReleaser /\ GrantsCounted
  BY DEF ResourceInv
<1>2. /\ Many(pc', SharedWaits) = Many(pc, SharedWaits)
      /\ Many(pc', {"waitExclusive"}) = Many(pc, {"waitExclusive"})
      /\ Many(pc', {"setEvent"}) = Many(pc, {"setEvent"})
  BY Moved DEF Calm, SharedWaits
<1>3. /\ Where(pc', {"releaseSemaphore"}) = Where(pc, {"releaseSemaphore"})
      /\ \A a \in Where(pc, {"releaseSemaphore"}) : frame'[a].Count = frame[a].Count
  BY DEF Calm, Where, OthersKeep
<1>4. Hands(Where(pc', {"releaseSemaphore"}), frame') = Hands(Where(pc, {"releaseSemaphore"}), frame)
  BY <1>3, HandsKept
<1>5. Granted(SharedWaiters', pc', frame') = Granted(SharedWaiters, pc, frame)
  <2>1. (IF SharedWaiters' = NULL THEN 0 ELSE SharedWaiters') = (IF SharedWaiters = NULL THEN 0 ELSE SharedWaiters)
    OBVIOUS
  <2> QED
    BY <1>4, <2>1 DEF Granted
<1>6. GrantedExclusive(ExclusiveWaiters', pc') = GrantedExclusive(ExclusiveWaiters, pc)
  BY <1>2 DEF GrantedExclusive
<1>7. UNCHANGED <<Exclusive, ActiveCount, ActiveEntries, NumberOfSharedWaiters, NumberOfExclusiveWaiters, held>>
  BY DEF counts, waiters
<1>8. GrantsCounted'
  BY <1>1, <1>2, <1>5, <1>6, <1>7, GrantsAre, GrantsAreNext
<1>9. OneReleaser'
  BY <1>1, <1>3 DEF OneReleaser, At, Where
<1>10. ExclusiveGrants' = ExclusiveGrants
  BY <1>1, <1>6, GrantsAre, GrantsAreNext
<1> QED
  BY <1>8, <1>9, <1>10

LEMMA CalmStep ==
    ASSUME ResourceInv, NEW t \in Agents, TypeOK', TableShape', UNCHANGED <<counts, waiters, held>>,
           pc[t] \in Calm, pc'[t] \in Calm, OthersKeep(t, pc, pc'), OthersKeep(t, frame, frame'),
           SharedWaiters' = SharedWaiters \/ (SharedWaiters = NULL /\ SharedWaiters' = 0),
           IsSet(ExclusiveWaiters') <=> IsSet(ExclusiveWaiters),
           OwnersKept, HasEntry(t)' <=> HasEntry(t), Unlimited' => Unlimited,
           pc'[t] \in {"retry", "allocateEvent", "allocateSemaphore"} => held[t] = "none",
           pc'[t] = "expand" => (held[t] = "none" \/ Claiming(t)') /\ ~Unlimited',
           pc'[t] = "claim" => held[t] = "shared",
           t \in Pointers => pc'[t] = "idle"
    PROVE  ResourceInv'
<1>1. TypeOK /\ OneReleaser /\ Places /\ TableShape /\ EntriesInUse
  BY DEF ResourceInv
<1>2. GrantsCounted' /\ OneReleaser' /\ ExclusiveGrants' = ExclusiveGrants
  BY CalmCounts
<1>3. UNCHANGED <<Exclusive, held>>
  BY DEF counts
<1>4. \A a \in Agents : a # t => pc'[a] = pc[a] /\ frame'[a] = frame[a]
  BY DEF OthersKeep
<1>5. \A a \in Agents : a # t => (Claiming(a)' <=> Claiming(a))
  BY <1>3, <1>4 DEF Claiming
<1>6. SharedWaiters # NULL => SharedWaiters' # NULL
  OBVIOUS
<1>7. Places'
  <2> SUFFICES ASSUME NEW a \in Agents
               PROVE  /\ pc'[a] \in {"retry", "allocateEvent", "allocateSemaphore", "waitShared",
                                     "waitUnlisted", "waitExclusive"} => held'[a] = "none"
                      /\ pc'[a] = "expand" => (held'[a] = "none" \/ Claiming(a)') /\ ~Unlimited'
                      /\ pc'[a] = "claim" => held'[a] = "shared"
                      /\ pc'[a] = "setOwner" => held'[a] = "exclusive"
                      /\ pc'[a] = "releaseSemaphore" => frame'[a].Count > 0
                      /\ pc'[a] \in {"waitShared", "waitUnlisted", "releaseSemaphore"} =>
                            SharedWaiters' # NULL
                      /\ a \in Pointers => pc'[a] \in {"idle", "releaseSemaphore", "setEvent"}
    BY DEF Places
  <2>1. CASE a = t
    BY <1>3, <2>1 DEF Calm
  <2>2. CASE a # t
    BY <1>1, <1>3, <1>4, <1>5, <1>6, <2>2 DEF Places
  <2> QED
    BY <2>1, <2>2
<1>8. EntriesInUse'
  <2>1. 0 \in DOMAIN Owner /\ 0 \in DOMAIN Owner' /\ Owner'[0].OwnerThread = Owner[0].OwnerThread
    BY <1>1 DEF TableShape, OwnersKept
  <2>2. \A a \in Agents : a # t => (HasEntry(a)' <=> HasEntry(a))
    BY <1>3, <1>4, <1>5, <2>1 DEF HasEntry
  <2>3. \A a \in Agents : (EntriesOf(a) # {})' <=> EntriesOf(a) # {}
    BY NameAssumption DEF EntriesOf, OwnersKept
  <2>4. \A a \in Agents : (EntriesOf(a) # {})' <=> HasEntry(a)'
    BY <1>1, <2>2, <2>3 DEF EntriesInUse
  <2>5. \A i, j \in DOMAIN Owner' :
           Owner'[i].OwnerThread = Owner'[j].OwnerThread /\ Owner'[i].OwnerThread # NULL => i = j
    BY <1>1 DEF EntriesInUse, OwnersKept
  <2>6. \A i \in DOMAIN Owner' : /\ Owner'[i].OwnerThread = NULL <=> Owner'[i].OwnerCount = 0
                                 /\ Owner'[i].OwnerThread = GRANTED => i = 0
    BY <1>1, NameAssumption DEF EntriesInUse, OwnersKept
  <2>7. (\A a \in At({"waitShared"}) : Owner[0].OwnerThread # a)'
    BY <1>1, <1>4, <2>1 DEF EntriesInUse, At, Calm
  <2>8. (Owner[0].OwnerThread = GRANTED <=>
           ExclusiveGrants = 1 \/ \E a \in At({"setOwner"}) : Owner[0].OwnerThread # a)'
    <3>1. \A a : a \in At({"setOwner"})' <=> a \in At({"setOwner"})
      BY <1>4 DEF At, Calm
    <3> QED
      BY <1>1, <1>2, <2>1, <3>1 DEF EntriesInUse
  <2>9. \A a \in Agents : held'[a] = "exclusive" =>
           Owner'[0].OwnerThread = a \/ (pc'[a] = "setOwner" /\ Owner'[0].OwnerThread = GRANTED)
    BY <1>1, <1>3, <1>4, <2>1 DEF EntriesInUse, Calm
  <2>10. (Exclusive => \A a \in Holders : held[a] = "exclusive")'
    BY <1>1, <1>3 DEF EntriesInUse, Holders
  <2> QED
    BY <2>4, <2>5, <2>6, <2>7, <2>8, <2>9, <2>10 DEF EntriesInUse
<1> QED
  BY <1>2, <1>7, <1>8 DEF ResourceInv

-----------------------------------------------------------------------------
(* The owner table: the agents in R have an entry each, and nobody else.   *)
Entered(own, a) == \E i \in DOMAIN own : own[i].OwnerThread = a

TableOK(own, R) ==
    /\ \A a \in Agents : Entered(own, a) <=> a \in R
    /\ \A i, j \in DOMAIN own :
           own[i].OwnerThread = own[j].OwnerThread /\ own[i].OwnerThread # NULL => i = j
    /\ \A i \in DOMAIN own : /\ own[i].OwnerThread = NULL <=> own[i].OwnerCount = 0
                             /\ own[i].OwnerThread = GRANTED => i = 0

(* One entry changes.                                                      *)
EntryIs(own, new, i, o, n) ==
    /\ i \in DOMAIN own /\ DOMAIN new = DOMAIN own
    /\ new[i].OwnerThread = o /\ new[i].OwnerCount = n
    /\ \A j \in DOMAIN own : j # i => new[j] = own[j]

LEMMA EntryTaken ==
    ASSUME NEW own, NEW R, TableOK(own, R), NEW i, own[i].OwnerThread \in {NULL, GRANTED},
           NEW a \in Agents, a \notin R, NEW n \in Nat \ {0}, NEW new, EntryIs(own, new, i, a, n)
    PROVE  TableOK(new, R \cup {a})
<1>1. \A j \in DOMAIN own : own[j].OwnerThread # a
  BY DEF TableOK, Entered
<1>2. a # NULL /\ a # GRANTED /\ NULL \notin Agents /\ GRANTED \notin Agents
  BY NameAssumption
<1>3. \A b \in Agents : Entered(new, b) <=> b \in R \cup {a}
  BY <1>1, <1>2 DEF TableOK, Entered, EntryIs
<1>4. \A j, k \in DOMAIN new :
         new[j].OwnerThread = new[k].OwnerThread /\ new[j].OwnerThread # NULL => j = k
  BY <1>1 DEF TableOK, EntryIs
<1>5. \A j \in DOMAIN new : /\ new[j].OwnerThread = NULL <=> new[j].OwnerCount = 0
                            /\ new[j].OwnerThread = GRANTED => j = 0
  BY <1>2 DEF TableOK, EntryIs
<1> QED
  BY <1>3, <1>4, <1>5 DEF TableOK

LEMMA EntryFreed ==
    ASSUME NEW own, NEW R, TableOK(own, R), NEW i,
           NEW a \in Agents, own[i].OwnerThread = a, NEW new, EntryIs(own, new, i, NULL, 0)
    PROVE  TableOK(new, R \ {a})
<1>1. \A j \in DOMAIN own : j # i => own[j].OwnerThread # a
  BY NameAssumption DEF TableOK, EntryIs
<1>2. NULL \notin Agents /\ NULL # GRANTED
  BY NameAssumption
<1>3. \A b \in Agents : Entered(new, b) <=> b \in R \ {a}
  BY <1>1, <1>2 DEF TableOK, Entered, EntryIs
<1>4. \A j, k \in DOMAIN new :
         new[j].OwnerThread = new[k].OwnerThread /\ new[j].OwnerThread # NULL => j = k
  BY DEF TableOK, EntryIs
<1>5. \A j \in DOMAIN new : /\ new[j].OwnerThread = NULL <=> new[j].OwnerCount = 0
                            /\ new[j].OwnerThread = GRANTED => j = 0
  BY <1>2 DEF TableOK, EntryIs
<1> QED
  BY <1>3, <1>4, <1>5 DEF TableOK

LEMMA EntryGranted ==
    ASSUME NEW own, NEW R, TableOK(own, R), own[0].OwnerThread \in {NULL, GRANTED},
           NEW new, EntryIs(own, new, 0, GRANTED, 1)
    PROVE  TableOK(new, R)
<1>1. NULL \notin Agents /\ NULL # GRANTED /\ GRANTED \notin Agents
  BY NameAssumption
<1>2. \A b \in Agents : Entered(new, b) <=> b \in R
  BY <1>1 DEF TableOK, Entered, EntryIs
<1>3. \A j, k \in DOMAIN new :
         new[j].OwnerThread = new[k].OwnerThread /\ new[j].OwnerThread # NULL => j = k
  BY DEF TableOK, EntryIs
<1>4. \A j \in DOMAIN new : /\ new[j].OwnerThread = NULL <=> new[j].OwnerCount = 0
                            /\ new[j].OwnerThread = GRANTED => j = 0
  BY <1>1 DEF TableOK, EntryIs
<1> QED
  BY <1>2, <1>3, <1>4 DEF TableOK

LEMMA EntryRecounted ==
    ASSUME NEW own, NEW R, TableOK(own, R), NEW i, own[i].OwnerThread # NULL,
           NEW n \in Nat \ {0}, NEW new, EntryIs(own, new, i, own[i].OwnerThread, n)
    PROVE  TableOK(new, R)
<1>1. \A j \in DOMAIN own : new[j].OwnerThread = own[j].OwnerThread
  BY DEF EntryIs
<1>2. DOMAIN new = DOMAIN own
  BY DEF EntryIs
<1>3. \A j \in DOMAIN new : new[j].OwnerThread = NULL <=> new[j].OwnerCount = 0
  BY <1>2 DEF TableOK, EntryIs
<1> QED
  BY <1>1, <1>2, <1>3 DEF TableOK, Entered

(* EntriesInUse in these terms.                                            *)
Recorded == {a \in Agents : HasEntry(a)}

FirstEntry ==
    /\ \A a \in At({"waitShared"}) : Owner[0].OwnerThread # a
    /\ Owner[0].OwnerThread = GRANTED <=>
           ExclusiveGrants = 1 \/ \E a \in At({"setOwner"}) : Owner[0].OwnerThread # a
    /\ \A a \in Agents : held[a] = "exclusive" =>
           Owner[0].OwnerThread = a \/ (pc[a] = "setOwner" /\ Owner[0].OwnerThread = GRANTED)
    /\ Exclusive => \A a \in Holders : held[a] = "exclusive"

LEMMA EntriesAre ==
    EntriesInUse <=> TableOK(Owner, Recorded) /\ FirstEntry
<1>1. \A a \in Agents : (EntriesOf(a) # {}) <=> \E i \in DOMAIN Owner : Owner[i].OwnerThread = a
  BY DEF EntriesOf
<1>2. \A a \in Agents : HasEntry(a) <=> a \in Recorded
  BY DEF Recorded
<1> QED
  BY <1>1, <1>2 DEF EntriesInUse, TableOK, FirstEntry, Entered

LEMMA EntriesAreNext ==
    EntriesInUse' <=> TableOK(Owner', Recorded') /\ FirstEntry'
<1>1. \A a \in Agents : (EntriesOf(a) # {})' <=> \E i \in DOMAIN Owner' : Owner'[i].OwnerThread = a
  BY DEF EntriesOf
<1>2. \A a \in Agents : HasEntry(a)' <=> a \in Recorded'
  BY DEF Recorded
<1> QED
  BY <1>1, <1>2 DEF EntriesInUse, TableOK, FirstEntry, Entered

-----------------------------------------------------------------------------
(* What the assignments of the model do, one variable at a time.           *)
Frames == [call : Calls \cup {"none"}, Wait : BOOLEAN, OldSize : Nat, Count : Nat]

Entries == [OwnerThread : Agents \cup {NULL, GRANTED}, OwnerCount : Nat]

Modes == {"none", "shared", "exclusive"}

(* One agent moves.                                                        *)
Moves(t) == OthersKeep(t, pc, pc') /\ OthersKeep(t, frame, frame') /\ OthersKeep(t, held, held')

LEMMA NoFrameType == NoFrame \in Frames
<1>1. "none" \in Calls \cup {"none"} /\ FALSE \in BOOLEAN /\ 0 \in Nat
  OBVIOUS
<1> QED
  BY <1>1, Zenon DEF NoFrame, Frames

LEMMA PcDoes ==
    ASSUME TypeOK, NEW t \in Agents, NEW l \in Labels, pc' = [pc EXCEPT ![t] = l]
    PROVE  pc' \in [Agents -> Labels] /\ OthersKeep(t, pc, pc') /\ pc'[t] = l
  BY DEF TypeOK, OthersKeep

LEMMA FrameDoes ==
    ASSUME TypeOK, NEW t \in Agents, NEW f \in Frames, frame' = [frame EXCEPT ![t] = f]
    PROVE  frame' \in [Agents -> Frames] /\ OthersKeep(t, frame, frame') /\ frame'[t] = f
<1>1. frame \in [Agents -> Frames]
  BY DEF TypeOK, Frames
<1> QED
  BY <1>1, Zenon DEF OthersKeep

LEMMA GotoDoes ==
    ASSUME TypeOK, NEW t \in Agents, NEW l \in Labels, Goto(t, l)
    PROVE  /\ pc' \in [Agents -> Labels] /\ OthersKeep(t, pc, pc') /\ pc'[t] = l
           /\ frame' \in [Agents -> Frames] /\ OthersKeep(t, frame, frame') /\ frame'[t] = NoFrame
  BY PcDoes, FrameDoes, NoFrameType DEF Goto

LEMMA ReturnDoes ==
    ASSUME TypeOK, NEW t \in Agents, Return(t)
    PROVE  /\ pc' \in [Agents -> Labels] /\ OthersKeep(t, pc, pc') /\ pc'[t] = "idle"
           /\ frame' \in [Agents -> Frames] /\ OthersKeep(t, frame, frame') /\ frame'[t] = NoFrame
  BY GotoDoes DEF Return, Labels

LEMMA SetHeldDoes ==
    ASSUME TypeOK, NEW t \in Agents, NEW m \in Modes, SetHeld(t, m)
    PROVE  held' \in [Agents -> Modes] /\ OthersKeep(t, held, held') /\ held'[t] = m
  BY DEF TypeOK, SetHeld, OthersKeep, Modes

LEMMA SuspendDoes ==
    ASSUME TypeOK, NEW t \in Agents, NEW l \in Labels, NEW call \in Calls, NEW Wait \in BOOLEAN,
           Suspend(t, l, call, Wait)
    PROVE  /\ pc' \in [Agents -> Labels] /\ OthersKeep(t, pc, pc') /\ pc'[t] = l
           /\ frame' \in [Agents -> Frames] /\ OthersKeep(t, frame, frame') /\ frame'[t].call = call
<1> DEFINE f == [NoFrame EXCEPT !.call = call, !.Wait = Wait, !.OldSize = TableSize]
<1>1. TableSize \in Nat
  BY DEF TypeOK
<1>2. f \in Frames /\ f.call = call
  BY <1>1, NoFrameType DEF Frames
<1>3. frame' = [frame EXCEPT ![t] = f] /\ pc' = [pc EXCEPT ![t] = l]
  BY DEF Suspend
<1> HIDE DEF f
<1>4. frame' \in [Agents -> Frames] /\ OthersKeep(t, frame, frame') /\ frame'[t] = f
  BY <1>2, <1>3, FrameDoes
<1> QED
  BY <1>2, <1>3, <1>4, PcDoes

LEMMA ResumeDoes ==
    ASSUME TypeOK, NEW t \in Agents, Resume(t)
    PROVE  /\ pc' \in [Agents -> Labels] /\ OthersKeep(t, pc, pc') /\ pc'[t] = "retry"
           /\ frame' \in [Agents -> Frames] /\ OthersKeep(t, frame, frame')
<1>1. frame \in [Agents -> Frames]
  BY DEF TypeOK, Frames
<1> DEFINE f == [frame[t] EXCEPT !.OldSize = 0]
<1>2. f \in Frames
  BY <1>1 DEF Frames
<1>3. frame' = [frame EXCEPT ![t] = f] /\ pc' = [pc EXCEPT ![t] = "retry"]
  BY DEF Resume
<1> HIDE DEF f
<1>4. frame' \in [Agents -> Frames] /\ OthersKeep(t, frame, frame') /\ frame'[t] = f
  BY <1>2, <1>3, FrameDoes
<1> QED
  BY <1>3, <1>4, PcDoes DEF Labels

LEMMA ReleaseLaterDoes ==
    ASSUME TypeOK, NEW t \in Agents, NEW n \in Nat, ReleaseLater(t, n)
    PROVE  /\ pc' \in [Agents -> Labels] /\ OthersKeep(t, pc, pc') /\ pc'[t] = "releaseSemaphore"
           /\ frame' \in [Agents -> Frames] /\ OthersKeep(t, frame, frame') /\ frame'[t].Count = n
<1>1. frame \in [Agents -> Frames]
  BY DEF TypeOK, Frames
<1> DEFINE f == [frame[t] EXCEPT !.Count = n]
<1>2. f \in Frames /\ f.Count = n
  BY <1>1 DEF Frames
<1>3. frame' = [frame EXCEPT ![t] = f] /\ pc' = [pc EXCEPT ![t] = "releaseSemaphore"]
  BY DEF ReleaseLater
<1> HIDE DEF f
<1>4. frame' \in [Agents -> Frames] /\ OthersKeep(t, frame, frame') /\ frame'[t] = f
  BY <1>2, <1>3, FrameDoes
<1> QED
  BY <1>2, <1>3, <1>4, PcDoes DEF Labels

LEMMA SetEntry ==
    ASSUME TypeOK, TableShape, NEW i \in DOMAIN Owner, NEW o \in Agents \cup {NULL, GRANTED},
           NEW n \in Nat, NEW new, new = [Owner EXCEPT ![i] = [OwnerThread |-> o, OwnerCount |-> n]]
    PROVE  EntryIs(Owner, new, i, o, n) /\ \A j \in DOMAIN new : new[j] \in Entries
<1>1. [OwnerThread |-> o, OwnerCount |-> n] \in Entries
  BY DEF Entries
<1>2. \A j \in DOMAIN Owner : Owner[j] \in Entries
  BY DEF TypeOK, Entries
<1>3. DOMAIN new = DOMAIN Owner
  OBVIOUS
<1>4. new[i] = [OwnerThread |-> o, OwnerCount |-> n] /\ \A j \in DOMAIN Owner : j # i => new[j] = Owner[j]
  OBVIOUS
<1> QED
  BY <1>1, <1>2, <1>3, <1>4 DEF EntryIs

LEMMA SetCount ==
    ASSUME TypeOK, TableShape, NEW i \in DOMAIN Owner, NEW n \in Nat,
           NEW new, new = [Owner EXCEPT ![i].OwnerCount = n]
    PROVE  EntryIs(Owner, new, i, Owner[i].OwnerThread, n) /\ \A j \in DOMAIN new : new[j] \in Entries
<1>1. \A j \in DOMAIN Owner : Owner[j] \in Entries
  BY DEF TypeOK, Entries
<1>2. DOMAIN new = DOMAIN Owner
  OBVIOUS
<1>3. /\ new[i] = [Owner[i] EXCEPT !.OwnerCount = n]
      /\ \A j \in DOMAIN Owner : j # i => new[j] = Owner[j]
  OBVIOUS
<1>4. new[i] \in Entries /\ new[i].OwnerThread = Owner[i].OwnerThread /\ new[i].OwnerCount = n
  BY <1>1, <1>3 DEF Entries
<1> QED
  BY <1>1, <1>2, <1>3, <1>4 DEF EntryIs

LEMMA SetThread ==
    ASSUME TypeOK, TableShape, NEW i \in DOMAIN Owner, NEW o \in Agents \cup {NULL, GRANTED},
           NEW new, new = [Owner EXCEPT ![i].OwnerThread = o]
    PROVE  /\ EntryIs(Owner, new, i, o, Owner[i].OwnerCount) /\ Owner[i].OwnerCount \in Nat
           /\ \A j \in DOMAIN new : new[j] \in Entries
<1>1. \A j \in DOMAIN Owner : Owner[j] \in Entries
  BY DEF TypeOK, Entries
<1>2. DOMAIN new = DOMAIN Owner
  OBVIOUS
<1>3. /\ new[i] = [Owner[i] EXCEPT !.OwnerThread = o]
      /\ \A j \in DOMAIN Owner : j # i => new[j] = Owner[j]
  OBVIOUS
<1>4. /\ new[i] \in Entries /\ new[i].OwnerThread = o /\ new[i].OwnerCount = Owner[i].OwnerCount
      /\ Owner[i].OwnerCount \in Nat
  BY <1>1, <1>3 DEF Entries
<1> QED
  BY <1>1, <1>2, <1>3, <1>4 DEF EntryIs

(* The type invariant from its parts.                                      *)
LEMMA Typed ==
    ASSUME Exclusive' \in BOOLEAN, ActiveCount' \in Nat, ActiveEntries' \in Nat,
           NumberOfSharedWaiters' \in Nat, NumberOfExclusiveWaiters' \in Nat,
           TableSize' \in Nat, 0 \in DOMAIN Owner', \A i \in DOMAIN Owner' : Owner'[i] \in Entries,
           SharedWaiters' \in Nat \cup {NULL}, ExclusiveWaiters' \in BOOLEAN \cup {NULL},
           crashed' \in BOOLEAN, pc' \in [Agents -> Labels], frame' \in [Agents -> Frames],
           held' \in [Agents -> Modes]
    PROVE  TypeOK'
  BY Zenon DEF TypeOK, Entries, Frames, Modes

(* The shape of a table one entry of which changes.                        *)
LEMMA ShapeKept ==
    ASSUME TableShape, DOMAIN Owner' = DOMAIN Owner, TableSize' = TableSize
    PROVE  TableShape' /\ 0 \in DOMAIN Owner' /\ (Unlimited' <=> Unlimited)
  BY DEF TableShape, Unlimited, HasTable

-----------------------------------------------------------------------------
(* What a step of one agent leaves to show.                                *)
PlaceOK(a) ==
    /\ pc[a] \in {"retry", "allocateEvent", "allocateSemaphore", "waitShared", "waitUnlisted",
                  "waitExclusive"} => held[a] = "none"
    /\ pc[a] = "expand" => (held[a] = "none" \/ Claiming(a)) /\ ~Unlimited
    /\ pc[a] = "claim" => held[a] = "shared"
    /\ pc[a] = "setOwner" => held[a] = "exclusive"
    /\ pc[a] = "releaseSemaphore" => frame[a].Count > 0
    /\ pc[a] \in {"waitShared", "waitUnlisted", "releaseSemaphore"} => SharedWaiters # NULL
    /\ a \in Pointers => pc[a] \in {"idle", "releaseSemaphore", "setEvent"}

LEMMA PlacesStep ==
    ASSUME ResourceInv, NEW t \in Agents, Moves(t), Unlimited' => Unlimited,
           SharedWaiters # NULL => SharedWaiters' # NULL, PlaceOK(t)'
    PROVE  Places'
<1>1. Places <=> \A a \in Agents : PlaceOK(a)
  BY DEF Places, PlaceOK
<1>2. Places' <=> \A a \in Agents : PlaceOK(a)'
  BY DEF Places, PlaceOK
<1>3. ASSUME NEW a \in Agents, a # t PROVE PlaceOK(a)'
  <2>1. pc'[a] = pc[a] /\ frame'[a] = frame[a] /\ held'[a] = held[a]
    BY <1>3 DEF Moves, OthersKeep
  <2>2. Claiming(a)' <=> Claiming(a)
    BY <2>1 DEF Claiming
  <2>3. PlaceOK(a)
    BY <1>1 DEF ResourceInv
  <2> QED
    BY <2>1, <2>2, <2>3 DEF PlaceOK
<1> QED
  BY <1>2, <1>3

LEMMA RecordedStep ==
    ASSUME NEW t \in Agents, Moves(t),
           \A a \in Agents \ {t} : pc[a] = "setOwner" =>
               (Owner'[0].OwnerThread = a <=> Owner[0].OwnerThread = a)
    PROVE  /\ HasEntry(t)' => Recorded' = Recorded \cup {t}
           /\ ~HasEntry(t)' => Recorded' = Recorded \ {t}
<1>1. ASSUME NEW a \in Agents, a # t PROVE HasEntry(a)' <=> HasEntry(a)
  <2>1. pc'[a] = pc[a] /\ frame'[a] = frame[a] /\ held'[a] = held[a]
    BY <1>1 DEF Moves, OthersKeep
  <2>2. Claiming(a)' <=> Claiming(a)
    BY <2>1 DEF Claiming
  <2> QED
    BY <1>1, <2>1, <2>2 DEF HasEntry
<1> QED
  BY <1>1 DEF Recorded

LEMMA Finish ==
    ASSUME ResourceInv, NEW t \in Agents, Moves(t), TypeOK', TableShape', OneReleaser',
           Unlimited' => Unlimited, SharedWaiters # NULL => SharedWaiters' # NULL, PlaceOK(t)',
           Balance(Exclusive', ActiveEntries', ActiveCount', NumberOfSharedWaiters',
                   NumberOfExclusiveWaiters', Many(held', Owns),
                   Granted(SharedWaiters', pc', frame'), GrantedExclusive(ExclusiveWaiters', pc'),
                   Many(pc', SharedWaits), Many(pc', {"waitExclusive"})),
           ~Exclusive' => \A a \in Agents : held'[a] # "exclusive",
           TableOK(Owner', Recorded'), FirstEntry'
    PROVE  ResourceInv'
<1>1. GrantsCounted'
  BY GrantsAreNext
<1>2. EntriesInUse'
  BY EntriesAreNext
<1>3. Places'
  BY PlacesStep
<1> QED
  BY <1>1, <1>2, <1>3 DEF ResourceInv

(* A step that neither starts nor ends the release of the semaphore.       *)
LEMMA HandsSame ==
    ASSUME NEW t \in Agents, Moves(t), OneReleaser, pc[t] # "releaseSemaphore", pc'[t] # "releaseSemaphore"
    PROVE  /\ OneReleaser'
           /\ Cardinality(Hands(Where(pc', {"releaseSemaphore"}), frame'))
                  = Cardinality(Hands(Where(pc, {"releaseSemaphore"}), frame))
<1>1. /\ Where(pc', {"releaseSemaphore"}) = Where(pc, {"releaseSemaphore"})
      /\ \A a \in Where(pc, {"releaseSemaphore"}) : frame'[a].Count = frame[a].Count
  BY DEF Where, OthersKeep, Moves
<1>2. OneReleaser'
  BY <1>1 DEF OneReleaser, At, Where
<1> QED
  BY <1>1, <1>2, HandsKept

-----------------------------------------------------------------------------
(* The steps that leave the owners and the waiters alone.                  *)

LEMMA OnlyCrashed ==
    ASSUME ResourceInv, crashed' \in BOOLEAN,
           UNCHANGED <<counts, waiters, table, objects, local, held>>
    PROVE  ResourceInv'
<1>1. UNCHANGED <<Exclusive, ActiveCount, ActiveEntries, NumberOfSharedWaiters,
                  NumberOfExclusiveWaiters, Owner, TableSize, SharedWaiters, ExclusiveWaiters,
                  pc, frame, held>>
  BY DEF counts, waiters, table, objects, local
<1>2. TypeOK'
  BY <1>1, Typed DEF ResourceInv, TypeOK, Entries, Frames, Modes
<1>3. GrantsCounted'
  BY <1>1 DEF ResourceInv, GrantsCounted, Holders, SharedGrants, PendingGrants, ExclusiveGrants, At
<1>4. Places' /\ OneReleaser' /\ TableShape'
  BY <1>1 DEF ResourceInv, Places, OneReleaser, TableShape, At, Claiming, Unlimited, HasTable
<1>5. EntriesInUse'
  BY <1>1 DEF ResourceInv, EntriesInUse, EntriesOf, HasEntry, Claiming, At, Holders, ExclusiveGrants
<1> QED
  BY <1>2, <1>3, <1>4, <1>5 DEF ResourceInv

LEMMA SameTable ==
    ASSUME ResourceInv, UNCHANGED table
    PROVE  /\ OwnersKept /\ TableShape' /\ 0 \in DOMAIN Owner' /\ (Unlimited' <=> Unlimited)
           /\ TableSize' \in Nat /\ \A i \in DOMAIN Owner' : Owner'[i] \in Entries
  BY DEF table, ResourceInv, TypeOK, TableShape, OwnersKept, EntriesInUse, Unlimited, HasTable, Entries

LEMMA RefuseInv ==
    ASSUME ResourceInv, NEW t \in Agents, pc[t] \in {"idle", "retry"}, Refuse(t)
    PROVE  ResourceInv'
<1>1. TypeOK /\ Places
  BY DEF ResourceInv
<1>2. /\ pc' \in [Agents -> Labels] /\ OthersKeep(t, pc, pc') /\ pc'[t] = "idle"
      /\ frame' \in [Agents -> Frames] /\ OthersKeep(t, frame, frame')
  BY <1>1, ReturnDoes DEF Refuse
<1>3. UNCHANGED <<counts, waiters, table, objects, crashed, held>>
  BY DEF Refuse
<1>4. TypeOK'
  BY <1>1, <1>2, <1>3, SameTable, Typed DEF TypeOK, counts, waiters, objects, Modes
<1>5. HasEntry(t)' <=> HasEntry(t)
  BY <1>1, <1>2, <1>3 DEF HasEntry, Claiming, Places
<1>6. UNCHANGED <<counts, waiters, held>> /\ UNCHANGED <<SharedWaiters, ExclusiveWaiters>>
  BY <1>3 DEF objects
<1> QED
  BY <1>2, <1>3, <1>4, <1>5, <1>6, SameTable, CalmStep DEF Calm

LEMMA SuspendInv ==
    ASSUME ResourceInv, NEW t \in Threads, pc[t] \in {"idle", "retry", "claim"},
           NEW l \in {"expand", "allocateEvent", "allocateSemaphore"},
           NEW call \in Calls, NEW Wait \in BOOLEAN, Suspend(t, l, call, Wait),
           pc[t] = "claim" => l = "expand" /\ call = "WaitForExclusive",
           pc[t] # "claim" => held[t] = "none", l = "expand" => ~Unlimited
    PROVE  ResourceInv'
<1>1. TypeOK /\ Places /\ t \in Agents /\ t \notin Pointers /\ l \in Labels
  BY NameAssumption DEF ResourceInv, Agents, Labels
<1>2. /\ pc' \in [Agents -> Labels] /\ OthersKeep(t, pc, pc') /\ pc'[t] = l
      /\ frame' \in [Agents -> Frames] /\ OthersKeep(t, frame, frame') /\ frame'[t].call = call
  BY <1>1, SuspendDoes
<1>3. UNCHANGED <<counts, waiters, table, objects, crashed, held>>
  BY DEF Suspend
<1>4. TypeOK'
  BY <1>1, <1>2, <1>3, SameTable, Typed DEF TypeOK, counts, waiters, objects, Modes
<1>5. pc[t] = "claim" => held[t] = "shared"
  BY <1>1 DEF Places
<1>6. HasEntry(t)' <=> HasEntry(t)
  BY <1>2, <1>3, <1>5 DEF HasEntry, Claiming
<1>7. UNCHANGED <<counts, waiters, held>> /\ UNCHANGED <<SharedWaiters, ExclusiveWaiters, held>>
  BY <1>3 DEF objects
<1>8. pc'[t] = "expand" => held[t] = "none" \/ Claiming(t)'
  BY <1>2, <1>5, <1>7 DEF Claiming
<1> QED
  BY <1>1, <1>2, <1>3, <1>4, <1>6, <1>7, <1>8, SameTable, CalmStep DEF Calm

LEMMA BeginExpandInv ==
    ASSUME ResourceInv, NEW t \in Threads, pc[t] \in {"idle", "retry", "claim"},
           NEW call \in Calls, NEW Wait \in BOOLEAN, BeginExpand(t, call, Wait),
           pc[t] = "claim" => call = "WaitForExclusive", pc[t] # "claim" => held[t] = "none"
    PROVE  ResourceInv'
<1>1. CASE ~Unlimited /\ Suspend(t, "expand", call, Wait)
  BY <1>1, SuspendInv
<1>2. CASE crashed' = TRUE /\ UNCHANGED <<counts, waiters, table, objects, local, held>>
  BY <1>2, OnlyCrashed
<1> QED
  BY <1>1, <1>2 DEF BeginExpand

LEMMA RecurseInv ==
    ASSUME ResourceInv, NEW t \in Agents, pc[t] \in {"idle", "retry"},
           NEW i \in DOMAIN Owner, Owner[i].OwnerThread = t, Recurse(t, i)
    PROVE  ResourceInv'
<1>1. TypeOK /\ Places /\ TableShape /\ EntriesInUse
  BY DEF ResourceInv
<1>2. /\ pc' \in [Agents -> Labels] /\ OthersKeep(t, pc, pc') /\ pc'[t] = "idle"
      /\ frame' \in [Agents -> Frames] /\ OthersKeep(t, frame, frame')
  BY <1>1, ReturnDoes DEF Recurse
<1>3. UNCHANGED <<counts, waiters, TableSize, objects, crashed, held>>
  BY DEF Recurse
<1> DEFINE n == Owner[i].OwnerCount + 1
<1>4. n \in Nat /\ n # 0 /\ Owner' = [Owner EXCEPT ![i].OwnerCount = n]
  BY <1>1 DEF Recurse, TypeOK
<1> HIDE DEF n
<1>5. EntryIs(Owner, Owner', i, t, n) /\ \A j \in DOMAIN Owner' : Owner'[j] \in Entries
  BY <1>1, <1>4, SetCount
<1>6. TableShape' /\ 0 \in DOMAIN Owner' /\ (Unlimited' <=> Unlimited)
  BY <1>1, <1>3, <1>5, ShapeKept DEF EntryIs
<1>7. t # NULL
  BY NameAssumption
<1>8. OwnersKept
  BY <1>1, <1>4, <1>5, <1>7 DEF OwnersKept, EntryIs, EntriesInUse
<1>9. TypeOK'
  BY <1>1, <1>2, <1>3, <1>5, <1>6, Typed DEF TypeOK, counts, waiters, objects, Modes
<1>10. HasEntry(t) /\ pc[t] = "idle"
  BY <1>1 DEF EntriesInUse, EntriesOf, HasEntry, Places
<1>11. HasEntry(t)' <=> HasEntry(t)
  BY <1>2, <1>3, <1>10 DEF HasEntry, Claiming
<1>12. UNCHANGED <<counts, waiters, held>> /\ UNCHANGED <<SharedWaiters, ExclusiveWaiters>>
  BY <1>3 DEF objects
<1> QED
  BY <1>2, <1>6, <1>8, <1>9, <1>11, <1>12, CalmStep DEF Calm

(* The indices of a table and of a larger one.                             *)
LEMMA Indices ==
    ASSUME NEW m \in Nat, NEW n \in Nat, m < n
    PROVE  /\ 0 \in 0 .. n - 1
           /\ \A i \in 0 .. m - 1 : i \in 0 .. n - 1
           /\ m # 0 => \A i \in 0 .. n - 1 : (i = 0 \/ i < m) <=> i \in 0 .. m - 1
           /\ m = 0 => \A i \in 0 .. n - 1 : (i = 0 \/ i < m) <=> i = 0
  OBVIOUS

LEMMA ExpandInv ==
    ASSUME ResourceInv, NEW t \in Threads, ExpExpandResourceOwnerTable(t)
    PROVE  ResourceInv'
<1>1. TypeOK /\ Places /\ TableShape /\ EntriesInUse /\ t \in Agents /\ t \notin Pointers
  BY NameAssumption DEF ResourceInv, Agents
<1>2. pc[t] = "expand" /\ ~Unlimited /\ (held[t] = "none" \/ Claiming(t))
  BY <1>1 DEF ExpExpandResourceOwnerTable, Places
<1> DEFINE NoMemory == crashed' = TRUE /\ UNCHANGED <<counts, waiters, table, objects, local, held>>
<1>12. CASE NoMemory
  BY <1>12, OnlyCrashed
<1>13. \/ NoMemory
       \/ /\ IF TableSize = frame[t].OldSize THEN InstallTable(frame[t].OldSize)
             ELSE UNCHANGED table
          /\ IF Claiming(t) THEN Goto(t, "claim") ELSE Resume(t)
          /\ UNCHANGED <<counts, waiters, objects, crashed, held>>
  BY DEF ExpExpandResourceOwnerTable
<1> SUFFICES ASSUME ~NoMemory PROVE ResourceInv'
  BY <1>12
<1> HIDE DEF NoMemory
<1>3. UNCHANGED <<counts, waiters, objects, crashed, held>>
  BY <1>13
<1>4. /\ pc' \in [Agents -> Labels] /\ OthersKeep(t, pc, pc')
      /\ pc'[t] = IF Claiming(t) THEN "claim" ELSE "retry"
      /\ frame' \in [Agents -> Frames] /\ OthersKeep(t, frame, frame')
  <2>1. CASE Claiming(t)
    BY <1>1, <1>13, <2>1, GotoDoes DEF Labels
  <2>2. CASE ~Claiming(t)
    BY <1>1, <1>13, <2>2, ResumeDoes
  <2> QED
    BY <2>1, <2>2
<1>5. /\ OwnersKept /\ TableShape' /\ 0 \in DOMAIN Owner' /\ (Unlimited' => Unlimited)
      /\ TableSize' \in Nat /\ \A i \in DOMAIN Owner' : Owner'[i] \in Entries
  <2>1. CASE UNCHANGED table
    BY <2>1, SameTable
  <2>2. CASE TableSize = frame[t].OldSize /\ InstallTable(frame[t].OldSize)
    <3>1. TableSize \in Nat /\ TableSize' \in Nat /\ TableSize < TableSize'
      BY <1>1, <2>2, SizeAssumption DEF TypeOK, InstallTable, NewSize
    <3>2. DOMAIN Owner' = 0 .. TableSize' - 1
      BY <2>2 DEF InstallTable
    <3>3. /\ DOMAIN Owner \subseteq 0 .. TableSize' - 1
          /\ \A i \in 0 .. TableSize' - 1 : (i = 0 \/ i < TableSize) <=> i \in DOMAIN Owner
      <4>1. CASE TableSize # 0
        <5>1. DOMAIN Owner = 0 .. TableSize - 1
          BY <1>1, <4>1 DEF TableShape
        <5>2. \A i \in 0 .. TableSize - 1 : i \in 0 .. TableSize' - 1
          BY <3>1, Indices
        <5>3. \A i \in 0 .. TableSize' - 1 : (i = 0 \/ i < TableSize) <=> i \in 0 .. TableSize - 1
          BY <3>1, <4>1, Indices
        <5> QED
          BY <5>1, <5>2, <5>3
      <4>2. CASE TableSize = 0
        <5>1. DOMAIN Owner = {0}
          BY <1>2, <4>2 DEF Unlimited, HasTable
        <5>2. 0 \in 0 .. TableSize' - 1
          BY <3>1, Indices
        <5>3. \A i \in 0 .. TableSize' - 1 : (i = 0 \/ i < TableSize) <=> i = 0
          BY <3>1, <4>2, Indices
        <5> QED
          BY <5>1, <5>2, <5>3
      <4> QED
        BY <4>1, <4>2
    <3>4. FreeEntry \in Entries /\ FreeEntry.OwnerThread = NULL /\ FreeEntry.OwnerCount = 0
      BY DEF FreeEntry, Entries
    <3>5. \A i \in DOMAIN Owner' : Owner'[i] = IF i \in DOMAIN Owner THEN Owner[i] ELSE FreeEntry
      BY <2>2, <3>2, <3>3 DEF InstallTable
    <3>6. \A i \in DOMAIN Owner' : Owner'[i] \in Entries
      BY <1>1, <3>4, <3>5 DEF TypeOK, Entries
    <3>7. OwnersKept
      BY <1>1, <3>2, <3>3, <3>4, <3>5 DEF OwnersKept, EntriesInUse
    <3>8. TableShape' /\ 0 \in DOMAIN Owner'
      <4>1. 0 \in DOMAIN Owner'
        BY <1>1, <3>2, <3>3 DEF TableShape
      <4>2. \A n \in Nat : 0 .. n - 1 \subseteq Nat
        OBVIOUS
      <4>3. DOMAIN Owner' \subseteq Nat
        BY <3>1, <3>2, <4>2
      <4> QED
        BY <3>2, <4>1, <4>3 DEF TableShape
    <3>9. ~Unlimited'
      BY <3>1 DEF Unlimited
    <3> QED
      BY <3>1, <3>6, <3>7, <3>8, <3>9
  <2> QED
    BY <1>13, <2>1, <2>2
<1>6. TypeOK'
  BY <1>1, <1>3, <1>4, <1>5, Typed DEF TypeOK, counts, waiters, objects, Modes
<1>7. Claiming(t) => held[t] = "shared"
  BY <1>2 DEF Claiming
<1>8. HasEntry(t)' <=> HasEntry(t)
  BY <1>2, <1>3, <1>4 DEF HasEntry, Claiming
<1>9. UNCHANGED <<counts, waiters, held>> /\ UNCHANGED <<SharedWaiters, ExclusiveWaiters>>
  BY <1>3 DEF objects
<1>10. pc'[t] \in Calm /\ pc'[t] # "expand" /\ pc[t] \in Calm
  BY <1>2, <1>4 DEF Calm
<1>11. /\ pc'[t] \in {"retry", "allocateEvent", "allocateSemaphore"} => held[t] = "none"
       /\ pc'[t] = "claim" => held[t] = "shared"
  BY <1>2, <1>4, <1>7
<1> QED
  BY <1>1, <1>4, <1>5, <1>6, <1>8, <1>9, <1>10, <1>11, CalmStep

LEMMA AllocateEventInv ==
    ASSUME ResourceInv, NEW t \in Threads, ExpAllocateExclusiveWaiterEvent(t)
    PROVE  ResourceInv'
<1>1. TypeOK /\ Places /\ t \in Agents /\ t \notin Pointers
  BY NameAssumption DEF ResourceInv, Agents
<1>2. pc[t] = "allocateEvent" /\ held[t] = "none"
  BY <1>1 DEF ExpAllocateExclusiveWaiterEvent, Places
<1>3. UNCHANGED <<counts, waiters, table, SharedWaiters, crashed, held>>
  BY DEF ExpAllocateExclusiveWaiterEvent
<1>4. /\ pc' \in [Agents -> Labels] /\ OthersKeep(t, pc, pc') /\ pc'[t] = "retry"
      /\ frame' \in [Agents -> Frames] /\ OthersKeep(t, frame, frame')
  BY <1>1, ResumeDoes DEF ExpAllocateExclusiveWaiterEvent
<1>5. ExclusiveWaiters' = ExclusiveWaiters \/ (ExclusiveWaiters = NULL /\ ExclusiveWaiters' = FALSE)
  BY DEF ExpAllocateExclusiveWaiterEvent
<1>6. ExclusiveWaiters' \in BOOLEAN \cup {NULL}
  BY <1>1, <1>5, Zenon DEF TypeOK
<1>7. IsSet(ExclusiveWaiters') <=> IsSet(ExclusiveWaiters)
  <2>1. NULL # TRUE /\ FALSE # TRUE
    BY NameAssumption, Zenon
  <2> QED
    BY <1>5, <2>1, Zenon DEF IsSet
<1>8. TypeOK'
  <2>1. /\ SharedWaiters' \in Nat \cup {NULL} /\ held' \in [Agents -> Modes] /\ crashed' \in BOOLEAN
        /\ Exclusive' \in BOOLEAN /\ ActiveCount' \in Nat /\ ActiveEntries' \in Nat
        /\ NumberOfSharedWaiters' \in Nat /\ NumberOfExclusiveWaiters' \in Nat
    BY <1>1, <1>3 DEF TypeOK, counts, waiters, Modes
  <2>2. 0 \in DOMAIN Owner' /\ TableSize' \in Nat /\ \A i \in DOMAIN Owner' : Owner'[i] \in Entries
    BY <1>3, SameTable
  <2> QED
    BY <1>4, <1>6, <2>1, <2>2, Typed
<1>9. HasEntry(t)' <=> HasEntry(t)
  BY <1>2, <1>3, <1>4 DEF HasEntry, Claiming
<1>10. UNCHANGED <<counts, waiters, held>> /\ UNCHANGED SharedWaiters
  BY <1>3
<1> QED
  BY <1>1, <1>2, <1>3, <1>4, <1>7, <1>8, <1>9, <1>10, SameTable, CalmStep DEF Calm

LEMMA AllocateSemaphoreInv ==
    ASSUME ResourceInv, NEW t \in Threads, ExpAllocateSharedWaiterSemaphore(t)
    PROVE  ResourceInv'
<1>1. TypeOK /\ Places /\ t \in Agents /\ t \notin Pointers
  BY NameAssumption DEF ResourceInv, Agents
<1>2. pc[t] = "allocateSemaphore" /\ held[t] = "none"
  BY <1>1 DEF ExpAllocateSharedWaiterSemaphore, Places
<1>3. UNCHANGED <<counts, waiters, table, ExclusiveWaiters, crashed, held>>
  BY DEF ExpAllocateSharedWaiterSemaphore
<1>4. /\ pc' \in [Agents -> Labels] /\ OthersKeep(t, pc, pc') /\ pc'[t] = "retry"
      /\ frame' \in [Agents -> Frames] /\ OthersKeep(t, frame, frame')
  BY <1>1, ResumeDoes DEF ExpAllocateSharedWaiterSemaphore
<1>5. SharedWaiters' = SharedWaiters \/ (SharedWaiters = NULL /\ SharedWaiters' = 0)
  BY DEF ExpAllocateSharedWaiterSemaphore
<1>6. SharedWaiters' \in Nat \cup {NULL}
  BY <1>1, <1>5 DEF TypeOK
<1>7. TypeOK'
  <2>1. /\ ExclusiveWaiters' \in BOOLEAN \cup {NULL} /\ held' \in [Agents -> Modes] /\ crashed' \in BOOLEAN
        /\ Exclusive' \in BOOLEAN /\ ActiveCount' \in Nat /\ ActiveEntries' \in Nat
        /\ NumberOfSharedWaiters' \in Nat /\ NumberOfExclusiveWaiters' \in Nat
    BY <1>1, <1>3 DEF TypeOK, counts, waiters, Modes
  <2>2. 0 \in DOMAIN Owner' /\ TableSize' \in Nat /\ \A i \in DOMAIN Owner' : Owner'[i] \in Entries
    BY <1>3, SameTable
  <2> QED
    BY <1>4, <1>6, <2>1, <2>2, Typed
<1>8. HasEntry(t)' <=> HasEntry(t)
  BY <1>2, <1>3, <1>4 DEF HasEntry, Claiming
<1>9. UNCHANGED <<counts, waiters, held>> /\ UNCHANGED ExclusiveWaiters
  BY <1>3
<1> QED
  BY <1>1, <1>2, <1>3, <1>4, <1>5, <1>7, <1>8, <1>9, SameTable, CalmStep DEF Calm

(* A release of one acquisition of several.                                *)
LEMMA CountDownInv ==
    ASSUME ResourceInv, NEW t \in Agents, pc[t] = "idle",
           NEW i \in DOMAIN Owner, Owner[i].OwnerThread = t, Owner[i].OwnerCount > 1,
           Owner' = [Owner EXCEPT ![i].OwnerCount = @ - 1],
           UNCHANGED <<counts, waiters, TableSize, objects, crashed, local, held>>
    PROVE  ResourceInv'
<1>1. TypeOK /\ Places /\ TableShape /\ EntriesInUse
  BY DEF ResourceInv
<1>2. /\ pc' = pc /\ frame' = frame /\ pc' \in [Agents -> Labels] /\ frame' \in [Agents -> Frames]
      /\ OthersKeep(t, pc, pc') /\ OthersKeep(t, frame, frame')
  BY <1>1 DEF local, TypeOK, Frames, OthersKeep
<1> DEFINE n == Owner[i].OwnerCount - 1
<1>3. n \in Nat /\ n # 0 /\ Owner' = [Owner EXCEPT ![i].OwnerCount = n]
  BY <1>1 DEF TypeOK
<1> HIDE DEF n
<1>4. EntryIs(Owner, Owner', i, t, n) /\ \A j \in DOMAIN Owner' : Owner'[j] \in Entries
  BY <1>1, <1>3, SetCount
<1>5. TableShape' /\ 0 \in DOMAIN Owner' /\ (Unlimited' <=> Unlimited)
  BY <1>1, <1>4, ShapeKept DEF EntryIs
<1>6. t # NULL
  BY NameAssumption
<1>7. OwnersKept
  BY <1>1, <1>3, <1>4, <1>6 DEF OwnersKept, EntryIs, EntriesInUse
<1>8. TypeOK'
  BY <1>1, <1>2, <1>4, <1>5, Typed DEF TypeOK, counts, waiters, objects, Modes
<1>9. HasEntry(t)' <=> HasEntry(t)
  BY <1>2 DEF HasEntry, Claiming
<1>10. UNCHANGED <<counts, waiters, held>> /\ UNCHANGED <<SharedWaiters, ExclusiveWaiters>>
  BY DEF objects
<1> QED
  BY <1>2, <1>5, <1>7, <1>8, <1>9, <1>10, CalmStep DEF Calm

-----------------------------------------------------------------------------
(* The steps that take the resource, or begin to wait for it.              *)

(* What an agent that moves changes about the numbers: at most whether it  *)
(* is counted.                                                             *)
LEMMA CountsMoved ==
    ASSUME ResourceInv, NEW t \in Agents, Moves(t), TypeOK'
    PROVE  /\ held[t] = "none" /\ held'[t] # "none" => Many(held', Owns) = Many(held, Owns) + 1
           /\ held[t] # "none" /\ held'[t] = "none" => Many(held', Owns) = Many(held, Owns) - 1
           /\ (held[t] = "none" <=> held'[t] = "none") => Many(held', Owns) = Many(held, Owns)
           /\ ExclusiveWaiters' = ExclusiveWaiters /\ pc[t] # "setEvent" /\ pc'[t] # "setEvent" =>
                  GrantedExclusive(ExclusiveWaiters', pc') = GrantedExclusive(ExclusiveWaiters, pc)
           /\ pc[t] \notin SharedWaits /\ pc'[t] \in SharedWaits =>
                  Many(pc', SharedWaits) = Many(pc, SharedWaits) + 1
           /\ pc[t] \in SharedWaits /\ pc'[t] \notin SharedWaits =>
                  Many(pc', SharedWaits) = Many(pc, SharedWaits) - 1
           /\ (pc[t] \in SharedWaits <=> pc'[t] \in SharedWaits) =>
                  Many(pc', SharedWaits) = Many(pc, SharedWaits)
           /\ pc[t] # "waitExclusive" /\ pc'[t] = "waitExclusive" =>
                  Many(pc', {"waitExclusive"}) = Many(pc, {"waitExclusive"}) + 1
           /\ pc[t] = "waitExclusive" /\ pc'[t] # "waitExclusive" =>
                  Many(pc', {"waitExclusive"}) = Many(pc, {"waitExclusive"}) - 1
           /\ (pc[t] = "waitExclusive" <=> pc'[t] = "waitExclusive") =>
                  Many(pc', {"waitExclusive"}) = Many(pc, {"waitExclusive"})
<1>1. TypeOK
  BY DEF ResourceInv
<1>2. OthersKeep(t, pc, pc') /\ OthersKeep(t, held, held')
  BY DEF Moves
<1>3. (held[t] \in Owns <=> held[t] # "none") /\ (held'[t] \in Owns <=> held'[t] # "none")
  BY <1>1 DEF TypeOK, Owns
<1>4. /\ held[t] = "none" /\ held'[t] # "none" => Many(held', Owns) = Many(held, Owns) + 1
      /\ held[t] # "none" /\ held'[t] = "none" => Many(held', Owns) = Many(held, Owns) - 1
      /\ (held[t] = "none" <=> held'[t] = "none") => Many(held', Owns) = Many(held, Owns)
  BY <1>2, <1>3, Moved
<1>5. /\ pc[t] \notin SharedWaits /\ pc'[t] \in SharedWaits =>
             Many(pc', SharedWaits) = Many(pc, SharedWaits) + 1
      /\ pc[t] \in SharedWaits /\ pc'[t] \notin SharedWaits =>
             Many(pc', SharedWaits) = Many(pc, SharedWaits) - 1
      /\ (pc[t] \in SharedWaits <=> pc'[t] \in SharedWaits) =>
             Many(pc', SharedWaits) = Many(pc, SharedWaits)
  BY <1>2, Moved
<1>6. /\ pc[t] # "waitExclusive" /\ pc'[t] = "waitExclusive" =>
             Many(pc', {"waitExclusive"}) = Many(pc, {"waitExclusive"}) + 1
      /\ pc[t] = "waitExclusive" /\ pc'[t] # "waitExclusive" =>
             Many(pc', {"waitExclusive"}) = Many(pc, {"waitExclusive"}) - 1
      /\ (pc[t] = "waitExclusive" <=> pc'[t] = "waitExclusive") =>
             Many(pc', {"waitExclusive"}) = Many(pc, {"waitExclusive"})
  BY <1>2, Moved
<1>7. ExclusiveWaiters' = ExclusiveWaiters /\ pc[t] # "setEvent" /\ pc'[t] # "setEvent" =>
          GrantedExclusive(ExclusiveWaiters', pc') = GrantedExclusive(ExclusiveWaiters, pc)
  <2>1. pc[t] # "setEvent" /\ pc'[t] # "setEvent" => Many(pc', {"setEvent"}) = Many(pc, {"setEvent"})
    BY <1>2, Moved
  <2> QED
    BY <2>1 DEF GrantedExclusive
<1> QED
  BY <1>4, <1>5, <1>6, <1>7

(* Nor does it change the grants to shared waiters, when it neither starts *)
(* nor ends the release of the semaphore.                                  *)
LEMMA GrantsMoved ==
    ASSUME ResourceInv, NEW t \in Agents, Moves(t), SharedWaiters' = SharedWaiters,
           pc[t] # "releaseSemaphore", pc'[t] # "releaseSemaphore"
    PROVE  OneReleaser' /\ Granted(SharedWaiters', pc', frame') = Granted(SharedWaiters, pc, frame)
  BY HandsSame DEF ResourceInv, Granted

(* The first entry of a resource that nobody has.                          *)
LEMMA UnownedFacts ==
    ASSUME ResourceInv, ActiveEntries = 0
    PROVE  /\ ~Exclusive /\ NumberOfSharedWaiters = 0 /\ NumberOfExclusiveWaiters = 0
           /\ Granted(SharedWaiters, pc, frame) = 0
           /\ GrantedExclusive(ExclusiveWaiters, pc) = 0
           /\ Many(held, Owns) = 0 /\ Many(pc, SharedWaits) = 0 /\ Many(pc, {"waitExclusive"}) = 0
           /\ \A a \in Agents : held[a] = "none" /\ pc[a] \notin {"setOwner", "waitShared"}
           /\ Recorded = {} /\ Owner[0].OwnerThread = NULL
<1>1. TypeOK /\ OneReleaser /\ Places /\ TableShape /\ EntriesInUse
  BY DEF ResourceInv
<1>2. /\ ~Exclusive /\ NumberOfSharedWaiters = 0 /\ NumberOfExclusiveWaiters = 0
      /\ Granted(SharedWaiters, pc, frame) = 0
      /\ GrantedExclusive(ExclusiveWaiters, pc) = 0
      /\ Many(held, Owns) = 0 /\ Many(pc, SharedWaits) = 0 /\ Many(pc, {"waitExclusive"}) = 0
  <2> DEFINE h == Many(held, Owns)
             sg == Granted(SharedWaiters, pc, frame)
             eg == GrantedExclusive(ExclusiveWaiters, pc)
             ws == Many(pc, SharedWaits)
             we == Many(pc, {"waitExclusive"})
  <2>1. Balance(Exclusive, ActiveEntries, ActiveCount, NumberOfSharedWaiters,
                NumberOfExclusiveWaiters, h, sg, eg, ws, we)
    BY Facts
  <2>2. /\ h \in Nat /\ sg \in Nat /\ eg \in Nat /\ ws \in Nat /\ we \in Nat
        /\ NumberOfSharedWaiters \in Nat /\ NumberOfExclusiveWaiters \in Nat
    BY <1>1, Numbers
  <2> HIDE DEF h, sg, eg, ws, we
  <2>3. /\ ~Exclusive /\ NumberOfSharedWaiters = 0 /\ NumberOfExclusiveWaiters = 0
        /\ sg = 0 /\ eg = 0 /\ h = 0 /\ ws = 0 /\ we = 0
    BY <2>1, <2>2 DEF Balance
  <2> QED
    BY <2>3 DEF h, sg, eg, ws, we
<1>3. \A a \in Agents : held[a] = "none"
  BY <1>2, Facts
<1>4. \A a \in Agents : pc[a] \notin {"setOwner", "waitShared"}
  <2>1. \A a \in Agents : pc[a] \notin SharedWaits
    BY <1>2, ManyType
  <2> QED
    BY <1>1, <1>3, <2>1 DEF Places, SharedWaits
<1>5. \A a \in Agents : ~HasEntry(a)
  BY <1>3, <1>4 DEF HasEntry
<1>6. Owner[0].OwnerThread \notin Agents
  BY <1>1, <1>5 DEF EntriesInUse, EntriesOf, TableShape
<1>7. Owner[0].OwnerThread # GRANTED
  <2>1. ExclusiveGrants = 0
    BY <1>2, Facts
  <2> QED
    BY <1>1, <1>4, <2>1 DEF EntriesInUse, At
<1>8. Owner[0].OwnerThread = NULL
  BY <1>1, <1>6, <1>7 DEF TypeOK
<1> QED
  BY <1>2, <1>3, <1>4, <1>5, <1>8 DEF Recorded

LEMMA TakeUnownedInv ==
    ASSUME ResourceInv, NEW t \in Agents, pc[t] \in {"idle", "retry"}, ActiveEntries = 0,
           NEW mode \in Owns, TakeUnowned(t, mode)
    PROVE  ResourceInv'
<1>1. TypeOK /\ OneReleaser /\ Places /\ TableShape /\ EntriesInUse /\ mode \in Modes /\ 0 \in DOMAIN Owner
  BY DEF ResourceInv, Owns, Modes, TableShape
<1>2. /\ pc' \in [Agents -> Labels] /\ OthersKeep(t, pc, pc') /\ pc'[t] = "idle"
      /\ frame' \in [Agents -> Frames] /\ OthersKeep(t, frame, frame')
  BY <1>1, ReturnDoes DEF TakeUnowned
<1>3. held' \in [Agents -> Modes] /\ OthersKeep(t, held, held') /\ held'[t] = mode
  BY <1>1, SetHeldDoes DEF TakeUnowned
<1>4. Moves(t)
  BY <1>2, <1>3 DEF Moves
<1>5. EntryIs(Owner, Owner', 0, t, 1) /\ \A j \in DOMAIN Owner' : Owner'[j] \in Entries
  BY <1>1, SetEntry DEF TakeUnowned
<1>6. UNCHANGED <<NumberOfSharedWaiters, NumberOfExclusiveWaiters, TableSize, SharedWaiters, ExclusiveWaiters, crashed>>
  BY DEF TakeUnowned, waiters, objects
<1>7. TableShape' /\ 0 \in DOMAIN Owner' /\ (Unlimited' <=> Unlimited)
  BY <1>1, <1>5, <1>6, ShapeKept DEF EntryIs
<1>8. Exclusive' = (mode = "exclusive") /\ ActiveEntries' = 1 /\ ActiveCount' = 1
  BY DEF TakeUnowned
<1>9. TypeOK'
  BY <1>1, <1>2, <1>3, <1>5, <1>6, <1>7, <1>8, Typed DEF TypeOK
<1>10. held[t] = "none" /\ held'[t] # "none"
  BY <1>3, UnownedFacts DEF Owns
<1>11. /\ Many(held', Owns) = 1 /\ Granted(SharedWaiters', pc', frame') = 0
       /\ GrantedExclusive(ExclusiveWaiters', pc') = 0
       /\ Many(pc', SharedWaits) = 0 /\ Many(pc', {"waitExclusive"}) = 0 /\ OneReleaser'
  BY <1>2, <1>4, <1>6, <1>9, <1>10, UnownedFacts, CountsMoved, GrantsMoved DEF SharedWaits
<1>12. Balance(Exclusive', ActiveEntries', ActiveCount', NumberOfSharedWaiters',
               NumberOfExclusiveWaiters', Many(held', Owns),
               Granted(SharedWaiters', pc', frame'), GrantedExclusive(ExclusiveWaiters', pc'),
               Many(pc', SharedWaits), Many(pc', {"waitExclusive"}))
  BY <1>6, <1>8, <1>11, UnownedFacts DEF Balance
<1>13. \A a \in Agents : a # t => held'[a] = "none" /\ pc'[a] = pc[a]
  BY <1>2, <1>3, UnownedFacts DEF OthersKeep
<1>14. ~Exclusive' => \A a \in Agents : held'[a] # "exclusive"
  BY <1>3, <1>8, <1>13
<1>15. TableOK(Owner', Recorded')
  <2>1. TableOK(Owner, {})
    BY <1>1, EntriesAre, UnownedFacts
  <2>2. TableOK(Owner', {} \cup {t})
    BY <1>5, <2>1, EntryTaken, UnownedFacts
  <2>3. HasEntry(t)'
    BY <1>2, <1>10 DEF HasEntry, Claiming
  <2>4. Recorded' = {} \cup {t}
    BY <1>4, <2>3, UnownedFacts, RecordedStep
  <2> QED
    BY <2>2, <2>4
<1>16. FirstEntry'
  <2>1. Owner'[0].OwnerThread = t /\ t # GRANTED
    BY <1>5, NameAssumption DEF EntryIs
  <2>2. ExclusiveGrants' = 0
    BY <1>9, <1>11, GrantsAreNext
  <2>3. \A a \in Agents : pc'[a] \notin {"setOwner", "waitShared"}
    BY <1>2, <1>13, UnownedFacts
  <2>4. \A a \in Agents : held'[a] # "none" => a = t
    BY <1>13
  <2>5. Exclusive' => held'[t] = "exclusive"
    BY <1>3, <1>8
  <2>6. (Exclusive => \A a \in Holders : held[a] = "exclusive")'
    BY <2>4, <2>5 DEF Holders
  <2>7. (\A a \in Agents : held[a] = "exclusive" =>
           Owner[0].OwnerThread = a \/ (pc[a] = "setOwner" /\ Owner[0].OwnerThread = GRANTED))'
    BY <2>1, <2>4
  <2> QED
    BY <2>1, <2>2, <2>3, <2>6, <2>7 DEF FirstEntry, At
<1>17. PlaceOK(t)'
  BY <1>2 DEF PlaceOK
<1> QED
  BY <1>4, <1>6, <1>7, <1>9, <1>11, <1>12, <1>14, <1>15, <1>16, <1>17, Finish

(* The first entry while it does not change hands.                         *)
LEMMA FirstKept ==
    ASSUME ResourceInv, NEW t \in Agents, Moves(t), Owner'[0].OwnerThread = Owner[0].OwnerThread,
           Exclusive' => Exclusive, ExclusiveGrants' = ExclusiveGrants, held'[t] \in {"none", held[t]},
           pc[t] # "setOwner", pc'[t] # "setOwner", pc'[t] = "waitShared" => Owner[0].OwnerThread # t
    PROVE  FirstEntry'
<1>1. FirstEntry
  BY EntriesAre DEF ResourceInv
<1>2. \A a \in Agents : a # t => pc'[a] = pc[a] /\ held'[a] = held[a]
  BY DEF Moves, OthersKeep
<1>3. (\A a \in At({"waitShared"}) : Owner[0].OwnerThread # a)'
  BY <1>1, <1>2 DEF FirstEntry, At
<1>4. \A a : a \in At({"setOwner"})' <=> a \in At({"setOwner"})
  BY <1>2 DEF At
<1>5. \A a \in Agents : held'[a] = "exclusive" => held[a] = "exclusive" /\ (pc[a] = "setOwner" => pc'[a] = "setOwner")
  BY <1>2
<1>6. (Exclusive => \A a \in Holders : held[a] = "exclusive")'
  BY <1>1, <1>2 DEF FirstEntry, Holders
<1> QED
  BY <1>1, <1>3, <1>4, <1>5, <1>6 DEF FirstEntry

(* The first entry of a resource that is not owned exclusively.            *)
LEMMA FirstShared ==
    ASSUME ~Exclusive', ExclusiveGrants' = 0, Owner'[0].OwnerThread # GRANTED,
           \A a \in Agents : held'[a] # "exclusive" /\ pc'[a] # "setOwner",
           \A a \in Agents : pc'[a] = "waitShared" => Owner'[0].OwnerThread # a
    PROVE  FirstEntry'
  BY DEF FirstEntry, At

(* What holds while the resource is not owned exclusively.                 *)
LEMMA SharedFacts ==
    ASSUME ResourceInv, ~Exclusive
    PROVE  /\ GrantedExclusive(ExclusiveWaiters, pc) = 0 /\ Owner[0].OwnerThread # GRANTED
           /\ ~IsSet(ExclusiveWaiters)
           /\ \A a \in Agents : held[a] # "exclusive" /\ pc[a] # "setOwner" /\ pc[a] # "setEvent"
           /\ \A a \in Agents : pc[a] = "waitShared" => Owner[0].OwnerThread # a
<1>1. Places /\ EntriesInUse
  BY DEF ResourceInv
<1>2. GrantedExclusive(ExclusiveWaiters, pc) = 0
  BY Facts DEF Balance
<1>3. \A a \in Agents : held[a] # "exclusive" /\ pc[a] # "setOwner"
  BY <1>1, Facts DEF Places
<1>4. ExclusiveGrants = 0 /\ (\A a \in Agents : pc[a] # "setEvent") /\ ~IsSet(ExclusiveWaiters)
  BY <1>2, Facts
<1>5. Owner[0].OwnerThread # GRANTED
  BY <1>1, <1>3, <1>4 DEF EntriesInUse, At
<1>6. \A a \in Agents : pc[a] = "waitShared" => Owner[0].OwnerThread # a
  BY <1>1 DEF EntriesInUse, At
<1> QED
  BY <1>2, <1>3, <1>4, <1>5, <1>6

LEMMA WaitExclusiveInv ==
    ASSUME ResourceInv, NEW t \in Threads, pc[t] \in {"idle", "retry"}, held[t] = "none",
           ActiveEntries # 0,
           NumberOfExclusiveWaiters' = NumberOfExclusiveWaiters + 1, Goto(t, "waitExclusive"),
           UNCHANGED <<counts, NumberOfSharedWaiters, table, objects, crashed, held>>
    PROVE  ResourceInv'
<1>1. TypeOK /\ OneReleaser /\ t \in Agents /\ t \notin Pointers /\ TableOK(Owner, Recorded)
  BY NameAssumption, EntriesAre DEF ResourceInv, Agents
<1>2. /\ pc' \in [Agents -> Labels] /\ OthersKeep(t, pc, pc') /\ pc'[t] = "waitExclusive"
      /\ frame' \in [Agents -> Frames] /\ OthersKeep(t, frame, frame')
  BY <1>1, GotoDoes DEF Labels
<1>3. Moves(t)
  BY <1>2 DEF Moves, OthersKeep
<1>4. /\ UNCHANGED <<Exclusive, ActiveEntries, ActiveCount, NumberOfSharedWaiters, SharedWaiters,
                     ExclusiveWaiters, held, Owner>>
      /\ UNCHANGED table
  BY DEF counts, objects, table
<1>5. TypeOK'
  BY <1>1, <1>2, <1>4, SameTable, Typed DEF TypeOK, Modes
<1> DEFINE h == Many(held, Owns)
           sg == Granted(SharedWaiters, pc, frame)
           eg == GrantedExclusive(ExclusiveWaiters, pc)
           ws == Many(pc, SharedWaits)
           we == Many(pc, {"waitExclusive"})
<1>6. /\ Balance(Exclusive, ActiveEntries, ActiveCount, NumberOfSharedWaiters,
                NumberOfExclusiveWaiters, h, sg, eg, ws, we)
      /\ ExclusiveGrants = eg /\ \A a \in Agents : held[a] = "exclusive" => Exclusive
  BY Facts
<1>7. /\ h \in Nat /\ sg \in Nat /\ eg \in Nat /\ ws \in Nat /\ we \in Nat /\ ActiveEntries \in Nat
      /\ NumberOfSharedWaiters \in Nat /\ NumberOfExclusiveWaiters \in Nat
  BY <1>1, Numbers
<1> HIDE DEF h, sg, eg, ws, we
<1>8. /\ Many(held', Owns) = h /\ Granted(SharedWaiters', pc', frame') = sg
      /\ GrantedExclusive(ExclusiveWaiters', pc') = eg
      /\ Many(pc', SharedWaits) = ws /\ Many(pc', {"waitExclusive"}) = we + 1 /\ OneReleaser'
  BY <1>1, <1>2, <1>3, <1>4, <1>5, CountsMoved, GrantsMoved DEF SharedWaits, h, sg, eg, ws, we
<1>9. Balance(Exclusive', ActiveEntries', ActiveCount', NumberOfSharedWaiters',
              NumberOfExclusiveWaiters', Many(held', Owns),
              Granted(SharedWaiters', pc', frame'), GrantedExclusive(ExclusiveWaiters', pc'),
              Many(pc', SharedWaits), Many(pc', {"waitExclusive"}))
  BY <1>4, <1>6, <1>7, <1>8 DEF Balance
<1>10. ExclusiveGrants' = ExclusiveGrants
  BY <1>5, <1>6, <1>8, GrantsAreNext
<1>11. TableOK(Owner', Recorded')
  <2>1. ~HasEntry(t) /\ ~HasEntry(t)'
    BY <1>2, <1>4 DEF HasEntry
  <2>2. Recorded' = Recorded \ {t}
    BY <1>1, <1>3, <1>4, <2>1, RecordedStep
  <2>3. Recorded' = Recorded
    BY <2>1, <2>2 DEF Recorded
  <2> QED
    BY <1>1, <1>4, <2>3
<1>12. FirstEntry'
  BY <1>1, <1>2, <1>3, <1>4, <1>10, FirstKept
<1>13. PlaceOK(t)'
  BY <1>1, <1>2, <1>4 DEF PlaceOK
<1>14. ~Exclusive' => \A a \in Agents : held'[a] # "exclusive"
  BY <1>4, <1>6
<1> QED
  BY <1>1, <1>3, <1>4, <1>5, <1>8, <1>9, <1>11, <1>12, <1>13, <1>14, SameTable, Finish

LEMMA BeginWaitShared ==
    ASSUME ResourceInv, NEW t \in Threads, pc[t] \in {"idle", "retry"}, held[t] = "none",
           ActiveEntries # 0, Exclusive \/ NumberOfExclusiveWaiters > 0, SharedWaiters # NULL,
           NEW i, i = NULL \/ (i \in DOMAIN Owner /\ i # 0 /\ Owner[i].OwnerThread = NULL),
           Owner' = IF i = NULL THEN Owner
                    ELSE [Owner EXCEPT ![i] = [OwnerThread |-> t, OwnerCount |-> 1]],
           NumberOfSharedWaiters' = NumberOfSharedWaiters + 1,
           Goto(t, IF i = NULL THEN "waitUnlisted" ELSE "waitShared"),
           UNCHANGED <<counts, NumberOfExclusiveWaiters, TableSize, objects, crashed, held>>
    PROVE  ResourceInv'
<1>1. /\ TypeOK /\ OneReleaser /\ t \in Agents /\ t \notin Pointers /\ TableOK(Owner, Recorded)
      /\ TableShape /\ NULL \notin Nat /\ 0 \in DOMAIN Owner
  BY NameAssumption, EntriesAre DEF ResourceInv, Agents, TableShape
<1>2. /\ pc' \in [Agents -> Labels] /\ OthersKeep(t, pc, pc')
      /\ pc'[t] = IF i = NULL THEN "waitUnlisted" ELSE "waitShared"
      /\ frame' \in [Agents -> Frames] /\ OthersKeep(t, frame, frame')
  BY <1>1, GotoDoes DEF Labels
<1>3. Moves(t)
  BY <1>2 DEF Moves, OthersKeep
<1>4. UNCHANGED <<Exclusive, ActiveEntries, ActiveCount, NumberOfExclusiveWaiters, SharedWaiters,
                  ExclusiveWaiters, held, TableSize, crashed>>
  BY DEF counts, objects
<1>5. ~HasEntry(t) /\ (HasEntry(t)' <=> i # NULL)
  BY <1>2, <1>4 DEF HasEntry
<1>6. /\ DOMAIN Owner' = DOMAIN Owner /\ Owner'[0] = Owner[0]
      /\ \A j \in DOMAIN Owner' : Owner'[j] \in Entries
      /\ i = NULL => TableOK(Owner', Recorded)
      /\ i # NULL => TableOK(Owner', Recorded \cup {t})
  <2>1. CASE i = NULL
    BY <1>1, <2>1 DEF TypeOK, Entries
  <2>2. CASE i # NULL
    <3>1. EntryIs(Owner, Owner', i, t, 1) /\ \A j \in DOMAIN Owner' : Owner'[j] \in Entries
      BY <1>1, <2>2, SetEntry
    <3>2. t \notin Recorded
      BY <1>5 DEF Recorded
    <3>3. TableOK(Owner', Recorded \cup {t})
      BY <1>1, <2>2, <3>1, <3>2, EntryTaken
    <3> QED
      BY <1>1, <2>2, <3>1, <3>3 DEF EntryIs
  <2> QED
    BY <2>1, <2>2
<1>7. TableShape' /\ 0 \in DOMAIN Owner' /\ (Unlimited' <=> Unlimited)
  BY <1>1, <1>4, <1>6, ShapeKept
<1>8. TypeOK'
  BY <1>1, <1>2, <1>4, <1>6, <1>7, Typed DEF TypeOK, Modes
<1> DEFINE h == Many(held, Owns)
           sg == Granted(SharedWaiters, pc, frame)
           eg == GrantedExclusive(ExclusiveWaiters, pc)
           ws == Many(pc, SharedWaits)
           we == Many(pc, {"waitExclusive"})
<1>9. /\ Balance(Exclusive, ActiveEntries, ActiveCount, NumberOfSharedWaiters,
                 NumberOfExclusiveWaiters, h, sg, eg, ws, we)
      /\ ExclusiveGrants = eg /\ \A a \in Agents : held[a] = "exclusive" => Exclusive
  BY Facts
<1>10. /\ h \in Nat /\ sg \in Nat /\ eg \in Nat /\ ws \in Nat /\ we \in Nat /\ ActiveEntries \in Nat
       /\ NumberOfSharedWaiters \in Nat /\ NumberOfExclusiveWaiters \in Nat
  BY <1>1, Numbers
<1> HIDE DEF h, sg, eg, ws, we
<1>11. /\ Many(held', Owns) = h /\ Granted(SharedWaiters', pc', frame') = sg
       /\ GrantedExclusive(ExclusiveWaiters', pc') = eg
       /\ Many(pc', SharedWaits) = ws + 1 /\ Many(pc', {"waitExclusive"}) = we /\ OneReleaser'
  BY <1>1, <1>2, <1>3, <1>4, <1>8, CountsMoved, GrantsMoved DEF SharedWaits, h, sg, eg, ws, we
<1>12. Balance(Exclusive', ActiveEntries', ActiveCount', NumberOfSharedWaiters',
               NumberOfExclusiveWaiters', Many(held', Owns),
               Granted(SharedWaiters', pc', frame'), GrantedExclusive(ExclusiveWaiters', pc'),
               Many(pc', SharedWaits), Many(pc', {"waitExclusive"}))
  BY <1>4, <1>9, <1>10, <1>11 DEF Balance
<1>13. ExclusiveGrants' = ExclusiveGrants
  BY <1>8, <1>9, <1>11, GrantsAreNext
<1>14. TableOK(Owner', Recorded')
  <2>1. /\ HasEntry(t)' => Recorded' = Recorded \cup {t}
        /\ ~HasEntry(t)' => Recorded' = Recorded \ {t}
    BY <1>1, <1>3, <1>6, RecordedStep
  <2>2. ~HasEntry(t)' => Recorded' = Recorded
    BY <1>5, <2>1 DEF Recorded
  <2> QED
    BY <1>5, <1>6, <2>1, <2>2
<1>15. Owner[0].OwnerThread # t
  BY <1>1, <1>5 DEF TableOK, Entered, Recorded
<1>16. FirstEntry'
  BY <1>1, <1>2, <1>3, <1>4, <1>6, <1>13, <1>15, FirstKept
<1>17. PlaceOK(t)'
  BY <1>1, <1>2, <1>4 DEF PlaceOK
<1>18. ~Exclusive' => \A a \in Agents : held'[a] # "exclusive"
  BY <1>4, <1>9
<1> QED
  BY <1>1, <1>3, <1>4, <1>7, <1>8, <1>11, <1>12, <1>14, <1>16, <1>17, <1>18, Finish

LEMMA JoinInv ==
    ASSUME ResourceInv, NEW t \in Agents, pc[t] \in {"idle", "retry"}, held[t] = "none",
           ActiveEntries # 0, ~Exclusive, NEW i \in DOMAIN Owner, Owner[i].OwnerThread = NULL,
           Join(t, i)
    PROVE  ResourceInv'
<1>1. /\ TypeOK /\ OneReleaser /\ TableOK(Owner, Recorded) /\ TableShape /\ 0 \in DOMAIN Owner
  BY EntriesAre DEF ResourceInv, TableShape
<1>2. /\ pc' \in [Agents -> Labels] /\ OthersKeep(t, pc, pc') /\ pc'[t] = "idle"
      /\ frame' \in [Agents -> Frames] /\ OthersKeep(t, frame, frame')
  BY <1>1, ReturnDoes DEF Join
<1>3. held' \in [Agents -> Modes] /\ OthersKeep(t, held, held') /\ held'[t] = "shared"
  BY <1>1, SetHeldDoes DEF Join, Modes
<1>4. Moves(t)
  BY <1>2, <1>3 DEF Moves
<1>5. /\ UNCHANGED <<Exclusive, ActiveCount, NumberOfSharedWaiters, NumberOfExclusiveWaiters,
                     SharedWaiters, ExclusiveWaiters, TableSize, crashed>>
      /\ ActiveEntries' = ActiveEntries + 1
  BY DEF Join, waiters, objects
<1>6. EntryIs(Owner, Owner', i, t, 1) /\ \A j \in DOMAIN Owner' : Owner'[j] \in Entries
  BY <1>1, SetEntry DEF Join
<1>7. TableShape' /\ 0 \in DOMAIN Owner' /\ (Unlimited' <=> Unlimited)
  BY <1>1, <1>5, <1>6, ShapeKept DEF EntryIs
<1>8. TypeOK'
  BY <1>1, <1>2, <1>3, <1>5, <1>6, <1>7, Typed DEF TypeOK
<1> DEFINE h == Many(held, Owns)
           sg == Granted(SharedWaiters, pc, frame)
           eg == GrantedExclusive(ExclusiveWaiters, pc)
           ws == Many(pc, SharedWaits)
           we == Many(pc, {"waitExclusive"})
<1>9. Balance(Exclusive, ActiveEntries, ActiveCount, NumberOfSharedWaiters,
              NumberOfExclusiveWaiters, h, sg, eg, ws, we)
  BY Facts
<1>10. /\ h \in Nat /\ sg \in Nat /\ eg \in Nat /\ ws \in Nat /\ we \in Nat /\ ActiveEntries \in Nat
       /\ NumberOfSharedWaiters \in Nat /\ NumberOfExclusiveWaiters \in Nat
  BY <1>1, Numbers
<1> HIDE DEF h, sg, eg, ws, we
<1>11. /\ Many(held', Owns) = h + 1 /\ Granted(SharedWaiters', pc', frame') = sg
       /\ GrantedExclusive(ExclusiveWaiters', pc') = eg
       /\ Many(pc', SharedWaits) = ws /\ Many(pc', {"waitExclusive"}) = we /\ OneReleaser'
  BY <1>1, <1>2, <1>3, <1>4, <1>5, <1>8, CountsMoved, GrantsMoved DEF SharedWaits, h, sg, eg, ws, we
<1>12. Balance(Exclusive', ActiveEntries', ActiveCount', NumberOfSharedWaiters',
               NumberOfExclusiveWaiters', Many(held', Owns),
               Granted(SharedWaiters', pc', frame'), GrantedExclusive(ExclusiveWaiters', pc'),
               Many(pc', SharedWaits), Many(pc', {"waitExclusive"}))
  BY <1>5, <1>9, <1>10, <1>11 DEF Balance
<1>13. ExclusiveGrants' = 0 /\ eg = 0
  BY <1>8, <1>11, GrantsAreNext, SharedFacts DEF eg
<1>14. \A a \in Agents : held'[a] # "exclusive" /\ pc'[a] # "setOwner"
  BY <1>2, <1>3, SharedFacts DEF OthersKeep
<1>15. ~HasEntry(t) /\ HasEntry(t)'
  BY <1>2, <1>3 DEF HasEntry, Claiming
<1>16. TableOK(Owner', Recorded')
  <2>1. t \notin Recorded
    BY <1>15 DEF Recorded
  <2>2. TableOK(Owner', Recorded \cup {t})
    BY <1>1, <1>6, <2>1, EntryTaken
  <2>3. Recorded' = Recorded \cup {t}
    BY <1>4, <1>15, SharedFacts, RecordedStep
  <2> QED
    BY <2>2, <2>3
<1>17. FirstEntry'
  <2>1. Owner'[0].OwnerThread \in {Owner[0].OwnerThread, t} /\ t # GRANTED
    BY <1>1, <1>6, NameAssumption DEF EntryIs
  <2>2. \A a \in Agents : pc'[a] = "waitShared" => a # t /\ pc[a] = "waitShared"
    BY <1>2 DEF OthersKeep
  <2> QED
    BY <1>5, <1>13, <1>14, <2>1, <2>2, SharedFacts, FirstShared
<1>18. PlaceOK(t)'
  BY <1>2 DEF PlaceOK
<1> QED
  BY <1>4, <1>5, <1>7, <1>8, <1>11, <1>12, <1>14, <1>16, <1>17, <1>18, Finish

LEMMA WaitForSemaphoreInv ==
    ASSUME ResourceInv, NEW t \in Threads, WaitForSemaphore(t)
    PROVE  ResourceInv'
<1>1. /\ TypeOK /\ OneReleaser /\ TableOK(Owner, Recorded) /\ Places
      /\ t \in Agents /\ t \notin Pointers
  BY EntriesAre, NameAssumption DEF ResourceInv, Agents
<1>2. pc[t] \in SharedWaits /\ held[t] = "none" /\ SharedWaiters # NULL /\ SharedWaiters > 0
  BY <1>1 DEF WaitForSemaphore, Places, SharedWaits
<1>3. /\ pc' \in [Agents -> Labels] /\ OthersKeep(t, pc, pc')
      /\ pc'[t] = IF pc[t] = "waitShared" THEN "idle" ELSE "claim"
      /\ frame' \in [Agents -> Frames] /\ OthersKeep(t, frame, frame')
  <2>1. CASE pc[t] = "waitShared"
    BY <1>1, <2>1, ReturnDoes DEF WaitForSemaphore
  <2>2. CASE pc[t] # "waitShared"
    BY <1>1, <2>2, GotoDoes DEF WaitForSemaphore, Labels
  <2> QED
    BY <2>1, <2>2
<1>4. held' \in [Agents -> Modes] /\ OthersKeep(t, held, held') /\ held'[t] = "shared"
  BY <1>1, SetHeldDoes DEF WaitForSemaphore, Modes
<1>5. Moves(t)
  BY <1>3, <1>4 DEF Moves
<1>6. /\ UNCHANGED <<Exclusive, ActiveCount, ActiveEntries, NumberOfSharedWaiters,
                     NumberOfExclusiveWaiters, ExclusiveWaiters, Owner, TableSize, crashed>>
      /\ UNCHANGED table
      /\ SharedWaiters' = SharedWaiters - 1
  BY DEF WaitForSemaphore, counts, waiters, table
<1>7. SharedWaiters' \in Nat /\ SharedWaiters \in Nat /\ SharedWaiters' # NULL
  BY <1>1, <1>2, <1>6, NameAssumption DEF TypeOK
<1>8. TypeOK'
  BY <1>1, <1>3, <1>4, <1>6, <1>7, SameTable, Typed DEF TypeOK
<1> DEFINE h == Many(held, Owns)
           sg == Granted(SharedWaiters, pc, frame)
           eg == GrantedExclusive(ExclusiveWaiters, pc)
           ws == Many(pc, SharedWaits)
           we == Many(pc, {"waitExclusive"})
           hands == Cardinality(Hands(Where(pc, {"releaseSemaphore"}), frame))
<1>9. Balance(Exclusive, ActiveEntries, ActiveCount, NumberOfSharedWaiters,
              NumberOfExclusiveWaiters, h, sg, eg, ws, we)
  BY Facts
<1>10. /\ h \in Nat /\ sg \in Nat /\ eg \in Nat /\ ws \in Nat /\ we \in Nat /\ ActiveEntries \in Nat
       /\ NumberOfSharedWaiters \in Nat /\ NumberOfExclusiveWaiters \in Nat /\ hands \in Nat
  BY <1>1, Numbers
<1>11. sg = SharedWaiters + hands
  BY <1>2 DEF Granted
<1> HIDE DEF h, sg, eg, ws, we
<1>12. Granted(SharedWaiters', pc', frame') = sg - 1
  <2>1. Cardinality(Hands(Where(pc', {"releaseSemaphore"}), frame')) = hands
    BY <1>1, <1>2, <1>3, <1>5, HandsSame DEF SharedWaits
  <2>2. Granted(SharedWaiters', pc', frame') = SharedWaiters' + hands
    BY <1>7, <2>1 DEF Granted
  <2> HIDE DEF hands
  <2> QED
    BY <1>6, <1>7, <1>10, <1>11, <2>2
<1>13. /\ Many(held', Owns) = h + 1
       /\ GrantedExclusive(ExclusiveWaiters', pc') = eg
       /\ Many(pc', SharedWaits) = ws - 1 /\ Many(pc', {"waitExclusive"}) = we /\ OneReleaser'
  BY <1>1, <1>2, <1>3, <1>4, <1>5, <1>6, <1>8, CountsMoved, HandsSame DEF SharedWaits, h, sg, eg, ws, we
<1> HIDE DEF hands
<1>14. ~Exclusive
  BY <1>2, <1>7, <1>9, <1>10, <1>11 DEF Balance
<1>15. Balance(Exclusive', ActiveEntries', ActiveCount', NumberOfSharedWaiters',
               NumberOfExclusiveWaiters', Many(held', Owns),
               Granted(SharedWaiters', pc', frame'), GrantedExclusive(ExclusiveWaiters', pc'),
               Many(pc', SharedWaits), Many(pc', {"waitExclusive"}))
  BY <1>6, <1>9, <1>10, <1>12, <1>13, <1>14 DEF Balance
<1>16. ExclusiveGrants' = 0 /\ eg = 0
  BY <1>8, <1>13, <1>14, GrantsAreNext, SharedFacts DEF eg
<1>17. \A a \in Agents : held'[a] # "exclusive" /\ pc'[a] # "setOwner"
  BY <1>3, <1>4, <1>14, SharedFacts DEF OthersKeep
<1>18. HasEntry(t)' <=> HasEntry(t)
  BY <1>2, <1>3, <1>4 DEF HasEntry, Claiming, SharedWaits
<1>19. TableOK(Owner', Recorded')
  <2>1. /\ HasEntry(t)' => Recorded' = Recorded \cup {t}
        /\ ~HasEntry(t)' => Recorded' = Recorded \ {t}
    BY <1>1, <1>5, <1>6, RecordedStep
  <2>2. Recorded' = Recorded
    BY <1>1, <1>18, <2>1 DEF Recorded
  <2> QED
    BY <1>1, <1>6, <2>2
<1>20. FirstEntry'
  <2>1. \A a \in Agents : pc'[a] = "waitShared" => pc[a] = "waitShared"
    BY <1>3 DEF OthersKeep
  <2> QED
    BY <1>6, <1>14, <1>16, <1>17, <2>1, SharedFacts, FirstShared
<1>21. PlaceOK(t)'
  BY <1>1, <1>3, <1>4 DEF PlaceOK
<1> QED
  BY <1>1, <1>5, <1>6, <1>7, <1>8, <1>13, <1>15, <1>17, <1>19, <1>20, <1>21, SameTable, Finish

LEMMA ClaimInv ==
    ASSUME ResourceInv, NEW t \in Threads, pc[t] = "claim",
           NEW i \in DOMAIN Owner, i # 0, Owner[i].OwnerThread = NULL,
           Owner' = [Owner EXCEPT ![i] = [OwnerThread |-> t, OwnerCount |-> 1]], Return(t),
           UNCHANGED <<counts, waiters, TableSize, objects, crashed, held>>
    PROVE  ResourceInv'
<1>1. /\ TypeOK /\ OneReleaser /\ TableOK(Owner, Recorded) /\ TableShape /\ 0 \in DOMAIN Owner
      /\ t \in Agents /\ Places
  BY EntriesAre DEF ResourceInv, TableShape, Agents
<1>2. /\ pc' \in [Agents -> Labels] /\ OthersKeep(t, pc, pc') /\ pc'[t] = "idle"
      /\ frame' \in [Agents -> Frames] /\ OthersKeep(t, frame, frame')
  BY <1>1, ReturnDoes
<1>3. /\ UNCHANGED <<Exclusive, ActiveCount, ActiveEntries, NumberOfSharedWaiters,
                     NumberOfExclusiveWaiters, SharedWaiters, ExclusiveWaiters, TableSize, crashed, held>>
      /\ UNCHANGED <<counts, waiters, held>>
  BY DEF counts, waiters, objects
<1>4. Moves(t)
  BY <1>2, <1>3 DEF Moves, OthersKeep
<1>5. EntryIs(Owner, Owner', i, t, 1) /\ \A j \in DOMAIN Owner' : Owner'[j] \in Entries
  BY <1>1, SetEntry
<1>6. TableShape' /\ 0 \in DOMAIN Owner' /\ (Unlimited' <=> Unlimited)
  BY <1>1, <1>3, <1>5, ShapeKept DEF EntryIs
<1>7. TypeOK'
  BY <1>1, <1>2, <1>3, <1>5, <1>6, Typed DEF TypeOK, Modes
<1>8. GrantsCounted' /\ OneReleaser' /\ ExclusiveGrants' = ExclusiveGrants
  BY <1>1, <1>2, <1>3, <1>7, CalmCounts DEF Calm
<1>9. ~HasEntry(t) /\ HasEntry(t)'
  BY <1>1, <1>2, <1>3 DEF HasEntry, Claiming, Places
<1>10. Owner'[0] = Owner[0]
  BY <1>1, <1>5 DEF EntryIs
<1>11. TableOK(Owner', Recorded')
  <2>1. t \notin Recorded
    BY <1>9 DEF Recorded
  <2>2. TableOK(Owner', Recorded \cup {t})
    BY <1>1, <1>5, <2>1, EntryTaken
  <2>3. Recorded' = Recorded \cup {t}
    BY <1>1, <1>4, <1>9, <1>10, RecordedStep
  <2> QED
    BY <2>2, <2>3
<1>12. FirstEntry'
  BY <1>1, <1>2, <1>3, <1>4, <1>8, <1>10, FirstKept
<1>13. EntriesInUse'
  BY <1>11, <1>12, EntriesAreNext
<1>14. PlaceOK(t)'
  BY <1>2 DEF PlaceOK
<1>15. Places'
  BY <1>1, <1>3, <1>4, <1>6, <1>14, PlacesStep
<1> QED
  BY <1>6, <1>7, <1>8, <1>13, <1>15 DEF ResourceInv

LEMMA WaitForEventInv ==
    ASSUME ResourceInv, NEW t \in Threads, WaitForEvent(t)
    PROVE  ResourceInv'
<1>1. /\ TypeOK /\ OneReleaser /\ TableOK(Owner, Recorded) /\ Places /\ EntriesInUse
      /\ t \in Agents /\ t \notin Pointers
  BY EntriesAre, NameAssumption DEF ResourceInv, Agents
<1>2. pc[t] = "waitExclusive" /\ held[t] = "none"
  BY <1>1 DEF WaitForEvent, Places
<1>3. IsSet(ExclusiveWaiters) /\ ~IsSet(ExclusiveWaiters')
  BY Zenon DEF WaitForEvent, IsSet
<1>4. ExclusiveWaiters' \in BOOLEAN \cup {NULL}
  BY Zenon DEF WaitForEvent
<1>5. /\ pc' \in [Agents -> Labels] /\ OthersKeep(t, pc, pc') /\ pc'[t] = "setOwner"
      /\ frame' \in [Agents -> Frames] /\ OthersKeep(t, frame, frame')
  BY <1>1, GotoDoes DEF WaitForEvent, Labels
<1>6. held' \in [Agents -> Modes] /\ OthersKeep(t, held, held') /\ held'[t] = "exclusive"
  BY <1>1, SetHeldDoes DEF WaitForEvent, Modes
<1>7. Moves(t)
  BY <1>5, <1>6 DEF Moves
<1>8. /\ UNCHANGED <<Exclusive, ActiveCount, ActiveEntries, NumberOfSharedWaiters,
                     NumberOfExclusiveWaiters, SharedWaiters, Owner, TableSize, crashed>>
      /\ UNCHANGED table
  BY DEF WaitForEvent, counts, waiters, table
<1>9. TypeOK'
  <2>1. /\ Exclusive' \in BOOLEAN /\ ActiveCount' \in Nat /\ ActiveEntries' \in Nat
        /\ NumberOfSharedWaiters' \in Nat /\ NumberOfExclusiveWaiters' \in Nat
        /\ SharedWaiters' \in Nat \cup {NULL} /\ crashed' \in BOOLEAN
    BY <1>1, <1>8 DEF TypeOK
  <2> QED
    BY <1>4, <1>5, <1>6, <1>8, <2>1, SameTable, Typed
<1> DEFINE h == Many(held, Owns)
           sg == Granted(SharedWaiters, pc, frame)
           eg == GrantedExclusive(ExclusiveWaiters, pc)
           ws == Many(pc, SharedWaits)
           we == Many(pc, {"waitExclusive"})
           se == Many(pc, {"setEvent"})
<1>10. /\ Balance(Exclusive, ActiveEntries, ActiveCount, NumberOfSharedWaiters,
                  NumberOfExclusiveWaiters, h, sg, eg, ws, we)
       /\ ExclusiveGrants = eg /\ (h = 0 <=> \A a \in Agents : held[a] = "none")
  BY Facts
<1>11. /\ h \in Nat /\ sg \in Nat /\ eg \in Nat /\ ws \in Nat /\ we \in Nat /\ ActiveEntries \in Nat
       /\ NumberOfSharedWaiters \in Nat /\ NumberOfExclusiveWaiters \in Nat /\ se \in Nat
  BY <1>1, Numbers
<1>12. eg = 1 + se
  BY <1>3 DEF GrantedExclusive
<1>13. GrantedExclusive(ExclusiveWaiters', pc') = se
  <2>1. Many(pc', {"setEvent"}) = se
    BY <1>1, <1>2, <1>5, Moved
  <2>2. GrantedExclusive(ExclusiveWaiters', pc') = 0 + Many(pc', {"setEvent"})
    BY <1>3 DEF GrantedExclusive
  <2> HIDE DEF se
  <2> QED
    BY <1>11, <2>1, <2>2
<1> HIDE DEF h, sg, eg, ws, we, se
<1>14. /\ Many(held', Owns) = h + 1 /\ Granted(SharedWaiters', pc', frame') = sg
       /\ Many(pc', SharedWaits) = ws /\ Many(pc', {"waitExclusive"}) = we - 1 /\ OneReleaser'
  BY <1>1, <1>2, <1>5, <1>6, <1>7, <1>8, <1>9, CountsMoved, GrantsMoved DEF SharedWaits, h, sg, eg, ws, we
<1>15. Exclusive /\ eg = 1 /\ se = 0 /\ h = 0
  BY <1>10, <1>11, <1>12 DEF Balance
<1>16. Balance(Exclusive', ActiveEntries', ActiveCount', NumberOfSharedWaiters',
               NumberOfExclusiveWaiters', Many(held', Owns),
               Granted(SharedWaiters', pc', frame'), GrantedExclusive(ExclusiveWaiters', pc'),
               Many(pc', SharedWaits), Many(pc', {"waitExclusive"}))
  BY <1>8, <1>10, <1>11, <1>12, <1>13, <1>14, <1>15 DEF Balance
<1>17. ExclusiveGrants' = 0
  BY <1>9, <1>13, <1>15, GrantsAreNext
<1>18. \A a \in Agents : held'[a] # "none" => a = t
  BY <1>6, <1>10, <1>15 DEF OthersKeep
<1>19. Owner[0].OwnerThread = GRANTED
  BY <1>1, <1>10, <1>15 DEF EntriesInUse
<1>20. t # GRANTED
  BY <1>1, NameAssumption
<1>21. ~HasEntry(t) /\ ~HasEntry(t)'
  BY <1>2, <1>5, <1>8, <1>19, <1>20 DEF HasEntry
<1>22. TableOK(Owner', Recorded')
  <2>1. Recorded' = Recorded \ {t}
    BY <1>1, <1>7, <1>8, <1>21, RecordedStep
  <2>2. Recorded' = Recorded
    BY <1>21, <2>1 DEF Recorded
  <2> QED
    BY <1>1, <1>8, <2>2
<1>23. FirstEntry'
  <2>1. t \in At({"setOwner"})'
    BY <1>1, <1>5 DEF At
  <2>2. \A a \in Agents : held'[a] = "exclusive" => a = t
    BY <1>18
  <2>3. (\A a \in At({"waitShared"}) : Owner[0].OwnerThread # a)'
    BY <1>8, <1>19, NameAssumption DEF At
  <2>4. (Exclusive => \A a \in Holders : held[a] = "exclusive")'
    BY <1>6, <1>18 DEF Holders
  <2> QED
    BY <1>5, <1>8, <1>19, <1>20, <2>1, <2>2, <2>3, <2>4 DEF FirstEntry
<1>24. PlaceOK(t)'
  BY <1>1, <1>5, <1>6 DEF PlaceOK
<1> QED
  BY <1>1, <1>7, <1>8, <1>9, <1>14, <1>15, <1>16, <1>22, <1>23, <1>24, SameTable, Finish

LEMMA SetOwnerInv ==
    ASSUME ResourceInv, NEW t \in Threads, SetOwner(t)
    PROVE  ResourceInv'
<1>1. /\ TypeOK /\ OneReleaser /\ TableOK(Owner, Recorded) /\ TableShape /\ 0 \in DOMAIN Owner
      /\ t \in Agents /\ Places /\ EntriesInUse /\ t # GRANTED /\ t # NULL /\ NULL # GRANTED
  BY EntriesAre, NameAssumption DEF ResourceInv, TableShape, Agents
<1>2. pc[t] = "setOwner" /\ held[t] = "exclusive"
  BY <1>1 DEF SetOwner, Places
<1>3. /\ pc' \in [Agents -> Labels] /\ OthersKeep(t, pc, pc') /\ pc'[t] = "idle"
      /\ frame' \in [Agents -> Frames] /\ OthersKeep(t, frame, frame')
  BY <1>1, ReturnDoes DEF SetOwner
<1>4. /\ UNCHANGED <<Exclusive, ActiveCount, ActiveEntries, NumberOfSharedWaiters,
                     NumberOfExclusiveWaiters, SharedWaiters, ExclusiveWaiters, TableSize, crashed, held>>
  BY DEF SetOwner, counts, waiters, objects
<1>5. Moves(t)
  BY <1>3, <1>4 DEF Moves, OthersKeep
<1>6. /\ EntryIs(Owner, Owner', 0, t, Owner[0].OwnerCount) /\ Owner[0].OwnerCount \in Nat
      /\ \A j \in DOMAIN Owner' : Owner'[j] \in Entries
  BY <1>1, SetThread DEF SetOwner
<1>7. TableShape' /\ 0 \in DOMAIN Owner' /\ (Unlimited' <=> Unlimited)
  BY <1>1, <1>4, <1>6, ShapeKept DEF EntryIs
<1>8. TypeOK'
  BY <1>1, <1>3, <1>4, <1>6, <1>7, Typed DEF TypeOK, Modes
<1> DEFINE h == Many(held, Owns)
           sg == Granted(SharedWaiters, pc, frame)
           eg == GrantedExclusive(ExclusiveWaiters, pc)
           ws == Many(pc, SharedWaits)
           we == Many(pc, {"waitExclusive"})
<1>9. /\ Balance(Exclusive, ActiveEntries, ActiveCount, NumberOfSharedWaiters,
                 NumberOfExclusiveWaiters, h, sg, eg, ws, we)
      /\ Exclusive
      /\ \A a \in Agents : held[a] # "none" => a = t
      /\ h # 0
  BY <1>1, <1>2, Facts
<1>10. /\ h \in Nat /\ sg \in Nat /\ eg \in Nat /\ ws \in Nat /\ we \in Nat /\ ActiveEntries \in Nat
       /\ NumberOfSharedWaiters \in Nat /\ NumberOfExclusiveWaiters \in Nat
  BY <1>1, Numbers
<1> HIDE DEF h, sg, eg, ws, we
<1>11. /\ Many(held', Owns) = h /\ Granted(SharedWaiters', pc', frame') = sg
       /\ GrantedExclusive(ExclusiveWaiters', pc') = eg
       /\ Many(pc', SharedWaits) = ws /\ Many(pc', {"waitExclusive"}) = we /\ OneReleaser'
  BY <1>1, <1>2, <1>3, <1>4, <1>5, <1>8, CountsMoved, GrantsMoved DEF SharedWaits, h, sg, eg, ws, we
<1>12. Balance(Exclusive', ActiveEntries', ActiveCount', NumberOfSharedWaiters',
               NumberOfExclusiveWaiters', Many(held', Owns),
               Granted(SharedWaiters', pc', frame'), GrantedExclusive(ExclusiveWaiters', pc'),
               Many(pc', SharedWaits), Many(pc', {"waitExclusive"}))
  BY <1>4, <1>9, <1>11
<1>13. eg = 0
  BY <1>9, <1>10 DEF Balance
<1>14. ExclusiveGrants' = 0
  BY <1>8, <1>11, <1>13, GrantsAreNext
<1>15. Owner[0].OwnerThread = t \/ Owner[0].OwnerThread = GRANTED
  BY <1>1, <1>2 DEF EntriesInUse
<1>16. Owner[0].OwnerCount \in Nat \ {0}
  BY <1>1, <1>6, <1>15 DEF EntriesInUse
<1>17. \A a \in Agents : a # t => pc[a] # "setOwner" /\ pc'[a] # "setOwner" /\ pc'[a] = pc[a]
  BY <1>1, <1>3, <1>9 DEF Places, OthersKeep
<1>18. HasEntry(t)'
  BY <1>2, <1>3, <1>4 DEF HasEntry, Claiming
<1>19. TableOK(Owner', Recorded')
  <2>1. Recorded' = Recorded \cup {t}
    BY <1>1, <1>5, <1>17, <1>18, RecordedStep
  <2>2. HasEntry(t) <=> Owner[0].OwnerThread = t
    BY <1>2 DEF HasEntry
  <2>3. CASE Owner[0].OwnerThread = t
    <3>1. Recorded \cup {t} = Recorded
      BY <1>1, <2>2, <2>3 DEF Recorded
    <3>2. TableOK(Owner', Recorded)
      BY <1>1, <1>6, <1>16, <2>3, EntryRecounted
    <3> QED
      BY <2>1, <3>1, <3>2
  <2>4. CASE Owner[0].OwnerThread = GRANTED
    <3>1. t \notin Recorded
      BY <1>1, <2>2, <2>4 DEF Recorded
    <3> QED
      BY <1>1, <1>6, <1>16, <2>1, <2>4, <3>1, EntryTaken
  <2> QED
    BY <1>15, <2>3, <2>4
<1>20. FirstEntry'
  <2>1. Owner'[0].OwnerThread = t
    BY <1>6 DEF EntryIs
  <2>2. \A a \in Agents : pc'[a] # "setOwner"
    BY <1>3, <1>17
  <2>3. (\A a \in At({"waitShared"}) : Owner[0].OwnerThread # a)'
    BY <1>3, <2>1 DEF At
  <2>4. (Exclusive => \A a \in Holders : held[a] = "exclusive")'
    BY <1>2, <1>4, <1>9 DEF Holders
  <2>5. \A a \in Agents : held'[a] = "exclusive" => a = t
    BY <1>4, <1>9
  <2> QED
    BY <1>1, <1>14, <2>1, <2>2, <2>3, <2>4, <2>5 DEF FirstEntry, At
<1>21. PlaceOK(t)'
  BY <1>3 DEF PlaceOK
<1> QED
  BY <1>1, <1>4, <1>5, <1>7, <1>8, <1>9, <1>11, <1>12, <1>19, <1>20, <1>21, Finish

-----------------------------------------------------------------------------
(* The steps that give the resource back, or on.                           *)

LEMMA KeReleaseSemaphoreInv ==
    ASSUME ResourceInv, NEW a \in Agents, KeReleaseSemaphore(a)
    PROVE  ResourceInv'
<1>1. /\ TypeOK /\ OneReleaser /\ TableOK(Owner, Recorded) /\ Places
  BY EntriesAre DEF ResourceInv
<1>2. pc[a] = "releaseSemaphore" /\ SharedWaiters \in Nat /\ SharedWaiters # NULL /\ frame[a].Count \in Nat
  BY <1>1 DEF KeReleaseSemaphore, Places, TypeOK
<1>3. /\ pc' \in [Agents -> Labels] /\ OthersKeep(a, pc, pc') /\ pc'[a] = "idle"
      /\ frame' \in [Agents -> Frames] /\ OthersKeep(a, frame, frame')
  BY <1>1, ReturnDoes DEF KeReleaseSemaphore
<1>4. /\ UNCHANGED <<Exclusive, ActiveCount, ActiveEntries, NumberOfSharedWaiters,
                     NumberOfExclusiveWaiters, ExclusiveWaiters, Owner, TableSize, crashed, held>>
      /\ UNCHANGED table
      /\ SharedWaiters' = SharedWaiters + frame[a].Count
  BY DEF KeReleaseSemaphore, counts, waiters, table
<1>5. Moves(a)
  BY <1>3, <1>4 DEF Moves, OthersKeep
<1>6. SharedWaiters' \in Nat /\ SharedWaiters' # NULL
  BY <1>2, <1>4, NameAssumption
<1>7. TypeOK'
  BY <1>1, <1>3, <1>4, <1>6, SameTable, Typed DEF TypeOK, Modes
<1>8. \A b \in Agents : pc'[b] # "releaseSemaphore"
  BY <1>1, <1>2, <1>3 DEF OneReleaser, At, OthersKeep
<1>9. OneReleaser'
  BY <1>8 DEF OneReleaser, At
<1>10. Granted(SharedWaiters', pc', frame') = Granted(SharedWaiters, pc, frame)
  <2>1. Cardinality(Hands(Where(pc, {"releaseSemaphore"}), frame)) = frame[a].Count
    <3>1. \A c, b \in Where(pc, {"releaseSemaphore"}) : c = b
      BY <1>1 DEF OneReleaser, At, Where
    <3>2. \A b \in Agents : frame[b].Count \in Nat
      BY <1>1 DEF TypeOK
    <3> QED
      BY <1>2, <3>1, <3>2, HandsAre
  <2>2. Where(pc', {"releaseSemaphore"}) = {}
    BY <1>8 DEF Where
  <2>3. Cardinality(Hands(Where(pc', {"releaseSemaphore"}), frame')) = 0
    BY <2>2, HandsEmpty
  <2> QED
    BY <1>2, <1>4, <1>6, <2>1, <2>3 DEF Granted
<1>11. /\ Balance(Exclusive, ActiveEntries, ActiveCount, NumberOfSharedWaiters,
                  NumberOfExclusiveWaiters, Many(held, Owns), Granted(SharedWaiters, pc, frame),
                  GrantedExclusive(ExclusiveWaiters, pc), Many(pc, SharedWaits),
                  Many(pc, {"waitExclusive"}))
       /\ ExclusiveGrants = GrantedExclusive(ExclusiveWaiters, pc)
       /\ \A b \in Agents : held[b] = "exclusive" => Exclusive
  BY Facts
<1>12. /\ GrantedExclusive(ExclusiveWaiters', pc') = GrantedExclusive(ExclusiveWaiters, pc)
       /\ Many(pc', SharedWaits) = Many(pc, SharedWaits)
       /\ Many(pc', {"waitExclusive"}) = Many(pc, {"waitExclusive"})
  BY <1>2, <1>3, <1>4, <1>5, <1>7, CountsMoved DEF SharedWaits
<1>13. Balance(Exclusive', ActiveEntries', ActiveCount', NumberOfSharedWaiters',
               NumberOfExclusiveWaiters', Many(held', Owns),
               Granted(SharedWaiters', pc', frame'), GrantedExclusive(ExclusiveWaiters', pc'),
               Many(pc', SharedWaits), Many(pc', {"waitExclusive"}))
  BY <1>4, <1>10, <1>11, <1>12
<1>14. ExclusiveGrants' = ExclusiveGrants
  BY <1>7, <1>11, <1>12, GrantsAreNext
<1>15. HasEntry(a)' <=> HasEntry(a)
  BY <1>2, <1>3, <1>4 DEF HasEntry, Claiming
<1>16. TableOK(Owner', Recorded')
  <2>1. /\ HasEntry(a)' => Recorded' = Recorded \cup {a}
        /\ ~HasEntry(a)' => Recorded' = Recorded \ {a}
    BY <1>4, <1>5, RecordedStep
  <2>2. Recorded' = Recorded
    BY <1>15, <2>1 DEF Recorded
  <2> QED
    BY <1>1, <1>4, <2>2
<1>17. FirstEntry'
  BY <1>2, <1>3, <1>4, <1>5, <1>14, FirstKept
<1>18. PlaceOK(a)'
  BY <1>3 DEF PlaceOK
<1>19. ~Exclusive' => \A b \in Agents : held'[b] # "exclusive"
  BY <1>4, <1>11
<1> QED
  BY <1>4, <1>5, <1>6, <1>7, <1>9, <1>13, <1>16, <1>17, <1>18, <1>19, SameTable, Finish

(* The event is set while nobody waits for it.                             *)
LEMMA EventSetInv ==
    ASSUME ResourceInv, NEW a \in Agents, pc[a] = "setEvent", ExclusiveWaiters' = TRUE, Return(a),
           UNCHANGED <<Owner, held>>, UNCHANGED <<counts, waiters, TableSize, SharedWaiters, crashed>>
    PROVE  ResourceInv'
<1>1. /\ TypeOK /\ OneReleaser /\ TableOK(Owner, Recorded) /\ Places
  BY EntriesAre DEF ResourceInv
<1>2. /\ pc' \in [Agents -> Labels] /\ OthersKeep(a, pc, pc') /\ pc'[a] = "idle"
      /\ frame' \in [Agents -> Frames] /\ OthersKeep(a, frame, frame')
  BY <1>1, ReturnDoes
<1>3. /\ UNCHANGED <<Exclusive, ActiveCount, ActiveEntries, NumberOfSharedWaiters,
                     NumberOfExclusiveWaiters, SharedWaiters, Owner, TableSize, crashed, held>>
      /\ UNCHANGED table
  BY DEF counts, waiters, table
<1>4. Moves(a)
  BY <1>2, <1>3 DEF Moves, OthersKeep
<1>5. ExclusiveWaiters' \in BOOLEAN \cup {NULL} /\ IsSet(ExclusiveWaiters')
  BY Zenon DEF IsSet
<1>6. TypeOK'
  <2>1. /\ Exclusive' \in BOOLEAN /\ ActiveCount' \in Nat /\ ActiveEntries' \in Nat
        /\ NumberOfSharedWaiters' \in Nat /\ NumberOfExclusiveWaiters' \in Nat
        /\ SharedWaiters' \in Nat \cup {NULL} /\ crashed' \in BOOLEAN /\ held' \in [Agents -> Modes]
    BY <1>1, <1>3 DEF TypeOK, Modes
  <2> QED
    BY <1>2, <1>3, <1>5, <2>1, SameTable, Typed
<1> DEFINE h == Many(held, Owns)
           sg == Granted(SharedWaiters, pc, frame)
           eg == GrantedExclusive(ExclusiveWaiters, pc)
           ws == Many(pc, SharedWaits)
           we == Many(pc, {"waitExclusive"})
           se == Many(pc, {"setEvent"})
<1>7. /\ Balance(Exclusive, ActiveEntries, ActiveCount, NumberOfSharedWaiters,
                  NumberOfExclusiveWaiters, h, sg, eg, ws, we)
      /\ ExclusiveGrants = eg /\ \A b \in Agents : held[b] = "exclusive" => Exclusive
  BY Facts
<1>8. /\ h \in Nat /\ sg \in Nat /\ eg \in Nat /\ ws \in Nat /\ we \in Nat /\ ActiveEntries \in Nat
      /\ NumberOfSharedWaiters \in Nat /\ NumberOfExclusiveWaiters \in Nat /\ se \in Nat
  BY <1>1, Numbers
<1>9. eg = (IF IsSet(ExclusiveWaiters) THEN 1 ELSE 0) + se
  BY DEF GrantedExclusive
<1>10. se # 0
  BY ManyType
<1>11. GrantedExclusive(ExclusiveWaiters', pc') = 1 + (se - 1)
  <2>1. Many(pc', {"setEvent"}) = se - 1
    BY <1>2, Moved
  <2> QED
    BY <1>5, <2>1 DEF GrantedExclusive
<1> HIDE DEF h, sg, eg, ws, we, se
<1>12. eg = 1 /\ se = 1
  BY <1>7, <1>8, <1>9, <1>10 DEF Balance
<1>13. GrantedExclusive(ExclusiveWaiters', pc') = eg
  BY <1>11, <1>12
<1>14. /\ Many(held', Owns) = h /\ Granted(SharedWaiters', pc', frame') = sg
       /\ Many(pc', SharedWaits) = ws /\ Many(pc', {"waitExclusive"}) = we /\ OneReleaser'
  BY <1>1, <1>2, <1>3, <1>4, <1>6, CountsMoved, GrantsMoved DEF SharedWaits, h, sg, eg, ws, we
<1>15. Balance(Exclusive', ActiveEntries', ActiveCount', NumberOfSharedWaiters',
               NumberOfExclusiveWaiters', Many(held', Owns),
               Granted(SharedWaiters', pc', frame'), GrantedExclusive(ExclusiveWaiters', pc'),
               Many(pc', SharedWaits), Many(pc', {"waitExclusive"}))
  BY <1>3, <1>7, <1>13, <1>14
<1>16. ExclusiveGrants' = ExclusiveGrants
  BY <1>6, <1>7, <1>13, GrantsAreNext
<1>17. HasEntry(a)' <=> HasEntry(a)
  BY <1>2, <1>3 DEF HasEntry, Claiming
<1>18. TableOK(Owner', Recorded')
  <2>1. /\ HasEntry(a)' => Recorded' = Recorded \cup {a}
        /\ ~HasEntry(a)' => Recorded' = Recorded \ {a}
    BY <1>3, <1>4, RecordedStep
  <2>2. Recorded' = Recorded
    BY <1>17, <2>1 DEF Recorded
  <2> QED
    BY <1>1, <1>3, <2>2
<1>19. FirstEntry'
  BY <1>2, <1>3, <1>4, <1>16, FirstKept
<1>20. PlaceOK(a)'
  BY <1>2 DEF PlaceOK
<1>21. ~Exclusive' => \A b \in Agents : held'[b] # "exclusive"
  BY <1>3, <1>7
<1> QED
  BY <1>3, <1>4, <1>6, <1>14, <1>15, <1>18, <1>19, <1>20, <1>21, SameTable, Finish

(* The same when two agents move.                                          *)
Keep(S) == \A b \in Agents \ S : pc'[b] = pc[b] /\ frame'[b] = frame[b] /\ held'[b] = held[b]

LEMMA PlacesKept ==
    ASSUME ResourceInv, NEW S, Keep(S), Unlimited' => Unlimited,
           SharedWaiters # NULL => SharedWaiters' # NULL, \A b \in Agents : b \in S => PlaceOK(b)'
    PROVE  Places'
<1>1. Places <=> \A a \in Agents : PlaceOK(a)
  BY DEF Places, PlaceOK
<1>2. Places' <=> \A a \in Agents : PlaceOK(a)'
  BY DEF Places, PlaceOK
<1>3. ASSUME NEW a \in Agents, a \notin S PROVE PlaceOK(a)'
  <2>1. pc'[a] = pc[a] /\ frame'[a] = frame[a] /\ held'[a] = held[a]
    BY <1>3 DEF Keep
  <2>2. Claiming(a)' <=> Claiming(a)
    BY <2>1 DEF Claiming
  <2>3. PlaceOK(a)
    BY <1>1 DEF ResourceInv
  <2> QED
    BY <2>1, <2>2, <2>3 DEF PlaceOK
<1> QED
  BY <1>2, <1>3

LEMMA RecordedKept ==
    ASSUME NEW S, Keep(S),
           \A a \in Agents \ S : pc[a] = "setOwner" =>
               (Owner'[0].OwnerThread = a <=> Owner[0].OwnerThread = a)
    PROVE  \A a \in Agents \ S : a \in Recorded' <=> a \in Recorded
<1>1. ASSUME NEW a \in Agents \ S PROVE HasEntry(a)' <=> HasEntry(a)
  <2>1. pc'[a] = pc[a] /\ frame'[a] = frame[a] /\ held'[a] = held[a]
    BY <1>1 DEF Keep
  <2>2. Claiming(a)' <=> Claiming(a)
    BY <2>1 DEF Claiming
  <2> QED
    BY <1>1, <2>1, <2>2 DEF HasEntry
<1> QED
  BY <1>1 DEF Recorded

(* The event wakes a thread that waits for it.                             *)
Wakes(a, t) ==
    /\ Owner' = [Owner EXCEPT ![0].OwnerThread = t]
    /\ pc' = [pc EXCEPT ![a] = "idle", ![t] = "setOwner"]
    /\ frame' = [frame EXCEPT ![a] = NoFrame]
    /\ SetHeld(t, "exclusive")
    /\ UNCHANGED ExclusiveWaiters
    /\ UNCHANGED <<counts, waiters, TableSize, SharedWaiters, crashed>>

LEMMA EventWakesInv ==
    ASSUME ResourceInv, NEW a \in Agents, pc[a] = "setEvent",
           NEW t \in Threads, pc[t] = "waitExclusive", Wakes(a, t)
    PROVE  ResourceInv'
<1>1. /\ TypeOK /\ OneReleaser /\ TableOK(Owner, Recorded) /\ Places /\ TableShape /\ 0 \in DOMAIN Owner
      /\ t \in Agents /\ t \notin Pointers /\ a # t /\ EntriesInUse /\ t # GRANTED
  BY EntriesAre, NameAssumption DEF ResourceInv, TableShape, Agents
<1> DEFINE mid == [pc EXCEPT ![a] = "idle"]
<1>2. /\ pc' \in [Agents -> Labels] /\ pc'[a] = "idle" /\ pc'[t] = "setOwner"
      /\ OthersKeep(a, pc, mid) /\ OthersKeep(t, mid, pc')
      /\ mid[a] = "idle" /\ mid[t] = "waitExclusive"
      /\ \A b \in Agents : b # a /\ b # t => pc'[b] = pc[b]
  BY <1>1 DEF Wakes, TypeOK, Labels, OthersKeep
<1> HIDE DEF mid
<1>3. frame' \in [Agents -> Frames] /\ OthersKeep(a, frame, frame')
  BY <1>1, FrameDoes, NoFrameType DEF Wakes
<1>4. held' \in [Agents -> Modes] /\ OthersKeep(t, held, held') /\ held'[t] = "exclusive"
  BY <1>1, SetHeldDoes DEF Wakes, Modes
<1>5. UNCHANGED <<Exclusive, ActiveCount, ActiveEntries, NumberOfSharedWaiters, NumberOfExclusiveWaiters,
                  SharedWaiters, ExclusiveWaiters, TableSize, crashed>>
  BY DEF Wakes, counts, waiters
<1>6. /\ EntryIs(Owner, Owner', 0, t, Owner[0].OwnerCount) /\ Owner[0].OwnerCount \in Nat
      /\ \A j \in DOMAIN Owner' : Owner'[j] \in Entries
  BY <1>1, SetThread DEF Wakes
<1>7. TableShape' /\ 0 \in DOMAIN Owner' /\ (Unlimited' <=> Unlimited)
  BY <1>1, <1>5, <1>6, ShapeKept DEF EntryIs
<1>8. TypeOK'
  BY <1>1, <1>2, <1>3, <1>4, <1>5, <1>6, <1>7, Typed DEF TypeOK
<1> DEFINE h == Many(held, Owns)
           sg == Granted(SharedWaiters, pc, frame)
           eg == GrantedExclusive(ExclusiveWaiters, pc)
           ws == Many(pc, SharedWaits)
           we == Many(pc, {"waitExclusive"})
           se == Many(pc, {"setEvent"})
<1>9. /\ Balance(Exclusive, ActiveEntries, ActiveCount, NumberOfSharedWaiters,
                 NumberOfExclusiveWaiters, h, sg, eg, ws, we)
      /\ ExclusiveGrants = eg /\ (h = 0 <=> \A b \in Agents : held[b] = "none")
  BY Facts
<1>10. /\ h \in Nat /\ sg \in Nat /\ eg \in Nat /\ ws \in Nat /\ we \in Nat /\ ActiveEntries \in Nat
       /\ NumberOfSharedWaiters \in Nat /\ NumberOfExclusiveWaiters \in Nat /\ se \in Nat
  BY <1>1, Numbers
<1>11. eg = (IF IsSet(ExclusiveWaiters) THEN 1 ELSE 0) + se /\ se # 0
  BY ManyType DEF GrantedExclusive
<1>12. /\ Many(pc', {"setEvent"}) = se - 1 /\ Many(pc', SharedWaits) = ws
       /\ Many(pc', {"waitExclusive"}) = we - 1
  <2>1. /\ Many(mid, {"setEvent"}) = se - 1 /\ Many(mid, SharedWaits) = ws
        /\ Many(mid, {"waitExclusive"}) = we
    BY <1>2, Moved DEF SharedWaits
  <2>2. /\ Many(pc', {"setEvent"}) = Many(mid, {"setEvent"}) /\ Many(pc', SharedWaits) = Many(mid, SharedWaits)
        /\ Many(pc', {"waitExclusive"}) = Many(mid, {"waitExclusive"}) - 1
    BY <1>1, <1>2, Moved DEF SharedWaits
  <2> QED
    BY <2>1, <2>2
<1>13. /\ OneReleaser' /\ Granted(SharedWaiters', pc', frame') = sg
  <2>1. /\ Where(pc', {"releaseSemaphore"}) = Where(pc, {"releaseSemaphore"})
        /\ \A b \in Where(pc, {"releaseSemaphore"}) : frame'[b].Count = frame[b].Count
    BY <1>2, <1>3 DEF Where, OthersKeep
  <2>2. Hands(Where(pc', {"releaseSemaphore"}), frame') = Hands(Where(pc, {"releaseSemaphore"}), frame)
    BY <2>1, HandsKept
  <2> QED
    BY <1>1, <1>5, <2>1, <2>2 DEF OneReleaser, At, Where, Granted
<1>14. GrantedExclusive(ExclusiveWaiters', pc') = (IF IsSet(ExclusiveWaiters) THEN 1 ELSE 0) + (se - 1)
  BY <1>5, <1>12 DEF GrantedExclusive
<1>15. held[t] = "none"
  BY <1>1 DEF Places
<1>16. Many(held', Owns) = h + 1
  BY <1>1, <1>4, <1>15, Moved DEF Owns
<1> HIDE DEF h, sg, eg, ws, we, se
<1>17. Exclusive /\ eg = 1 /\ se = 1 /\ h = 0 /\ ~IsSet(ExclusiveWaiters)
  BY <1>9, <1>10, <1>11 DEF Balance
<1>18. GrantedExclusive(ExclusiveWaiters', pc') = 0
  BY <1>14, <1>17
<1>19. Balance(Exclusive', ActiveEntries', ActiveCount', NumberOfSharedWaiters',
               NumberOfExclusiveWaiters', Many(held', Owns),
               Granted(SharedWaiters', pc', frame'), GrantedExclusive(ExclusiveWaiters', pc'),
               Many(pc', SharedWaits), Many(pc', {"waitExclusive"}))
  BY <1>5, <1>9, <1>10, <1>12, <1>13, <1>16, <1>17, <1>18 DEF Balance
<1>20. GrantsCounted'
  BY <1>5, <1>8, <1>17, <1>19, GrantsAreNext
<1>21. ExclusiveGrants' = 0
  BY <1>8, <1>18, GrantsAreNext
<1>22. \A b \in Agents : held'[b] # "none" => b = t
  BY <1>4, <1>9, <1>17 DEF OthersKeep
<1>23. Owner[0].OwnerThread = GRANTED
  BY <1>1, <1>9, <1>17 DEF EntriesInUse
<1>24. Owner[0].OwnerCount \in Nat \ {0}
  BY <1>1, <1>6, <1>23, NameAssumption DEF EntriesInUse
<1>25. \A b \in Agents : pc[b] # "setOwner" /\ held[b] = "none"
  BY <1>1, <1>9, <1>17 DEF Places
<1>26. Keep({a, t})
  BY <1>2, <1>3, <1>4 DEF Keep, OthersKeep
<1>27. TableOK(Owner', Recorded')
  <2>1. ~HasEntry(t) /\ ~HasEntry(a) /\ HasEntry(t)' /\ ~HasEntry(a)'
    BY <1>1, <1>2, <1>6, <1>22, <1>25 DEF HasEntry, Claiming, EntryIs
  <2>2. \A b \in Agents \ {a, t} : b \in Recorded' <=> b \in Recorded
    BY <1>25, <1>26, RecordedKept
  <2>3. \A b : b \in Recorded' <=> b \in Recorded \cup {t}
    BY <1>1, <2>1, <2>2 DEF Recorded
  <2>4. Recorded' = Recorded \cup {t} /\ t \notin Recorded
    BY <2>1, <2>3 DEF Recorded
  <2> QED
    BY <1>1, <1>6, <1>23, <1>24, <2>4, EntryTaken
<1>28. FirstEntry'
  <2>1. Owner'[0].OwnerThread = t
    BY <1>6 DEF EntryIs
  <2>2. \A b \in Agents : pc'[b] = "setOwner" => b = t
    BY <1>2, <1>25
  <2>3. (\A b \in At({"waitShared"}) : Owner[0].OwnerThread # b)'
    BY <1>2, <2>1 DEF At
  <2>4. (Exclusive => \A b \in Holders : held[b] = "exclusive")'
    BY <1>4, <1>22 DEF Holders
  <2>5. \A b \in Agents : held'[b] = "exclusive" => b = t
    BY <1>22
  <2> QED
    BY <1>1, <1>21, <2>1, <2>2, <2>3, <2>4, <2>5 DEF FirstEntry, At
<1>29. EntriesInUse'
  BY <1>27, <1>28, EntriesAreNext
<1>30. PlaceOK(a)' /\ PlaceOK(t)'
  BY <1>1, <1>2, <1>4 DEF PlaceOK
<1>31. Places'
  BY <1>5, <1>7, <1>26, <1>30, PlacesKept
<1> QED
  BY <1>7, <1>8, <1>13, <1>20, <1>29, <1>31 DEF ResourceInv

(* What the owner of an exclusively owned resource finds.                  *)
LEMMA ExclusiveFacts ==
    ASSUME ResourceInv, Exclusive, NEW a \in Agents, pc[a] = "idle", held[a] # "none"
    PROVE  /\ held[a] = "exclusive" /\ Owner[0].OwnerThread = a /\ ActiveEntries = 1 /\ ActiveCount # 0
           /\ Many(held, Owns) = 1 /\ Granted(SharedWaiters, pc, frame) = 0
           /\ GrantedExclusive(ExclusiveWaiters, pc) = 0
           /\ \A b \in Agents : b # a => held[b] = "none"
           /\ \A b \in Agents : pc[b] \notin {"setOwner", "setEvent", "releaseSemaphore", "claim"}
           /\ \A b \in Agents : pc[b] = "waitShared" => Owner[0].OwnerThread # b
           /\ ~IsSet(ExclusiveWaiters)
<1>1. TypeOK /\ OneReleaser /\ Places /\ EntriesInUse
  BY DEF ResourceInv
<1> DEFINE h == Many(held, Owns)
           sg == Granted(SharedWaiters, pc, frame)
           eg == GrantedExclusive(ExclusiveWaiters, pc)
           ws == Many(pc, SharedWaits)
           we == Many(pc, {"waitExclusive"})
<1>2. /\ Balance(Exclusive, ActiveEntries, ActiveCount, NumberOfSharedWaiters,
                 NumberOfExclusiveWaiters, h, sg, eg, ws, we)
      /\ h # 0 /\ h \in Nat /\ sg \in Nat /\ eg \in Nat /\ ActiveEntries \in Nat
  BY <1>1, Facts, Numbers
<1>3. \A b \in Agents : b # a => held[b] = "none"
  BY Facts
<1>4. held[a] = "exclusive"
  BY Facts
<1>5. eg = 0 <=> ~IsSet(ExclusiveWaiters) /\ \A b \in Agents : pc[b] # "setEvent"
  BY Facts
<1>6. \A b \in Agents : pc[b] = "releaseSemaphore" => sg > 0
  BY Facts
<1> HIDE DEF h, sg, eg, ws, we
<1>7. ActiveEntries = 1 /\ ActiveCount # 0 /\ h = 1 /\ sg = 0 /\ eg = 0
  BY <1>2 DEF Balance
<1>8. Owner[0].OwnerThread = a
  BY <1>1, <1>4 DEF EntriesInUse
<1>9. \A b \in Agents : pc[b] \notin {"setOwner", "claim"}
  BY <1>1, <1>3 DEF Places
<1>10. \A b \in Agents : pc[b] = "waitShared" => Owner[0].OwnerThread # b
  BY <1>1 DEF EntriesInUse, At
<1>11. \A b \in Agents : pc[b] \notin {"setEvent", "releaseSemaphore"}
  BY <1>5, <1>6, <1>7
<1> QED
  BY <1>3, <1>4, <1>5, <1>7, <1>8, <1>9, <1>10, <1>11 DEF h, sg, eg

(* Grants that one agent starts to hand out, when there are no others.     *)
LEMMA HandsGiven ==
    ASSUME ResourceInv, NEW a \in Agents, Moves(a), TypeOK', SharedWaiters' = SharedWaiters,
           Granted(SharedWaiters, pc, frame) = 0, pc'[a] = "releaseSemaphore",
           NumberOfSharedWaiters > 0, frame'[a].Count = NumberOfSharedWaiters
    PROVE  /\ OneReleaser' /\ SharedWaiters # NULL
           /\ Granted(SharedWaiters', pc', frame') = NumberOfSharedWaiters
<1>1. TypeOK /\ OneReleaser /\ Places
  BY DEF ResourceInv
<1> DEFINE hands == Cardinality(Hands(Where(pc, {"releaseSemaphore"}), frame))
           n == NumberOfSharedWaiters
<1>2. n \in Nat /\ hands \in Nat /\ Many(pc, SharedWaits) \in Nat
  BY <1>1, Numbers
<1>3. \A b \in Agents : pc[b] # "releaseSemaphore"
  BY Facts
<1>4. SharedWaiters # NULL
  <2>1. NumberOfSharedWaiters + Granted(SharedWaiters, pc, frame) = Many(pc, SharedWaits)
    BY Facts DEF Balance
  <2>2. Many(pc, SharedWaits) # 0
    BY <1>2, <2>1
  <2>3. PICK b \in Agents : pc[b] \in SharedWaits
    BY <2>2, ManyType
  <2> QED
    BY <1>1, <2>3 DEF Places, SharedWaits
<1>5. SharedWaiters \in Nat
  BY <1>1, <1>4 DEF TypeOK
<1>6. SharedWaiters = 0
  <2>1. Granted(SharedWaiters, pc, frame) = SharedWaiters + hands
    BY <1>4 DEF Granted
  <2> HIDE DEF hands
  <2> QED
    BY <1>2, <1>5, <2>1
<1>7. \A b \in Agents : pc'[b] = "releaseSemaphore" => b = a
  BY <1>3 DEF Moves, OthersKeep
<1>8. OneReleaser'
  BY <1>7 DEF OneReleaser, At
<1>9. Cardinality(Hands(Where(pc', {"releaseSemaphore"}), frame')) = n
  <2>1. \A c, b \in Where(pc', {"releaseSemaphore"}) : c = b
    BY <1>7 DEF Where
  <2>2. \A b \in Agents : frame'[b].Count \in Nat
    BY DEF TypeOK
  <2> QED
    BY <2>1, <2>2, HandsAre
<1> QED
  BY <1>2, <1>4, <1>6, <1>8, <1>9 DEF Granted

LEMMA ConvertInv ==
    ASSUME ResourceInv, NEW t \in Threads, ExConvertExclusiveToSharedLite(t)
    PROVE  ResourceInv'
<1>1. /\ TypeOK /\ OneReleaser /\ TableOK(Owner, Recorded) /\ Places /\ TableShape
      /\ t \in Agents /\ t # GRANTED
  BY EntriesAre, NameAssumption DEF ResourceInv, Agents
<1>2. pc[t] = "idle" /\ held[t] = "exclusive" /\ Exclusive
  BY <1>1, Facts DEF ExConvertExclusiveToSharedLite
<1>3. held' \in [Agents -> Modes] /\ OthersKeep(t, held, held') /\ held'[t] = "shared"
  BY <1>1, SetHeldDoes DEF ExConvertExclusiveToSharedLite, Modes
<1>4. /\ ~Exclusive' /\ Exclusive' \in BOOLEAN
      /\ UNCHANGED <<ActiveCount, NumberOfExclusiveWaiters, SharedWaiters, ExclusiveWaiters, Owner,
                     TableSize, crashed>>
      /\ UNCHANGED table
  BY DEF ExConvertExclusiveToSharedLite, objects, table
<1> DEFINE ns == NumberOfSharedWaiters
<1>5. ns \in Nat /\ NumberOfExclusiveWaiters \in Nat /\ Many(pc, SharedWaits) \in Nat /\ Many(pc, {"waitExclusive"}) \in Nat
  BY <1>1, Numbers
<1>6. /\ pc' \in [Agents -> Labels] /\ OthersKeep(t, pc, pc')
      /\ pc'[t] = IF ns > 0 THEN "releaseSemaphore" ELSE "idle"
      /\ frame' \in [Agents -> Frames] /\ OthersKeep(t, frame, frame')
      /\ ns > 0 => frame'[t].Count = ns
      /\ ActiveEntries' = IF ns > 0 THEN ActiveEntries + ns ELSE ActiveEntries
      /\ NumberOfSharedWaiters' = IF ns > 0 THEN 0 ELSE ns
  <2>1. CASE ns > 0
    BY <1>1, <1>5, <2>1, ReleaseLaterDoes DEF ExConvertExclusiveToSharedLite
  <2>2. CASE ~(ns > 0)
    BY <1>1, <1>2, <2>2 DEF ExConvertExclusiveToSharedLite, local, TypeOK, Frames, OthersKeep
  <2> QED
    BY <2>1, <2>2
<1>7. Moves(t)
  BY <1>3, <1>6 DEF Moves
<1>8. /\ Many(held, Owns) = 1 /\ Granted(SharedWaiters, pc, frame) = 0 /\ ActiveEntries = 1
      /\ GrantedExclusive(ExclusiveWaiters, pc) = 0 /\ ActiveCount # 0
      /\ \A b \in Agents : b # t => held[b] = "none"
      /\ \A b \in Agents : pc[b] \notin {"setOwner", "setEvent", "releaseSemaphore", "claim"}
      /\ \A b \in Agents : pc[b] = "waitShared" => Owner[0].OwnerThread # b
      /\ Owner[0].OwnerThread = t
  BY <1>1, <1>2, ExclusiveFacts
<1>9. TypeOK'
  BY <1>1, <1>3, <1>4, <1>5, <1>6, <1>8, SameTable, Typed DEF TypeOK
<1>10. ns = Many(pc, SharedWaits) /\ NumberOfExclusiveWaiters = Many(pc, {"waitExclusive"})
  BY <1>5, <1>8, Facts DEF Balance
<1>11. /\ Many(held', Owns) = 1 /\ GrantedExclusive(ExclusiveWaiters', pc') = 0
       /\ Many(pc', SharedWaits) = ns
       /\ Many(pc', {"waitExclusive"}) = NumberOfExclusiveWaiters
  BY <1>1, <1>2, <1>3, <1>4, <1>6, <1>7, <1>8, <1>9, <1>10, CountsMoved DEF SharedWaits
<1>12. /\ OneReleaser' /\ Granted(SharedWaiters', pc', frame') = ns
       /\ ns > 0 => SharedWaiters # NULL
  <2>1. CASE ns > 0
    BY <1>1, <1>4, <1>6, <1>7, <1>8, <1>9, <2>1, HandsGiven
  <2>2. CASE ~(ns > 0)
    <3>1. ns = 0
      BY <1>5, <2>2
    <3> QED
      BY <1>1, <1>2, <1>4, <1>6, <1>7, <1>8, <2>2, <3>1, GrantsMoved
  <2> QED
    BY <2>1, <2>2
<1>13. Balance(Exclusive', ActiveEntries', ActiveCount', NumberOfSharedWaiters',
               NumberOfExclusiveWaiters', Many(held', Owns),
               Granted(SharedWaiters', pc', frame'), GrantedExclusive(ExclusiveWaiters', pc'),
               Many(pc', SharedWaits), Many(pc', {"waitExclusive"}))
  <2> HIDE DEF ns
  <2> QED
    BY <1>4, <1>5, <1>6, <1>8, <1>11, <1>12 DEF Balance
<1>14. ExclusiveGrants' = 0
  BY <1>9, <1>11, GrantsAreNext
<1>15. \A a \in Agents : held'[a] # "exclusive" /\ pc'[a] # "setOwner"
  BY <1>3, <1>6, <1>8 DEF OthersKeep
<1>16. HasEntry(t) /\ HasEntry(t)'
  BY <1>2, <1>3, <1>6 DEF HasEntry, Claiming
<1>17. TableOK(Owner', Recorded')
  <2>1. Recorded' = Recorded \cup {t}
    BY <1>1, <1>4, <1>7, <1>16, RecordedStep
  <2>2. Recorded' = Recorded
    BY <1>1, <1>16, <2>1 DEF Recorded
  <2> QED
    BY <1>1, <1>4, <2>2
<1>18. FirstEntry'
  <2>1. \A a \in Agents : pc'[a] = "waitShared" => pc[a] = "waitShared"
    BY <1>6 DEF OthersKeep
  <2> QED
    BY <1>1, <1>4, <1>8, <1>14, <1>15, <2>1, FirstShared
<1>19. PlaceOK(t)'
  BY <1>1, <1>4, <1>6, <1>12 DEF PlaceOK
<1> QED
  BY <1>1, <1>4, <1>7, <1>9, <1>12, <1>13, <1>15, <1>17, <1>18, <1>19, SameTable, Finish

(* An owner's entry is freed.                                              *)
LEMMA FreeDoes ==
    ASSUME ResourceInv, NEW a \in Agents, NEW i \in DOMAIN Owner, Owner[i].OwnerThread = a,
           NEW new, new = [Owner EXCEPT ![i] = FreeEntry]
    PROVE  /\ EntryIs(Owner, new, i, NULL, 0) /\ DOMAIN new = DOMAIN Owner
           /\ \A j \in DOMAIN new : new[j] \in Entries
           /\ TableOK(new, Recorded \ {a})
           /\ new[0].OwnerThread \in {NULL, Owner[0].OwnerThread} /\ new[0].OwnerThread # a
<1>1. TypeOK /\ TableShape /\ TableOK(Owner, Recorded) /\ a # NULL /\ 0 \in DOMAIN Owner
  BY EntriesAre, NameAssumption DEF ResourceInv, TableShape
<1>2. EntryIs(Owner, new, i, NULL, 0) /\ \A j \in DOMAIN new : new[j] \in Entries
  BY <1>1, SetEntry DEF FreeEntry
<1>3. TableOK(new, Recorded \ {a})
  BY <1>1, <1>2, EntryFreed
<1>4. new[0].OwnerThread \in {NULL, Owner[0].OwnerThread} /\ new[0].OwnerThread # a
  BY <1>1, <1>2 DEF EntryIs, TableOK
<1> QED
  BY <1>2, <1>3, <1>4 DEF EntryIs

LEMMA GrantSharedInv ==
    ASSUME ResourceInv, NEW a \in Agents, pc[a] = "idle", held[a] # "none", ToShared,
           GrantShared(a, 0), SetHeld(a, "none"), UNCHANGED <<TableSize, objects, crashed>>
    PROVE  ResourceInv'
<1>1. /\ TypeOK /\ OneReleaser /\ Places /\ TableShape /\ a # GRANTED /\ NULL # GRANTED
      /\ 0 \in DOMAIN Owner /\ NULL \notin Agents
  BY NameAssumption DEF ResourceInv, TableShape
<1> DEFINE ns == NumberOfSharedWaiters
<1>2. Exclusive /\ ns > 0
  BY DEF ToShared
<1>3. held' \in [Agents -> Modes] /\ OthersKeep(a, held, held') /\ held'[a] = "none"
  BY <1>1, SetHeldDoes DEF Modes
<1>4. /\ ~Exclusive' /\ Exclusive' \in BOOLEAN /\ ActiveEntries' = ns /\ NumberOfSharedWaiters' = 0
      /\ UNCHANGED <<ActiveCount, NumberOfExclusiveWaiters, SharedWaiters, ExclusiveWaiters, TableSize, crashed>>
  BY DEF GrantShared, objects
<1>5. ns \in Nat /\ NumberOfExclusiveWaiters \in Nat /\ Many(pc, SharedWaits) \in Nat /\ Many(pc, {"waitExclusive"}) \in Nat
  BY <1>1, Numbers
<1>6. /\ pc' \in [Agents -> Labels] /\ OthersKeep(a, pc, pc') /\ pc'[a] = "releaseSemaphore"
      /\ frame' \in [Agents -> Frames] /\ OthersKeep(a, frame, frame') /\ frame'[a].Count = ns
  BY <1>1, <1>5, ReleaseLaterDoes DEF GrantShared
<1>7. Moves(a)
  BY <1>3, <1>6 DEF Moves
<1>8. /\ Many(held, Owns) = 1 /\ Granted(SharedWaiters, pc, frame) = 0 /\ ActiveEntries = 1
      /\ GrantedExclusive(ExclusiveWaiters, pc) = 0 /\ ActiveCount # 0
      /\ \A b \in Agents : b # a => held[b] = "none"
      /\ \A b \in Agents : pc[b] \notin {"setOwner", "setEvent", "releaseSemaphore", "claim"}
      /\ Owner[0].OwnerThread = a
  BY <1>2, ExclusiveFacts
<1>9. /\ DOMAIN Owner' = DOMAIN Owner /\ \A j \in DOMAIN Owner' : Owner'[j] \in Entries
      /\ TableOK(Owner', Recorded \ {a}) /\ Owner'[0].OwnerThread = NULL
  BY <1>1, <1>8, FreeDoes, ZenonT(40) DEF GrantShared
<1>10. TableShape' /\ 0 \in DOMAIN Owner' /\ (Unlimited' <=> Unlimited)
  BY <1>1, <1>4, <1>9, ShapeKept
<1>11. TypeOK'
  BY <1>1, <1>3, <1>4, <1>5, <1>6, <1>9, <1>10, Typed DEF TypeOK
<1>12. ns = Many(pc, SharedWaits) /\ NumberOfExclusiveWaiters = Many(pc, {"waitExclusive"})
  BY <1>5, <1>8, Facts DEF Balance
<1>13. /\ Many(held', Owns) = 0 /\ GrantedExclusive(ExclusiveWaiters', pc') = 0
       /\ Many(pc', SharedWaits) = ns
       /\ Many(pc', {"waitExclusive"}) = NumberOfExclusiveWaiters
  BY <1>3, <1>4, <1>6, <1>7, <1>8, <1>11, <1>12, CountsMoved DEF SharedWaits
<1>14. /\ OneReleaser' /\ Granted(SharedWaiters', pc', frame') = ns /\ SharedWaiters # NULL
  BY <1>2, <1>4, <1>6, <1>7, <1>8, <1>11, HandsGiven
<1>15. Balance(Exclusive', ActiveEntries', ActiveCount', NumberOfSharedWaiters',
               NumberOfExclusiveWaiters', Many(held', Owns),
               Granted(SharedWaiters', pc', frame'), GrantedExclusive(ExclusiveWaiters', pc'),
               Many(pc', SharedWaits), Many(pc', {"waitExclusive"}))
  <2> HIDE DEF ns
  <2> QED
    BY <1>2, <1>4, <1>5, <1>8, <1>13, <1>14 DEF Balance
<1>16. ExclusiveGrants' = 0
  BY <1>11, <1>13, GrantsAreNext
<1>17. \A b \in Agents : held'[b] # "exclusive" /\ pc'[b] # "setOwner"
  BY <1>3, <1>6, <1>8 DEF OthersKeep
<1>18. TableOK(Owner', Recorded')
  <2>1. ~HasEntry(a)'
    BY <1>3, <1>6 DEF HasEntry
  <2>2. Recorded' = Recorded \ {a}
    BY <1>7, <1>8, <2>1, RecordedStep
  <2> QED
    BY <1>9, <2>2
<1>19. FirstEntry'
  BY <1>1, <1>4, <1>9, <1>16, <1>17, FirstShared
<1>20. PlaceOK(a)'
  BY <1>2, <1>4, <1>6, <1>14 DEF PlaceOK
<1> QED
  BY <1>4, <1>7, <1>10, <1>11, <1>14, <1>15, <1>17, <1>18, <1>19, <1>20, Finish

LEMMA GrantExclusiveInv ==
    ASSUME ResourceInv, NEW a \in Agents, pc[a] = "idle", held[a] # "none", ToExclusive,
           NEW i \in DOMAIN Owner, Owner[i].OwnerThread = a,
           GrantExclusive(a, i), SetHeld(a, "none"), UNCHANGED <<TableSize, objects, crashed>>
    PROVE  ResourceInv'
<1>1. /\ TypeOK /\ OneReleaser /\ Places /\ TableShape /\ a # GRANTED /\ NULL # GRANTED
      /\ 0 \in DOMAIN Owner /\ NULL \notin Agents /\ GRANTED \notin Agents /\ EntriesInUse
  BY NameAssumption DEF ResourceInv, TableShape
<1>2. ActiveEntries = 1 /\ NumberOfExclusiveWaiters > 0
  BY DEF ToExclusive
<1>3. held' \in [Agents -> Modes] /\ OthersKeep(a, held, held') /\ held'[a] = "none"
  BY <1>1, SetHeldDoes DEF Modes
<1>4. /\ Exclusive' /\ Exclusive' \in BOOLEAN /\ ActiveEntries' = 1
      /\ NumberOfExclusiveWaiters' = NumberOfExclusiveWaiters - 1
      /\ UNCHANGED <<ActiveCount, NumberOfSharedWaiters, SharedWaiters, ExclusiveWaiters, TableSize, crashed>>
  BY DEF GrantExclusive, objects
<1>5. /\ pc' \in [Agents -> Labels] /\ OthersKeep(a, pc, pc') /\ pc'[a] = "setEvent"
      /\ frame' \in [Agents -> Frames] /\ OthersKeep(a, frame, frame')
  BY <1>1, GotoDoes DEF GrantExclusive, Labels
<1>6. Moves(a)
  BY <1>3, <1>5 DEF Moves
<1> DEFINE h == Many(held, Owns)
           sg == Granted(SharedWaiters, pc, frame)
           eg == GrantedExclusive(ExclusiveWaiters, pc)
           ws == Many(pc, SharedWaits)
           we == Many(pc, {"waitExclusive"})
           se == Many(pc, {"setEvent"})
<1>7. /\ Balance(Exclusive, ActiveEntries, ActiveCount, NumberOfSharedWaiters,
                 NumberOfExclusiveWaiters, h, sg, eg, ws, we)
      /\ h # 0
  BY Facts
<1>8. /\ h \in Nat /\ sg \in Nat /\ eg \in Nat /\ ws \in Nat /\ we \in Nat /\ ActiveEntries \in Nat
      /\ NumberOfSharedWaiters \in Nat /\ NumberOfExclusiveWaiters \in Nat /\ se \in Nat
  BY <1>1, Numbers
<1>9. eg = (IF IsSet(ExclusiveWaiters) THEN 1 ELSE 0) + se
  BY DEF GrantedExclusive
<1>10. GrantedExclusive(ExclusiveWaiters', pc') = (IF IsSet(ExclusiveWaiters) THEN 1 ELSE 0) + (se + 1)
  <2>1. Many(pc', {"setEvent"}) = se + 1
    BY <1>5, Moved
  <2> QED
    BY <1>4, <2>1 DEF GrantedExclusive
<1>11. h = 1 => \A b \in Agents : held[b] # "none" => b = a
  <2>1. \A b \in Agents : held[b] # "none" => held[b] \in Owns
    BY <1>1 DEF TypeOK, Owns
  <2> QED
    BY <2>1, ManyType
<1> HIDE DEF h, sg, eg, ws, we, se
<1>12. h = 1 /\ sg = 0 /\ eg = 0 /\ se = 0 /\ ~IsSet(ExclusiveWaiters) /\ ActiveCount # 0
  BY <1>2, <1>7, <1>8, <1>9 DEF Balance
<1>13. \A b \in Agents : b # a => held[b] = "none"
  BY <1>11, <1>12
<1>14. \A b \in Agents : pc[b] # "setOwner"
  BY <1>1, <1>13 DEF Places
<1> DEFINE mid == [Owner EXCEPT ![i] = FreeEntry]
<1>15. /\ DOMAIN mid = DOMAIN Owner /\ TableOK(mid, Recorded \ {a})
       /\ mid[0].OwnerThread \in {NULL, Owner[0].OwnerThread} /\ mid[0].OwnerThread # a
       /\ \A j \in DOMAIN mid : mid[j] \in Entries
  BY FreeDoes
<1>16. Owner' = [mid EXCEPT ![0] = [OwnerThread |-> GRANTED, OwnerCount |-> 1]]
  BY DEF GrantExclusive
<1> HIDE DEF mid
<1>17. EntryIs(mid, Owner', 0, GRANTED, 1) /\ \A j \in DOMAIN Owner' : Owner'[j] \in Entries
  <2>1. [OwnerThread |-> GRANTED, OwnerCount |-> 1] \in Entries
    BY DEF Entries
  <2>2. /\ DOMAIN Owner' = DOMAIN mid /\ Owner'[0] = [OwnerThread |-> GRANTED, OwnerCount |-> 1]
        /\ \A j \in DOMAIN mid : j # 0 => Owner'[j] = mid[j]
    BY <1>1, <1>15, <1>16
  <2> QED
    BY <1>1, <1>15, <2>1, <2>2 DEF EntryIs
<1>18. mid[0].OwnerThread \in {NULL, GRANTED}
  <2> SUFFICES ASSUME mid[0].OwnerThread \notin {NULL, GRANTED} PROVE FALSE
    OBVIOUS
  <2>1. PICK b \in Agents : mid[0].OwnerThread = b
    BY <1>1, <1>15 DEF Entries
  <2>2. Owner[0].OwnerThread = b /\ b # a
    BY <1>1, <1>15, <2>1
  <2>3. HasEntry(b)
    BY <1>1, <2>2 DEF EntriesInUse, EntriesOf
  <2>4. pc[b] = "waitShared"
    BY <1>13, <1>14, <2>2, <2>3 DEF HasEntry
  <2> QED
    BY <1>1, <2>2, <2>4 DEF EntriesInUse, At
<1>19. TableOK(Owner', Recorded \ {a})
  BY <1>15, <1>17, <1>18, EntryGranted
<1>20. TableShape' /\ 0 \in DOMAIN Owner' /\ (Unlimited' <=> Unlimited)
  BY <1>1, <1>4, <1>15, <1>17, ShapeKept DEF EntryIs
<1>21. TypeOK'
  BY <1>1, <1>2, <1>3, <1>4, <1>5, <1>8, <1>17, <1>20, Typed DEF TypeOK
<1>22. /\ Many(held', Owns) = h - 1 /\ Granted(SharedWaiters', pc', frame') = sg
       /\ Many(pc', SharedWaits) = ws /\ Many(pc', {"waitExclusive"}) = we /\ OneReleaser'
  BY <1>3, <1>4, <1>5, <1>6, <1>21, CountsMoved, GrantsMoved DEF SharedWaits, h, sg, eg, ws, we
<1>23. Balance(Exclusive', ActiveEntries', ActiveCount', NumberOfSharedWaiters',
               NumberOfExclusiveWaiters', Many(held', Owns),
               Granted(SharedWaiters', pc', frame'), GrantedExclusive(ExclusiveWaiters', pc'),
               Many(pc', SharedWaits), Many(pc', {"waitExclusive"}))
  BY <1>2, <1>4, <1>7, <1>8, <1>10, <1>12, <1>22 DEF Balance
<1>24. ExclusiveGrants' = 1
  BY <1>10, <1>12, <1>21, GrantsAreNext
<1>25. \A b \in Agents : held'[b] = "none"
  BY <1>3, <1>13 DEF OthersKeep
<1>26. TableOK(Owner', Recorded')
  <2>1. ~HasEntry(a)'
    BY <1>3, <1>5 DEF HasEntry
  <2>2. Recorded' = Recorded \ {a}
    BY <1>6, <1>14, <2>1, RecordedStep
  <2> QED
    BY <1>19, <2>2
<1>27. FirstEntry'
  <2>1. Owner'[0].OwnerThread = GRANTED
    BY <1>17 DEF EntryIs
  <2> QED
    BY <1>1, <1>24, <1>25, <2>1 DEF FirstEntry, At, Holders
<1>28. PlaceOK(a)'
  BY <1>5 DEF PlaceOK
<1> QED
  BY <1>4, <1>6, <1>20, <1>21, <1>22, <1>23, <1>25, <1>26, <1>27, <1>28, Finish

LEMMA LeaveInv ==
    ASSUME ResourceInv, NEW a \in Agents, pc[a] = "idle", held[a] # "none", ~ToShared, ~ToExclusive,
           NEW i \in DOMAIN Owner, Owner[i].OwnerThread = a, Exclusive => i = 0,
           Leave(i), SetHeld(a, "none"), UNCHANGED <<TableSize, objects, crashed>>
    PROVE  ResourceInv'
<1>1. /\ TypeOK /\ OneReleaser /\ Places /\ TableShape /\ a # GRANTED /\ NULL # GRANTED
      /\ 0 \in DOMAIN Owner /\ NULL \notin Agents /\ EntriesInUse
  BY NameAssumption DEF ResourceInv, TableShape
<1>2. /\ Exclusive => ~(NumberOfSharedWaiters > 0)
      /\ ActiveEntries = 1 => ~(NumberOfExclusiveWaiters > 0)
  BY DEF ToShared, ToExclusive
<1>3. held' \in [Agents -> Modes] /\ OthersKeep(a, held, held') /\ held'[a] = "none"
  BY <1>1, SetHeldDoes DEF Modes
<1>4. /\ ~Exclusive' /\ Exclusive' \in BOOLEAN /\ ActiveEntries' = ActiveEntries - 1
      /\ ActiveCount' = IF ActiveEntries = 1 THEN 0 ELSE ActiveCount
      /\ UNCHANGED <<NumberOfExclusiveWaiters, NumberOfSharedWaiters, SharedWaiters, ExclusiveWaiters,
                     TableSize, crashed, pc, frame>>
  BY DEF Leave, objects, waiters, local
<1>5. pc' \in [Agents -> Labels] /\ frame' \in [Agents -> Frames] /\ pc'[a] = "idle"
  BY <1>1, <1>4 DEF TypeOK, Frames
<1>6. Moves(a)
  BY <1>3, <1>4 DEF Moves, OthersKeep
<1> DEFINE h == Many(held, Owns)
           sg == Granted(SharedWaiters, pc, frame)
           eg == GrantedExclusive(ExclusiveWaiters, pc)
           ws == Many(pc, SharedWaits)
           we == Many(pc, {"waitExclusive"})
<1>7. /\ Balance(Exclusive, ActiveEntries, ActiveCount, NumberOfSharedWaiters,
                 NumberOfExclusiveWaiters, h, sg, eg, ws, we)
      /\ h # 0
  BY Facts
<1>8. /\ h \in Nat /\ sg \in Nat /\ eg \in Nat /\ ws \in Nat /\ we \in Nat /\ ActiveEntries \in Nat
      /\ NumberOfSharedWaiters \in Nat /\ NumberOfExclusiveWaiters \in Nat
  BY <1>1, Numbers
<1> HIDE DEF h, sg, eg, ws, we
<1>9. eg = 0 /\ ActiveEntries - 1 \in Nat /\ ActiveCount \in Nat
  <2>1. ActiveCount \in Nat
    BY <1>1 DEF TypeOK
  <2> QED
    BY <1>7, <1>8, <2>1 DEF Balance
<1>10. /\ DOMAIN Owner' = DOMAIN Owner /\ \A j \in DOMAIN Owner' : Owner'[j] \in Entries
       /\ TableOK(Owner', Recorded \ {a})
       /\ Owner'[0].OwnerThread \in {NULL, Owner[0].OwnerThread} /\ Owner'[0].OwnerThread # a
  BY FreeDoes DEF Leave
<1>11. TableShape' /\ 0 \in DOMAIN Owner' /\ (Unlimited' <=> Unlimited)
  BY <1>1, <1>4, <1>10, ShapeKept
<1>12. TypeOK'
  BY <1>1, <1>3, <1>4, <1>5, <1>9, <1>10, <1>11, Typed DEF TypeOK
<1>13. /\ Many(held', Owns) = h - 1 /\ Granted(SharedWaiters', pc', frame') = sg
       /\ GrantedExclusive(ExclusiveWaiters', pc') = eg
       /\ Many(pc', SharedWaits) = ws /\ Many(pc', {"waitExclusive"}) = we /\ OneReleaser'
  BY <1>3, <1>4, <1>6, <1>12, CountsMoved, GrantsMoved DEF SharedWaits, h, sg, eg, ws, we
<1>14. Balance(Exclusive', ActiveEntries', ActiveCount', NumberOfSharedWaiters',
               NumberOfExclusiveWaiters', Many(held', Owns),
               Granted(SharedWaiters', pc', frame'), GrantedExclusive(ExclusiveWaiters', pc'),
               Many(pc', SharedWaits), Many(pc', {"waitExclusive"}))
  BY <1>2, <1>4, <1>7, <1>8, <1>9, <1>13 DEF Balance
<1>15. ExclusiveGrants' = 0
  BY <1>9, <1>12, <1>13, GrantsAreNext
<1>16. /\ \A b \in Agents : pc[b] # "setOwner" /\ (b # a => held[b] # "exclusive")
       /\ \A b \in Agents : pc[b] = "waitShared" => Owner[0].OwnerThread # b
       /\ Owner[0].OwnerThread # GRANTED
  BY <1>1, ExclusiveFacts, SharedFacts
<1>17. \A b \in Agents : held'[b] # "exclusive" /\ pc'[b] # "setOwner"
  BY <1>3, <1>4, <1>16 DEF OthersKeep
<1>18. TableOK(Owner', Recorded')
  <2>1. ~HasEntry(a)'
    BY <1>3, <1>5 DEF HasEntry
  <2>2. Recorded' = Recorded \ {a}
    BY <1>6, <1>16, <2>1, RecordedStep
  <2> QED
    BY <1>10, <2>2
<1>19. FirstEntry'
  BY <1>1, <1>4, <1>10, <1>15, <1>16, <1>17, FirstShared
<1>20. PlaceOK(a)'
  BY <1>5 DEF PlaceOK
<1> QED
  BY <1>4, <1>6, <1>11, <1>12, <1>13, <1>14, <1>17, <1>18, <1>19, <1>20, Finish

-----------------------------------------------------------------------------
(* The searches of the owner table.                                        *)

LEMMA FirstOfIs ==
    ASSUME NEW S \in SUBSET Nat
    PROVE  /\ S # {} => Min(S) \in S
           /\ S # {} => FirstOf(S) \in S
           /\ FirstOf(S) = NULL <=> S = {}
<1>1. ASSUME S # {} PROVE Min(S) \in S
  <2>1. IsWellFoundedOn(OpToRel(<, Nat), Nat)
    BY NatLessThanWellFounded
  <2>2. PICK i \in S : \A j \in S : <<j, i>> \notin OpToRel(<, Nat)
    BY <1>1, <2>1, WFMin
  <2>3. \A j \in S : ~(j < i)
    BY <2>2 DEF OpToRel
  <2>4. \A j \in S : i =< j
    BY <2>3
  <2> QED
    BY <2>4 DEF Min
<1> QED
  BY <1>1, NameAssumption DEF FirstOf

LEMMA FindFree ==
    ASSUME ResourceInv, ExpFindFreeEntry # NULL
    PROVE  /\ ExpFindFreeEntry \in DOMAIN Owner /\ ExpFindFreeEntry # 0
           /\ Owner[ExpFindFreeEntry].OwnerThread = NULL
<1>1. EntriesOf(NULL) \ {0} \in SUBSET Nat
  BY DEF ResourceInv, TableShape, EntriesOf
<1>2. ExpFindFreeEntry \in EntriesOf(NULL) \ {0}
  BY <1>1, FirstOfIs DEF ExpFindFreeEntry
<1> QED
  BY <1>2 DEF EntriesOf

LEMMA FindEntry ==
    ASSUME ResourceInv, NEW o \in Agents, NEW inel
    PROVE  LET i == ExpFindEntryForThread(o, inel) IN
           /\ HasEntry(o) => i # NULL
           /\ i # NULL /\ HasEntry(o) => i \in DOMAIN Owner /\ Owner[i].OwnerThread = o
           /\ i # NULL /\ ~HasEntry(o) =>
                 /\ i \in DOMAIN Owner /\ Owner[i].OwnerThread = NULL /\ Owner[i].OwnerThread # o
                 /\ inel => i # 0
<1> DEFINE free == EntriesOf(NULL) \ (IF inel THEN {0} ELSE {})
<1>1. free \in SUBSET Nat /\ EntriesOf(o) \in SUBSET Nat
  BY DEF ResourceInv, TableShape, EntriesOf
<1>2. EntriesOf(o) # {} <=> HasEntry(o)
  BY DEF ResourceInv, EntriesInUse
<1>3. \A i \in EntriesOf(o) : i \in DOMAIN Owner /\ Owner[i].OwnerThread = o
  BY DEF EntriesOf
<1>4. \A i \in free : i \in DOMAIN Owner /\ Owner[i].OwnerThread = NULL /\ (inel => i # 0)
  BY DEF EntriesOf
<1>5. NULL # o /\ NULL \notin Nat
  BY NameAssumption
<1>6. ExpFindEntryForThread(o, inel) =
          IF EntriesOf(o) # {} THEN Min(EntriesOf(o)) ELSE IF Unlimited THEN NULL ELSE FirstOf(free)
  BY DEF ExpFindEntryForThread
<1> HIDE DEF free
<1>7. HasEntry(o) => Min(EntriesOf(o)) \in EntriesOf(o)
  BY <1>1, <1>2, FirstOfIs
<1>8. FirstOf(free) # NULL => FirstOf(free) \in free
  BY <1>1, FirstOfIs
<1> DEFINE i == ExpFindEntryForThread(o, inel)
<1>9. HasEntry(o) => i \in EntriesOf(o)
  BY <1>2, <1>6, <1>7
<1>10. ~HasEntry(o) /\ i # NULL => i \in free
  BY <1>2, <1>6, <1>8
<1> HIDE DEF i
<1>11. HasEntry(o) => i # NULL
  BY <1>1, <1>5, <1>9
<1>12. HasEntry(o) => i \in DOMAIN Owner /\ Owner[i].OwnerThread = o
  BY <1>3, <1>9
<1>13. ~HasEntry(o) /\ i # NULL =>
          /\ i \in DOMAIN Owner /\ Owner[i].OwnerThread = NULL /\ Owner[i].OwnerThread # o
          /\ inel => i # 0
  BY <1>4, <1>5, <1>10
<1> QED
  BY <1>11, <1>12, <1>13 DEF i

LEMMA ReleaseInv ==
    ASSUME ResourceInv, NEW a \in Agents, ExReleaseResourceForThreadLite(a)
    PROVE  ResourceInv'
<1> DEFINE i == IF Exclusive THEN 0 ELSE FirstOf(EntriesOf(a))
<1>1. pc[a] = "idle" /\ held[a] # "none"
  BY DEF ExReleaseResourceForThreadLite
<1>2. i \in DOMAIN Owner /\ Owner[i].OwnerThread = a
  <2>1. CASE Exclusive
    BY <1>1, <2>1, ExclusiveFacts DEF ResourceInv, TableShape
  <2>2. CASE ~Exclusive
    <3>1. HasEntry(a)
      BY <1>1 DEF HasEntry, Claiming
    <3>2. EntriesOf(a) # {} /\ EntriesOf(a) \in SUBSET Nat
      BY <3>1 DEF ResourceInv, EntriesInUse, TableShape, EntriesOf
    <3>3. FirstOf(EntriesOf(a)) \in EntriesOf(a)
      BY <3>2, FirstOfIs
    <3> QED
      BY <2>2, <3>3 DEF EntriesOf
  <2> QED
    BY <2>1, <2>2
<1>3. CASE crashed' = TRUE /\ UNCHANGED <<counts, waiters, table, objects, local, held>>
  BY <1>3, OnlyCrashed
<1>4. CASE /\ Owner[i].OwnerCount > 1
           /\ Owner' = [Owner EXCEPT ![i].OwnerCount = @ - 1]
           /\ UNCHANGED <<counts, waiters, TableSize, objects, crashed, local, held>>
  <2> HIDE DEF i
  <2> QED
    BY <1>1, <1>2, <1>4, CountDownInv
<1>5. CASE GiveUp(a, i)
  <2>1. Exclusive => i = 0
    OBVIOUS
  <2> HIDE DEF i
  <2>2. SetHeld(a, "none") /\ UNCHANGED <<TableSize, objects, crashed>>
    BY <1>5 DEF GiveUp
  <2>3. CASE ToShared /\ GrantShared(a, i)
    <3>1. i = 0
      BY <2>1, <2>3 DEF ToShared
    <3> QED
      BY <1>1, <2>2, <2>3, <3>1, GrantSharedInv
  <2>4. CASE ToExclusive /\ GrantExclusive(a, i)
    BY <1>1, <1>2, <2>2, <2>4, GrantExclusiveInv
  <2>5. CASE ~ToShared /\ ~ToExclusive /\ Leave(i)
    BY <1>1, <1>2, <2>1, <2>2, <2>5, LeaveInv
  <2> QED
    BY <1>5, <2>3, <2>4, <2>5 DEF GiveUp
<1> QED
  BY <1>3, <1>4, <1>5 DEF ExReleaseResourceForThreadLite

-----------------------------------------------------------------------------
(* The resource handed to an owner pointer.                                *)

LEMMA EntryHanded ==
    ASSUME NEW own, NEW R, TableOK(own, R), NEW i, NEW a \in Agents, own[i].OwnerThread = a,
           NEW b \in Agents, b \notin R, NEW n \in Nat \ {0}, NEW new, EntryIs(own, new, i, b, n)
    PROVE  TableOK(new, (R \ {a}) \cup {b})
<1>1. \A j \in DOMAIN own : own[j].OwnerThread # b
  BY DEF TableOK, Entered
<1>2. b # NULL /\ b # GRANTED /\ NULL \notin Agents /\ GRANTED \notin Agents
  BY NameAssumption
<1>3. \A j \in DOMAIN own : j # i => own[j].OwnerThread # a
  BY <1>2 DEF TableOK, EntryIs
<1>4. \A c \in Agents : Entered(new, c) <=> c \in (R \ {a}) \cup {b}
  BY <1>1, <1>2, <1>3 DEF TableOK, Entered, EntryIs
<1>5. \A j, k \in DOMAIN new :
         new[j].OwnerThread = new[k].OwnerThread /\ new[j].OwnerThread # NULL => j = k
  BY <1>1 DEF TableOK, EntryIs
<1>6. \A j \in DOMAIN new : /\ new[j].OwnerThread = NULL <=> new[j].OwnerCount = 0
                            /\ new[j].OwnerThread = GRANTED => j = 0
  BY <1>2 DEF TableOK, EntryIs
<1> QED
  BY <1>4, <1>5, <1>6 DEF TableOK

(* The pointer has no entry yet.                                           *)
Handed(t, p, i, mode) ==
    /\ Owner' = [Owner EXCEPT ![i].OwnerThread = p]
    /\ held' = [held EXCEPT ![t] = "none", ![p] = mode]
    /\ UNCHANGED <<ActiveEntries, crashed>>
    /\ UNCHANGED <<Exclusive, ActiveCount, waiters, TableSize, objects, local>>

LEMMA HandedInv ==
    ASSUME ResourceInv, NEW t \in Threads, NEW p \in Pointers, pc[t] = "idle",
           NEW mode \in Owns, held[t] = mode, held[p] = "none", Exclusive => mode = "exclusive",
           NEW i \in DOMAIN Owner, Owner[i].OwnerThread = t, Exclusive => i = 0,
           Handed(t, p, i, mode)
    PROVE  ResourceInv'
<1>1. /\ TypeOK /\ OneReleaser /\ Places /\ TableShape /\ TableOK(Owner, Recorded)
      /\ 0 \in DOMAIN Owner /\ EntriesInUse /\ t \in Agents /\ p \in Agents /\ t # p
      /\ p # GRANTED /\ t # NULL /\ t \notin Pointers
  BY EntriesAre, NameAssumption DEF ResourceInv, TableShape, Agents
<1>2. pc[p] \in {"idle", "releaseSemaphore", "setEvent"}
  BY <1>1 DEF Places
<1> DEFINE mid == [held EXCEPT ![t] = "none"]
<1>3. /\ held' \in [Agents -> Modes] /\ held'[t] = "none" /\ held'[p] = mode
      /\ OthersKeep(t, held, mid) /\ OthersKeep(p, mid, held')
      /\ mid[t] = "none" /\ mid[p] = "none"
      /\ \A b \in Agents : b # t /\ b # p => held'[b] = held[b]
  BY <1>1 DEF Handed, TypeOK, Modes, Owns, OthersKeep
<1> HIDE DEF mid
<1>4. UNCHANGED <<Exclusive, ActiveCount, ActiveEntries, NumberOfSharedWaiters, NumberOfExclusiveWaiters,
                  SharedWaiters, ExclusiveWaiters, TableSize, crashed, pc, frame>>
  BY DEF Handed, waiters, objects, local
<1>5. pc' \in [Agents -> Labels] /\ frame' \in [Agents -> Frames]
  BY <1>1, <1>4 DEF TypeOK, Frames
<1>6. /\ EntryIs(Owner, Owner', i, p, Owner[i].OwnerCount) /\ Owner[i].OwnerCount \in Nat
      /\ \A j \in DOMAIN Owner' : Owner'[j] \in Entries
  BY <1>1, SetThread DEF Handed
<1>7. Owner[i].OwnerCount \in Nat \ {0}
  BY <1>1, <1>6 DEF EntriesInUse
<1>8. TableShape' /\ 0 \in DOMAIN Owner' /\ (Unlimited' <=> Unlimited)
  BY <1>1, <1>4, <1>6, ShapeKept DEF EntryIs
<1>9. TypeOK'
  BY <1>1, <1>3, <1>4, <1>5, <1>6, <1>8, Typed DEF TypeOK
<1>10. Many(held', Owns) = Many(held, Owns)
  <2>1. Many(mid, Owns) = Many(held, Owns) - 1
    BY <1>1, <1>3, Moved DEF Owns
  <2>2. Many(held', Owns) = Many(mid, Owns) + 1
    BY <1>1, <1>3, Moved DEF Owns
  <2>3. Many(held, Owns) \in Nat
    BY ManyType
  <2> QED
    BY <2>1, <2>2, <2>3
<1>11. /\ Balance(Exclusive, ActiveEntries, ActiveCount, NumberOfSharedWaiters,
                  NumberOfExclusiveWaiters, Many(held, Owns), Granted(SharedWaiters, pc, frame),
                  GrantedExclusive(ExclusiveWaiters, pc), Many(pc, SharedWaits),
                  Many(pc, {"waitExclusive"}))
       /\ ExclusiveGrants = GrantedExclusive(ExclusiveWaiters, pc)
       /\ \A b \in Agents : held[b] = "exclusive" => Exclusive
  BY Facts
<1>12. ~Exclusive' => \A b \in Agents : held'[b] # "exclusive"
  BY <1>1, <1>3, <1>4, <1>11
<1>13. GrantsCounted' /\ ExclusiveGrants' = ExclusiveGrants
  BY <1>4, <1>9, <1>10, <1>11, <1>12, GrantsAreNext
<1>14. OneReleaser'
  BY <1>1, <1>4 DEF OneReleaser, At
<1>15. Keep({t, p})
  BY <1>3, <1>4 DEF Keep
<1>16. \A b \in Agents : pc[b] # "setOwner"
  BY <1>1, ExclusiveFacts, SharedFacts DEF Owns
<1>17. TableOK(Owner', Recorded')
  <2>1. ~HasEntry(p) /\ HasEntry(p)' /\ ~HasEntry(t)'
    BY <1>2, <1>3, <1>4 DEF HasEntry, Claiming, Owns
  <2>2. \A b \in Agents \ {t, p} : b \in Recorded' <=> b \in Recorded
    BY <1>15, <1>16, RecordedKept
  <2>3. p \notin Recorded /\ p \in Recorded' /\ t \notin Recorded'
    BY <1>1, <2>1 DEF Recorded
  <2>4. Recorded \subseteq Agents /\ Recorded' \subseteq Agents
    BY DEF Recorded
  <2>5. \A b : b \in Recorded' <=> b \in (Recorded \ {t}) \cup {p}
    BY <1>1, <2>2, <2>3, <2>4
  <2>6. Recorded' = (Recorded \ {t}) \cup {p}
    BY <2>5
  <2> QED
    BY <1>1, <1>6, <1>7, <2>3, <2>6, EntryHanded
<1>18. FirstEntry'
  <2>1. CASE Exclusive
    <3>1. /\ \A b \in Agents : b # t => held[b] = "none"
          /\ ExclusiveGrants = 0
      BY <1>1, <1>11, <2>1, ExclusiveFacts DEF Owns
    <3>2. Owner'[0].OwnerThread = p /\ mode = "exclusive"
      BY <1>6, <2>1 DEF EntryIs
    <3>3. \A b \in Agents : held'[b] # "none" => b = p
      BY <1>3, <3>1
    <3>4. (\A b \in At({"waitShared"}) : Owner[0].OwnerThread # b)'
      BY <1>2, <1>4, <3>2 DEF At
    <3>5. (Exclusive => \A b \in Holders : held[b] = "exclusive")'
      BY <1>3, <3>2, <3>3 DEF Holders
    <3>6. (\A b \in Agents : held[b] = "exclusive" =>
              Owner[0].OwnerThread = b \/ (pc[b] = "setOwner" /\ Owner[0].OwnerThread = GRANTED))'
      BY <3>2, <3>3
    <3>7. \A b \in Agents : pc'[b] # "setOwner"
      BY <1>4, <1>16
    <3> QED
      BY <1>1, <1>13, <3>1, <3>2, <3>4, <3>5, <3>6, <3>7 DEF FirstEntry, At
  <2>2. CASE ~Exclusive
    <3>1. ExclusiveGrants' = 0 /\ Owner[0].OwnerThread # GRANTED
      BY <1>11, <1>13, <2>2, SharedFacts
    <3>2. \A b \in Agents : held'[b] # "exclusive" /\ pc'[b] # "setOwner"
      BY <1>4, <1>12, <1>16, <2>2
    <3>3. Owner'[0].OwnerThread \in {Owner[0].OwnerThread, p}
      BY <1>1, <1>6 DEF EntryIs
    <3>4. \A b \in Agents : pc'[b] = "waitShared" => b # p /\ Owner[0].OwnerThread # b
      BY <1>2, <1>4, <2>2, SharedFacts
    <3> QED
      BY <1>1, <1>4, <2>2, <3>1, <3>2, <3>3, <3>4, FirstShared
  <2> QED
    BY <2>1, <2>2
<1>19. EntriesInUse'
  BY <1>17, <1>18, EntriesAreNext
<1>20. PlaceOK(t)' /\ PlaceOK(p)'
  <2>1. PlaceOK(p)
    BY <1>1 DEF Places, PlaceOK
  <2> QED
    BY <1>1, <1>2, <1>3, <1>4, <1>8, <2>1 DEF PlaceOK
<1>21. Places'
  BY <1>4, <1>8, <1>15, <1>20, PlacesKept
<1> QED
  BY <1>8, <1>9, <1>13, <1>14, <1>19, <1>21 DEF ResourceInv

(* The pointer has an entry already.                                       *)
Merged(t, this, i) ==
    /\ Owner' = [Owner EXCEPT ![this].OwnerCount = @ + Owner[i].OwnerCount, ![i] = FreeEntry]
    /\ ActiveEntries' = ActiveEntries - 1
    /\ held' = [held EXCEPT ![t] = "none"]
    /\ UNCHANGED crashed
    /\ UNCHANGED <<Exclusive, ActiveCount, waiters, TableSize, objects, local>>

LEMMA MergedInv ==
    ASSUME ResourceInv, NEW t \in Threads, NEW p \in Pointers, pc[t] = "idle", held[t] # "none",
           ~Exclusive, NEW this \in DOMAIN Owner, Owner[this].OwnerThread = p,
           NEW i \in DOMAIN Owner, Owner[i].OwnerThread = t, Merged(t, this, i)
    PROVE  ResourceInv'
<1>1. /\ TypeOK /\ OneReleaser /\ Places /\ TableShape /\ TableOK(Owner, Recorded)
      /\ 0 \in DOMAIN Owner /\ EntriesInUse /\ t \in Agents /\ p \in Agents /\ t # p
      /\ p # GRANTED /\ p # NULL /\ NULL # GRANTED /\ t \notin Pointers /\ NULL \notin Agents
  BY EntriesAre, NameAssumption DEF ResourceInv, TableShape, Agents
<1>2. held' \in [Agents -> Modes] /\ OthersKeep(t, held, held') /\ held'[t] = "none"
  BY <1>1, SetHeldDoes DEF Merged, SetHeld, Modes
<1>3. /\ UNCHANGED <<Exclusive, ActiveCount, NumberOfSharedWaiters, NumberOfExclusiveWaiters,
                     SharedWaiters, ExclusiveWaiters, TableSize, crashed, pc, frame>>
      /\ ActiveEntries' = ActiveEntries - 1
  BY DEF Merged, waiters, objects, local
<1>4. pc' \in [Agents -> Labels] /\ frame' \in [Agents -> Frames] /\ pc'[t] = "idle"
  BY <1>1, <1>3 DEF TypeOK, Frames
<1>5. Moves(t)
  BY <1>2, <1>3 DEF Moves, OthersKeep
<1>6. held[p] # "none"
  <2>1. HasEntry(p)
    BY <1>1 DEF EntriesInUse, EntriesOf
  <2> QED
    BY <1>1, <2>1 DEF HasEntry, Places
<1> DEFINE n == Owner[this].OwnerCount + Owner[i].OwnerCount
           mid == [Owner EXCEPT ![this].OwnerCount = n]
<1>7. n \in Nat \ {0}
  BY <1>1 DEF TypeOK, EntriesInUse
<1>8. Owner' = [mid EXCEPT ![i] = FreeEntry] /\ this # i
  BY <1>1 DEF Merged
<1> HIDE DEF n
<1>9. EntryIs(Owner, mid, this, p, n) /\ \A j \in DOMAIN mid : mid[j] \in Entries
  BY <1>1, <1>7, SetCount
<1> HIDE DEF mid
<1>10. TableOK(mid, Recorded)
  BY <1>1, <1>7, <1>9, EntryRecounted
<1>11. EntryIs(mid, Owner', i, NULL, 0) /\ \A j \in DOMAIN Owner' : Owner'[j] \in Entries
  <2>1. FreeEntry \in Entries /\ FreeEntry.OwnerThread = NULL /\ FreeEntry.OwnerCount = 0
    BY DEF FreeEntry, Entries
  <2>2. DOMAIN mid = DOMAIN Owner
    BY <1>9 DEF EntryIs
  <2>3. /\ DOMAIN Owner' = DOMAIN mid /\ Owner'[i] = FreeEntry
        /\ \A j \in DOMAIN mid : j # i => Owner'[j] = mid[j]
    BY <1>8, <2>2
  <2> QED
    BY <1>9, <2>1, <2>2, <2>3 DEF EntryIs
<1>12. mid[i].OwnerThread = t
  BY <1>8, <1>9 DEF EntryIs
<1>13. TableOK(Owner', Recorded \ {t})
  BY <1>1, <1>10, <1>11, <1>12, EntryFreed
<1>14. TableShape' /\ 0 \in DOMAIN Owner' /\ (Unlimited' <=> Unlimited)
  BY <1>1, <1>3, <1>9, <1>11, ShapeKept DEF EntryIs
<1>15. Owner'[0].OwnerThread \in {Owner[0].OwnerThread, NULL}
  BY <1>1, <1>9, <1>11 DEF EntryIs
<1> DEFINE h == Many(held, Owns)
           sg == Granted(SharedWaiters, pc, frame)
           eg == GrantedExclusive(ExclusiveWaiters, pc)
           ws == Many(pc, SharedWaits)
           we == Many(pc, {"waitExclusive"})
<1>16. /\ Balance(Exclusive, ActiveEntries, ActiveCount, NumberOfSharedWaiters,
                  NumberOfExclusiveWaiters, h, sg, eg, ws, we)
       /\ h # 0
  BY <1>1, Facts
<1>17. /\ h \in Nat /\ sg \in Nat /\ eg \in Nat /\ ws \in Nat /\ we \in Nat /\ ActiveEntries \in Nat
       /\ NumberOfSharedWaiters \in Nat /\ NumberOfExclusiveWaiters \in Nat
  BY <1>1, Numbers
<1>18. h # 1
  <2>1. held[t] \in Owns /\ held[p] \in Owns
    BY <1>1, <1>6 DEF TypeOK, Owns
  <2> QED
    BY <1>1, <2>1, ManyType
<1> HIDE DEF h, sg, eg, ws, we
<1>19. ActiveEntries - 1 \in Nat /\ ActiveEntries - 1 # 0
  BY <1>16, <1>17, <1>18 DEF Balance
<1>20. TypeOK'
  BY <1>1, <1>2, <1>3, <1>4, <1>11, <1>14, <1>19, Typed DEF TypeOK
<1>21. /\ Many(held', Owns) = h - 1 /\ Granted(SharedWaiters', pc', frame') = sg
       /\ GrantedExclusive(ExclusiveWaiters', pc') = eg
       /\ Many(pc', SharedWaits) = ws /\ Many(pc', {"waitExclusive"}) = we /\ OneReleaser'
  BY <1>1, <1>2, <1>3, <1>5, <1>20, CountsMoved, GrantsMoved DEF SharedWaits, h, sg, eg, ws, we
<1>22. Balance(Exclusive', ActiveEntries', ActiveCount', NumberOfSharedWaiters',
               NumberOfExclusiveWaiters', Many(held', Owns),
               Granted(SharedWaiters', pc', frame'), GrantedExclusive(ExclusiveWaiters', pc'),
               Many(pc', SharedWaits), Many(pc', {"waitExclusive"}))
  BY <1>3, <1>16, <1>17, <1>19, <1>21 DEF Balance
<1>23. ExclusiveGrants' = 0 /\ eg = 0
  BY <1>20, <1>21, GrantsAreNext, SharedFacts DEF eg
<1>24. \A b \in Agents : held'[b] # "exclusive" /\ pc'[b] # "setOwner"
  BY <1>2, <1>3, SharedFacts DEF OthersKeep
<1>25. TableOK(Owner', Recorded')
  <2>1. ~HasEntry(t)'
    BY <1>2, <1>4 DEF HasEntry
  <2>2. Recorded' = Recorded \ {t}
    BY <1>1, <1>5, <2>1, SharedFacts, RecordedStep
  <2> QED
    BY <1>13, <2>2
<1>26. FirstEntry'
  BY <1>1, <1>3, <1>15, <1>23, <1>24, SharedFacts, FirstShared
<1>27. PlaceOK(t)'
  BY <1>1, <1>4 DEF PlaceOK
<1> QED
  BY <1>1, <1>3, <1>5, <1>14, <1>20, <1>21, <1>22, <1>24, <1>25, <1>26, <1>27, Finish

LEMMA SetOwnerPointerInv ==
    ASSUME ResourceInv, NEW t \in Threads, NEW p \in Pointers, ExSetResourceOwnerPointer(t, p)
    PROVE  ResourceInv'
<1>1. /\ TypeOK /\ Places /\ EntriesInUse /\ t \in Agents /\ p \in Agents /\ t # p
      /\ EntriesOf(t) \in SUBSET Nat /\ EntriesOf(p) \in SUBSET Nat /\ 0 \in DOMAIN Owner
  BY NameAssumption DEF ResourceInv, Agents, TableShape, EntriesOf
<1>2. pc[t] = "idle" /\ held[t] # "none"
  BY DEF ExSetResourceOwnerPointer
<1>3. HasEntry(t) /\ EntriesOf(t) # {}
  BY <1>1, <1>2 DEF HasEntry, Claiming, EntriesInUse
<1>4. /\ Min(EntriesOf(t)) \in DOMAIN Owner /\ Owner[Min(EntriesOf(t))].OwnerThread = t
      /\ EntriesOf(p) # {} => Min(EntriesOf(p)) \in DOMAIN Owner /\ Owner[Min(EntriesOf(p))].OwnerThread = p
  <2>1. Min(EntriesOf(t)) \in EntriesOf(t) /\ (EntriesOf(p) # {} => Min(EntriesOf(p)) \in EntriesOf(p))
    BY <1>1, <1>3, FirstOfIs
  <2> QED
    BY <2>1 DEF EntriesOf
<1>5. EntriesOf(p) = {} => held[p] = "none"
  BY <1>1 DEF EntriesInUse, HasEntry, Claiming, Places
<1>6. UNCHANGED <<Exclusive, ActiveCount, waiters, TableSize, objects, local>>
  BY DEF ExSetResourceOwnerPointer
<1>7. ~Exclusive => held[t] = "shared"
  BY <1>1, <1>2, SharedFacts DEF TypeOK
<1>8. CASE /\ Exclusive
           /\ Owner' = [Owner EXCEPT ![0].OwnerThread = p]
           /\ UNCHANGED <<ActiveEntries, crashed>>
           /\ held' = [held EXCEPT ![t] = "none", ![p] = "exclusive"]
  <2>1. Handed(t, p, 0, "exclusive")
    BY <1>6, <1>8 DEF Handed
  <2>2. held[t] = "exclusive" /\ held[p] = "none" /\ Owner[0].OwnerThread = t
    BY <1>1, <1>2, <1>8, ExclusiveFacts
  <2>3. "exclusive" \in Owns
    BY DEF Owns
  <2> QED
    BY <1>1, <1>2, <2>1, <2>2, <2>3, HandedInv
<1>9. CASE /\ ~Exclusive /\ EntriesOf(p) = {}
           /\ Owner' = [Owner EXCEPT ![Min(EntriesOf(t))].OwnerThread = p]
           /\ UNCHANGED <<ActiveEntries, crashed>>
           /\ held' = [held EXCEPT ![t] = "none", ![p] = "shared"]
  <2>1. Handed(t, p, Min(EntriesOf(t)), "shared")
    BY <1>6, <1>9 DEF Handed
  <2>2. "shared" \in Owns /\ ~Exclusive
    BY <1>9 DEF Owns
  <2> QED
    BY <1>2, <1>4, <1>5, <1>7, <1>9, <2>1, <2>2, HandedInv
<1>10. CASE /\ ~Exclusive /\ EntriesOf(p) # {}
            /\ Owner' = [Owner EXCEPT ![Min(EntriesOf(p))].OwnerCount = @ + Owner[Min(EntriesOf(t))].OwnerCount,
                                      ![Min(EntriesOf(t))] = FreeEntry]
            /\ ActiveEntries' = ActiveEntries - 1
            /\ held' = [held EXCEPT ![t] = "none"]
            /\ UNCHANGED crashed
  <2> DEFINE this == Min(EntriesOf(p))
             i == Min(EntriesOf(t))
  <2>1. /\ this \in DOMAIN Owner /\ Owner[this].OwnerThread = p
        /\ i \in DOMAIN Owner /\ Owner[i].OwnerThread = t
    BY <1>4, <1>10
  <2>2. Merged(t, this, i)
    BY <1>6, <1>10 DEF Merged
  <2>3. ~Exclusive
    BY <1>10
  <2> HIDE DEF this, i
  <2> QED
    BY <1>2, <2>1, <2>2, <2>3, MergedInv
<1>11. CASE crashed' = TRUE /\ UNCHANGED <<Owner, ActiveEntries, held>>
  <2>1. UNCHANGED <<counts, waiters, table, objects, local, held>>
    BY <1>6, <1>11 DEF counts, table
  <2> QED
    BY <1>11, <2>1, OnlyCrashed
<1> QED
  BY <1>8, <1>9, <1>10, <1>11 DEF ExSetResourceOwnerPointer

-----------------------------------------------------------------------------
(* A resource that is initialized, again or for the first time.            *)

(* All agents are idle and have nothing, and every entry is free.          *)
Blank ==
    /\ Exclusive = FALSE /\ ActiveCount = 0 /\ ActiveEntries = 0
    /\ NumberOfSharedWaiters = 0 /\ NumberOfExclusiveWaiters = 0
    /\ TableSize = 0 /\ 0 \in DOMAIN Owner /\ DOMAIN Owner \subseteq Nat
    /\ \A i \in DOMAIN Owner : Owner[i] = FreeEntry
    /\ SharedWaiters \in {NULL, 0} /\ ExclusiveWaiters \in BOOLEAN \cup {NULL} /\ ~IsSet(ExclusiveWaiters)
    /\ crashed \in BOOLEAN
    /\ pc \in [Agents -> Labels] /\ frame \in [Agents -> Frames] /\ held \in [Agents -> Modes]
    /\ \A a \in Agents : pc[a] = "idle" /\ held[a] = "none"

LEMMA BlankInv ==
    ASSUME Blank
    PROVE  ResourceInv
<1>1. FreeEntry \in Entries /\ FreeEntry.OwnerThread = NULL /\ FreeEntry.OwnerCount = 0
  BY DEF FreeEntry, Entries
<1>2. TypeOK
  <2>1. \A i \in DOMAIN Owner : Owner[i] \in Entries
    BY <1>1 DEF Blank
  <2>2. /\ Exclusive \in BOOLEAN /\ ActiveCount \in Nat /\ ActiveEntries \in Nat
        /\ NumberOfSharedWaiters \in Nat /\ NumberOfExclusiveWaiters \in Nat
        /\ TableSize \in Nat /\ SharedWaiters \in Nat \cup {NULL}
    BY DEF Blank
  <2>3. /\ 0 \in DOMAIN Owner /\ ExclusiveWaiters \in BOOLEAN \cup {NULL} /\ crashed \in BOOLEAN
        /\ pc \in [Agents -> Labels] /\ frame \in [Agents -> Frames] /\ held \in [Agents -> Modes]
    BY DEF Blank
  <2> QED
    BY <2>1, <2>2, <2>3, Zenon DEF TypeOK, Entries, Frames, Modes
<1>3. \A a \in Agents : pc[a] = "idle" /\ held[a] = "none"
  BY DEF Blank
<1>4. Places /\ OneReleaser
  BY <1>3 DEF Places, OneReleaser, At
<1>5. TableShape
  BY DEF Blank, TableShape
<1>6. GrantedExclusive(ExclusiveWaiters, pc) = 0
  <2>1. Many(pc, {"setEvent"}) = 0
    BY <1>3, ManyType
  <2>2. ~IsSet(ExclusiveWaiters)
    BY DEF Blank
  <2> QED
    BY <2>1, <2>2 DEF GrantedExclusive
<1>7. Granted(SharedWaiters, pc, frame) = 0
  <2>1. Where(pc, {"releaseSemaphore"}) = {}
    BY <1>3 DEF Where
  <2> QED
    BY <2>1, HandsEmpty DEF Blank, Granted
<1>8. Many(held, Owns) = 0 /\ Many(pc, SharedWaits) = 0 /\ Many(pc, {"waitExclusive"}) = 0
  BY <1>3, ManyType DEF Owns, SharedWaits
<1>9. GrantsCounted
  <2>1. Balance(Exclusive, ActiveEntries, ActiveCount, NumberOfSharedWaiters,
                NumberOfExclusiveWaiters, Many(held, Owns), Granted(SharedWaiters, pc, frame),
                GrantedExclusive(ExclusiveWaiters, pc), Many(pc, SharedWaits),
                Many(pc, {"waitExclusive"}))
    BY <1>6, <1>7, <1>8 DEF Blank, Balance
  <2> QED
    BY <1>2, <1>3, <2>1, GrantsAre
<1>10. ExclusiveGrants = 0
  BY <1>2, <1>6, GrantsAre
<1>11. EntriesInUse
  <2>1. \A i \in DOMAIN Owner : Owner[i].OwnerThread = NULL /\ Owner[i].OwnerCount = 0
    BY <1>1 DEF Blank
  <2>2. NULL \notin Agents /\ NULL # GRANTED /\ 0 \in DOMAIN Owner
    BY <1>5, NameAssumption DEF TableShape
  <2>3. \A a \in Agents : ~HasEntry(a)
    BY <1>3 DEF HasEntry
  <2>4. TableOK(Owner, Recorded)
    BY <2>1, <2>2, <2>3 DEF TableOK, Entered, Recorded
  <2>5. FirstEntry
    BY <1>3, <1>10, <2>1, <2>2 DEF FirstEntry, At, Holders
  <2> QED
    BY <2>4, <2>5, EntriesAre
<1> QED
  BY <1>2, <1>4, <1>5, <1>9, <1>11 DEF ResourceInv

LEMMA InitInv == Init => ResourceInv
<1> SUFFICES ASSUME Init PROVE ResourceInv
  OBVIOUS
<1>1. ~IsSet(ExclusiveWaiters)
  BY NameAssumption, Zenon DEF Init, IsSet
<1>2. NoFrame \in Frames
  BY NoFrameType
<1>3. frame \in [Agents -> Frames]
  BY <1>2, Zenon DEF Init
<1>4. /\ pc \in [Agents -> Labels] /\ held \in [Agents -> Modes]
      /\ \A a \in Agents : pc[a] = "idle" /\ held[a] = "none"
  BY DEF Init, Labels, Modes
<1>5. /\ 0 \in DOMAIN Owner /\ DOMAIN Owner \subseteq Nat
      /\ \A i \in DOMAIN Owner : Owner[i] = FreeEntry
  BY DEF Init
<1>6. ExclusiveWaiters \in BOOLEAN \cup {NULL} /\ crashed \in BOOLEAN /\ SharedWaiters \in {NULL, 0}
  BY Zenon DEF Init
<1>7. /\ Exclusive = FALSE /\ ActiveCount = 0 /\ ActiveEntries = 0 /\ TableSize = 0
      /\ NumberOfSharedWaiters = 0 /\ NumberOfExclusiveWaiters = 0
  BY DEF Init
<1>8. Blank
  BY <1>1, <1>3, <1>4, <1>5, <1>6, <1>7, Zenon DEF Blank
<1> QED
  BY <1>8, BlankInv

LEMMA ResetInv ==
    ASSUME ResourceInv, Unused, Reset,
           \/ Owner' = [i \in {0} |-> FreeEntry]
           \/ Owner' = [i \in DOMAIN Owner |-> FreeEntry],
           SharedWaiters' \in {NULL, 0}, ExclusiveWaiters' \in {NULL, FALSE}
    PROVE  ResourceInv'
<1>1. ~IsSet(ExclusiveWaiters') /\ ExclusiveWaiters' \in BOOLEAN \cup {NULL}
  BY NameAssumption, Zenon DEF IsSet
<1>2. TypeOK /\ TableShape
  BY DEF ResourceInv
<1>3. UNCHANGED <<crashed, pc, frame, held>> /\ \A a \in Agents : pc[a] = "idle" /\ held[a] = "none"
  BY DEF Reset, Unused, local
<1>4. /\ 0 \in DOMAIN Owner' /\ DOMAIN Owner' \subseteq Nat
      /\ \A i \in DOMAIN Owner' : Owner'[i] = FreeEntry
  BY <1>2 DEF TableShape
<1>5. /\ crashed' \in BOOLEAN /\ pc' \in [Agents -> Labels] /\ frame' \in [Agents -> Frames]
      /\ held' \in [Agents -> Modes]
  BY <1>2, <1>3 DEF TypeOK, Frames, Modes
<1>6. Blank'
  BY <1>1, <1>3, <1>4, <1>5 DEF Blank, Reset
<1>7. Blank' => ResourceInv'
  BY BlankInv, PTL
<1> QED
  BY <1>6, <1>7

LEMMA DeleteInv ==
    ASSUME ResourceInv, DeleteAndInitialize
    PROVE  ResourceInv'
  BY ResetInv DEF DeleteAndInitialize

LEMMA ReinitializeInv ==
    ASSUME ResourceInv, ExReinitializeResourceLite
    PROVE  ResourceInv'
<1>1. SharedWaiters' \in {NULL, 0} /\ ExclusiveWaiters' \in {NULL, FALSE}
  BY Zenon DEF ExReinitializeResourceLite
<1> QED
  BY <1>1, ResetInv DEF ExReinitializeResourceLite

-----------------------------------------------------------------------------
(* The routines that acquire.                                              *)

(* A caller that is not the exclusive owner holds nothing then.            *)
LEMMA NotOwner ==
    ASSUME ResourceInv, NEW t \in Agents, pc[t] \in {"idle", "retry"}
    PROVE  /\ pc[t] = "retry" => held[t] = "none"
           /\ held[t] = "exclusive" => OwnedBy(t)
           /\ Exclusive /\ ~OwnedBy(t) => held[t] = "none"
           /\ HasEntry(t) <=> held[t] # "none"
           /\ OwnedBy(t) => 0 \in DOMAIN Owner /\ Owner[0].OwnerThread = t
<1>1. TypeOK /\ Places /\ EntriesInUse /\ TableShape
  BY DEF ResourceInv
<1>2. pc[t] = "retry" => held[t] = "none"
  BY <1>1 DEF Places
<1>3. held[t] = "exclusive" => OwnedBy(t)
  BY <1>1, Facts DEF EntriesInUse, OwnedBy
<1>4. Exclusive => held[t] \in {"none", "exclusive"}
  BY Facts
<1>5. HasEntry(t) <=> held[t] # "none"
  BY DEF HasEntry, Claiming
<1> QED
  BY <1>1, <1>2, <1>3, <1>4, <1>5 DEF OwnedBy, TableShape

LEMMA WaitSharedInv ==
    ASSUME ResourceInv, NEW t \in Threads, pc[t] \in {"idle", "retry"}, ActiveEntries # 0,
           Exclusive \/ NumberOfExclusiveWaiters > 0,
           NEW i, i = NULL \/ (i \in DOMAIN Owner /\ i # 0 /\ Owner[i].OwnerThread = NULL),
           NEW call \in Calls, NEW Wait \in BOOLEAN, Wait => held[t] = "none",
           WaitShared(t, i, call, Wait)
    PROVE  ResourceInv'
<1>1. t \in Agents
  BY DEF Agents
<1>2. CASE Refuse(t)
  BY <1>1, <1>2, RefuseInv
<1>3. CASE Wait /\ Suspend(t, "allocateSemaphore", call, Wait)
  BY <1>3, SuspendInv
<1>4. CASE /\ Wait /\ SharedWaiters # NULL
           /\ Owner' = IF i = NULL THEN Owner
                       ELSE [Owner EXCEPT ![i] = [OwnerThread |-> t, OwnerCount |-> 1]]
           /\ NumberOfSharedWaiters' = NumberOfSharedWaiters + 1
           /\ Goto(t, IF i = NULL THEN "waitUnlisted" ELSE "waitShared")
           /\ UNCHANGED <<counts, NumberOfExclusiveWaiters, TableSize, objects, crashed, held>>
  BY <1>4, BeginWaitShared
<1> QED
  BY <1>2, <1>3, <1>4 DEF WaitShared

LEMMA AcquireUnsharedInv ==
    ASSUME ResourceInv, NEW t \in Threads, pc[t] \in {"idle", "retry"},
           NEW call \in Calls, NEW Wait \in BOOLEAN, AcquireUnshared(t, call, Wait)
    PROVE  ResourceInv'
<1>1. t \in Agents /\ "shared" \in Owns
  BY DEF Agents, Owns
<1>2. CASE ActiveEntries = 0 /\ TakeUnowned(t, "shared")
  BY <1>1, <1>2, TakeUnownedInv
<1>3. CASE OwnedBy(t) /\ Recurse(t, 0)
  BY <1>1, <1>3, NotOwner, RecurseInv
<1>4. CASE /\ ActiveEntries # 0 /\ Exclusive /\ ~OwnedBy(t)
           /\ IF ExpFindFreeEntry = NULL THEN BeginExpand(t, call, Wait)
              ELSE WaitShared(t, ExpFindFreeEntry, call, Wait)
  <2>1. held[t] = "none"
    BY <1>1, <1>4, NotOwner
  <2>2. CASE ExpFindFreeEntry = NULL
    BY <1>4, <2>1, <2>2, BeginExpandInv
  <2>3. CASE ExpFindFreeEntry # NULL
    BY <1>4, <2>1, <2>3, FindFree, WaitSharedInv
  <2> QED
    BY <2>2, <2>3
<1> QED
  BY <1>2, <1>3, <1>4 DEF AcquireUnshared

LEMMA JoinSharersInv ==
    ASSUME ResourceInv, NEW t \in Threads, pc[t] \in {"idle", "retry"}, OwnedShared,
           NEW call \in Calls, NEW Wait \in BOOLEAN, JoinSharers(t, call, Wait)
    PROVE  ResourceInv'
<1>1. t \in Agents /\ ActiveEntries # 0 /\ ~Exclusive
  BY DEF Agents, OwnedShared
<1> DEFINE i == ExpFindEntryForThread(t, FALSE)
<1>2. /\ HasEntry(t) => i # NULL
      /\ i # NULL /\ HasEntry(t) => i \in DOMAIN Owner /\ Owner[i].OwnerThread = t
      /\ i # NULL /\ ~HasEntry(t) =>
            i \in DOMAIN Owner /\ Owner[i].OwnerThread = NULL /\ Owner[i].OwnerThread # t
  BY <1>1, FindEntry
<1>3. \/ i = NULL /\ BeginExpand(t, call, Wait)
      \/ i # NULL /\ Owner[i].OwnerThread = t /\ Recurse(t, i)
      \/ i # NULL /\ Owner[i].OwnerThread # t /\ Join(t, i)
  BY DEF JoinSharers
<1> HIDE DEF i
<1>4. HasEntry(t) <=> held[t] # "none"
  BY <1>1, NotOwner
<1>5. CASE i = NULL /\ BeginExpand(t, call, Wait)
  BY <1>2, <1>4, <1>5, BeginExpandInv
<1>6. CASE i # NULL /\ Owner[i].OwnerThread = t /\ Recurse(t, i)
  BY <1>1, <1>2, <1>6, RecurseInv
<1>7. CASE i # NULL /\ Owner[i].OwnerThread # t /\ Join(t, i)
  BY <1>1, <1>2, <1>4, <1>7, JoinInv
<1> QED
  BY <1>3, <1>5, <1>6, <1>7

LEMMA AcquireExclusiveInv ==
    ASSUME ResourceInv, NEW t \in Threads, pc[t] \in {"idle", "retry"}, NEW Wait \in BOOLEAN,
           held[t] = "shared" => ~Wait, ExAcquireResourceExclusiveLite(t, Wait)
    PROVE  ResourceInv'
<1>1. t \in Agents /\ "exclusive" \in Owns /\ "Exclusive" \in Calls /\ TypeOK
  BY DEF Agents, Owns, Calls, ResourceInv
<1>2. CASE ActiveEntries = 0 /\ TakeUnowned(t, "exclusive")
  BY <1>1, <1>2, TakeUnownedInv
<1>3. CASE OwnedBy(t) /\ Recurse(t, 0)
  BY <1>1, <1>3, NotOwner, RecurseInv
<1>4. CASE /\ ActiveEntries # 0 /\ ~OwnedBy(t)
           /\ \/ ~Wait /\ Refuse(t)
              \/ /\ Wait /\ ExclusiveWaiters = NULL
                 /\ Suspend(t, "allocateEvent", "Exclusive", Wait)
              \/ /\ Wait /\ ExclusiveWaiters # NULL
                 /\ NumberOfExclusiveWaiters' = NumberOfExclusiveWaiters + 1
                 /\ Goto(t, "waitExclusive")
                 /\ UNCHANGED <<counts, NumberOfSharedWaiters, table, objects, crashed, held>>
  <2>1. Wait => held[t] = "none"
    BY <1>1, <1>4, NotOwner DEF TypeOK
  <2>2. CASE Refuse(t)
    BY <1>1, <2>2, RefuseInv
  <2>3. CASE Wait /\ Suspend(t, "allocateEvent", "Exclusive", Wait)
    BY <1>1, <2>1, <2>3, SuspendInv
  <2>4. CASE /\ Wait
             /\ NumberOfExclusiveWaiters' = NumberOfExclusiveWaiters + 1
             /\ Goto(t, "waitExclusive")
             /\ UNCHANGED <<counts, NumberOfSharedWaiters, table, objects, crashed, held>>
    BY <1>4, <2>1, <2>4, WaitExclusiveInv
  <2> QED
    BY <1>4, <2>2, <2>3, <2>4
<1> QED
  BY <1>2, <1>3, <1>4 DEF ExAcquireResourceExclusiveLite

LEMMA TryExclusiveInv ==
    ASSUME ResourceInv, NEW t \in Threads, pc[t] \in {"idle", "retry"},
           ExTryToAcquireResourceExclusiveLite(t)
    PROVE  ResourceInv'
<1>1. t \in Agents /\ "exclusive" \in Owns
  BY DEF Agents, Owns
<1>2. CASE ActiveCount = 0 /\ TakeUnowned(t, "exclusive")
  <2>1. ActiveEntries = 0
    BY <1>2 DEF ResourceInv, GrantsCounted
  <2> QED
    BY <1>1, <1>2, <2>1, TakeUnownedInv
<1>3. CASE OwnedBy(t) /\ Recurse(t, 0)
  BY <1>1, <1>3, NotOwner, RecurseInv
<1>4. CASE Refuse(t)
  BY <1>1, <1>4, RefuseInv
<1> QED
  BY <1>2, <1>3, <1>4 DEF ExTryToAcquireResourceExclusiveLite

LEMMA AcquireSharedInv ==
    ASSUME ResourceInv, NEW t \in Threads, pc[t] \in {"idle", "retry"}, NEW Wait \in BOOLEAN,
           ExAcquireResourceSharedLite(t, Wait)
    PROVE  ResourceInv'
<1>1. t \in Agents /\ "Shared" \in Calls
  BY DEF Agents, Calls, SharedCalls
<1> DEFINE busy == NumberOfExclusiveWaiters > 0
           i == ExpFindEntryForThread(t, busy)
<1>2. /\ HasEntry(t) => i # NULL
      /\ i # NULL /\ HasEntry(t) => i \in DOMAIN Owner /\ Owner[i].OwnerThread = t
      /\ i # NULL /\ ~HasEntry(t) =>
            /\ i \in DOMAIN Owner /\ Owner[i].OwnerThread = NULL /\ Owner[i].OwnerThread # t
            /\ busy => i # 0
  BY <1>1, FindEntry
<1>3. \/ AcquireUnshared(t, "Shared", Wait)
      \/ OwnedShared /\ i = NULL /\ BeginExpand(t, "Shared", Wait)
      \/ OwnedShared /\ i # NULL /\ Owner[i].OwnerThread = t /\ Recurse(t, i)
      \/ /\ OwnedShared /\ i # NULL /\ Owner[i].OwnerThread # t
         /\ IF busy THEN WaitShared(t, i, "Shared", Wait) ELSE Join(t, i)
  BY DEF ExAcquireResourceSharedLite
<1> HIDE DEF i
<1>4. HasEntry(t) <=> held[t] # "none"
  BY <1>1, NotOwner
<1>5. OwnedShared => ActiveEntries # 0 /\ ~Exclusive
  BY DEF OwnedShared
<1>6. CASE AcquireUnshared(t, "Shared", Wait)
  BY <1>1, <1>6, AcquireUnsharedInv
<1>7. CASE i = NULL /\ BeginExpand(t, "Shared", Wait)
  BY <1>1, <1>2, <1>4, <1>7, BeginExpandInv
<1>8. CASE i # NULL /\ Owner[i].OwnerThread = t /\ Recurse(t, i)
  BY <1>1, <1>2, <1>8, RecurseInv
<1>9. CASE /\ OwnedShared /\ i # NULL /\ Owner[i].OwnerThread # t
           /\ IF busy THEN WaitShared(t, i, "Shared", Wait) ELSE Join(t, i)
  <2>1. CASE busy
    BY <1>1, <1>2, <1>4, <1>5, <1>9, <2>1, WaitSharedInv
  <2>2. CASE ~busy
    BY <1>1, <1>2, <1>4, <1>5, <1>9, <2>2, JoinInv
  <2> QED
    BY <2>1, <2>2
<1> QED
  BY <1>3, <1>6, <1>7, <1>8, <1>9

LEMMA AcquireInv ==
    ASSUME ResourceInv, NEW t \in Threads, pc[t] \in {"idle", "retry"}, NEW call, NEW Wait \in BOOLEAN,
           call \in {"Exclusive", "WaitForExclusive"} /\ held[t] = "shared" => ~Wait,
           Acquire(t, call, Wait)
    PROVE  ResourceInv'
<1>1. t \in Agents /\ {"StarveExclusive", "WaitForExclusive"} \subseteq Calls /\ TypeOK
  BY DEF Agents, Calls, SharedCalls, ResourceInv
<1>2. CASE call = "Exclusive" /\ ExAcquireResourceExclusiveLite(t, Wait)
  BY <1>2, AcquireExclusiveInv
<1>3. CASE ExTryToAcquireResourceExclusiveLite(t)
  BY <1>3, TryExclusiveInv
<1>4. CASE ExAcquireResourceSharedLite(t, Wait)
  BY <1>4, AcquireSharedInv
<1>5. CASE ExAcquireSharedStarveExclusive(t, Wait)
  <2>1. CASE AcquireUnshared(t, "StarveExclusive", Wait)
    BY <1>1, <2>1, AcquireUnsharedInv
  <2>2. CASE OwnedShared /\ JoinSharers(t, "StarveExclusive", Wait)
    BY <1>1, <2>2, JoinSharersInv
  <2> QED
    BY <1>5, <2>1, <2>2 DEF ExAcquireSharedStarveExclusive
<1>6. CASE call = "WaitForExclusive" /\ ExAcquireSharedWaitForExclusive(t, Wait)
  <2>1. CASE AcquireUnshared(t, "WaitForExclusive", Wait)
    BY <1>1, <2>1, AcquireUnsharedInv
  <2>2. CASE /\ OwnedShared /\ NumberOfExclusiveWaiters > 0
             /\ WaitShared(t, NULL, "WaitForExclusive", Wait)
    <3>1. ActiveEntries # 0 /\ ~Exclusive
      BY <2>2 DEF OwnedShared
    <3>2. Wait => held[t] = "none"
      BY <1>1, <1>6, <3>1, SharedFacts DEF TypeOK
    <3> QED
      BY <1>1, <2>2, <3>1, <3>2, WaitSharedInv
  <2>3. CASE OwnedShared /\ JoinSharers(t, "WaitForExclusive", Wait)
    BY <1>1, <2>3, JoinSharersInv
  <2> QED
    BY <1>6, <2>1, <2>2, <2>3 DEF ExAcquireSharedWaitForExclusive
<1> QED
  BY <1>2, <1>3, <1>4, <1>5, <1>6 DEF Acquire

LEMMA ClaimEntryInv ==
    ASSUME ResourceInv, NEW t \in Threads, ClaimEntry(t)
    PROVE  ResourceInv'
<1>1. t \in Agents /\ "WaitForExclusive" \in Calls /\ pc[t] = "claim"
  BY DEF Agents, Calls, SharedCalls, ClaimEntry
<1> DEFINE i == ExpFindEntryForThread(t, TRUE)
<1>2. ~HasEntry(t)
  BY <1>1 DEF HasEntry, Claiming
<1>3. i # NULL => i \in DOMAIN Owner /\ Owner[i].OwnerThread = NULL /\ i # 0
  BY <1>1, <1>2, FindEntry
<1>4. \/ BeginExpand(t, "WaitForExclusive", TRUE)
      \/ /\ i # NULL
         /\ Owner' = [Owner EXCEPT ![i] = [OwnerThread |-> t, OwnerCount |-> 1]]
         /\ Return(t)
         /\ UNCHANGED <<counts, waiters, TableSize, objects, crashed, held>>
  BY DEF ClaimEntry
<1> HIDE DEF i
<1>5. CASE BeginExpand(t, "WaitForExclusive", TRUE)
  BY <1>1, <1>5, BeginExpandInv
<1>6. CASE /\ i # NULL
           /\ Owner' = [Owner EXCEPT ![i] = [OwnerThread |-> t, OwnerCount |-> 1]]
           /\ Return(t)
           /\ UNCHANGED <<counts, waiters, TableSize, objects, crashed, held>>
  BY <1>1, <1>3, <1>6, ClaimInv
<1> QED
  BY <1>4, <1>5, <1>6

-----------------------------------------------------------------------------
(* The invariant and what follows from it.                                 *)

LEMMA NextInv ==
    ASSUME ResourceInv, [Next]_vars
    PROVE  ResourceInv'
<1>1. TypeOK /\ Places
  BY DEF ResourceInv
<1>2. ASSUME NEW t \in Threads, Begin(t) PROVE ResourceInv'
  <2>1. PICK call \in Calls, Wait \in BOOLEAN :
           /\ call \in {"Exclusive", "WaitForExclusive"} /\ held[t] = "shared" => ~Wait
           /\ Acquire(t, call, Wait)
    BY <1>2 DEF Begin
  <2>2. pc[t] = "idle"
    BY <1>2 DEF Begin
  <2> QED
    BY <2>1, <2>2, AcquireInv
<1>3. ASSUME NEW t \in Threads, Retry(t) PROVE ResourceInv'
  <2>1. pc[t] = "retry" /\ Acquire(t, frame[t].call, frame[t].Wait)
    BY <1>3 DEF Retry
  <2>2. held[t] = "none" /\ frame[t].Wait \in BOOLEAN
    BY <1>1, <2>1 DEF Places, TypeOK, Agents
  <2> QED
    BY <2>1, <2>2, AcquireInv
<1>4. ASSUME NEW t \in Threads, AcquireStep(t) PROVE ResourceInv'
  BY <1>3, <1>4, WaitForSemaphoreInv, ClaimEntryInv, WaitForEventInv, SetOwnerInv, AllocateEventInv,
     AllocateSemaphoreInv, ExpandInv DEF AcquireStep
<1>5. ASSUME NEW a \in Agents, KeSetEventBoostPriority(a) PROVE ResourceInv'
  <2>1. pc[a] = "setEvent" /\ UNCHANGED <<counts, waiters, TableSize, SharedWaiters, crashed>>
    BY <1>5 DEF KeSetEventBoostPriority
  <2>2. CASE ExclusiveWaiters' = TRUE /\ Return(a) /\ UNCHANGED <<Owner, held>>
    BY <2>1, <2>2, EventSetInv
  <2>3. ASSUME NEW t \in Threads, pc[t] = "waitExclusive",
               Owner' = [Owner EXCEPT ![0].OwnerThread = t],
               pc' = [pc EXCEPT ![a] = "idle", ![t] = "setOwner"],
               frame' = [frame EXCEPT ![a] = NoFrame],
               SetHeld(t, "exclusive"), UNCHANGED ExclusiveWaiters
        PROVE  ResourceInv'
    <3>1. Wakes(a, t)
      BY <2>1, <2>3 DEF Wakes
    <3> QED
      BY <2>1, <2>3, <3>1, EventWakesInv
  <2> QED
    BY <1>5, <2>2, <2>3 DEF KeSetEventBoostPriority
<1>6. ASSUME NEW a \in Agents, ReleaseStep(a) PROVE ResourceInv'
  BY <1>5, <1>6, KeReleaseSemaphoreInv, ReleaseInv DEF ReleaseStep
<1>7. CASE UNCHANGED vars
  <2>1. crashed' \in BOOLEAN /\ UNCHANGED <<counts, waiters, table, objects, local, held>>
    BY <1>1, <1>7 DEF vars, TypeOK
  <2> QED
    BY <2>1, OnlyCrashed
<1> QED
  BY <1>2, <1>4, <1>6, <1>7, ConvertInv, SetOwnerPointerInv, DeleteInv, ReinitializeInv DEF Next

(* ResourceInv holds in every state: whatever the threads do between two   *)
(* sections under the spin lock, counters, grants, waiters and the owner   *)
(* table fit together.                                                     *)
THEOREM ResourceInvariance == Spec => []ResourceInv
  BY InitInv, NextInv, PTL DEF Spec

(* The values of the variables; in particular no count of owners, grants   *)
(* or waiters is taken below zero by the routines that hand the resource   *)
(* on.                                                                     *)
THEOREM TypeCorrect == Spec => []TypeOK
<1>1. ResourceInv => TypeOK
  BY DEF ResourceInv
<1> QED
  BY <1>1, ResourceInvariance, PTL

(* ActiveEntries counts the owners and the grants on their way, the        *)
(* numbers of waiters the threads that still wait: no grant is lost and    *)
(* none is made twice, whoever takes whose grant.                          *)
THEOREM GrantsExact == Spec => []GrantsCounted
<1>1. ResourceInv => GrantsCounted
  BY DEF ResourceInv
<1> QED
  BY <1>1, ResourceInvariance, PTL

LEMMA InvRecords ==
    ASSUME ResourceInv
    PROVE  OwnersRecorded
<1>1. TypeOK /\ EntriesInUse /\ TableShape /\ 0 \in DOMAIN Owner /\ NULL \notin Agents
      /\ NULL # GRANTED /\ GRANTED \notin Agents
  BY NameAssumption DEF ResourceInv, TableShape
<1>2. ASSUME NEW a \in Agents PROVE Cardinality(EntriesOf(a)) = IF HasEntry(a) THEN 1 ELSE 0
  <2>1. CASE HasEntry(a)
    <3>1. PICK i \in DOMAIN Owner : Owner[i].OwnerThread = a
      BY <1>1, <2>1 DEF EntriesInUse, EntriesOf
    <3>2. EntriesOf(a) = {i}
      BY <1>1, <3>1 DEF EntriesInUse, EntriesOf
    <3> QED
      BY <2>1, <3>2, FS_Singleton
  <2>2. CASE ~HasEntry(a)
    <3>1. EntriesOf(a) = {}
      BY <1>1, <2>2 DEF EntriesInUse
    <3> QED
      BY <2>2, <3>1, FS_EmptySet
  <2> QED
    BY <2>1, <2>2
<1>3. \A a \in At({"waitShared"}) : Owner[0].OwnerThread # a
  BY <1>1 DEF EntriesInUse
<1>4. Exclusive => Owner[0].OwnerThread # NULL /\ Owner[0].OwnerCount > 0
  <2> SUFFICES ASSUME Exclusive PROVE Owner[0].OwnerThread # NULL /\ Owner[0].OwnerCount > 0
    OBVIOUS
  <2>1. Owner[0].OwnerThread # NULL
    <3>1. CASE \E a \in Agents : held[a] # "none"
      <4>1. PICK a \in Agents : held[a] # "none"
        BY <3>1
      <4>2. held[a] = "exclusive"
        BY <4>1, Facts
      <4> QED
        BY <1>1, <4>2 DEF EntriesInUse
    <3>2. CASE \A a \in Agents : held[a] = "none"
      <4>1. Many(held, Owns) = 0
        BY <3>2, Facts
      <4>2. ExclusiveGrants = 1
        <5> DEFINE eg == GrantedExclusive(ExclusiveWaiters, pc)
        <5>1. Balance(Exclusive, ActiveEntries, ActiveCount, NumberOfSharedWaiters,
                      NumberOfExclusiveWaiters, 0, Granted(SharedWaiters, pc, frame),
                      eg, Many(pc, SharedWaits), Many(pc, {"waitExclusive"}))
              /\ eg \in Nat /\ ExclusiveGrants = eg
          BY <4>1, Facts
        <5> HIDE DEF eg
        <5> QED
          BY <5>1 DEF Balance
      <4> QED
        BY <1>1, <4>2 DEF EntriesInUse
    <3> QED
      BY <3>1, <3>2
  <2>2. Owner[0].OwnerCount # 0 /\ Owner[0].OwnerCount \in Nat
    BY <1>1, <2>1 DEF EntriesInUse, TypeOK
  <2> QED
    BY <2>1, <2>2
<1>5. EntriesOf(GRANTED) = IF ExclusiveGrants = 1 \/ \E a \in At({"setOwner"}) : Owner[0].OwnerThread # a
                           THEN {0} ELSE {}
  <2>1. EntriesOf(GRANTED) = IF Owner[0].OwnerThread = GRANTED THEN {0} ELSE {}
    BY <1>1 DEF EntriesInUse, EntriesOf
  <2> QED
    BY <1>1, <2>1 DEF EntriesInUse
<1>6. \A i \in DOMAIN Owner : (Owner[i].OwnerThread = NULL) = (Owner[i].OwnerCount = 0)
  BY <1>1 DEF EntriesInUse
<1> QED
  BY <1>2, <1>3, <1>4, <1>5, <1>6 DEF OwnersRecorded

(* The owner table knows every owner exactly once, through grants, joins,  *)
(* conversions, hand-overs and larger tables: a release finds the entry it *)
(* looks for, and never the one of somebody else.                          *)
THEOREM OwnersFound == Spec => []OwnersRecorded
  BY InvRecords, ResourceInvariance, PTL

-----------------------------------------------------------------------------
(* Every step acquires, releases, downgrades or hands over as a lock with  *)
(* shared and exclusive modes may, or changes nothing that is held.        *)

LEMMA AcquiresExclusive ==
    ASSUME NEW t \in Threads, \A a \in Agents : held[a] = "none", SetHeld(t, "exclusive")
    PROVE  RW!Next
<1>1. t \in Threads \cup Pointers /\ Agents = Threads \cup Pointers
  BY DEF Agents
<1>2. RW!Lock!AcquireExclusive(t)
  BY <1>1 DEF RW!Lock!AcquireExclusive, RW!Lock!Alone, SetHeld
<1> QED
  BY <1>2 DEF RW!Next

LEMMA AcquiresShared ==
    ASSUME NEW t \in Threads, held[t] = "none", \A a \in Agents : held[a] # "exclusive",
           SetHeld(t, "shared")
    PROVE  RW!Next
<1>1. RW!Lock!AcquireShared(t)
  BY DEF RW!Lock!AcquireShared, SetHeld, Agents
<1> QED
  BY <1>1 DEF RW!Next

LEMMA Releases ==
    ASSUME NEW a \in Agents, held[a] # "none", SetHeld(a, "none")
    PROVE  RW!Next
<1>1. a \in Threads \cup Pointers
  BY DEF Agents
<1>2. RW!Lock!Release(a)
  BY DEF RW!Lock!Release, SetHeld
<1> QED
  BY <1>1, <1>2 DEF RW!Next

(* The sections that acquire take nothing from a thread, and give only     *)
(* what nobody has or what all have shared.                                *)
LEMMA TakeUnownedStep ==
    ASSUME ResourceInv, NEW t \in Threads, ActiveEntries = 0,
           NEW mode \in Owns, TakeUnowned(t, mode)
    PROVE  RW!Next
<1>1. (\A a \in Agents : held[a] = "none") /\ t \in Agents
  BY UnownedFacts DEF Agents
<1>2. SetHeld(t, mode)
  BY DEF TakeUnowned
<1>3. CASE mode = "exclusive"
  BY <1>1, <1>2, <1>3, AcquiresExclusive
<1>4. CASE mode = "shared"
  BY <1>1, <1>2, <1>4, AcquiresShared
<1> QED
  BY <1>3, <1>4 DEF Owns

LEMMA JoinStep ==
    ASSUME ResourceInv, NEW t \in Threads, ~Exclusive, held[t] = "none", NEW i, Join(t, i)
    PROVE  RW!Next
<1>1. SetHeld(t, "shared")
  BY DEF Join
<1> QED
  BY <1>1, SharedFacts, AcquiresShared

LEMMA NothingHeld ==
    ASSUME NEW t, NEW i, NEW call, NEW Wait, NEW label
    PROVE  /\ Suspend(t, label, call, Wait) => UNCHANGED held
           /\ BeginExpand(t, call, Wait) => UNCHANGED held
           /\ Recurse(t, i) => UNCHANGED held
           /\ Refuse(t) => UNCHANGED held
           /\ WaitShared(t, i, call, Wait) => UNCHANGED held
<1>1. Suspend(t, label, call, Wait) => UNCHANGED held
  BY DEF Suspend
<1>2. Suspend(t, "expand", call, Wait) => UNCHANGED held
  BY DEF Suspend
<1>3. Suspend(t, "allocateSemaphore", call, Wait) => UNCHANGED held
  BY DEF Suspend
<1>4. Refuse(t) => UNCHANGED held
  BY DEF Refuse
<1>5. Recurse(t, i) => UNCHANGED held
  BY DEF Recurse
<1>6. BeginExpand(t, call, Wait) => UNCHANGED held
  BY <1>2 DEF BeginExpand
<1>7. WaitShared(t, i, call, Wait) => UNCHANGED held
  BY <1>3, <1>4 DEF WaitShared
<1> QED
  BY <1>1, <1>4, <1>5, <1>6, <1>7

LEMMA AcquireUnsharedStep ==
    ASSUME ResourceInv, NEW t \in Threads, NEW call, NEW Wait, AcquireUnshared(t, call, Wait)
    PROVE  [RW!Next]_held
<1>1. "shared" \in Owns
  BY DEF Owns
<1>2. CASE ActiveEntries = 0 /\ TakeUnowned(t, "shared")
  BY <1>1, <1>2, TakeUnownedStep
<1>3. CASE Recurse(t, 0)
  BY <1>3, NothingHeld
<1>4. CASE IF ExpFindFreeEntry = NULL THEN BeginExpand(t, call, Wait)
           ELSE WaitShared(t, ExpFindFreeEntry, call, Wait)
  <2>1. CASE ExpFindFreeEntry = NULL
    BY <1>4, <2>1, NothingHeld
  <2>2. CASE ExpFindFreeEntry # NULL
    BY <1>4, <2>2, NothingHeld
  <2> QED
    BY <2>1, <2>2
<1> QED
  BY <1>2, <1>3, <1>4 DEF AcquireUnshared

LEMMA JoinSharersStep ==
    ASSUME ResourceInv, NEW t \in Threads, pc[t] \in {"idle", "retry"}, OwnedShared,
           NEW call, NEW Wait, JoinSharers(t, call, Wait)
    PROVE  [RW!Next]_held
<1>1. t \in Agents /\ ~Exclusive
  BY DEF Agents, OwnedShared
<1> DEFINE i == ExpFindEntryForThread(t, FALSE)
<1>2. i # NULL /\ HasEntry(t) => Owner[i].OwnerThread = t
  BY <1>1, FindEntry
<1>3. \/ i = NULL /\ BeginExpand(t, call, Wait)
      \/ i # NULL /\ Owner[i].OwnerThread = t /\ Recurse(t, i)
      \/ i # NULL /\ Owner[i].OwnerThread # t /\ Join(t, i)
  BY DEF JoinSharers
<1> HIDE DEF i
<1>4. HasEntry(t) <=> held[t] # "none"
  BY <1>1, NotOwner
<1>5. CASE BeginExpand(t, call, Wait) \/ Recurse(t, i)
  BY <1>5, NothingHeld
<1>6. CASE i # NULL /\ Owner[i].OwnerThread # t /\ Join(t, i)
  BY <1>1, <1>2, <1>4, <1>6, JoinStep
<1> QED
  BY <1>3, <1>5, <1>6

LEMMA AcquireStepHolds ==
    ASSUME ResourceInv, NEW t \in Threads, pc[t] \in {"idle", "retry"}, NEW call, NEW Wait,
           Acquire(t, call, Wait)
    PROVE  [RW!Next]_held
<1>1. t \in Agents /\ "exclusive" \in Owns
  BY DEF Agents, Owns
<1>2. CASE ExAcquireResourceExclusiveLite(t, Wait)
  <2>1. CASE ActiveEntries = 0 /\ TakeUnowned(t, "exclusive")
    BY <1>1, <2>1, TakeUnownedStep
  <2>2. CASE Recurse(t, 0) \/ Refuse(t) \/ Suspend(t, "allocateEvent", "Exclusive", Wait)
             \/ UNCHANGED held
    BY <2>2, NothingHeld
  <2> QED
    BY <1>2, <2>1, <2>2 DEF ExAcquireResourceExclusiveLite
<1>3. CASE ExTryToAcquireResourceExclusiveLite(t)
  <2>1. CASE ActiveCount = 0 /\ TakeUnowned(t, "exclusive")
    <3>1. ActiveEntries = 0
      BY <2>1 DEF ResourceInv, GrantsCounted
    <3> QED
      BY <1>1, <2>1, <3>1, TakeUnownedStep
  <2>2. CASE Recurse(t, 0) \/ Refuse(t)
    BY <2>2, NothingHeld
  <2> QED
    BY <1>3, <2>1, <2>2 DEF ExTryToAcquireResourceExclusiveLite
<1>4. CASE ExAcquireResourceSharedLite(t, Wait)
  <2> DEFINE busy == NumberOfExclusiveWaiters > 0
             i == ExpFindEntryForThread(t, busy)
  <2>1. i # NULL /\ HasEntry(t) => Owner[i].OwnerThread = t
    BY <1>1, FindEntry
  <2>2. \/ AcquireUnshared(t, "Shared", Wait)
        \/ BeginExpand(t, "Shared", Wait)
        \/ Recurse(t, i)
        \/ WaitShared(t, i, "Shared", Wait)
        \/ OwnedShared /\ i # NULL /\ Owner[i].OwnerThread # t /\ Join(t, i)
    BY <1>4 DEF ExAcquireResourceSharedLite
  <2> HIDE DEF i
  <2>3. CASE AcquireUnshared(t, "Shared", Wait)
    BY <2>3, AcquireUnsharedStep
  <2>4. CASE BeginExpand(t, "Shared", Wait) \/ Recurse(t, i) \/ WaitShared(t, i, "Shared", Wait)
    BY <2>4, NothingHeld
  <2>5. CASE OwnedShared /\ i # NULL /\ Owner[i].OwnerThread # t /\ Join(t, i)
    <3>1. ~Exclusive
      BY <2>5 DEF OwnedShared
    <3>2. held[t] = "none"
      BY <1>1, <2>1, <2>5, NotOwner
    <3> QED
      BY <2>5, <3>1, <3>2, JoinStep
  <2> QED
    BY <2>2, <2>3, <2>4, <2>5
<1>5. CASE ExAcquireSharedStarveExclusive(t, Wait)
  BY <1>5, AcquireUnsharedStep, JoinSharersStep DEF ExAcquireSharedStarveExclusive
<1>6. CASE ExAcquireSharedWaitForExclusive(t, Wait)
  <2>1. CASE WaitShared(t, NULL, "WaitForExclusive", Wait)
    BY <2>1, NothingHeld
  <2> QED
    BY <1>6, <2>1, AcquireUnsharedStep, JoinSharersStep DEF ExAcquireSharedWaitForExclusive
<1> QED
  BY <1>2, <1>3, <1>4, <1>5, <1>6 DEF Acquire

(* A grant is taken by a thread that holds nothing. A shared one is there  *)
(* only while nobody owns the resource exclusively, an exclusive one only  *)
(* while nobody has it.                                                    *)
LEMMA WaitForSemaphoreStep ==
    ASSUME ResourceInv, NEW t \in Threads, WaitForSemaphore(t)
    PROVE  RW!Next
<1>1. TypeOK /\ OneReleaser /\ Places /\ t \in Agents
  BY DEF ResourceInv, Agents
<1>2. /\ pc[t] \in SharedWaits /\ held[t] = "none" /\ SharedWaiters # NULL /\ SharedWaiters > 0
      /\ SetHeld(t, "shared")
  BY <1>1 DEF WaitForSemaphore, Places, SharedWaits
<1> DEFINE h == Many(held, Owns)
           sg == Granted(SharedWaiters, pc, frame)
           eg == GrantedExclusive(ExclusiveWaiters, pc)
           hands == Cardinality(Hands(Where(pc, {"releaseSemaphore"}), frame))
<1>3. Balance(Exclusive, ActiveEntries, ActiveCount, NumberOfSharedWaiters, NumberOfExclusiveWaiters,
              h, sg, eg, Many(pc, SharedWaits), Many(pc, {"waitExclusive"}))
  BY Facts
<1>4. sg > 0
  <2>1. hands \in Nat /\ SharedWaiters \in Nat
    BY <1>1, <1>2, Numbers
  <2>2. sg = SharedWaiters + hands
    BY <1>2 DEF Granted
  <2> HIDE DEF hands, sg
  <2> QED
    BY <1>2, <2>1, <2>2
<1> HIDE DEF h, sg, eg, hands
<1>5. ~Exclusive
  BY <1>3, <1>4 DEF Balance
<1> QED
  BY <1>2, <1>5, SharedFacts, AcquiresShared

LEMMA NobodyWhenGranted ==
    ASSUME ResourceInv, IsSet(ExclusiveWaiters) \/ \E a \in Agents : pc[a] = "setEvent"
    PROVE  \A a \in Agents : held[a] = "none"
<1>1. TypeOK /\ OneReleaser
  BY DEF ResourceInv
<1> DEFINE h == Many(held, Owns)
           sg == Granted(SharedWaiters, pc, frame)
           eg == GrantedExclusive(ExclusiveWaiters, pc)
           ws == Many(pc, SharedWaits)
           we == Many(pc, {"waitExclusive"})
<1>2. /\ Balance(Exclusive, ActiveEntries, ActiveCount, NumberOfSharedWaiters,
                 NumberOfExclusiveWaiters, h, sg, eg, ws, we)
      /\ (h = 0 <=> \A a \in Agents : held[a] = "none") /\ eg # 0
  BY Facts
<1>3. h \in Nat /\ sg \in Nat /\ eg \in Nat /\ ActiveEntries \in Nat
  BY <1>1, Numbers
<1> HIDE DEF h, sg, eg, ws, we
<1>4. h = 0
  BY <1>2, <1>3 DEF Balance
<1> QED
  BY <1>2, <1>4

LEMMA WaitForEventStep ==
    ASSUME ResourceInv, NEW t \in Threads, WaitForEvent(t)
    PROVE  RW!Next
<1>1. IsSet(ExclusiveWaiters)
  BY Zenon DEF WaitForEvent, IsSet
<1>2. SetHeld(t, "exclusive")
  BY DEF WaitForEvent
<1> QED
  BY <1>1, <1>2, NobodyWhenGranted, AcquiresExclusive

LEMMA SetEventStep ==
    ASSUME ResourceInv, NEW a \in Agents, KeSetEventBoostPriority(a)
    PROVE  [RW!Next]_held
<1>1. pc[a] = "setEvent"
  BY DEF KeSetEventBoostPriority
<1>2. \A b \in Agents : held[b] = "none"
  BY <1>1, NobodyWhenGranted
<1>3. UNCHANGED held \/ \E t \in Threads : SetHeld(t, "exclusive")
  BY DEF KeSetEventBoostPriority
<1> QED
  BY <1>2, <1>3, AcquiresExclusive

LEMMA ReleaseStepHolds ==
    ASSUME ResourceInv, NEW a \in Agents, ReleaseStep(a)
    PROVE  [RW!Next]_held
<1>1. CASE KeReleaseSemaphore(a)
  BY <1>1 DEF KeReleaseSemaphore
<1>2. CASE ExReleaseResourceForThreadLite(a)
  <2>1. held[a] # "none" /\ (UNCHANGED held \/ SetHeld(a, "none"))
    BY <1>2 DEF ExReleaseResourceForThreadLite, GiveUp
  <2> QED
    BY <2>1, Releases
<1> QED
  BY <1>1, <1>2, SetEventStep DEF ReleaseStep

LEMMA ConvertStep ==
    ASSUME NEW t \in Threads, ExConvertExclusiveToSharedLite(t)
    PROVE  RW!Next
<1>1. RW!Downgrade(t)
  BY DEF ExConvertExclusiveToSharedLite, RW!Downgrade, SetHeld
<1> QED
  BY <1>1 DEF RW!Next

(* A pointer that has an entry already holds the resource shared, as the   *)
(* thread does that hands it over.                                         *)
LEMMA SetOwnerPointerStep ==
    ASSUME ResourceInv, NEW t \in Threads, NEW p \in Pointers, ExSetResourceOwnerPointer(t, p)
    PROVE  [RW!Next]_held
<1>1. /\ TypeOK /\ Places /\ EntriesInUse /\ t \in Agents /\ p \in Agents /\ t # p
      /\ held \in [Agents -> Modes]
  BY NameAssumption DEF ResourceInv, Agents, TypeOK, Modes
<1>2. pc[t] = "idle" /\ held[t] # "none"
  BY DEF ExSetResourceOwnerPointer
<1>3. Exclusive => held[t] = "exclusive" /\ held[p] = "none"
  BY <1>1, <1>2, ExclusiveFacts
<1>4. ~Exclusive => held[t] = "shared" /\ held[p] \in {"none", "shared"}
  BY <1>1, <1>2, SharedFacts DEF TypeOK
<1>5. ~Exclusive /\ EntriesOf(p) # {} => held[p] = "shared"
  BY <1>1, <1>4 DEF EntriesInUse, HasEntry, Places
<1>6. ASSUME held' = [held EXCEPT ![t] = "none", ![p] = held[t]],
             held[p] \in {"none", held[t]}
      PROVE  RW!Next
  <2>1. RW!HandOver(t, p)
    BY <1>2, <1>6 DEF RW!HandOver
  <2> QED
    BY <2>1 DEF RW!Next
<1>7. CASE Exclusive /\ held' = [held EXCEPT ![t] = "none", ![p] = "exclusive"]
  BY <1>3, <1>6, <1>7
<1>8. CASE ~Exclusive /\ held' = [held EXCEPT ![t] = "none", ![p] = "shared"]
  BY <1>4, <1>6, <1>8
<1>9. CASE ~Exclusive /\ EntriesOf(p) # {} /\ held' = [held EXCEPT ![t] = "none"]
  <2>1. [held EXCEPT ![t] = "none"] = [held EXCEPT ![t] = "none", ![p] = "shared"]
    BY <1>1, <1>5, <1>9
  <2> QED
    BY <1>4, <1>6, <1>9, <2>1
<1> QED
  BY <1>7, <1>8, <1>9 DEF ExSetResourceOwnerPointer

LEMMA NextImplements ==
    ASSUME ResourceInv, [Next]_vars
    PROVE  [RW!Next]_held
<1>1. ASSUME NEW t \in Threads, Begin(t) \/ Retry(t) PROVE [RW!Next]_held
  <2>1. pc[t] \in {"idle", "retry"} /\ \E call, Wait : Acquire(t, call, Wait)
    BY <1>1 DEF Begin, Retry
  <2> QED
    BY <2>1, AcquireStepHolds
<1>2. ASSUME NEW t \in Threads, AcquireStep(t) PROVE [RW!Next]_held
  <2>1. ClaimEntry(t) => UNCHANGED held
    BY NothingHeld DEF ClaimEntry
  <2>2. SetOwner(t) \/ ExpAllocateExclusiveWaiterEvent(t) \/ ExpAllocateSharedWaiterSemaphore(t)
           \/ ExpExpandResourceOwnerTable(t) => UNCHANGED held
    BY DEF SetOwner, ExpAllocateExclusiveWaiterEvent, ExpAllocateSharedWaiterSemaphore,
           ExpExpandResourceOwnerTable
  <2> QED
    BY <1>1, <1>2, <2>1, <2>2, WaitForSemaphoreStep, WaitForEventStep DEF AcquireStep
<1>3. DeleteAndInitialize \/ ExReinitializeResourceLite \/ UNCHANGED vars => UNCHANGED held
  BY DEF DeleteAndInitialize, ExReinitializeResourceLite, Reset, vars
<1> QED
  BY <1>1, <1>2, <1>3, ReleaseStepHolds, ConvertStep, SetOwnerPointerStep DEF Next

(* An executive resource is the lock with shared and exclusive modes that  *)
(* ResourceSpec describes: an exclusive owner is alone, a grant goes to a  *)
(* thread that has nothing, and what is handed over is what was held.      *)
THEOREM ResourceImplements == Spec => Implements
<1>1. Init => RW!Lock!Init
  BY DEF Init, RW!Lock!Init, Agents
<1> QED
  BY <1>1, NextImplements, ResourceInvariance, PTL DEF Spec, Implements, RW!ResourceSpec
=============================================================================
