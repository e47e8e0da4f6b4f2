-------------------------- MODULE RemoveLockProofs --------------------------
(***************************************************************************)
(* Proofs about RemoveLock, for any finite set of threads, any tags, with  *)
(* and without tracking. IInv is inductive: the count says who may still   *)
(* hold the lock, so a count of zero means that nobody does, and once the  *)
(* lock is marked nobody can be added.                                     *)
(***************************************************************************)
EXTENDS RemoveLock, FiniteSetTheorems, TLAPS

(* Sizes of sets of threads.                                               *)
LEMMA ThreadCounts ==
    ASSUME NEW S \in SUBSET Threads, NEW t \in Threads
    PROVE  /\ Cardinality(S) \in Nat
           /\ Cardinality(S) = 0 <=> S = {}
           /\ t \notin S => Cardinality(S \cup {t}) = Cardinality(S) + 1
           /\ t \in S => Cardinality(S \ {t}) = Cardinality(S) - 1
<1>1. IsFiniteSet(S)
  BY ThreadsAssumption, FS_Subset
<1> QED
  BY <1>1, FS_CardinalityType, FS_EmptySet, FS_AddElement, FS_RemoveElement

Bias == IF DeviceDropped \/ OwnDropped THEN 0 ELSE 1

LEMMA CountedType == ASSUME TypeOK PROVE Counted \in SUBSET Threads
  BY DEF TypeOK, Counted

(* How a step that changes the counted threads changes the count.          *)
LEMMA CountStep ==
    ASSUME TypeOK, CountExact, NEW t \in Threads, Bias' = Bias,
           \/ Counted' = Counted /\ IoCount' = IoCount
           \/ t \notin Counted /\ Counted' = Counted \cup {t} /\ IoCount' = IoCount + 1
           \/ t \in Counted /\ Counted' = Counted \ {t} /\ IoCount' = IoCount - 1
    PROVE  CountExact' /\ IoCount' \in Nat
<1>1. /\ Cardinality(Counted) \in Nat
      /\ t \notin Counted => Cardinality(Counted \cup {t}) = Cardinality(Counted) + 1
      /\ t \in Counted => Cardinality(Counted \ {t}) = Cardinality(Counted) - 1
  BY CountedType, ThreadCounts
<1>2. IoCount = Cardinality(Counted) + Bias
  BY DEF CountExact, Bias
<1>3. Bias \in {0, 1}
  BY DEF Bias
<1>4. IoCount' = Cardinality(Counted') + Bias'
  <2>1. CASE Counted' = Counted /\ IoCount' = IoCount
    BY <2>1, <1>2
  <2>2. CASE t \notin Counted /\ Counted' = Counted \cup {t} /\ IoCount' = IoCount + 1
    <3>1. Cardinality(Counted') = Cardinality(Counted) + 1
      BY <2>2, <1>1
    <3> QED
      BY <2>2, <3>1, <1>1, <1>2, <1>3
  <2>3. CASE t \in Counted /\ Counted' = Counted \ {t} /\ IoCount' = IoCount - 1
    <3>1. Cardinality(Counted') = Cardinality(Counted) - 1
      BY <2>3, <1>1
    <3> QED
      BY <2>3, <3>1, <1>1, <1>2, <1>3
  <2> QED
    BY <2>1, <2>2, <2>3
<1>5. t \in Counted => Cardinality(Counted \ {t}) \in Nat
  <2>1. Counted \ {t} \in SUBSET Threads
    BY CountedType
  <2> QED
    BY <2>1, ThreadCounts
<1>6. IoCount' \in Nat
  BY <1>1, <1>2, <1>3, <1>4, <1>5
<1> QED
  BY <1>4, <1>6 DEF CountExact, Bias

(* A step that leaves a count of zero: nobody holds the lock or asks for   *)
(* it, and the handler has given up the device's count.                    *)
LEMMA ZeroCount ==
    ASSUME TypeOK', CountExact', HoldersPlaces', OneRemover', IoCount' = 0,
           NEW t \in Threads
    PROVE  held' = {} /\ Removed'
<1>1. Counted' \in SUBSET Threads
  BY DEF TypeOK, Counted
<1>2. Cardinality(Counted') \in Nat /\ (Cardinality(Counted') = 0 <=> Counted' = {})
  BY <1>1, ThreadCounts
<1>3. Counted' = {} /\ (DeviceDropped' \/ OwnDropped')
  BY <1>2 DEF CountExact
<1>4. held' = {}
  BY <1>3 DEF Counted
<1>5. Removed'
  BY <1>3 DEF DeviceDropped, OwnDropped, OneRemover, Removing, AfterWait
<1> QED
  BY <1>4, <1>5

LEMMA InitInv == Init => IInv
<1> SUFFICES ASSUME Init PROVE IInv
  OBVIOUS
<1>1. Counted = {} /\ ~DeviceDropped /\ ~OwnDropped
  BY DEF Init, Counted, DeviceDropped, OwnDropped, AfterWait
<1>2. CountExact
  BY <1>1, FS_EmptySet DEF Init, CountExact
<1>3. Tag \in [Threads -> Tags] /\ Blocks \in Seq(Tags) /\ held \in SUBSET Threads
  BY DEF Init
<1>4. TypeOK
  <2>1. IoCount \in Nat /\ LowMemoryCount \in Int
    BY DEF Init
  <2>2. Removed \in BOOLEAN /\ RemoveEvent \in BOOLEAN /\ Dbg \in BOOLEAN
    BY Zenon DEF Init
  <2>3. pc \in [Threads -> {"idle"}]
    BY DEF Init
  <2> QED
    BY <1>3, <2>1, <2>2, <2>3 DEF TypeOK
<1>5. HoldersPlaces /\ OneRemover /\ Drained
  BY DEF Init, HoldersPlaces, OneRemover, Drained, Removing, AfterWait
<1> QED
  BY <1>2, <1>4, <1>5 DEF IInv

-----------------------------------------------------------------------------
(* The steps, one lemma per action.                                        *)

LEMMA AcquireInv == ASSUME IInv, NEW t \in Threads, Acquire(t) PROVE IInv'
<1> USE DEF IInv, Acquire, Goto
<1>1. t \notin Counted /\ Counted' = Counted \cup {t} /\ Bias' = Bias
  BY DEF TypeOK, Counted, Bias, DeviceDropped, OwnDropped, AfterWait
<1>2. CountExact' /\ IoCount' \in Nat
  BY <1>1, CountStep
<1>3. TypeOK'
  BY <1>2 DEF TypeOK
<1>4. HoldersPlaces' /\ OneRemover' /\ Drained'
  BY DEF TypeOK, HoldersPlaces, OneRemover, Drained, Removing, AfterWait
<1> QED
  BY <1>2, <1>3, <1>4

LEMMA TestRemovedInv == ASSUME IInv, NEW t \in Threads, TestRemoved(t) PROVE IInv'
<1> USE DEF IInv, TestRemoved, Goto, tracking
<1>1. Counted' = Counted /\ Bias' = Bias
  BY DEF TypeOK, Counted, Bias, DeviceDropped, OwnDropped, AfterWait
<1>2. CountExact' /\ IoCount' \in Nat
  BY <1>1, CountStep
<1>3. TypeOK'
  BY <1>2 DEF TypeOK
<1>4. HoldersPlaces' /\ OneRemover' /\ Drained'
  BY DEF TypeOK, HoldersPlaces, OneRemover, Drained, Removing, AfterWait
<1> QED
  BY <1>2, <1>3, <1>4

LEMMA WithoutType ==
    ASSUME NEW s \in Seq(Tags), NEW i \in DOMAIN s
    PROVE  /\ Without(s, i) \in Seq(Tags) /\ Len(Without(s, i)) = Len(s) - 1
           /\ DOMAIN Without(s, i) = 1 .. Len(s) - 1
           /\ Len(s) \in Nat /\ i \in 1 .. Len(s) /\ DOMAIN s = 1 .. Len(s)
<1>1. Len(s) \in Nat /\ i \in 1 .. Len(s) /\ DOMAIN s = 1 .. Len(s) /\ Len(s) - 1 \in Nat
  OBVIOUS
<1>2. \A j \in 1 .. Len(s) - 1 : (IF j < i THEN j ELSE j + 1) \in 1 .. Len(s)
  BY <1>1
<1>3. \A j \in 1 .. Len(s) - 1 : s[IF j < i THEN j ELSE j + 1] \in Tags
  BY <1>1, <1>2
<1> QED
  BY <1>1, <1>3 DEF Without

(* The steps that only concern tracking.                                   *)
LEMMA TrackingInv ==
    ASSUME IInv, NEW t \in Threads, Track(t) \/ Untrack(t) \/ Missing(t) PROVE IInv'
<1> USE DEF IInv, Track, Untrack, Missing, Goto
<1>1. Counted' = Counted /\ Bias' = Bias
  BY DEF TypeOK, HoldersPlaces, Counted, Bias, DeviceDropped, OwnDropped, AfterWait
<1>2. CountExact' /\ IoCount' \in Nat
  BY <1>1, CountStep
<1>3. Blocks' \in Seq(Tags)
  <2>1. CASE Track(t)
    <3>1. <<Tag[t]>> \in Seq(Tags) /\ Blocks \in Seq(Tags)
      BY DEF TypeOK
    <3>2. <<Tag[t]>> \o Blocks \in Seq(Tags)
      BY <3>1
    <3> QED
      BY <2>1, <3>1, <3>2
  <2>2. CASE Untrack(t)
    BY <2>2, WithoutType DEF TypeOK, Positions
  <2>3. CASE Missing(t)
    BY <2>3 DEF TypeOK
  <2> QED
    BY <2>1, <2>2, <2>3
<1>4. TypeOK'
  BY <1>2, <1>3 DEF TypeOK
<1>5. HoldersPlaces' /\ OneRemover' /\ Drained'
  BY DEF TypeOK, HoldersPlaces, OneRemover, Drained, Removing, AfterWait
<1> QED
  BY <1>2, <1>4, <1>5

(* Counting down, after a refusal or a release.                            *)
LEMMA CountDownInv == ASSUME IInv, NEW t \in Threads, BackOut(t) \/ Decrement(t) PROVE IInv'
<1> USE DEF IInv, BackOut, Decrement, CountDown, Goto, tracking
<1>1. /\ t \in Counted /\ Counted' = Counted \ {t}
      /\ Bias' = Bias
  BY DEF TypeOK, HoldersPlaces, Counted, Bias, DeviceDropped, OwnDropped, AfterWait
<1>2. CountExact' /\ IoCount' \in Nat
  BY <1>1, CountStep
<1>3. TypeOK'
  BY <1>2 DEF TypeOK
<1>4. HoldersPlaces' /\ OneRemover'
  BY DEF TypeOK, HoldersPlaces, OneRemover, Removing, AfterWait
<1>5. Drained'
  <2>1. CASE IoCount' = 0
    <3>1. held' = {} /\ Removed'
      BY <2>1, <1>2, <1>3, <1>4, ZeroCount
    <3> QED
      BY <3>1 DEF Drained
  <2>2. CASE IoCount' # 0
    BY <2>2 DEF TypeOK, Drained, AfterWait
  <2> QED
    BY <2>1, <2>2
<1> QED
  BY <1>2, <1>3, <1>4, <1>5

LEMMA KeSetEventInv == ASSUME IInv, NEW t \in Threads, KeSetEvent(t) PROVE IInv'
<1> USE DEF IInv, KeSetEvent, Goto, tracking
<1>1. Counted' = Counted /\ Bias' = Bias
  BY DEF TypeOK, Counted, Bias, DeviceDropped, OwnDropped, AfterWait
<1>2. CountExact' /\ IoCount' \in Nat
  BY <1>1, CountStep
<1>3. TypeOK'
  BY <1>2 DEF TypeOK
<1>4. HoldersPlaces' /\ OneRemover' /\ Drained'
  BY DEF TypeOK, HoldersPlaces, OneRemover, Drained, Removing, AfterWait
<1> QED
  BY <1>2, <1>3, <1>4

(* The remove handler marks the lock. Nobody else has, so no handler runs. *)
LEMMA ReleaseAndWaitInv == ASSUME IInv, NEW t \in Threads, ReleaseAndWait(t) PROVE IInv'
<1> USE DEF IInv, ReleaseAndWait, Goto, tracking
<1>1. Counted' = Counted /\ Bias' = Bias
  BY DEF TypeOK, Counted, Bias, DeviceDropped, OwnDropped, AfterWait
<1>2. CountExact' /\ IoCount' \in Nat
  BY <1>1, CountStep
<1>3. TypeOK'
  BY <1>2 DEF TypeOK
<1>4. HoldersPlaces' /\ OneRemover' /\ Drained'
  BY DEF TypeOK, HoldersPlaces, OneRemover, Drained, Removing, AfterWait
<1> QED
  BY <1>2, <1>3, <1>4

(* The first decrement takes the one for the device out of the count.      *)
LEMMA DropOwnInv == ASSUME IInv, NEW t \in Threads, DropOwn(t) PROVE IInv'
<1> USE DEF IInv, DropOwn, Goto, tracking
<1>1. Counted' = Counted
  BY DEF TypeOK, Counted
<1>2. ~DeviceDropped /\ ~OwnDropped
  BY DEF DeviceDropped, OwnDropped, OneRemover, Removing, AfterWait
<1>3. OwnDropped'
  BY DEF TypeOK, OwnDropped
<1>4. Cardinality(Counted) \in Nat
  BY CountedType, ThreadCounts
<1>5. IoCount' = Cardinality(Counted) /\ IoCount' \in Nat
  BY <1>2, <1>4 DEF CountExact
<1>6. CountExact'
  BY <1>1, <1>3, <1>4, <1>5 DEF CountExact
<1>7. TypeOK'
  BY <1>5 DEF TypeOK
<1>8. HoldersPlaces' /\ OneRemover' /\ Drained'
  BY DEF TypeOK, HoldersPlaces, OneRemover, Drained, Removing, AfterWait
<1> QED
  BY <1>6, <1>7, <1>8

(* The second takes the handler's own hold; if nothing is left, nobody     *)
(* else holds the lock.                                                    *)
LEMMA DropDeviceInv == ASSUME IInv, NEW t \in Threads, DropDevice(t) PROVE IInv'
<1> USE DEF IInv, DropDevice, Goto, tracking
<1>1. t \in Counted /\ Counted' = Counted \ {t}
  BY DEF TypeOK, HoldersPlaces, Counted
<1>2. Bias' = Bias
  BY DEF TypeOK, Bias, DeviceDropped, OwnDropped, AfterWait
<1>3. CountExact' /\ IoCount' \in Nat
  BY <1>1, <1>2, CountStep
<1>4. TypeOK'
  BY <1>3 DEF TypeOK
<1>5. HoldersPlaces' /\ OneRemover'
  BY DEF TypeOK, HoldersPlaces, OneRemover, Removing, AfterWait
<1>6. Drained'
  <2>1. CASE IoCount' = 0
    <3>1. held' = {} /\ Removed'
      BY <2>1, <1>3, <1>4, <1>5, ZeroCount
    <3> QED
      BY <3>1 DEF Drained
  <2>2. CASE IoCount' # 0
    <3>1. IoCount' > 0
      BY <2>2, <1>3 DEF TypeOK
    <3> QED
      BY <3>1 DEF TypeOK, Drained, AfterWait
  <2> QED
    BY <2>1, <2>2
<1> QED
  BY <1>3, <1>4, <1>5, <1>6

(* The handler returns from its wait and from the call.                    *)
LEMMA ReturnInv == ASSUME IInv, NEW t \in Threads, WaitForOthers(t) \/ Reap(t) PROVE IInv'
<1> USE DEF IInv, WaitForOthers, Reap, Goto, tracking
<1>1. Counted' = Counted
  BY DEF TypeOK, Counted
<1>2. Bias' = Bias
  BY DEF TypeOK, Bias, DeviceDropped, OwnDropped, AfterWait
<1>3. CountExact' /\ IoCount' \in Nat
  BY <1>1, <1>2, CountStep
<1>4. TypeOK'
  BY <1>3 DEF TypeOK
<1>5. HoldersPlaces' /\ OneRemover' /\ Drained'
  BY DEF TypeOK, HoldersPlaces, OneRemover, Drained, Removing, AfterWait
<1> QED
  BY <1>3, <1>4, <1>5

LEMMA NextInv == IInv /\ [Next]_vars => IInv'
<1> SUFFICES ASSUME IInv, [Next]_vars PROVE IInv'
  OBVIOUS
<1>1. CASE UNCHANGED vars
  BY <1>1 DEF vars, IInv, TypeOK, CountExact, Counted, DeviceDropped, OwnDropped,
              HoldersPlaces, OneRemover, Drained, Removing, AfterWait
<1>2. CASE Next
  BY <1>2, AcquireInv, TestRemovedInv, TrackingInv, CountDownInv, KeSetEventInv,
     ReleaseAndWaitInv, DropOwnInv, DropDeviceInv, ReturnInv DEF Next, Continue
<1> QED
  BY <1>1, <1>2

-----------------------------------------------------------------------------
(* IInv holds in every state of a remove lock.                             *)
THEOREM Invariance == Spec => []IInv
  BY InitInv, NextInv, PTL DEF Spec

(* The fields of the lock keep their types; in particular no interleaving  *)
(* of the increments and decrements takes IoCount below zero.              *)
THEOREM TypeCorrect == Spec => []TypeOK
<1>1. IInv => TypeOK
  BY DEF IInv
<1> QED
  BY <1>1, Invariance, PTL

(* IoReleaseRemoveLockAndWaitEx does not return while a thread that was    *)
(* granted the lock still has it.                                          *)
THEOREM RemoveSafe == Spec => []RemoveProtects
<1>1. IInv => RemoveProtects
  BY DEF IInv, Drained, RemoveProtects
<1> QED
  BY <1>1, Invariance, PTL

(* IoCount counts the holders and the threads that are asking.             *)
THEOREM CountCorrect == Spec => []CountExact
<1>1. IInv => CountExact
  BY DEF IInv
<1> QED
  BY <1>1, Invariance, PTL

-----------------------------------------------------------------------------
(* Tracking: the blocks and who they are charged to.                       *)

LEMMA ChargedLength ==
    ASSUME NEW s \in Seq(Tags), NEW S \in SUBSET Threads, NEW tag, NEW m, Charged(m, s, S, tag)
    PROVE  Len(s) \in Nat /\ Len(s) <= Cardinality(S)
<1>1. IsFiniteSet(S)
  BY ThreadsAssumption, FS_Subset
<1>2. m \in Injection(DOMAIN s, S)
  BY DEF Charged, Injection, IsInjective
<1>3. Cardinality(DOMAIN s) <= Cardinality(S)
  BY <1>1, <1>2, FS_Injection
<1>4. DOMAIN s = 1 .. Len(s) /\ Len(s) \in Nat
  OBVIOUS
<1>5. Cardinality(1 .. Len(s)) = Len(s)
  BY <1>4, FS_Interval
<1> QED
  BY <1>3, <1>4, <1>5

AllHave(D, s, g) == D \in SUBSET DOMAIN s /\ \A i \in D : s[i] = g

AreAll(R, S, tag, g) == R \in SUBSET S /\ \A t \in S : tag[t] = g => t \in R

LEMMA ChargedTags ==
    ASSUME NEW s \in Seq(Tags), NEW S \in SUBSET Threads, NEW tag, NEW m, Charged(m, s, S, tag),
           NEW g, NEW D, AllHave(D, s, g), NEW R, AreAll(R, S, tag, g)
    PROVE  Cardinality(D) <= Cardinality(R)
<1> DEFINE f == [i \in D |-> m[i]]
<1>1. IsFiniteSet(R)
  BY ThreadsAssumption, FS_Subset DEF AreAll
<1>2. f \in Injection(D, R)
  BY DEF Charged, Injection, IsInjective, AllHave, AreAll
<1> QED
  BY <1>1, <1>2, FS_Injection

(* A block for an acquisition that had none.                               *)
LEMMA ChargeNew ==
    ASSUME NEW s \in Seq(Tags), NEW S \in SUBSET Threads, NEW tag, NEW m, Charged(m, s, S, tag),
           NEW t \in Threads \ S, tag[t] \in Tags
    PROVE  \E k : Charged(k, <<tag[t]>> \o s, S \cup {t}, tag)
<1> DEFINE r == <<tag[t]>> \o s
           k == [i \in 1 .. Len(s) + 1 |-> IF i = 1 THEN t ELSE m[i - 1]]
<1>1. /\ Len(s) \in Nat /\ DOMAIN s = 1 .. Len(s) /\ DOMAIN r = 1 .. Len(s) + 1 /\ r[1] = tag[t]
      /\ \A i \in 1 .. Len(s) : r[i + 1] = s[i]
  OBVIOUS
<1> HIDE DEF r
<1>2. \A i \in 1 .. Len(s) + 1 : i # 1 => i - 1 \in 1 .. Len(s) /\ (i - 1) + 1 = i
  BY <1>1
<1>3. \A i \in 1 .. Len(s) : m[i] \in S /\ tag[m[i]] = s[i]
  BY <1>1 DEF Charged
<1>4. \A i \in DOMAIN r : i # 1 => r[i] = s[i - 1] /\ k[i] = m[i - 1] /\ k[i] \in S
  BY <1>1, <1>2, <1>3
<1>5. k[1] = t /\ k \in [DOMAIN r -> S \cup {t}]
  BY <1>1, <1>2, <1>3
<1> HIDE DEF k
<1>6. \A i, j \in DOMAIN r : k[i] = k[j] => i = j
  <2> SUFFICES ASSUME NEW i \in DOMAIN r, NEW j \in DOMAIN r, k[i] = k[j], i # 1, j # 1 PROVE i = j
    <3>1. \A i \in DOMAIN r : i # 1 => k[i] # k[1]
      BY <1>4, <1>5
    <3> QED
      BY <3>1
  <2>1. i - 1 = j - 1
    BY <1>1, <1>2, <1>4 DEF Charged
  <2> QED
    BY <1>1, <2>1
<1>7. \A i \in DOMAIN r : tag[k[i]] = r[i]
  BY <1>1, <1>2, <1>3, <1>4, <1>5
<1>8. Charged(k, r, S \cup {t}, tag)
  BY <1>5, <1>6, <1>7 DEF Charged
<1> QED
  BY <1>8 DEF r

(* A block less, and an acquisition with its tag less: if that is charged  *)
(* with another block, that block is charged to the one that had the       *)
(* freed block.                                                            *)
LEMMA ChargeFreed ==
    ASSUME NEW s \in Seq(Tags), NEW S \in SUBSET Threads, NEW tag, NEW m, Charged(m, s, S, tag),
           NEW t \in S, NEW p \in DOMAIN s, s[p] = tag[t]
    PROVE  \E k : Charged(k, Without(s, p), S \ {t}, tag)
<1> DEFINE r == Without(s, p)
           From(i) == IF i < p THEN i ELSE i + 1
           k == [i \in 1 .. Len(s) - 1 |-> IF m[From(i)] = t THEN m[p] ELSE m[From(i)]]
<1>1. DOMAIN r = 1 .. Len(s) - 1 /\ Len(s) \in Nat /\ p \in 1 .. Len(s) /\ DOMAIN s = 1 .. Len(s)
  BY WithoutType
<1>2. \A i \in DOMAIN r : r[i] = s[From(i)]
  BY <1>1 DEF Without
<1> HIDE DEF r
<1>3. \A i \in DOMAIN r : From(i) \in DOMAIN s /\ From(i) # p
  BY <1>1
<1>4. \A i, j \in DOMAIN r : From(i) = From(j) => i = j
  BY <1>1
<1> HIDE DEF From
<1>5. \A i \in DOMAIN r : k[i] = IF m[From(i)] = t THEN m[p] ELSE m[From(i)]
  BY <1>1
<1>6. \A i \in DOMAIN r : k[i] \in S \ {t}
  BY <1>3, <1>5 DEF Charged
<1>7. DOMAIN k = DOMAIN r /\ k = [i \in DOMAIN k |-> k[i]]
  BY <1>1
<1> HIDE DEF k
<1>8. k \in [DOMAIN r -> S \ {t}]
  BY <1>6, <1>7
<1>9. \A i, j \in DOMAIN r : k[i] = k[j] => i = j
  BY <1>3, <1>4, <1>5 DEF Charged
<1>10. \A i \in DOMAIN r : tag[k[i]] = r[i]
  BY <1>2, <1>3, <1>5 DEF Charged
<1>11. Charged(k, r, S \ {t}, tag)
  BY <1>8, <1>9, <1>10 DEF Charged
<1> QED
  BY <1>11 DEF r

LEMMA TrackedTypes ==
    /\ Tracked \in SUBSET Threads /\ Looking \in SUBSET Threads
    /\ Tracked' \in SUBSET Threads /\ Looking' \in SUBSET Threads
  BY DEF Tracked, Looking

(* The steps that do not concern tracking.                                 *)
LEMMA UntrackedStep ==
    ASSUME TrackInv, NEW t \in Threads,
           \/ Acquire(t) \/ TestRemoved(t) \/ BackOut(t) \/ KeSetEvent(t) \/ Decrement(t)
           \/ ReleaseAndWait(t) \/ DropOwn(t) \/ DropDevice(t) \/ WaitForOthers(t) \/ Reap(t)
    PROVE  ChargesBalance'
<1>1. UNCHANGED <<Dbg, Blocks, LowMemoryCount>>
  BY DEF Acquire, TestRemoved, BackOut, KeSetEvent, Decrement, ReleaseAndWait, DropOwn, DropDevice,
         WaitForOthers, Reap, tracking
<1> SUFFICES ASSUME Dbg PROVE ChargesBalance'
  BY <1>1 DEF ChargesBalance
<1>2. /\ TypeOK /\ HoldersPlaces
  BY DEF TrackInv, IInv
<1>3. \A u \in Threads \ {t} : pc'[u] = pc[u] /\ Tag'[u] = Tag[u] /\ (u \in held' <=> u \in held)
  BY <1>2 DEF TypeOK, Acquire, TestRemoved, BackOut, CountDown, KeSetEvent, Decrement, ReleaseAndWait,
              DropOwn, DropDevice, WaitForOthers, Reap, tracking, Goto
<1>4. /\ t \in Tracked' <=> t \in Tracked
      /\ t \in Looking' <=> t \in Looking
      /\ t \in Tracked => Tag'[t] = Tag[t]
  <2> USE <1>2 DEF TypeOK, HoldersPlaces, Goto, Tracked, Looking, Removing, AfterWait, tracking
  <2>1. ASSUME Acquire(t) \/ TestRemoved(t) PROVE <1>4!:
    BY <2>1 DEF Acquire, TestRemoved
  <2>2. ASSUME BackOut(t) \/ KeSetEvent(t) \/ Decrement(t) PROVE <1>4!:
    BY <2>2 DEF BackOut, KeSetEvent, Decrement, CountDown
  <2>3. ASSUME \/ ReleaseAndWait(t) \/ DropOwn(t) \/ DropDevice(t) \/ WaitForOthers(t) \/ Reap(t)
        PROVE <1>4!:
    BY <2>3 DEF ReleaseAndWait, DropOwn, DropDevice, WaitForOthers, Reap
  <2> QED
    BY <2>1, <2>2, <2>3
<1>5. Tracked' = Tracked /\ Looking' = Looking
  BY <1>3, <1>4 DEF Tracked, Looking
<1>6. PICK m \in [DOMAIN Blocks -> Tracked] : Charged(m, Blocks, Tracked, Tag)
  BY DEF TrackInv, ChargesBalance
<1>7. \A u \in Tracked : Tag'[u] = Tag[u]
  BY <1>3, <1>4, TrackedTypes
<1>8. Charged(m, Blocks, Tracked, Tag')
  BY <1>6, <1>7 DEF Charged
<1> QED
  BY <1>1, <1>5, <1>8 DEF TrackInv, ChargesBalance

LEMMA TrackBalance ==
    ASSUME TrackInv, Dbg, NEW t \in Threads, Track(t)
    PROVE  ChargesBalance'
<1>1. /\ pc[t] = "track" /\ pc' = [pc EXCEPT ![t] = "idle"] /\ UNCHANGED <<Dbg, Tag, held>>
      /\ \/ Blocks' = <<Tag[t]>> \o Blocks /\ UNCHANGED LowMemoryCount
         \/ LowMemoryCount' = LowMemoryCount + 1 /\ UNCHANGED Blocks
  BY DEF Track, Goto
<1>2. TypeOK /\ HoldersPlaces
  BY DEF TrackInv, IInv
<1>3. t \notin Tracked /\ Tracked' = Tracked \cup {t} /\ Looking' = Looking
  BY <1>1, <1>2 DEF TypeOK, HoldersPlaces, Tracked, Looking, Removing, AfterWait
<1>4. /\ Cardinality(Tracked) \in Nat /\ Cardinality(Looking) \in Nat
      /\ Cardinality(Tracked') = Cardinality(Tracked) + 1
  BY <1>3, TrackedTypes, ThreadCounts
<1>5. /\ Len(Blocks) + LowMemoryCount = Cardinality(Tracked) + Cardinality(Looking)
      /\ Blocks \in Seq(Tags) /\ LowMemoryCount \in Int /\ Tag[t] \in Tags
  BY <1>2 DEF TrackInv, ChargesBalance, TypeOK
<1>6. PICK m : Charged(m, Blocks, Tracked, Tag)
  BY DEF TrackInv, ChargesBalance
<1>7. CASE Blocks' = <<Tag[t]>> \o Blocks /\ UNCHANGED LowMemoryCount
  <2>1. Len(Blocks') = Len(Blocks) + 1 /\ Len(Blocks) \in Nat
    BY <1>5, <1>7
  <2>2. PICK k : Charged(k, Blocks', Tracked', Tag')
    <3>1. t \in Threads \ Tracked
      BY <1>3
    <3> QED
      BY <1>1, <1>3, <1>5, <1>6, <1>7, <3>1, TrackedTypes, ChargeNew
  <2>3. k \in [DOMAIN Blocks' -> Tracked']
    BY <2>2 DEF Charged
  <2>4. Len(Blocks') + LowMemoryCount' = Cardinality(Tracked') + Cardinality(Looking')
    BY <1>3, <1>4, <1>5, <1>7, <2>1
  <2> QED
    BY <2>2, <2>3, <2>4 DEF ChargesBalance
<1>8. CASE LowMemoryCount' = LowMemoryCount + 1 /\ UNCHANGED Blocks
  <2>1. Charged(m, Blocks', Tracked', Tag') /\ m \in [DOMAIN Blocks' -> Tracked']
    BY <1>1, <1>3, <1>6, <1>8 DEF Charged
  <2>2. Len(Blocks) \in Nat
    BY <1>5
  <2>3. Len(Blocks') + LowMemoryCount' = Cardinality(Tracked') + Cardinality(Looking')
    BY <1>3, <1>4, <1>5, <1>8, <2>2
  <2> QED
    BY <2>1, <2>3 DEF ChargesBalance
<1> QED
  BY <1>1, <1>7, <1>8

LEMMA UntrackBalance ==
    ASSUME TrackInv, NEW t \in Threads, Untrack(t)
    PROVE  ChargesBalance'
<1>1. Dbg /\ pc[t] = "idle" /\ t \in held /\ UNCHANGED <<Dbg, LowMemoryCount, Tag, held>>
  BY DEF Untrack
<1>2. TypeOK /\ HoldersPlaces
  BY DEF TrackInv, IInv
<1>3. t \in Tracked /\ t \notin Looking
  BY <1>1 DEF Tracked, Looking
<1>4. /\ Len(Blocks) + LowMemoryCount = Cardinality(Tracked) + Cardinality(Looking)
      /\ Blocks \in Seq(Tags) /\ LowMemoryCount \in Int /\ Len(Blocks) \in Nat
  BY <1>1, <1>2 DEF TrackInv, ChargesBalance, TypeOK
<1>5. /\ Cardinality(Tracked) \in Nat /\ Cardinality(Looking) \in Nat
      /\ Cardinality(Tracked \ {t}) = Cardinality(Tracked) - 1
      /\ Cardinality(Looking \cup {t}) = Cardinality(Looking) + 1
  BY <1>3, TrackedTypes, ThreadCounts
<1>6. PICK m : Charged(m, Blocks, Tracked, Tag)
  BY <1>1 DEF TrackInv, ChargesBalance
<1>7. ASSUME NEW p \in Positions(Tag[t]), Blocks' = Without(Blocks, p), Goto(t, "decrement")
      PROVE  ChargesBalance'
  <2>1. p \in DOMAIN Blocks /\ Blocks[p] = Tag[t]
    BY DEF Positions
  <2>2. Tracked' = Tracked \ {t} /\ Looking' = Looking
    BY <1>1, <1>2, <1>3, <1>7 DEF TypeOK, HoldersPlaces, Tracked, Looking, Removing, AfterWait, Goto
  <2>3. Len(Blocks') = Len(Blocks) - 1
    BY <1>4, <1>7, <2>1, WithoutType
  <2>4. PICK k : Charged(k, Blocks', Tracked', Tag')
    BY <1>1, <1>3, <1>4, <1>6, <1>7, <2>1, <2>2, TrackedTypes, ChargeFreed
  <2>5. k \in [DOMAIN Blocks' -> Tracked']
    BY <2>4 DEF Charged
  <2>6. Len(Blocks') + LowMemoryCount' = Cardinality(Tracked') + Cardinality(Looking')
    BY <1>1, <1>4, <1>5, <2>2, <2>3
  <2> QED
    BY <2>4, <2>5, <2>6 DEF ChargesBalance
<1>8. ASSUME Positions(Tag[t]) = {}, Goto(t, "missing"), UNCHANGED Blocks
      PROVE  ChargesBalance'
  <2>1. Tracked' = Tracked \ {t} /\ Looking' = Looking \cup {t}
    BY <1>1, <1>2, <1>3, <1>8 DEF TypeOK, HoldersPlaces, Tracked, Looking, Removing, AfterWait, Goto
  <2>2. \A i \in DOMAIN Blocks : Blocks[i] # Tag[t]
    BY <1>8 DEF Positions
  <2>3. Charged(m, Blocks', Tracked', Tag') /\ m \in [DOMAIN Blocks' -> Tracked']
    BY <1>1, <1>6, <1>8, <2>1, <2>2 DEF Charged
  <2>4. Len(Blocks') + LowMemoryCount' = Cardinality(Tracked') + Cardinality(Looking')
    BY <1>1, <1>4, <1>5, <1>8, <2>1
  <2> QED
    BY <2>3, <2>4 DEF ChargesBalance
<1> QED
  BY <1>7, <1>8 DEF Untrack

(* There are as many failed allocations left as there are threads that did *)
(* not find their tag: the blocks are no more than the tracked             *)
(* acquisitions.                                                           *)
LEMMA FailuresLeft ==
    ASSUME TrackInv, Dbg
    PROVE  LowMemoryCount >= Cardinality(Looking)
<1>1. PICK m : Charged(m, Blocks, Tracked, Tag)
  BY DEF TrackInv, ChargesBalance
<1>2. Blocks \in Seq(Tags) /\ LowMemoryCount \in Int
  BY DEF TrackInv, IInv, TypeOK
<1>3. Len(Blocks) \in Nat /\ Len(Blocks) <= Cardinality(Tracked)
  BY <1>1, <1>2, TrackedTypes, ChargedLength
<1>4. Cardinality(Tracked) \in Nat /\ Cardinality(Looking) \in Nat
  <2>1. IsFiniteSet(Tracked) /\ IsFiniteSet(Looking)
    BY TrackedTypes, ThreadsAssumption, FS_Subset
  <2> QED
    BY <2>1, FS_CardinalityType
<1> QED
  BY <1>2, <1>3, <1>4 DEF TrackInv, ChargesBalance

LEMMA MissingBalance ==
    ASSUME TrackInv, Dbg, NEW t \in Threads, Missing(t)
    PROVE  ChargesBalance'
<1>1. /\ pc[t] = "missing" /\ pc' = [pc EXCEPT ![t] = "decrement"]
      /\ UNCHANGED <<Dbg, Blocks, Tag, held>>
      /\ LowMemoryCount' = IF LowMemoryCount > 0 THEN LowMemoryCount - 1 ELSE LowMemoryCount
  BY DEF Missing, Goto
<1>2. TypeOK /\ HoldersPlaces
  BY DEF TrackInv, IInv
<1>3. t \in Looking /\ Looking' = Looking \ {t} /\ Tracked' = Tracked
  BY <1>1, <1>2 DEF TypeOK, Tracked, Looking, Removing, AfterWait
<1>4. /\ Cardinality(Tracked) \in Nat /\ Cardinality(Looking) \in Nat /\ Cardinality(Looking) # 0
      /\ Cardinality(Looking') = Cardinality(Looking) - 1
  BY <1>3, TrackedTypes, ThreadCounts
<1>5. LowMemoryCount \in Int /\ LowMemoryCount >= Cardinality(Looking) /\ Len(Blocks) \in Nat
  BY <1>2, FailuresLeft DEF TypeOK
<1>6. LowMemoryCount' = LowMemoryCount - 1
  BY <1>1, <1>4, <1>5
<1>7. Len(Blocks) + LowMemoryCount = Cardinality(Tracked) + Cardinality(Looking)
  BY DEF TrackInv, ChargesBalance
<1>8. Len(Blocks') + LowMemoryCount' = Cardinality(Tracked') + Cardinality(Looking')
  BY <1>1, <1>3, <1>4, <1>5, <1>6, <1>7
<1> QED
  BY <1>1, <1>3, <1>8 DEF TrackInv, ChargesBalance

LEMMA LooksStep ==
    ASSUME TypeOK, LooksOnlyDbg, NEW t \in Threads, Acquire(t) \/ ReleaseAndWait(t) \/ Continue(t)
    PROVE  LooksOnlyDbg'
<1>1. Dbg' = Dbg /\ \A u \in Threads \ {t} : pc'[u] = pc[u]
  BY DEF TypeOK, Acquire, TestRemoved, BackOut, CountDown, KeSetEvent, Decrement, ReleaseAndWait, Track,
         Untrack, Missing, DropOwn, DropDevice, WaitForOthers, Reap, tracking, Goto, Continue
<1>2. pc'[t] = "missing" => Dbg
  BY DEF TypeOK, Acquire, TestRemoved, BackOut, CountDown, KeSetEvent, Decrement, ReleaseAndWait, Track,
         Untrack, Missing, DropOwn, DropDevice, WaitForOthers, Reap, Goto, Continue
<1> QED
  BY <1>1, <1>2 DEF LooksOnlyDbg, Looking

LEMMA TrackInvHolds == Spec => []TrackInv
<1>1. Init => TrackInv
  <2> SUFFICES ASSUME Init PROVE ChargesBalance /\ LooksOnlyDbg
    BY InitInv DEF TrackInv
  <2>1. Tracked = {} /\ Looking = {}
    BY DEF Init, Tracked, Looking, Removing, AfterWait
  <2>2. Blocks = <<>> /\ LowMemoryCount = 0 /\ Len(<<>>) = 0
    BY DEF Init
  <2>3. Cardinality({}) = 0
    BY FS_EmptySet
  <2>4. \E m \in [DOMAIN Blocks -> Tracked] : Charged(m, Blocks, Tracked, Tag)
    <3>1. Charged(<<>>, <<>>, {}, Tag) /\ <<>> \in [DOMAIN <<>> -> {}]
      BY DEF Charged
    <3> QED
      BY <2>1, <2>2, <3>1
  <2> QED
    BY <2>1, <2>2, <2>3, <2>4 DEF ChargesBalance, LooksOnlyDbg
<1>2. TrackInv /\ [Next]_vars => TrackInv'
  <2> SUFFICES ASSUME TrackInv, [Next]_vars PROVE ChargesBalance' /\ LooksOnlyDbg'
    BY NextInv DEF TrackInv
  <2>1. CASE UNCHANGED vars
    BY <2>1 DEF vars, TrackInv, ChargesBalance, LooksOnlyDbg, Tracked, Looking
  <2>2. ASSUME NEW t \in Threads, Track(t) \/ Missing(t) PROVE ChargesBalance'
    <3>1. Dbg' = Dbg
      BY <2>2 DEF Track, Missing
    <3>2. CASE ~Dbg
      BY <3>1, <3>2 DEF ChargesBalance
    <3> QED
      BY <2>2, <3>2, TrackBalance, MissingBalance
  <2>3. ASSUME Next PROVE LooksOnlyDbg'
    BY <2>3, LooksStep DEF Next, TrackInv, IInv
  <2> QED
    BY <2>1, <2>2, <2>3, UntrackedStep, UntrackBalance DEF Next, Continue
<1> QED
  BY <1>1, <1>2, PTL DEF Spec

(* The ASSERTs of the remove lock hold and its tracking balances, for any  *)
(* number of threads with any tags, whichever allocations fail and         *)
(* whosever block a release frees: a tag that is not found is due to a     *)
(* failed allocation (IoReleaseRemoveLockEx).                              *)
THEOREM TrackingCorrect == Spec => []TrackingSound
<1>1. ASSUME TrackInv PROVE TrackingSound
  <2>1. TypeOK /\ HoldersPlaces /\ OneRemover /\ Drained /\ CountExact
    BY <1>1 DEF TrackInv, IInv
  <2>2. ASSUME NEW t \in Threads, pc[t] = "setEvent" PROVE Removed
    BY <2>1, <2>2 DEF Drained
  <2>3. ASSUME NEW t \in Threads, pc[t] = "dropOwn" PROVE IoCount > 1
    <3>1. t \in Counted /\ ~DeviceDropped /\ ~OwnDropped
      BY <2>1, <2>3 DEF HoldersPlaces, Counted, OneRemover, Removing, DeviceDropped, OwnDropped, AfterWait
    <3>2. Cardinality(Counted) \in Nat /\ Cardinality(Counted) # 0
      BY <2>1, <3>1, CountedType, ThreadCounts
    <3> QED
      BY <2>1, <3>1, <3>2 DEF CountExact
  <2>4. ASSUME NEW t \in Threads, pc[t] = "missing" PROVE LowMemoryCount >= Cardinality(Looking)
    <3>1. Dbg
      BY <1>1, <2>4 DEF TrackInv, LooksOnlyDbg, Looking
    <3> QED
      BY <1>1, <3>1, FailuresLeft
  <2>7. ASSUME NEW t \in Threads, pc[t] = "reap", Dbg, LowMemoryCount = 0 PROVE Blocks # <<>>
    <3>1. t \in Tracked
      BY <2>7 DEF Tracked, Removing, AfterWait
    <3>2. Cardinality(Tracked) \in Nat /\ Cardinality(Tracked) # 0 /\ Cardinality(Looking) \in Nat
      BY <3>1, TrackedTypes, ThreadCounts
    <3>3. Len(Blocks) + LowMemoryCount = Cardinality(Tracked) + Cardinality(Looking)
      BY <1>1, <2>7 DEF TrackInv, ChargesBalance
    <3>4. Len(Blocks) # 0
      BY <2>7, <3>2, <3>3
    <3> QED
      BY <3>4
  <2>5. ASSUME Dbg, NEW g \in Tags
        PROVE  Cardinality(Positions(g)) <= Cardinality({t \in Tracked : Tag[t] = g})
    <3>1. PICK m : Charged(m, Blocks, Tracked, Tag)
      BY <1>1, <2>5 DEF TrackInv, ChargesBalance
    <3>2. Blocks \in Seq(Tags) /\ Positions(g) = {i \in DOMAIN Blocks : Blocks[i] = g}
      BY <2>1 DEF TypeOK, Positions
    <3> DEFINE R == {t \in Tracked : Tag[t] = g}
    <3>3. AllHave(Positions(g), Blocks, g) /\ AreAll(R, Tracked, Tag, g)
      BY <3>2 DEF AllHave, AreAll
    <3> HIDE DEF R
    <3>4. Cardinality(Positions(g)) <= Cardinality(R)
      BY <3>1, <3>2, <3>3, TrackedTypes, ChargedTags
    <3> QED
      BY <3>4 DEF R
  <2>6. TrackingBalances
    BY <1>1, <2>5 DEF TrackInv, ChargesBalance, TrackingBalances
  <2> QED
    BY <2>2, <2>3, <2>4, <2>6, <2>7 DEF TrackingSound, SanityChecks
<1> QED
  BY <1>1, TrackInvHolds, PTL
=============================================================================
