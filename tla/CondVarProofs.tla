---------------------------- MODULE CondVarProofs ----------------------------
(***************************************************************************)
(* Proofs about CondVar and the keyed event it is composed with, for any   *)
(* threads.                                                                *)
(***************************************************************************)
EXTENDS CondVar, Integers, WellFoundedInduction, TLAPS

-----------------------------------------------------------------------------
(* Lists in which nothing is twice.                                        *)

(* What is left of such a list without one of its elements.                *)
LEMMA WithoutOne ==
    ASSUME NEW s \in Seq(Threads), KE!Distinct(s), NEW p \in DOMAIN s
    PROVE  /\ Len(s) \in Nat /\ p \in 1 .. Len(s) /\ DOMAIN s = 1 .. Len(s)
           /\ KE!Without(s, s[p]) \in Seq(Threads)
           /\ Len(KE!Without(s, s[p])) = Len(s) - 1
           /\ \A i \in 1 .. Len(s) - 1 : KE!Without(s, s[p])[i] = s[IF i < p THEN i ELSE i + 1]
<1>1. Len(s) \in Nat /\ DOMAIN s = 1 .. Len(s) /\ p \in 1 .. Len(s)
  OBVIOUS
<1>2. \A i \in DOMAIN s : s[i] = s[p] <=> i = p
  BY DEF KE!Distinct
<1>3. (CHOOSE i \in DOMAIN s : s[i] = s[p]) = p
  BY <1>2
<1>4. KE!InList(s[p], s)
  BY DEF KE!InList
<1> DEFINE r == [i \in 1 .. Len(s) - 1 |-> s[IF i < p THEN i ELSE i + 1]]
<1>5. KE!Without(s, s[p]) = r
  BY <1>3, <1>4 DEF KE!Without
<1>6. Len(s) - 1 \in Nat /\ \A i \in 1 .. Len(s) - 1 : (IF i < p THEN i ELSE i + 1) \in 1 .. Len(s)
  BY <1>1
<1>7. r \in Seq(Threads) /\ Len(r) = Len(s) - 1
  <2>1. \A i \in 1 .. Len(s) - 1 : s[IF i < p THEN i ELSE i + 1] \in Threads
    BY <1>1, <1>6
  <2> QED
    BY <1>6, <2>1
<1> QED
  BY <1>1, <1>5, <1>7

LEMMA WithoutNone ==
    ASSUME NEW s, NEW e, ~KE!InList(e, s)
    PROVE  KE!Without(s, e) = s
  BY DEF KE!Without

(* An element less.                                                        *)
LEMMA WithoutElements ==
    ASSUME NEW s \in Seq(Threads), KE!Distinct(s), NEW e
    PROVE  /\ KE!Without(s, e) \in Seq(Threads)
           /\ KE!Distinct(KE!Without(s, e))
           /\ \A x : KE!InList(x, KE!Without(s, e)) <=> KE!InList(x, s) /\ x # e
<1>1. CASE ~KE!InList(e, s)
  BY <1>1, WithoutNone
<1>2. CASE KE!InList(e, s)
  <2>1. PICK p \in DOMAIN s : s[p] = e
    BY <1>2 DEF KE!InList
  <2> DEFINE r == KE!Without(s, e)
             From(i) == IF i < p THEN i ELSE i + 1
  <2>2. /\ Len(s) \in Nat /\ p \in 1 .. Len(s) /\ DOMAIN s = 1 .. Len(s)
        /\ r \in Seq(Threads) /\ Len(r) = Len(s) - 1
        /\ \A i \in 1 .. Len(s) - 1 : r[i] = s[From(i)]
    BY <2>1, WithoutOne
  <2>3. DOMAIN r = 1 .. Len(s) - 1
    BY <2>2
  <2> HIDE DEF r
  <2>4. \A i \in DOMAIN s, j \in DOMAIN s : s[i] = s[j] => i = j
    BY DEF KE!Distinct
  <2>5. \A i \in 1 .. Len(s) - 1 : From(i) \in 1 .. Len(s) /\ From(i) # p
    BY <2>2
  <2>6. \A i, j \in 1 .. Len(s) - 1 : From(i) = From(j) => i = j
    BY <2>2
  <2>7. KE!Distinct(r)
    BY <2>2, <2>3, <2>4, <2>5, <2>6 DEF KE!Distinct
  <2>8. ASSUME NEW x, KE!InList(x, r) PROVE KE!InList(x, s) /\ x # e
    BY <2>1, <2>2, <2>3, <2>4, <2>5, <2>8 DEF KE!InList
  <2>9. ASSUME NEW x, KE!InList(x, s), x # e PROVE KE!InList(x, r)
    <3>1. PICK k \in DOMAIN s : s[k] = x
      BY <2>9 DEF KE!InList
    <3> DEFINE i == IF k < p THEN k ELSE k - 1
    <3>2. k # p /\ k \in 1 .. Len(s)
      BY <2>1, <2>2, <2>9, <3>1
    <3>3. i \in 1 .. Len(s) - 1 /\ From(i) = k
      BY <2>2, <3>2
    <3>4. r[i] = x
      BY <2>2, <3>1, <3>3
    <3> QED
      BY <2>3, <3>3, <3>4 DEF KE!InList
  <2> QED
    BY <2>2, <2>7, <2>8, <2>9 DEF r
<1> QED
  BY <1>1, <1>2

(* An element more, at either end.                                         *)
LEMMA AppendElements ==
    ASSUME NEW s \in Seq(Threads), KE!Distinct(s), NEW t \in Threads, ~KE!InList(t, s)
    PROVE  /\ Append(s, t) \in Seq(Threads)
           /\ KE!Distinct(Append(s, t))
           /\ \A x : KE!InList(x, Append(s, t)) <=> KE!InList(x, s) \/ x = t
<1> DEFINE r == Append(s, t)
<1>1. /\ Len(s) \in Nat /\ DOMAIN s = 1 .. Len(s)
      /\ r \in Seq(Threads) /\ DOMAIN r = 1 .. Len(s) + 1 /\ r[Len(s) + 1] = t
      /\ \A i \in 1 .. Len(s) : r[i] = s[i]
  OBVIOUS
<1> HIDE DEF r
<1>2. \A i \in DOMAIN r : i \in DOMAIN s \/ i = Len(s) + 1
  BY <1>1
<1>3. KE!Distinct(r)
  BY <1>1, <1>2 DEF KE!Distinct, KE!InList
<1>4. \A x : KE!InList(x, r) <=> KE!InList(x, s) \/ x = t
  BY <1>1, <1>2 DEF KE!InList
<1> QED
  BY <1>1, <1>3, <1>4 DEF r

LEMMA PrependElements ==
    ASSUME NEW s \in Seq(Threads), KE!Distinct(s), NEW t \in Threads, ~KE!InList(t, s)
    PROVE  /\ <<t>> \o s \in Seq(Threads)
           /\ KE!Distinct(<<t>> \o s)
           /\ \A x : KE!InList(x, <<t>> \o s) <=> KE!InList(x, s) \/ x = t
<1> DEFINE r == <<t>> \o s
<1>1. /\ Len(s) \in Nat /\ DOMAIN s = 1 .. Len(s)
      /\ r \in Seq(Threads) /\ DOMAIN r = 1 .. Len(s) + 1 /\ r[1] = t
      /\ \A i \in 1 .. Len(s) : r[i + 1] = s[i]
  OBVIOUS
<1> HIDE DEF r
<1>2. \A i \in DOMAIN r : i = 1 \/ (i - 1 \in DOMAIN s /\ r[i] = s[i - 1])
  <2> SUFFICES ASSUME NEW i \in DOMAIN r, i # 1 PROVE i - 1 \in DOMAIN s /\ r[i] = s[i - 1]
    OBVIOUS
  <2>1. i - 1 \in 1 .. Len(s) /\ (i - 1) + 1 = i
    BY <1>1
  <2> QED
    BY <1>1, <2>1
<1>3. KE!Distinct(r)
  <2> SUFFICES ASSUME NEW i \in DOMAIN r, NEW j \in DOMAIN r, r[i] = r[j] PROVE i = j
    BY DEF KE!Distinct
  <2>1. i \in Int /\ j \in Int
    BY <1>1
  <2>2. CASE i # 1 /\ j # 1
    <3>1. i - 1 = j - 1
      BY <1>2, <2>2 DEF KE!Distinct
    <3> QED
      BY <2>1, <3>1
  <2>3. CASE i = 1 \/ j = 1
    BY <1>1, <1>2, <2>3 DEF KE!InList
  <2> QED
    BY <2>2, <2>3
<1>4. \A x : KE!InList(x, r) <=> KE!InList(x, s) \/ x = t
  <2>1. \A x : KE!InList(x, r) => KE!InList(x, s) \/ x = t
    BY <1>1, <1>2 DEF KE!InList
  <2>2. ASSUME NEW x, KE!InList(x, s) PROVE KE!InList(x, r)
    <3>1. PICK k \in DOMAIN s : s[k] = x
      BY <2>2 DEF KE!InList
    <3>2. k + 1 \in DOMAIN r /\ r[k + 1] = x
      BY <1>1, <3>1
    <3> QED
      BY <3>2 DEF KE!InList
  <2>3. KE!InList(t, r)
    BY <1>1 DEF KE!InList
  <2> QED
    BY <2>1, <2>2, <2>3
<1> QED
  BY <1>1, <1>3, <1>4 DEF r

-----------------------------------------------------------------------------
(* The keyed event.                                                        *)

(* The oldest thread that is listed for a key is one.                      *)
LEMMA PartnerListed ==
    ASSUME NEW s \in Seq(Threads), NEW key, KE!Listed(s, key) # {}
    PROVE  \E p \in DOMAIN s : KE!Partner(s, key) = s[p] /\ KeyedWaitValue[s[p]] = key
<1> DEFINE L == KE!Listed(s, key)
<1>1. L \subseteq DOMAIN s /\ \A i \in L : KeyedWaitValue[s[i]] = key
  BY DEF KE!Listed
<1>2. L \subseteq Nat
  BY <1>1
<1> HIDE DEF L
<1>3. \E i \in L : \A j \in L : i <= j
  <2>1. IsWellFoundedOn(OpToRel(<, Nat), Nat)
    BY NatLessThanWellFounded
  <2>2. PICK i \in L : \A j \in L : <<j, i>> \notin OpToRel(<, Nat)
    BY <1>2, <2>1, WFMin DEF L
  <2>3. \A j \in L : ~(j < i)
    BY <1>2, <2>2 DEF OpToRel
  <2> QED
    BY <1>2, <2>3
<1>4. (CHOOSE i \in L : \A j \in L : i <= j) \in L
  BY <1>3
<1>5. KE!Partner(s, key) = s[CHOOSE i \in L : \A j \in L : i <= j]
  BY DEF KE!Partner, L
<1> QED
  BY <1>1, <1>4, <1>5

(* Rendezvous, of either list and the other: a release and a wait are      *)
(* treated alike.                                                          *)
Under == {"wait", "timedOut"}

Agrees(W, R, value, count, at) ==
    /\ \A i \in DOMAIN W, j \in DOMAIN R : value[W[i]] # value[R[j]]
    /\ KE!Distinct(W) /\ KE!Distinct(R)
    /\ \A t \in Threads :
          /\ KE!InList(t, W) \/ KE!InList(t, R) => at[t] \in Under /\ count[t] = 0
          /\ at[t] \in Under /\ ~KE!InList(t, W) /\ ~KE!InList(t, R) => count[t] = 1

LEMMA RendezvousIs ==
    Rendezvous <=> Agrees(WaitList, ReleaseList, KeyedWaitValue, KeyedWaitSemaphore, kpc)
  BY DEF Rendezvous, KE!Rendezvous, Agrees, Under

LEMMA RendezvousIsNext ==
    Rendezvous' <=> Agrees(WaitList', ReleaseList', KeyedWaitValue', KeyedWaitSemaphore', kpc')
  BY DEF Rendezvous, KE!Rendezvous, Agrees, Under

LEMMA AgreesBothWays ==
    ASSUME NEW W, NEW R, NEW value, NEW count, NEW at, Agrees(W, R, value, count, at)
    PROVE  Agrees(R, W, value, count, at)
  BY DEF Agrees

LEMMA MeetAgrees ==
    ASSUME NEW W \in Seq(Threads), NEW R \in Seq(Threads), NEW value,
           NEW count, NEW at, Agrees(W, R, value, count, at),
           NEW t \in Threads, at[t] = "out", NEW e \in Threads, KE!InList(e, W),
           NEW count2, count2[e] = 1, \A u \in Threads \ {e} : count2[u] = count[u],
           NEW at2, at2[t] = "returned", \A u \in Threads \ {t} : at2[u] = at[u]
    PROVE  Agrees(KE!Without(W, e), R, value, count2, at2)
<1> DEFINE V == KE!Without(W, e)
<1>1. KE!Distinct(W) /\ KE!Distinct(R) /\ count[e] = 0 /\ e # t
  BY DEF Agrees, Under
<1>2. V \in Seq(Threads) /\ KE!Distinct(V) /\ \A x : KE!InList(x, V) <=> KE!InList(x, W) /\ x # e
  BY <1>1, WithoutElements
<1> HIDE DEF V
<1>3. \A x, y : KE!InList(x, W) /\ KE!InList(y, R) => value[x] # value[y]
  BY DEF Agrees, KE!InList
<1>4. \A i \in DOMAIN V, j \in DOMAIN R : value[V[i]] # value[R[j]]
  <2> SUFFICES ASSUME NEW i \in DOMAIN V, NEW j \in DOMAIN R PROVE value[V[i]] # value[R[j]]
    OBVIOUS
  <2>1. KE!InList(V[i], V) /\ KE!InList(R[j], R)
    BY DEF KE!InList
  <2> QED
    BY <1>2, <1>3, <2>1
<1>5. ~KE!InList(e, R) /\ ~KE!InList(t, W) /\ ~KE!InList(t, R)
  BY <1>3 DEF Agrees, Under
<1>6. ASSUME NEW u \in Threads
      PROVE  /\ KE!InList(u, V) \/ KE!InList(u, R) => at2[u] \in Under /\ count2[u] = 0
             /\ at2[u] \in Under /\ ~KE!InList(u, V) /\ ~KE!InList(u, R) => count2[u] = 1
  BY <1>2, <1>5 DEF Agrees, Under
<1>7. Agrees(V, R, value, count2, at2)
  BY <1>1, <1>2, <1>4, <1>6 DEF Agrees
<1> QED
  BY <1>7 DEF V

(* The thread is added to a list, and its own state is that of a thread    *)
(* that waits for a key, which nobody in the other list has.               *)
Joins(t, R, Q) == KE!Distinct(Q) /\ \A x : KE!InList(x, Q) <=> KE!InList(x, R) \/ x = t

OthersKeep(t, f, g) == \A u \in Threads \ {t} : g[u] = f[u]

NobodyHas(W, value, key) == \A i \in DOMAIN W : value[W[i]] # key

LEMMA EnlistAgrees ==
    ASSUME NEW W \in Seq(Threads), NEW R \in Seq(Threads), NEW value, NEW count, NEW at,
           Agrees(W, R, value, count, at),
           NEW t \in Threads, at[t] = "out", NEW Q, Joins(t, R, Q),
           NEW value2, NEW count2, NEW at2, count2[t] = 0, at2[t] = "wait",
           NobodyHas(W, value, value2[t]),
           OthersKeep(t, value, value2), OthersKeep(t, count, count2), OthersKeep(t, at, at2)
    PROVE  Agrees(W, Q, value2, count2, at2)
<1> DEFINE key == value2[t]
<1> USE DEF Joins, OthersKeep, NobodyHas
<1>1. KE!Distinct(W) /\ KE!Distinct(R) /\ ~KE!InList(t, W) /\ ~KE!InList(t, R)
  BY DEF Agrees, Under
<1>2. \A x, y : KE!InList(x, W) /\ KE!InList(y, R) => value[x] # value[y]
  BY DEF Agrees, KE!InList
<1>3. \A x : KE!InList(x, W) => x \in Threads \ {t} /\ value[x] # key
  BY <1>1 DEF KE!InList
<1>4. \A x : KE!InList(x, R) => x \in Threads \ {t}
  BY <1>1 DEF KE!InList
<1>5. \A x, y : KE!InList(x, W) /\ KE!InList(y, Q) => value2[x] # value2[y]
  BY <1>2, <1>3, <1>4
<1>6. \A i \in DOMAIN W, j \in DOMAIN Q : value2[W[i]] # value2[Q[j]]
  <2> SUFFICES ASSUME NEW i \in DOMAIN W, NEW j \in DOMAIN Q PROVE value2[W[i]] # value2[Q[j]]
    OBVIOUS
  <2>1. KE!InList(W[i], W) /\ KE!InList(Q[j], Q)
    BY DEF KE!InList
  <2> QED
    BY <1>5, <2>1
<1>7. ASSUME NEW u \in Threads
      PROVE  /\ KE!InList(u, W) \/ KE!InList(u, Q) => at2[u] \in Under /\ count2[u] = 0
             /\ at2[u] \in Under /\ ~KE!InList(u, W) /\ ~KE!InList(u, Q) => count2[u] = 1
  BY <1>1 DEF Agrees, Under
<1>8. Agrees(W, Q, value2, count2, at2)
  BY <1>1, <1>6, <1>7 DEF Agrees
<1> QED
  BY <1>8

KeyedInv == KE!TypeOK /\ Rendezvous

(* A call of the keyed event up to its wait.                               *)
LEMMA KeyedCallInv ==
    ASSUME KeyedInv, NEW t \in Threads, NEW key \in Threads, NEW timeout \in BOOLEAN,
           KE!ExpReleaseKeyedEvent(t, key, timeout) \/ KE!ExpWaitForKeyedEvent(t, key, timeout)
    PROVE  KeyedInv'
<1>1. /\ KE!TypeOK /\ kpc[t] = "out" /\ WaitList \in Seq(Threads) /\ ReleaseList \in Seq(Threads)
      /\ KeyedWaitValue \in [Threads -> Threads \cup {NULL}]
      /\ KeyedWaitSemaphore \in [Threads -> {0, 1}]
  BY DEF KeyedInv, KE!TypeOK, KE!ExpReleaseKeyedEvent, KE!ExpWaitForKeyedEvent
<1>2. /\ Agrees(WaitList, ReleaseList, KeyedWaitValue, KeyedWaitSemaphore, kpc)
      /\ Agrees(ReleaseList, WaitList, KeyedWaitValue, KeyedWaitSemaphore, kpc)
  BY RendezvousIs, AgreesBothWays DEF KeyedInv
<1>3. KE!Distinct(WaitList) /\ KE!Distinct(ReleaseList)
  BY <1>2 DEF Agrees
<1>4. /\ Timeout' \in [Threads -> BOOLEAN]
      /\ kpc' \in [Threads -> {"out", "wait", "timedOut", "returned"}]
      /\ Status' \in [Threads -> {NULL, "STATUS_SUCCESS", "STATUS_TIMEOUT"}]
  BY <1>1 DEF KE!TypeOK, KE!ExpReleaseKeyedEvent, KE!ExpWaitForKeyedEvent, KE!Meet, KE!Enlist,
              KE!Returns
<1>5. ASSUME NEW s \in {WaitList, ReleaseList}, KE!Meet(t, key, s)
      PROVE  LET e == KE!Partner(s, key) IN
             /\ e \in Threads /\ KE!InList(e, s)
             /\ KeyedWaitSemaphore' \in [Threads -> {0, 1}] /\ KeyedWaitSemaphore'[e] = 1
             /\ \A u \in Threads \ {e} : KeyedWaitSemaphore'[u] = KeyedWaitSemaphore[u]
             /\ kpc'[t] = "returned" /\ \A u \in Threads \ {t} : kpc'[u] = kpc[u]
             /\ KeyedWaitValue' = KeyedWaitValue
  <2>1. s \in Seq(Threads) /\ KE!Listed(s, key) # {}
    BY <1>1, <1>5 DEF KE!Meet
  <2> DEFINE e == KE!Partner(s, key)
  <2>2. PICK p \in DOMAIN s : e = s[p]
    BY <2>1, PartnerListed
  <2>3. /\ KeyedWaitSemaphore' = [KeyedWaitSemaphore EXCEPT ![e] = @ + 1]
        /\ kpc' = [kpc EXCEPT ![t] = "returned"] /\ KeyedWaitValue' = KeyedWaitValue
    BY <1>5 DEF KE!Meet, KE!Returns
  <2> HIDE DEF e
  <2>4. e \in Threads /\ KE!InList(e, s)
    BY <2>1, <2>2 DEF KE!InList
  <2>5. KeyedWaitSemaphore[e] = 0
    BY <1>2, <1>5, <2>4 DEF Agrees
  <2>6. /\ KeyedWaitSemaphore' \in [Threads -> {0, 1}] /\ KeyedWaitSemaphore'[e] = 1
        /\ \A u \in Threads \ {e} : KeyedWaitSemaphore'[u] = KeyedWaitSemaphore[u]
    BY <1>1, <2>3, <2>4, <2>5
  <2>7. kpc'[t] = "returned" /\ \A u \in Threads \ {t} : kpc'[u] = kpc[u]
    BY <1>1, <2>3 DEF KE!TypeOK
  <2> QED
    BY <2>3, <2>4, <2>6, <2>7 DEF e
<1>6. ASSUME NEW s \in {WaitList, ReleaseList}, KE!Enlist(t, key, s, timeout)
      PROVE  /\ \A i \in DOMAIN s : KeyedWaitValue[s[i]] # key
             /\ KeyedWaitValue' \in [Threads -> Threads \cup {NULL}] /\ KeyedWaitValue'[t] = key
             /\ KeyedWaitSemaphore' \in [Threads -> {0, 1}] /\ KeyedWaitSemaphore'[t] = 0
             /\ kpc'[t] = "wait"
             /\ \A u \in Threads \ {t} : /\ KeyedWaitValue'[u] = KeyedWaitValue[u]
                                          /\ KeyedWaitSemaphore'[u] = KeyedWaitSemaphore[u]
                                          /\ kpc'[u] = kpc[u]
  <2>1. \A i \in DOMAIN s : KeyedWaitValue[s[i]] # key
    BY <1>6 DEF KE!Enlist, KE!Listed
  <2>2. /\ KeyedWaitValue' = [KeyedWaitValue EXCEPT ![t] = key]
        /\ KeyedWaitSemaphore' = [KeyedWaitSemaphore EXCEPT ![t] = 0]
        /\ kpc' = [kpc EXCEPT ![t] = "wait"]
    BY <1>6 DEF KE!Enlist
  <2> QED
    BY <1>1, <2>1, <2>2 DEF KE!TypeOK
<1>7. CASE KE!Meet(t, key, WaitList) /\ WaitList' = KE!Without(WaitList, KE!Partner(WaitList, key))
              /\ UNCHANGED ReleaseList
  <2>1. WaitList' \in Seq(Threads)
    BY <1>1, <1>3, <1>7, WithoutElements
  <2>2. Agrees(WaitList', ReleaseList', KeyedWaitValue', KeyedWaitSemaphore', kpc')
    BY <1>1, <1>2, <1>5, <1>7, MeetAgrees
  <2>3. KE!TypeOK'
    BY <1>1, <1>4, <1>5, <1>7, <2>1 DEF KE!TypeOK
  <2> QED
    BY <2>2, <2>3, RendezvousIsNext DEF KeyedInv
<1>8. CASE KE!Meet(t, key, ReleaseList)
              /\ ReleaseList' = KE!Without(ReleaseList, KE!Partner(ReleaseList, key))
              /\ UNCHANGED WaitList
  <2>1. ReleaseList' \in Seq(Threads)
    BY <1>1, <1>3, <1>8, WithoutElements
  <2>2. Agrees(ReleaseList', WaitList', KeyedWaitValue', KeyedWaitSemaphore', kpc')
    BY <1>1, <1>2, <1>5, <1>8, MeetAgrees
  <2>3. KE!TypeOK'
    BY <1>1, <1>4, <1>5, <1>8, <2>1 DEF KE!TypeOK
  <2> QED
    BY <2>2, <2>3, AgreesBothWays, RendezvousIsNext DEF KeyedInv
<1>9. CASE KE!Enlist(t, key, WaitList, timeout) /\ ReleaseList' = Append(ReleaseList, t)
              /\ UNCHANGED WaitList
  <2>1. /\ ReleaseList' \in Seq(Threads) /\ KE!Distinct(ReleaseList')
        /\ \A x : KE!InList(x, ReleaseList') <=> KE!InList(x, ReleaseList) \/ x = t
    BY <1>1, <1>2, <1>3, <1>9, AppendElements DEF Agrees, Under
  <2>2. WaitList' = WaitList
    BY <1>9
  <2>3. Agrees(WaitList, ReleaseList', KeyedWaitValue', KeyedWaitSemaphore', kpc')
    <3>1. KE!Enlist(t, key, WaitList, timeout)
      BY <1>9
    <3>2. /\ NobodyHas(WaitList, KeyedWaitValue, KeyedWaitValue'[t])
          /\ KeyedWaitSemaphore'[t] = 0 /\ kpc'[t] = "wait"
      BY <1>6, <3>1 DEF NobodyHas
    <3>3. /\ OthersKeep(t, KeyedWaitValue, KeyedWaitValue')
          /\ OthersKeep(t, KeyedWaitSemaphore, KeyedWaitSemaphore')
          /\ OthersKeep(t, kpc, kpc')
      BY <1>6, <3>1 DEF OthersKeep
    <3>4. Joins(t, ReleaseList, ReleaseList')
      BY <2>1 DEF Joins
    <3> QED
      BY <1>1, <1>2, <3>2, <3>3, <3>4, EnlistAgrees
  <2>4. KE!TypeOK'
    BY <1>1, <1>4, <1>6, <1>9, <2>1 DEF KE!TypeOK
  <2> QED
    BY <2>2, <2>3, <2>4, RendezvousIsNext DEF KeyedInv
<1>10. CASE KE!Enlist(t, key, ReleaseList, timeout) /\ WaitList' = Append(WaitList, t)
               /\ UNCHANGED ReleaseList
  <2>1. /\ WaitList' \in Seq(Threads) /\ KE!Distinct(WaitList')
        /\ \A x : KE!InList(x, WaitList') <=> KE!InList(x, WaitList) \/ x = t
    BY <1>1, <1>2, <1>3, <1>10, AppendElements DEF Agrees, Under
  <2>2. ReleaseList' = ReleaseList
    BY <1>10
  <2>3. Agrees(ReleaseList, WaitList', KeyedWaitValue', KeyedWaitSemaphore', kpc')
    <3>1. KE!Enlist(t, key, ReleaseList, timeout)
      BY <1>10
    <3>2. /\ NobodyHas(ReleaseList, KeyedWaitValue, KeyedWaitValue'[t])
          /\ KeyedWaitSemaphore'[t] = 0 /\ kpc'[t] = "wait"
      BY <1>6, <3>1 DEF NobodyHas
    <3>3. /\ OthersKeep(t, KeyedWaitValue, KeyedWaitValue')
          /\ OthersKeep(t, KeyedWaitSemaphore, KeyedWaitSemaphore')
          /\ OthersKeep(t, kpc, kpc')
      BY <1>6, <3>1 DEF OthersKeep
    <3>4. Joins(t, WaitList, WaitList')
      BY <2>1 DEF Joins
    <3> QED
      BY <1>1, <1>2, <3>2, <3>3, <3>4, EnlistAgrees
  <2>4. KE!TypeOK'
    BY <1>1, <1>4, <1>6, <1>10, <2>1 DEF KE!TypeOK
  <2> QED
    BY <2>2, <2>3, <2>4, AgreesBothWays, RendezvousIsNext DEF KeyedInv
<1> QED
  BY <1>7, <1>8, <1>9, <1>10 DEF KE!ExpReleaseKeyedEvent, KE!ExpWaitForKeyedEvent

(* The rest of the call.                                                   *)
LEMMA KeyedKernelInv ==
    ASSUME KeyedInv, NEW t \in Threads, KE!KernelStep(t) \/ KE!Consume(t)
    PROVE  KeyedInv'
<1>1. KE!TypeOK /\ Agrees(WaitList, ReleaseList, KeyedWaitValue, KeyedWaitSemaphore, kpc)
  BY RendezvousIs DEF KeyedInv
<1>2. KE!Distinct(WaitList) /\ KE!Distinct(ReleaseList)
  BY <1>1 DEF Agrees
<1>3. ASSUME KE!WaitSatisfied(t) PROVE KeyedInv'
  <2>1. ~KE!InList(t, WaitList) /\ ~KE!InList(t, ReleaseList) /\ KeyedWaitSemaphore[t] = 1
    BY <1>1, <1>3 DEF Agrees, KE!WaitSatisfied, KE!TypeOK
  <2>2. KE!TypeOK'
    BY <1>1, <1>3, <2>1 DEF KE!WaitSatisfied, KE!Returns, KE!TypeOK, KE!lists
  <2>3. Agrees(WaitList', ReleaseList', KeyedWaitValue', KeyedWaitSemaphore', kpc')
    BY <1>1, <1>3, <2>1
       DEF KE!WaitSatisfied, KE!Returns, KE!TypeOK, KE!lists, Agrees, Under, KE!InList
  <2> QED
    BY <2>2, <2>3, RendezvousIsNext DEF KeyedInv
<1>4. ASSUME KE!WaitTimesOut(t) \/ KE!Consume(t) PROVE KeyedInv'
  <2>1. KE!TypeOK'
    BY <1>1, <1>4 DEF KE!WaitTimesOut, KE!Consume, KE!TypeOK, KE!lists
  <2>2. Agrees(WaitList', ReleaseList', KeyedWaitValue', KeyedWaitSemaphore', kpc')
    BY <1>1, <1>4 DEF KE!WaitTimesOut, KE!Consume, KE!TypeOK, KE!lists, Agrees, Under
  <2> QED
    BY <2>1, <2>2, RendezvousIsNext DEF KeyedInv
<1>5. ASSUME KE!Delist(t) PROVE KeyedInv'
  <2>1. /\ WaitList' \in Seq(Threads) /\ KE!Distinct(WaitList')
        /\ \A x : KE!InList(x, WaitList') <=> KE!InList(x, WaitList) /\ x # t
    BY <1>1, <1>2, <1>5, WithoutElements DEF KE!Delist, KE!TypeOK
  <2>2. /\ ReleaseList' \in Seq(Threads) /\ KE!Distinct(ReleaseList')
        /\ \A x : KE!InList(x, ReleaseList') <=> KE!InList(x, ReleaseList) /\ x # t
    BY <1>1, <1>2, <1>5, WithoutElements DEF KE!Delist, KE!TypeOK
  <2>3. KE!TypeOK'
    BY <1>1, <1>5, <2>1, <2>2 DEF KE!Delist, KE!Returns, KE!TypeOK
  <2>4. /\ \A u \in Threads \ {t} : kpc'[u] = kpc[u] /\ KeyedWaitValue'[u] = KeyedWaitValue[u]
        /\ kpc'[t] = "returned" /\ KeyedWaitSemaphore' = KeyedWaitSemaphore
    BY <1>1, <1>5 DEF KE!Delist, KE!Returns, KE!TypeOK
  <2>5. \A x, y : KE!InList(x, WaitList') /\ KE!InList(y, ReleaseList') =>
                     KeyedWaitValue'[x] # KeyedWaitValue'[y]
    <3>1. \A x, y : KE!InList(x, WaitList) /\ KE!InList(y, ReleaseList) =>
                       x \in Threads /\ y \in Threads /\ KeyedWaitValue[x] # KeyedWaitValue[y]
      BY <1>1 DEF Agrees, KE!InList, KE!TypeOK
    <3> QED
      BY <2>1, <2>2, <2>4, <3>1
  <2>6. \A i \in DOMAIN WaitList', j \in DOMAIN ReleaseList' :
           KeyedWaitValue'[WaitList'[i]] # KeyedWaitValue'[ReleaseList'[j]]
    BY <2>5 DEF KE!InList
  <2>7. ASSUME NEW u \in Threads
        PROVE  /\ KE!InList(u, WaitList') \/ KE!InList(u, ReleaseList') =>
                     kpc'[u] \in Under /\ KeyedWaitSemaphore'[u] = 0
               /\ kpc'[u] \in Under /\ ~KE!InList(u, WaitList') /\ ~KE!InList(u, ReleaseList') =>
                     KeyedWaitSemaphore'[u] = 1
    BY <1>1, <2>1, <2>2, <2>4 DEF Agrees, Under
  <2>8. Agrees(WaitList', ReleaseList', KeyedWaitValue', KeyedWaitSemaphore', kpc')
    BY <2>1, <2>2, <2>6, <2>7 DEF Agrees
  <2> QED
    BY <2>3, <2>8, RendezvousIsNext DEF KeyedInv
<1> QED
  BY <1>3, <1>4, <1>5 DEF KE!KernelStep

-----------------------------------------------------------------------------
(* The condition variable.                                                 *)

(* The entry before one of the list is none or in the list, and taking the *)
(* one off leaves the entries before the other as they were.               *)
LEMMA NewerListed ==
    ASSUME NEW s \in Seq(Threads), KE!Distinct(s), NEW e, KE!InList(e, s)
    PROVE  LET n == Newer(s, e)
               r == KE!Without(s, e) IN
           n # NULL => /\ n \in Threads /\ n # e /\ KE!InList(n, s)
                       /\ Newer(r, n) = Newer(s, n)
<1>1. PICK p \in DOMAIN s : s[p] = e
  BY DEF KE!InList
<1>2. Len(s) \in Nat /\ DOMAIN s = 1 .. Len(s) /\ p \in 1 .. Len(s)
  OBVIOUS
<1>3. \A q \in DOMAIN s : (CHOOSE i \in DOMAIN s : s[i] = s[q]) = q
  BY DEF KE!Distinct
<1> DEFINE n == Newer(s, e)
           r == KE!Without(s, e)
<1>4. /\ r \in Seq(Threads) /\ Len(r) = Len(s) - 1
      /\ \A i \in 1 .. Len(s) - 1 : r[i] = s[IF i < p THEN i ELSE i + 1]
  BY <1>1, WithoutOne
<1>5. KE!Distinct(r)
  BY WithoutElements
<1>6. DOMAIN r = 1 .. Len(s) - 1
  BY <1>2, <1>4
<1>7. CASE p = 1
  BY <1>1, <1>7 DEF Newer
<1>8. CASE p # 1
  <2>1. n = s[p - 1] /\ p - 1 \in 1 .. Len(s) - 1 /\ p - 1 \in DOMAIN s
    <3>1. s[1] # e /\ 1 \in DOMAIN s
      BY <1>1, <1>2, <1>8 DEF KE!Distinct
    <3>2. (CHOOSE i \in DOMAIN s : s[i] = e) = p
      BY <1>1, <1>3
    <3>3. n = s[p - 1]
      BY <3>1, <3>2 DEF Newer
    <3> QED
      BY <1>2, <1>8, <3>3
  <2>2. n \in Threads /\ n # e /\ KE!InList(n, s)
    BY <1>1, <1>2, <2>1 DEF KE!InList, KE!Distinct
  <2>3. \A i \in 1 .. p - 1 : r[i] = s[i] /\ i \in DOMAIN r /\ i \in DOMAIN s
    BY <1>2, <1>4, <1>6
  <2>4. (CHOOSE i \in DOMAIN r : r[i] = n) = p - 1
    <3> HIDE DEF n, r
    <3>1. p - 1 \in DOMAIN r /\ r[p - 1] = n
      BY <1>2, <2>1, <2>3
    <3> QED
      BY <1>5, <3>1 DEF KE!Distinct
  <2>5. (CHOOSE i \in DOMAIN s : s[i] = n) = p - 1
    BY <1>3, <2>1
  <2>6. r[1] = s[1] /\ (p - 1 # 1 => r[p - 1 - 1] = s[p - 1 - 1])
    BY <1>2, <1>8, <2>3
  <2>7. s[1] = n <=> p - 1 = 1
    BY <1>2, <2>1 DEF KE!Distinct
  <2>8. Newer(r, n) = Newer(s, n)
    <3> HIDE DEF n, r
    <3> QED
      BY <2>4, <2>5, <2>6, <2>7 DEF Newer
  <2> QED
    BY <2>2, <2>8
<1> QED
  BY <1>7, <1>8

OwnType == /\ list \in Seq(Threads) /\ locked \in BOOLEAN
           /\ ListRemovalHandled \in [Threads -> BOOLEAN]
           /\ CriticalSection \in Threads \cup {NULL}
           /\ pc \in [Threads -> Labels]
           /\ frame \in [Threads -> [TimeOut : BOOLEAN, ReleaseAll : BOOLEAN,
                                     Entry : Threads \cup {NULL},
                                     NextEntry : Threads \cup {NULL},
                                     Remove : Threads \cup {NULL}]]

OwnInv == OwnType /\ ListExact /\ ListedInUse /\ FramesInUse

LEMMA OwnAndKeyed == CondInv <=> OwnInv /\ KeyedInv
  BY DEF CondInv, OwnInv, OwnType, KeyedInv, TypeOK

(* Where a thread holds the lock of the list.                              *)
Holding == {"inserted", "removeSelf", "release", "released", "unlink", "unlock"}

(* A step of one thread that does not touch the list keeps the invariant   *)
(* when it does so for that thread.                                        *)
LEMMA ListUntouched ==
    ASSUME OwnInv, NEW t \in Threads, OwnType', UNCHANGED entries,
           OthersKeep(t, pc, pc'), OthersKeep(t, frame, frame'),
           \/ locked' = locked /\ (pc'[t] \in Holding <=> pc[t] \in Holding)
           \/ ~locked /\ locked' /\ pc'[t] \in Holding
           \/ ~locked' /\ pc[t] \in Holding /\ pc'[t] \notin Holding,
           EntryInUse(t)' => (IsListed(t) <=> ~ListRemovalHandled[t]),
           IsListed(t) => EntryInUse(t)',
           pc'[t] = "unlink" /\ frame'[t].Remove # NULL => IsListed(frame'[t].Remove),
           pc'[t] = "idle" => frame'[t] = NoFrame,
           pc'[t] \in {"inserted", "dropLock", "sleep", "slept", "lockSelf", "removeSelf"} =>
               frame'[t].Entry = NULL,
           pc'[t] \in {"release", "released"} =>
               /\ IsListed(frame'[t].Entry)
               /\ frame'[t].NextEntry = Newer(list, frame'[t].Entry)
               /\ frame'[t].Remove = NULL,
           pc'[t] = "unlink" /\ frame'[t].Entry = NULL =>
               frame'[t].Remove = IF ListRemovalHandled[t] THEN NULL ELSE t,
           pc'[t] = "unlock" /\ frame'[t].Entry = NULL => ListRemovalHandled[t]
    PROVE  OwnInv'
<1> USE DEF IsListed
<1>1. list' = list /\ ListRemovalHandled' = ListRemovalHandled
  BY DEF entries
<1>2. \A u \in Threads : u # t => pc'[u] = pc[u] /\ frame'[u] = frame[u]
  BY DEF OthersKeep
<1>3. \A u \in Threads : u # t => (EntryInUse(u)' <=> EntryInUse(u))
  BY <1>2 DEF EntryInUse
<1>4. ListedInUse'
  BY <1>1, <1>3 DEF OwnInv, ListedInUse
<1>5. FramesInUse'
  BY <1>1, <1>2 DEF OwnInv, FramesInUse
<1>6. ListExact'
  <2>1. KE!Distinct(list')
    BY <1>1 DEF OwnInv, ListExact
  <2>2. \A u \in Threads : EntryInUse(u)' => (IsListed(u)' <=> ~ListRemovalHandled'[u])
    BY <1>1, <1>3 DEF OwnInv, ListExact
  <2>3. /\ \A u, v \in Threads : pc[u] \in Holding /\ pc[v] \in Holding => u = v
        /\ locked <=> \E u \in Threads : pc[u] \in Holding
    BY DEF OwnInv, ListExact, Lockers, Holding
  <2>4. /\ \A u, v \in Threads : pc'[u] \in Holding /\ pc'[v] \in Holding => u = v
        /\ locked' <=> \E u \in Threads : pc'[u] \in Holding
    BY <1>2, <2>3 DEF OwnInv, OwnType
  <2>5. (\A u, v \in Lockers : u = v)' /\ (locked <=> Lockers # {})'
    BY <2>4 DEF Lockers, Holding
  <2>6. \A u \in Threads :
           pc'[u] = "unlink" /\ frame'[u].Remove # NULL => KE!InList(frame'[u].Remove, list')
    BY <1>1, <1>2 DEF OwnInv, ListExact
  <2> QED
    BY <2>1, <2>2, <2>5, <2>6 DEF ListExact
<1> QED
  BY <1>4, <1>5, <1>6 DEF OwnInv

(* The steps that do not touch the list.                                   *)
LEMMA QuietStepOwnInv ==
    ASSUME OwnInv, NEW t \in Threads,
           \/ UnlockInserted(t) \/ DropCallersLock(t) \/ NtWaitForKeyedEvent(t) \/ Awake(t)
           \/ LockSelf(t) \/ RemoveSelf(t) \/ ReacquireCallersLock(t) \/ NtReleaseKeyedEvent(t)
           \/ Unlock(t)
    PROVE  OwnInv'
<1>1. ASSUME UnlockInserted(t) PROVE OwnInv'
  <2>1. OwnType' /\ UNCHANGED entries /\ OthersKeep(t, pc, pc') /\ OthersKeep(t, frame, frame')
    BY <1>1 DEF UnlockInserted, Goto, OwnInv, OwnType, OthersKeep, Labels, entries
  <2>2. pc[t] = "inserted" /\ pc'[t] = "dropLock" /\ ~locked' /\ frame' = frame
    BY <1>1 DEF UnlockInserted, Goto, OwnInv, OwnType
  <2>3. \/ locked' = locked /\ (pc'[t] \in Holding <=> pc[t] \in Holding)
        \/ ~locked /\ locked' /\ pc'[t] \in Holding
        \/ ~locked' /\ pc[t] \in Holding /\ pc'[t] \notin Holding
    BY <2>2 DEF Holding
  <2> QED
    BY <2>1, <2>2, <2>3, ListUntouched
       DEF EntryInUse, OwnInv, ListExact, ListedInUse, FramesInUse, IsListed
<1>2. ASSUME DropCallersLock(t) PROVE OwnInv'
  <2>1. OwnType' /\ UNCHANGED entries /\ OthersKeep(t, pc, pc') /\ OthersKeep(t, frame, frame')
    BY <1>2 DEF DropCallersLock, Goto, OwnInv, OwnType, OthersKeep, Labels, entries
  <2>2. pc[t] = "dropLock" /\ pc'[t] = "sleep" /\ locked' = locked /\ frame' = frame
    BY <1>2 DEF DropCallersLock, Goto, OwnInv, OwnType
  <2>3. \/ locked' = locked /\ (pc'[t] \in Holding <=> pc[t] \in Holding)
        \/ ~locked /\ locked' /\ pc'[t] \in Holding
        \/ ~locked' /\ pc[t] \in Holding /\ pc'[t] \notin Holding
    BY <2>2 DEF Holding
  <2> QED
    BY <2>1, <2>2, <2>3, ListUntouched
       DEF EntryInUse, OwnInv, ListExact, ListedInUse, FramesInUse, IsListed
<1>3. ASSUME NtWaitForKeyedEvent(t) PROVE OwnInv'
  <2>1. OwnType' /\ UNCHANGED entries /\ OthersKeep(t, pc, pc') /\ OthersKeep(t, frame, frame')
    BY <1>3 DEF NtWaitForKeyedEvent, Goto, OwnInv, OwnType, OthersKeep, Labels, entries
  <2>2. pc[t] = "sleep" /\ pc'[t] = "slept" /\ locked' = locked /\ frame' = frame
    BY <1>3 DEF NtWaitForKeyedEvent, Goto, OwnInv, OwnType
  <2>3. \/ locked' = locked /\ (pc'[t] \in Holding <=> pc[t] \in Holding)
        \/ ~locked /\ locked' /\ pc'[t] \in Holding
        \/ ~locked' /\ pc[t] \in Holding /\ pc'[t] \notin Holding
    BY <2>2 DEF Holding
  <2> QED
    BY <2>1, <2>2, <2>3, ListUntouched
       DEF EntryInUse, OwnInv, ListExact, ListedInUse, FramesInUse, IsListed
<1>4. ASSUME Awake(t) PROVE OwnInv'
  <2>1. OwnType' /\ UNCHANGED entries /\ OthersKeep(t, pc, pc') /\ OthersKeep(t, frame, frame')
    BY <1>4 DEF Awake, Goto, OwnInv, OwnType, OthersKeep, Labels, entries
  <2>2. /\ pc[t] = "slept" /\ locked' = locked /\ frame' = frame
        /\ pc'[t] = IF ListRemovalHandled[t] THEN "reacquire" ELSE "lockSelf"
    BY <1>4 DEF Awake, Goto, OwnInv, OwnType
  <2>3. \/ locked' = locked /\ (pc'[t] \in Holding <=> pc[t] \in Holding)
        \/ ~locked /\ locked' /\ pc'[t] \in Holding
        \/ ~locked' /\ pc[t] \in Holding /\ pc'[t] \notin Holding
    BY <2>2 DEF Holding
  <2> QED
    BY <2>1, <2>2, <2>3, ListUntouched
       DEF EntryInUse, OwnInv, ListExact, ListedInUse, FramesInUse, IsListed
<1>5. ASSUME LockSelf(t) PROVE OwnInv'
  <2>1. OwnType' /\ UNCHANGED entries /\ OthersKeep(t, pc, pc') /\ OthersKeep(t, frame, frame')
    BY <1>5 DEF LockSelf, Goto, OwnInv, OwnType, OthersKeep, Labels, entries
  <2>2. /\ pc[t] = "lockSelf" /\ frame' = frame
        /\ \/ ~locked /\ locked' /\ pc'[t] = "removeSelf"
           \/ locked' = locked /\ pc'[t] = "reacquire" /\ (~IsListed(t) \/ ListRemovalHandled[t])
    BY <1>5 DEF LockSelf, Goto, OwnInv, OwnType, IsListed, KE!InList
  <2>3. \/ locked' = locked /\ (pc'[t] \in Holding <=> pc[t] \in Holding)
        \/ ~locked /\ locked' /\ pc'[t] \in Holding
        \/ ~locked' /\ pc[t] \in Holding /\ pc'[t] \notin Holding
    BY <2>2 DEF Holding
  <2> QED
    BY <2>1, <2>2, <2>3, ListUntouched
       DEF EntryInUse, OwnInv, ListExact, ListedInUse, FramesInUse, IsListed
<1>6. ASSUME RemoveSelf(t) PROVE OwnInv'
  <2>1. OwnType' /\ UNCHANGED entries /\ OthersKeep(t, pc, pc') /\ OthersKeep(t, frame, frame')
    BY <1>6 DEF RemoveSelf, Goto, OwnInv, OwnType, OthersKeep, Labels, entries
  <2>2. /\ pc[t] = "removeSelf" /\ pc'[t] = "unlink" /\ locked' = locked
        /\ frame'[t].Entry = frame[t].Entry
        /\ frame'[t].Remove = IF ListRemovalHandled[t] THEN NULL ELSE t
    BY <1>6 DEF RemoveSelf, Goto, OwnInv, OwnType
  <2>3. \/ locked' = locked /\ (pc'[t] \in Holding <=> pc[t] \in Holding)
        \/ ~locked /\ locked' /\ pc'[t] \in Holding
        \/ ~locked' /\ pc[t] \in Holding /\ pc'[t] \notin Holding
    BY <2>2 DEF Holding
  <2> QED
    BY <2>1, <2>2, <2>3, ListUntouched
       DEF EntryInUse, OwnInv, ListExact, ListedInUse, FramesInUse, IsListed
<1>7. ASSUME ReacquireCallersLock(t) PROVE OwnInv'
  <2>1. OwnType' /\ UNCHANGED entries /\ OthersKeep(t, pc, pc') /\ OthersKeep(t, frame, frame')
    BY <1>7 DEF ReacquireCallersLock, Goto, OwnInv, OwnType, OthersKeep, Labels, entries, Return, NoFrame
  <2>2. pc[t] = "reacquire" /\ pc'[t] = "idle" /\ locked' = locked /\ frame'[t] = NoFrame
    BY <1>7 DEF ReacquireCallersLock, Goto, OwnInv, OwnType, Return, NoFrame
  <2>3. \/ locked' = locked /\ (pc'[t] \in Holding <=> pc[t] \in Holding)
        \/ ~locked /\ locked' /\ pc'[t] \in Holding
        \/ ~locked' /\ pc[t] \in Holding /\ pc'[t] \notin Holding
    BY <2>2 DEF Holding
  <2> QED
    BY <2>1, <2>2, <2>3, ListUntouched
       DEF EntryInUse, OwnInv, ListExact, ListedInUse, FramesInUse, IsListed
<1>8. ASSUME NtReleaseKeyedEvent(t) PROVE OwnInv'
  <2>1. OwnType' /\ UNCHANGED entries /\ OthersKeep(t, pc, pc') /\ OthersKeep(t, frame, frame')
    BY <1>8 DEF NtReleaseKeyedEvent, Goto, OwnInv, OwnType, OthersKeep, Labels, entries
  <2>2. pc[t] = "release" /\ pc'[t] = "released" /\ locked' = locked /\ frame' = frame
    BY <1>8 DEF NtReleaseKeyedEvent, Goto, OwnInv, OwnType
  <2>3. \/ locked' = locked /\ (pc'[t] \in Holding <=> pc[t] \in Holding)
        \/ ~locked /\ locked' /\ pc'[t] \in Holding
        \/ ~locked' /\ pc[t] \in Holding /\ pc'[t] \notin Holding
    BY <2>2 DEF Holding
  <2> QED
    BY <2>1, <2>2, <2>3, ListUntouched
       DEF EntryInUse, OwnInv, ListExact, ListedInUse, FramesInUse, IsListed
<1>9. ASSUME Unlock(t) PROVE OwnInv'
  <2>1. /\ pc[t] = "unlock" /\ ~locked' /\ UNCHANGED entries
        /\ frame[t].Entry = NULL => pc'[t] = "reacquire" /\ frame' = frame
        /\ frame[t].Entry # NULL => pc'[t] = "idle" /\ frame'[t] = NoFrame
    BY <1>9 DEF Unlock, Return, Goto, OwnInv, OwnType
  <2>2. OwnType' /\ OthersKeep(t, pc, pc') /\ OthersKeep(t, frame, frame')
    <3>1. CASE frame[t].Entry = NULL
      BY <1>9, <3>1 DEF Unlock, Goto, OwnInv, OwnType, OthersKeep, Labels, entries
    <3>2. CASE frame[t].Entry # NULL
      <4>1. /\ pc' = [pc EXCEPT ![t] = "idle"] /\ frame' = [frame EXCEPT ![t] = NoFrame]
            /\ locked' = FALSE /\ UNCHANGED <<entries, CriticalSection>>
        BY <1>9, <3>2 DEF Unlock, Return, Goto
      <4> QED
        BY <4>1 DEF NoFrame, OwnInv, OwnType, OthersKeep, Labels, entries
    <3> QED
      BY <3>1, <3>2
  <2>3. ~locked' /\ pc[t] \in Holding /\ pc'[t] \notin Holding
    BY <2>1 DEF Holding
  <2> QED
    BY <2>1, <2>2, <2>3, ListUntouched
       DEF EntryInUse, OwnInv, ListExact, ListedInUse, FramesInUse, IsListed
<1> QED
  BY <1>1, <1>2, <1>3, <1>4, <1>5, <1>6, <1>7, <1>8, <1>9

(* The thread that has the lock takes an entry off the list.               *)
LEMMA EntryRemoved ==
    ASSUME OwnInv, NEW t \in Threads, NEW e \in Threads, OwnType',
           pc[t] \in Holding, pc'[t] \in {"release", "unlink", "unlock"}, locked' = locked,
           OthersKeep(t, pc, pc'), OthersKeep(t, frame, frame'),
           IsListed(e), list' = KE!Without(list, e),
           ListRemovalHandled' = [ListRemovalHandled EXCEPT ![e] = TRUE],
           EntryInUse(t)' <=> EntryInUse(t),
           pc'[t] = "release" => /\ frame'[t].Entry # e /\ IsListed(frame'[t].Entry)
                                 /\ frame'[t].NextEntry = Newer(list', frame'[t].Entry)
                                 /\ frame'[t].Remove = NULL,
           pc'[t] = "unlink" => frame'[t].Entry # NULL /\ frame'[t].Remove = NULL,
           pc'[t] = "unlock" /\ frame'[t].Entry = NULL => ListRemovalHandled'[t]
    PROVE  OwnInv'
<1> USE DEF IsListed
<1>1. /\ KE!Distinct(list')
      /\ \A x : KE!InList(x, list') <=> KE!InList(x, list) /\ x # e
  BY WithoutElements DEF OwnInv, OwnType, ListExact
<1>2. /\ ListRemovalHandled'[e] = TRUE
      /\ \A u \in Threads : u # e => ListRemovalHandled'[u] = ListRemovalHandled[u]
  BY DEF OwnInv, OwnType
<1>3. \A u \in Threads : u # t => pc'[u] = pc[u] /\ frame'[u] = frame[u]
  BY DEF OthersKeep
<1>4. \A u \in Threads : EntryInUse(u)' <=> EntryInUse(u)
  BY <1>3 DEF EntryInUse
<1>5. \A u \in Threads : u # t => pc[u] \notin Holding /\ pc'[u] \notin Holding
  BY <1>3 DEF OwnInv, ListExact, Lockers, Holding
<1>6. ListedInUse'
  BY <1>1, <1>4 DEF OwnInv, ListedInUse
<1>7. FramesInUse'
  <2> SUFFICES ASSUME NEW u \in Threads
               PROVE /\ pc'[u] = "idle" => frame'[u] = NoFrame
                     /\ pc'[u] \in {"inserted", "dropLock", "sleep", "slept", "lockSelf", "removeSelf"} =>
                            frame'[u].Entry = NULL
                     /\ pc'[u] \in {"release", "released"} =>
                            /\ KE!InList(frame'[u].Entry, list')
                            /\ frame'[u].NextEntry = Newer(list', frame'[u].Entry)
                            /\ frame'[u].Remove = NULL
                     /\ pc'[u] = "unlink" /\ frame'[u].Entry = NULL =>
                            frame'[u].Remove = IF ListRemovalHandled'[u] THEN NULL ELSE u
                     /\ pc'[u] = "unlock" /\ frame'[u].Entry = NULL => ListRemovalHandled'[u]
    BY DEF FramesInUse
  <2>1. CASE u = t
    BY <1>1, <2>1
  <2>2. CASE u # t
    BY <1>3, <1>5, <2>2 DEF OwnInv, FramesInUse, Holding
  <2> QED
    BY <2>1, <2>2
<1>8. ListExact'
  <2>1. \A u \in Threads : EntryInUse(u)' => (KE!InList(u, list') <=> ~ListRemovalHandled'[u])
    BY <1>1, <1>2, <1>4 DEF OwnInv, ListExact
  <2>2. (\A u, v \in Lockers : u = v)' /\ (locked <=> Lockers # {})'
    BY <1>5 DEF Lockers, Holding, OwnInv, ListExact
  <2>3. \A u \in Threads :
           pc'[u] = "unlink" /\ frame'[u].Remove # NULL => KE!InList(frame'[u].Remove, list')
    BY <1>5 DEF Holding
  <2> QED
    BY <1>1, <2>1, <2>2, <2>3 DEF ListExact
<1> QED
  BY <1>6, <1>7, <1>8 DEF OwnInv

LEMMA UnlinkOwnInv ==
    ASSUME OwnInv, NEW t \in Threads, Unlink(t)
    PROVE  OwnInv'
<1> DEFINE e == frame[t].Remove
<1>1. /\ pc[t] = "unlink" /\ pc' = [pc EXCEPT ![t] = "unlock"]
      /\ UNCHANGED <<locked, CriticalSection, frame>> /\ e \in Threads \cup {NULL}
  BY DEF Unlink, Goto, OwnInv, OwnType
<1>2. pc'[t] = "unlock" /\ OthersKeep(t, pc, pc') /\ OthersKeep(t, frame, frame')
  BY <1>1 DEF OwnInv, OwnType, OthersKeep
<1>3. CASE e = NULL
  <2>1. UNCHANGED entries
    BY <1>3 DEF Unlink
  <2>2. OwnType'
    BY <1>1, <2>1 DEF OwnInv, OwnType, Labels, entries
  <2>3. locked' = locked /\ (pc'[t] \in Holding <=> pc[t] \in Holding)
    BY <1>1, <1>2 DEF Holding
  <2>4. frame[t].Entry = NULL => ListRemovalHandled[t]
    BY <1>1, <1>3, NULLAssumption DEF OwnInv, FramesInUse
  <2> QED
    BY <1>1, <1>2, <1>3, <2>1, <2>2, <2>3, <2>4, ListUntouched
       DEF EntryInUse, OwnInv, ListExact, ListedInUse, FramesInUse, IsListed
<1>4. CASE e # NULL
  <2>1. e \in Threads /\ list' = KE!Without(list, e)
        /\ ListRemovalHandled' = [ListRemovalHandled EXCEPT ![e] = TRUE]
    BY <1>1, <1>4 DEF Unlink
  <2>2. IsListed(e)
    BY <1>1, <1>4 DEF OwnInv, ListExact
  <2>3. OwnType'
    <3>1. list' \in Seq(Threads)
      BY <2>1, WithoutElements DEF OwnInv, OwnType, ListExact
    <3> QED
      BY <1>1, <2>1, <3>1 DEF OwnInv, OwnType, Labels
  <2>4. pc[t] \in Holding
    BY <1>1 DEF Holding
  <2>5. frame'[t].Entry = NULL => ListRemovalHandled'[t]
    BY <1>1, <1>4, <2>1 DEF OwnInv, OwnType, FramesInUse
  <2>6. EntryInUse(t)' <=> EntryInUse(t)
    BY <1>1, <1>2 DEF EntryInUse
  <2> QED
    BY <1>1, <1>2, <2>1, <2>2, <2>3, <2>4, <2>5, <2>6, EntryRemoved
<1> QED
  BY <1>3, <1>4

(* A waker handles the entry it is at and goes on to the next, which it    *)
(* remembered before it took the entry off.                                *)
LEMMA HandleReleasedOwnInv ==
    ASSUME OwnInv, NEW t \in Threads, HandleReleased(t)
    PROVE  OwnInv'
<1> DEFINE e == frame[t].Entry
           n == frame[t].NextEntry
           isHead == e = list[1]
           f == [frame[t] EXCEPT !.Remove = IF isHead THEN e ELSE NULL]
           g == IF f.ReleaseAll THEN f ELSE [f EXCEPT !.NextEntry = NULL]
           success == NT_SUCCESS(Status[t])
           h == IF success THEN g ELSE frame[t]
<1>1. /\ pc[t] = "released" /\ UNCHANGED <<locked, CriticalSection>>
      /\ Advance(t, h)
      /\ success => /\ list' = IF isHead THEN list ELSE KE!Without(list, e)
                    /\ ListRemovalHandled' = IF isHead THEN ListRemovalHandled
                                              ELSE [ListRemovalHandled EXCEPT ![e] = TRUE]
      /\ ~success => UNCHANGED entries
  BY DEF HandleReleased
<1>2. /\ IsListed(e) /\ n = Newer(list, e) /\ frame[t].Remove = NULL
      /\ list \in Seq(Threads) /\ KE!Distinct(list)
  BY <1>1 DEF OwnInv, OwnType, FramesInUse, ListExact
<1>3. e \in Threads /\ e # NULL
  BY <1>2, NULLAssumption DEF IsListed, KE!InList
<1>4. /\ isHead => n = NULL
      /\ n # NULL => n \in Threads /\ n # e /\ IsListed(n)
      /\ n # NULL => Newer(KE!Without(list, e), n) = Newer(list, n)
  <2>1. isHead => n = NULL
    BY <1>2 DEF Newer
  <2> QED
    BY <1>2, <2>1, NewerListed DEF IsListed
<1>5. /\ h \in [TimeOut : BOOLEAN, ReleaseAll : BOOLEAN, Entry : Threads \cup {NULL},
                 NextEntry : Threads \cup {NULL}, Remove : Threads \cup {NULL}]
      /\ h.Entry = e /\ h.NextEntry \in {n, NULL}
      /\ h.Remove = IF success /\ isHead THEN e ELSE NULL
  BY <1>2, <1>3 DEF OwnInv, OwnType
<1>6. Newer(list, n) \in Threads \cup {NULL} \/ n = NULL
  BY <1>2, <1>4, NewerListed DEF IsListed
<1>7. t \in Threads /\ ~EntryInUse(t) /\ pc[t] \in Holding
  BY <1>1 DEF EntryInUse, Holding
<1> HIDE DEF h
<1>8. CASE h.NextEntry = NULL
  <2>1. pc' = [pc EXCEPT ![t] = "unlink"] /\ frame' = [frame EXCEPT ![t] = h]
    BY <1>1, <1>8 DEF Advance, Goto
  <2>2. /\ pc' \in [Threads -> Labels] /\ pc'[t] = "unlink" /\ frame'[t] = h
        /\ frame' \in [Threads -> [TimeOut : BOOLEAN, ReleaseAll : BOOLEAN,
                                    Entry : Threads \cup {NULL},
                                    NextEntry : Threads \cup {NULL},
                                    Remove : Threads \cup {NULL}]]
        /\ OthersKeep(t, pc, pc') /\ OthersKeep(t, frame, frame')
    BY <1>5, <2>1 DEF OwnInv, OwnType, OthersKeep, Labels
  <2>3. ~EntryInUse(t)' /\ pc'[t] \in Holding
    BY <1>3, <1>5, <2>2 DEF EntryInUse, Holding
  <2>4. CASE success /\ ~isHead
    <3>1. list' = KE!Without(list, e)
          /\ ListRemovalHandled' = [ListRemovalHandled EXCEPT ![e] = TRUE]
      BY <1>1, <2>4
    <3>2. OwnType'
      BY <1>1, <1>2, <1>3, <2>2, <3>1, WithoutElements DEF OwnInv, OwnType
    <3> QED
      BY <1>1, <1>2, <1>3, <1>5, <1>7, <2>2, <2>3, <2>4, <3>1, <3>2, EntryRemoved
  <2>5. CASE ~success \/ isHead
    <3>1. UNCHANGED entries
      BY <1>1, <2>5 DEF entries
    <3>2. OwnType'
      BY <1>1, <2>2, <3>1 DEF OwnInv, OwnType, entries
    <3>3. h.Remove # NULL => IsListed(h.Remove)
      BY <1>2, <1>5
    <3>4. ~IsListed(t)
      BY <1>7 DEF OwnInv, ListedInUse
    <3> QED
      BY <1>1, <1>3, <1>5, <1>7, <2>2, <2>3, <3>1, <3>2, <3>3, <3>4, ListUntouched
  <2> QED
    BY <2>4, <2>5
<1>9. CASE h.NextEntry # NULL
  <2> DEFINE k == [h EXCEPT !.Entry = n, !.NextEntry = Newer(list, n)]
  <2>1. n # NULL /\ ~isHead /\ h.NextEntry = n /\ h.Remove = NULL
    BY <1>4, <1>5, <1>9
  <2>2. pc' = [pc EXCEPT ![t] = "release"] /\ frame' = [frame EXCEPT ![t] = k]
    BY <1>1, <1>9, <2>1 DEF Advance, AtEntry, Goto
  <2>3. /\ k \in [TimeOut : BOOLEAN, ReleaseAll : BOOLEAN, Entry : Threads \cup {NULL},
                   NextEntry : Threads \cup {NULL}, Remove : Threads \cup {NULL}]
        /\ k.Entry = n /\ k.NextEntry = Newer(list, n) /\ k.Remove = NULL
    BY <1>4, <1>5, <1>6, <2>1
  <2> HIDE DEF k
  <2>4. /\ pc' \in [Threads -> Labels] /\ pc'[t] = "release" /\ frame'[t] = k
        /\ frame' \in [Threads -> [TimeOut : BOOLEAN, ReleaseAll : BOOLEAN,
                                    Entry : Threads \cup {NULL},
                                    NextEntry : Threads \cup {NULL},
                                    Remove : Threads \cup {NULL}]]
        /\ OthersKeep(t, pc, pc') /\ OthersKeep(t, frame, frame')
    BY <2>2, <2>3 DEF OwnInv, OwnType, OthersKeep, Labels
  <2>5. ~EntryInUse(t)' /\ pc'[t] \in Holding
    BY <2>4 DEF EntryInUse, Holding
  <2>6. CASE success
    <3>1. list' = KE!Without(list, e)
          /\ ListRemovalHandled' = [ListRemovalHandled EXCEPT ![e] = TRUE]
      BY <1>1, <2>1, <2>6
    <3>2. OwnType'
      BY <1>1, <1>2, <1>3, <2>4, <3>1, WithoutElements DEF OwnInv, OwnType
    <3>3. frame'[t].NextEntry = Newer(list', frame'[t].Entry)
      BY <1>4, <2>1, <2>3, <2>4, <3>1
    <3> QED
      BY <1>1, <1>2, <1>3, <1>4, <1>7, <2>1, <2>3, <2>4, <2>5, <3>1, <3>2, <3>3, EntryRemoved
  <2>7. CASE ~success
    <3>1. UNCHANGED entries
      BY <1>1, <2>7
    <3>2. OwnType'
      BY <1>1, <2>4, <3>1 DEF OwnInv, OwnType, entries
    <3>3. ~IsListed(t)
      BY <1>7 DEF OwnInv, ListedInUse
    <3> QED
      BY <1>1, <1>4, <1>7, <2>1, <2>3, <2>4, <2>5, <3>1, <3>2, <3>3, ListUntouched
  <2> QED
    BY <2>6, <2>7
<1> QED
  BY <1>8, <1>9

(* A waker begins at the oldest entry.                                     *)
LEMMA InternalWakeOwnInv ==
    ASSUME OwnInv, NEW t \in Threads, NEW ReleaseAll \in BOOLEAN, InternalWake(t, ReleaseAll)
    PROVE  OwnInv'
<1> DEFINE e == list[Len(list)]
           f == AtEntry(t, [NoFrame EXCEPT !.ReleaseAll = ReleaseAll], e)
<1>1. /\ pc[t] = "idle" /\ ~locked /\ list # <<>> /\ locked' = TRUE
      /\ frame' = [frame EXCEPT ![t] = f] /\ pc' = [pc EXCEPT ![t] = "release"]
      /\ UNCHANGED <<entries, CriticalSection>>
  BY DEF InternalWake, Goto
<1>2. list \in Seq(Threads) /\ KE!Distinct(list)
  BY DEF OwnInv, OwnType, ListExact
<1>3. Len(list) \in DOMAIN list
  BY <1>1, <1>2
<1>4. e \in Threads /\ IsListed(e)
  BY <1>2, <1>3 DEF IsListed, KE!InList
<1>5. Newer(list, e) \in Threads \cup {NULL}
  BY <1>2, <1>4, NewerListed DEF IsListed
<1> HIDE DEF e
<1>6. /\ f \in [TimeOut : BOOLEAN, ReleaseAll : BOOLEAN, Entry : Threads \cup {NULL},
                 NextEntry : Threads \cup {NULL}, Remove : Threads \cup {NULL}]
      /\ f.Entry = e /\ f.NextEntry = Newer(list, e) /\ f.Remove = NULL
  BY <1>4, <1>5 DEF AtEntry, NoFrame
<1> HIDE DEF f
<1>7. /\ OwnType' /\ pc'[t] = "release" /\ frame'[t] = f
      /\ OthersKeep(t, pc, pc') /\ OthersKeep(t, frame, frame')
  BY <1>1, <1>6 DEF OwnInv, OwnType, OthersKeep, Labels, entries
<1>8. ~EntryInUse(t)' /\ pc'[t] \in Holding /\ ~IsListed(t)
  BY <1>1, <1>7 DEF EntryInUse, Holding, OwnInv, ListedInUse
<1> QED
  BY <1>1, <1>4, <1>6, <1>7, <1>8, ListUntouched

(* A sleeper inserts its entry.                                            *)
LEMMA InternalSleepOwnInv ==
    ASSUME OwnInv, NEW t \in Threads, NEW TimeOut \in BOOLEAN, InternalSleep(t, TimeOut)
    PROVE  OwnInv'
<1> USE DEF IsListed
<1>1. /\ pc[t] = "idle" /\ ~locked /\ locked' = TRUE /\ list' = <<t>> \o list
      /\ ListRemovalHandled' = [ListRemovalHandled EXCEPT ![t] = FALSE]
      /\ frame' = [frame EXCEPT ![t].TimeOut = TimeOut]
      /\ pc' = [pc EXCEPT ![t] = "inserted"] /\ UNCHANGED CriticalSection
  BY DEF InternalSleep, Goto
<1>2. ~IsListed(t) /\ list \in Seq(Threads) /\ KE!Distinct(list)
  BY <1>1 DEF OwnInv, OwnType, ListExact, ListedInUse, EntryInUse
<1>3. /\ list' \in Seq(Threads) /\ KE!Distinct(list')
      /\ \A x : KE!InList(x, list') <=> KE!InList(x, list) \/ x = t
  BY <1>1, <1>2, PrependElements
<1>4. OwnType'
  BY <1>1, <1>3, ZenonT(40) DEF OwnInv, OwnType, Labels
<1>5. /\ pc'[t] = "inserted" /\ frame'[t].Entry = NULL /\ ~ListRemovalHandled'[t]
      /\ \A u \in Threads : u # t => /\ pc'[u] = pc[u] /\ frame'[u] = frame[u]
                                     /\ ListRemovalHandled'[u] = ListRemovalHandled[u]
  BY <1>1 DEF OwnInv, OwnType, FramesInUse, NoFrame
<1>6. EntryInUse(t)' /\ \A u \in Threads : u # t => (EntryInUse(u)' <=> EntryInUse(u))
  BY <1>5 DEF EntryInUse
<1>7. \A u \in Threads : pc[u] \notin Holding
  BY <1>1 DEF OwnInv, ListExact, Lockers, Holding
<1>8. \A u \in Threads : u # t => pc'[u] \notin Holding
  BY <1>5, <1>7
<1>9. ListedInUse'
  BY <1>3, <1>6 DEF OwnInv, ListedInUse
<1>10. FramesInUse'
  BY <1>3, <1>5, <1>8 DEF OwnInv, FramesInUse, Holding
<1>11. ListExact'
  <2>1. \A u \in Threads : EntryInUse(u)' => (KE!InList(u, list') <=> ~ListRemovalHandled'[u])
    BY <1>3, <1>5, <1>6 DEF OwnInv, ListExact
  <2>2. (\A u, v \in Lockers : u = v)' /\ (locked <=> Lockers # {})'
    BY <1>1, <1>5, <1>8 DEF Lockers, Holding
  <2>3. \A u \in Threads :
           pc'[u] = "unlink" /\ frame'[u].Remove # NULL => KE!InList(frame'[u].Remove, list')
    BY <1>5, <1>8 DEF Holding
  <2> QED
    BY <1>3, <2>1, <2>2, <2>3 DEF ListExact
<1> QED
  BY <1>4, <1>9, <1>10, <1>11 DEF OwnInv
-----------------------------------------------------------------------------
LEMMA InitInv == Init => CondInv
<1> SUFFICES ASSUME Init PROVE CondInv
  OBVIOUS
<1>1. OwnType
  <2>1. NoFrame \in [TimeOut : BOOLEAN, ReleaseAll : BOOLEAN, Entry : Threads \cup {NULL},
                     NextEntry : Threads \cup {NULL}, Remove : Threads \cup {NULL}]
    BY DEF NoFrame
  <2>2. frame \in [Threads -> [TimeOut : BOOLEAN, ReleaseAll : BOOLEAN,
                               Entry : Threads \cup {NULL}, NextEntry : Threads \cup {NULL},
                               Remove : Threads \cup {NULL}]]
    BY <2>1, Zenon DEF Init
  <2>3. locked \in BOOLEAN /\ ListRemovalHandled \in [Threads -> BOOLEAN]
    BY DEF Init
  <2>4. list \in Seq(Threads) /\ CriticalSection \in Threads \cup {NULL} /\ pc \in [Threads -> Labels]
    BY DEF Init, Labels
  <2> QED
    BY <2>2, <2>3, <2>4 DEF OwnType
<1>2. KE!TypeOK
  BY DEF Init, KE!Init, KE!TypeOK
<1>3. list = <<>> /\ WaitList = <<>> /\ ReleaseList = <<>>
  BY DEF Init, KE!Init
<1>4. \A x : ~KE!InList(x, <<>>)
  BY DEF KE!InList
<1>5. KE!Distinct(<<>>)
  BY DEF KE!Distinct
<1>6. Rendezvous
  BY <1>3, <1>4, <1>5 DEF Init, KE!Init, Rendezvous, KE!Rendezvous
<1>7. \A t \in Threads : pc[t] = "idle" /\ frame[t] = NoFrame
  BY DEF Init
<1>8. \A t \in Threads : ~EntryInUse(t) /\ t \notin Lockers
  BY <1>7 DEF EntryInUse, Lockers
<1>9. ListExact
  BY <1>3, <1>5, <1>7, <1>8 DEF ListExact, Init, Lockers
<1>10. ListedInUse /\ FramesInUse
  BY <1>3, <1>4, <1>7 DEF ListedInUse, FramesInUse, IsListed
<1> QED
  BY <1>1, <1>2, <1>6, <1>9, <1>10 DEF CondInv, TypeOK, OwnType

LEMMA KeyedUnchanged == KeyedInv /\ UNCHANGED keyed => KeyedInv'
  BY DEF keyed, KeyedInv, KE!TypeOK, Rendezvous, KE!Rendezvous, KE!InList, KE!Distinct

LEMMA OwnUnchanged ==
    ASSUME OwnInv, UNCHANGED <<entries, locked, pc, frame>>, CriticalSection' \in Threads \cup {NULL}
    PROVE  OwnInv'
  BY DEF entries, OwnInv, OwnType, ListExact, ListedInUse, FramesInUse, EntryInUse, IsListed, Lockers

(* Every step keeps the invariant: that of the condition variable by the   *)
(* lemmas above, and that of the keyed event since its steps are steps of  *)
(* calls with a thread's entry as the key.                                 *)
LEMMA NextInv == CondInv /\ [Next]_vars => CondInv'
<1> SUFFICES ASSUME CondInv, [Next]_vars PROVE CondInv'
  OBVIOUS
<1>1. OwnInv /\ KeyedInv
  BY OwnAndKeyed
<1>2. (OwnInv /\ KeyedInv)' => CondInv'
  BY DEF CondInv, OwnInv, OwnType, KeyedInv, TypeOK
<1>3. CASE UNCHANGED vars
  BY <1>1, <1>2, <1>3, OwnUnchanged, KeyedUnchanged DEF vars, own, entries, OwnInv, OwnType
<1>4. ASSUME NEW t \in Threads, Begin(t) PROVE CondInv'
  <2>1. UNCHANGED keyed
    BY <1>4 DEF Begin, RtlEnterCriticalSection, InternalSleep, InternalWake
  <2>2. ASSUME RtlEnterCriticalSection(t) PROVE OwnInv'
    BY <1>1, <2>2, OwnUnchanged DEF RtlEnterCriticalSection
  <2> QED
    BY <1>1, <1>2, <1>4, <2>1, <2>2, InternalSleepOwnInv, InternalWakeOwnInv, KeyedUnchanged DEF Begin
<1>5. ASSUME NEW t \in Threads, Continue(t) PROVE CondInv'
  <2>1. ASSUME RtlLeaveCriticalSection(t) PROVE OwnInv' /\ KeyedInv'
    BY <1>1, <2>1, OwnUnchanged, KeyedUnchanged DEF RtlLeaveCriticalSection
  <2>2. ASSUME NtWaitForKeyedEvent(t) PROVE OwnInv' /\ KeyedInv'
    <3>1. frame[t].TimeOut \in BOOLEAN
      BY <1>1 DEF OwnInv, OwnType
    <3> QED
      BY <1>1, <2>2, <3>1, QuietStepOwnInv, KeyedCallInv DEF NtWaitForKeyedEvent
  <2>3. ASSUME NtReleaseKeyedEvent(t) PROVE OwnInv' /\ KeyedInv'
    <3>1. frame[t].Entry \in Threads
      BY <1>1, <2>3 DEF NtReleaseKeyedEvent, OwnInv, OwnType, FramesInUse, IsListed, KE!InList
    <3> QED
      BY <1>1, <2>3, <3>1, QuietStepOwnInv, KeyedCallInv DEF NtReleaseKeyedEvent
  <2>4. ASSUME Awake(t) PROVE OwnInv' /\ KeyedInv'
    BY <1>1, <2>4, QuietStepOwnInv, KeyedKernelInv DEF Awake
  <2>5. ASSUME HandleReleased(t) PROVE OwnInv' /\ KeyedInv'
    BY <1>1, <2>5, HandleReleasedOwnInv, KeyedKernelInv DEF HandleReleased
  <2>6. ASSUME KeyedEventStep(t) PROVE OwnInv' /\ KeyedInv'
    BY <1>1, <2>6, OwnUnchanged, KeyedKernelInv DEF KeyedEventStep, own, entries, OwnInv, OwnType
  <2>7. ASSUME \/ UnlockInserted(t) \/ DropCallersLock(t) \/ LockSelf(t) \/ RemoveSelf(t)
               \/ ReacquireCallersLock(t) \/ Unlock(t)
        PROVE  OwnInv' /\ KeyedInv'
    <3>1. UNCHANGED keyed
      BY <2>7 DEF UnlockInserted, DropCallersLock, LockSelf, RemoveSelf, ReacquireCallersLock, Unlock
    <3> QED
      BY <1>1, <2>7, <3>1, QuietStepOwnInv, KeyedUnchanged
  <2>8. ASSUME Unlink(t) PROVE OwnInv' /\ KeyedInv'
    BY <1>1, <2>8, UnlinkOwnInv, KeyedUnchanged DEF Unlink
  <2> QED
    BY <1>2, <1>5, <2>1, <2>2, <2>3, <2>4, <2>5, <2>6, <2>7, <2>8 DEF Continue
<1> QED
  BY <1>3, <1>4, <1>5 DEF Next

(* CondInv is an invariant of the condition variable and its keyed event,  *)
(* for any number of threads (sdk/lib/rtl/condvar.c over                   *)
(* ntoskrnl/ex/keyedevt.c).                                                *)
THEOREM CondInvariance == Spec => []CondInv
<1>1. Init => CondInv
  BY InitInv
<1>2. CondInv /\ [Next]_vars => CondInv'
  BY NextInv
<1> QED
  BY <1>1, <1>2, PTL DEF Spec

(* The variables keep their types: the semaphore a thread sleeps on never  *)
(* counts more than one wakeup (keyedevt.c).                               *)
THEOREM TypeCorrect == Spec => []TypeOK
<1>1. CondInv => TypeOK
  BY DEF CondInv
<1> QED
  BY <1>1, CondInvariance, PTL

(* Of any number of threads that sleep on a condition variable and wake    *)
(* each other, with timeouts or without, none returns and leaves its stack *)
(* while its entry is on the list or a waker is about to touch it          *)
(* (InternalSleep, InternalWake).                                          *)
THEOREM EntriesSafe == Spec => []TouchesLiveEntries
<1>1. ASSUME CondInv PROVE TouchesLiveEntries
  <2>1. list \in Seq(Threads) /\ KE!Distinct(list) /\ \A x : IsListed(x) => x \in Threads
    BY <1>1 DEF CondInv, TypeOK, ListExact, IsListed, KE!InList
  <2>2. \A x : IsListed(x) => EntryInUse(x)
    BY <1>1, <2>1 DEF CondInv, ListedInUse
  <2>3. \A i \in DOMAIN list : EntryInUse(list[i])
    BY <2>2 DEF IsListed, KE!InList
  <2>4. ASSUME NEW t \in Threads, pc[t] \in {"release", "released"}
        PROVE  /\ EntryInUse(frame[t].Entry)
               /\ frame[t].NextEntry # NULL => EntryInUse(frame[t].NextEntry)
    <3>1. IsListed(frame[t].Entry) /\ frame[t].NextEntry = Newer(list, frame[t].Entry)
      BY <1>1, <2>4 DEF CondInv, FramesInUse
    <3>2. frame[t].NextEntry # NULL => IsListed(frame[t].NextEntry)
      BY <2>1, <3>1, NewerListed DEF IsListed
    <3> QED
      BY <2>2, <3>1, <3>2
  <2>5. ASSUME NEW t \in Threads, pc[t] = "unlink", frame[t].Remove # NULL
        PROVE  EntryInUse(frame[t].Remove)
    BY <1>1, <2>2, <2>5 DEF CondInv, ListExact
  <2> QED
    BY <2>3, <2>4, <2>5 DEF TouchesLiveEntries
<1> QED
  BY <1>1, CondInvariance, PTL

(* The list is exactly the entries in use whose owners have not been told  *)
(* of their removal, each once; an entry is removed once, by the one       *)
(* thread that has the list locked, whether that is a waker or the owner   *)
(* that timed out (InternalUnlockCondVar).                                 *)
THEOREM EntriesListed == Spec => []ListExact
<1>1. CondInv => ListExact
  BY DEF CondInv
<1> QED
  BY <1>1, CondInvariance, PTL

(* A wait and a release of one key of a keyed event are never both left in *)
(* its lists, and a thread taken off a list has its wakeup counted once,   *)
(* also when it times out at that moment (ExpReleaseOrWaitForKeyedEvent).  *)
THEOREM WaitAndReleaseMeet == Spec => []Rendezvous
<1>1. CondInv => Rendezvous
  BY DEF CondInv
<1> QED
  BY <1>1, CondInvariance, PTL
=============================================================================
