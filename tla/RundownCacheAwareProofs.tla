---------------------- MODULE RundownCacheAwareProofs ----------------------
(***************************************************************************)
(* Proofs about RundownCacheAware, for any set of threads, any finite set  *)
(* of references and any number of words.                                  *)
(***************************************************************************)
EXTENDS RundownCacheAware, FiniteSetTheorems, WellFoundedInduction, TLAPS

-----------------------------------------------------------------------------
(* The sum of the words. What a recursive function computes is shown with  *)
(* the least number that is a counterexample.                              *)

LEMMA LeastNumber ==
    ASSUME NEW T \in SUBSET Nat, T # {}
    PROVE  \E x \in T : \A y \in T : ~(y < x)
<1>1. IsWellFoundedOn(OpToRel(<, Nat), Nat)
  BY NatLessThanWellFounded
<1>2. PICK x \in T : \A y \in T : <<y, x>> \notin OpToRel(<, Nat)
  BY <1>1, WFMin
<1> QED
  BY <1>2 DEF OpToRel

Counts == [Words -> Int]

(* s adds up the counts c from the last word down.                         *)
AddsUp(s, c) == s = [i \in 0 .. Number |-> IF i = Number THEN 0 ELSE c[i] + s[i + 1]]

LEMMA SumExists ==
    ASSUME NEW c \in Counts
    PROVE  \E s \in [0 .. Number -> Int] : AddsUp(s, c)
<1> DEFINE Upto(k, s) == /\ s \in [0 .. Number -> Int] /\ s[Number] = 0
                         /\ \A i \in Words : i >= Number - k => s[i] = c[i] + s[i + 1]
           Missing == {k \in 0 .. Number : ~ \E s : Upto(k, s)}
<1>1. Missing = {}
  <2> SUFFICES ASSUME Missing # {} PROVE FALSE
    OBVIOUS
  <2>1. PICK k \in Missing : \A j \in Missing : ~(j < k)
    <3>1. Missing \in SUBSET Nat
      OBVIOUS
    <3> HIDE DEF Missing
    <3> QED
      BY <3>1, LeastNumber
  <2>2. k # 0
    <3> DEFINE z == [i \in 0 .. Number |-> 0]
    <3>1. Upto(0, z)
      BY SizesAssumption DEF Words
    <3> QED
      BY <3>1
  <2>3. k - 1 \in 0 .. Number /\ k - 1 \notin Missing /\ k \in 1 .. Number
    <3>1. k \in 0 .. Number
      OBVIOUS
    <3> HIDE DEF Missing
    <3> QED
      BY <2>1, <2>2, <3>1, SizesAssumption
  <2>4. PICK s : Upto(k - 1, s)
    BY <2>3
  <2> DEFINE m == Number - k
             r == [s EXCEPT ![m] = c[m] + s[m + 1]]
  <2>5. m \in Words /\ m + 1 \in 0 .. Number /\ m + 1 # m /\ m # Number
    BY <2>3, SizesAssumption DEF Words
  <2>6. c[m] + s[m + 1] \in Int
    BY <2>4, <2>5 DEF Counts
  <2>7. r \in [0 .. Number -> Int] /\ r[Number] = 0
    BY <2>4, <2>5, <2>6, SizesAssumption
  <2>8. ASSUME NEW i \in Words, i >= Number - k
        PROVE  r[i] = c[i] + r[i + 1]
    <3>1. i \in 0 .. Number /\ i + 1 \in 0 .. Number /\ i + 1 # m
      BY <2>3, <2>8, SizesAssumption DEF Words
    <3>2. CASE i = m
      BY <2>4, <2>5, <3>1, <3>2
    <3>3. CASE i # m
      <4>1. i >= Number - (k - 1)
        BY <2>3, <2>8, <3>1, <3>3, SizesAssumption
      <4> QED
        BY <2>4, <3>1, <3>3, <4>1
    <3> QED
      BY <3>2, <3>3
  <2>9. Upto(k, r)
    BY <2>7, <2>8
  <2> QED
    BY <2>1, <2>9
<1>2. Number \in 0 .. Number
  BY SizesAssumption
<1>3. PICK s : Upto(Number, s)
  BY <1>1, <1>2
<1>4. AddsUp(s, c)
  <2>1. \A i \in 0 .. Number : i # Number => i \in Words /\ i >= Number - Number
    BY SizesAssumption DEF Words
  <2>2. \A i \in 0 .. Number : s[i] = IF i = Number THEN 0 ELSE c[i] + s[i + 1]
    BY <1>3, <2>1
  <2> QED
    BY <1>3, <2>2 DEF AddsUp
<1> QED
  BY <1>3, <1>4

LEMMA SumUnique ==
    ASSUME NEW c \in Counts, NEW s, NEW r, AddsUp(s, c), AddsUp(r, c)
    PROVE  s = r
<1> DEFINE Differs == {k \in 0 .. Number : s[Number - k] # r[Number - k]}
<1>1. Differs = {}
  <2> SUFFICES ASSUME Differs # {} PROVE FALSE
    OBVIOUS
  <2>1. PICK k \in Differs : \A j \in Differs : ~(j < k)
    <3>1. Differs \in SUBSET Nat
      OBVIOUS
    <3> HIDE DEF Differs
    <3> QED
      BY <3>1, LeastNumber
  <2> DEFINE m == Number - k
  <2>2. k \in 0 .. Number /\ m \in 0 .. Number /\ s[m] # r[m]
    BY SizesAssumption
  <2>3. m # Number
    BY <2>2 DEF AddsUp
  <2>4. k - 1 \in 0 .. Number /\ Number - (k - 1) = m + 1
    BY <2>2, <2>3, SizesAssumption
  <2>5. s[m + 1] = r[m + 1]
    BY <2>1, <2>4, SizesAssumption
  <2> QED
    BY <2>2, <2>3, <2>5 DEF AddsUp
<1>2. \A i \in 0 .. Number : s[i] = r[i]
  <2> SUFFICES ASSUME NEW i \in 0 .. Number PROVE s[i] = r[i]
    OBVIOUS
  <2>1. Number - i \in 0 .. Number /\ Number - (Number - i) = i
    BY SizesAssumption
  <2> QED
    BY <1>1, <2>1
<1> QED
  BY <1>2 DEF AddsUp

(* The counts of some words, and their sum.                                *)
WordSet == [active : BOOLEAN, ptr : {"none", "NULL", "WaitBlock"}, n : Int]
CountsOf(words) == [w \in Words |-> words[w].n]

LEMMA SumIs ==
    ASSUME NEW words \in [Words -> WordSet]
    PROVE  \E s \in [0 .. Number -> Int] :
              /\ AddsUp(s, CountsOf(words))
              /\ \A w \in 0 .. Number : SumFrom(words, w) = s[w]
<1> DEFINE Sums(s) == s = [i \in 0 .. Number |-> IF i = Number THEN 0 ELSE words[i].n + s[i + 1]]
           f == CHOOSE s : Sums(s)
<1>1. CountsOf(words) \in Counts
  BY DEF CountsOf, Counts, WordSet
<1>2. \A s : Sums(s) <=> AddsUp(s, CountsOf(words))
  <2>1. \A i \in 0 .. Number : i # Number => CountsOf(words)[i] = words[i].n
    BY SizesAssumption DEF CountsOf, Words
  <2> QED
    BY <2>1 DEF AddsUp
<1>3. PICK s \in [0 .. Number -> Int] : AddsUp(s, CountsOf(words))
  BY <1>1, SumExists
<1>4. Sums(f)
  <2>1. \E r : Sums(r)
    BY <1>2, <1>3
  <2> QED
    BY <2>1
<1>5. f = s
  BY <1>1, <1>2, <1>3, <1>4, SumUnique
<1>6. \A w : SumFrom(words, w) = f[w]
  BY DEF SumFrom
<1> QED
  BY <1>3, <1>5, <1>6

LEMMA SumStep ==
    ASSUME NEW words \in [Words -> WordSet]
    PROVE  /\ \A w \in 0 .. Number : SumFrom(words, w) \in Int
           /\ SumFrom(words, Number) = 0
           /\ \A w \in Words : SumFrom(words, w) = words[w].n + SumFrom(words, w + 1)
<1>1. PICK s \in [0 .. Number -> Int] :
         /\ AddsUp(s, CountsOf(words))
         /\ \A w \in 0 .. Number : SumFrom(words, w) = s[w]
  BY SumIs
<1>2. Number \in 0 .. Number /\ \A w \in Words : w \in 0 .. Number /\ w + 1 \in 0 .. Number /\ w # Number
  BY SizesAssumption DEF Words
<1>3. s[Number] = 0 /\ \A w \in Words : s[w] = words[w].n + s[w + 1]
  BY <1>1, <1>2 DEF AddsUp, CountsOf
<1> QED
  BY <1>1, <1>2, <1>3

(* Another count in a word changes the sums from that word or before.      *)
LEMMA SumUpdate ==
    ASSUME NEW words \in [Words -> WordSet], NEW new \in [Words -> WordSet],
           NEW w \in Words, \A x \in Words \ {w} : new[x] = words[x],
           NEW i \in 0 .. Number
    PROVE  SumFrom(new, i) =
              IF i <= w THEN SumFrom(words, i) + new[w].n - words[w].n ELSE SumFrom(words, i)
<1>1. CountsOf(new) \in Counts
  BY DEF CountsOf, Counts, WordSet
<1>2. PICK s \in [0 .. Number -> Int] :
         AddsUp(s, CountsOf(words)) /\ \A j \in 0 .. Number : SumFrom(words, j) = s[j]
  BY SumIs
<1>3. PICK r \in [0 .. Number -> Int] :
         AddsUp(r, CountsOf(new)) /\ \A j \in 0 .. Number : SumFrom(new, j) = r[j]
  BY <1>1, SumIs
<1> DEFINE d == new[w].n - words[w].n
           q == [j \in 0 .. Number |-> IF j <= w THEN s[j] + d ELSE s[j]]
<1>4. new[w].n \in Int /\ words[w].n \in Int /\ d \in Int /\ w \in 0 .. Number - 1
  BY DEF WordSet, Words
<1>5. \A j \in 0 .. Number : q[j] = IF j = Number THEN 0 ELSE CountsOf(new)[j] + q[j + 1]
  <2> SUFFICES ASSUME NEW j \in 0 .. Number
               PROVE  q[j] = IF j = Number THEN 0 ELSE CountsOf(new)[j] + q[j + 1]
    OBVIOUS
  <2>1. CASE j = Number
    <3>1. ~(j <= w) /\ s[j] = 0
      BY <1>2, <1>4, <2>1, SizesAssumption DEF AddsUp
    <3> QED
      BY <2>1, <3>1
  <2>2. CASE j # Number
    <3>1. j \in Words /\ j + 1 \in 0 .. Number
      BY <2>2, SizesAssumption DEF Words
    <3>2. s[j] = words[j].n + s[j + 1] /\ s[j + 1] \in Int /\ s[j] \in Int
      BY <1>2, <2>2, <3>1 DEF AddsUp, CountsOf
    <3>3. CountsOf(new)[j] = IF j = w THEN new[w].n ELSE words[j].n
      BY <3>1 DEF CountsOf
    <3>4. words[j].n \in Int
      BY <3>1 DEF WordSet
    <3>5. CASE j = w
      BY <1>4, <2>2, <3>1, <3>2, <3>3, <3>5
    <3>6. CASE j < w
      <4>1. j + 1 <= w
        BY <1>4, <3>6
      <4> QED
        BY <1>4, <2>2, <3>1, <3>2, <3>3, <3>4, <3>6, <4>1
    <3>7. CASE j > w
      <4>1. ~(j + 1 <= w) /\ ~(j <= w)
        BY <1>4, <3>7
      <4> QED
        BY <1>4, <2>2, <3>1, <3>2, <3>3, <3>4, <3>7, <4>1
    <3> QED
      BY <1>4, <3>5, <3>6, <3>7
  <2> QED
    BY <2>1, <2>2
<1>6. AddsUp(q, CountsOf(new))
  BY <1>5 DEF AddsUp
<1>7. q = r
  BY <1>1, <1>3, <1>6, SumUnique
<1>8. q[i] = IF i <= w THEN s[i] + new[w].n - words[w].n ELSE s[i]
  BY <1>2, <1>4
<1> QED
  BY <1>1, <1>2, <1>3, <1>7, <1>8

LEMMA SumOfZeros ==
    ASSUME NEW words \in [Words -> WordSet], \A w \in Words : words[w].n = 0,
           NEW i \in 0 .. Number
    PROVE  SumFrom(words, i) = 0
<1> DEFINE z == [j \in 0 .. Number |-> 0]
<1>1. CountsOf(words) \in Counts
  BY DEF CountsOf, Counts, WordSet
<1>2. AddsUp(z, CountsOf(words))
  <2>1. \A j \in 0 .. Number : j # Number => j \in Words /\ j + 1 \in 0 .. Number
    BY SizesAssumption DEF Words
  <2>2. \A j \in 0 .. Number : z[j] = IF j = Number THEN 0 ELSE CountsOf(words)[j] + z[j + 1]
    BY <2>1 DEF CountsOf
  <2> QED
    BY <2>2 DEF AddsUp
<1> QED
  BY <1>1, <1>2, SumIs, SumUnique

-----------------------------------------------------------------------------
(* Sizes of sets of references.                                            *)
LEMMA RefCounts ==
    ASSUME NEW H \in SUBSET Refs, NEW S \in SUBSET Refs
    PROVE  /\ Cardinality(H) \in Nat /\ Cardinality(S) \in Nat
           /\ Cardinality(H) = 0 <=> H = {}
           /\ Cardinality(S) = 0 <=> S = {}
           /\ H \cap S = {} => Cardinality(H \cup S) = Cardinality(H) + Cardinality(S)
           /\ S \subseteq H => Cardinality(H \ S) = Cardinality(H) - Cardinality(S)
<1>1. IsFiniteSet(H) /\ IsFiniteSet(S)
  BY SizesAssumption, FS_Subset
<1>2. /\ Cardinality(H) \in Nat /\ Cardinality(S) \in Nat
      /\ Cardinality(H) = 0 <=> H = {}
      /\ Cardinality(S) = 0 <=> S = {}
  BY <1>1, FS_CardinalityType, FS_EmptySet
<1>3. ASSUME H \cap S = {} PROVE Cardinality(H \cup S) = Cardinality(H) + Cardinality(S)
  <2>1. Cardinality(H \cap S) = 0
    BY <1>3, FS_EmptySet
  <2>2. Cardinality(H \cup S) = Cardinality(H) + Cardinality(S) - Cardinality(H \cap S)
    BY <1>1, FS_Union
  <2> QED
    BY <1>2, <2>1, <2>2
<1>4. ASSUME S \subseteq H PROVE Cardinality(H \ S) = Cardinality(H) - Cardinality(S)
  <2>1. H \cap S = S
    BY <1>4
  <2> QED
    BY <1>1, <2>1, FS_Difference
<1> QED
  BY <1>2, <1>3, <1>4

(* A word is replaced.                                                     *)
LEMMA WordChanges ==
    ASSUME NEW words \in [Words -> WordSet], NEW new, NEW w \in Words, NEW v \in WordSet,
           new = [words EXCEPT ![w] = v]
    PROVE  /\ new \in [Words -> WordSet] /\ new[w] = v
           /\ \A x \in Words \ {w} : new[x] = words[x]
  OBVIOUS

LEMMA WordValues ==
    /\ EX_RUNDOWN_ACTIVE \in WordSet /\ EX_RUNDOWN_ACTIVE.active /\ EX_RUNDOWN_ACTIVE.n = 0
    /\ WaitBlockPointer \in WordSet /\ WaitBlockPointer.active /\ WaitBlockPointer.n = 0
    /\ \A k \in Int : CountWord(k) \in WordSet /\ ~CountWord(k).active /\ CountWord(k).n = k
  BY DEF WordSet, EX_RUNDOWN_ACTIVE, WaitBlockPointer, CountWord

LEMMA WordOfProcessor ==
    ASSUME NEW p \in 0 .. KeNumberProcessors - 1 PROVE RunRefForProcessor(p) \in Words
  BY SizesAssumption DEF RunRefForProcessor, Words

LEMMA Sizes == TypeOK => /\ RunRefs \in [Words -> WordSet] /\ 0 \in 0 .. Number
                         /\ \A w \in Words : RunRefs[w] \in WordSet /\ RunRefs[w].n \in Int
  BY SizesAssumption DEF TypeOK, WordSet

-----------------------------------------------------------------------------
(* A word that still has its count gets another, and as many references    *)
(* are held more or less.                                                  *)
LEMMA CountChanges ==
    ASSUME CountInv, NEW w \in Words, ~RunRefs[w].active, NEW d \in Int,
           RunRefs' \in [Words -> WordSet], ~RunRefs'[w].active,
           RunRefs'[w].n = RunRefs[w].n + d,
           \A x \in Words \ {w} : RunRefs'[x] = RunRefs[x],
           held' \in SUBSET Refs, Cardinality(held) \in Nat,
           Cardinality(held') = Cardinality(held) + d,
           UNCHANGED <<WaitBlock, pc, op, owner, Current, TotalCount, damaged>>,
           \A t \in Threads : pc[t] = "releaseBlock" => op[t] \subseteq held'
    PROVE  CountInv'
<1>1. TypeOK /\ WordsReplaced /\ Releasers /\ Counted
  BY DEF CountInv
<1>2. RunRefs[w].n \in Int /\ RunRefs \in [Words -> WordSet]
  BY <1>1, Sizes
<1>5. TypeOK'
  BY <1>1 DEF TypeOK, WordSet
<1>6. WordsReplaced'
  BY <1>1 DEF WordsReplaced
<1>7. Releasers'
  BY <1>1 DEF Releasers
<1>8. \A i \in 0 .. Number : SumFrom(RunRefs', i) =
         IF i <= w THEN SumFrom(RunRefs, i) + RunRefs'[w].n - RunRefs[w].n ELSE SumFrom(RunRefs, i)
  BY <1>2, SumUpdate
<1>9. \A i \in 0 .. Number : i <= w => SumFrom(RunRefs', i) = SumFrom(RunRefs, i) + d
  <2>1. \A i \in 0 .. Number : SumFrom(RunRefs, i) \in Int
    BY <1>2, SumStep
  <2> SUFFICES ASSUME NEW i \in 0 .. Number, i <= w
               PROVE  SumFrom(RunRefs', i) = SumFrom(RunRefs, i) + d
    OBVIOUS
  <2>2. SumFrom(RunRefs', i) = SumFrom(RunRefs, i) + (RunRefs[w].n + d) - RunRefs[w].n
    BY <1>8
  <2> QED
    BY <1>2, <2>1, <2>2
<1>10. Counted'
  <2> SUFFICES ASSUME ~damaged PROVE Counted'
    BY DEF Counted
  <2>1. owner \in {"open", "reinitializing", "publishing"}
    BY <1>1 DEF WordsReplaced, TypeOK, Loops
  <2>2. CASE owner \in {"open", "reinitializing"}
    <3>1. 0 \in 0 .. Number /\ 0 <= w
      BY SizesAssumption DEF Words
    <3>2. SumFrom(RunRefs', 0) = SumFrom(RunRefs, 0) + d
      BY <1>9, <3>1
    <3> QED
      BY <1>1, <2>2, <3>2 DEF Counted
  <2>3. CASE owner = "publishing"
    <3>1. Current \in 0 .. Number /\ Current <= w
      BY <1>1, <2>3 DEF WordsReplaced, TypeOK, Words
    <3>2. /\ SumFrom(RunRefs', Current) = SumFrom(RunRefs, Current) + d
          /\ SumFrom(RunRefs, Current) \in Int
      BY <1>2, <1>9, <3>1, SumStep
    <3>3. TotalCount \in Int /\ WaitBlock.Count \in Int
      BY <1>1 DEF TypeOK
    <3>4. /\ TotalCount + WaitBlock.Count + SumFrom(RunRefs, Current) = Cardinality(held)
          /\ WaitBlock.Count <= 0 /\ ~WaitBlock.signaled
      BY <1>1, <2>3 DEF Counted
    <3>5. TotalCount + WaitBlock.Count + SumFrom(RunRefs', Current) = Cardinality(held')
      BY <3>2, <3>3, <3>4
    <3> QED
      BY <2>3, <3>4, <3>5 DEF Counted
  <2> QED
    BY <2>1, <2>2, <2>3
<1> QED
  BY <1>5, <1>6, <1>7, <1>10 DEF CountInv

LEMMA AcquireInv == ASSUME CountInv, NEW t \in Threads, AcquireCacheAware(t) PROVE CountInv'
<1>1. PICK p \in 0 .. KeNumberProcessors - 1, S \in (SUBSET (Refs \ (held \cup Busy))) \ {{}} :
         /\ ~RunRefs[RunRefForProcessor(p)].active
         /\ RunRefs' = [RunRefs EXCEPT ![RunRefForProcessor(p)] = CountWord(@.n + Cardinality(S))]
         /\ held' = held \cup S
  BY DEF AcquireCacheAware
<1>2. RunRefForProcessor(p) \in Words
  BY WordOfProcessor
<1>3. S \in SUBSET Refs /\ held \in SUBSET Refs /\ held \cap S = {}
  BY DEF CountInv, TypeOK
<1>4. /\ Cardinality(held) \in Nat /\ Cardinality(S) \in Int
      /\ Cardinality(held') = Cardinality(held) + Cardinality(S)
  <2>1. Cardinality(held \cup S) = Cardinality(held) + Cardinality(S)
    BY <1>3, RefCounts
  <2> QED
    BY <1>1, <1>3, <2>1, RefCounts
<1>5. \A u \in Threads : pc[u] = "releaseBlock" => op[u] \subseteq held'
  BY <1>1 DEF CountInv, Releasers
<1>6. UNCHANGED <<WaitBlock, pc, op, owner, Current, TotalCount, damaged>>
  BY DEF AcquireCacheAware, ownerVars
<1>7. LET w == RunRefForProcessor(p) IN
      /\ RunRefs' \in [Words -> WordSet] /\ ~RunRefs'[w].active
      /\ RunRefs'[w].n = RunRefs[w].n + Cardinality(S)
      /\ \A x \in Words \ {w} : RunRefs'[x] = RunRefs[x]
  <2>1. RunRefs \in [Words -> WordSet] /\ RunRefs[RunRefForProcessor(p)].n + Cardinality(S) \in Int
    BY <1>2, <1>4, Sizes DEF CountInv
  <2> QED
    BY <1>1, <1>2, <2>1, WordChanges, WordValues
<1>8. held' \in SUBSET Refs
  BY <1>1, <1>3
<1> QED
  BY <1>1, <1>2, <1>4, <1>5, <1>6, <1>7, <1>8, CountChanges

(* A release that meets a pointer holds a reference, so the owner has not  *)
(* decided yet, or something is wrong already.                             *)
LEMMA ReleaseInv == ASSUME CountInv, NEW t \in Threads, ReleaseCacheAware(t) PROVE CountInv'
<1>1. TypeOK /\ WordsReplaced /\ Releasers /\ Counted /\ pc[t] = "idle"
  BY DEF CountInv, ReleaseCacheAware
<1>2. PICK p \in 0 .. KeNumberProcessors - 1, S \in (SUBSET (held \ Busy)) \ {{}} :
         LET w == RunRefForProcessor(p) IN
         IF ~RunRefs[w].active
         THEN /\ RunRefs' = [RunRefs EXCEPT ![w] = CountWord(@.n - Cardinality(S))]
              /\ held' = held \ S
              /\ UNCHANGED <<pc, op, damaged>>
         ELSE /\ op' = [op EXCEPT ![t] = S]
              /\ pc' = [pc EXCEPT ![t] = IF RunRefs[w].ptr = "NULL" THEN "bugcheck"
                                                                    ELSE "releaseBlock"]
              /\ Damages(~FrameIsLive)
              /\ UNCHANGED <<RunRefs, held>>
  BY DEF ReleaseCacheAware
<1> DEFINE w == RunRefForProcessor(p)
<1>3. w \in Words /\ UNCHANGED <<WaitBlock, owner, Current, TotalCount>>
  BY WordOfProcessor DEF ReleaseCacheAware
<1>4. S \in SUBSET Refs /\ held \in SUBSET Refs /\ S \subseteq held /\ S # {}
  BY <1>1 DEF TypeOK
<1>5. \A u \in Threads : op[u] \cap S = {}
  BY DEF Busy
<1>6. CASE ~RunRefs[w].active
  <2>1. /\ Cardinality(held) \in Nat /\ -Cardinality(S) \in Int
        /\ Cardinality(held') = Cardinality(held) + (-Cardinality(S))
        /\ held' \in SUBSET Refs
    <3>1. held' = held \ S
      BY <1>2, <1>6
    <3>2. Cardinality(held \ S) = Cardinality(held) - Cardinality(S)
      BY <1>4, RefCounts
    <3>3. Cardinality(held) \in Nat /\ Cardinality(S) \in Nat
      BY <1>4, RefCounts
    <3> QED
      BY <1>4, <3>1, <3>2, <3>3
  <2>2. /\ RunRefs' \in [Words -> WordSet] /\ ~RunRefs'[w].active
        /\ RunRefs'[w].n = RunRefs[w].n + (-Cardinality(S))
        /\ \A x \in Words \ {w} : RunRefs'[x] = RunRefs[x]
    <3>1. /\ RunRefs \in [Words -> WordSet] /\ RunRefs[w].n - Cardinality(S) \in Int
          /\ RunRefs[w].n - Cardinality(S) = RunRefs[w].n + (-Cardinality(S))
      <4>1. Cardinality(S) \in Nat
        BY <1>4, RefCounts
      <4>2. RunRefs \in [Words -> WordSet] /\ RunRefs[w].n \in Int
        BY <1>1, <1>3, Sizes
      <4> QED
        BY <4>1, <4>2
    <3> QED
      BY <1>2, <1>3, <1>6, <3>1, WordChanges, WordValues
  <2>3. \A u \in Threads : pc[u] = "releaseBlock" => op[u] \subseteq held'
    BY <1>1, <1>2, <1>5, <1>6 DEF Releasers
  <2>4. UNCHANGED <<WaitBlock, pc, op, owner, Current, TotalCount, damaged>>
    BY <1>2, <1>3, <1>6
  <2> QED
    BY <1>3, <1>6, <2>1, <2>2, <2>3, <2>4, CountChanges
<1>7. CASE RunRefs[w].active
  <2>1. /\ op' = [op EXCEPT ![t] = S] /\ UNCHANGED <<RunRefs, held>>
        /\ pc' \in {[pc EXCEPT ![t] = "bugcheck"], [pc EXCEPT ![t] = "releaseBlock"]}
        /\ damaged' \in BOOLEAN /\ (~damaged' => ~damaged /\ FrameIsLive)
    BY <1>1, <1>2, <1>7 DEF Damages, TypeOK
  <2>2. TypeOK'
    BY <1>1, <1>3, <1>4, <2>1 DEF TypeOK
  <2>3. WordsReplaced'
    BY <1>1, <1>3, <2>1 DEF WordsReplaced
  <2>4. Counted'
    BY <1>1, <1>3, <2>1 DEF Counted
  <2>5. ~damaged' => owner \in {"publishing", "deciding"}
    BY <1>1, <1>4, <2>1 DEF FrameIsLive, Counted
  <2>6. Releasers'
    BY <1>1, <1>3, <1>4, <1>5, <2>1, <2>5 DEF Releasers, TypeOK
  <2> QED
    BY <2>2, <2>3, <2>4, <2>6 DEF CountInv
<1> QED
  BY <1>6, <1>7

(* A releaser gives back something, so it takes the count below zero as    *)
(* long as the sum has not been added.                                     *)
LEMMA ReleaseBlockInv == ASSUME CountInv, NEW t \in Threads, ReleaseWaitBlock(t) PROVE CountInv'
<1>1. TypeOK /\ WordsReplaced /\ Releasers /\ Counted /\ pc[t] = "releaseBlock"
  BY DEF CountInv, ReleaseWaitBlock
<1>2. /\ held' = held \ op[t] /\ op' = [op EXCEPT ![t] = {}]
      /\ UNCHANGED <<RunRefs, owner, Current, TotalCount, damaged>>
      /\ pc' \in {[pc EXCEPT ![t] = "signal"], [pc EXCEPT ![t] = "idle"]}
  BY DEF ReleaseWaitBlock, ownerVars
<1>3. op[t] \in SUBSET Refs /\ held \in SUBSET Refs /\ op[t] \subseteq held /\ op[t] # {}
  BY <1>1 DEF TypeOK, Releasers
<1>4. /\ Cardinality(op[t]) \in Nat \ {0} /\ Cardinality(held) \in Nat
      /\ Cardinality(held \ op[t]) = Cardinality(held) - Cardinality(op[t])
  BY <1>3, RefCounts
<1>5. /\ FrameIsLive => WaitBlock' = [WaitBlock EXCEPT !.Count = @ - Cardinality(op[t])]
      /\ ~FrameIsLive => WaitBlock' = WaitBlock
      /\ FrameIsLive => pc'[t] = IF WaitBlock'.Count = 0 THEN "signal" ELSE "idle"
  BY <1>1 DEF ReleaseWaitBlock, TypeOK
<1>6. /\ WaitBlock' \in [Count : Int, signaled : BOOLEAN]
      /\ WaitBlock'.signaled = WaitBlock.signaled
      /\ FrameIsLive => WaitBlock'.Count = WaitBlock.Count - Cardinality(op[t])
  BY <1>1, <1>4, <1>5 DEF TypeOK
<1>7. TypeOK'
  BY <1>1, <1>2, <1>6 DEF TypeOK
<1>8. WordsReplaced'
  BY <1>1, <1>2 DEF WordsReplaced
<1>9. ~damaged => /\ owner \in {"publishing", "deciding"} /\ FrameIsLive
                  /\ WaitBlock.Count \in Int /\ WaitBlock.Count <= 0 /\ ~WaitBlock.signaled
  BY <1>1 DEF Releasers, FrameIsLive, Counted, TypeOK
<1>10. ~damaged => WaitBlock'.Count < 0 /\ pc'[t] = "idle"
  BY <1>4, <1>5, <1>6, <1>9
<1>11. Releasers'
  BY <1>1, <1>2, <1>10 DEF Releasers, TypeOK
<1>12. Counted'
  <2> SUFFICES ASSUME ~damaged PROVE Counted'
    BY <1>2 DEF Counted
  <2>1. SumFrom(RunRefs, Current) \in Int
    BY <1>1, Sizes, SumStep DEF TypeOK
  <2>2. TotalCount + WaitBlock.Count + SumFrom(RunRefs, Current) = Cardinality(held)
    BY <1>1, <1>9 DEF Counted
  <2>3. TotalCount + WaitBlock'.Count + SumFrom(RunRefs, Current) = Cardinality(held')
    BY <1>1, <1>2, <1>4, <1>6, <1>9, <2>1, <2>2 DEF TypeOK
  <2> QED
    BY <1>2, <1>6, <1>9, <1>10, <2>3 DEF Counted
<1> QED
  BY <1>7, <1>8, <1>11, <1>12 DEF CountInv

(* Only a damaged rundown is signaled.                                     *)
LEMMA SignalInv == ASSUME CountInv, NEW t \in Threads, SignalOwner(t) PROVE CountInv'
<1>1. TypeOK /\ WordsReplaced /\ Releasers /\ Counted /\ pc[t] = "signal" /\ damaged
  BY DEF CountInv, SignalOwner, Releasers
<1> USE DEF SignalOwner, ownerVars
<1>2. TypeOK'
  BY <1>1 DEF TypeOK
<1>3. WordsReplaced' /\ Counted'
  BY <1>1 DEF WordsReplaced, Counted
<1>4. Releasers'
  BY <1>1 DEF Releasers, TypeOK
<1> QED
  BY <1>2, <1>3, <1>4 DEF CountInv

-----------------------------------------------------------------------------
(* The owner.                                                              *)

LEMMA BeginInv == ASSUME CountInv, BeginWait PROVE CountInv'
<1>1. TypeOK /\ WordsReplaced /\ Releasers /\ Counted
  BY DEF CountInv
<1> USE DEF BeginWait, threadVars
<1>2. TypeOK'
  BY <1>1, SizesAssumption DEF TypeOK, Loops
<1>3. WordsReplaced'
  BY <1>1 DEF WordsReplaced, Words
<1>4. Releasers'
  BY <1>1 DEF Releasers
<1>5. Counted'
  <2>1. SumFrom(RunRefs, 0) = Cardinality(held) /\ SumFrom(RunRefs, 0) \in Int
    BY <1>1, Sizes, SumStep DEF Counted
  <2>2. TotalCount' + WaitBlock'.Count + SumFrom(RunRefs', Current') = Cardinality(held')
    BY <2>1
  <2>3. owner' = "publishing" /\ WaitBlock'.Count <= 0 /\ ~WaitBlock'.signaled
    OBVIOUS
  <2> QED
    BY <2>2, <2>3 DEF Counted
<1> QED
  BY <1>2, <1>3, <1>4, <1>5 DEF CountInv

(* What is taken out of a word goes into the total.                        *)
LEMMA PublishInv == ASSUME CountInv, PublishWaitBlock PROVE CountInv'
<1>1. TypeOK /\ WordsReplaced /\ Releasers /\ Counted /\ owner = "publishing"
  BY DEF CountInv, PublishWaitBlock
<1>2. /\ Current \in Words /\ RunRefs \in [Words -> WordSet] /\ RunRefs[Current].n \in Int
      /\ Current \in 0 .. Number /\ Current + 1 \in 0 .. Number
  BY <1>1, Sizes, SizesAssumption DEF TypeOK, Words, Loops
<1>3. /\ TotalCount' = TotalCount + RunRefs[Current].n /\ Current' = Current + 1
      /\ owner' = IF Current + 1 < Number THEN "publishing" ELSE "deciding"
      /\ UNCHANGED <<WaitBlock, damaged, pc, op, held>>
  BY DEF PublishWaitBlock, threadVars
<1>4. /\ RunRefs' \in [Words -> WordSet] /\ RunRefs'[Current] = WaitBlockPointer
      /\ \A x \in Words \ {Current} : RunRefs'[x] = RunRefs[x]
  BY <1>2, WordChanges, WordValues DEF PublishWaitBlock
<1>5. TypeOK'
  BY <1>1, <1>2, <1>3, <1>4, SizesAssumption DEF TypeOK, Loops, WordSet
<1>6. WordsReplaced'
  <2>1. \A x \in Words : x < Current + 1 <=> x < Current \/ x = Current
    BY <1>2 DEF Words
  <2>2. ~(Current + 1 < Number) => \A x \in Words : x < Current + 1
    BY <1>2, SizesAssumption DEF Words
  <2> QED
    BY <1>1, <1>3, <1>4, <2>1, <2>2, WordValues DEF WordsReplaced
<1>7. Releasers'
  BY <1>1, <1>3 DEF Releasers
<1>8. Counted'
  <2> SUFFICES ASSUME ~damaged PROVE Counted'
    BY <1>3 DEF Counted
  <2>1. SumFrom(RunRefs', Current + 1) = SumFrom(RunRefs, Current + 1)
    <3>1. ~(Current + 1 <= Current)
      BY <1>2
    <3>2. SumFrom(RunRefs', Current + 1) =
             IF Current + 1 <= Current
             THEN SumFrom(RunRefs, Current + 1) + RunRefs'[Current].n - RunRefs[Current].n
             ELSE SumFrom(RunRefs, Current + 1)
      BY <1>2, <1>4, SumUpdate
    <3> QED
      BY <3>1, <3>2
  <2>2. /\ SumFrom(RunRefs, Current) = RunRefs[Current].n + SumFrom(RunRefs, Current + 1)
        /\ SumFrom(RunRefs, Current + 1) \in Int
    BY <1>2, SumStep
  <2>3. /\ TotalCount + WaitBlock.Count + SumFrom(RunRefs, Current) = Cardinality(held)
        /\ TotalCount \in Int /\ WaitBlock.Count \in Int
        /\ WaitBlock.Count <= 0 /\ ~WaitBlock.signaled
    BY <1>1 DEF Counted, TypeOK
  <2>4. TotalCount + RunRefs[Current].n + WaitBlock.Count + SumFrom(RunRefs', Current + 1)
           = Cardinality(held)
    BY <1>2, <2>1, <2>2, <2>3
  <2> QED
    BY <1>3, <2>3, <2>4 DEF Counted
<1> QED
  BY <1>5, <1>6, <1>7, <1>8 DEF CountInv

(* Whether the owner decides to wait or not, nothing is held; or the       *)
(* decision is wrong, and counts as damage.                                *)
LEMMA DecideInv == ASSUME CountInv, DecideToWait PROVE CountInv'
<1>1. TypeOK /\ WordsReplaced /\ Releasers /\ Counted /\ owner = "deciding"
  BY DEF CountInv, DecideToWait
<1>2. /\ UNCHANGED <<RunRefs, Current, TotalCount, pc, op, held>>
      /\ damaged' = (damaged \/ (owner' = "skipping" /\ held # {}))
      /\ owner' \in {"waiting", "skipping"}
      /\ owner' = "waiting" => WaitBlock.Count = -TotalCount
  BY DEF DecideToWait, threadVars, Damages
<1>3. WaitBlock' \in [Count : Int, signaled : BOOLEAN]
  <2>1. \/ WaitBlock' = WaitBlock
        \/ WaitBlock' = [Count |-> WaitBlock.Count + TotalCount, signaled |-> FALSE]
    BY DEF DecideToWait
  <2>2. /\ WaitBlock \in [Count : Int, signaled : BOOLEAN]
        /\ WaitBlock.Count + TotalCount \in Int
    BY <1>1 DEF TypeOK
  <2>3. [Count |-> WaitBlock.Count + TotalCount, signaled |-> FALSE]
           \in [Count : Int, signaled : BOOLEAN]
    BY <2>2
  <2> QED
    BY <2>1, <2>2, <2>3
<1>4. TypeOK'
  BY <1>1, <1>2, <1>3 DEF TypeOK, Loops
<1>5. WordsReplaced'
  BY <1>1, <1>2 DEF WordsReplaced
<1>6. ~damaged' => held = {}
  <2> SUFFICES ASSUME ~damaged', owner' = "waiting" PROVE held = {}
    BY <1>2
  <2>1. TotalCount + WaitBlock.Count + SumFrom(RunRefs, Current) = Cardinality(held)
    BY <1>1, <1>2 DEF Counted
  <2>2. SumFrom(RunRefs, Current) = 0
    BY <1>1, Sizes, SumStep DEF TypeOK
  <2>3. Cardinality(held) = 0
    BY <1>1, <1>2, <2>1, <2>2 DEF TypeOK
  <2> QED
    BY <1>1, <2>3, RefCounts DEF TypeOK
<1>7. Releasers'
  BY <1>1, <1>2, <1>6 DEF Releasers
<1>8. Counted'
  BY <1>2, <1>6 DEF Counted
<1> QED
  BY <1>4, <1>5, <1>7, <1>8 DEF CountInv

LEMMA ReturnInv == ASSUME CountInv, ReturnFromWait PROVE CountInv'
<1>1. TypeOK /\ WordsReplaced /\ Releasers /\ Counted
  BY DEF CountInv
<1> USE DEF ReturnFromWait, threadVars
<1>2. TypeOK'
  BY <1>1 DEF TypeOK, Loops
<1>3. WordsReplaced' /\ Counted' /\ Releasers'
  BY <1>1 DEF WordsReplaced, Counted, Releasers
<1> QED
  BY <1>2, <1>3 DEF CountInv

LEMMA CompleteInv == ASSUME CountInv, RundownCompletedCacheAware PROVE CountInv'
<1>1. TypeOK /\ WordsReplaced /\ Releasers /\ Counted
  BY DEF CountInv
<1>2. UNCHANGED <<WaitBlock, TotalCount, damaged, pc, op, held>>
  BY DEF RundownCompletedCacheAware, SetWords, threadVars
<1>3. owner \in {"returned", "completing"} /\ owner' \in {"completing", "completed"}
  BY DEF RundownCompletedCacheAware, SetWords
<1>4. /\ RunRefs' \in [Words -> WordSet] /\ Current' \in 0 .. Number
      /\ owner' = "completing" => Current' < Number
      /\ \A w \in Words : RunRefs'[w].active /\ RunRefs'[w].n = 0
  <2>1. RunRefs \in [Words -> WordSet] /\ \A w \in Words : RunRefs[w].active /\ RunRefs[w].n = 0
    BY <1>1, <1>3, Sizes DEF WordsReplaced
  <2>2. CASE owner = "returned"
    BY <2>1, <2>2, SizesAssumption DEF RundownCompletedCacheAware, SetWords
  <2>3. CASE owner = "completing"
    <3>1. /\ RunRefs' = [RunRefs EXCEPT ![Current] = EX_RUNDOWN_ACTIVE] /\ Current' = Current + 1
          /\ owner' = IF Current + 1 < Number THEN "completing" ELSE "completed"
      BY <2>3 DEF RundownCompletedCacheAware, SetWords
    <3>2. Current \in Words /\ Current + 1 \in 0 .. Number
      BY <1>1, <2>3, SizesAssumption DEF TypeOK, Loops, Words
    <3> QED
      BY <2>1, <3>1, <3>2, WordChanges, WordValues
  <2> QED
    BY <1>3, <2>2, <2>3
<1>5. TypeOK'
  BY <1>1, <1>2, <1>3, <1>4 DEF TypeOK, Loops, WordSet
<1>6. WordsReplaced'
  BY <1>3, <1>4 DEF WordsReplaced
<1>7. Releasers' /\ Counted'
  BY <1>1, <1>2, <1>3 DEF Releasers, Counted
<1> QED
  BY <1>5, <1>6, <1>7 DEF CountInv

(* The loop starts with no count left and nothing held; a word that it has *)
(* reset counts again.                                                     *)
LEMMA ReInitializeInv == ASSUME CountInv, ReInitializeCacheAware PROVE CountInv'
<1>1. TypeOK /\ WordsReplaced /\ Releasers /\ Counted
  BY DEF CountInv
<1>2. UNCHANGED <<WaitBlock, TotalCount, damaged, pc, op, held>>
  BY DEF ReInitializeCacheAware, SetWords, threadVars
<1>3. RunRefs \in [Words -> WordSet] /\ 0 \in 0 .. Number
  BY <1>1, Sizes
<1>4. CASE owner \in {"returned", "completed"}
  <2>1. owner' = "reinitializing" /\ Current' = 0 /\ RunRefs' = RunRefs
    BY <1>4 DEF ReInitializeCacheAware, SetWords
  <2>2. \A w \in Words : RunRefs[w].active /\ RunRefs[w].n = 0
    BY <1>1, <1>4 DEF WordsReplaced
  <2>3. TypeOK'
    BY <1>1, <1>2, <2>1, SizesAssumption DEF TypeOK, Loops
  <2>4. WordsReplaced'
    BY <2>1, <2>2 DEF WordsReplaced, Words
  <2>5. Releasers'
    BY <1>1, <1>2, <1>4 DEF Releasers
  <2>6. Counted'
    <3>1. SumFrom(RunRefs, 0) = 0
      BY <1>3, <2>2, SumOfZeros
    <3>2. ~damaged => Cardinality(held) = 0
      BY <1>1, <1>4, RefCounts DEF Counted, TypeOK
    <3> QED
      BY <1>2, <2>1, <3>1, <3>2 DEF Counted
  <2> QED
    BY <2>3, <2>4, <2>5, <2>6 DEF CountInv
<1>5. CASE owner = "reinitializing"
  <2>1. /\ RunRefs' = [RunRefs EXCEPT ![Current] = CountWord(0)] /\ Current' = Current + 1
        /\ owner' = IF Current + 1 < Number THEN "reinitializing" ELSE "open"
    BY <1>5 DEF ReInitializeCacheAware, SetWords
  <2>2. Current \in Words /\ Current + 1 \in 0 .. Number
    BY <1>1, <1>5, SizesAssumption DEF TypeOK, Loops, Words
  <2>3. /\ RunRefs' \in [Words -> WordSet] /\ RunRefs'[Current] = CountWord(0)
        /\ \A x \in Words \ {Current} : RunRefs'[x] = RunRefs[x]
    BY <1>3, <2>1, <2>2, WordChanges, WordValues
  <2>4. TypeOK'
    BY <1>1, <1>2, <2>1, <2>2, <2>3 DEF TypeOK, Loops, WordSet
  <2>5. WordsReplaced'
    <3>1. \A x \in Words : x >= Current + 1 <=> x >= Current /\ x # Current
      BY <2>2 DEF Words
    <3>2. ~(Current + 1 < Number) => \A x \in Words : ~(x >= Current + 1)
      BY <2>2, SizesAssumption DEF Words
    <3> QED
      BY <1>1, <1>5, <2>1, <2>3, <3>1, <3>2, WordValues DEF WordsReplaced
  <2>6. Releasers'
    BY <1>1, <1>2, <1>5 DEF Releasers
  <2>7. SumFrom(RunRefs', 0) = SumFrom(RunRefs, 0)
    <3>1. RunRefs[Current].n = 0 /\ RunRefs'[Current].n = 0
      BY <1>1, <1>5, <2>2, <2>3, WordValues DEF WordsReplaced, Words
    <3>2. 0 <= Current /\ SumFrom(RunRefs, 0) \in Int
      BY <1>3, <2>2, SumStep DEF Words
    <3>3. SumFrom(RunRefs', 0) =
             IF 0 <= Current
             THEN SumFrom(RunRefs, 0) + RunRefs'[Current].n - RunRefs[Current].n
             ELSE SumFrom(RunRefs, 0)
      BY <1>3, <2>2, <2>3, SumUpdate
    <3> QED
      BY <3>1, <3>2, <3>3
  <2>8. Counted'
    BY <1>1, <1>2, <1>5, <2>1, <2>7 DEF Counted
  <2> QED
    BY <2>4, <2>5, <2>6, <2>8 DEF CountInv
<1> QED
  BY <1>4, <1>5 DEF ReInitializeCacheAware, SetWords

-----------------------------------------------------------------------------
LEMMA InitCountInv == Init => CountInv
<1> SUFFICES ASSUME Init PROVE CountInv
  OBVIOUS
<1>1. RunRefs \in [Words -> WordSet] /\ \A w \in Words : ~RunRefs[w].active /\ RunRefs[w].n = 0
  BY WordValues DEF Init
<1>2. TypeOK
  <2>1. WaitBlock \in [Count : Int, signaled : BOOLEAN] /\ damaged \in BOOLEAN
    <3>1. [Count |-> 0, signaled |-> FALSE] \in [Count : Int, signaled : BOOLEAN]
      OBVIOUS
    <3> QED
      BY <3>1 DEF Init
  <2>2. 0 \in 0 .. Number
    BY SizesAssumption
  <2> QED
    BY <1>1, <2>1, <2>2 DEF Init, TypeOK, WordSet, Loops
<1>3. WordsReplaced /\ Releasers
  BY <1>1 DEF Init, WordsReplaced, Releasers
<1>4. SumFrom(RunRefs, 0) = 0 /\ Cardinality(held) = 0
  BY <1>1, <1>2, Sizes, SumOfZeros, RefCounts DEF Init, TypeOK
<1>5. Counted
  BY <1>4 DEF Init, Counted
<1> QED
  BY <1>2, <1>3, <1>5 DEF CountInv

LEMMA NextCountInv == CountInv /\ [Next]_vars => CountInv'
<1> SUFFICES ASSUME CountInv, [Next]_vars PROVE CountInv'
  OBVIOUS
<1>1. CASE UNCHANGED vars
  BY <1>1 DEF vars, CountInv, TypeOK, WordsReplaced, Releasers, Counted
<1>2. CASE Next
  BY <1>2, AcquireInv, ReleaseInv, ReleaseBlockInv, SignalInv, BeginInv, PublishInv, DecideInv,
     ReturnInv, CompleteInv, ReInitializeInv DEF Next, ThreadStep, OwnerStep
<1> QED
  BY <1>1, <1>2

(* CountInv holds in every state of a cache-aware descriptor.              *)
THEOREM Invariance == Spec => []CountInv
  BY InitCountInv, NextCountInv, PTL DEF Spec

(* Whatever ExfWaitForRundownProtectionReleaseCacheAware collects from the *)
(* words, what is left in them and what releasers subtract from the block  *)
(* is the number of references; at the decision the total is not negative, *)
(* and zero means that there is none.                                      *)
THEOREM SumExact == Spec => []SumIsExact
<1>1. CountInv => SumIsExact
  <2> SUFFICES ASSUME CountInv, ~damaged PROVE SumIsExact
    BY DEF SumIsExact
  <2>1. TypeOK /\ Counted
    BY DEF CountInv
  <2>2. ASSUME owner = "deciding"
        PROVE  TotalCount >= 0 /\ (TotalCount = 0 => held = {})
    <3>1. SumFrom(RunRefs, Current) = 0
      BY <2>1, <2>2, Sizes, SumStep DEF TypeOK
    <3>2. /\ TotalCount + WaitBlock.Count + SumFrom(RunRefs, Current) = Cardinality(held)
          /\ WaitBlock.Count <= 0
      BY <2>1, <2>2 DEF Counted
    <3>3. Cardinality(held) \in Nat /\ (Cardinality(held) = 0 <=> held = {})
      BY <2>1, RefCounts DEF TypeOK
    <3>4. TotalCount \in Int /\ WaitBlock.Count \in Int
      BY <2>1 DEF TypeOK
    <3>5. TotalCount >= 0 /\ (TotalCount = 0 => Cardinality(held) = 0)
      BY <3>1, <3>2, <3>3, <3>4
    <3> QED
      BY <3>3, <3>5
  <2> QED
    BY <2>1, <2>2 DEF SumIsExact, Counted
<1> QED
  BY <1>1, Invariance, PTL

(* No releaser signals the event of the wait block before the owner has    *)
(* initialized it.                                                         *)
THEOREM EventInitialized == Spec => []NoEarlySignal
<1>1. CountInv => NoEarlySignal
  BY DEF CountInv, NoEarlySignal, Releasers, Counted
<1> QED
  BY <1>1, Invariance, PTL

(* From the last publication until the words are set again no acquire      *)
(* succeeds, on any processor.                                             *)
THEOREM NoLateReference == Spec => NoNewReference
<1>1. CountInv /\ [Next]_vars => [AllPublished => held' \subseteq held]_vars
  <2> SUFFICES ASSUME CountInv, Next, AllPublished PROVE held' \subseteq held
    OBVIOUS
  <2>1. ASSUME NEW t \in Threads, AcquireCacheAware(t) PROVE FALSE
    <3>1. PICK p \in 0 .. KeNumberProcessors - 1 : ~RunRefs[RunRefForProcessor(p)].active
      BY <2>1 DEF AcquireCacheAware
    <3>2. RunRefForProcessor(p) \in Words
      BY WordOfProcessor
    <3> QED
      BY <3>1, <3>2 DEF AllPublished, CountInv, WordsReplaced
  <2>2. ASSUME NEW t \in Threads, ReleaseCacheAware(t) PROVE held' \subseteq held
    BY <2>2 DEF ReleaseCacheAware
  <2>3. ASSUME NEW t \in Threads, ReleaseWaitBlock(t) \/ SignalOwner(t) PROVE held' \subseteq held
    BY <2>3 DEF ReleaseWaitBlock, SignalOwner
  <2>4. ASSUME OwnerStep PROVE held' \subseteq held
    BY <2>4 DEF OwnerStep, BeginWait, PublishWaitBlock, DecideToWait, ReturnFromWait, SetWords,
                RundownCompletedCacheAware, ReInitializeCacheAware, threadVars
  <2> QED
    BY <2>1, <2>2, <2>3, <2>4 DEF Next, ThreadStep
<1> QED
  BY <1>1, Invariance, PTL DEF Spec, NoNewReference
=============================================================================
