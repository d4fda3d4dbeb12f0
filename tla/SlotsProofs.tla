---------------------------- MODULE SlotsProofs ----------------------------
(***************************************************************************)
(* Lemmas about the largest and the least of a set of indices, which are   *)
(* what the operators of Slots are defined by, and induction over indices. *)
(***************************************************************************)
EXTENDS Slots, TLAPS, WellFoundedInduction

\* A set of indices up to n has a last one, 0 if it is empty, so the drain loops
\* of tick() and close() stop at a definite place.
LEMMA MaxOfIndices ==
    ASSUME NEW n \in Nat, NEW S \in SUBSET (1..n)
    PROVE  /\ Max({0} \cup S) \in 0..n
           /\ Max({0} \cup S) \in {0} \cup S
           /\ \A k \in S : k <= Max({0} \cup S)
<1> DEFINE T == {0} \cup S
           U == {m \in Nat : \A k \in T : k <= m}
<1>1. n \in U  OBVIOUS
<1>2. PICK m \in U : \A y \in U : ~(<<y, m>> \in OpToRel(<, Nat))
  <2>1. U \subseteq Nat /\ U # {}  BY <1>1
  <2> HIDE DEF U
  <2> QED  BY <2>1, WFMin, NatLessThanWellFounded
<1>3. \A y \in U : m <= y
  <2> SUFFICES ASSUME NEW y \in U, y < m  PROVE FALSE  OBVIOUS
  <2>1. y \in Nat /\ m \in Nat  OBVIOUS
  <2>2. <<y, m>> \in OpToRel(<, Nat)  BY <2>1 DEF OpToRel
  <2> QED  BY <1>2, <2>2
<1>4. m \in T
  <2>1. CASE m = 0  BY <2>1
  <2>2. CASE m # 0
    <3>1. m - 1 \in Nat  BY <2>2
    <3>2. ~(m - 1 \in U)  BY <1>3, <3>1
    <3>3. PICK k \in T : ~(k <= m - 1)  BY <3>1, <3>2
    <3> QED  BY <3>1, <3>3
  <2> QED  BY <2>1, <2>2
<1>5. Max(T) \in T /\ \A y \in T : Max(T) >= y
  <2>1. m \in T /\ \A y \in T : m >= y  BY <1>4
  <2> HIDE DEF T
  <2> QED  BY <2>1 DEF Max
<1>6. \A y \in T : y \in 0..n  OBVIOUS
<1> HIDE DEF U
<1> QED  BY <1>5, <1>6

\* A nonempty set of naturals has a least element: the first free slot, the child
\* a wait reports, the height a heap is popped to.
LEMMA MinOfIndices ==
    ASSUME NEW S \in SUBSET Nat, S # {}
    PROVE  Min(S) \in S /\ \A x \in S : Min(S) <= x
<1>1. PICK m \in S : \A y \in S : ~(<<y, m>> \in OpToRel(<, Nat))
  BY WFMin, NatLessThanWellFounded
<1>2. \A y \in S : m <= y
  <2> SUFFICES ASSUME NEW y \in S, y < m  PROVE FALSE  OBVIOUS
  <2>1. y \in Nat /\ m \in Nat  OBVIOUS
  <2>2. <<y, m>> \in OpToRel(<, Nat)  BY <2>1 DEF OpToRel
  <2> QED  BY <1>1, <2>2
<1> QED  BY <1>2 DEF Min

\* Induction over the naturals, with a set in the place of a predicate: how the loops
\* of the kernel over a vector are followed from one element to the next.
LEMMA NatSetInduction ==
    ASSUME NEW S, 0 \in S, \A n \in Nat : n \in S => n + 1 \in S
    PROVE  \A n \in Nat : n \in S
<1> SUFFICES ASSUME NEW m \in Nat, m \notin S  PROVE FALSE  OBVIOUS
<1> DEFINE T == {n \in Nat : n \notin S}
           least == Min(T)
<1>1. T \in SUBSET Nat /\ T # {}  OBVIOUS
<1>2. least \in T /\ \A x \in T : least <= x
  <2> HIDE DEF T
  <2> QED  BY <1>1, MinOfIndices
<1> HIDE DEF least
<1>3. least \in Nat /\ least \notin S /\ least # 0  BY <1>2
<1>4. least - 1 \in Nat /\ least - 1 \notin T  BY <1>2, <1>3
<1>5. (least - 1) + 1 = least  BY <1>3
<1> QED  BY <1>3, <1>4, <1>5

\* What is in slot k of s: none beyond the end, so that pushing and popping None's
\* do not show.
Entry(s, k, none) == IF k \in DOMAIN s THEN s[k] ELSE none

\* The Some entries of s.
Somes(s, none) == {k \in DOMAIN s : s[k] # none}

\* s does not end in a None.
EndsInSome(s, none) == s # <<>> => s[Len(s)] # none

\* Draining keeps every entry, and what is left ends in a Some.
LEMMA DrainKeepsEntries ==
    ASSUME NEW S, NEW none, NEW s \in Seq(S), NEW t, t = Drain(s, Somes(s, none))
    PROVE  /\ t \in Seq(S)
           /\ Len(t) <= Len(s)
           /\ \A k \in Nat : Entry(t, k, none) = Entry(s, k, none)
           /\ EndsInSome(t, none)
           /\ s # <<>> /\ s[Len(s)] # none => Len(t) = Len(s)
<1> DEFINE some == Somes(s, none)
           m == Max({0} \cup some)
<1>1. some \in SUBSET (1..Len(s)) /\ Len(s) \in Nat /\ DOMAIN s = 1..Len(s)
  BY DEF Somes
<1>2. m \in 0..Len(s) /\ m \in {0} \cup some /\ \A k \in some : k <= m
  <2> HIDE DEF some
  <2> QED  BY <1>1, MaxOfIndices
<1>3. t = SubSeq(s, 1, m)  BY DEF Drain
<1>4. \A k \in some : k \in 1..Len(s) /\ s[k] # none  BY <1>1 DEF Somes
<1>5. \A k \in 1..Len(s) : k > m => s[k] = none
  <2> SUFFICES ASSUME NEW k \in 1..Len(s), k > m, s[k] # none  PROVE FALSE  OBVIOUS
  <2>1. k \in some  BY <1>1 DEF Somes
  <2>2. k <= m  BY <1>2, <2>1
  <2> QED  BY <1>2, <2>2
<1> HIDE DEF some, m
<1>6. /\ t \in Seq(S) /\ Len(t) = m /\ DOMAIN t = 1..m
      /\ \A k \in 1..m : t[k] = s[k]
  BY <1>1, <1>2, <1>3
<1>7. \A k \in Nat : Entry(t, k, none) = Entry(s, k, none)
  <2> SUFFICES ASSUME NEW k \in Nat  PROVE Entry(t, k, none) = Entry(s, k, none)  OBVIOUS
  <2>1. CASE k \in 1..m
    <3>1. k \in 1..Len(s)  BY <1>1, <1>2, <2>1
    <3> QED  BY <1>1, <1>6, <2>1, <3>1 DEF Entry
  <2>2. CASE k \in 1..Len(s) /\ k \notin 1..m
    <3>1. k > m  BY <1>1, <1>2, <2>2
    <3> QED  BY <1>1, <1>5, <1>6, <2>2, <3>1 DEF Entry
  <2>3. CASE k \notin 1..Len(s) /\ k \notin 1..m  BY <1>1, <1>6, <2>3 DEF Entry
  <2> QED  BY <2>1, <2>2, <2>3
<1>8. EndsInSome(t, none)
  <2> SUFFICES ASSUME t # <<>>  PROVE t[Len(t)] # none  BY DEF EndsInSome
  <2>1. m # 0  BY <1>6
  <2>2. m \in some /\ m \in 1..m  BY <1>2, <2>1
  <2> QED  BY <1>4, <1>6, <2>2
<1>9. s # <<>> /\ s[Len(s)] # none => Len(t) = Len(s)
  <2> SUFFICES ASSUME s # <<>>, s[Len(s)] # none  PROVE m = Len(s)  BY <1>6
  <2> DEFINE l == Len(s)
  <2>1. l \in 1..l /\ l \in Nat  BY <1>1
  <2>2. ~(l > m)  BY <1>5, <2>1
  <2>3. m \in 0..l  BY <1>2
  <2> HIDE DEF l
  <2>4. m = l  BY <2>1, <2>2, <2>3
  <2> QED  BY <2>4 DEF l
<1>10. Len(t) <= Len(s)  BY <1>1, <1>2, <1>6
<1> QED  BY <1>6, <1>7, <1>8, <1>9, <1>10

\* The first free slot is free, below every other, and at most one above the end.
LEMMA FirstFreeIsFree ==
    ASSUME NEW S, NEW none, NEW s \in Seq(S), NEW k, k = FirstFree(s, Somes(s, none))
    PROVE  /\ k \in 1..Len(s) + 1 /\ Entry(s, k, none) = none
           /\ \A j \in 1..Len(s) + 1 : Entry(s, j, none) = none => k <= j
<1> DEFINE T == (1..Len(s) + 1) \ Somes(s, none)
<1>1. Len(s) \in Nat /\ DOMAIN s = 1..Len(s)  OBVIOUS
<1>2. T \in SUBSET Nat /\ Len(s) + 1 \in T
  <2>1. Len(s) + 1 \notin Somes(s, none)  BY <1>1 DEF Somes
  <2> QED  BY <1>1, <2>1
<1> HIDE DEF T
<1>3. k \in T /\ \A j \in T : k <= j
  <2>1. Min(T) \in T /\ \A j \in T : Min(T) <= j  BY <1>2, MinOfIndices
  <2> QED  BY <2>1 DEF FirstFree, T
<1>4. \A j \in 1..Len(s) + 1 : j \in T <=> Entry(s, j, none) = none
  BY <1>1 DEF T, Somes, Entry
<1>5. T \subseteq 1..Len(s) + 1  BY DEF T
<1> QED  BY <1>3, <1>4, <1>5

\* Putting an entry at most one above the end.
LEMMA PutSetsEntry ==
    ASSUME NEW S, NEW none, NEW s \in Seq(S), NEW k \in 1..Len(s) + 1, NEW x \in S,
           NEW t, t = Put(s, k, x)
    PROVE  /\ t \in Seq(S)
           /\ Len(t) = IF k = Len(s) + 1 THEN k ELSE Len(s)
           /\ \A j \in Nat : Entry(t, j, none) = IF j = k THEN x ELSE Entry(s, j, none)
           /\ EndsInSome(s, none) /\ x # none => EndsInSome(t, none)
<1> DEFINE n == IF k = Len(s) + 1 THEN k ELSE Len(s)
<1>1. Len(s) \in Nat /\ DOMAIN s = 1..Len(s) /\ \A j \in 1..Len(s) : s[j] \in S  OBVIOUS
<1>2. 1..Len(s) \cup {k} = 1..n /\ n \in Nat /\ k \in 1..n  BY <1>1
<1>3. t = [j \in 1..n |-> IF j = k THEN x ELSE s[j]]  BY <1>2 DEF Put
<1>4. \A j \in 1..n : j # k => j \in 1..Len(s)  BY <1>1
<1>5. t \in Seq(S) /\ Len(t) = n /\ DOMAIN t = 1..n
  <2>1. \A j \in 1..n : (IF j = k THEN x ELSE s[j]) \in S  BY <1>1, <1>4
  <2> HIDE DEF n
  <2> QED  BY <1>2, <1>3, <2>1
<1>6. \A j \in Nat : Entry(t, j, none) = IF j = k THEN x ELSE Entry(s, j, none)
  <2>1. \A j \in Nat : j \in 1..n <=> j = k \/ j \in 1..Len(s)  BY <1>2
  <2> HIDE DEF n
  <2> QED  BY <1>1, <1>3, <1>5, <2>1 DEF Entry
<1>7. EndsInSome(s, none) /\ x # none => EndsInSome(t, none)
  <2> SUFFICES ASSUME EndsInSome(s, none), x # none  PROVE t[Len(t)] # none  BY DEF EndsInSome
  <2>1. n \in 1..n /\ t[n] = IF n = k THEN x ELSE s[n]
    <3>1. n \in 1..n  BY <1>2
    <3> HIDE DEF n
    <3> QED  BY <1>3, <3>1
  <2>2. CASE n = k  BY <1>5, <2>1, <2>2
  <2>3. CASE n # k
    <3>1. n = Len(s) /\ n # 0  BY <1>2, <2>1, <2>3
    <3>2. s # <<>>  BY <3>1
    <3> QED  BY <1>5, <2>1, <2>3, <3>1, <3>2 DEF EndsInSome
  <2> QED  BY <2>2, <2>3
<1> QED  BY <1>5, <1>6, <1>7
=============================================================================
