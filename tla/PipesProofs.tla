---------------------------- MODULE PipesProofs ----------------------------
(***************************************************************************)
(* Proofs about Pipes, for any number of processes, descriptors, nodes and *)
(* pipes: the counts of ends and nodes are exact, no index dangles, the    *)
(* tables stay in bounds, and no pipe outlives the processes.              *)
(*                                                                         *)
(* The tables of a call in progress (dup2 closes before it references) are *)
(* not the variables, so what the tables keep is stated of any tables F    *)
(* (fds), N (nodes) and ps (pipes), through the entries they have (Entry). *)
(***************************************************************************)
EXTENDS Pipes, SlotsProofs, TLAPS, FiniteSetTheorems, SequenceTheorems

(***************************************************************************)
(* What the tables keep                                                    *)
(***************************************************************************)

\* The descriptors of end e of pipe i, over all processes, and those of node n.
Mapping(e, i) == [kind |-> e, index |-> i]
HoldersIn(F, i, e) ==
    {h \in Procs \X (1..MaxFds) : Entry(F[h[1]], h[2], NoFd) = Mapping(e, i)}
NodeFds(f, n) == {k \in 1..MaxFds : Entry(f, k, NoFd) = Regular(n)}

\* Types, lengths and last entries.
Shape(F, N, ps) ==
    /\ F \in [Procs -> Seq(FdMapping)] /\ N \in [Procs -> Seq(Nat)] /\ ps \in Seq(ProcessPipe)
    /\ \A p \in Procs : Len(F[p]) <= MaxFds /\ EndsInSome(F[p], NoFd) /\ EndsInSome(N[p], 0)
    /\ EndsInSome(ps, NoPipe)

\* Counts are exact also for indices that are beyond the end of a table, where they
\* are 0: this is why nothing dangles.
EndsCounted(F, ps) ==
    \A i \in Nat, e \in End : Entry(ps, i, NoPipe).ends[e] = Cardinality(HoldersIn(F, i, e))
NodesCounted(F, N) ==
    \A p \in Procs, n \in Nat : Entry(N[p], n, 0) = Cardinality(NodeFds(F[p], n))

\* A pipe without ends is a None.
Held(ps) == \A i \in DOMAIN ps : (\A e \in End : ps[i].ends[e] = 0) => ps[i] = NoPipe

Tables(F, N, ps) ==
    Shape(F, N, ps) /\ EndsCounted(F, ps) /\ NodesCounted(F, N) /\ Held(ps)

(***************************************************************************)
(* Counting                                                                *)
(***************************************************************************)

\* How much a is a b.
One(a, b) == IF a = b THEN 1 ELSE 0

\* x is taken out of a finite set, or put in, or left alone.
LEMMA SetChange ==
    ASSUME NEW S, IsFiniteSet(S), NEW x, NEW b \in BOOLEAN
    PROVE  LET T == (S \ {x}) \cup (IF b THEN {x} ELSE {})
           IN  /\ Cardinality(T) = Cardinality(S) - (IF x \in S THEN 1 ELSE 0) + (IF b THEN 1 ELSE 0)
               /\ Cardinality(S) \in Nat
               /\ x \in S => Cardinality(S) >= 1
<1> DEFINE R == S \ {x}
<1>1. /\ IsFiniteSet(R) /\ Cardinality(R) = IF x \in S THEN Cardinality(S) - 1 ELSE Cardinality(S)
      /\ Cardinality(S) \in Nat
  BY FS_RemoveElement, FS_CardinalityType
<1>2. x \in S => Cardinality(S) >= 1
  <2> SUFFICES ASSUME x \in S  PROVE Cardinality(S) # 0  BY <1>1
  <2> QED  BY FS_EmptySet
<1>3. Cardinality(R \cup {x}) = Cardinality(R) + 1
  <2>1. x \notin R  OBVIOUS
  <2> HIDE DEF R
  <2> QED  BY <1>1, <2>1, FS_AddElement
<1>4. CASE b
  <2>1. R \cup (IF b THEN {x} ELSE {}) = R \cup {x}  BY <1>4
  <2> HIDE DEF R
  <2>2. Cardinality(R \cup (IF b THEN {x} ELSE {})) = Cardinality(S) - (IF x \in S THEN 1 ELSE 0) + (IF b THEN 1 ELSE 0)
    BY <1>1, <1>3, <1>4, <2>1
  <2> QED  BY <1>1, <1>2, <2>2 DEF R
<1>5. CASE ~b
  <2>1. R \cup (IF b THEN {x} ELSE {}) = R  BY <1>5
  <2> HIDE DEF R
  <2>2. Cardinality(R \cup (IF b THEN {x} ELSE {})) = Cardinality(S) - (IF x \in S THEN 1 ELSE 0) + (IF b THEN 1 ELSE 0)
    BY <1>1, <1>5, <2>1
  <2> QED  BY <1>1, <1>2, <2>2 DEF R
<1> QED  BY <1>4, <1>5

LEMMA HoldersFinite ==
    ASSUME NEW F, NEW i, NEW e
    PROVE  IsFiniteSet(HoldersIn(F, i, e)) /\ Cardinality(HoldersIn(F, i, e)) \in Nat
<1>1. IsFiniteSet(1..MaxFds)  BY PipesAssumption, FS_Interval
<1>2. IsFiniteSet(Procs \X (1..MaxFds))  BY <1>1, PipesAssumption, FS_Product
<1>3. HoldersIn(F, i, e) \subseteq Procs \X (1..MaxFds)  BY DEF HoldersIn
<1> QED  BY <1>2, <1>3, FS_Subset, FS_CardinalityType

LEMMA NodeFdsFinite ==
    ASSUME NEW f, NEW n
    PROVE  IsFiniteSet(NodeFds(f, n)) /\ Cardinality(NodeFds(f, n)) \in Nat
<1>1. IsFiniteSet(1..MaxFds)  BY PipesAssumption, FS_Interval
<1>2. NodeFds(f, n) \subseteq 1..MaxFds  BY DEF NodeFds
<1> QED  BY <1>1, <1>2, FS_Subset, FS_CardinalityType

\* Descriptor fd of f becomes m; the counts of nodes and ends follow when a descriptor
\* that was o becomes m.
Becomes(f, g, fd, m) ==
    \A k \in Nat : Entry(g, k, NoFd) = IF k = fd THEN m ELSE Entry(f, k, NoFd)
NodesFollow(n, n1, o, m) ==
    \A k \in Nat : Entry(n1, k, 0) = Entry(n, k, 0) - One(o, Regular(k)) + One(m, Regular(k))
PipesFollow(ps, ps1, o, m) ==
    \A i \in Nat, e \in End :
        Entry(ps1, i, NoPipe).ends[e] =
            Entry(ps, i, NoPipe).ends[e] - One(o, Mapping(e, i)) + One(m, Mapping(e, i))

\* One descriptor of one process changes: what that does to the count of an end.
LEMMA HoldersChange ==
    ASSUME NEW F, NEW p \in Procs, NEW fd \in 1..MaxFds, NEW m,
           NEW G, \A q \in Procs : q # p => G[q] = F[q], Becomes(F[p], G[p], fd, m),
           NEW i, NEW e
    PROVE  Cardinality(HoldersIn(G, i, e)) = Cardinality(HoldersIn(F, i, e))
               - One(Entry(F[p], fd, NoFd), Mapping(e, i)) + One(m, Mapping(e, i))
<1> DEFINE o == Entry(F[p], fd, NoFd)
           S == HoldersIn(F, i, e)
           T == HoldersIn(G, i, e)
           b == m = Mapping(e, i)
           x == <<p, fd>>
<1>0. fd \in Nat /\ 1..MaxFds \subseteq Nat  BY PipesAssumption
<1>1. x \in S <=> o = Mapping(e, i)  BY DEF HoldersIn
<1>2. ASSUME NEW q \in Procs, NEW k \in 1..MaxFds
      PROVE  <<q, k>> \in T <=> (<<q, k>> \in S /\ <<q, k>> # x) \/ (b /\ <<q, k>> = x)
  <2>1. <<q, k>> \in T <=> Entry(G[q], k, NoFd) = Mapping(e, i)  BY DEF HoldersIn
  <2>2. <<q, k>> \in S <=> Entry(F[q], k, NoFd) = Mapping(e, i)  BY DEF HoldersIn
  <2>3. CASE q # p  BY <2>1, <2>2, <2>3
  <2>4. CASE q = p
    <3>1. Entry(G[q], k, NoFd) = IF k = fd THEN m ELSE Entry(F[p], k, NoFd)
      BY <1>0, <2>4 DEF Becomes
    <3> QED  BY <2>1, <2>2, <2>4, <3>1
  <2> QED  BY <2>3, <2>4
<1>3. T \subseteq Procs \X (1..MaxFds) /\ S \subseteq Procs \X (1..MaxFds)
      /\ x \in Procs \X (1..MaxFds)
  BY DEF HoldersIn
<1>4. b \in BOOLEAN /\ IsFiniteSet(S)  BY HoldersFinite
<1> HIDE DEF S, T, b, x, o
<1>5. T = (S \ {x}) \cup (IF b THEN {x} ELSE {})  BY <1>2, <1>3
<1>6. Cardinality(T) = Cardinality(S) - (IF x \in S THEN 1 ELSE 0) + (IF b THEN 1 ELSE 0)
  BY <1>4, <1>5, SetChange
<1> QED  BY <1>1, <1>6 DEF S, T, b, o, One

\* And to the count of a node.
LEMMA NodeFdsChange ==
    ASSUME NEW f, NEW fd \in 1..MaxFds, NEW g, NEW m, Becomes(f, g, fd, m), NEW n
    PROVE  Cardinality(NodeFds(g, n)) = Cardinality(NodeFds(f, n))
               - One(Entry(f, fd, NoFd), Regular(n)) + One(m, Regular(n))
<1> DEFINE o == Entry(f, fd, NoFd)
           S == NodeFds(f, n)
           T == NodeFds(g, n)
           b == m = Regular(n)
<1>0. fd \in Nat /\ 1..MaxFds \subseteq Nat  BY PipesAssumption
<1>1. fd \in S <=> o = Regular(n)  BY DEF NodeFds
<1>2. T = (S \ {fd}) \cup (IF b THEN {fd} ELSE {})  BY <1>0 DEF NodeFds, Becomes
<1>3. b \in BOOLEAN /\ IsFiniteSet(S)  BY NodeFdsFinite
<1> HIDE DEF S, T, b, o
<1>4. Cardinality(T) = Cardinality(S) - (IF fd \in S THEN 1 ELSE 0) + (IF b THEN 1 ELSE 0)
  BY <1>2, <1>3, SetChange
<1> QED  BY <1>1, <1>4 DEF S, T, b, o, One

\* What a descriptor stands for is counted.
LEMMA Counted ==
    ASSUME NEW F, NEW p \in Procs, NEW fd \in 1..MaxFds, NEW e, NEW i
    PROVE  /\ Entry(F[p], fd, NoFd) = Mapping(e, i) => Cardinality(HoldersIn(F, i, e)) >= 1
           /\ Entry(F[p], fd, NoFd) = Regular(i) => Cardinality(NodeFds(F[p], i)) >= 1
<1>1. Entry(F[p], fd, NoFd) = Mapping(e, i) => <<p, fd>> \in HoldersIn(F, i, e)
  BY DEF HoldersIn
<1>2. Entry(F[p], fd, NoFd) = Regular(i) => fd \in NodeFds(F[p], i)  BY DEF NodeFds
<1>3. \A S : IsFiniteSet(S) /\ S # {} => Cardinality(S) # 0  BY FS_EmptySet
<1> DEFINE S == HoldersIn(F, i, e)
           T == NodeFds(F[p], i)
<1>4. IsFiniteSet(S) /\ IsFiniteSet(T) /\ Cardinality(S) \in Nat /\ Cardinality(T) \in Nat
  BY HoldersFinite, NodeFdsFinite
<1> HIDE DEF S, T
<1>5. (S # {} => Cardinality(S) >= 1) /\ (T # {} => Cardinality(T) >= 1)  BY <1>3, <1>4
<1> QED  BY <1>1, <1>2, <1>5 DEF S, T

\* Descriptor fd of process p changes to m, and the counts with it.
LEMMA TablesChange ==
    ASSUME NEW F, NEW N, NEW ps, Tables(F, N, ps), NEW p \in Procs, NEW fd \in 1..MaxFds, NEW m,
           NEW g \in Seq(FdMapping), Len(g) <= MaxFds, EndsInSome(g, NoFd), Becomes(F[p], g, fd, m),
           NEW n1 \in Seq(Nat), EndsInSome(n1, 0),
           NodesFollow(N[p], n1, Entry(F[p], fd, NoFd), m),
           NEW ps1 \in Seq(ProcessPipe), EndsInSome(ps1, NoPipe), Held(ps1),
           PipesFollow(ps, ps1, Entry(F[p], fd, NoFd), m)
    PROVE  Tables([F EXCEPT ![p] = g], [N EXCEPT ![p] = n1], ps1)
<1> DEFINE G == [F EXCEPT ![p] = g]
           M == [N EXCEPT ![p] = n1]
<1>1. /\ F \in [Procs -> Seq(FdMapping)] /\ N \in [Procs -> Seq(Nat)]
      /\ \A q \in Procs : Len(F[q]) <= MaxFds /\ EndsInSome(F[q], NoFd) /\ EndsInSome(N[q], 0)
      /\ EndsCounted(F, ps) /\ NodesCounted(F, N)
  BY DEF Tables, Shape
<1>2. /\ G \in [Procs -> Seq(FdMapping)] /\ M \in [Procs -> Seq(Nat)]
      /\ G[p] = g /\ M[p] = n1
      /\ \A q \in Procs : q # p => G[q] = F[q] /\ M[q] = N[q]
  BY <1>1
<1> HIDE DEF G, M
<1>3. Shape(G, M, ps1)  BY <1>1, <1>2 DEF Shape
<1>4. EndsCounted(G, ps1)
  <2> SUFFICES ASSUME NEW i \in Nat, NEW e \in End
               PROVE  Entry(ps1, i, NoPipe).ends[e] = Cardinality(HoldersIn(G, i, e))
    BY DEF EndsCounted
  <2>1. Becomes(F[p], G[p], fd, m) /\ \A q \in Procs : q # p => G[q] = F[q]  BY <1>2
  <2>2. Cardinality(HoldersIn(G, i, e)) = Cardinality(HoldersIn(F, i, e))
           - One(Entry(F[p], fd, NoFd), Mapping(e, i)) + One(m, Mapping(e, i))
    BY <2>1, HoldersChange
  <2> QED  BY <1>1, <2>2 DEF EndsCounted, PipesFollow
<1>5. NodesCounted(G, M)
  <2> SUFFICES ASSUME NEW q \in Procs, NEW n \in Nat
               PROVE  Entry(M[q], n, 0) = Cardinality(NodeFds(G[q], n))
    BY DEF NodesCounted
  <2>1. CASE q = p
    <3>1. Cardinality(NodeFds(g, n)) = Cardinality(NodeFds(F[p], n))
             - One(Entry(F[p], fd, NoFd), Regular(n)) + One(m, Regular(n))
      BY NodeFdsChange
    <3> QED  BY <1>1, <1>2, <2>1, <3>1 DEF NodesCounted, NodesFollow
  <2>2. CASE q # p  BY <1>1, <1>2, <2>2 DEF NodesCounted
  <2> QED  BY <2>1, <2>2
<1> QED  BY <1>3, <1>4, <1>5 DEF Tables, G, M

(***************************************************************************)
(* What each table does                                                    *)
(***************************************************************************)

\* No mapping that counts is a None.
LEMMA NoFdCountsNothing ==
    /\ NoFd \in FdMapping /\ \A k : One(NoFd, Regular(k)) = 0
    /\ \A e \in End, i \in Nat : One(NoFd, Mapping(e, i)) = 0
  BY DEF NoFd, FdMapping, One, Regular, Mapping, End

\* close, fd_mappings.
LEMMA ClosedFdsEntries ==
    ASSUME NEW f \in Seq(FdMapping), NEW fd \in SomeFds(f)
    PROVE  /\ ClosedFds(f, fd) \in Seq(FdMapping) /\ Len(ClosedFds(f, fd)) <= Len(f)
           /\ EndsInSome(ClosedFds(f, fd), NoFd) /\ Becomes(f, ClosedFds(f, fd), fd, NoFd)
           /\ EndsInSome(f, NoFd) /\ fd < Len(f) => Len(ClosedFds(f, fd)) = Len(f)
<1> DEFINE l == [f EXCEPT ![fd] = NoFd]
           g == ClosedFds(f, fd)
<1>1. fd \in DOMAIN f /\ NoFd \in FdMapping  BY DEF SomeFds, NoFd, FdMapping
<1>2. /\ l \in Seq(FdMapping) /\ Len(l) = Len(f) /\ DOMAIN l = DOMAIN f
      /\ \A j \in DOMAIN f : l[j] = IF j = fd THEN NoFd ELSE f[j]
  BY <1>1, ExceptSeq
<1>3. \A k \in Nat : Entry(l, k, NoFd) = IF k = fd THEN NoFd ELSE Entry(f, k, NoFd)
  BY <1>1 DEF Entry
<1>4. g = Drain(l, SomeFds(f) \ {fd})  BY DEF ClosedFds
<1> HIDE DEF l, g
<1>5. l \in Seq(FdMapping) /\ g = Drain(l, Somes(l, NoFd))
  <2>1. SomeFds(f) \ {fd} = Somes(l, NoFd)  BY <1>2 DEF SomeFds, Somes
  <2> QED  BY <1>2, <1>4, <2>1
<1>6. /\ g \in Seq(FdMapping) /\ Len(g) <= Len(l) /\ EndsInSome(g, NoFd)
      /\ \A k \in Nat : Entry(g, k, NoFd) = Entry(l, k, NoFd)
      /\ l # <<>> /\ l[Len(l)] # NoFd => Len(g) = Len(l)
  BY <1>5, DrainKeepsEntries
<1>7. EndsInSome(f, NoFd) /\ fd < Len(f) => Len(g) = Len(f)
  <2> SUFFICES ASSUME EndsInSome(f, NoFd), fd < Len(f)  PROVE l # <<>> /\ l[Len(l)] # NoFd
    BY <1>2, <1>6
  <2>1. DOMAIN f = 1..Len(f) /\ Len(f) \in Nat  OBVIOUS
  <2>2. f # <<>> /\ Len(f) \in DOMAIN f /\ Len(f) # fd  BY <1>1, <2>1
  <2>3. l # <<>>  BY <1>1, <1>2
  <2> QED  BY <1>2, <2>2, <2>3 DEF EndsInSome
<1>8. Becomes(f, g, fd, NoFd)  BY <1>3, <1>6 DEF Becomes
<1> QED  BY <1>2, <1>6, <1>7, <1>8 DEF g

\* close, open_nodes.
LEMMA ClosedNodesEntries ==
    ASSUME NEW n \in Seq(Nat), NEW m \in FdMapping,
           m.kind = "REGULAR" => m.index \in DOMAIN n /\ n[m.index] >= 1
    PROVE  /\ ClosedNodes(n, m) \in Seq(Nat) /\ EndsInSome(ClosedNodes(n, m), 0)
           /\ NodesFollow(n, ClosedNodes(n, m), m, NoFd)
<1> DEFINE l == IF m.kind = "REGULAR" THEN [n EXCEPT ![m.index] = @ - 1] ELSE n
           c == ClosedNodes(n, m)
<1>1. c = Drain(l, Somes(l, 0))  BY DEF ClosedNodes, SomeNodes, Somes
<1>2. l \in Seq(Nat) /\ \A k \in Nat : Entry(l, k, 0) = Entry(n, k, 0) - One(m, Regular(k))
  <2>0. \A k \in Nat : Entry(n, k, 0) \in Nat  BY DEF Entry
  <2>1. CASE m.kind = "REGULAR"
    <3> DEFINE j == m.index
               x == n[j] - 1
    <3>1. x \in Nat /\ j \in DOMAIN n /\ l = [n EXCEPT ![j] = x] /\ n[j] = x + 1  BY <2>1
    <3>2. \A k \in Nat : m = Regular(k) <=> k = j  BY <2>1 DEF Regular, FdMapping
    <3> HIDE DEF x, l, j
    <3>3. l \in Seq(Nat)  BY <3>1, ExceptSeq
    <3>4. \A k \in Nat : Entry(l, k, 0) = IF k = j THEN x ELSE Entry(n, k, 0)
      BY <3>1 DEF Entry
    <3>5. Entry(n, j, 0) = x + 1  BY <3>1 DEF Entry
    <3>6. ASSUME NEW k \in Nat  PROVE Entry(l, k, 0) = Entry(n, k, 0) - One(m, Regular(k))
      <4>1. CASE k = j
        <5>1. Entry(l, k, 0) = x /\ Entry(n, k, 0) = x + 1 /\ One(m, Regular(k)) = 1
          BY <3>2, <3>4, <3>5, <4>1 DEF One
        <5> QED  BY <3>1, <5>1
      <4>2. CASE k # j
        <5>1. Entry(l, k, 0) = Entry(n, k, 0) /\ One(m, Regular(k)) = 0
          BY <3>2, <3>4, <4>2 DEF One
        <5> QED  BY <2>0, <5>1
      <4> QED  BY <4>1, <4>2
    <3> QED  BY <3>3, <3>6
  <2>2. CASE m.kind # "REGULAR"
    <3>1. \A k \in Nat : m # Regular(k)  BY <2>2 DEF Regular
    <3> QED  BY <2>0, <2>2, <3>1 DEF One
  <2> QED  BY <2>1, <2>2
<1> HIDE DEF l, c
<1>3. l \in Seq(Nat)  BY <1>2
<1>4. /\ c \in Seq(Nat) /\ EndsInSome(c, 0)
      /\ \A k \in Nat : Entry(c, k, 0) = Entry(l, k, 0)
  BY <1>1, <1>3, DrainKeepsEntries
<1>5. \A k \in Nat : Entry(n, k, 0) - One(m, Regular(k)) + 0 = Entry(n, k, 0) - One(m, Regular(k))
  BY DEF Entry, One
<1>6. NodesFollow(n, c, m, NoFd)  BY <1>2, <1>4, <1>5, NoFdCountsNothing DEF NodesFollow
<1> QED  BY <1>4, <1>6 DEF c

LEMMA ReplacedTrimmed ==
    ASSUME NEW S, NEW none, NEW s \in Seq(S), EndsInSome(s, none), NEW k \in DOMAIN s, NEW x \in S,
           x # none
    PROVE  EndsInSome([s EXCEPT ![k] = x], none)
<1> DEFINE t == [s EXCEPT ![k] = x]
<1>1. /\ Len(t) = Len(s) /\ DOMAIN t = DOMAIN s
      /\ \A j \in DOMAIN s : t[j] = IF j = k THEN x ELSE s[j]
  BY ExceptSeq
<1>2. DOMAIN s = 1..Len(s) /\ Len(s) \in Nat  OBVIOUS
<1> HIDE DEF t
<1>3. s # <<>> /\ Len(s) \in DOMAIN s  BY <1>2
<1>4. EndsInSome(t, none)  BY <1>1, <1>3 DEF EndsInSome
<1> QED  BY <1>4 DEF t

LEMMA PipeEntry ==
    ASSUME NEW ps \in Seq(ProcessPipe), NEW i, NEW e \in End
    PROVE  Entry(ps, i, NoPipe).ends[e] \in Nat
<1>1. NoPipe \in ProcessPipe  BY DEF NoPipe, ProcessPipe
<1>2. Entry(ps, i, NoPipe) \in ProcessPipe  BY <1>1 DEF Entry
<1> QED  BY <1>2 DEF ProcessPipe

\* One pipe is replaced by one whose ends are x, for a change of the mapping o to m.
LEMMA ReplacedPipe ==
    ASSUME NEW ps \in Seq(ProcessPipe), Held(ps), NEW j \in DOMAIN ps,
           NEW x \in ProcessPipe, (\A e \in End : x.ends[e] = 0) => x = NoPipe,
           NEW o, NEW m, \A e \in End : /\ x.ends[e] = ps[j].ends[e] - One(o, Mapping(e, j))
                                                                    + One(m, Mapping(e, j))
                                       /\ \A i \in Nat : i # j => /\ o # Mapping(e, i)
                                                                 /\ m # Mapping(e, i)
    PROVE  /\ [ps EXCEPT ![j] = x] \in Seq(ProcessPipe) /\ Held([ps EXCEPT ![j] = x])
           /\ PipesFollow(ps, [ps EXCEPT ![j] = x], o, m)
<1> DEFINE c == [ps EXCEPT ![j] = x]
<1>1. /\ c \in Seq(ProcessPipe) /\ Len(c) = Len(ps) /\ DOMAIN c = DOMAIN ps
      /\ \A i \in DOMAIN ps : c[i] = IF i = j THEN x ELSE ps[i]
  BY ExceptSeq
<1>2. \A i \in Nat : Entry(c, i, NoPipe) = IF i = j THEN x ELSE Entry(ps, i, NoPipe)
  BY DEF Entry
<1>3. DOMAIN ps = 1..Len(ps) /\ Len(ps) \in Nat /\ Entry(ps, j, NoPipe) = ps[j]  BY DEF Entry
<1> HIDE DEF c
<1>4. Held(c)  BY <1>1 DEF Held
<1>5. PipesFollow(ps, c, o, m)
  <2> SUFFICES ASSUME NEW i \in Nat, NEW e \in End
               PROVE  Entry(c, i, NoPipe).ends[e] = Entry(ps, i, NoPipe).ends[e]
                          - One(o, Mapping(e, i)) + One(m, Mapping(e, i))
    BY DEF PipesFollow
  <2>1. CASE i = j
    <3>1. x.ends[e] = ps[j].ends[e] - One(o, Mapping(e, j)) + One(m, Mapping(e, j))  OBVIOUS
    <3>2. Entry(c, j, NoPipe).ends[e] = Entry(ps, j, NoPipe).ends[e]
                                          - One(o, Mapping(e, j)) + One(m, Mapping(e, j))
      BY <1>2, <1>3, <2>1, <3>1
    <3> QED  BY <2>1, <3>2
  <2>2. CASE i # j
    <3>1. Entry(c, i, NoPipe) = Entry(ps, i, NoPipe)  BY <1>2, <2>2
    <3>2. One(o, Mapping(e, i)) = 0 /\ One(m, Mapping(e, i)) = 0  BY <2>2 DEF One
    <3>3. Entry(ps, i, NoPipe).ends[e] \in Nat  BY PipeEntry
    <3> QED  BY <3>1, <3>2, <3>3
  <2> QED  BY <2>1, <2>2
<1> QED  BY <1>1, <1>4, <1>5 DEF c

\* Nothing changes for a mapping that is not an end of a pipe.
LEMMA OtherMapping ==
    ASSUME NEW ps \in Seq(ProcessPipe), NEW m, m.kind \notin End
    PROVE  PipesFollow(ps, ps, m, NoFd) /\ PipesFollow(ps, ps, NoFd, m)
<1>1. \A i \in Nat, e \in End : One(m, Mapping(e, i)) = 0  BY DEF One, Mapping
<1>2. \A i \in Nat, e \in End : Entry(ps, i, NoPipe).ends[e] \in Nat
  BY PipeEntry
<1>3. \A z \in Nat : z = z - 0 + 0  OBVIOUS
<1> QED  BY <1>1, <1>2, <1>3, NoFdCountsNothing DEF PipesFollow

\* close, PIPES.
LEMMA ClosedPipesEntries ==
    ASSUME NEW ps \in Seq(ProcessPipe), EndsInSome(ps, NoPipe), Held(ps), NEW m \in FdMapping,
           m.kind \in End => m.index \in DOMAIN ps /\ ps[m.index].ends[m.kind] >= 1
    PROVE  /\ ClosedPipes(ps, m) \in Seq(ProcessPipe) /\ EndsInSome(ClosedPipes(ps, m), NoPipe)
           /\ Held(ClosedPipes(ps, m)) /\ PipesFollow(ps, ClosedPipes(ps, m), m, NoFd)
<1> DEFINE c == ClosedPipes(ps, m)
           j == m.index
           d == m.kind
           ends == ps[j].ends
<1>0. NoPipe \in ProcessPipe /\ \A e \in End : NoPipe.ends[e] = 0  BY DEF NoPipe, ProcessPipe
<1>1. CASE d \notin End
  <2>1. c = ps  BY <1>1 DEF ClosedPipes
  <2> QED  BY <1>1, <2>1, OtherMapping
<1>2. CASE d \in End
  <2>1. /\ j \in DOMAIN ps /\ ends[d] >= 1 /\ ps[j] \in ProcessPipe
        /\ ends \in [End -> Nat] /\ \A e \in End : ends[e] \in Nat
    <3>1. j \in DOMAIN ps /\ ends[d] >= 1 /\ ps[j] \in ProcessPipe  BY <1>2
    <3> QED  BY <3>1 DEF ProcessPipe
  <2>a. \A i \in Nat, e \in End : m = Mapping(e, i) <=> d = e /\ j = i
    BY DEF Mapping, FdMapping
  <2>b. \A i \in Nat, e \in End : NoFd # Mapping(e, i)  BY DEF Mapping, NoFd, End
  <2>2. /\ \A e \in End : m = Mapping(e, j) <=> e = d
        /\ \A e \in End : \A i \in Nat : i # j => m # Mapping(e, i) /\ NoFd # Mapping(e, i)
    <3>1. j \in Nat  BY DEF FdMapping
    <3> QED  BY <2>a, <2>b, <3>1
  <2>3. \A e \in End : /\ One(m, Mapping(e, j)) = IF e = d THEN 1 ELSE 0
                       /\ One(NoFd, Mapping(e, j)) = 0
    BY <2>2 DEF One, NoFd, Mapping, End
  <2>4. CASE ends[d] = 1 /\ \A e \in End \ {d} : ends[e] = 0
    <3> DEFINE l == [ps EXCEPT ![j] = NoPipe]
    <3>1. c = Drain(l, SomePipes(ps) \ {j})  BY <1>2, <2>4 DEF ClosedPipes
    <3>2. DOMAIN l = DOMAIN ps /\ \A i \in DOMAIN ps : l[i] = IF i = j THEN NoPipe ELSE ps[i]
      BY <2>1
    <3> HIDE DEF c, j, d, ends
    <3>3. \A e \in End : NoPipe.ends[e] = ends[e] - One(m, Mapping(e, j)) + One(NoFd, Mapping(e, j))
      BY <1>0, <2>1, <2>3, <2>4
    <3>4. l \in Seq(ProcessPipe) /\ Held(l) /\ PipesFollow(ps, l, m, NoFd)
      BY <1>0, <2>1, <2>2, <3>3, ReplacedPipe DEF ends
    <3> HIDE DEF l
    <3>5. l \in Seq(ProcessPipe) /\ c = Drain(l, Somes(l, NoPipe))
      <4>1. SomePipes(ps) \ {j} = Somes(l, NoPipe)  BY <3>2 DEF SomePipes, Somes
      <4> QED  BY <3>1, <3>4, <4>1
    <3>6. /\ c \in Seq(ProcessPipe) /\ EndsInSome(c, NoPipe)
          /\ \A i \in Nat : Entry(c, i, NoPipe) = Entry(l, i, NoPipe)
      BY <3>5, DrainKeepsEntries
    <3>7. Held(c)
      <4> SUFFICES ASSUME NEW i \in DOMAIN c, \A e \in End : c[i].ends[e] = 0
                   PROVE  c[i] = NoPipe
        BY DEF Held
      <4>1. i \in Nat /\ c[i] = Entry(c, i, NoPipe)  BY <3>6 DEF Entry
      <4>2. c[i] = Entry(l, i, NoPipe)  BY <3>6, <4>1
      <4> QED  BY <3>4, <4>2 DEF Entry, Held
    <3>8. PipesFollow(ps, c, m, NoFd)  BY <3>4, <3>6 DEF PipesFollow
    <3> QED  BY <3>6, <3>7, <3>8 DEF c
  <2>5. CASE ~(ends[d] = 1 /\ \A e \in End \ {d} : ends[e] = 0)
    <3> DEFINE y == [ends EXCEPT ![d] = ends[d] - 1]
               x == [ps[j] EXCEPT !.ends = y]
    <3>1. c = [ps EXCEPT ![j] = x]
      <4>1. c = [ps EXCEPT ![j].ends[d] = IF @ >= 1 THEN @ - 1 ELSE @]
        BY <1>2, <2>5 DEF ClosedPipes
      <4> QED  BY <2>1, <4>1
    <3>2. y \in [End -> Nat] /\ \A e \in End : y[e] = IF e = d THEN ends[e] - 1 ELSE ends[e]
      BY <1>2, <2>1
    <3>3. x \in ProcessPipe /\ x.ends = y
      <4> HIDE DEF y
      <4> QED  BY <2>1, <3>2 DEF ProcessPipe
    <3> HIDE DEF x, y, c, j, d, ends
    <3>4. \E e \in End : x.ends[e] # 0
      <4>1. CASE ends[d] = 1
        <5>1. PICK e \in End \ {d} : ends[e] # 0  BY <2>5, <4>1
        <5> QED  BY <3>2, <3>3, <5>1
      <4>2. CASE ends[d] # 1
        <5>1. ends[d] \in Nat  BY <1>2, <2>1
        <5> QED  BY <1>2, <2>1, <3>2, <3>3, <4>2, <5>1
      <4> QED  BY <4>1, <4>2
    <3>5. x # NoPipe  BY <1>0, <3>4
    <3>6. \A e \in End : x.ends[e] = ends[e] - One(m, Mapping(e, j)) + One(NoFd, Mapping(e, j))
      BY <2>1, <2>3, <3>2, <3>3
    <3>7. /\ [ps EXCEPT ![j] = x] \in Seq(ProcessPipe) /\ Held([ps EXCEPT ![j] = x])
          /\ PipesFollow(ps, [ps EXCEPT ![j] = x], m, NoFd) /\ EndsInSome([ps EXCEPT ![j] = x], NoPipe)
      <4>1. x \in ProcessPipe /\ ((\A e \in End : x.ends[e] = 0) => x = NoPipe) /\ j \in DOMAIN ps
        BY <2>1, <3>3, <3>4
      <4>2. \A e \in End : /\ x.ends[e] = ps[j].ends[e] - One(m, Mapping(e, j))
                                                        + One(NoFd, Mapping(e, j))
                           /\ \A i \in Nat : i # j => m # Mapping(e, i) /\ NoFd # Mapping(e, i)
        BY <2>2, <3>6 DEF ends
      <4>3. /\ [ps EXCEPT ![j] = x] \in Seq(ProcessPipe) /\ Held([ps EXCEPT ![j] = x])
            /\ PipesFollow(ps, [ps EXCEPT ![j] = x], m, NoFd)
        BY <4>1, <4>2, ReplacedPipe
      <4>4. EndsInSome([ps EXCEPT ![j] = x], NoPipe)  BY <3>5, <4>1, ReplacedTrimmed
      <4> QED  BY <4>3, <4>4
    <3> QED  BY <3>1, <3>7 DEF c
  <2> QED  BY <2>4, <2>5
<1> QED  BY <1>1, <1>2

\* dup and dup2, PIPES: one reference more.
LEMMA ReferencedPipesEntries ==
    ASSUME NEW ps \in Seq(ProcessPipe), EndsInSome(ps, NoPipe), Held(ps), NEW m \in FdMapping,
           m.kind \in End => m.index \in DOMAIN ps
    PROVE  /\ ReferencedPipes(ps, m) \in Seq(ProcessPipe) /\ EndsInSome(ReferencedPipes(ps, m), NoPipe)
           /\ Held(ReferencedPipes(ps, m)) /\ PipesFollow(ps, ReferencedPipes(ps, m), NoFd, m)
<1> DEFINE c == ReferencedPipes(ps, m)
           j == m.index
           d == m.kind
           ends == ps[j].ends
           y == [ends EXCEPT ![d] = ends[d] + 1]
           x == [ps[j] EXCEPT !.ends = y]
<1>0. \A e \in End : NoPipe.ends[e] = 0  BY DEF NoPipe
<1>1. CASE d \notin End
  <2>1. c = ps  BY <1>1 DEF ReferencedPipes
  <2> QED  BY <1>1, <2>1, OtherMapping
<1>2. CASE d \in End
  <2>1. /\ j \in DOMAIN ps /\ ps[j] \in ProcessPipe
        /\ ends \in [End -> Nat] /\ \A e \in End : ends[e] \in Nat
    <3>1. j \in DOMAIN ps /\ ps[j] \in ProcessPipe  BY <1>2
    <3> QED  BY <3>1 DEF ProcessPipe
  <2>a. \A i \in Nat, e \in End : m = Mapping(e, i) <=> d = e /\ j = i
    BY DEF Mapping, FdMapping
  <2>b. \A i \in Nat, e \in End : NoFd # Mapping(e, i)  BY DEF Mapping, NoFd, End
  <2>2. /\ \A e \in End : m = Mapping(e, j) <=> e = d
        /\ \A e \in End : \A i \in Nat : i # j => m # Mapping(e, i) /\ NoFd # Mapping(e, i)
    <3>1. j \in Nat  BY DEF FdMapping
    <3> QED  BY <2>a, <2>b, <3>1
  <2>3. \A e \in End : /\ One(m, Mapping(e, j)) = IF e = d THEN 1 ELSE 0
                       /\ One(NoFd, Mapping(e, j)) = 0
    BY <2>2 DEF One, NoFd, Mapping, End
  <2>4. c = [ps EXCEPT ![j] = x]
    <3>1. c = [ps EXCEPT ![j].ends[d] = @ + 1]  BY <1>2 DEF ReferencedPipes
    <3> QED  BY <2>1, <3>1
  <2>5. y \in [End -> Nat] /\ \A e \in End : y[e] = IF e = d THEN ends[e] + 1 ELSE ends[e]
    BY <1>2, <2>1
  <2>6. x \in ProcessPipe /\ x.ends = y
    <3> HIDE DEF y
    <3> QED  BY <2>1, <2>5 DEF ProcessPipe
  <2> HIDE DEF x, y, c, j, d, ends
  <2>7. x.ends[d] # 0
    <3>1. ends[d] \in Nat  BY <1>2, <2>1
    <3> QED  BY <1>2, <2>5, <2>6, <3>1
  <2>8. x # NoPipe  BY <1>0, <1>2, <2>7
  <2>9. \A e \in End : x.ends[e] = ends[e] - One(NoFd, Mapping(e, j)) + One(m, Mapping(e, j))
    BY <2>1, <2>3, <2>5, <2>6
  <2>10. /\ [ps EXCEPT ![j] = x] \in Seq(ProcessPipe) /\ Held([ps EXCEPT ![j] = x])
         /\ PipesFollow(ps, [ps EXCEPT ![j] = x], NoFd, m)
    <3>1. x \in ProcessPipe /\ ((\A e \in End : x.ends[e] = 0) => x = NoPipe) /\ j \in DOMAIN ps
      BY <1>2, <2>1, <2>6, <2>7
    <3>2. \A e \in End : /\ x.ends[e] = ps[j].ends[e] - One(NoFd, Mapping(e, j))
                                                      + One(m, Mapping(e, j))
                         /\ \A i \in Nat : i # j => NoFd # Mapping(e, i) /\ m # Mapping(e, i)
      BY <2>2, <2>9 DEF ends
    <3> QED  BY <3>1, <3>2, ReplacedPipe
  <2>11. EndsInSome([ps EXCEPT ![j] = x], NoPipe)  BY <2>1, <2>6, <2>8, ReplacedTrimmed
  <2> QED  BY <2>4, <2>10, <2>11 DEF c
<1> QED  BY <1>1, <1>2

\* dup and dup2, open_nodes.
LEMMA ReferencedNodesEntries ==
    ASSUME NEW n \in Seq(Nat), EndsInSome(n, 0), NEW m \in FdMapping,
           m.kind = "REGULAR" => m.index \in DOMAIN n
    PROVE  /\ ReferencedNodes(n, m) \in Seq(Nat) /\ EndsInSome(ReferencedNodes(n, m), 0)
           /\ NodesFollow(n, ReferencedNodes(n, m), NoFd, m)
<1> DEFINE c == ReferencedNodes(n, m)
           j == m.index
           x == n[j] + 1
<1>0. \A k \in Nat : Entry(n, k, 0) \in Nat  BY DEF Entry
<1>1. c \in Seq(Nat) /\ EndsInSome(c, 0)
      /\ \A k \in Nat : Entry(c, k, 0) = Entry(n, k, 0) + One(m, Regular(k))
  <2>1. CASE m.kind = "REGULAR"
    <3>1. j \in DOMAIN n /\ c = [n EXCEPT ![j] = x] /\ x \in Nat /\ x # 0 /\ n[j] + 1 = x
      BY <2>1 DEF ReferencedNodes
    <3>2. \A k \in Nat : m = Regular(k) <=> k = j  BY <2>1 DEF Regular, FdMapping
    <3> HIDE DEF x, c, j
    <3>3. c \in Seq(Nat) /\ EndsInSome(c, 0)
      <4>1. [n EXCEPT ![j] = x] \in Seq(Nat)  BY <3>1, ExceptSeq
      <4>2. EndsInSome([n EXCEPT ![j] = x], 0)  BY <3>1, ReplacedTrimmed
      <4> QED  BY <3>1, <4>1, <4>2
    <3>4. \A k \in Nat : Entry(c, k, 0) = IF k = j THEN x ELSE Entry(n, k, 0)
      BY <3>1 DEF Entry
    <3>5. Entry(n, j, 0) + 1 = x  BY <3>1 DEF Entry
    <3>6. ASSUME NEW k \in Nat  PROVE Entry(c, k, 0) = Entry(n, k, 0) + One(m, Regular(k))
      <4>1. CASE k = j
        <5>1. Entry(c, k, 0) = x /\ Entry(n, k, 0) + 1 = x /\ One(m, Regular(k)) = 1
          BY <3>2, <3>4, <3>5, <4>1 DEF One
        <5> QED  BY <5>1
      <4>2. CASE k # j
        <5>1. Entry(c, k, 0) = Entry(n, k, 0) /\ One(m, Regular(k)) = 0
          BY <3>2, <3>4, <4>2 DEF One
        <5> QED  BY <1>0, <5>1
      <4> QED  BY <4>1, <4>2
    <3> QED  BY <3>3, <3>6
  <2>2. CASE m.kind # "REGULAR"
    <3>1. \A k \in Nat : One(m, Regular(k)) = 0  BY <2>2 DEF Regular, One
    <3>2. c = n  BY <2>2 DEF ReferencedNodes
    <3> QED  BY <1>0, <3>1, <3>2
  <2> QED  BY <2>1, <2>2
<1> HIDE DEF c
<1>2. \A k \in Nat : Entry(n, k, 0) - 0 + One(m, Regular(k)) = Entry(n, k, 0) + One(m, Regular(k))
  BY <1>0 DEF One
<1>3. NodesFollow(n, c, NoFd, m)  BY <1>1, <1>2, NoFdCountsNothing DEF NodesFollow
<1> QED  BY <1>1, <1>3 DEF c

(***************************************************************************)
(* What the system calls do to the tables                                  *)
(***************************************************************************)

\* What a descriptor stands for is there, and is counted.
LEMMA MappingCounted ==
    ASSUME NEW F, NEW N, NEW ps, Tables(F, N, ps), NEW p \in Procs, NEW fd \in DOMAIN F[p]
    PROVE  LET m == F[p][fd]
           IN  /\ fd \in 1..MaxFds /\ m \in FdMapping /\ Entry(F[p], fd, NoFd) = m
               /\ m.kind = "REGULAR" => m.index \in DOMAIN N[p] /\ N[p][m.index] >= 1
               /\ m.kind \in End => m.index \in DOMAIN ps /\ ps[m.index].ends[m.kind] >= 1
<1> DEFINE m == F[p][fd]
           i == m.index
           e == m.kind
<1>1. /\ F \in [Procs -> Seq(FdMapping)] /\ Len(F[p]) <= MaxFds
      /\ EndsCounted(F, ps) /\ NodesCounted(F, N) /\ ps \in Seq(ProcessPipe)
  BY DEF Tables, Shape
<1>2. fd \in 1..MaxFds /\ m \in FdMapping /\ Entry(F[p], fd, NoFd) = m
  <2>1. F[p] \in Seq(FdMapping)  BY <1>1
  <2>2. DOMAIN F[p] = 1..Len(F[p]) /\ Len(F[p]) \in Nat /\ m \in FdMapping  BY <2>1
  <2> QED  BY <1>1, <2>2, PipesAssumption DEF Entry
<1>3. i \in Nat  BY <1>2 DEF FdMapping
<1>4. ASSUME e = "REGULAR"  PROVE i \in DOMAIN N[p] /\ N[p][i] >= 1
  <2>1. m = Regular(i)  BY <1>2, <1>4 DEF FdMapping, Regular
  <2> HIDE DEF m, i, e
  <2>2. Cardinality(NodeFds(F[p], i)) >= 1  BY <1>2, <2>1, Counted
  <2>3. Entry(N[p], i, 0) >= 1  BY <1>1, <1>3, <2>2 DEF NodesCounted
  <2> QED  BY <2>3 DEF Entry
<1>5. ASSUME e \in End  PROVE i \in DOMAIN ps /\ ps[i].ends[e] >= 1
  <2>1. m = Mapping(e, i)  BY <1>2, <1>5 DEF FdMapping, Mapping
  <2> HIDE DEF m, i, e
  <2>2. Cardinality(HoldersIn(F, i, e)) >= 1  BY <1>2, <2>1, Counted
  <2>3. Entry(ps, i, NoPipe).ends[e] >= 1  BY <1>1, <1>3, <1>5, <2>2 DEF EndsCounted
  <2>4. NoPipe.ends[e] = 0  BY <1>5 DEF NoPipe
  <2> QED  BY <2>3, <2>4 DEF Entry
<1> QED  BY <1>2, <1>4, <1>5

\* close keeps the tables.
LEMMA CloseTables ==
    ASSUME NEW F, NEW N, NEW ps, Tables(F, N, ps), NEW p \in Procs, NEW fd \in SomeFds(F[p])
    PROVE  Tables([F EXCEPT ![p] = ClosedFds(F[p], fd)],
                  [N EXCEPT ![p] = ClosedNodes(N[p], F[p][fd])], ClosedPipes(ps, F[p][fd]))
<1> DEFINE m == F[p][fd]
           g == ClosedFds(F[p], fd)
           n1 == ClosedNodes(N[p], m)
           ps1 == ClosedPipes(ps, m)
<1>1. /\ F[p] \in Seq(FdMapping) /\ N[p] \in Seq(Nat) /\ ps \in Seq(ProcessPipe)
      /\ Len(F[p]) <= MaxFds /\ EndsInSome(ps, NoPipe) /\ Held(ps)
  BY DEF Tables, Shape
<1>2. fd \in DOMAIN F[p]  BY DEF SomeFds
<1>3. /\ fd \in 1..MaxFds /\ m \in FdMapping /\ Entry(F[p], fd, NoFd) = m
      /\ m.kind = "REGULAR" => m.index \in DOMAIN N[p] /\ N[p][m.index] >= 1
      /\ m.kind \in End => m.index \in DOMAIN ps /\ ps[m.index].ends[m.kind] >= 1
  BY <1>2, MappingCounted
<1>4. g \in Seq(FdMapping) /\ Len(g) <= Len(F[p]) /\ EndsInSome(g, NoFd) /\ Becomes(F[p], g, fd, NoFd)
  BY <1>1, ClosedFdsEntries
<1> HIDE DEF m, g
<1>5. n1 \in Seq(Nat) /\ EndsInSome(n1, 0) /\ NodesFollow(N[p], n1, m, NoFd)
  BY <1>1, <1>3, ClosedNodesEntries
<1>6. ps1 \in Seq(ProcessPipe) /\ EndsInSome(ps1, NoPipe) /\ Held(ps1) /\ PipesFollow(ps, ps1, m, NoFd)
  BY <1>1, <1>3, ClosedPipesEntries
<1>7. Len(g) <= MaxFds
  <2>1. Len(g) \in Nat /\ Len(F[p]) \in Nat  BY <1>1, <1>4
  <2> QED  BY <1>1, <1>4, <2>1, PipesAssumption
<1> HIDE DEF n1, ps1
<1>8. Tables([F EXCEPT ![p] = g], [N EXCEPT ![p] = n1], ps1)
  BY <1>3, <1>4, <1>5, <1>6, <1>7, TablesChange
<1> QED  BY <1>8 DEF g, n1, ps1, m

\* A free descriptor comes to stand for what m stands for.
LEMMA AddTables ==
    ASSUME NEW F, NEW N, NEW ps, Tables(F, N, ps), NEW p \in Procs, NEW fd \in 1..MaxFds,
           Entry(F[p], fd, NoFd) = NoFd, NEW m \in FdMapping,
           m.kind = "REGULAR" => m.index \in DOMAIN N[p],
           m.kind \in End => m.index \in DOMAIN ps,
           NEW g \in Seq(FdMapping), Len(g) <= MaxFds, EndsInSome(g, NoFd), Becomes(F[p], g, fd, m)
    PROVE  Tables([F EXCEPT ![p] = g], [N EXCEPT ![p] = ReferencedNodes(N[p], m)],
                  ReferencedPipes(ps, m))
<1> DEFINE n1 == ReferencedNodes(N[p], m)
           ps1 == ReferencedPipes(ps, m)
<1>1. /\ N[p] \in Seq(Nat) /\ EndsInSome(N[p], 0)
      /\ ps \in Seq(ProcessPipe) /\ EndsInSome(ps, NoPipe) /\ Held(ps)
  BY DEF Tables, Shape
<1>2. n1 \in Seq(Nat) /\ EndsInSome(n1, 0) /\ NodesFollow(N[p], n1, NoFd, m)
  BY <1>1, ReferencedNodesEntries
<1>3. ps1 \in Seq(ProcessPipe) /\ EndsInSome(ps1, NoPipe) /\ Held(ps1) /\ PipesFollow(ps, ps1, NoFd, m)
  BY <1>1, ReferencedPipesEntries
<1> HIDE DEF n1, ps1
<1>4. /\ NodesFollow(N[p], n1, Entry(F[p], fd, NoFd), m)
      /\ PipesFollow(ps, ps1, Entry(F[p], fd, NoFd), m)
  BY <1>2, <1>3
<1>5. Tables([F EXCEPT ![p] = g], [N EXCEPT ![p] = n1], ps1)
  BY <1>2, <1>3, <1>4, TablesChange
<1> QED  BY <1>5 DEF n1, ps1

\* A new descriptor.
LEMMA WithFdEntries ==
    ASSUME NEW f \in Seq(FdMapping), Len(f) <= MaxFds, EndsInSome(f, NoFd), FreeFd(f) <= MaxFds,
           NEW m \in FdMapping, m # NoFd
    PROVE  /\ FreeFd(f) \in 1..MaxFds /\ Entry(f, FreeFd(f), NoFd) = NoFd
           /\ WithFd(f, m) \in Seq(FdMapping) /\ Len(WithFd(f, m)) <= MaxFds
           /\ EndsInSome(WithFd(f, m), NoFd) /\ Becomes(f, WithFd(f, m), FreeFd(f), m)
<1> DEFINE k == FreeFd(f)
           g == WithFd(f, m)
<1>1. k = FirstFree(f, Somes(f, NoFd))  BY DEF FreeFd, SomeFds, Somes
<1>2. g = Put(f, k, m)  BY DEF WithFd
<1> HIDE DEF k, g
<1>3. k \in 1..Len(f) + 1 /\ Entry(f, k, NoFd) = NoFd  BY <1>1, FirstFreeIsFree
<1>4. /\ g \in Seq(FdMapping) /\ Len(g) = IF k = Len(f) + 1 THEN k ELSE Len(f)
      /\ \A j \in Nat : Entry(g, j, NoFd) = IF j = k THEN m ELSE Entry(f, j, NoFd)
      /\ EndsInSome(g, NoFd)
  <2>1. k \in 1..Len(f) + 1  BY <1>3
  <2>2. g \in Seq(FdMapping) /\ Len(g) = IF k = Len(f) + 1 THEN k ELSE Len(f)
    BY <1>2, <2>1, PutSetsEntry
  <2>3. \A j \in Nat : Entry(g, j, NoFd) = IF j = k THEN m ELSE Entry(f, j, NoFd)
    BY <1>2, <2>1, PutSetsEntry
  <2>4. EndsInSome(g, NoFd)  BY <1>2, <2>1, PutSetsEntry
  <2> QED  BY <2>2, <2>3, <2>4
<1>5. Len(f) \in Nat  OBVIOUS
<1>6. k \in 1..MaxFds /\ Len(g) <= MaxFds  BY <1>3, <1>4, <1>5, PipesAssumption DEF k
<1>7. Becomes(f, g, k, m)  BY <1>4 DEF Becomes
<1> QED  BY <1>3, <1>4, <1>6, <1>7 DEF k, g

\* resize and the assignment of dup2.
LEMMA Dup2FdsEntries ==
    ASSUME NEW f \in Seq(FdMapping), Len(f) <= MaxFds, EndsInSome(f, NoFd), NEW fd \in 1..MaxFds,
           NEW m \in FdMapping, m # NoFd
    PROVE  /\ Dup2Fds(f, fd, m) \in Seq(FdMapping) /\ Len(Dup2Fds(f, fd, m)) <= MaxFds
           /\ EndsInSome(Dup2Fds(f, fd, m), NoFd) /\ Becomes(f, Dup2Fds(f, fd, m), fd, m)
<1> DEFINE l == Len(f)
           t == IF fd > l THEN fd ELSE l
           g == Dup2Fds(f, fd, m)
<1>0. fd \in Nat /\ fd >= 1 /\ l \in Nat /\ DOMAIN f = 1..l /\ \A k \in 1..l : f[k] \in FdMapping
  BY PipesAssumption
<1>1. 1..fd \cup DOMAIN f = 1..t /\ t \in Nat /\ t >= 1 /\ t <= MaxFds /\ fd \in 1..t
  <2>1. 1..l \subseteq 1..t /\ t \in Nat /\ t >= 1 /\ t <= MaxFds /\ fd \in 1..t
    BY <1>0, PipesAssumption
  <2>2. 1..fd \cup 1..l = 1..t
    <3> HIDE DEF l
    <3> QED  BY <1>0
  <2> QED  BY <1>0, <2>1, <2>2
<1> DEFINE at(k) == IF k = fd THEN m ELSE IF k \in DOMAIN f THEN f[k] ELSE NoFd
<1>2. g = [k \in 1..t |-> at(k)]  BY <1>1 DEF Dup2Fds
<1>3. \A k \in Nat : at(k) = IF k = fd THEN m ELSE Entry(f, k, NoFd)  BY DEF Entry
<1>4. \A k \in 1..t : at(k) \in FdMapping  BY <1>0, NoFdCountsNothing
<1>5. \A k \in Nat : k \notin 1..t => Entry(f, k, NoFd) = NoFd /\ k # fd
  <2>1. \A k \in Nat : k \notin 1..t => k \notin 1..l /\ k # fd
    <3> HIDE DEF l
    <3> QED  BY <1>0
  <2> QED  BY <1>0, <2>1 DEF Entry
<1>6. at(t) # NoFd
  <2>1. CASE fd > l  BY <2>1, SMTT(30)
  <2>2. CASE ~(fd > l)
    <3>1. t = l /\ l # 0 /\ l \in 1..l  BY <1>0, <2>2
    <3>2. f # <<>>  BY <3>1
    <3> QED  BY <1>0, <3>1, <3>2 DEF EndsInSome
  <2> QED  BY <2>1, <2>2
<1> HIDE DEF l, t, g, at
<1>7. g \in Seq(FdMapping) /\ Len(g) = t /\ DOMAIN g = 1..t  BY <1>1, <1>2, <1>4
<1>8. \A k \in 1..t : g[k] = at(k)  BY <1>2
<1>9. Becomes(f, g, fd, m)
  <2> SUFFICES ASSUME NEW k \in Nat
               PROVE  Entry(g, k, NoFd) = IF k = fd THEN m ELSE Entry(f, k, NoFd)
    BY DEF Becomes
  <2>1. CASE k \in 1..t  BY <1>3, <1>7, <1>8, <2>1 DEF Entry
  <2>2. CASE k \notin 1..t
    <3>1. Entry(g, k, NoFd) = NoFd  BY <1>7, <2>2 DEF Entry
    <3> QED  BY <1>5, <2>2, <3>1
  <2> QED  BY <2>1, <2>2
<1>10. EndsInSome(g, NoFd)
  <2>1. t \in 1..t  BY <1>1
  <2> QED  BY <1>6, <1>7, <1>8, <2>1 DEF EndsInSome
<1> QED  BY <1>1, <1>7, <1>9, <1>10 DEF g

\* dup keeps the tables.
LEMMA DupTables ==
    ASSUME NEW F, NEW N, NEW ps, Tables(F, N, ps), NEW p \in Procs, NEW fd \in SomeFds(F[p]),
           FreeFd(F[p]) <= MaxFds
    PROVE  Tables([F EXCEPT ![p] = WithFd(F[p], F[p][fd])],
                  [N EXCEPT ![p] = ReferencedNodes(N[p], F[p][fd])],
                  ReferencedPipes(ps, F[p][fd]))
<1> DEFINE m == F[p][fd]
           k == FreeFd(F[p])
           g == WithFd(F[p], m)
<1>1. F[p] \in Seq(FdMapping) /\ Len(F[p]) <= MaxFds /\ EndsInSome(F[p], NoFd)  BY DEF Tables, Shape
<1>2. fd \in DOMAIN F[p] /\ m # NoFd  BY DEF SomeFds
<1>3. /\ m \in FdMapping
      /\ m.kind = "REGULAR" => m.index \in DOMAIN N[p]
      /\ m.kind \in End => m.index \in DOMAIN ps
  BY <1>2, MappingCounted
<1> HIDE DEF m
<1>4. /\ k \in 1..MaxFds /\ Entry(F[p], k, NoFd) = NoFd
      /\ g \in Seq(FdMapping) /\ Len(g) <= MaxFds /\ EndsInSome(g, NoFd) /\ Becomes(F[p], g, k, m)
  BY <1>1, <1>2, <1>3, WithFdEntries
<1> HIDE DEF k, g
<1>5. Tables([F EXCEPT ![p] = g], [N EXCEPT ![p] = ReferencedNodes(N[p], m)], ReferencedPipes(ps, m))
  BY <1>3, <1>4, AddTables
<1> QED  BY <1>5 DEF g, m

\* dup2, after the close, keeps the tables.
LEMMA Dup2Tables ==
    ASSUME NEW F, NEW N, NEW ps, Tables(F, N, ps), NEW p \in Procs, NEW fd \in 1..MaxFds,
           Entry(F[p], fd, NoFd) = NoFd, NEW m \in FdMapping, m # NoFd, Resolves(m, N[p], ps)
    PROVE  Tables([F EXCEPT ![p] = Dup2Fds(F[p], fd, m)],
                  [N EXCEPT ![p] = ReferencedNodes(N[p], m)], ReferencedPipes(ps, m))
<1> DEFINE g == Dup2Fds(F[p], fd, m)
<1>1. F[p] \in Seq(FdMapping) /\ Len(F[p]) <= MaxFds /\ EndsInSome(F[p], NoFd)  BY DEF Tables, Shape
<1>2. /\ m.kind = "REGULAR" => m.index \in DOMAIN N[p]
      /\ m.kind \in End => m.index \in DOMAIN ps
  BY DEF Resolves, SomeNodes, SomePipes
<1>3. g \in Seq(FdMapping) /\ Len(g) <= MaxFds /\ EndsInSome(g, NoFd) /\ Becomes(F[p], g, fd, m)
  BY <1>1, Dup2FdsEntries
<1> HIDE DEF g
<1>4. Tables([F EXCEPT ![p] = g], [N EXCEPT ![p] = ReferencedNodes(N[p], m)], ReferencedPipes(ps, m))
  BY <1>2, <1>3, AddTables
<1> QED  BY <1>4 DEF g

LEMMA OtherNodeMapping ==
    ASSUME NEW n \in Seq(Nat), NEW m, m.kind # "REGULAR"
    PROVE  NodesFollow(n, n, NoFd, m)
<1>1. \A k \in Nat : One(m, Regular(k)) = 0  BY DEF One, Regular
<1>2. \A k \in Nat : Entry(n, k, 0) \in Nat  BY DEF Entry
<1>3. \A z \in Nat : z = z - 0 + 0  OBVIOUS
<1> QED  BY <1>1, <1>2, <1>3, NoFdCountsNothing DEF NodesFollow

\* open, open_nodes.
LEMMA OpenedNodes ==
    ASSUME NEW s \in Seq(Nat), EndsInSome(s, 0), NEW n, n = FirstFree(s, SomeNodes(s))
    PROVE  /\ n \in Nat /\ Put(s, n, 1) \in Seq(Nat) /\ EndsInSome(Put(s, n, 1), 0)
           /\ NodesFollow(s, Put(s, n, 1), NoFd, Regular(n))
<1> DEFINE none == 0
           one == 1
           t == Put(s, n, one)
<1>1. n = FirstFree(s, Somes(s, none))  BY DEF SomeNodes, Somes
<1>2. one \in Nat /\ one # none /\ t = Put(s, n, one) /\ EndsInSome(s, none)  OBVIOUS
<1> HIDE DEF t, none, one
<1>3. n \in 1..Len(s) + 1 /\ Entry(s, n, none) = none  BY <1>1, FirstFreeIsFree
<1>4. n \in 1..Len(s) + 1  BY <1>3
<1>5. t \in Seq(Nat)  BY <1>2, <1>4, PutSetsEntry
<1>6. EndsInSome(t, none)  BY <1>2, <1>4, PutSetsEntry
<1>7. \A j \in Nat : Entry(t, j, none) = IF j = n THEN one ELSE Entry(s, j, none)
  BY <1>2, <1>4, PutSetsEntry
<1>8. n \in Nat
  <2>1. Len(s) \in Nat  OBVIOUS
  <2> QED  BY <1>4, <2>1
<1>9. NodesFollow(s, t, NoFd, Regular(n))
  <2> SUFFICES ASSUME NEW j \in Nat
               PROVE  Entry(t, j, 0) = Entry(s, j, 0) - One(NoFd, Regular(j))
                                                      + One(Regular(n), Regular(j))
    BY DEF NodesFollow
  <2>1. Entry(s, j, 0) \in Nat  BY DEF Entry
  <2>2. One(NoFd, Regular(j)) = 0  BY NoFdCountsNothing
  <2>3. One(Regular(n), Regular(j)) = IF j = n THEN 1 ELSE 0  BY <1>8 DEF One, Regular
  <2>4. CASE j = n
    <3>1. Entry(t, j, 0) = 1 /\ Entry(s, j, 0) = 0  BY <1>3, <1>7, <2>4 DEF none, one
    <3> QED  BY <2>2, <2>3, <2>4, <3>1
  <2>5. CASE j # n
    <3>1. Entry(t, j, 0) = Entry(s, j, 0)  BY <1>7, <2>5 DEF none
    <3> QED  BY <2>1, <2>2, <2>3, <2>5, <3>1
  <2> QED  BY <2>4, <2>5
<1> QED  BY <1>5, <1>6, <1>8, <1>9 DEF t, none, one

\* open keeps the tables.
LEMMA OpenTables ==
    ASSUME NEW F, NEW N, NEW ps, Tables(F, N, ps), NEW p \in Procs, FreeFd(F[p]) <= MaxFds,
           NEW n, n = FirstFree(N[p], SomeNodes(N[p]))
    PROVE  Tables([F EXCEPT ![p] = WithFd(F[p], Regular(n))], [N EXCEPT ![p] = Put(N[p], n, 1)], ps)
<1> DEFINE m == Regular(n)
           k == FreeFd(F[p])
           g == WithFd(F[p], m)
           n1 == Put(N[p], n, 1)
<1>1. /\ F[p] \in Seq(FdMapping) /\ Len(F[p]) <= MaxFds /\ EndsInSome(F[p], NoFd)
      /\ N[p] \in Seq(Nat) /\ EndsInSome(N[p], 0)
      /\ ps \in Seq(ProcessPipe) /\ EndsInSome(ps, NoPipe) /\ Held(ps)
  BY DEF Tables, Shape
<1>2. n \in Nat /\ n1 \in Seq(Nat) /\ EndsInSome(n1, 0) /\ NodesFollow(N[p], n1, NoFd, m)
  BY <1>1, OpenedNodes
<1>3. m \in FdMapping /\ m # NoFd /\ m.kind = "REGULAR"
  BY <1>2 DEF FdMapping, NoFd, Regular
<1> HIDE DEF m, n1
<1>4. PipesFollow(ps, ps, NoFd, m)
  <2>1. m.kind \notin End  BY <1>3 DEF End
  <2> QED  BY <1>1, <2>1, OtherMapping
<1>5. /\ k \in 1..MaxFds /\ Entry(F[p], k, NoFd) = NoFd
      /\ g \in Seq(FdMapping) /\ Len(g) <= MaxFds /\ EndsInSome(g, NoFd) /\ Becomes(F[p], g, k, m)
  BY <1>1, <1>3, WithFdEntries
<1> HIDE DEF k, g
<1>6. /\ NodesFollow(N[p], n1, Entry(F[p], k, NoFd), m)
      /\ PipesFollow(ps, ps, Entry(F[p], k, NoFd), m)
  BY <1>2, <1>4, <1>5
<1>7. Tables([F EXCEPT ![p] = g], [N EXCEPT ![p] = n1], ps)
  BY <1>1, <1>2, <1>5, <1>6, TablesChange
<1> QED  BY <1>7 DEF g, n1, m

\* A pipe is pushed.
LEMMA PushedPipe ==
    ASSUME NEW ps \in Seq(ProcessPipe), Held(ps), NEW x \in ProcessPipe,
           NEW d \in End, x.ends[d] # 0
    PROVE  /\ Append(ps, x) \in Seq(ProcessPipe) /\ Held(Append(ps, x)) /\ EndsInSome(Append(ps, x), NoPipe)
           /\ \A i \in Nat : Entry(Append(ps, x), i, NoPipe) =
                                 IF i = Len(ps) + 1 THEN x ELSE Entry(ps, i, NoPipe)
<1> DEFINE l == Len(ps)
           c == Append(ps, x)
<1>1. l \in Nat /\ DOMAIN ps = 1..l  OBVIOUS
<1>2. /\ c \in Seq(ProcessPipe) /\ Len(c) = l + 1 /\ DOMAIN c = 1..l + 1 /\ c # <<>>
      /\ \A i \in 1..l : c[i] = ps[i]
      /\ c[l + 1] = x
  OBVIOUS
<1>3. x # NoPipe  BY DEF NoPipe
<1> HIDE DEF l, c
<1>4. \A i \in Nat : i \in 1..l + 1 <=> i \in 1..l \/ i = l + 1  BY <1>1
<1>5. \A i \in Nat : Entry(c, i, NoPipe) = IF i = l + 1 THEN x ELSE Entry(ps, i, NoPipe)
  <2> SUFFICES ASSUME NEW i \in Nat
               PROVE  Entry(c, i, NoPipe) = IF i = l + 1 THEN x ELSE Entry(ps, i, NoPipe)
    OBVIOUS
  <2>0. l + 1 \notin 1..l  BY <1>1
  <2>1. CASE i = l + 1  BY <1>2, <1>4, <2>1 DEF Entry
  <2>2. CASE i \in 1..l  BY <1>1, <1>2, <1>4, <2>0, <2>2 DEF Entry
  <2>3. CASE i \notin 1..l /\ i # l + 1  BY <1>1, <1>2, <1>4, <2>3 DEF Entry
  <2> QED  BY <2>1, <2>2, <2>3
<1>6. Held(c)
  <2> SUFFICES ASSUME NEW i \in DOMAIN c, \A e \in End : c[i].ends[e] = 0
               PROVE  c[i] = NoPipe
    BY DEF Held
  <2>1. i \in Nat /\ (i \in 1..l \/ i = l + 1)  BY <1>1, <1>2, <1>4
  <2>2. i # l + 1  BY <1>2
  <2> QED  BY <1>1, <1>2, <2>1, <2>2 DEF Held
<1>7. EndsInSome(c, NoPipe)  BY <1>2, <1>3 DEF EndsInSome
<1> QED  BY <1>2, <1>5, <1>6, <1>7 DEF l, c

\* A free descriptor becomes m, an end of the pipe the table ps1 has one reference
\* more to.
LEMMA EndAdded ==
    ASSUME NEW F, NEW N, NEW ps, Tables(F, N, ps), NEW p \in Procs, FreeFd(F[p]) <= MaxFds,
           NEW m \in FdMapping, m.kind \in End,
           NEW ps1 \in Seq(ProcessPipe), EndsInSome(ps1, NoPipe), Held(ps1),
           PipesFollow(ps, ps1, NoFd, m)
    PROVE  Tables([F EXCEPT ![p] = WithFd(F[p], m)], N, ps1)
<1> DEFINE k == FreeFd(F[p])
           g == WithFd(F[p], m)
<1>1. /\ F[p] \in Seq(FdMapping) /\ Len(F[p]) <= MaxFds /\ EndsInSome(F[p], NoFd)
      /\ N \in [Procs -> Seq(Nat)] /\ N[p] \in Seq(Nat) /\ EndsInSome(N[p], 0)
  BY DEF Tables, Shape
<1>2. m # NoFd /\ m.kind # "REGULAR"  BY DEF End, NoFd
<1>3. NodesFollow(N[p], N[p], NoFd, m)  BY <1>1, <1>2, OtherNodeMapping
<1>4. /\ k \in 1..MaxFds /\ Entry(F[p], k, NoFd) = NoFd
      /\ g \in Seq(FdMapping) /\ Len(g) <= MaxFds /\ EndsInSome(g, NoFd) /\ Becomes(F[p], g, k, m)
  BY <1>1, <1>2, WithFdEntries
<1> HIDE DEF k, g
<1>5. /\ NodesFollow(N[p], N[p], Entry(F[p], k, NoFd), m)
      /\ PipesFollow(ps, ps1, Entry(F[p], k, NoFd), m)
  BY <1>3, <1>4
<1>6. Tables([F EXCEPT ![p] = g], [N EXCEPT ![p] = N[p]], ps1)
  BY <1>1, <1>4, <1>5, TablesChange
<1>7. [N EXCEPT ![p] = N[p]] = N  BY <1>1
<1> QED  BY <1>6, <1>7 DEF g

\* The second of two new descriptors is above the first.
LEMMA FreeFdGrows ==
    ASSUME NEW s \in Seq(FdMapping), EndsInSome(s, NoFd), NEW m \in FdMapping, m # NoFd
    PROVE  /\ FreeFd(s) \in Nat /\ FreeFd(WithFd(s, m)) \in Nat
           /\ FreeFd(s) <= FreeFd(WithFd(s, m))
<1> DEFINE f == WithFd(s, m)
           a == FreeFd(s)
           b == FreeFd(f)
           l == Len(s)
<1>1. a = FirstFree(s, Somes(s, NoFd))  BY DEF FreeFd, SomeFds, Somes
<1>2. b = FirstFree(f, Somes(f, NoFd))  BY DEF FreeFd, SomeFds, Somes
<1>3. f = Put(s, a, m)  BY DEF WithFd
<1> HIDE DEF a, b, f
<1>4. a \in 1..Len(s) + 1 /\ \A j \in 1..Len(s) + 1 : Entry(s, j, NoFd) = NoFd => a <= j
  BY <1>1, FirstFreeIsFree
<1>5. a \in 1..Len(s) + 1  BY <1>4
<1>6. f \in Seq(FdMapping)  BY <1>3, <1>5, PutSetsEntry
<1>7. \A j \in Nat : Entry(f, j, NoFd) = IF j = a THEN m ELSE Entry(s, j, NoFd)
  BY <1>3, <1>5, PutSetsEntry
<1>8. b \in 1..Len(f) + 1 /\ Entry(f, b, NoFd) = NoFd  BY <1>2, <1>6, FirstFreeIsFree
<1>9. b \in Nat /\ b >= 1
  <2>1. Len(f) \in Nat  BY <1>6
  <2> QED  BY <1>8, <2>1
<1>10. b # a /\ Entry(s, b, NoFd) = NoFd  BY <1>7, <1>8, <1>9
<1>11. l \in Nat /\ a \in 1..l + 1  BY <1>5
<1>12. a <= b
  <2>1. CASE b \in 1..l + 1  BY <1>4, <1>10, <2>1
  <2>2. CASE b \notin 1..l + 1
    <3> HIDE DEF l
    <3> QED  BY <1>9, <1>11, <2>2
  <2> QED  BY <2>1, <2>2
<1>13. a \in Nat
  <2> HIDE DEF l
  <2> QED  BY <1>11
<1> QED  BY <1>9, <1>12, <1>13 DEF a, b, f

\* pipe keeps the tables: the read end first, then the write end.
LEMMA PipeTables ==
    ASSUME NEW F, NEW N, NEW ps, Tables(F, N, ps), NEW p \in Procs,
           NEW i, i = Len(ps) + 1, NEW f, f = WithFd(F[p], PipeReadEnd(i)), FreeFd(f) <= MaxFds
    PROVE  Tables([F EXCEPT ![p] = WithFd(f, PipeWriteEnd(i))], N, Append(ps, NewPipe))
<1> DEFINE half == [buf |-> 0, ends |-> [e \in End |-> IF e = "READ" THEN 1 ELSE 0]]
           ps1 == Append(ps, half)
           ps2 == Append(ps, NewPipe)
           r == PipeReadEnd(i)
           w == PipeWriteEnd(i)
           G == [F EXCEPT ![p] = f]
<1>1. /\ F \in [Procs -> Seq(FdMapping)] /\ F[p] \in Seq(FdMapping) /\ Len(F[p]) <= MaxFds
      /\ EndsInSome(F[p], NoFd) /\ ps \in Seq(ProcessPipe) /\ Held(ps) /\ EndsCounted(F, ps)
  BY DEF Tables, Shape
<1>2. i \in Nat /\ i \notin DOMAIN ps /\ Entry(ps, i, NoPipe) = NoPipe
  <2>1. Len(ps) \in Nat /\ DOMAIN ps = 1..Len(ps)  BY <1>1
  <2>2. i \in Nat /\ i \notin DOMAIN ps  BY <2>1
  <2> QED  BY <2>2 DEF Entry
<1>3. /\ r \in FdMapping /\ r.kind \in End /\ w \in FdMapping /\ w.kind \in End
      /\ \A e \in End, j \in Nat : /\ One(r, Mapping(e, j)) = IF j = i /\ e = "READ" THEN 1 ELSE 0
                                   /\ One(w, Mapping(e, j)) = IF j = i /\ e = "WRITE" THEN 1 ELSE 0
  BY <1>2 DEF PipeReadEnd, PipeWriteEnd, FdMapping, End, One, Mapping
<1>4. /\ half \in ProcessPipe /\ NewPipe \in ProcessPipe /\ "READ" \in End /\ NoPipe.ends["READ"] = 0
      /\ \A e \in End : NoPipe.ends[e] = 0 /\ NewPipe.ends[e] = 1
      /\ \A e \in End : half.ends[e] = IF e = "READ" THEN 1 ELSE 0
  BY DEF ProcessPipe, NewPipe, NoPipe, End
<1>5. half.ends["READ"] # 0 /\ NewPipe.ends["READ"] # 0  BY <1>4
<1> HIDE DEF half, r, w
<1>6. /\ ps1 \in Seq(ProcessPipe) /\ Held(ps1) /\ EndsInSome(ps1, NoPipe)
      /\ \A j \in Nat : Entry(ps1, j, NoPipe) = IF j = i THEN half ELSE Entry(ps, j, NoPipe)
  BY <1>1, <1>4, <1>5, PushedPipe
<1>7. /\ ps2 \in Seq(ProcessPipe) /\ Held(ps2) /\ EndsInSome(ps2, NoPipe)
      /\ \A j \in Nat : Entry(ps2, j, NoPipe) = IF j = i THEN NewPipe ELSE Entry(ps, j, NoPipe)
  BY <1>1, <1>4, <1>5, PushedPipe
<1> HIDE DEF ps1, ps2
<1>8. PipesFollow(ps, ps1, NoFd, r)
  <2> SUFFICES ASSUME NEW j \in Nat, NEW e \in End
               PROVE  Entry(ps1, j, NoPipe).ends[e] =
                          Entry(ps, j, NoPipe).ends[e] - One(NoFd, Mapping(e, j)) + One(r, Mapping(e, j))
    BY DEF PipesFollow
  <2>1. One(NoFd, Mapping(e, j)) = 0 /\ Entry(ps, j, NoPipe).ends[e] \in Nat
    BY <1>1, NoFdCountsNothing, PipeEntry
  <2>2. CASE j = i
    <3>1. Entry(ps1, j, NoPipe).ends[e] = half.ends[e] /\ Entry(ps, j, NoPipe).ends[e] = 0
      BY <1>2, <1>4, <1>6, <2>2
    <3> QED  BY <1>3, <1>4, <2>1, <2>2, <3>1
  <2>3. CASE j # i  BY <1>3, <1>6, <2>1, <2>3
  <2> QED  BY <2>2, <2>3
<1>9. PipesFollow(ps1, ps2, NoFd, w)
  <2> SUFFICES ASSUME NEW j \in Nat, NEW e \in End
               PROVE  Entry(ps2, j, NoPipe).ends[e] =
                          Entry(ps1, j, NoPipe).ends[e] - One(NoFd, Mapping(e, j)) + One(w, Mapping(e, j))
    BY DEF PipesFollow
  <2>1. One(NoFd, Mapping(e, j)) = 0 /\ Entry(ps1, j, NoPipe).ends[e] \in Nat
    BY <1>6, NoFdCountsNothing, PipeEntry
  <2>2. CASE j = i
    <3>1. Entry(ps2, j, NoPipe).ends[e] = 1 /\ Entry(ps1, j, NoPipe).ends[e] = half.ends[e]
      BY <1>4, <1>6, <1>7, <2>2
    <3>2. e = "READ" \/ e = "WRITE"  BY DEF End
    <3> QED  BY <1>3, <1>4, <2>1, <2>2, <3>1, <3>2
  <2>3. CASE j # i
    <3>1. Entry(ps2, j, NoPipe) = Entry(ps1, j, NoPipe)  BY <1>6, <1>7, <2>3
    <3> QED  BY <1>3, <2>1, <2>3, <3>1
  <2> QED  BY <2>2, <2>3
<1>10. FreeFd(F[p]) <= MaxFds
  <2>1. FreeFd(F[p]) \in Nat /\ FreeFd(f) \in Nat /\ FreeFd(F[p]) <= FreeFd(f)
    BY <1>1, <1>3, FreeFdGrows DEF NoFd, End, r
  <2> QED  BY <2>1, PipesAssumption
<1>11. Tables(G, N, ps1)
  <2>1. Tables([F EXCEPT ![p] = WithFd(F[p], r)], N, ps1)
    BY <1>3, <1>6, <1>8, <1>10, EndAdded
  <2> QED  BY <2>1 DEF r
<1>12. G[p] = f /\ [G EXCEPT ![p] = WithFd(f, w)] = [F EXCEPT ![p] = WithFd(f, w)]
  BY <1>1
<1> HIDE DEF G
<1>13. Tables([G EXCEPT ![p] = WithFd(G[p], w)], N, ps2)
  <2>1. FreeFd(G[p]) <= MaxFds  BY <1>12
  <2> QED  BY <1>3, <1>7, <1>9, <1>11, <2>1, EndAdded
<1> QED  BY <1>12, <1>13 DEF w, ps2

\* A pipe that is open gets other contents.
LEMMA BufTables ==
    ASSUME NEW F, NEW N, NEW ps, Tables(F, N, ps), NEW i \in DOMAIN ps, NEW e \in End,
           ps[i].ends[e] # 0, NEW b \in Nat
    PROVE  Tables(F, N, [ps EXCEPT ![i].buf = b])
<1> DEFINE x == [ps[i] EXCEPT !.buf = b]
           c == [ps EXCEPT ![i] = x]
<1>1. [ps EXCEPT ![i].buf = b] = c  OBVIOUS
<1>2. ps \in Seq(ProcessPipe) /\ EndsInSome(ps, NoPipe) /\ Held(ps) /\ EndsCounted(F, ps)
  BY DEF Tables, Shape
<1>3. ps[i] \in ProcessPipe  BY <1>2
<1>4. x \in ProcessPipe /\ x.ends = ps[i].ends  BY <1>3 DEF ProcessPipe
<1>5. x # NoPipe  BY <1>4 DEF NoPipe
<1> HIDE DEF x
<1>6. c \in Seq(ProcessPipe) /\ EndsInSome(c, NoPipe)
      /\ DOMAIN c = DOMAIN ps /\ \A j \in DOMAIN ps : c[j] = IF j = i THEN x ELSE ps[j]
  BY <1>2, <1>4, <1>5, ExceptSeq, ReplacedTrimmed
<1>7. \A j \in Nat : Entry(c, j, NoPipe).ends = Entry(ps, j, NoPipe).ends  BY <1>4 DEF Entry
<1> HIDE DEF c
<1>8. Held(c)  BY <1>2, <1>4, <1>6 DEF Held
<1>9. EndsCounted(F, c)  BY <1>2, <1>7 DEF EndsCounted
<1>10. Tables(F, N, c)  BY <1>6, <1>8, <1>9 DEF Tables, Shape
<1> QED  BY <1>1, <1>10

\* Neither the old nor the new descriptors of p are of pipes, and its nodes are counted.
LEMMA InertTables ==
    ASSUME NEW F, NEW N, NEW ps, Tables(F, N, ps), NEW p \in Procs,
           \A k \in Nat : Entry(F[p], k, NoFd).kind \notin End,
           NEW g \in Seq(FdMapping), Len(g) <= MaxFds, EndsInSome(g, NoFd),
           \A k \in Nat : Entry(g, k, NoFd).kind \notin End,
           NEW n1 \in Seq(Nat), EndsInSome(n1, 0),
           \A n \in Nat : Entry(n1, n, 0) = Cardinality(NodeFds(g, n))
    PROVE  Tables([F EXCEPT ![p] = g], [N EXCEPT ![p] = n1], ps)
<1> DEFINE G == [F EXCEPT ![p] = g]
           M == [N EXCEPT ![p] = n1]
<1>1. /\ F \in [Procs -> Seq(FdMapping)] /\ N \in [Procs -> Seq(Nat)] /\ ps \in Seq(ProcessPipe)
      /\ \A q \in Procs : Len(F[q]) <= MaxFds /\ EndsInSome(F[q], NoFd) /\ EndsInSome(N[q], 0)
      /\ EndsCounted(F, ps) /\ NodesCounted(F, N) /\ Held(ps) /\ EndsInSome(ps, NoPipe)
  BY DEF Tables, Shape
<1>2. /\ G \in [Procs -> Seq(FdMapping)] /\ M \in [Procs -> Seq(Nat)]
      /\ G[p] = g /\ M[p] = n1
      /\ \A q \in Procs : q # p => G[q] = F[q] /\ M[q] = N[q]
  BY <1>1
<1> HIDE DEF G, M
<1>3. Shape(G, M, ps)  BY <1>1, <1>2 DEF Shape
<1>4. EndsCounted(G, ps)
  <2> SUFFICES ASSUME NEW i \in Nat, NEW e \in End
               PROVE  HoldersIn(G, i, e) = HoldersIn(F, i, e)
    BY <1>1 DEF EndsCounted
  <2>1. 1..MaxFds \subseteq Nat /\ \A f, k : Entry(f, k, NoFd) = Mapping(e, i) =>
                                                 Entry(f, k, NoFd).kind \in End
    BY PipesAssumption DEF Mapping
  <2>2. \A q \in Procs, k \in 1..MaxFds :
           Entry(G[q], k, NoFd) = Mapping(e, i) <=> Entry(F[q], k, NoFd) = Mapping(e, i)
    <3> SUFFICES ASSUME NEW q \in Procs, NEW k \in 1..MaxFds
                 PROVE  Entry(G[q], k, NoFd) = Mapping(e, i) <=> Entry(F[q], k, NoFd) = Mapping(e, i)
      OBVIOUS
    <3>1. CASE q = p  BY <1>2, <2>1, <3>1
    <3>2. CASE q # p  BY <1>2, <3>2
    <3> QED  BY <3>1, <3>2
  <2> QED  BY <2>2 DEF HoldersIn
<1>5. NodesCounted(G, M)  BY <1>1, <1>2 DEF NodesCounted
<1> QED  BY <1>1, <1>3, <1>4, <1>5 DEF Tables, G, M

\* What fork does to the pipes.
LEMMA ForkedPipesEntries ==
    ASSUME NEW ps \in Seq(ProcessPipe), EndsInSome(ps, NoPipe), Held(ps), NEW f \in Seq(FdMapping)
    PROVE  /\ ForkedPipes(ps, f) \in Seq(ProcessPipe) /\ DOMAIN ForkedPipes(ps, f) = DOMAIN ps
           /\ EndsInSome(ForkedPipes(ps, f), NoPipe) /\ Held(ForkedPipes(ps, f))
           /\ \A i \in DOMAIN ps, e \in End : ForkedPipes(ps, f)[i].ends[e] =
                 ps[i].ends[e] + Cardinality({fd \in DOMAIN f : f[fd] = Mapping(e, i)})
<1> DEFINE n(e, i) == Cardinality({fd \in DOMAIN f : f[fd] = Mapping(e, i)})
           x(i) == [ps[i] EXCEPT !.ends = [e \in End |-> ps[i].ends[e] + n(e, i)]]
           c == ForkedPipes(ps, f)
<1>1. \A e, i : n(e, i) \in Nat
  <2> SUFFICES ASSUME NEW e, NEW i  PROVE n(e, i) \in Nat  OBVIOUS
  <2>1. DOMAIN f = 1..Len(f) /\ Len(f) \in Nat  OBVIOUS
  <2>2. IsFiniteSet(DOMAIN f)  BY <2>1, FS_Interval
  <2>3. {fd \in DOMAIN f : f[fd] = Mapping(e, i)} \subseteq DOMAIN f  OBVIOUS
  <2> QED  BY <2>2, <2>3, FS_Subset, FS_CardinalityType
<1>2. c = [i \in DOMAIN ps |-> x(i)]  BY DEF ForkedPipes, Mapping
<1> HIDE DEF n, c
<1>3. \A i \in DOMAIN ps : /\ ps[i] \in ProcessPipe /\ ps[i].buf \in Nat
                           /\ \A e \in End : ps[i].ends[e] \in Nat
  <2>1. \A i \in DOMAIN ps : ps[i] \in ProcessPipe  OBVIOUS
  <2> QED  BY <2>1 DEF ProcessPipe
<1>4. \A i \in DOMAIN ps : /\ x(i) \in ProcessPipe /\ x(i).buf = ps[i].buf
                           /\ \A e \in End : x(i).ends[e] = ps[i].ends[e] + n(e, i)
  <2> SUFFICES ASSUME NEW i \in DOMAIN ps
               PROVE  /\ x(i) \in ProcessPipe /\ x(i).buf = ps[i].buf
                      /\ \A e \in End : x(i).ends[e] = ps[i].ends[e] + n(e, i)
    OBVIOUS
  <2> DEFINE y == [e \in End |-> ps[i].ends[e] + n(e, i)]
  <2>1. y \in [End -> Nat] /\ \A e \in End : y[e] = ps[i].ends[e] + n(e, i)  BY <1>1, <1>3
  <2>2. x(i) = [ps[i] EXCEPT !.ends = y] /\ ps[i] \in ProcessPipe  BY <1>3
  <2> HIDE DEF y, x
  <2> QED  BY <2>1, <2>2 DEF ProcessPipe
<1> HIDE DEF x
<1>5. DOMAIN c = DOMAIN ps /\ \A i \in DOMAIN ps : c[i] = x(i)  BY <1>2
<1>6. DOMAIN ps = 1..Len(ps) /\ Len(ps) \in Nat  OBVIOUS
<1>7. c \in Seq(ProcessPipe) /\ Len(c) = Len(ps)  BY <1>2, <1>4, <1>6
<1>8. \A i \in DOMAIN ps : (\A e \in End : x(i).ends[e] = 0) => ps[i] = NoPipe /\ x(i) = NoPipe
  <2> SUFFICES ASSUME NEW i \in DOMAIN ps, \A e \in End : x(i).ends[e] = 0
               PROVE  ps[i] = NoPipe /\ x(i) = NoPipe
    OBVIOUS
  <2>1. \A e \in End : ps[i].ends[e] = 0
    <3> SUFFICES ASSUME NEW e \in End  PROVE ps[i].ends[e] = 0  OBVIOUS
    <3>1. x(i).ends[e] = ps[i].ends[e] + n(e, i) /\ x(i).ends[e] = 0  BY <1>4
    <3>2. ps[i].ends[e] \in Nat /\ n(e, i) \in Nat  BY <1>1, <1>3
    <3> QED  BY <3>1, <3>2
  <2>2. ps[i] = NoPipe  BY <2>1 DEF Held
  <2>3. x(i) \in ProcessPipe /\ x(i).buf = 0  BY <1>4, <2>2 DEF NoPipe
  <2>4. x(i).ends = [e \in End |-> 0]
    <3>1. x(i).ends \in [End -> Nat]  BY <2>3 DEF ProcessPipe
    <3> QED  BY <3>1
  <2>5. x(i) = [buf |-> 0, ends |-> [e \in End |-> 0]]  BY <2>3, <2>4 DEF ProcessPipe
  <2> QED  BY <2>2, <2>5 DEF NoPipe
<1>9. Held(c)  BY <1>5, <1>8 DEF Held
<1>10. EndsInSome(c, NoPipe)
  <2> SUFFICES ASSUME c # <<>>, c[Len(c)] = NoPipe  PROVE FALSE  BY DEF EndsInSome
  <2> DEFINE l == Len(ps)
  <2>1. l # 0 /\ l \in DOMAIN ps /\ c[l] = NoPipe
    <3>1. Len(c) # 0 /\ Len(c) = l  BY <1>7
    <3> QED  BY <1>6, <3>1
  <2>2. ps # <<>>  BY <2>1
  <2>3. \A e \in End : x(l).ends[e] = 0  BY <1>5, <2>1 DEF NoPipe
  <2>4. ps[l] = NoPipe  BY <1>8, <2>1, <2>3
  <2> QED  BY <2>2, <2>4 DEF EndsInSome
<1>11. \A i \in DOMAIN ps, e \in End : c[i].ends[e] = ps[i].ends[e] + n(e, i)  BY <1>4, <1>5
<1> QED  BY <1>5, <1>7, <1>9, <1>10, <1>11 DEF c, n

\* fork keeps the tables: c, which had nothing, gets a copy of what p has.
LEMMA ForkTables ==
    ASSUME NEW F, NEW N, NEW ps, Tables(F, N, ps), NEW p \in Procs, NEW c \in Procs, c # p,
           F[c] = <<>>, N[c] = <<>>
    PROVE  Tables([F EXCEPT ![c] = F[p]], [N EXCEPT ![c] = N[p]], ForkedPipes(ps, F[p]))
<1> DEFINE G == [F EXCEPT ![c] = F[p]]
           M == [N EXCEPT ![c] = N[p]]
           ps1 == ForkedPipes(ps, F[p])
           Own(e, i) == {k \in DOMAIN F[p] : F[p][k] = Mapping(e, i)}
<1>1. /\ F \in [Procs -> Seq(FdMapping)] /\ N \in [Procs -> Seq(Nat)] /\ ps \in Seq(ProcessPipe)
      /\ \A q \in Procs : Len(F[q]) <= MaxFds /\ EndsInSome(F[q], NoFd) /\ EndsInSome(N[q], 0)
      /\ EndsCounted(F, ps) /\ NodesCounted(F, N) /\ Held(ps) /\ EndsInSome(ps, NoPipe)
  BY DEF Tables, Shape
<1>2. /\ G \in [Procs -> Seq(FdMapping)] /\ M \in [Procs -> Seq(Nat)]
      /\ G[c] = F[p] /\ M[c] = N[p]
      /\ \A q \in Procs : q # c => G[q] = F[q] /\ M[q] = N[q]
  BY <1>1
<1>3. /\ ps1 \in Seq(ProcessPipe) /\ DOMAIN ps1 = DOMAIN ps
      /\ EndsInSome(ps1, NoPipe) /\ Held(ps1)
      /\ \A i \in DOMAIN ps, e \in End : ps1[i].ends[e] = ps[i].ends[e] + Cardinality(Own(e, i))
  <2>1. F[p] \in Seq(FdMapping)  BY <1>1
  <2> QED  BY <1>1, <2>1, ForkedPipesEntries
<1> HIDE DEF G, M, ps1
<1>4. Shape(G, M, ps1)  BY <1>1, <1>2, <1>3 DEF Shape
<1>5. NodesCounted(G, M)  BY <1>1, <1>2 DEF NodesCounted
<1>6. \A k \in Nat : Entry(F[c], k, NoFd) = NoFd  BY DEF Entry
<1>7. DOMAIN F[p] \subseteq 1..MaxFds /\ IsFiniteSet(1..MaxFds) /\ 1..MaxFds \subseteq Nat
  <2>1. F[p] \in Seq(FdMapping) /\ Len(F[p]) <= MaxFds  BY <1>1
  <2>2. DOMAIN F[p] = 1..Len(F[p]) /\ Len(F[p]) \in Nat  BY <2>1
  <2>3. DOMAIN F[p] \subseteq 1..MaxFds  BY <2>1, <2>2, PipesAssumption
  <2>4. IsFiniteSet(1..MaxFds) /\ 1..MaxFds \subseteq Nat  BY PipesAssumption, FS_Interval
  <2> QED  BY <2>3, <2>4
<1>8. EndsCounted(G, ps1)
  <2> SUFFICES ASSUME NEW i \in Nat, NEW e \in End
               PROVE  Entry(ps1, i, NoPipe).ends[e] = Cardinality(HoldersIn(G, i, e))
    BY DEF EndsCounted
  <2> DEFINE S == HoldersIn(F, i, e)
             T == {c} \X Own(e, i)
             m == Mapping(e, i)
  <2>0. m # NoFd  BY DEF Mapping, NoFd, End
  <2>1. HoldersIn(G, i, e) = S \cup T /\ S \cap T = {}
    <3>1. \A q \in Procs, k \in 1..MaxFds :
             /\ <<q, k>> \in HoldersIn(G, i, e) <=> Entry(G[q], k, NoFd) = m
             /\ <<q, k>> \in S <=> Entry(F[q], k, NoFd) = m
             /\ <<q, k>> \in T <=> q = c /\ Entry(F[p], k, NoFd) = m
      BY <2>0 DEF HoldersIn, Entry
    <3>2. HoldersIn(G, i, e) \subseteq Procs \X (1..MaxFds) /\ S \subseteq Procs \X (1..MaxFds)
          /\ T \subseteq Procs \X (1..MaxFds)
      BY <1>7 DEF HoldersIn
    <3> HIDE DEF S, T, m
    <3>3. \A q \in Procs, k \in 1..MaxFds :
             /\ <<q, k>> \in HoldersIn(G, i, e) <=> <<q, k>> \in S \/ <<q, k>> \in T
             /\ ~(<<q, k>> \in S /\ <<q, k>> \in T)
      <4> SUFFICES ASSUME NEW q \in Procs, NEW k \in 1..MaxFds
                   PROVE  /\ <<q, k>> \in HoldersIn(G, i, e) <=> <<q, k>> \in S \/ <<q, k>> \in T
                          /\ ~(<<q, k>> \in S /\ <<q, k>> \in T)
        OBVIOUS
      <4>1. CASE q = c
        <5>1. G[q] = F[p] /\ Entry(F[q], k, NoFd) # m  BY <1>2, <1>6, <1>7, <2>0, <4>1
        <5> QED  BY <3>1, <4>1, <5>1
      <4>2. CASE q # c
        <5>1. G[q] = F[q]  BY <1>2, <4>2
        <5> QED  BY <3>1, <4>2, <5>1
      <4> QED  BY <4>1, <4>2
    <3> QED  BY <3>2, <3>3
  <2>2. IsFiniteSet(S) /\ IsFiniteSet(T) /\ Cardinality(T) = Cardinality(Own(e, i))
        /\ Cardinality(S) \in Nat /\ Cardinality(Own(e, i)) \in Nat
    <3> DEFINE O == Own(e, i)
    <3>1. O \subseteq 1..MaxFds  BY <1>7
    <3> HIDE DEF O
    <3>2. IsFiniteSet(O) /\ Cardinality(O) \in Nat  BY <1>7, <3>1, FS_Subset, FS_CardinalityType
    <3>3. IsFiniteSet({c}) /\ Cardinality({c}) = 1  BY FS_Singleton
    <3>4. IsFiniteSet({c} \X O) /\ Cardinality({c} \X O) = 1 * Cardinality(O)
      BY <3>2, <3>3, FS_Product
    <3> QED  BY <3>2, <3>4, HoldersFinite DEF O
  <2>3. Cardinality(HoldersIn(G, i, e)) = Cardinality(S) + Cardinality(Own(e, i))
    <3> HIDE DEF S, T, Own
    <3>1. Cardinality(S \cup T) = Cardinality(S) + Cardinality(T) - Cardinality(S \cap T)
      BY <2>2, FS_Union
    <3>2. Cardinality(S \cap T) = 0  BY <2>1, FS_EmptySet
    <3> QED  BY <2>1, <2>2, <3>1, <3>2
  <2>4. Entry(ps, i, NoPipe).ends[e] = Cardinality(S)  BY <1>1 DEF EndsCounted
  <2>5. CASE i \in DOMAIN ps  BY <1>3, <2>3, <2>4, <2>5 DEF Entry
  <2>6. CASE i \notin DOMAIN ps
    <3>1. Cardinality(S) = 0 /\ Entry(ps1, i, NoPipe).ends[e] = 0
      BY <1>3, <2>4, <2>6 DEF Entry, NoPipe
    <3>2. Own(e, i) = {}
      <4> SUFFICES ASSUME NEW k \in Own(e, i)  PROVE FALSE  OBVIOUS
      <4>1. k \in 1..MaxFds /\ Entry(F[p], k, NoFd) = Mapping(e, i)  BY <1>7 DEF Entry
      <4>2. Cardinality(S) >= 1  BY <4>1, Counted
      <4> QED  BY <3>1, <4>2
    <3>3. Cardinality(Own(e, i)) = 0  BY <3>2, FS_EmptySet
    <3> QED  BY <2>3, <3>1, <3>3
  <2> QED  BY <2>5, <2>6
<1> QED  BY <1>3, <1>4, <1>5, <1>8 DEF Tables, G, M, ps1

(***************************************************************************)
(* The inductive invariant                                                 *)
(***************************************************************************)

\* A process in the middle of a read still has the descriptor it reads from.
Blocked ==
    \A p \in Procs :
        /\ pending[p] # NoRead =>
              /\ state[p] \in {"RUNNING", "WAITING_FOR_READ_PIPE"}
              /\ pending[p].fd \in DOMAIN fds[p]
              /\ fds[p][pending[p].fd] = PipeReadEnd(pending[p].pipe)
        /\ state[p] = "WAITING_FOR_READ_PIPE" => pending[p] # NoRead

\* One process is dropped at a time; fd_mappings keeps its length until the loop comes
\* to its last entry, and no pipe is open below the descriptor the loop is at.
Dropping ==
    /\ \A p, q \in Procs : state[p] = "DROPPING" /\ state[q] = "DROPPING" => p = q
    /\ \A p \in Procs :
         state[p] = "DROPPING" =>
             /\ dropFd >= 1
             /\ Len(fds[p]) <= dropEnd
             /\ dropFd <= dropEnd => Len(fds[p]) = dropEnd
             /\ \A k \in DOMAIN fds[p] : k < dropFd => fds[p][k].kind \notin End

\* A process that is gone has nothing.
Gone == \A p \in Procs : state[p] = "NONE" => fds[p] = <<>> /\ nodes[p] = <<>>

TablesInv == TypeOK /\ Tables(fds, nodes, pipes) /\ Blocked /\ Dropping /\ Gone

\* A system call that changes only the tables of its caller, and keeps them.
LEMMA CallKeeps ==
    ASSUME TablesInv, NEW p \in Procs, Calls(p), Tables(fds', nodes', pipes'),
           \A q \in Procs : q # p => fds'[q] = fds[q] /\ nodes'[q] = nodes[q],
           UNCHANGED <<state, pending, dropFd, dropEnd, panic>>
    PROVE  TablesInv'
<1>1. TypeOK /\ Blocked /\ Gone  BY DEF TablesInv
<1>2. TypeOK'  BY <1>1 DEF TypeOK, Tables, Shape
<1>3. \A q \in Procs : state[q] # "DROPPING"  BY DEF Calls, Idle
<1>4. state[p] = "RUNNING" /\ pending[p] = NoRead  BY DEF Calls
<1>5. Blocked'  BY <1>1, <1>4 DEF Blocked
<1>6. Dropping'  BY <1>3 DEF Dropping
<1>7. Gone'  BY <1>1, <1>4 DEF Gone
<1> QED  BY <1>2, <1>5, <1>6, <1>7 DEF TablesInv

\* A step that changes only the contents of pipes, and the read p is in the middle of.
LEMMA BufKeeps ==
    ASSUME TablesInv, NEW p \in Procs, Tables(fds, nodes, pipes'),
           pending' = pending \/ (state[p] = "RUNNING" /\ pending' = [pending EXCEPT ![p] = NoRead]),
           UNCHANGED <<fds, nodes, state, dropFd, dropEnd, panic>>
    PROVE  TablesInv'
<1>1. TypeOK /\ Blocked /\ Gone /\ Dropping  BY DEF TablesInv
<1>2. NoRead \in PendingRead  BY DEF NoRead, PendingRead
<1>3. pending' \in [Procs -> PendingRead]  BY <1>1, <1>2 DEF TypeOK
<1>4. TypeOK'  BY <1>1, <1>3 DEF TypeOK, Tables, Shape
<1>5. Blocked'
  <2>1. CASE pending' = pending  BY <1>1, <2>1 DEF Blocked
  <2>2. CASE state[p] = "RUNNING" /\ pending' = [pending EXCEPT ![p] = NoRead]
    <3>1. pending'[p] = NoRead /\ \A q \in Procs : q # p => pending'[q] = pending[q]
      BY <1>1, <2>2 DEF TypeOK
    <3> QED  BY <1>1, <2>2, <3>1 DEF Blocked
  <2> QED  BY <2>1, <2>2
<1>6. Dropping' /\ Gone'  BY <1>1 DEF Dropping, Gone
<1>7. Tables(fds', nodes', pipes')  OBVIOUS
<1> QED  BY <1>4, <1>5, <1>6, <1>7 DEF TablesInv

LEMMA InitTables == Init => TablesInv
<1> SUFFICES ASSUME Init  PROVE TablesInv  OBVIOUS
<1> USE DEF Init
<1>1. TypeOK
  BY DEF TypeOK, ProcessState, NoRead, PendingRead
<1>2. Shape(fds, nodes, pipes) /\ Held(pipes)
  BY PipesAssumption DEF Shape, Held, EndsInSome
<1>3. \A p \in Procs, k \in Nat : Entry(fds[p], k, NoFd) = NoFd  BY DEF Entry
<1>4. EndsCounted(fds, pipes)
  <2> SUFFICES ASSUME NEW i \in Nat, NEW e \in End
               PROVE  Entry(pipes, i, NoPipe).ends[e] = Cardinality(HoldersIn(fds, i, e))
    BY DEF EndsCounted
  <2>1. Entry(pipes, i, NoPipe).ends[e] = 0  BY DEF Entry, NoPipe
  <2>2. NoFd # Mapping(e, i) /\ 1..MaxFds \subseteq Nat  BY PipesAssumption DEF NoFd, Mapping, End
  <2>3. HoldersIn(fds, i, e) = {}  BY <1>3, <2>2 DEF HoldersIn
  <2> QED  BY <2>1, <2>3, FS_EmptySet
<1>5. NodesCounted(fds, nodes)
  <2> SUFFICES ASSUME NEW p \in Procs, NEW n \in Nat
               PROVE  Entry(nodes[p], n, 0) = Cardinality(NodeFds(fds[p], n))
    BY DEF NodesCounted
  <2>1. Entry(nodes[p], n, 0) = 0  BY DEF Entry
  <2>2. NoFd # Regular(n) /\ 1..MaxFds \subseteq Nat  BY PipesAssumption DEF NoFd, Regular
  <2>3. NodeFds(fds[p], n) = {}  BY <1>3, <2>2 DEF NodeFds
  <2> QED  BY <2>1, <2>3, FS_EmptySet
<1>6. Blocked /\ Dropping /\ Gone  BY DEF Blocked, Dropping, Gone
<1> QED  BY <1>1, <1>2, <1>4, <1>5, <1>6 DEF TablesInv, Tables

\* The steps of a process.
LEMMA LaunchKeeps == ASSUME TablesInv, NEW p \in Procs, Launch(p)  PROVE TablesInv'
<1> DEFINE g == [k \in 1..StdFds |-> IF k = 1 THEN Stdin ELSE Stdout]
<1>1. TypeOK /\ Tables(fds, nodes, pipes) /\ Blocked /\ Gone  BY DEF TablesInv
<1>2. /\ \A q \in Procs : state[q] = "NONE" /\ fds[q] = <<>> /\ nodes[q] = <<>>
      /\ state' = [state EXCEPT ![p] = "RUNNING"] /\ fds' = [fds EXCEPT ![p] = g]
      /\ UNCHANGED <<nodes, pipes, pending, dropFd, dropEnd, panic>>
  BY <1>1 DEF Launch, Gone
<1>3. \A m \in {Stdin, Stdout} :
        m \in FdMapping /\ m # NoFd /\ m.kind \notin End /\ \A n \in Nat : m # Regular(n)
  BY DEF Stdin, Stdout, FdMapping, NoFd, End, Regular
<1>4. StdFds \in Nat /\ StdFds <= MaxFds  BY PipesAssumption
<1>5. g \in Seq(FdMapping) /\ Len(g) = StdFds /\ DOMAIN g = 1..StdFds
  <2> HIDE DEF Stdin, Stdout
  <2> QED  BY <1>3, <1>4
<1>6. \A k \in Nat : Entry(g, k, NoFd) \in {Stdin, Stdout, NoFd}  BY <1>5 DEF Entry
<1>7. EndsInSome(g, NoFd)
  <2> SUFFICES ASSUME g # <<>>  PROVE g[Len(g)] # NoFd  BY DEF EndsInSome
  <2>1. StdFds # 0  BY <1>5
  <2> QED  BY <1>3, <1>4, <1>5, <2>1
<1>8. \A n \in Nat : Entry(nodes[p], n, 0) = Cardinality(NodeFds(g, n))
  <2> SUFFICES ASSUME NEW n \in Nat  PROVE Entry(nodes[p], n, 0) = Cardinality(NodeFds(g, n))
    OBVIOUS
  <2>1. NoFd # Regular(n) /\ 1..MaxFds \subseteq Nat  BY PipesAssumption DEF NoFd, Regular
  <2>2. NodeFds(g, n) = {}
    <3> HIDE DEF g
    <3> QED  BY <1>3, <1>6, <2>1 DEF NodeFds
  <2>3. Entry(nodes[p], n, 0) = 0  BY <1>2 DEF Entry
  <2> QED  BY <2>2, <2>3, FS_EmptySet
<1>9. NoFd.kind \notin End  BY DEF NoFd, End
<1>10. \A k \in Nat : Entry(fds[p], k, NoFd).kind \notin End  BY <1>2, <1>9 DEF Entry
<1>11. nodes[p] \in Seq(Nat) /\ EndsInSome(nodes[p], 0) /\ [nodes EXCEPT ![p] = nodes[p]] = nodes
  BY <1>1 DEF TypeOK, Tables, Shape
<1>12. \A k \in Nat : Entry(g, k, NoFd).kind \notin End  BY <1>3, <1>6, <1>9
<1> HIDE DEF g
<1>13. Tables([fds EXCEPT ![p] = g], [nodes EXCEPT ![p] = nodes[p]], pipes)
  <2>1. Len(g) <= MaxFds  BY <1>4, <1>5
  <2> QED  BY <1>1, <1>5, <1>7, <1>8, <1>10, <1>11, <1>12, <2>1, InertTables
<1>14. Tables(fds', nodes', pipes')  BY <1>2, <1>11, <1>13
<1>15. state' \in [Procs -> ProcessState] /\ state'[p] = "RUNNING"
       /\ \A q \in Procs : q # p => state'[q] = "NONE"
  BY <1>1, <1>2 DEF TypeOK, ProcessState
<1>16. TypeOK'  BY <1>1, <1>2, <1>14, <1>15 DEF TypeOK, Tables, Shape
<1>17. \A q \in Procs : pending[q] = NoRead  BY <1>1, <1>2 DEF Blocked
<1>18. Blocked' /\ Dropping'  BY <1>2, <1>15, <1>17 DEF Blocked, Dropping
<1>19. Gone'
  <2>1. \A q \in Procs : q # p => fds'[q] = <<>> /\ nodes'[q] = <<>>  BY <1>1, <1>2 DEF TypeOK
  <2> QED  BY <1>15, <2>1 DEF Gone
<1> QED  BY <1>14, <1>16, <1>18, <1>19 DEF TablesInv

LEMMA OpenKeeps == ASSUME TablesInv, NEW p \in Procs, Open(p)  PROVE TablesInv'
<1> DEFINE n == FirstFree(nodes[p], SomeNodes(nodes[p]))
           g == WithFd(fds[p], Regular(n))
           n1 == Put(nodes[p], n, 1)
<1>1. TypeOK /\ Tables(fds, nodes, pipes)  BY DEF TablesInv
<1>2. /\ Calls(p) /\ FreeFd(fds[p]) <= MaxFds
      /\ nodes' = [nodes EXCEPT ![p] = n1] /\ fds' = [fds EXCEPT ![p] = g]
      /\ UNCHANGED <<pipes, state, pending, dropFd, dropEnd, panic>>
  BY DEF Open
<1>3. Tables([fds EXCEPT ![p] = g], [nodes EXCEPT ![p] = n1], pipes)  BY <1>1, <1>2, OpenTables
<1> HIDE DEF g, n1
<1>4. Tables(fds', nodes', pipes')  BY <1>2, <1>3
<1>5. \A q \in Procs : q # p => fds'[q] = fds[q] /\ nodes'[q] = nodes[q]
  BY <1>1, <1>2 DEF TypeOK
<1> QED  BY <1>2, <1>4, <1>5, CallKeeps

\* close(fd) on the tables of p.
LEMMA CloseFdTables ==
    ASSUME TablesInv, NEW p \in Procs, NEW fd \in SomeFds(fds[p]), CloseFd(p, fd)
    PROVE  /\ Tables(fds', nodes', pipes')
           /\ fds' = [fds EXCEPT ![p] = ClosedFds(fds[p], fd)]
           /\ \A q \in Procs : q # p => fds'[q] = fds[q] /\ nodes'[q] = nodes[q]
<1> DEFINE m == fds[p][fd]
           g == ClosedFds(fds[p], fd)
           n1 == ClosedNodes(nodes[p], m)
<1>1. TypeOK /\ Tables(fds, nodes, pipes)  BY DEF TablesInv
<1>2. /\ pipes' = ClosedPipes(pipes, m)
      /\ nodes' = [nodes EXCEPT ![p] = n1] /\ fds' = [fds EXCEPT ![p] = g]
  BY DEF CloseFd
<1>3. Tables([fds EXCEPT ![p] = g], [nodes EXCEPT ![p] = n1], ClosedPipes(pipes, m))
  BY <1>1, CloseTables
<1> HIDE DEF n1, m
<1>4. Tables(fds', nodes', pipes')  BY <1>2, <1>3
<1>5. \A q \in Procs : q # p => fds'[q] = fds[q] /\ nodes'[q] = nodes[q]
  BY <1>1, <1>2 DEF TypeOK
<1> QED  BY <1>2, <1>4, <1>5

LEMMA CloseKeeps == ASSUME TablesInv, NEW p \in Procs, Close(p)  PROVE TablesInv'
<1>1. PICK fd \in SomeFds(fds[p]) : CloseFd(p, fd)  BY DEF Close
<1>2. Calls(p) /\ UNCHANGED <<state, pending, dropFd, dropEnd, panic>>  BY DEF Close
<1>3. /\ Tables(fds', nodes', pipes')
      /\ \A q \in Procs : q # p => fds'[q] = fds[q] /\ nodes'[q] = nodes[q]
  BY <1>1, CloseFdTables
<1> QED  BY <1>2, <1>3, CallKeeps

LEMMA DupKeeps == ASSUME TablesInv, NEW p \in Procs, Dup(p)  PROVE TablesInv'
<1>1. TypeOK /\ Tables(fds, nodes, pipes)  BY DEF TablesInv
<1>2. /\ Calls(p) /\ FreeFd(fds[p]) <= MaxFds
      /\ UNCHANGED <<state, pending, dropFd, dropEnd, panic>>
  BY DEF Dup
<1>3. PICK fd \in SomeFds(fds[p]) :
         /\ pipes' = ReferencedPipes(pipes, fds[p][fd])
         /\ nodes' = [nodes EXCEPT ![p] = ReferencedNodes(nodes[p], fds[p][fd])]
         /\ fds' = [fds EXCEPT ![p] = WithFd(fds[p], fds[p][fd])]
  BY DEF Dup
<1>4. Tables(fds', nodes', pipes')
  <2>1. Tables([fds EXCEPT ![p] = WithFd(fds[p], fds[p][fd])],
               [nodes EXCEPT ![p] = ReferencedNodes(nodes[p], fds[p][fd])],
               ReferencedPipes(pipes, fds[p][fd]))
    BY <1>1, <1>2, DupTables
  <2> QED  BY <1>3, <2>1
<1>5. \A q \in Procs : q # p => fds'[q] = fds[q] /\ nodes'[q] = nodes[q]
  BY <1>1, <1>3 DEF TypeOK
<1> QED  BY <1>2, <1>4, <1>5, CallKeeps

LEMMA PipeKeeps == ASSUME TablesInv, NEW p \in Procs, Pipe(p)  PROVE TablesInv'
<1> DEFINE i == Len(pipes) + 1
           f == WithFd(fds[p], PipeReadEnd(i))
           g == WithFd(f, PipeWriteEnd(i))
<1>1. TypeOK /\ Tables(fds, nodes, pipes)  BY DEF TablesInv
<1>2. /\ Calls(p) /\ FreeFd(f) <= MaxFds
      /\ pipes' = Append(pipes, NewPipe) /\ fds' = [fds EXCEPT ![p] = g]
      /\ UNCHANGED <<nodes, state, pending, dropFd, dropEnd, panic>>
  BY DEF Pipe
<1>3. Tables([fds EXCEPT ![p] = g], nodes, Append(pipes, NewPipe))  BY <1>1, <1>2, PipeTables
<1> HIDE DEF g
<1>4. Tables(fds', nodes', pipes')  BY <1>2, <1>3
<1>5. \A q \in Procs : q # p => fds'[q] = fds[q] /\ nodes'[q] = nodes[q]
  BY <1>1, <1>2 DEF TypeOK
<1>6. UNCHANGED <<state, pending, dropFd, dropEnd, panic>>  BY <1>2
<1> QED  BY <1>2, <1>4, <1>5, <1>6, CallKeeps

LEMMA Dup2Keeps == ASSUME TablesInv, NEW p \in Procs, Dup2(p)  PROVE TablesInv'
<1>1. TypeOK /\ Tables(fds, nodes, pipes)  BY DEF TablesInv
<1>2. Calls(p) /\ UNCHANGED <<state, pending, dropFd, dropEnd, panic>>  BY DEF Dup2
<1>3. PICK oldfd \in SomeFds(fds[p]), newfd \in 1..MaxFds :
         LET m == fds[p][oldfd]
             closed == AfterClose(p, newfd)
         IN  /\ Resolves(m, closed.nodes, closed.pipes)
             /\ pipes' = ReferencedPipes(closed.pipes, m)
             /\ nodes' = [nodes EXCEPT ![p] = ReferencedNodes(closed.nodes, m)]
             /\ fds' = [fds EXCEPT ![p] = Dup2Fds(closed.fds, newfd, m)]
  BY DEF Dup2
<1> DEFINE m == fds[p][oldfd]
           closed == AfterClose(p, newfd)
           F == [fds EXCEPT ![p] = closed.fds]
           N == [nodes EXCEPT ![p] = closed.nodes]
           ps == closed.pipes
<1>4. m \in FdMapping /\ m # NoFd
  <2>1. oldfd \in DOMAIN fds[p] /\ m # NoFd  BY DEF SomeFds
  <2> QED  BY <1>1, <2>1, MappingCounted
<1>5. Tables(F, N, ps) /\ Entry(F[p], newfd, NoFd) = NoFd
  <2>1. CASE IsOpen(p, newfd)
    <3> DEFINE o == fds[p][newfd]
    <3>1. /\ closed.fds = ClosedFds(fds[p], newfd) /\ closed.nodes = ClosedNodes(nodes[p], o)
          /\ ps = ClosedPipes(pipes, o)
      BY <2>1 DEF AfterClose
    <3>2. newfd \in SomeFds(fds[p])  BY <2>1 DEF IsOpen
    <3>3. Tables([fds EXCEPT ![p] = ClosedFds(fds[p], newfd)],
                 [nodes EXCEPT ![p] = ClosedNodes(nodes[p], o)], ClosedPipes(pipes, o))
      BY <1>1, <3>2, CloseTables
    <3>4. Becomes(fds[p], ClosedFds(fds[p], newfd), newfd, NoFd)
      <4>1. fds[p] \in Seq(FdMapping)  BY <1>1 DEF TypeOK
      <4> QED  BY <3>2, <4>1, ClosedFdsEntries
    <3>5. newfd \in Nat  BY PipesAssumption
    <3>6. Entry(ClosedFds(fds[p], newfd), newfd, NoFd) = NoFd  BY <3>4, <3>5 DEF Becomes
    <3>7. F[p] = ClosedFds(fds[p], newfd)  BY <1>1, <3>1 DEF TypeOK
    <3> QED  BY <3>1, <3>3, <3>6, <3>7
  <2>2. CASE ~IsOpen(p, newfd)
    <3>1. closed.fds = fds[p] /\ closed.nodes = nodes[p] /\ ps = pipes
      BY <2>2 DEF AfterClose
    <3>2. F = fds /\ N = nodes  BY <1>1, <3>1 DEF TypeOK
    <3>3. Entry(fds[p], newfd, NoFd) = NoFd  BY <2>2 DEF IsOpen, SomeFds, Entry
    <3> QED  BY <1>1, <3>1, <3>2, <3>3
  <2> QED  BY <2>1, <2>2
<1>6. /\ F[p] = closed.fds /\ N[p] = closed.nodes
      /\ \A g, n1 : /\ [F EXCEPT ![p] = g] = [fds EXCEPT ![p] = g]
                    /\ [N EXCEPT ![p] = n1] = [nodes EXCEPT ![p] = n1]
  BY <1>1 DEF TypeOK
<1>7. /\ Resolves(m, closed.nodes, ps)
      /\ pipes' = ReferencedPipes(ps, m)
      /\ nodes' = [nodes EXCEPT ![p] = ReferencedNodes(closed.nodes, m)]
      /\ fds' = [fds EXCEPT ![p] = Dup2Fds(closed.fds, newfd, m)]
  BY <1>3
<1> HIDE DEF closed, F, N, ps, m
<1>8. Resolves(m, N[p], ps)  BY <1>6, <1>7
<1>9. Tables([F EXCEPT ![p] = Dup2Fds(F[p], newfd, m)],
             [N EXCEPT ![p] = ReferencedNodes(N[p], m)], ReferencedPipes(ps, m))
  BY <1>4, <1>5, <1>8, Dup2Tables
<1>10. Tables(fds', nodes', pipes')
  <2>1. /\ [F EXCEPT ![p] = Dup2Fds(F[p], newfd, m)] = fds'
        /\ [N EXCEPT ![p] = ReferencedNodes(N[p], m)] = nodes'
    BY <1>6, <1>7
  <2> QED  BY <1>7, <1>9, <2>1
<1>11. \A q \in Procs : q # p => fds'[q] = fds[q] /\ nodes'[q] = nodes[q]
  BY <1>1, <1>7 DEF TypeOK
<1> QED  BY <1>2, <1>10, <1>11, CallKeeps

LEMMA Dup2PanicsKeeps == ASSUME TablesInv, NEW p \in Procs, Dup2Panics(p)  PROVE TablesInv'
<1>1. UNCHANGED <<fds, nodes, pipes, state, pending, dropFd, dropEnd>>  BY DEF Dup2Panics
<1>2. panic' \in {"no", "unwrap", "index"}  BY DEF Dup2Panics
<1> QED  BY <1>1, <1>2 DEF TablesInv, TypeOK, Blocked, Dropping, Gone

LEMMA ForkKeeps == ASSUME TablesInv, NEW p \in Procs, Fork(p)  PROVE TablesInv'
<1>1. TypeOK /\ Tables(fds, nodes, pipes) /\ Blocked /\ Gone  BY DEF TablesInv
<1>2. /\ Calls(p) /\ pipes' = ForkedPipes(pipes, fds[p])
      /\ UNCHANGED <<pending, dropFd, dropEnd, panic>>
  BY DEF Fork
<1>3. PICK c \in Procs : /\ state[c] = "NONE"
                         /\ state' = [state EXCEPT ![c] = "RUNNING"]
                         /\ fds' = [fds EXCEPT ![c] = fds[p]]
                         /\ nodes' = [nodes EXCEPT ![c] = nodes[p]]
  BY DEF Fork
<1>4. state[p] = "RUNNING" /\ \A q \in Procs : state[q] # "DROPPING"  BY <1>2 DEF Calls, Idle
<1>5. c # p /\ fds[c] = <<>> /\ nodes[c] = <<>> /\ pending[c] = NoRead
  BY <1>1, <1>3, <1>4 DEF Gone, Blocked
<1>6. Tables([fds EXCEPT ![c] = fds[p]], [nodes EXCEPT ![c] = nodes[p]], ForkedPipes(pipes, fds[p]))
  BY <1>1, <1>5, ForkTables
<1>7. Tables(fds', nodes', pipes')  BY <1>2, <1>3, <1>6
<1>8. /\ state' \in [Procs -> ProcessState] /\ state'[c] = "RUNNING"
      /\ \A q \in Procs : q # c => /\ state'[q] = state[q]
                                   /\ fds'[q] = fds[q] /\ nodes'[q] = nodes[q]
  BY <1>1, <1>3 DEF TypeOK, ProcessState
<1>9. TypeOK'  BY <1>1, <1>2, <1>7, <1>8 DEF TypeOK, Tables, Shape
<1>10. Blocked'  BY <1>1, <1>2, <1>5, <1>8 DEF Blocked
<1>11. Dropping'  BY <1>4, <1>8 DEF Dropping
<1>12. Gone'  BY <1>1, <1>8 DEF Gone
<1> QED  BY <1>7, <1>9, <1>10, <1>11, <1>12 DEF TablesInv

LEMMA WriteKeeps == ASSUME TablesInv, NEW p \in Procs, Write(p)  PROVE TablesInv'
<1>1. TypeOK /\ Tables(fds, nodes, pipes)  BY DEF TablesInv
<1>2. UNCHANGED <<fds, nodes, state, pending, dropFd, dropEnd, panic>>  BY DEF Write
<1>3. PICK fd \in SomeFds(fds[p]), count \in Counts :
         /\ fds[p][fd].kind = "WRITE"
         /\ pipes' = [pipes EXCEPT ![fds[p][fd].index].buf = @ + count]
  BY DEF Write
<1> DEFINE i == fds[p][fd].index
           b == pipes[i].buf + count
<1>4. i \in DOMAIN pipes /\ pipes[i].ends["WRITE"] >= 1 /\ "WRITE" \in End
  <2>1. fd \in DOMAIN fds[p] /\ "WRITE" \in End  BY DEF SomeFds, End
  <2> QED  BY <1>1, <1>3, <2>1, MappingCounted
<1>5. pipes[i] \in ProcessPipe /\ count \in Nat
  BY <1>1, <1>4, PipesAssumption DEF TypeOK
<1>6. b \in Nat /\ pipes[i].ends["WRITE"] # 0  BY <1>4, <1>5 DEF ProcessPipe
<1>7. pipes' = [pipes EXCEPT ![i].buf = b]  BY <1>3
<1> HIDE DEF b, i
<1>8. Tables(fds, nodes, [pipes EXCEPT ![i].buf = b])  BY <1>1, <1>4, <1>6, BufTables
<1>9. Tables(fds, nodes, pipes')  BY <1>7, <1>8
<1> QED  BY <1>2, <1>9, BufKeeps

\* The read a process executes is of a pipe it has open.
LEMMA ReadsOpen ==
    ASSUME TablesInv, NEW p \in Procs, state[p] = "RUNNING", NEW r \in Reads(p)
    PROVE  /\ r \in PendingRead /\ r.fd \in DOMAIN fds[p] /\ fds[p][r.fd] = PipeReadEnd(r.pipe)
           /\ r.pipe \in DOMAIN pipes /\ pipes[r.pipe].ends["READ"] >= 1 /\ "READ" \in End
           /\ pipes[r.pipe] \in ProcessPipe
<1>1. TypeOK /\ Tables(fds, nodes, pipes) /\ Blocked  BY DEF TablesInv
<1>2. r \in PendingRead /\ r.fd \in DOMAIN fds[p] /\ fds[p][r.fd] = PipeReadEnd(r.pipe)
  <2>1. CASE pending[p] # NoRead
    <3>1. r = pending[p]  BY <2>1 DEF Reads
    <3> QED  BY <1>1, <2>1, <3>1 DEF Blocked, TypeOK
  <2>2. CASE pending[p] = NoRead
    <3>1. PICK fd \in {k \in SomeFds(fds[p]) : fds[p][k].kind = "READ"}, c \in Counts :
             r = [fd |-> fd, count |-> c, pipe |-> fds[p][fd].index]
      BY <2>2 DEF Reads
    <3>2. fd \in DOMAIN fds[p] /\ fds[p][fd].kind = "READ"  BY DEF SomeFds
    <3>3. fds[p][fd] \in FdMapping /\ fd \in 1..MaxFds  BY <1>1, <3>2, MappingCounted
    <3>4. fds[p][fd] = PipeReadEnd(fds[p][fd].index) /\ fds[p][fd].index \in Nat
      BY <3>2, <3>3 DEF FdMapping, PipeReadEnd
    <3>5. fd \in Nat /\ c \in Nat  BY <3>3, PipesAssumption
    <3> QED  BY <3>1, <3>2, <3>4, <3>5 DEF PendingRead
  <2> QED  BY <2>1, <2>2
<1>3. fds[p][r.fd].kind = "READ" /\ fds[p][r.fd].index = r.pipe /\ "READ" \in End
  BY <1>2 DEF PipeReadEnd, End
<1>4. r.pipe \in DOMAIN pipes /\ pipes[r.pipe].ends["READ"] >= 1
  BY <1>1, <1>2, <1>3, MappingCounted
<1>5. pipes[r.pipe] \in ProcessPipe  BY <1>1, <1>4 DEF TypeOK
<1> QED  BY <1>2, <1>3, <1>4, <1>5

LEMMA ReadReturnsKeeps == ASSUME TablesInv, NEW p \in Procs, ReadReturns(p)  PROVE TablesInv'
<1>1. Tables(fds, nodes, pipes)  BY DEF TablesInv
<1>2. /\ state[p] = "RUNNING" /\ pending' = [pending EXCEPT ![p] = NoRead]
      /\ UNCHANGED <<fds, nodes, state, dropFd, dropEnd, panic>>
  BY DEF ReadReturns
<1>3. PICK r \in Reads(p) :
         pipes' = [pipes EXCEPT ![r.pipe].buf =
                      @ - (IF r.count < pipes[r.pipe].buf THEN r.count ELSE pipes[r.pipe].buf)]
  BY DEF ReadReturns
<1> DEFINE i == r.pipe
           b == pipes[i].buf - (IF r.count < pipes[i].buf THEN r.count ELSE pipes[i].buf)
<1>4. /\ r \in PendingRead /\ i \in DOMAIN pipes /\ pipes[i].ends["READ"] >= 1 /\ "READ" \in End
      /\ pipes[i] \in ProcessPipe
  BY <1>2, ReadsOpen
<1>5. b \in Nat /\ pipes[i].ends["READ"] # 0
  <2>1. pipes[i].buf \in Nat /\ r.count \in Nat  BY <1>4 DEF ProcessPipe, PendingRead
  <2> QED  BY <1>4, <2>1
<1>6. pipes' = [pipes EXCEPT ![i].buf = b]  BY <1>3
<1> HIDE DEF b, i
<1>7. Tables(fds, nodes, [pipes EXCEPT ![i].buf = b])  BY <1>1, <1>4, <1>5, BufTables
<1>8. Tables(fds, nodes, pipes')  BY <1>6, <1>7
<1> QED  BY <1>2, <1>8, BufKeeps

\* A step that changes only what p is doing.
LEMMA StateKeeps ==
    ASSUME TablesInv, NEW p \in Procs, 
           NEW s \in {"RUNNING", "WAITING_FOR_READ_PIPE", "READING_STDIN", "TERMINATED"},
           NEW r \in PendingRead,
           state' = [state EXCEPT ![p] = s], pending' = [pending EXCEPT ![p] = r],
           r # NoRead => /\ s \in {"RUNNING", "WAITING_FOR_READ_PIPE"}
                         /\ r.fd \in DOMAIN fds[p] /\ fds[p][r.fd] = PipeReadEnd(r.pipe),
           s = "WAITING_FOR_READ_PIPE" => r # NoRead,
           UNCHANGED <<fds, nodes, pipes, dropFd, dropEnd, panic>>
    PROVE  TablesInv'
<1>1. TypeOK /\ Tables(fds, nodes, pipes) /\ Blocked /\ Gone  BY DEF TablesInv
<1>2. /\ state' \in [Procs -> ProcessState] /\ pending' \in [Procs -> PendingRead]
      /\ state'[p] = s /\ pending'[p] = r
      /\ \A q \in Procs : q # p => state'[q] = state[q] /\ pending'[q] = pending[q]
  BY <1>1 DEF TypeOK, ProcessState
<1>3. TypeOK'  BY <1>1, <1>2 DEF TypeOK
<1>4. Blocked'
  <2> SUFFICES ASSUME NEW q \in Procs
               PROVE  /\ pending'[q] # NoRead =>
                            /\ state'[q] \in {"RUNNING", "WAITING_FOR_READ_PIPE"}
                            /\ pending'[q].fd \in DOMAIN fds[q]
                            /\ fds[q][pending'[q].fd] = PipeReadEnd(pending'[q].pipe)
                      /\ state'[q] = "WAITING_FOR_READ_PIPE" => pending'[q] # NoRead
    BY DEF Blocked
  <2>1. CASE q = p  BY <1>2, <2>1
  <2>2. CASE q # p  BY <1>1, <1>2, <2>2 DEF Blocked
  <2> QED  BY <2>1, <2>2
<1>5. \A q \in Procs : /\ state'[q] = "DROPPING" => state[q] = "DROPPING"
                       /\ state'[q] = "NONE" => state[q] = "NONE"
  BY <1>2
<1>6. Dropping' /\ Gone'  BY <1>1, <1>5 DEF TablesInv, Dropping, Gone
<1>7. Tables(fds', nodes', pipes')  BY <1>1
<1> QED  BY <1>3, <1>4, <1>6, <1>7 DEF TablesInv

LEMMA ReadBlocksKeeps == ASSUME TablesInv, NEW p \in Procs, ReadBlocks(p)  PROVE TablesInv'
<1>1. /\ Idle /\ state[p] = "RUNNING"
      /\ state' = [state EXCEPT ![p] = "WAITING_FOR_READ_PIPE"]
      /\ UNCHANGED <<fds, nodes, pipes, dropFd, dropEnd, panic>>
  BY DEF ReadBlocks
<1>2. PICK r \in Reads(p) : pending' = [pending EXCEPT ![p] = r]  BY DEF ReadBlocks
<1>3. /\ r \in PendingRead /\ r.fd \in DOMAIN fds[p] /\ fds[p][r.fd] = PipeReadEnd(r.pipe)
      /\ r.pipe \in DOMAIN pipes
  BY <1>1, ReadsOpen
<1>4. r # NoRead
  <2>1. r.pipe # 0
    <3>1. pipes \in Seq(ProcessPipe)  BY DEF TablesInv, TypeOK
    <3> QED  BY <1>3, <3>1
  <2> QED  BY <2>1 DEF NoRead
<1> QED  BY <1>1, <1>2, <1>3, <1>4, StateKeeps

LEMMA TerminateKeeps == ASSUME TablesInv, NEW p \in Procs, Terminate(p)  PROVE TablesInv'
<1>1. /\ Calls(p) /\ state' = [state EXCEPT ![p] = "TERMINATED"]
      /\ UNCHANGED <<fds, nodes, pipes, pending, dropFd, dropEnd, panic>>
  BY DEF Terminate
<1>2. NoRead \in PendingRead  BY DEF NoRead, PendingRead
<1>3. pending' = [pending EXCEPT ![p] = NoRead]  BY <1>1 DEF Calls, TablesInv, TypeOK
<1> HIDE DEF NoRead
<1> QED  BY <1>1, <1>2, <1>3, StateKeeps

LEMMA ReadStdinKeeps == ASSUME TablesInv, NEW p \in Procs, ReadStdin(p)  PROVE TablesInv'
<1>1. /\ Calls(p) /\ state' = [state EXCEPT ![p] = "READING_STDIN"]
      /\ UNCHANGED <<fds, nodes, pipes, pending, dropFd, dropEnd, panic>>
  BY DEF ReadStdin
<1>2. NoRead \in PendingRead  BY DEF NoRead, PendingRead
<1>3. pending' = [pending EXCEPT ![p] = NoRead]  BY <1>1 DEF Calls, TablesInv, TypeOK
<1> HIDE DEF NoRead
<1> QED  BY <1>1, <1>2, <1>3, StateKeeps

LEMMA KeyPressedKeeps == ASSUME TablesInv, NEW p \in Procs, KeyPressed(p)  PROVE TablesInv'
<1>1. /\ state[p] = "READING_STDIN" /\ state' = [state EXCEPT ![p] = "RUNNING"]
      /\ UNCHANGED <<fds, nodes, pipes, pending, dropFd, dropEnd, panic>>
  BY DEF KeyPressed
<1>2. NoRead \in PendingRead  BY DEF NoRead, PendingRead
<1>3. pending[p] = NoRead  BY <1>1 DEF TablesInv, Blocked
<1>4. pending' = [pending EXCEPT ![p] = NoRead]  BY <1>1, <1>3 DEF TablesInv, TypeOK
<1> HIDE DEF NoRead
<1> QED  BY <1>1, <1>2, <1>4, StateKeeps

LEMMA WakesKeeps == ASSUME TablesInv, NEW p \in Procs, Wakes(p)  PROVE TablesInv'
<1>1. /\ Idle /\ state[p] = "WAITING_FOR_READ_PIPE" /\ state' = [state EXCEPT ![p] = "RUNNING"]
      /\ UNCHANGED <<fds, nodes, pipes, pending, dropFd, dropEnd, panic>>
  BY DEF Wakes, WaitOver
<1>2. TypeOK /\ Blocked  BY DEF TablesInv
<1> DEFINE r == pending[p]
<1>3. /\ r \in PendingRead /\ r # NoRead
      /\ r.fd \in DOMAIN fds[p] /\ fds[p][r.fd] = PipeReadEnd(r.pipe)
  BY <1>1, <1>2 DEF TypeOK, Blocked
<1>4. pending' = [pending EXCEPT ![p] = r]  BY <1>1, <1>2 DEF TypeOK
<1> HIDE DEF r
<1> QED  BY <1>1, <1>3, <1>4, StateKeeps

\* The steps of the end of a process.
LEMMA DropBeginKeeps == ASSUME TablesInv, NEW p \in Procs, DropBegin(p)  PROVE TablesInv'
<1>1. TypeOK /\ Tables(fds, nodes, pipes) /\ Blocked /\ Gone  BY DEF TablesInv
<1>2. /\ \A q \in Procs : state[q] # "DROPPING"
      /\ state[p] = "TERMINATED" /\ state' = [state EXCEPT ![p] = "DROPPING"]
      /\ dropFd' = 1 /\ dropEnd' = Len(fds[p])
      /\ UNCHANGED <<fds, nodes, pipes, pending, panic>>
  BY DEF DropBegin, Idle
<1>3. fds[p] \in Seq(FdMapping)  BY <1>1 DEF TypeOK
<1>4. DOMAIN fds[p] = 1..Len(fds[p]) /\ Len(fds[p]) \in Nat  BY <1>3
<1>5. /\ state' \in [Procs -> ProcessState] /\ state'[p] = "DROPPING"
      /\ \A q \in Procs : q # p => state'[q] = state[q]
  BY <1>1, <1>2 DEF TypeOK, ProcessState
<1>6. TypeOK'  BY <1>1, <1>2, <1>4, <1>5 DEF TypeOK
<1>7. pending[p] = NoRead  BY <1>1, <1>2 DEF Blocked
<1>8. Blocked' /\ Gone'  BY <1>1, <1>2, <1>5, <1>7 DEF Blocked, Gone
<1>9. Dropping'
  <2>1. \A q \in Procs : state'[q] = "DROPPING" => q = p  BY <1>2, <1>5
  <2>2. /\ dropFd' >= 1 /\ Len(fds'[p]) = dropEnd' /\ Len(fds'[p]) <= dropEnd'
        /\ \A k \in DOMAIN fds'[p] : ~(k < dropFd')
    BY <1>2, <1>4
  <2> QED  BY <2>1, <2>2 DEF Dropping
<1>10. Tables(fds', nodes', pipes')  BY <1>1, <1>2
<1> QED  BY <1>6, <1>8, <1>9, <1>10 DEF TablesInv

\* What the invariant says of the process that is being dropped.
LEMMA DropFacts ==
    ASSUME TablesInv, NEW p \in Procs, state[p] = "DROPPING"
    PROVE  /\ dropFd \in Nat /\ dropEnd \in Nat /\ dropFd >= 1 /\ pending[p] = NoRead
           /\ Len(fds[p]) <= dropEnd /\ (dropFd <= dropEnd => Len(fds[p]) = dropEnd)
           /\ fds[p] \in Seq(FdMapping) /\ EndsInSome(fds[p], NoFd)
           /\ DOMAIN fds[p] = 1..Len(fds[p]) /\ Len(fds[p]) \in Nat
           /\ \A k \in DOMAIN fds[p] : k < dropFd => fds[p][k].kind \notin End
           /\ \A q \in Procs : state[q] = "DROPPING" => q = p
<1>1. TypeOK /\ Tables(fds, nodes, pipes) /\ Dropping /\ Blocked  BY DEF TablesInv
<1>2. fds[p] \in Seq(FdMapping) /\ dropFd \in Nat /\ dropEnd \in Nat  BY <1>1 DEF TypeOK
<1>3. DOMAIN fds[p] = 1..Len(fds[p]) /\ Len(fds[p]) \in Nat  BY <1>2
<1>4. EndsInSome(fds[p], NoFd)  BY <1>1 DEF Tables, Shape
<1>5. /\ dropFd >= 1 /\ Len(fds[p]) <= dropEnd /\ (dropFd <= dropEnd => Len(fds[p]) = dropEnd)
      /\ \A k \in DOMAIN fds[p] : k < dropFd => fds[p][k].kind \notin End
      /\ \A q \in Procs : state[q] = "DROPPING" => q = p
  BY <1>1 DEF Dropping
<1>6. pending[p] = NoRead  BY <1>1 DEF Blocked
<1> QED  BY <1>2, <1>3, <1>4, <1>5, <1>6

LEMMA DropStepKeeps == ASSUME TablesInv, NEW p \in Procs, DropStep(p)  PROVE TablesInv'
<1> DEFINE fd == dropFd
           l == Len(fds[p])
           l1 == Len(fds'[p])
<1>1. TypeOK /\ Tables(fds, nodes, pipes) /\ Blocked /\ Gone /\ Dropping  BY DEF TablesInv
<1>2. /\ state[p] = "DROPPING" /\ dropFd <= dropEnd /\ dropFd' = dropFd + 1
      /\ UNCHANGED <<state, pending, dropEnd, panic>>
  BY DEF DropStep
<1>3. /\ dropFd \in Nat /\ dropEnd \in Nat /\ fd >= 1 /\ pending[p] = NoRead /\ l = dropEnd
      /\ fds[p] \in Seq(FdMapping) /\ EndsInSome(fds[p], NoFd) /\ DOMAIN fds[p] = 1..l /\ l \in Nat
      /\ \A k \in DOMAIN fds[p] : k < fd => fds[p][k].kind \notin End
      /\ \A q \in Procs : state[q] = "DROPPING" => q = p
  BY <1>2, DropFacts
<1>4. fd \in DOMAIN fds[p]  BY <1>2, <1>3
<1>5. /\ Tables(fds', nodes', pipes')
      /\ \A q \in Procs : q # p => fds'[q] = fds[q] /\ nodes'[q] = nodes[q]
      /\ l1 \in Nat /\ l1 <= l /\ (fd < l => l1 = l)
      /\ \A k \in DOMAIN fds'[p] : k \in Nat /\ (k < fd + 1 => fds'[p][k].kind \notin End)
  <2>1. CASE fds[p][fd].kind \in End
    <3>1. CloseFd(p, fd)  BY <2>1 DEF DropStep
    <3>2. fd \in SomeFds(fds[p])  BY <1>4, <2>1 DEF SomeFds, NoFd, End
    <3>3. /\ Tables(fds', nodes', pipes') /\ fds' = [fds EXCEPT ![p] = ClosedFds(fds[p], fd)]
          /\ \A q \in Procs : q # p => fds'[q] = fds[q] /\ nodes'[q] = nodes[q]
      BY <3>1, <3>2, CloseFdTables
    <3> DEFINE f == fds[p]
               g == ClosedFds(f, fd)
    <3>4. fds'[p] = g  BY <1>1, <3>3 DEF TypeOK
    <3>5. /\ g \in Seq(FdMapping) /\ Len(g) <= Len(f) /\ Becomes(f, g, fd, NoFd)
          /\ fd < Len(f) => Len(g) = Len(f)
      BY <1>3, <3>2, ClosedFdsEntries
    <3>6. l1 \in Nat /\ l1 <= l /\ (fd < l => l1 = l) /\ DOMAIN fds'[p] = 1..l1
      <4> HIDE DEF g
      <4> QED  BY <3>4, <3>5
    <3>7. ASSUME NEW k \in DOMAIN fds'[p]
          PROVE  k \in Nat /\ (k < fd + 1 => fds'[p][k].kind \notin End)
      <4>1. k \in Nat /\ k <= l1  BY <3>6
      <4>2. k \in 1..l  BY <1>3, <3>6, <4>1
      <4>3. Entry(g, k, NoFd) = fds'[p][k] /\ Entry(f, k, NoFd) = f[k]
        BY <1>3, <3>4, <4>2 DEF Entry
      <4>4. fds'[p][k] = IF k = fd THEN NoFd ELSE f[k]  BY <3>5, <4>1, <4>3 DEF Becomes
      <4>5. CASE k = fd  BY <4>1, <4>4, <4>5 DEF NoFd, End
      <4>6. CASE k # fd
        <5>1. k < fd + 1 => k < fd  BY <1>3, <4>1, <4>6
        <5> QED  BY <1>3, <4>1, <4>2, <4>4, <4>6, <5>1
      <4> QED  BY <4>5, <4>6
    <3> QED  BY <3>3, <3>6, <3>7
  <2>2. CASE fds[p][fd].kind \notin End
    <3>1. UNCHANGED <<fds, nodes, pipes>>  BY <2>2 DEF DropStep
    <3>2. ASSUME NEW k \in DOMAIN fds[p], k < fd + 1  PROVE fds[p][k].kind \notin End
      <4>1. k < fd \/ k = fd  BY <1>3, <3>2
      <4> QED  BY <1>3, <2>2, <4>1
    <3> QED  BY <1>1, <1>3, <3>1, <3>2
  <2> QED  BY <2>1, <2>2
<1>6. TypeOK'  BY <1>1, <1>2, <1>3, <1>5 DEF TypeOK, Tables, Shape
<1>7. Blocked'  BY <1>1, <1>2, <1>3, <1>5 DEF Blocked
<1>8. Gone'  BY <1>1, <1>2, <1>5 DEF Gone
<1>9. Dropping'
  <2>1. /\ dropFd' >= 1 /\ l1 <= dropEnd' /\ (dropFd' <= dropEnd' => l1 = dropEnd')
        /\ \A k \in DOMAIN fds'[p] : k < dropFd' => fds'[p][k].kind \notin End
    <3> HIDE DEF l, l1
    <3> QED  BY <1>2, <1>3, <1>5
  <2>2. \A q \in Procs : state'[q] = "DROPPING" => q = p  BY <1>2, <1>3
  <2> QED  BY <2>1, <2>2 DEF Dropping
<1> QED  BY <1>5, <1>6, <1>7, <1>8, <1>9 DEF TablesInv

LEMMA DropEndKeeps == ASSUME TablesInv, NEW p \in Procs, DropEnd(p)  PROVE TablesInv'
<1>1. TypeOK /\ Tables(fds, nodes, pipes) /\ Blocked /\ Gone /\ Dropping  BY DEF TablesInv
<1>2. /\ state[p] = "DROPPING" /\ dropFd > dropEnd
      /\ state' = [state EXCEPT ![p] = "NONE"]
      /\ fds' = [fds EXCEPT ![p] = <<>>] /\ nodes' = [nodes EXCEPT ![p] = <<>>]
      /\ dropFd' = 0 /\ dropEnd' = 0
      /\ UNCHANGED <<pipes, pending, panic>>
  BY DEF DropEnd
<1>3. /\ dropFd \in Nat /\ dropEnd \in Nat /\ pending[p] = NoRead
      /\ Len(fds[p]) <= dropEnd /\ DOMAIN fds[p] = 1..Len(fds[p]) /\ Len(fds[p]) \in Nat
      /\ \A k \in DOMAIN fds[p] : k < dropFd => fds[p][k].kind \notin End
      /\ \A q \in Procs : state[q] = "DROPPING" => q = p
  BY <1>2, DropFacts
<1>4. \A k \in DOMAIN fds[p] : k < dropFd  BY <1>2, <1>3
<1>5. NoFd.kind \notin End  BY DEF NoFd, End
<1>6. \A k \in Nat : Entry(fds[p], k, NoFd).kind \notin End  BY <1>3, <1>4, <1>5 DEF Entry
<1> DEFINE g == <<>>
<1>7. /\ g \in Seq(FdMapping) /\ g \in Seq(Nat) /\ Len(g) <= MaxFds
      /\ EndsInSome(g, NoFd) /\ EndsInSome(g, 0)
      /\ \A k \in Nat : Entry(g, k, NoFd) = NoFd /\ Entry(g, k, 0) = 0
  BY PipesAssumption DEF EndsInSome, Entry
<1> HIDE DEF g
<1>8. \A n \in Nat : Entry(g, n, 0) = Cardinality(NodeFds(g, n))
  <2> SUFFICES ASSUME NEW n \in Nat  PROVE Entry(g, n, 0) = Cardinality(NodeFds(g, n))  OBVIOUS
  <2>1. NoFd # Regular(n) /\ 1..MaxFds \subseteq Nat  BY PipesAssumption DEF NoFd, Regular
  <2>2. NodeFds(g, n) = {}  BY <1>7, <2>1 DEF NodeFds
  <2> QED  BY <1>7, <2>2, FS_EmptySet
<1>9. \A k \in Nat : Entry(g, k, NoFd).kind \notin End  BY <1>5, <1>7
<1>10. Tables([fds EXCEPT ![p] = g], [nodes EXCEPT ![p] = g], pipes)
  BY <1>1, <1>6, <1>7, <1>8, <1>9, InertTables
<1>11. Tables(fds', nodes', pipes')  BY <1>2, <1>10 DEF g
<1>12. /\ state' \in [Procs -> ProcessState] /\ state'[p] = "NONE"
       /\ fds'[p] = <<>> /\ nodes'[p] = <<>>
       /\ \A q \in Procs : q # p => /\ state'[q] = state[q]
                                    /\ fds'[q] = fds[q] /\ nodes'[q] = nodes[q]
  BY <1>1, <1>2 DEF TypeOK, ProcessState
<1>13. TypeOK'  BY <1>1, <1>2, <1>11, <1>12 DEF TypeOK, Tables, Shape
<1>14. Blocked'  BY <1>1, <1>2, <1>3, <1>12 DEF Blocked
<1>15. Gone'  BY <1>1, <1>12 DEF Gone
<1>16. \A q \in Procs : state'[q] # "DROPPING"  BY <1>3, <1>12
<1>17. Dropping'  BY <1>16 DEF Dropping
<1> QED  BY <1>11, <1>13, <1>14, <1>15, <1>17 DEF TablesInv

LEMMA TablesStep == ASSUME TablesInv, [Next]_vars  PROVE TablesInv'
<1>1. CASE UNCHANGED vars
  BY <1>1 DEF vars, TablesInv, TypeOK, Blocked, Dropping, Gone
<1>2. ASSUME NEW p \in Procs, ProcessStep(p)  PROVE TablesInv'
  BY <1>2, LaunchKeeps, OpenKeeps, CloseKeeps, DupKeeps, Dup2Keeps, Dup2PanicsKeeps, PipeKeeps,
     ForkKeeps, WriteKeeps, ReadReturnsKeeps, ReadBlocksKeeps, ReadStdinKeeps, TerminateKeeps
     DEF ProcessStep
<1>3. ASSUME NEW p \in Procs, KernelStep(p)  PROVE TablesInv'
  BY <1>3, WakesKeeps, DropBeginKeeps, DropStepKeeps, DropEndKeeps, KeyPressedKeeps DEF KernelStep
<1> QED  BY <1>1, <1>2, <1>3 DEF Next

(***************************************************************************)
(* The theorems                                                            *)
(***************************************************************************)

\* The invariant of the tables of open, close, dup, dup2, pipe, fork, read, write, exit
\* and drop holds whatever the processes call.
THEOREM TablesInvariant == Spec => []TablesInv
<1>1. Init => TablesInv  BY InitTables
<1>2. TablesInv /\ [Next]_vars => TablesInv'  BY TablesStep
<1> QED  BY <1>1, <1>2, PTL DEF Spec

\* The descriptors of an end, or of a node, are the ones the tables count.
LEMMA SameHolders ==
    ASSUME TablesInv, NEW i, NEW e \in End
    PROVE  Holders(i, e) = HoldersIn(fds, i, e)
<1>1. NoFd # Mapping(e, i)  BY DEF NoFd, Mapping, End
<1> QED  BY <1>1 DEF Holders, HoldersIn, Entry, Mapping

LEMMA SameNodeFds ==
    ASSUME TablesInv, NEW p \in Procs, NEW n
    PROVE  {fd \in DOMAIN fds[p] : fds[p][fd] = Regular(n)} = NodeFds(fds[p], n)
<1>1. NoFd # Regular(n)  BY DEF NoFd, Regular
<1>2. Tables(fds, nodes, pipes)  BY DEF TablesInv
<1>3. fds[p] \in Seq(FdMapping) /\ Len(fds[p]) <= MaxFds  BY <1>2 DEF Tables, Shape
<1>4. \A k \in DOMAIN fds[p] : k \in 1..MaxFds  BY <1>3, PipesAssumption
<1> QED  BY <1>1, <1>4 DEF NodeFds, Entry

\* readers_count, writers_count and reference_count are the numbers of descriptors
\* there are, after any sequence of dup, dup2, fork, close and drop.
THEOREM CountsAreExact == Spec => []ReferencesExact
<1>1. TablesInv => ReferencesExact
  <2> SUFFICES ASSUME TablesInv  PROVE EndsExact /\ NodesExact  BY DEF ReferencesExact
  <2>1. EndsCounted(fds, pipes) /\ NodesCounted(fds, nodes) /\ pipes \in Seq(ProcessPipe)
        /\ \A p \in Procs : nodes[p] \in Seq(Nat)
    BY DEF TablesInv, Tables, Shape
  <2>2. ASSUME NEW i \in DOMAIN pipes, NEW e \in End
        PROVE  pipes[i].ends[e] = Cardinality(Holders(i, e))
    <3>1. i \in Nat /\ Entry(pipes, i, NoPipe) = pipes[i]  BY <2>1 DEF Entry
    <3> QED  BY <2>1, <3>1, SameHolders DEF EndsCounted
  <2>3. ASSUME NEW p \in Procs, NEW n \in DOMAIN nodes[p]
        PROVE  nodes[p][n] = Cardinality({fd \in DOMAIN fds[p] : fds[p][fd] = Regular(n)})
    <3>1. nodes[p] \in Seq(Nat)  BY <2>1
    <3>2. n \in Nat /\ Entry(nodes[p], n, 0) = nodes[p][n]  BY <3>1 DEF Entry
    <3>3. nodes[p][n] = Cardinality(NodeFds(fds[p], n))  BY <2>1, <3>2 DEF NodesCounted
    <3> QED  BY <3>3, SameNodeFds
  <2> QED  BY <2>2, <2>3 DEF EndsExact, NodesExact
<1> QED  BY <1>1, TablesInvariant, PTL

\* "If a FdMapping exists then the pipe must exist": no unwrap of a pipe or a node of
\* a descriptor, or of the pipe a blocked reader is woken for, fails.
THEOREM NoIndexDangles == Spec => []NoDanglingIndex
<1>1. TablesInv => NoDanglingIndex
  <2> SUFFICES ASSUME TablesInv  PROVE MappingsResolve /\ BlockedReaderHasPipe
    BY DEF NoDanglingIndex
  <2>1. Tables(fds, nodes, pipes) /\ Blocked  BY DEF TablesInv
  <2>2. ASSUME NEW p \in Procs, NEW fd \in DOMAIN fds[p]
        PROVE  Resolves(fds[p][fd], nodes[p], pipes)
    <3> DEFINE m == fds[p][fd]
    <3>1. /\ m.kind = "REGULAR" => m.index \in DOMAIN nodes[p] /\ nodes[p][m.index] >= 1
          /\ m.kind \in End => m.index \in DOMAIN pipes /\ pipes[m.index].ends[m.kind] >= 1
      BY <2>1, MappingCounted
    <3>2. \A e \in End : NoPipe.ends[e] = 0  BY DEF NoPipe
    <3> HIDE DEF m
    <3>3. m.kind = "REGULAR" => m.index \in SomeNodes(nodes[p])  BY <3>1 DEF SomeNodes
    <3>4. m.kind \in End => m.index \in SomePipes(pipes)  BY <3>1, <3>2 DEF SomePipes
    <3> QED  BY <3>3, <3>4 DEF Resolves, m
  <2>3. MappingsResolve  BY <2>2 DEF MappingsResolve
  <2>4. ASSUME NEW p \in Procs, pending[p] # NoRead
        PROVE  /\ pending[p].pipe \in SomePipes(pipes) /\ pending[p].fd \in DOMAIN fds[p]
               /\ fds[p][pending[p].fd] = PipeReadEnd(pending[p].pipe)
    <3>1. /\ pending[p].fd \in DOMAIN fds[p]
          /\ fds[p][pending[p].fd] = PipeReadEnd(pending[p].pipe)
      BY <2>1, <2>4 DEF Blocked
    <3>2. Resolves(PipeReadEnd(pending[p].pipe), nodes[p], pipes)  BY <2>2, <3>1
    <3> QED  BY <3>1, <3>2 DEF Resolves, PipeReadEnd, End
  <2> QED  BY <2>3, <2>4 DEF BlockedReaderHasPipe
<1> QED  BY <1>1, TablesInvariant, PTL

\* The tables that open, pipe and fork push to and close drains keep their types, never
\* end in a None, and the loop of ProcessData::drop stays inside the one it goes over.
THEOREM TablesStayInBounds == Spec => []TablesInBounds
<1>1. TablesInv => TablesInBounds
  <2> SUFFICES ASSUME TablesInv  PROVE TypeOK /\ NoTrailingNone /\ DropInBounds
    BY DEF TablesInBounds
  <2>1. TypeOK  BY DEF TablesInv
  <2>2. /\ pipes \in Seq(ProcessPipe) /\ EndsInSome(pipes, NoPipe)
        /\ \A p \in Procs : /\ fds[p] \in Seq(FdMapping) /\ EndsInSome(fds[p], NoFd)
                            /\ nodes[p] \in Seq(Nat) /\ EndsInSome(nodes[p], 0)
    BY DEF TablesInv, Tables, Shape
  <2>3. ASSUME NEW S, NEW s \in Seq(S), s # <<>>  PROVE Len(s) \in DOMAIN s
    BY <2>3
  <2>4. pipes # <<>> => Len(pipes) \in SomePipes(pipes)
    BY <2>2, <2>3 DEF EndsInSome, SomePipes
  <2>5. ASSUME NEW p \in Procs
        PROVE  /\ fds[p] # <<>> => Len(fds[p]) \in SomeFds(fds[p])
               /\ nodes[p] # <<>> => Len(nodes[p]) \in SomeNodes(nodes[p])
    <3>1. fds[p] \in Seq(FdMapping) /\ nodes[p] \in Seq(Nat)  BY <2>2
    <3>2. /\ fds[p] # <<>> => Len(fds[p]) \in DOMAIN fds[p]
          /\ nodes[p] # <<>> => Len(nodes[p]) \in DOMAIN nodes[p]
      BY <2>3, <3>1
    <3> QED  BY <2>2, <3>2 DEF EndsInSome, SomeFds, SomeNodes
  <2>6. DropInBounds
    <3> SUFFICES ASSUME NEW p \in Procs, state[p] = "DROPPING", dropFd <= dropEnd
                 PROVE  dropFd \in DOMAIN fds[p]
      BY DEF DropInBounds
    <3> QED  BY DropFacts
  <2> QED  BY <2>1, <2>4, <2>5, <2>6 DEF NoTrailingNone
<1> QED  BY <1>1, TablesInvariant, PTL

\* When the last process is gone PIPES is empty.
THEOREM NoPipeOutlivesProcesses == Spec => []AllPipesFreed
<1>1. TablesInv => AllPipesFreed
  <2> SUFFICES ASSUME TablesInv, \A p \in Procs : state[p] = "NONE", pipes # <<>>  PROVE FALSE
    BY DEF AllPipesFreed
  <2>1. /\ Tables(fds, nodes, pipes) /\ EndsCounted(fds, pipes) /\ Held(pipes)
        /\ pipes \in Seq(ProcessPipe) /\ EndsInSome(pipes, NoPipe)
    BY DEF TablesInv, Tables, Shape
  <2>2. \A p \in Procs : fds[p] = <<>>  BY DEF TablesInv, Gone
  <2> DEFINE i == Len(pipes)
  <2>3. i \in Nat /\ i \in DOMAIN pipes /\ pipes[i] # NoPipe /\ Entry(pipes, i, NoPipe) = pipes[i]
    BY <2>1 DEF EndsInSome, Entry
  <2> HIDE DEF i
  <2>4. ASSUME NEW e \in End  PROVE pipes[i].ends[e] = 0
    <3>1. \A p \in Procs, k \in 1..MaxFds : Entry(fds[p], k, NoFd) = NoFd  BY <2>2 DEF Entry
    <3>2. NoFd # Mapping(e, i)  BY DEF NoFd, Mapping, End
    <3>3. HoldersIn(fds, i, e) = {}  BY <3>1, <3>2 DEF HoldersIn
    <3> QED  BY <2>1, <2>3, <3>3, FS_EmptySet DEF EndsCounted
  <2> QED  BY <2>1, <2>3, <2>4 DEF Held
<1> QED  BY <1>1, TablesInvariant, PTL
=============================================================================
