---------------------------- MODULE ShellProofs ----------------------------
(***************************************************************************)
(* Proofs about Shell, for every image that is sound at first, all names   *)
(* and arguments: canonical paths, the entries of folders, link counts and *)
(* the tree of the root file system.                                       *)
(***************************************************************************)
EXTENDS Shell, SlotsProofs, TLAPS, FiniteSetTheorems, SequenceTheorems

-----------------------------------------------------------------------------
(* The recursive functions of the model, step by step *)

\* What filter adds to a sequence for the element x.
KeptWith(k, x, S) == IF x \in S THEN Append(k, x) ELSE k

\* filter, element by element.
Filtered(s, S) ==
    CHOOSE f : f = [i \in 0 .. Len(s) |-> IF i = 0 THEN <<>> ELSE KeptWith(f[i - 1], s[i], S)]

\* filter keeps or drops one element at a time.
LEMMA FilterSteps ==
    ASSUME NEW s, NEW S, Len(s) \in Nat
    PROVE  LET f == Filtered(s, S)
           IN  /\ f[0] = <<>>
               /\ \A i \in 1 .. Len(s) : f[i] = KeptWith(f[i - 1], s[i], S)
               /\ filter(s, S) = f[Len(s)]
<1> DEFINE Def(g, n) == g = [i \in 0 .. n |-> IF i = 0 THEN <<>> ELSE KeptWith(g[i - 1], s[i], S)]
           N0 == {n \in Nat : \E g : Def(g, n)}
<1>1. 0 \in N0
  <2> DEFINE g == [i \in 0 .. 0 |-> <<>>]
  <2>1. Def(g, 0)  OBVIOUS
  <2> HIDE DEF g
  <2> QED  BY <2>1
<1>2. ASSUME NEW n \in Nat, n \in N0  PROVE n + 1 \in N0
  <2>1. PICK g : Def(g, n)  BY <1>2
  <2> DEFINE h == [i \in 0 .. n + 1 |-> IF i <= n THEN g[i] ELSE KeptWith(g[n], s[n + 1], S)]
  <2>2. \A i \in 0 .. n : g[i] = IF i = 0 THEN <<>> ELSE KeptWith(g[i - 1], s[i], S)  BY <2>1
  <2>3. \A i \in 0 .. n + 1 : h[i] = IF i = 0 THEN <<>> ELSE KeptWith(h[i - 1], s[i], S)
    <3> SUFFICES ASSUME NEW i \in 0 .. n + 1
                 PROVE  h[i] = IF i = 0 THEN <<>> ELSE KeptWith(h[i - 1], s[i], S)
      OBVIOUS
    <3>1. CASE i = 0  BY <2>2, <3>1
    <3>2. CASE i \in 1 .. n  BY <2>2, <3>2
    <3>3. CASE i = n + 1  BY <3>3
    <3> QED  BY <3>1, <3>2, <3>3
  <2>4. h = [i \in 0 .. n + 1 |-> h[i]]  OBVIOUS
  <2>5. Def(h, n + 1)  BY <2>3, <2>4
  <2> HIDE DEF h
  <2> QED  BY <2>5
<1> HIDE DEF N0
<1>3. Len(s) \in N0  BY <1>1, <1>2, NatSetInduction
<1>4. \E g : Def(g, Len(s))  BY <1>3 DEF N0
<1>5. Def(Filtered(s, S), Len(s))  BY <1>4 DEF Filtered
<1>6. filter(s, S) = Filtered(s, S)[Len(s)]  BY DEF filter, KeptWith, Filtered
<1> QED  BY <1>5, <1>6

\* Resolved, part by part.
Walk(p) ==
    CHOOSE f : f = [i \in 0 .. Len(p) |-> IF i = 0 THEN <<>> ELSE Walked(f[i - 1], p[i])]

\* Resolved walks one part at a time.
LEMMA ResolvedSteps ==
    ASSUME NEW p, Len(p) \in Nat
    PROVE  LET f == Walk(p)
           IN  /\ f[0] = <<>>
               /\ \A i \in 1 .. Len(p) : f[i] = Walked(f[i - 1], p[i])
               /\ Resolved(p) = f[Len(p)]
<1> DEFINE Def(g, n) == g = [i \in 0 .. n |-> IF i = 0 THEN <<>> ELSE Walked(g[i - 1], p[i])]
           N0 == {n \in Nat : \E g : Def(g, n)}
<1>1. 0 \in N0
  <2> DEFINE g == [i \in 0 .. 0 |-> <<>>]
  <2>1. Def(g, 0)  OBVIOUS
  <2> HIDE DEF g
  <2> QED  BY <2>1
<1>2. ASSUME NEW n \in Nat, n \in N0  PROVE n + 1 \in N0
  <2>1. PICK g : Def(g, n)  BY <1>2
  <2> DEFINE h == [i \in 0 .. n + 1 |-> IF i <= n THEN g[i] ELSE Walked(g[n], p[n + 1])]
  <2>2. \A i \in 0 .. n : g[i] = IF i = 0 THEN <<>> ELSE Walked(g[i - 1], p[i])  BY <2>1
  <2>3. \A i \in 0 .. n + 1 : h[i] = IF i = 0 THEN <<>> ELSE Walked(h[i - 1], p[i])
    <3> SUFFICES ASSUME NEW i \in 0 .. n + 1
                 PROVE  h[i] = IF i = 0 THEN <<>> ELSE Walked(h[i - 1], p[i])
      OBVIOUS
    <3>1. CASE i = 0  BY <2>2, <3>1
    <3>2. CASE i \in 1 .. n  BY <2>2, <3>2
    <3>3. CASE i = n + 1  BY <3>3
    <3> QED  BY <3>1, <3>2, <3>3
  <2>4. h = [i \in 0 .. n + 1 |-> h[i]]  OBVIOUS
  <2>5. Def(h, n + 1)  BY <2>3, <2>4
  <2> HIDE DEF h
  <2> QED  BY <2>5
<1> HIDE DEF N0
<1>3. Len(p) \in N0  BY <1>1, <1>2, NatSetInduction
<1>4. \E g : Def(g, Len(p))  BY <1>3 DEF N0
<1>5. Def(Walk(p), Len(p))  BY <1>4 DEF Walk
<1>6. Resolved(p) = Walk(p)[Len(p)]  BY DEF Resolved, Walk
<1> QED  BY <1>5, <1>6

NoneCancelled == [skip |-> 0, parts |-> <<>>]
FromEnd(p, i) == p[Len(p) + 1 - i]
CanonicalOf(parts) == IF parts = <<>> THEN root ELSE <<"">> \o parts

\* canonicalize, from the last part to the first.
Back(p) ==
    CHOOSE f : f = [i \in 0 .. Len(p) |-> IF i = 0 THEN NoneCancelled ELSE cancel(f[i - 1], FromEnd(p, i))]

\* canonicalize cancels one part at a time, from the last to the first.
LEMMA CanonicalSteps ==
    ASSUME NEW p, Len(p) \in Nat
    PROVE  LET f == Back(p)
           IN  /\ f[0] = NoneCancelled
               /\ \A i \in 1 .. Len(p) : f[i] = cancel(f[i - 1], FromEnd(p, i))
               /\ canonicalize(p) = CanonicalOf(f[Len(p)].parts)
<1> DEFINE Def(g, n) == g = [i \in 0 .. n |-> IF i = 0 THEN NoneCancelled ELSE cancel(g[i - 1], FromEnd(p, i))]
           N0 == {n \in Nat : \E g : Def(g, n)}
<1>1. 0 \in N0
  <2> DEFINE g == [i \in 0 .. 0 |-> NoneCancelled]
  <2>1. Def(g, 0)  OBVIOUS
  <2> HIDE DEF g
  <2> QED  BY <2>1
<1>2. ASSUME NEW n \in Nat, n \in N0  PROVE n + 1 \in N0
  <2>1. PICK g : Def(g, n)  BY <1>2
  <2> DEFINE h == [i \in 0 .. n + 1 |-> IF i <= n THEN g[i] ELSE cancel(g[n], FromEnd(p, n + 1))]
  <2>2. \A i \in 0 .. n : g[i] = IF i = 0 THEN NoneCancelled ELSE cancel(g[i - 1], FromEnd(p, i))  BY <2>1
  <2>3. \A i \in 0 .. n + 1 : h[i] = IF i = 0 THEN NoneCancelled ELSE cancel(h[i - 1], FromEnd(p, i))
    <3> SUFFICES ASSUME NEW i \in 0 .. n + 1
                 PROVE  h[i] = IF i = 0 THEN NoneCancelled ELSE cancel(h[i - 1], FromEnd(p, i))
      OBVIOUS
    <3>1. CASE i = 0  BY <2>2, <3>1
    <3>2. CASE i \in 1 .. n  BY <2>2, <3>2
    <3>3. CASE i = n + 1  BY <3>3
    <3> QED  BY <3>1, <3>2, <3>3
  <2>4. h = [i \in 0 .. n + 1 |-> h[i]]  OBVIOUS
  <2>5. Def(h, n + 1)  BY <2>3, <2>4
  <2> HIDE DEF h
  <2> QED  BY <2>5
<1> HIDE DEF N0
<1>3. Len(p) \in N0  BY <1>1, <1>2, NatSetInduction
<1>4. \E g : Def(g, Len(p))  BY <1>3 DEF N0
<1>5. Def(Back(p), Len(p))  BY <1>4 DEF Back
<1>6. canonicalize(p) = CanonicalOf(Back(p)[Len(p)].parts)  BY DEF canonicalize, NoneCancelled, FromEnd, CanonicalOf, Back
<1> QED  BY <1>5, <1>6

\* get_rootfs_node and get_node, name by name.
RootWalk(t, ns) ==
    CHOOSE f : f = [i \in 0 .. Len(ns) |-> IF i = 0 THEN 1 ELSE rootfs_child(t, f[i - 1], ns[i])]

\* get_rootfs_node goes one name at a time.
LEMMA RootNodeSteps ==
    ASSUME NEW t, NEW ns, Len(ns) \in Nat
    PROVE  LET f == RootWalk(t, ns)
           IN  /\ f[0] = 1
               /\ \A i \in 1 .. Len(ns) : f[i] = rootfs_child(t, f[i - 1], ns[i])
               /\ \A p : ns = names(p) => get_rootfs_node(t, p) = f[Len(ns)]
<1> DEFINE Def(g, n) == g = [i \in 0 .. n |-> IF i = 0 THEN 1 ELSE rootfs_child(t, g[i - 1], ns[i])]
           N0 == {n \in Nat : \E g : Def(g, n)}
<1>1. 0 \in N0
  <2> DEFINE g == [i \in 0 .. 0 |-> 1]
  <2>1. Def(g, 0)  OBVIOUS
  <2> HIDE DEF g
  <2> QED  BY <2>1
<1>2. ASSUME NEW n \in Nat, n \in N0  PROVE n + 1 \in N0
  <2>1. PICK g : Def(g, n)  BY <1>2
  <2> DEFINE h == [i \in 0 .. n + 1 |-> IF i <= n THEN g[i] ELSE rootfs_child(t, g[n], ns[n + 1])]
  <2>2. \A i \in 0 .. n : g[i] = IF i = 0 THEN 1 ELSE rootfs_child(t, g[i - 1], ns[i])  BY <2>1
  <2>3. \A i \in 0 .. n + 1 : h[i] = IF i = 0 THEN 1 ELSE rootfs_child(t, h[i - 1], ns[i])
    <3> SUFFICES ASSUME NEW i \in 0 .. n + 1
                 PROVE  h[i] = IF i = 0 THEN 1 ELSE rootfs_child(t, h[i - 1], ns[i])
      OBVIOUS
    <3>1. CASE i = 0  BY <2>2, <3>1
    <3>2. CASE i \in 1 .. n  BY <2>2, <3>2
    <3>3. CASE i = n + 1  BY <3>3
    <3> QED  BY <3>1, <3>2, <3>3
  <2>4. h = [i \in 0 .. n + 1 |-> h[i]]  OBVIOUS
  <2>5. Def(h, n + 1)  BY <2>3, <2>4
  <2> HIDE DEF h
  <2> QED  BY <2>5
<1> HIDE DEF N0
<1>3. Len(ns) \in N0  BY <1>1, <1>2, NatSetInduction
<1>4. \E g : Def(g, Len(ns))  BY <1>3 DEF N0
<1>5. Def(RootWalk(t, ns), Len(ns))  BY <1>4 DEF RootWalk
<1>6. \A p : ns = names(p) => get_rootfs_node(t, p) = RootWalk(t, ns)[Len(ns)]  BY DEF get_rootfs_node, RootWalk
<1> QED  BY <1>5, <1>6

NodeWalk(ns) ==
    CHOOSE f : f = [i \in 0 .. Len(ns) |-> IF i = 0 THEN RootNode ELSE node_child(f[i - 1], ns[i])]

\* get_node goes one name at a time.
LEMMA NodeSteps ==
    ASSUME NEW ns, Len(ns) \in Nat
    PROVE  LET f == NodeWalk(ns)
           IN  /\ f[0] = RootNode
               /\ \A i \in 1 .. Len(ns) : f[i] = node_child(f[i - 1], ns[i])
               /\ \A p : ns = names(p) => get_node(p) = f[Len(ns)]
<1> DEFINE Def(g, n) == g = [i \in 0 .. n |-> IF i = 0 THEN RootNode ELSE node_child(g[i - 1], ns[i])]
           N0 == {n \in Nat : \E g : Def(g, n)}
<1>1. 0 \in N0
  <2> DEFINE g == [i \in 0 .. 0 |-> RootNode]
  <2>1. Def(g, 0)  OBVIOUS
  <2> HIDE DEF g
  <2> QED  BY <2>1
<1>2. ASSUME NEW n \in Nat, n \in N0  PROVE n + 1 \in N0
  <2>1. PICK g : Def(g, n)  BY <1>2
  <2> DEFINE h == [i \in 0 .. n + 1 |-> IF i <= n THEN g[i] ELSE node_child(g[n], ns[n + 1])]
  <2>2. \A i \in 0 .. n : g[i] = IF i = 0 THEN RootNode ELSE node_child(g[i - 1], ns[i])  BY <2>1
  <2>3. \A i \in 0 .. n + 1 : h[i] = IF i = 0 THEN RootNode ELSE node_child(h[i - 1], ns[i])
    <3> SUFFICES ASSUME NEW i \in 0 .. n + 1
                 PROVE  h[i] = IF i = 0 THEN RootNode ELSE node_child(h[i - 1], ns[i])
      OBVIOUS
    <3>1. CASE i = 0  BY <2>2, <3>1
    <3>2. CASE i \in 1 .. n  BY <2>2, <3>2
    <3>3. CASE i = n + 1  BY <3>3
    <3> QED  BY <3>1, <3>2, <3>3
  <2>4. h = [i \in 0 .. n + 1 |-> h[i]]  OBVIOUS
  <2>5. Def(h, n + 1)  BY <2>3, <2>4
  <2> HIDE DEF h
  <2> QED  BY <2>5
<1> HIDE DEF N0
<1>3. Len(ns) \in N0  BY <1>1, <1>2, NatSetInduction
<1>4. \E g : Def(g, Len(ns))  BY <1>3 DEF N0
<1>5. Def(NodeWalk(ns), Len(ns))  BY <1>4 DEF NodeWalk
<1>6. \A p : ns = names(p) => get_node(p) = NodeWalk(ns)[Len(ns)]  BY DEF get_node, NodeWalk
<1> QED  BY <1>5, <1>6

\* Where entries end.
Ends(d) ==
    CHOOSE f : f = [i \in 0 .. Len(d.entries) |-> IF i = 0 THEN 0 ELSE f[i - 1] + d.entries[i].size]

\* Offset adds one size at a time.
LEMMA OffsetSteps ==
    ASSUME NEW d, Len(d.entries) \in Nat
    PROVE  LET f == Ends(d)
           IN  /\ f[0] = 0
               /\ \A i \in 1 .. Len(d.entries) : f[i] = f[i - 1] + d.entries[i].size
               /\ \A j : Offset(d, j) = f[j - 1]
<1> DEFINE Def(g, n) == g = [i \in 0 .. n |-> IF i = 0 THEN 0 ELSE g[i - 1] + d.entries[i].size]
           N0 == {n \in Nat : \E g : Def(g, n)}
<1>1. 0 \in N0
  <2> DEFINE g == [i \in 0 .. 0 |-> 0]
  <2>1. Def(g, 0)  OBVIOUS
  <2> HIDE DEF g
  <2> QED  BY <2>1
<1>2. ASSUME NEW n \in Nat, n \in N0  PROVE n + 1 \in N0
  <2>1. PICK g : Def(g, n)  BY <1>2
  <2> DEFINE h == [i \in 0 .. n + 1 |-> IF i <= n THEN g[i] ELSE g[n] + d.entries[n + 1].size]
  <2>2. \A i \in 0 .. n : g[i] = IF i = 0 THEN 0 ELSE g[i - 1] + d.entries[i].size  BY <2>1
  <2>3. \A i \in 0 .. n + 1 : h[i] = IF i = 0 THEN 0 ELSE h[i - 1] + d.entries[i].size
    <3> SUFFICES ASSUME NEW i \in 0 .. n + 1
                 PROVE  h[i] = IF i = 0 THEN 0 ELSE h[i - 1] + d.entries[i].size
      OBVIOUS
    <3>1. CASE i = 0  BY <2>2, <3>1
    <3>2. CASE i \in 1 .. n  BY <2>2, <3>2
    <3>3. CASE i = n + 1  BY <3>3
    <3> QED  BY <3>1, <3>2, <3>3
  <2>4. h = [i \in 0 .. n + 1 |-> h[i]]  OBVIOUS
  <2>5. Def(h, n + 1)  BY <2>3, <2>4
  <2> HIDE DEF h
  <2> QED  BY <2>5
<1> HIDE DEF N0
<1>3. Len(d.entries) \in N0  BY <1>1, <1>2, NatSetInduction
<1>4. \E g : Def(g, Len(d.entries))  BY <1>3 DEF N0
<1>5. Def(Ends(d), Len(d.entries))  BY <1>4 DEF Ends
<1>6. \A j : Offset(d, j) = Ends(d)[j - 1]  BY DEF Offset, Ends
<1> QED  BY <1>5, <1>6

-----------------------------------------------------------------------------
(* canonicalize against the forward walk                                     *)

\* The first elements of a sequence.
LEMMA FirstOnes ==
    ASSUME NEW T, NEW d \in Seq(T), NEW n \in 0 .. Len(d)
    PROVE  LET s == SubSeq(d, 1, n)
           IN  s \in Seq(T) /\ Len(s) = n /\ \A i \in 1 .. n : s[i] = d[i]
<1>1. \A i \in 1 .. n : d[i] \in T  OBVIOUS
<1>2. 1 \in Int /\ n \in Int  OBVIOUS
<1>3. /\ SubSeq(d, 1, n) \in Seq(T)
      /\ Len(SubSeq(d, 1, n)) = IF 1 <= n THEN n-1+1 ELSE 0
      /\ \A i \in 1 .. n-1+1 : SubSeq(d, 1, n)[i] = d[1+i-1]
  BY <1>1, <1>2, SubSeqProperties
<1> QED  BY <1>3

\* The sequence without its last k elements.
Drop(d, k) == SubSeq(d, 1, IF k <= Len(d) THEN Len(d) - k ELSE 0)

\* The lengths that Drop leaves.
LEMMA DropIs ==
    ASSUME NEW T, NEW d \in Seq(T), NEW k \in Nat
    PROVE  /\ Drop(d, k) \in Seq(T)
           /\ Len(Drop(d, k)) = IF k <= Len(d) THEN Len(d) - k ELSE 0
           /\ \A i \in 1 .. Len(Drop(d, k)) : Drop(d, k)[i] = d[i]
<1> DEFINE n == IF k <= Len(d) THEN Len(d) - k ELSE 0
<1>1. n \in 0 .. Len(d)  OBVIOUS
<1>2. Drop(d, k) = SubSeq(d, 1, n)  BY DEF Drop
<1> HIDE DEF n
<1>3. Drop(d, k) \in Seq(T) /\ Len(Drop(d, k)) = n /\ \A i \in 1 .. n : Drop(d, k)[i] = d[i]
  BY <1>1, <1>2, FirstOnes
<1> QED  BY <1>3 DEF n

\* What is left of a path when ".." cancels names from its end.
LEMMA DropSteps ==
    ASSUME NEW T, NEW d \in Seq(T), NEW k \in Nat
    PROVE  /\ Drop(d, 0) = d /\ Drop(<<>>, k) = <<>>
           /\ d # <<>> => Drop(SubSeq(d, 1, Len(d) - 1), k) = Drop(d, k + 1)
           /\ \A x \in T : Drop(Append(d, x), k + 1) = Drop(d, k)
<1>1. Drop(d, 0) = d
  <2>1. Drop(d, 0) \in Seq(T) /\ Len(Drop(d, 0)) = Len(d) /\ \A i \in 1 .. Len(Drop(d, 0)) : Drop(d, 0)[i] = d[i]
    BY DropIs
  <2> QED  BY <2>1, SeqEqual
<1>2. Drop(<<>>, k) = <<>>
  <2>1. <<>> \in Seq(T) /\ Len(<<>>) = 0  OBVIOUS
  <2>2. Drop(<<>>, k) \in Seq(T) /\ Len(Drop(<<>>, k)) = IF k <= Len(<<>>) THEN Len(<<>>) - k ELSE 0
    BY <2>1, DropIs
  <2>3. Drop(<<>>, k) \in Seq(T) /\ Len(Drop(<<>>, k)) = 0  BY <2>1, <2>2
  <2> QED  BY <2>3, EmptySeq
<1>3. ASSUME d # <<>>  PROVE Drop(SubSeq(d, 1, Len(d) - 1), k) = Drop(d, k + 1)
  <2> DEFINE c == SubSeq(d, 1, Len(d) - 1)
  <2>1. Len(d) - 1 \in 0 .. Len(d)  BY <1>3
  <2>2. c \in Seq(T) /\ Len(c) = Len(d) - 1 /\ \A i \in 1 .. Len(d) - 1 : c[i] = d[i]  BY <2>1, FirstOnes
  <2> HIDE DEF c
  <2>3. /\ Drop(c, k) \in Seq(T) /\ Len(Drop(c, k)) = IF k <= Len(c) THEN Len(c) - k ELSE 0
        /\ \A i \in 1 .. Len(Drop(c, k)) : Drop(c, k)[i] = c[i]
    BY <2>2, DropIs
  <2>4. /\ Drop(d, k + 1) \in Seq(T) /\ Len(Drop(d, k + 1)) = IF k + 1 <= Len(d) THEN Len(d) - (k + 1) ELSE 0
        /\ \A i \in 1 .. Len(Drop(d, k + 1)) : Drop(d, k + 1)[i] = d[i]
    BY DropIs
  <2>5. Len(Drop(c, k)) = Len(Drop(d, k + 1)) /\ Len(Drop(c, k)) <= Len(d) - 1  BY <2>1, <2>2, <2>3, <2>4
  <2>6. \A i \in 1 .. Len(Drop(c, k)) : Drop(c, k)[i] = Drop(d, k + 1)[i]  BY <2>2, <2>3, <2>4, <2>5
  <2>7. Drop(c, k) = Drop(d, k + 1)  BY <2>3, <2>4, <2>5, <2>6, SeqEqual
  <2> QED  BY <2>7 DEF c
<1>4. ASSUME NEW x \in T  PROVE Drop(Append(d, x), k + 1) = Drop(d, k)
  <2> DEFINE c == Append(d, x)
  <2>2. c \in Seq(T) /\ Len(c) = Len(d) + 1 /\ \A i \in 1 .. Len(d) : c[i] = d[i]  BY AppendProperties
  <2> HIDE DEF c
  <2>3. /\ Drop(c, k + 1) \in Seq(T) /\ Len(Drop(c, k + 1)) = IF k + 1 <= Len(c) THEN Len(c) - (k + 1) ELSE 0
        /\ \A i \in 1 .. Len(Drop(c, k + 1)) : Drop(c, k + 1)[i] = c[i]
    BY <2>2, DropIs
  <2>4. /\ Drop(d, k) \in Seq(T) /\ Len(Drop(d, k)) = IF k <= Len(d) THEN Len(d) - k ELSE 0
        /\ \A i \in 1 .. Len(Drop(d, k)) : Drop(d, k)[i] = d[i]
    BY DropIs
  <2>0. Len(d) \in Nat /\ (k + 1 <= Len(d) + 1 <=> k <= Len(d)) /\ Len(d) + 1 - (k + 1) = Len(d) - k  OBVIOUS
  <2>5. Len(Drop(c, k + 1)) = Len(Drop(d, k)) /\ Len(Drop(d, k)) <= Len(d)  BY <2>0, <2>2, <2>3, <2>4
  <2>6. ASSUME NEW i \in 1 .. Len(Drop(c, k + 1))  PROVE Drop(c, k + 1)[i] = Drop(d, k)[i]
    <3>1. i \in 1 .. Len(Drop(d, k))  BY <2>5
    <3>2. Len(Drop(d, k)) \in Nat  BY <2>4
    <3>3. i \in 1 .. Len(d)  BY <2>0, <2>5, <3>1, <3>2
    <3>4. Drop(c, k + 1)[i] = c[i] /\ Drop(d, k)[i] = d[i]  BY <2>3, <2>4, <3>1
    <3> QED  BY <2>2, <3>3, <3>4
  <2>7. Drop(c, k + 1) = Drop(d, k)  BY <2>3, <2>4, <2>5, <2>6, SeqEqual
  <2> QED  BY <2>7 DEF c
<1> QED  BY <1>1, <1>2, <1>3, <1>4

-----------------------------------------------------------------------------
(* The two walks by kinds of parts *)

\* Parts that lead nowhere, and names.
Stays(x) == x \in {".", ""}
IsName(x) == x \notin {".", "", ".."}
AllNames(q) == \A i \in 1 .. Len(q) : IsName(q[i])

\* A part is passed over, goes up, or goes down into a folder.
LEMMA WalkedCases ==
    ASSUME NEW d, NEW x
    PROVE  /\ Stays(x) => Walked(d, x) = d
           /\ x = ".." => Walked(d, x) = IF d = <<>> THEN d ELSE SubSeq(d, 1, Len(d) - 1)
           /\ IsName(x) => Walked(d, x) = Append(d, x)
<1>1. Stays(x) => Walked(d, x) = d  BY DEF Walked, Stays
<1>2. x = ".." => Walked(d, x) = IF d = <<>> THEN d ELSE SubSeq(d, 1, Len(d) - 1)  BY DEF Walked
<1>3. IsName(x) => Walked(d, x) = Append(d, x)  BY DEF Walked, IsName
<1> QED  BY <1>1, <1>2, <1>3

\* cancel on the number of names to skip and the parts so far.
CancelIs(k, q, x, k1, q1) == cancel([skip |-> k, parts |-> q], x) = [skip |-> k1, parts |-> q1]
\* cancel on a part that is passed over, on "..", and on a name with and without a ".." behind it.
LEMMA CancelCases ==
    ASSUME NEW k \in Nat, NEW q, NEW x
    PROVE  /\ Stays(x) => CancelIs(k, q, x, k, q)
           /\ x = ".." => CancelIs(k, q, x, k + 1, q)
           /\ IsName(x) /\ k > 0 => CancelIs(k, q, x, k - 1, q)
           /\ IsName(x) /\ k = 0 => CancelIs(k, q, x, 0, <<x>> \o q)
<1> DEFINE acc == [skip |-> k, parts |-> q]
<1>0. acc.skip = k /\ acc.parts = q  OBVIOUS
<1> HIDE DEF acc
<1>1. Stays(x) => cancel(acc, x) = acc  BY DEF cancel, Stays
<1>2. x = ".." => cancel(acc, x) = [skip |-> k + 1, parts |-> q]  BY <1>0 DEF cancel
<1>3. IsName(x) =>
        cancel(acc, x) = IF k > 0 THEN [skip |-> k - 1, parts |-> q] ELSE [skip |-> 0, parts |-> <<x>> \o q]
  BY <1>0 DEF cancel, IsName
<1>4. IsName(x) /\ k > 0 => cancel(acc, x) = [skip |-> k - 1, parts |-> q]  BY <1>3
<1>5. IsName(x) /\ k = 0 => cancel(acc, x) = [skip |-> 0, parts |-> <<x>> \o q]  BY <1>3
<1> QED  BY <1>1, <1>2, <1>4, <1>5 DEF acc, CancelIs

\* One part backwards: what the walk has up to and with it, with what is cancelled
\* after it, is what it has before it with what is cancelled from it on.
Cancels(T, d, x, k, q, k1, q1) ==
    /\ k1 \in Nat /\ q1 \in Seq(T) /\ CancelIs(k, q, x, k1, q1)
    /\ Drop(Walked(d, x), k) \o q = Drop(d, k1) \o q1
    /\ AllNames(q1)

\* What cancel does to the parts behind is what the walk does to the folder it is in.
LEMMA CancelStep ==
    ASSUME NEW T, NEW d \in Seq(T), NEW k \in Nat, NEW q \in Seq(T), AllNames(q), NEW x \in T
    PROVE  Walked(d, x) \in Seq(T) /\ \E k1, q1 : Cancels(T, d, x, k, q, k1, q1)
<1>1. CASE Stays(x)
  <2>1. Walked(d, x) = d /\ CancelIs(k, q, x, k, q)  BY <1>1, WalkedCases, CancelCases
  <2>2. Cancels(T, d, x, k, q, k, q)  BY <2>1 DEF Cancels
  <2> QED  BY <2>1, <2>2
<1>2. CASE x = ".."
  <2>1. CancelIs(k, q, x, k + 1, q)  BY <1>2, CancelCases
  <2>2. k + 1 \in Nat  OBVIOUS
  <2>3. Walked(d, x) = IF d = <<>> THEN d ELSE SubSeq(d, 1, Len(d) - 1)  BY <1>2, WalkedCases
  <2>4. CASE d = <<>>
    <3>1. Drop(d, k) = d /\ Drop(d, k + 1) = d  BY <2>2, <2>4, DropSteps
    <3>2. Walked(d, x) = d  BY <2>3, <2>4
    <3>3. Cancels(T, d, x, k, q, k + 1, q)  BY <2>1, <2>2, <3>1, <3>2 DEF Cancels
    <3> QED  BY <3>2, <3>3
  <2>5. CASE d # <<>>
    <3>1. Drop(SubSeq(d, 1, Len(d) - 1), k) = Drop(d, k + 1)  BY <2>5, DropSteps
    <3>2. Len(d) - 1 \in 0 .. Len(d)  BY <2>5
    <3>3. Walked(d, x) = SubSeq(d, 1, Len(d) - 1)  BY <2>3, <2>5
    <3>4. Walked(d, x) \in Seq(T)  BY <3>2, <3>3, FirstOnes
    <3>5. Cancels(T, d, x, k, q, k + 1, q)  BY <2>1, <2>2, <3>1, <3>3 DEF Cancels
    <3> QED  BY <3>4, <3>5
  <2> QED  BY <2>4, <2>5
<1>3. CASE IsName(x)
  <2>1. Walked(d, x) = Append(d, x)  BY <1>3, WalkedCases
  <2>2. Walked(d, x) \in Seq(T)  BY <2>1
  <2>3. CASE k > 0
    <3>1. CancelIs(k, q, x, k - 1, q)  BY <1>3, <2>3, CancelCases
    <3>2. k - 1 \in Nat /\ (k - 1) + 1 = k  BY <2>3
    <3>4. Drop(Append(d, x), (k - 1) + 1) = Drop(d, k - 1)  BY <3>2, DropSteps
    <3>5. Cancels(T, d, x, k, q, k - 1, q)  BY <2>1, <3>1, <3>2, <3>4 DEF Cancels
    <3> QED  BY <2>2, <3>5
  <2>4. CASE k = 0
    <3>1. CancelIs(k, q, x, 0, <<x>> \o q)  BY <1>3, <2>4, CancelCases
    <3>2. <<x>> \in Seq(T) /\ Len(<<x>>) = 1 /\ <<x>>[1] = x  OBVIOUS
    <3>3. /\ <<x>> \o q \in Seq(T) /\ Len(<<x>> \o q) = 1 + Len(q)
          /\ \A i \in 1 .. 1 + Len(q) : (<<x>> \o q)[i] = IF i <= 1 THEN <<x>>[i] ELSE q[i - 1]
      BY <3>2, ConcatProperties
    <3>4. Drop(Append(d, x), 0) = Append(d, x) /\ Drop(d, 0) = d  BY <2>1, <2>2, DropSteps
    <3>5. Append(d, x) \o q = d \o (<<x>> \o q)
      <4>1. Append(d, x) = d \o <<x>>  BY AppendIsConcat
      <4>3. (d \o <<x>>) \o q = d \o (<<x>> \o q)  BY <3>2, ConcatAssociative
      <4> QED  BY <4>1, <4>3
    <3>6. AllNames(<<x>> \o q)
      <4> SUFFICES ASSUME NEW j \in 1 .. 1 + Len(q)  PROVE IsName((<<x>> \o q)[j])  BY <3>3 DEF AllNames
      <4>4. CASE j = 1  BY <1>3, <3>2, <3>3, <4>4
      <4>5. CASE j # 1
        <5>1. j - 1 \in 1 .. Len(q) /\ ~(j <= 1)  BY <4>5
        <5> QED  BY <3>3, <5>1 DEF AllNames
      <4> QED  BY <4>4, <4>5
    <3>7. Cancels(T, d, x, k, q, 0, <<x>> \o q)  BY <2>1, <2>4, <3>1, <3>3, <3>4, <3>5, <3>6 DEF Cancels
    <3> QED  BY <2>2, <3>7
  <2> QED  BY <2>3, <2>4
<1>4. Stays(x) \/ x = ".." \/ IsName(x)  BY DEF Stays, IsName
<1> QED  BY <1>1, <1>2, <1>3, <1>4

-----------------------------------------------------------------------------
(* The names of a canonical path *)

\* One element more of the first elements.
LEMMA FirstOnesGrow ==
    ASSUME NEW T, NEW q \in Seq(T), NEW j \in Nat, j + 1 <= Len(q)
    PROVE  SubSeq(q, 1, j + 1) = Append(SubSeq(q, 1, j), q[j + 1])
<1> DEFINE a == SubSeq(q, 1, j + 1)
           b == SubSeq(q, 1, j)
<1>1. j + 1 \in 0 .. Len(q) /\ j \in 0 .. Len(q) /\ j + 1 \in 1 .. Len(q)  OBVIOUS
<1>2. a \in Seq(T) /\ Len(a) = j + 1 /\ \A i \in 1 .. j + 1 : a[i] = q[i]  BY <1>1, FirstOnes
<1>3. b \in Seq(T) /\ Len(b) = j /\ \A i \in 1 .. j : b[i] = q[i]  BY <1>1, FirstOnes
<1>4. q[j + 1] \in T  BY <1>1
<1> HIDE DEF a, b
<1>5. /\ Append(b, q[j + 1]) \in Seq(T) /\ Len(Append(b, q[j + 1])) = Len(b) + 1
      /\ \A i \in 1 .. Len(b) : Append(b, q[j + 1])[i] = b[i]
      /\ Append(b, q[j + 1])[Len(b) + 1] = q[j + 1]
  BY <1>3, <1>4, AppendProperties
<1>6. \A i \in 1 .. Len(a) : a[i] = Append(b, q[j + 1])[i]
  <2> SUFFICES ASSUME NEW i \in 1 .. j + 1  PROVE a[i] = Append(b, q[j + 1])[i]  BY <1>2
  <2>0. i = j + 1 \/ i \in 1 .. j  OBVIOUS
  <2>1. CASE i = j + 1  BY <1>2, <1>3, <1>5, <2>1
  <2>2. CASE i \in 1 .. j  BY <1>2, <1>3, <1>5, <2>2
  <2> QED  BY <2>0, <2>1, <2>2
<1>7. Len(a) = Len(Append(b, q[j + 1]))  BY <1>2, <1>3, <1>5
<1>8. a = Append(b, q[j + 1])  BY <1>2, <1>5, <1>6, <1>7, SeqEqual
<1> QED  BY <1>8 DEF a, b

\* An element that filter drops, before elements that it keeps.
LEMMA FilterDropsFirst ==
    ASSUME NEW T, NEW x \in T, NEW q \in Seq(T), NEW S, x \notin S, \A i \in 1 .. Len(q) : q[i] \in S
    PROVE  filter(<<x>> \o q, S) = q
<1> DEFINE s == <<x>> \o q
           f == Filtered(s, S)
           n == Len(q)
<1>1. <<x>> \in Seq(T) /\ Len(<<x>>) = 1 /\ <<x>>[1] = x /\ n \in Nat  OBVIOUS
<1>2. /\ s \in Seq(T) /\ Len(s) = 1 + n
      /\ \A i \in 1 .. 1 + n : s[i] = IF i <= 1 THEN <<x>>[i] ELSE q[i - 1]
  BY <1>1, ConcatProperties
<1>3. s[1] = x /\ Len(s) \in Nat  BY <1>1, <1>2
<1>4. ASSUME NEW j \in Nat, j < n  PROVE s[j + 2] = q[j + 1] /\ j + 2 \in 1 .. Len(s) /\ (j + 2) - 1 = j + 1
  <2>1. j + 2 \in 1 .. 1 + n /\ ~(j + 2 <= 1) /\ (j + 2) - 1 = j + 1  BY <1>1, <1>4
  <2> QED  BY <1>2, <2>1
<1> HIDE DEF s, n
<1>5. /\ f[0] = <<>>
      /\ \A i \in 1 .. Len(s) : f[i] = KeptWith(f[i - 1], s[i], S)
      /\ filter(s, S) = f[Len(s)]
  BY <1>3, FilterSteps
<1> HIDE DEF f
<1> DEFINE A == {j \in Nat : j <= n => f[j + 1] = SubSeq(q, 1, j)}
<1>6. 0 \in A
  <2>1. 1 \in 1 .. Len(s) /\ 1 - 1 = 0 /\ 0 + 1 = 1  BY <1>1, <1>2
  <2>2. f[1] = KeptWith(f[0], x, S)  BY <1>3, <1>5, <2>1
  <2>3. f[1] = <<>>  BY <1>5, <2>2 DEF KeptWith
  <2>4. 0 \in 0 .. Len(q)  OBVIOUS
  <2>5. SubSeq(q, 1, 0) \in Seq(T) /\ Len(SubSeq(q, 1, 0)) = 0  BY <2>4, FirstOnes
  <2>6. SubSeq(q, 1, 0) = <<>>  BY <2>5, EmptySeq
  <2>7. 0 + 1 = 1  OBVIOUS
  <2> QED  BY <2>3, <2>6, <2>7
<1>7. ASSUME NEW j \in Nat, j \in A  PROVE j + 1 \in A
  <2> SUFFICES ASSUME j + 1 <= n  PROVE f[(j + 1) + 1] = SubSeq(q, 1, j + 1)  OBVIOUS
  <2>1. j < n /\ j <= n /\ (j + 1) + 1 = j + 2 /\ j + 1 \in 1 .. n  BY <1>1
  <2>2. f[j + 2] = KeptWith(f[j + 1], q[j + 1], S)  BY <1>4, <1>5, <2>1
  <2>3. q[j + 1] \in S  BY <2>1 DEF n
  <2>4. f[j + 1] = SubSeq(q, 1, j)  BY <1>7, <2>1
  <2>5. f[j + 2] = Append(SubSeq(q, 1, j), q[j + 1])  BY <2>2, <2>3, <2>4 DEF KeptWith
  <2>6. SubSeq(q, 1, j + 1) = Append(SubSeq(q, 1, j), q[j + 1])  BY FirstOnesGrow DEF n
  <2> QED  BY <2>1, <2>5, <2>6
<1>8. n \in A
  <2> HIDE DEF A
  <2> QED  BY <1>1, <1>6, <1>7, NatSetInduction
<1>9. f[n + 1] = SubSeq(q, 1, n)  BY <1>1, <1>8
<1>10. SubSeq(q, 1, n) = q
  <2>1. n \in 0 .. Len(q) /\ n = Len(q)  BY <1>1 DEF n
  <2>2. SubSeq(q, 1, n) \in Seq(T) /\ Len(SubSeq(q, 1, n)) = n /\ \A i \in 1 .. n : SubSeq(q, 1, n)[i] = q[i]
    BY <2>1, FirstOnes
  <2> QED  BY <2>1, <2>2, SeqEqual
<1>11. filter(s, S) = q  BY <1>1, <1>2, <1>5, <1>9, <1>10
<1> QED  BY <1>11 DEF s

\* A canonical path has the names it is made of.
LEMMA NamesOfCanonical ==
    ASSUME NEW T, NEW q \in Seq(T), AllNames(q)
    PROVE  names(CanonicalOf(q)) = q
<1> DEFINE e == ""
           U == T \cup {e}
           c == <<e>> \o q
           S == Range(c) \ {e}
<1>0. \A i \in 1 .. Len(q) : q[i] # e  BY DEF AllNames, IsName
<1>1. names(c) = filter(c, S)  BY DEF names
<1>3. root = <<e, e>>  BY DEF root
<1>4. CanonicalOf(q) = IF q = <<>> THEN root ELSE c  BY DEF CanonicalOf
<1>5. names(root) = filter(root, Range(root) \ {e})  BY DEF names
<1> HIDE DEF e
<1>6. CASE q = <<>>
  <2> DEFINE f == Filtered(root, Range(root) \ {e})
             D == Range(root) \ {e}
  <2>1. Len(root) = 2 /\ root[1] = e /\ root[2] = e  BY <1>3
  <2>0. Len(root) \in Nat  BY <2>1
  <2>2. /\ f[0] = <<>>
        /\ \A i \in 1 .. Len(root) : f[i] = KeptWith(f[i - 1], root[i], D)
        /\ filter(root, D) = f[Len(root)]
    BY <2>0, FilterSteps
  <2> HIDE DEF f
  <2>3. e \notin D /\ 1 \in 1 .. 2 /\ 2 \in 1 .. 2 /\ 1 - 1 = 0 /\ 2 - 1 = 1  OBVIOUS
  <2> HIDE DEF D
  <2>4. f[1] = KeptWith(f[0], e, D) /\ f[2] = KeptWith(f[1], e, D)  BY <2>1, <2>2, <2>3
  <2>5. f[2] = <<>>  BY <2>2, <2>3, <2>4 DEF KeptWith
  <2> QED  BY <1>4, <1>5, <1>6, <2>1, <2>2, <2>5 DEF D
<1>7. CASE q # <<>>
  <2>1. q \in Seq(U) /\ e \in U /\ e \notin S  OBVIOUS
  <2>2. <<e>> \in Seq(U) /\ Len(<<e>>) = 1 /\ Len(q) \in Nat  OBVIOUS
  <2>3. /\ c \in Seq(U) /\ Len(c) = 1 + Len(q)
        /\ \A i \in 1 .. 1 + Len(q) : c[i] = IF i <= 1 THEN <<e>>[i] ELSE q[i - 1]
    BY <2>1, <2>2, ConcatProperties
  <2>4. ASSUME NEW i \in 1 .. Len(q)  PROVE q[i] \in S
    <3>1. i + 1 \in 1 .. 1 + Len(q) /\ ~(i + 1 <= 1) /\ (i + 1) - 1 = i  BY <2>2
    <3>2. c[i + 1] = q[i] /\ i + 1 \in DOMAIN c  BY <2>3, <3>1
    <3> QED  BY <1>0, <3>2 DEF Range
  <2> HIDE DEF S, U
  <2>5. filter(<<e>> \o q, S) = q  BY <2>1, <2>4, FilterDropsFirst
  <2> QED  BY <1>1, <1>4, <1>7, <2>5
<1> QED  BY <1>6, <1>7

\* canonicalize, i parts from the end: what it has kept, behind the walk up to
\* there without the names it still has to skip, is what the path resolves to.
Kept(T, p, i, k, q) ==
    /\ k \in Nat /\ q \in Seq(T) /\ AllNames(q)
    /\ Back(p)[i] = [skip |-> k, parts |-> q]
    /\ Drop(Walk(p)[Len(p) - i], k) \o q = Resolved(p)

\* The names of the canonical path are the folders of the forward walk.
LEMMA CanonicalizeResolves ==
    ASSUME NEW T, NEW p \in Seq(T)
    PROVE  names(canonicalize(p)) = Resolved(p) /\ canonicalize(p) = CanonicalOf(Resolved(p))
           /\ Resolved(p) \in Seq(T) /\ AllNames(Resolved(p))
<1> DEFINE n == Len(p)
<1>0. n \in Nat /\ Len(p) \in Nat  OBVIOUS
<1>1. /\ Walk(p)[0] = <<>>
      /\ \A i \in 1 .. Len(p) : Walk(p)[i] = Walked(Walk(p)[i - 1], p[i])
      /\ Resolved(p) = Walk(p)[Len(p)]
  BY <1>0, ResolvedSteps
<1>2. /\ Back(p)[0] = NoneCancelled
      /\ \A i \in 1 .. Len(p) : Back(p)[i] = cancel(Back(p)[i - 1], FromEnd(p, i))
      /\ canonicalize(p) = CanonicalOf(Back(p)[Len(p)].parts)
  BY <1>0, CanonicalSteps
<1>3. ASSUME NEW i \in 1 .. n  PROVE p[i] \in T  OBVIOUS
<1>4. \A i \in 0 .. n : Walk(p)[i] \in Seq(T)
  <2> DEFINE A == {i \in Nat : i <= n => Walk(p)[i] \in Seq(T)}
  <2>0. <<>> \in Seq(T)  OBVIOUS
  <2>1. 0 \in A  BY <1>1, <2>0
  <2>2. ASSUME NEW i \in Nat, i \in A  PROVE i + 1 \in A
    <3> SUFFICES ASSUME i + 1 <= n  PROVE Walk(p)[i + 1] \in Seq(T)  OBVIOUS
    <3>1. i + 1 \in 1 .. Len(p) /\ (i + 1) - 1 = i /\ i <= n  BY <1>0
    <3>2. Walk(p)[i] \in Seq(T) /\ p[i + 1] \in T  BY <2>2, <3>1
    <3>3. Walk(p)[i + 1] = Walked(Walk(p)[i], p[i + 1])  BY <1>1, <3>1
    <3>4. AllNames(<<>>) /\ <<>> \in Seq(T) /\ 0 \in Nat  BY DEF AllNames
    <3>5. Walked(Walk(p)[i], p[i + 1]) \in Seq(T)  BY <3>2, <3>4, CancelStep
    <3> QED  BY <3>3, <3>5
  <2> HIDE DEF A
  <2>3. \A i \in Nat : i \in A  BY <2>1, <2>2, NatSetInduction
  <2> QED  BY <2>3 DEF A
<1> DEFINE B == {i \in Nat : i <= n => \E k, q : Kept(T, p, i, k, q)}
<1>5. 0 \in B
  <2>1. n - 0 = n /\ n \in 0 .. n  BY <1>0
  <2>2. Walk(p)[n] \in Seq(T) /\ Resolved(p) = Walk(p)[n - 0]  BY <1>1, <1>4, <2>1
  <2>3. Drop(Walk(p)[n - 0], 0) = Resolved(p)  BY <1>0, <2>1, <2>2, DropSteps
  <2>4. Resolved(p) \o <<>> = Resolved(p)  BY <2>1, <2>2, ConcatEmptySeq
  <2>5. Kept(T, p, 0, 0, <<>>)  BY <1>2, <2>3, <2>4 DEF Kept, NoneCancelled, AllNames
  <2> QED  BY <2>5
<1>6. ASSUME NEW i \in Nat, i \in B  PROVE i + 1 \in B
  <2> SUFFICES ASSUME i + 1 <= n  PROVE \E k, q : Kept(T, p, i + 1, k, q)  OBVIOUS
  <2>0. i <= n  BY <1>0
  <2>1. PICK k, q : Kept(T, p, i, k, q)  BY <1>6, <2>0
  <2> DEFINE j == n - i
             x == FromEnd(p, i + 1)
             d == Walk(p)[j - 1]
  <2>2. /\ j \in 1 .. n /\ n - (i + 1) = j - 1 /\ j - 1 \in 0 .. n /\ n + 1 - (i + 1) = j
        /\ i + 1 \in 1 .. n /\ (i + 1) - 1 = i
    BY <1>0
  <2>3. x = p[j]  BY <2>2 DEF FromEnd
  <2>4. x \in T  BY <2>2, <2>3
  <2>5. Walk(p)[j] = Walked(d, x)  BY <1>1, <2>2, <2>3
  <2>6. d \in Seq(T)  BY <1>4, <2>2
  <2>7. Back(p)[i + 1] = cancel(Back(p)[i], x)  BY <1>2, <2>2
  <2>8. d = Walk(p)[n - (i + 1)]  BY <2>2
  <2>9. Drop(Walk(p)[j], k) \o q = Resolved(p)  BY <2>1 DEF Kept
  <2> HIDE DEF j, x, d, n
  <2>10. k \in Nat /\ q \in Seq(T) /\ AllNames(q)  BY <2>1 DEF Kept
  <2>11. PICK k1, q1 : Cancels(T, d, x, k, q, k1, q1)  BY <2>4, <2>6, <2>10, CancelStep
  <2>12. Back(p)[i + 1] = [skip |-> k1, parts |-> q1]  BY <2>1, <2>7, <2>11 DEF Kept, Cancels, CancelIs
  <2>13. Drop(d, k1) \o q1 = Resolved(p)  BY <2>5, <2>9, <2>11 DEF Cancels
  <2>14. Kept(T, p, i + 1, k1, q1)  BY <2>8, <2>11, <2>12, <2>13 DEF Kept, Cancels, n
  <2> QED  BY <2>14
<1>7. n \in B
  <2> HIDE DEF B
  <2> QED  BY <1>0, <1>5, <1>6, NatSetInduction
<1>8. PICK k, q : Kept(T, p, n, k, q)  BY <1>0, <1>7
<1>9. n - n = 0  BY <1>0
<1>10. Drop(<<>>, k) \o q = Resolved(p)  BY <1>1, <1>8, <1>9 DEF Kept
<1>11. k \in Nat /\ q \in Seq(T) /\ AllNames(q)  BY <1>8 DEF Kept
<1>12. <<>> \in Seq(T)  OBVIOUS
<1>13. Drop(<<>>, k) = <<>>  BY <1>11, <1>12, DropSteps
<1>14. Resolved(p) = q  BY <1>10, <1>11, <1>13, ConcatEmptySeq
<1>15. Back(p)[n] = [skip |-> k, parts |-> q]  BY <1>8 DEF Kept
<1>16. Back(p)[n].parts = q  BY <1>15
<1>17. canonicalize(p) = CanonicalOf(q)  BY <1>2, <1>16
<1> QED  BY <1>11, <1>14, <1>17, NamesOfCanonical

-----------------------------------------------------------------------------
(* The current folder *)

\* The part between two "/" that follow each other.
Blank == ""
\* What the operators on paths say of the blank part.
LEMMA Blanks ==
    /\ \A x : absolute(x) <=> Len(x) > 1 /\ x[1] = Blank
    /\ \A x : ends_with_slash(x) <=> x[Len(x)] = Blank
    /\ root = <<Blank, Blank>> /\ Part = DOMAIN Length \cup {Blank} /\ Blank \notin DOMAIN Length
<1>1. \A x : absolute(x) <=> Len(x) > 1 /\ x[1] = Blank  BY DEF absolute, Blank
<1>2. \A x : ends_with_slash(x) <=> x[Len(x)] = Blank  BY DEF ends_with_slash, Blank
<1>3. root = <<Blank, Blank>> /\ Part = DOMAIN Length \cup {Blank}  BY DEF root, Blank, Part
<1>4. Blank \notin DOMAIN Length  BY ShellAssumption DEF Blank
<1> QED  BY <1>1, <1>2, <1>3, <1>4

\* Paths the shell keeps: absolute ones.
Paths == {p \in Seq(Part) : absolute(p)}
Argument == {s \in Seq(Part) : s # <<>>}

\* Arguments are paths that are not empty.
LEMMA ArgumentsOk == Args \cup Sources \cup Dotted \subseteq Argument
BY ShellAssumption DEF Argument

\* A path stays absolute with an argument appended.
LEMMA AppendStrOk ==
    ASSUME NEW c \in Paths, NEW s \in Argument
    PROVE  append_str(c, s) \in Paths
<1>1. c \in Seq(Part) /\ Len(c) > 1 /\ c[1] = Blank /\ Len(c) \in Nat  BY Blanks DEF Paths
<1>2. s \in Seq(Part) /\ Len(s) \in Nat /\ Len(s) > 0  BY DEF Argument
<1> DEFINE b == IF ends_with_slash(c) THEN SubSeq(c, 1, Len(c) - 1) ELSE c
<1>3. Len(c) - 1 \in 0 .. Len(c) /\ 1 \in 1 .. Len(c) - 1  BY <1>1
<1>4. /\ SubSeq(c, 1, Len(c) - 1) \in Seq(Part) /\ Len(SubSeq(c, 1, Len(c) - 1)) = Len(c) - 1
      /\ SubSeq(c, 1, Len(c) - 1)[1] = c[1]
  BY <1>1, <1>3, FirstOnes
<1>5. b \in Seq(Part) /\ Len(b) \in Nat /\ Len(b) > 0 /\ b[1] = Blank  BY <1>1, <1>4
<1>6. append_str(c, s) = b \o s  BY DEF append_str
<1> HIDE DEF b
<1>7. /\ b \o s \in Seq(Part) /\ Len(b \o s) = Len(b) + Len(s)
      /\ \A i \in 1 .. Len(b) + Len(s) : (b \o s)[i] = IF i <= Len(b) THEN b[i] ELSE s[i - Len(b)]
  BY <1>2, <1>5, ConcatProperties
<1>8. 1 \in 1 .. Len(b) + Len(s) /\ 1 <= Len(b) /\ Len(b) + Len(s) > 1  BY <1>2, <1>5
<1>9. Len(b \o s) > 1 /\ (b \o s)[1] = Blank  BY <1>5, <1>7, <1>8
<1> QED  BY <1>6, <1>7, <1>9, Blanks DEF Paths

\* So is every path that a command looks at.
LEMMA PathOfOk ==
    ASSUME NEW c \in Paths, NEW s \in Argument
    PROVE  path_of(c, s) \in Paths
<1>1. CASE ~absolute(s)
  <2>1. path_of(c, s) = append_str(c, s)  BY <1>1 DEF path_of
  <2> QED  BY <2>1, AppendStrOk
<1>2. CASE absolute(s)
  <2>1. path_of(c, s) = try_from(s)  BY <1>2 DEF path_of
  <2>2. s \in Seq(Part) /\ Len(s) \in Nat /\ Len(s) > 1 /\ s[1] = Blank  BY <1>2, Blanks DEF Argument
  <2>3. CASE ~(s # root /\ ends_with_slash(s))
    <3>1. try_from(s) = s  BY <2>3 DEF try_from
    <3> QED  BY <1>2, <2>1, <2>2, <3>1 DEF Paths
  <2>4. CASE s # root /\ ends_with_slash(s)
    <3>1. try_from(s) = SubSeq(s, 1, Len(s) - 1)  BY <2>4 DEF try_from
    <3>2. s # <<Blank, Blank>> /\ s[Len(s)] = Blank  BY <2>4, Blanks
    <3>3. Len(s) # 2
      <4> SUFFICES ASSUME Len(s) = 2  PROVE FALSE  OBVIOUS
      <4>1. s[1] = Blank /\ s[2] = Blank  BY <2>2, <3>2
      <4>2. s = <<s[1], s[2]>>  BY <2>2
      <4> QED  BY <3>2, <4>1, <4>2
    <3>0. \A m \in Nat : m > 1 /\ m # 2 => m - 1 \in 0 .. m /\ 1 \in 1 .. m - 1 /\ m - 1 > 1  OBVIOUS
    <3>4. Len(s) - 1 \in 0 .. Len(s) /\ 1 \in 1 .. Len(s) - 1 /\ Len(s) - 1 > 1  BY <2>2, <3>0, <3>3
    <3> DEFINE t == SubSeq(s, 1, Len(s) - 1)
    <3>5. t \in Seq(Part) /\ Len(t) = Len(s) - 1 /\ t[1] = s[1]  BY <2>2, <3>4, FirstOnes
    <3> HIDE DEF t
    <3>6. t \in Paths  BY <2>2, <3>4, <3>5, Blanks DEF Paths
    <3> QED  BY <2>1, <3>1, <3>6 DEF t
  <2> QED  BY <2>3, <2>4
<1> QED  BY <1>1, <1>2

\* cd takes the blanks off the parts of its argument.
LEMMA TrimmedOk ==
    ASSUME NEW s \in Argument
    PROVE  [i \in DOMAIN s |-> Trimmed[s[i]]] \in Argument
<1> DEFINE t == [i \in DOMAIN s |-> Trimmed[s[i]]]
<1>1. s \in Seq(Part) /\ Len(s) \in Nat /\ DOMAIN s = 1 .. Len(s) /\ Len(s) # 0  BY DEF Argument
<1>0. Trimmed \in [Part -> Part]  BY ShellAssumption
<1>2. \A i \in 1 .. Len(s) : Trimmed[s[i]] \in Part  BY <1>0, <1>1
<1>3. t \in [1 .. Len(s) -> Part]  BY <1>1, <1>2
<1>4. t \in Seq(Part)  BY <1>1, <1>3
<1>5. 1 \in DOMAIN t  BY <1>1
<1>6. t # <<>>  BY <1>4, <1>5
<1> QED  BY <1>4, <1>6 DEF Argument

\* The current folder is an absolute path of known parts.
CurOk == cur_dir \in Paths

\* cd sets the current folder to an absolute path; nothing else sets it.
LEMMA CurOkStep ==
    ASSUME CurOk, [Next]_vars
    PROVE  CurOk'
<1>1. CASE cur_dir' = cur_dir  BY <1>1 DEF CurOk
<1>2. ASSUME NEW arg \in Args, cd(arg)  PROVE CurOk'
  <2> DEFINE s == [i \in DOMAIN arg |-> Trimmed[arg[i]]]
             dir == path_of(cur_dir, s)
  <2>1. arg \in Argument  BY ArgumentsOk
  <2>2. s \in Argument  BY <2>1, TrimmedOk
  <2>3. dir \in Paths  BY <2>2, PathOfOk DEF CurOk
  <2>4. cur_dir' = cur_dir \/ cur_dir' = dir  BY <1>2 DEF cd, Crash
  <2> HIDE DEF dir
  <2> QED  BY <2>3, <2>4 DEF CurOk
<1>3. CASE UNCHANGED vars  BY <1>1, <1>3 DEF vars
<1>4. ASSUME Next, ~(\E arg \in Args : cd(arg))  PROVE cur_dir' = cur_dir
  <2>1. CASE ls  BY <2>1 DEF ls, Crash
  <2>2. ASSUME NEW arg \in Args, umount(arg)  PROVE cur_dir' = cur_dir  BY <2>2 DEF umount
  <2>3. ASSUME NEW arg \in Args, touch(arg)  PROVE cur_dir' = cur_dir  BY <2>3 DEF touch, Crash
  <2>4. ASSUME NEW arg \in Args, rm(arg)  PROVE cur_dir' = cur_dir  BY <2>4 DEF rm, Crash
  <2>5. ASSUME NEW source \in Sources, NEW arg \in Args, mount_ext2(source, arg)  PROVE cur_dir' = cur_dir
    BY <2>5 DEF mount_ext2, Crash
  <2>6. ASSUME NEW name \in Name, mkrootfsdir(name)  PROVE cur_dir' = cur_dir  BY <2>6 DEF mkrootfsdir, Crash
  <2>7. ASSUME NEW name \in Name, rmrootfsdir(name)  PROVE cur_dir' = cur_dir  BY <2>7 DEF rmrootfsdir, Crash
  <2>8. ASSUME NEW arg \in Args, NEW b \in BOOLEAN, puts(arg, b)  PROVE cur_dir' = cur_dir
    BY <2>8 DEF puts, Crash
  <2>9. ASSUME NEW arg \in Args \cup Dotted, NEW b \in BOOLEAN, open(arg, b, ~b)  PROVE cur_dir' = cur_dir
    BY <2>9 DEF open, Crash
  <2> QED  BY <1>4, <2>1, <2>2, <2>3, <2>4, <2>5, <2>6, <2>7, <2>8, <2>9 DEF Next
<1> QED  BY <1>1, <1>2, <1>3, <1>4

\* canonicalize goes backwards and counts the ".." it meets: the path a program
\* opens is the one a forward walk resolves, for all arguments and from every folder
\* that cd can reach.
THEOREM ShellCanonical == Spec => []CanonicalIsResolved
<1>1. Init => CurOk
  <2>1. root \in Paths
    <3>1. Blank \in Part  BY Blanks
    <3>2. <<Blank, Blank>> \in Seq(Part) /\ Len(<<Blank, Blank>>) > 1 /\ <<Blank, Blank>>[1] = Blank  BY <3>1
    <3> QED  BY <3>2, Blanks DEF Paths
  <2> QED  BY <2>1 DEF Init, CurOk
<1>2. CurOk /\ [Next]_vars => CurOk'  BY CurOkStep
<1>3. CurOk => CanonicalIsResolved
  <2> SUFFICES ASSUME CurOk, NEW arg \in Args \cup Dotted
               PROVE  names(canonicalize(append_str(cur_dir, arg))) = Resolved(append_str(cur_dir, arg))
    BY DEF CanonicalIsResolved
  <2>1. arg \in Argument  BY ArgumentsOk
  <2>2. append_str(cur_dir, arg) \in Seq(Part)  BY <2>1, AppendStrOk DEF CurOk, Paths
  <2> QED  BY <2>2, CanonicalizeResolves
<1> QED  BY <1>1, <1>2, <1>3, PTL DEF Spec

-----------------------------------------------------------------------------
(* The entries of a folder *)

\* Entries as get_entries reads them.
Ent(I) == [addr : I, size : Nat \ {0}, name : DOMAIN Length]

\* The entries of a folder after create_entry: the last one cut to kept bytes, and
\* a new one behind it.
LEMMA CreatedEntries ==
    ASSUME NEW I, NEW es \in Seq(Ent(I)), NEW n \in Nat \ {0}, n = Len(es), NEW kept \in Nat \ {0},
           NEW e \in Ent(I), NEW t, t = Append([es EXCEPT ![n].size = kept], e)
    PROVE  /\ t \in Seq(Ent(I)) /\ Len(t) = n + 1 /\ t[n + 1] = e
           /\ \A j \in 1 .. n : t[j].addr = es[j].addr /\ t[j].name = es[j].name
           /\ \A j \in 1 .. n : t[j].size = IF j = n THEN kept ELSE es[j].size
<1> DEFINE c == [es[n] EXCEPT !.size = kept]
           s == [es EXCEPT ![n] = c]
<1>0. DOMAIN es = 1 .. n /\ n \in 1 .. n  OBVIOUS
<1>1. es[n] \in Ent(I)  BY <1>0
<1>2. c \in Ent(I) /\ c.addr = es[n].addr /\ c.name = es[n].name /\ c.size = kept  BY <1>1 DEF Ent
<1>3. [es EXCEPT ![n].size = kept] = s  OBVIOUS
<1> HIDE DEF c
<1>4. s \in Seq(Ent(I)) /\ Len(s) = n /\ \A j \in 1 .. n : s[j] = IF j = n THEN c ELSE es[j]
  BY <1>0, <1>2, ExceptSeq
<1>5. t = Append(s, e)  BY <1>3
<1> HIDE DEF s
<1>6. t \in Seq(Ent(I)) /\ Len(t) = n + 1 /\ t[n + 1] = e /\ \A j \in 1 .. n : t[j] = s[j]
  <2> DEFINE S == Ent(I)
  <2>1. s \in Seq(S) /\ e \in S /\ Len(s) = n /\ n \in Nat /\ t = Append(s, e)  BY <1>4, <1>5
  <2> HIDE DEF S
  <2>2. t \in Seq(S)  BY ONLY <2>1
  <2>3. Len(t) = n + 1 /\ t[n + 1] = e  BY ONLY <2>1
  <2>4. \A j \in 1 .. n : t[j] = s[j]  BY ONLY <2>1
  <2> QED  BY <2>2, <2>3, <2>4 DEF S
<1>7. ASSUME NEW j \in 1 .. n
      PROVE  t[j].addr = es[j].addr /\ t[j].name = es[j].name /\ t[j].size = IF j = n THEN kept ELSE es[j].size
  <2>1. t[j] = IF j = n THEN c ELSE es[j]  BY <1>4, <1>6
  <2> QED  BY <1>2, <2>1
<1> QED  BY <1>6, <1>7

\* Where entry j is before one at i is taken away.
Before(i, j) == IF j < i THEN j ELSE j + 1

\* The entries of a folder after unlink_entry: the one before i has its bytes too.
Without(es, i) == SubSeq([es EXCEPT ![i - 1].size = @ + es[i].size], 1, i - 1) \o SubSeq(es, i + 1, Len(es))
IsWithout(I, es, n, i, t) ==
    /\ t \in Seq(Ent(I)) /\ Len(t) = n - 1
    /\ \A j \in 1 .. n - 1 : t[j].addr = es[Before(i, j)].addr /\ t[j].name = es[Before(i, j)].name
    /\ \A j \in 1 .. n - 1 :
         t[j].size = IF j = i - 1 THEN es[i - 1].size + es[i].size ELSE es[Before(i, j)].size
\* The entries without the one at i, whose bytes the one before has.
LEMMA UnlinkedEntries ==
    ASSUME NEW I, NEW es \in Seq(Ent(I)), NEW n \in Nat, n = Len(es), NEW i \in 2 .. n, NEW t, t = Without(es, i)
    PROVE  IsWithout(I, es, n, i, t)
<1> DEFINE m == es[i - 1].size + es[i].size
           c == [es[i - 1] EXCEPT !.size = m]
           s == [es EXCEPT ![i - 1] = c]
           a == SubSeq(s, 1, i - 1)
           b == SubSeq(es, i + 1, n)
<1>0. DOMAIN es = 1 .. n /\ i \in 1 .. n /\ i - 1 \in 1 .. n /\ i - 1 \in 0 .. n  OBVIOUS
<1>1. es[i] \in Ent(I) /\ es[i - 1] \in Ent(I)  BY <1>0
<1>2. m \in Nat \ {0}  BY <1>1 DEF Ent
<1>3. [es EXCEPT ![i - 1].size = @ + es[i].size] = s  OBVIOUS
<1> HIDE DEF m
<1>4. c \in Ent(I) /\ c.addr = es[i - 1].addr /\ c.name = es[i - 1].name /\ c.size = m  BY <1>1, <1>2 DEF Ent
<1> HIDE DEF c
<1>5. s \in Seq(Ent(I)) /\ Len(s) = n /\ \A j \in 1 .. n : s[j] = IF j = i - 1 THEN c ELSE es[j]
  BY <1>0, <1>4, ExceptSeq
<1>6. t = a \o b  BY <1>3 DEF Without
<1> HIDE DEF s
<1>7. a \in Seq(Ent(I)) /\ Len(a) = i - 1 /\ \A j \in 1 .. i - 1 : a[j] = s[j]  BY <1>0, <1>5, FirstOnes
<1>8. /\ b \in Seq(Ent(I)) /\ Len(b) = IF i + 1 <= n THEN n - (i + 1) + 1 ELSE 0
      /\ \A j \in 1 .. n - (i + 1) + 1 : b[j] = es[i + 1 + j - 1]
  <2>1. \A j \in i + 1 .. n : es[j] \in Ent(I)  OBVIOUS
  <2>2. i + 1 \in Int /\ n \in Int  OBVIOUS
  <2> QED  BY <2>1, <2>2, SubSeqProperties
<1>9. Len(b) = n - i  BY <1>8
<1>10. \A j \in 1 .. n - i : b[j] = es[i + j]
  <2>1. ASSUME NEW j \in 1 .. n - i  PROVE b[j] = es[i + j]
    <3>1. j \in 1 .. n - (i + 1) + 1 /\ i + 1 + j - 1 = i + j  OBVIOUS
    <3> QED  BY <1>8, <3>1
  <2> QED  BY <2>1
<1> HIDE DEF a, b
<1>a. a \in Seq(Ent(I)) /\ b \in Seq(Ent(I))  BY <1>7, <1>8
<1>11. /\ t \in Seq(Ent(I)) /\ Len(t) = Len(a) + Len(b)
       /\ \A j \in 1 .. Len(a) + Len(b) : t[j] = IF j <= Len(a) THEN a[j] ELSE b[j - Len(a)]
  BY <1>6, <1>a, ConcatProperties
<1>12. Len(t) = n - 1 /\ Len(a) + Len(b) = n - 1  BY <1>7, <1>9, <1>11
<1>13. ASSUME NEW j \in 1 .. n - 1
       PROVE  /\ t[j].addr = es[Before(i, j)].addr /\ t[j].name = es[Before(i, j)].name
              /\ t[j].size = IF j = i - 1 THEN m ELSE es[Before(i, j)].size
  <2>1. t[j] = IF j <= i - 1 THEN a[j] ELSE b[j - (i - 1)]  BY <1>7, <1>11, <1>12
  <2>2. CASE j <= i - 1
    <3>1. j \in 1 .. i - 1 /\ j \in 1 .. n /\ Before(i, j) = j  BY <2>2 DEF Before
    <3>2. t[j] = IF j = i - 1 THEN c ELSE es[j]  BY <1>5, <1>7, <2>1, <2>2, <3>1
    <3> QED  BY <1>4, <3>1, <3>2
  <2>3. CASE ~(j <= i - 1)
    <3>1. j - (i - 1) \in 1 .. n - i /\ i + (j - (i - 1)) = j + 1 /\ j # i - 1 /\ Before(i, j) = j + 1
      BY <2>3 DEF Before
    <3>2. t[j] = es[j + 1]  BY <1>10, <2>1, <2>3, <3>1
    <3> QED  BY <3>1, <3>2
  <2> QED  BY <2>2, <2>3
<1> QED  BY <1>11, <1>12, <1>13 DEF m, IsWithout

\* Steps of one, from either end.
LEMMA StepsOfOne ==
    ASSUME NEW n \in Nat, NEW j \in Nat, j + 1 <= n
    PROVE  /\ n - j \in 1 .. n /\ n + 1 - (j + 1) = n - j /\ n + 1 - j = (n - j) + 1 /\ j <= n
           /\ j + 1 \in 1 .. n /\ (j + 1) - 1 = j
OBVIOUS

\* Any function that adds up the sizes gives the offsets.
SumsUp(g, d, n) ==
    /\ n \in Nat /\ n = Len(d.entries) /\ g[0] = 0
    /\ \A j \in 1 .. n : g[j] = g[j - 1] + d.entries[j].size
\* Sums of sizes are the offsets.
LEMMA OffsetsUnique ==
    ASSUME NEW d, NEW n, NEW g, SumsUp(g, d, n)
    PROVE  \A j \in 0 .. n : Offset(d, j + 1) = g[j]
<1> USE DEF SumsUp
<1>1. /\ Ends(d)[0] = 0
      /\ \A j \in 1 .. n : Ends(d)[j] = Ends(d)[j - 1] + d.entries[j].size
      /\ \A j : Offset(d, j) = Ends(d)[j - 1]
  BY OffsetSteps
<1> DEFINE A == {j \in Nat : j <= n => Ends(d)[j] = g[j]}
<1>2. 0 \in A  BY <1>1
<1>3. ASSUME NEW j \in Nat, j \in A  PROVE j + 1 \in A
  <2> SUFFICES ASSUME j + 1 <= n  PROVE Ends(d)[j + 1] = g[j + 1]  OBVIOUS
  <2>1. j + 1 \in 1 .. n /\ (j + 1) - 1 = j /\ j <= n  OBVIOUS
  <2>2. Ends(d)[j] = g[j]  BY <1>3, <2>1
  <2> QED  BY <1>1, <2>1, <2>2
<1> HIDE DEF A
<1>4. \A j \in Nat : j \in A  BY <1>2, <1>3, NatSetInduction
<1>5. ASSUME NEW j \in 0 .. n  PROVE Offset(d, j + 1) = g[j]
  <2>1. Ends(d)[j] = g[j]  BY <1>4 DEF A
  <2>2. (j + 1) - 1 = j  OBVIOUS
  <2> QED  BY <1>1, <2>1, <2>2
<1> QED  BY <1>5

\* Offsets are sums of sizes: numbers that grow from entry to entry.
LEMMA OffsetsGrow ==
    ASSUME NEW I, NEW d, NEW n \in Nat, n = Len(d.entries), d.entries \in Seq(Ent(I))
    PROVE  /\ Offset(d, 1) = 0
           /\ \A j \in 1 .. n : Offset(d, j + 1) = Offset(d, j) + d.entries[j].size
           /\ \A j \in 1 .. n + 1 : Offset(d, j) \in Nat /\ Offset(d, j) <= Offset(d, n + 1)
<1>a. \A j \in 1 .. n : d.entries[j] \in Ent(I)
  <2> DEFINE es == d.entries
  <2>1. es \in Seq(Ent(I)) /\ n = Len(es)  OBVIOUS
  <2> HIDE DEF es
  <2>2. \A j \in 1 .. n : es[j] \in Ent(I)  BY <2>1
  <2> QED  BY <2>2 DEF es
<1>0. \A j \in 1 .. n : d.entries[j].size \in Nat \ {0}
  <2>1. \A e \in Ent(I) : e.size \in Nat \ {0}  BY DEF Ent
  <2> QED  BY <1>a, <2>1
<1>1. /\ Ends(d)[0] = 0
      /\ \A j \in 1 .. n : Ends(d)[j] = Ends(d)[j - 1] + d.entries[j].size
      /\ \A j : Offset(d, j) = Ends(d)[j - 1]
  BY OffsetSteps
<1>2. Offset(d, 1) = 0
  <2>1. 1 - 1 = 0  OBVIOUS
  <2> QED  BY <1>1, <2>1
<1>3. ASSUME NEW j \in 1 .. n  PROVE Offset(d, j + 1) = Offset(d, j) + d.entries[j].size
  <2>1. (j + 1) - 1 = j  OBVIOUS
  <2>2. Offset(d, j + 1) = Ends(d)[j] /\ Offset(d, j) = Ends(d)[j - 1]  BY <1>1, <2>1
  <2> QED  BY <1>1, <2>2
<1> DEFINE A == {j \in Nat : j <= n => Offset(d, j + 1) \in Nat}
           B == {j \in Nat : j <= n => Offset(d, n + 1 - j) <= Offset(d, n + 1)}
<1>4. \A j \in Nat : j \in A
  <2>0. 0 + 1 = 1 /\ 0 \in Nat  OBVIOUS
  <2>1. 0 \in A  BY <1>2, <2>0
  <2>2. ASSUME NEW j \in Nat, j \in A  PROVE j + 1 \in A
    <3> SUFFICES ASSUME j + 1 <= n  PROVE Offset(d, (j + 1) + 1) \in Nat  OBVIOUS
    <3>1. j + 1 \in 1 .. n /\ j <= n  OBVIOUS
    <3>2. Offset(d, j + 1) \in Nat  BY <2>2, <3>1
    <3>3. Offset(d, (j + 1) + 1) = Offset(d, j + 1) + d.entries[j + 1].size  BY <1>3, <3>1
    <3>4. d.entries[j + 1].size \in Nat \ {0}  BY <1>0, <3>1
    <3> QED  BY <3>2, <3>3, <3>4
  <2> HIDE DEF A
  <2> QED  BY <2>1, <2>2, NatSetInduction
<1>5. ASSUME NEW j \in 1 .. n + 1  PROVE Offset(d, j) \in Nat
  <2>1. j - 1 \in Nat /\ j - 1 <= n /\ (j - 1) + 1 = j  OBVIOUS
  <2>2. j - 1 \in A  BY <1>4, <2>1
  <2> QED  BY <2>1, <2>2
<1>6. \A j \in Nat : j \in B
  <2>0. n + 1 - 0 = n + 1 /\ n + 1 \in 1 .. n + 1  OBVIOUS
  <2>1. 0 \in B  BY <1>5, <2>0
  <2>2. ASSUME NEW j \in Nat, j \in B  PROVE j + 1 \in B
    <3>0. j + 1 \in Nat  OBVIOUS
    <3> SUFFICES ASSUME j + 1 <= n  PROVE Offset(d, n + 1 - (j + 1)) <= Offset(d, n + 1)  BY <3>0, Zenon
    <3> DEFINE k == n - j
    <3>1. k \in 1 .. n /\ n + 1 - (j + 1) = k /\ n + 1 - j = k + 1 /\ j <= n  BY StepsOfOne
    <3>2. Offset(d, k + 1) <= Offset(d, n + 1)  BY <2>2, <3>1
    <3> HIDE DEF k
    <3>3. Offset(d, k + 1) = Offset(d, k) + d.entries[k].size /\ d.entries[k].size \in Nat  BY <1>0, <1>3, <3>1
    <3>4. k \in 1 .. n + 1 /\ k + 1 \in 1 .. n + 1 /\ n + 1 \in 1 .. n + 1  BY <3>1
    <3>5. Offset(d, k) \in Nat /\ Offset(d, k + 1) \in Nat /\ Offset(d, n + 1) \in Nat  BY <1>5, <3>4
    <3>6. Offset(d, k) <= Offset(d, n + 1)  BY <3>2, <3>3, <3>5
    <3> QED  BY <3>1, <3>6
  <2> HIDE DEF B
  <2> QED  BY <2>1, <2>2, NatSetInduction
<1>7. ASSUME NEW j \in 1 .. n + 1  PROVE Offset(d, j) <= Offset(d, n + 1)
  <2>1. n + 1 - j \in Nat /\ n + 1 - j <= n /\ n + 1 - (n + 1 - j) = j  OBVIOUS
  <2>2. n + 1 - j \in B  BY <1>6, <2>1
  <2> QED  BY <2>1, <2>2
<1> QED  BY <1>2, <1>3, <1>5, <1>7

\* A multiple of a multiple of four, and sums of them.
LEMMA Fours ==
    /\ \A a, b \in Nat : a % 4 = 0 /\ b % 4 = 0 => (a + b) % 4 = 0
    /\ \A m \in Nat, b \in Nat \ {0} : m % b = 0 /\ b % 4 = 0 => m % 4 = 0
    /\ \A m \in Nat : m % 4 # 0 => (m + (4 - (m % 4))) % 4 = 0 /\ 4 - (m % 4) \in Nat
<1>1. \A a, b \in Nat : a % 4 = 0 /\ b % 4 = 0 => (a + b) % 4 = 0  OBVIOUS
<1>2. ASSUME NEW m \in Nat, NEW b \in Nat \ {0}, m % b = 0, b % 4 = 0  PROVE m % 4 = 0
  <2> DEFINE q == m \div b
             r == b \div 4
  <2>1. m = b * q + (m % b) /\ q \in Nat  OBVIOUS
  <2>2. b = 4 * r + (b % 4) /\ r \in Nat  OBVIOUS
  <2> HIDE DEF q, r
  <2>3. m = (4 * r) * q  BY <1>2, <2>1, <2>2
  <2>4. (4 * r) * q = 4 * (r * q) /\ r * q \in Nat  BY <2>1, <2>2
  <2>5. \A x \in Nat : (4 * x) % 4 = 0  OBVIOUS
  <2> QED  BY <2>3, <2>4, <2>5
<1>3. \A m \in Nat : m % 4 # 0 => (m + (4 - (m % 4))) % 4 = 0 /\ 4 - (m % 4) \in Nat  OBVIOUS
<1> QED  BY <1>1, <1>2, <1>3

\* The end of the block that byte n is in.
LEMMA EndOfBlock ==
    ASSUME NEW n \in Nat, NEW b \in Nat \ {0}
    PROVE  (n + (b - (n % b))) % b = 0
OBVIOUS

\* The sizes create_entry comes to, from where the last entry starts (off), its size
\* (lsz) and the bytes it uses (ul), and the bytes of the new one (need).
SizedAs(off, lsz, ul, bs, need, su, kept, size) ==
    /\ off % 4 = 0 /\ lsz >= ul /\ bs % 4 = 0 /\ (off + lsz) % bs = 0
    /\ su = IF ul % 4 = 0 THEN ul ELSE ul + (4 - (ul % 4))
    /\ kept = IF lsz - su >= need THEN su ELSE lsz
    /\ size = need + (bs - ((off + kept + need) % bs))
Fills(off, ul, bs, need, kept, size) ==
    /\ kept \in Nat \ {0} /\ kept >= ul /\ (off + kept) % 4 = 0
    /\ size \in Nat \ {0} /\ size >= need /\ (off + kept + size) % bs = 0

\* create_entry fills the folder up to the end of a block, aligned as before.
LEMMA CreateSizes ==
    ASSUME NEW off \in Nat, NEW lsz \in Nat, NEW ul \in Nat \ {0}, NEW bs \in Nat \ {0}, NEW need \in Nat \ {0},
           NEW su, NEW kept, NEW size, SizedAs(off, lsz, ul, bs, need, su, kept, size)
    PROVE  Fills(off, ul, bs, need, kept, size)
<1> USE DEF SizedAs
<1>1. su \in Nat \ {0} /\ su >= ul /\ su % 4 = 0
  <2>1. CASE ul % 4 = 0  BY <2>1
  <2>2. CASE ul % 4 # 0
    <3>1. (ul + (4 - (ul % 4))) % 4 = 0 /\ 4 - (ul % 4) \in Nat  BY <2>2, Fours
    <3> DEFINE z == 4 - (ul % 4)
    <3>2. su = ul + z /\ z \in Nat /\ (ul + z) % 4 = 0  BY <2>2, <3>1
    <3> HIDE DEF z
    <3> QED  BY <3>2
  <2> QED  BY <2>1, <2>2
<1>2. kept \in Nat \ {0} /\ kept >= ul /\ kept \in {su, lsz}  BY <1>1
<1>3. (off + kept) % 4 = 0
  <2>1. CASE kept = su  BY <1>1, <2>1, Fours
  <2>2. CASE kept = lsz
    <3>1. off + lsz \in Nat  OBVIOUS
    <3>2. (off + lsz) % 4 = 0  BY <3>1, Fours
    <3> QED  BY <2>2, <3>2
  <2> QED  BY <1>2, <2>1, <2>2
<1> DEFINE x == off + kept + need
<1>4. x \in Nat  BY <1>2
<1>5. x % bs \in 0 .. bs - 1  BY <1>4
<1>6. size = need + (bs - (x % bs)) /\ off + kept + size = x + (bs - (x % bs))  BY <1>2, <1>5
<1>7. (x + (bs - (x % bs))) % bs = 0
  <2> HIDE DEF x
  <2> QED  BY <1>4, EndOfBlock
<1>8. (off + kept + size) % bs = 0
  <2> DEFINE y == off + kept + size
             z == x + (bs - (x % bs))
  <2>1. y = z /\ z % bs = 0  BY <1>6, <1>7
  <2> HIDE DEF y, z
  <2>2. y % bs = 0  BY <2>1
  <2> QED  BY <2>2 DEF y
<1>9. size \in Nat \ {0} /\ size >= need
  <2> HIDE DEF x
  <2> QED  BY <1>5, <1>6
<1> QED  BY <1>2, <1>3, <1>8, <1>9 DEF Fills

\* A folder that get_entries can read.
ReadOk(f, I) ==
    /\ f \in [size : 0 .. MaxFolder, entries : Seq(Ent(I))]
    /\ f.entries # <<>> /\ TilesFolder(f) /\ f.size % BlockSize = 0

\* FoldersRead, folder by folder.
LEMMA FoldersReadOk ==
    ASSUME NEW fs, NEW I
    PROVE  FoldersRead(fs, I) <=> \A a \in DOMAIN fs : ReadOk(fs[a], I)
BY DEF FoldersRead, ReadOk, Ent

\* What TilesFolder says, entry by entry.
LEMMA TilesIs ==
    ASSUME NEW f, NEW n \in Nat, n = Len(f.entries), DOMAIN f.entries = 1 .. n
    PROVE  TilesFolder(f) <=>
             /\ Offset(f, n + 1) = f.size
             /\ \A j \in 1 .. n : f.entries[j].size >= Header + Length[f.entries[j].name] /\ Offset(f, j) % 4 = 0
BY DEF TilesFolder

\* The entries of r are those of f and one for inode i.
Grown(f, r, name, i) ==
    /\ Len(r.entries) = Len(f.entries) + 1
    /\ \A j \in 1 .. Len(f.entries) :
         r.entries[j].addr = f.entries[j].addr /\ r.entries[j].name = f.entries[j].name
    /\ r.entries[Len(f.entries) + 1].addr = i /\ r.entries[Len(f.entries) + 1].name = name

\* The folder that create_entry makes, when there is room for it.
LEMMA CreateEntryOk ==
    ASSUME NEW I, NEW f, ReadOk(f, I), NEW name \in DOMAIN Length, NEW i \in I,
           NEW r, r = create_entry(f, name, i)
    PROVE  r.size \in Nat /\ Grown(f, r, name, i) /\ (r.size <= MaxFolder => ReadOk(r, I))
<1> DEFINE es == f.entries
           n == Len(es)
           lst == es[n]
           need == Header + Length[name]
           ul == Header + Length[lst.name]
           su == space_used(lst)
           off == Offset(f, n)
           kept == IF lst.size - su >= need THEN su ELSE lst.size
           first == off + kept
           size == need + (BlockSize - ((first + need) % BlockSize))
           e == [addr |-> i, size |-> size, name |-> name]
           t == Append([es EXCEPT ![n].size = kept], e)
<1>1. r = [size |-> first + size, entries |-> t]  BY DEF create_entry
<1>2. es \in Seq(Ent(I)) /\ n \in Nat \ {0} /\ DOMAIN es = 1 .. n /\ n \in 1 .. n
  <2>1. es \in Seq(Ent(I)) /\ es # <<>>  BY DEF ReadOk
  <2> HIDE DEF es
  <2> QED  BY <2>1
<1>3. lst \in Ent(I)  BY <1>2
<1>4. /\ BlockSize \in Nat \ {0} /\ BlockSize % 4 = 0 /\ Header \in Nat \ {0}
      /\ Length \in [DOMAIN Length -> Nat] /\ MaxFolder \in Nat
  BY Ext2DirAssumption, ShellAssumption
<1>5. lst.size \in Nat \ {0} /\ lst.name \in DOMAIN Length  BY <1>3 DEF Ent
<1>6. need \in Nat \ {0} /\ ul \in Nat \ {0}  BY <1>4, <1>5, SMTT(30)
<1>7. /\ Offset(f, 1) = 0
      /\ \A j \in 1 .. n : Offset(f, j + 1) = Offset(f, j) + f.entries[j].size
      /\ \A j \in 1 .. n + 1 : Offset(f, j) \in Nat /\ Offset(f, j) <= Offset(f, n + 1)
  BY <1>2, OffsetsGrow
<1>8. /\ Offset(f, n + 1) = f.size /\ f.size % BlockSize = 0
      /\ \A j \in 1 .. n : f.entries[j].size >= Header + Length[f.entries[j].name] /\ Offset(f, j) % 4 = 0
  BY <1>2, TilesIs DEF ReadOk
<1>9. off \in Nat /\ off % 4 = 0 /\ (off + lst.size) % BlockSize = 0 /\ lst.size >= ul
  <2>1. n \in 1 .. n + 1  BY <1>2
  <2>2. off \in Nat  BY <1>7, <2>1
  <2>3. off % 4 = 0 /\ lst.size >= ul  BY <1>2, <1>8
  <2>4. off + lst.size = f.size  BY <1>2, <1>7, <1>8
  <2> QED  BY <1>8, <2>2, <2>3, <2>4
<1>10. su = IF ul % 4 = 0 THEN ul ELSE ul + (4 - (ul % 4))  BY DEF space_used
<1>a. kept = IF lst.size - su >= need THEN su ELSE lst.size  OBVIOUS
<1>b. size = need + (BlockSize - ((off + kept + need) % BlockSize))  OBVIOUS
<1>13. off + kept = first  OBVIOUS
<1>c. lst.size \in Nat  BY <1>5
<1>d. n = Len(es)  OBVIOUS
<1>e. t = Append([es EXCEPT ![n].size = kept], e)  OBVIOUS
<1>f. e = [addr |-> i, size |-> size, name |-> name]  OBVIOUS
<1> HIDE DEF lst, need, ul, su, off, kept, size, first, t, e
<1>11. /\ kept \in Nat \ {0} /\ kept >= ul /\ (off + kept) % 4 = 0
       /\ size \in Nat \ {0} /\ size >= need /\ (off + kept + size) % BlockSize = 0
  <2> DEFINE lsz == lst.size
  <2>1. SizedAs(off, lsz, ul, BlockSize, need, su, kept, size)  BY <1>4, <1>9, <1>10, <1>a, <1>b DEF SizedAs
  <2>2. BlockSize \in Nat \ {0} /\ off \in Nat /\ lsz \in Nat /\ ul \in Nat \ {0} /\ need \in Nat \ {0}
    BY <1>4, <1>6, <1>9, <1>c
  <2> HIDE DEF lsz
  <2>3. Fills(off, ul, BlockSize, need, kept, size)  BY <2>1, <2>2, CreateSizes
  <2> QED  BY <2>3 DEF Fills
<1>12. first \in Nat /\ first + size \in Nat /\ first % 4 = 0 /\ (first + size) % BlockSize = 0
  <2>1. off \in Nat /\ kept \in Nat /\ size \in Nat /\ (off + kept) % 4 = 0 /\ (off + kept + size) % BlockSize = 0
    BY <1>9, <1>11
  <2>2. first \in Nat /\ first + size = off + kept + size  BY <1>13, <2>1
  <2> QED  BY <1>13, <2>1, <2>2
<1>14. e \in Ent(I)  BY <1>11, <1>f DEF Ent
<1>15. /\ t \in Seq(Ent(I)) /\ Len(t) = n + 1 /\ t[n + 1] = e
       /\ \A j \in 1 .. n : t[j].addr = es[j].addr /\ t[j].name = es[j].name
       /\ \A j \in 1 .. n : t[j].size = IF j = n THEN kept ELSE es[j].size
  <2>1. kept \in Nat \ {0}  BY <1>11
  <2> HIDE DEF n, es
  <2>2. es \in Seq(Ent(I)) /\ n \in Nat \ {0} /\ n = Len(es)  BY <1>2, <1>d
  <2> QED  BY <2>1, <2>2, <1>14, <1>e, CreatedEntries
<1>16. e.addr = i /\ e.size = size /\ e.name = name  BY <1>f
<1>17. r.size = first + size /\ r.entries = t  BY <1>1
<1>18. Grown(f, r, name, i)  BY <1>15, <1>16, <1>17 DEF Grown
<1>19. ASSUME r.size <= MaxFolder  PROVE ReadOk(r, I)
  <2> DEFINE g == [j \in 0 .. n + 1 |-> IF j < n THEN Offset(f, j + 1) ELSE IF j = n THEN first ELSE first + size]
  <2>1. g[0] = 0
    <3>1. 0 < n /\ 0 + 1 = 1 /\ 0 \in 0 .. n + 1  BY <1>2
    <3> QED  BY <1>7, <3>1
  <2>2. ASSUME NEW j \in 1 .. n + 1  PROVE g[j] = g[j - 1] + t[j].size
    <3>1. CASE j < n
      <4>1. j \in 1 .. n /\ j # n /\ j - 1 < n /\ (j - 1) + 1 = j /\ j - 1 \in 0 .. n + 1  BY <1>2, <3>1
      <4>2. g[j] = Offset(f, j + 1) /\ g[j - 1] = Offset(f, j)  BY <3>1, <4>1
      <4>3. t[j].size = es[j].size  BY <1>15, <4>1
      <4> QED  BY <1>7, <4>1, <4>2, <4>3
    <3>2. CASE j = n
      <4>1. j - 1 < n /\ (j - 1) + 1 = n /\ j - 1 \in 0 .. n + 1 /\ ~(j < n)  BY <1>2, <3>2
      <4>2. g[j] = first /\ g[j - 1] = Offset(f, n)  BY <3>2, <4>1
      <4>3. t[j].size = kept  BY <1>2, <1>15, <3>2
      <4> QED  BY <1>13, <4>2, <4>3 DEF off
    <3>3. CASE j = n + 1
      <4>1. j - 1 = n /\ ~(n < n) /\ ~(j < n) /\ j # n /\ n \in 0 .. n + 1  BY <1>2, <3>3
      <4>2. g[j] = first + size /\ g[j - 1] = first  BY <4>1
      <4> QED  BY <1>15, <1>16, <3>3, <4>2
    <3> QED  BY <1>2, <3>1, <3>2, <3>3
  <2>3. n + 1 \in Nat /\ n + 1 = Len(r.entries) /\ DOMAIN r.entries = 1 .. n + 1  BY <1>2, <1>15, <1>17
  <2>4. \A j \in 1 .. n + 1 : g[j] = g[j - 1] + r.entries[j].size  BY <1>17, <2>2
  <2> HIDE DEF n
  <2>5. g[n + 1] = first + size /\ \A j \in 0 .. n : g[j] = IF j < n THEN Offset(f, j + 1) ELSE first
    <3>1. n + 1 \in 0 .. n + 1 /\ ~(n + 1 < n) /\ n + 1 # n  BY <1>2
    <3>2. ASSUME NEW j \in 0 .. n  PROVE g[j] = IF j < n THEN Offset(f, j + 1) ELSE first
      <4>1. j \in 0 .. n + 1 /\ (j < n \/ j = n)  BY <1>2
      <4> QED  BY <4>1
    <3> QED  BY <3>1, <3>2
  <2> HIDE DEF g
  <2>6. \A j \in 0 .. n + 1 : Offset(r, j + 1) = g[j]
    <3> DEFINE m == n + 1
    <3>1. m \in Nat /\ m = Len(r.entries) /\ \A j \in 1 .. m : g[j] = g[j - 1] + r.entries[j].size  BY <2>3, <2>4
    <3> HIDE DEF m
    <3>3. SumsUp(g, r, m)  BY <2>1, <3>1 DEF SumsUp
    <3>2. \A j \in 0 .. m : Offset(r, j + 1) = g[j]  BY <3>3, OffsetsUnique
    <3> QED  BY <3>2 DEF m
  <2>7. Offset(r, (n + 1) + 1) = r.size
    <3>1. n + 1 \in 0 .. n + 1  BY <1>2
    <3> QED  BY <1>17, <2>5, <2>6, <3>1
  <2>8. ASSUME NEW j \in 1 .. n + 1
        PROVE  r.entries[j].size >= Header + Length[r.entries[j].name] /\ Offset(r, j) % 4 = 0
    <3>1. j - 1 \in 0 .. n + 1 /\ (j - 1) + 1 = j /\ j - 1 \in 0 .. n  BY <1>2
    <3>2. Offset(r, j) = IF j - 1 < n THEN Offset(f, j) ELSE first  BY <2>5, <2>6, <3>1
    <3>3. CASE j \in 1 .. n
      <4>1. j - 1 < n  BY <1>2, <3>3
      <4>2. Offset(r, j) % 4 = 0  BY <1>8, <3>2, <3>3, <4>1
      <4>3. CASE j = n
        <5>1. t[j].size = kept /\ t[j].name = lst.name  BY <1>15, <3>3, <4>3 DEF lst
        <5> QED  BY <1>11, <1>17, <4>2, <5>1 DEF ul
      <4>4. CASE j # n
        <5>1. t[j].size = f.entries[j].size /\ t[j].name = f.entries[j].name  BY <1>15, <3>3, <4>4
        <5>2. f.entries[j].size >= Header + Length[f.entries[j].name]  BY <1>8, <3>3
        <5> QED  BY <1>17, <4>2, <5>1, <5>2
      <4> QED  BY <4>3, <4>4
    <3>4. CASE j = n + 1
      <4>1. ~(j - 1 < n)  BY <1>2, <3>4
      <4>2. Offset(r, j) % 4 = 0  BY <1>12, <3>2, <4>1
      <4>3. r.entries[j].size = size /\ r.entries[j].name = name  BY <1>15, <1>16, <1>17, <3>4
      <4> QED  BY <1>11, <4>2, <4>3 DEF need
    <3> QED  BY <1>2, <3>3, <3>4
  <2>9. TilesFolder(r)  BY <2>3, <2>7, <2>8, TilesIs
  <2>10. t # <<>>
    <3>1. n + 1 # 0  BY <1>2
    <3> QED  BY <1>15, <3>1
  <2>11. first + size \in 0 .. MaxFolder  BY <1>4, <1>12, <1>17, <1>19
  <2>12. r \in [size : 0 .. MaxFolder, entries : Seq(Ent(I))]  BY <1>1, <1>15, <2>11
  <2> QED  BY <1>12, <1>17, <2>9, <2>10, <2>12 DEF ReadOk
<1> QED  BY <1>12, <1>17, <1>18, <1>19

\* The entries of r are those of f without the one at i.
Shrunk(f, r, i) ==
    /\ Len(r.entries) = Len(f.entries) - 1
    /\ \A j \in 1 .. Len(f.entries) - 1 :
         /\ r.entries[j].addr = f.entries[Before(i, j)].addr
         /\ r.entries[j].name = f.entries[Before(i, j)].name

\* The folder that unlink_entry leaves.
LEMMA UnlinkEntryOk ==
    ASSUME NEW I, NEW f, ReadOk(f, I), NEW i \in 2 .. Len(f.entries), NEW r, r = unlink_entry(f, i)
    PROVE  Shrunk(f, r, i) /\ ReadOk(r, I)
<1> DEFINE es == f.entries
           n == Len(es)
           t == Without(es, i)
<1>1. f \in [size : 0 .. MaxFolder, entries : Seq(Ent(I))]  BY DEF ReadOk
<1>2. r = [f EXCEPT !.entries = t]  BY DEF unlink_entry, Without
<1>3. es \in Seq(Ent(I)) /\ n \in Nat /\ DOMAIN es = 1 .. n /\ i \in 2 .. n /\ n = Len(es)
  <2>1. es \in Seq(Ent(I)) /\ i \in 2 .. Len(es)  BY <1>1
  <2> HIDE DEF es
  <2> QED  BY <2>1
<1>4. /\ t \in Seq(Ent(I)) /\ Len(t) = n - 1
      /\ \A j \in 1 .. n - 1 : t[j].addr = es[Before(i, j)].addr /\ t[j].name = es[Before(i, j)].name
      /\ \A j \in 1 .. n - 1 :
           t[j].size = IF j = i - 1 THEN es[i - 1].size + es[i].size ELSE es[Before(i, j)].size
  <2>1. t = Without(es, i)  OBVIOUS
  <2> HIDE DEF es, n, t
  <2>2. IsWithout(I, es, n, i, t)  BY <1>3, <2>1, UnlinkedEntries
  <2> QED  BY <2>2 DEF IsWithout
<1> HIDE DEF t
<1>5. r.size = f.size /\ r.entries = t /\ r \in [size : 0 .. MaxFolder, entries : Seq(Ent(I))]  BY <1>1, <1>2, <1>4
<1>6. Shrunk(f, r, i)  BY <1>4, <1>5 DEF Shrunk
<1>7. /\ Offset(f, 1) = 0
      /\ \A j \in 1 .. n : Offset(f, j + 1) = Offset(f, j) + f.entries[j].size
      /\ \A j \in 1 .. n + 1 : Offset(f, j) \in Nat /\ Offset(f, j) <= Offset(f, n + 1)
  BY <1>3, OffsetsGrow
<1>8. /\ Offset(f, n + 1) = f.size /\ f.size % BlockSize = 0
      /\ \A j \in 1 .. n : f.entries[j].size >= Header + Length[f.entries[j].name] /\ Offset(f, j) % 4 = 0
  BY <1>3, TilesIs DEF ReadOk
<1> DEFINE m == n - 1
           g == [j \in 0 .. m |-> IF j < i - 1 THEN Offset(f, j + 1) ELSE Offset(f, j + 2)]
<1>9. m \in Nat /\ m + 1 = n /\ m >= i - 1 /\ i \in Nat /\ i >= 2  BY <1>3
<1>10. m = Len(r.entries) /\ DOMAIN r.entries = 1 .. m  BY <1>4, <1>5
<1>11. g[0] = 0
  <2>1. 0 < i - 1 /\ 0 \in 0 .. m /\ 0 + 1 = 1  BY <1>9
  <2> QED  BY <1>7, <2>1
<1>12. ASSUME NEW j \in 1 .. m  PROVE g[j] = g[j - 1] + t[j].size
  <2>0. j \in 0 .. m /\ j - 1 \in 0 .. m /\ j \in 1 .. n - 1 /\ j \in 1 .. n /\ (j - 1) + 1 = j /\ (j - 1) + 2 = j + 1
    BY <1>9
  <2>1. CASE j < i - 1
    <3>1. j - 1 < i - 1 /\ j # i - 1 /\ Before(i, j) = j  BY <1>9, <2>1 DEF Before
    <3>2. g[j] = Offset(f, j + 1) /\ g[j - 1] = Offset(f, j)  BY <2>0, <2>1, <3>1
    <3>3. t[j].size = es[j].size  BY <1>4, <2>0, <3>1
    <3> QED  BY <1>7, <2>0, <3>2, <3>3
  <2>2. CASE j = i - 1
    <3>1. j - 1 < i - 1 /\ ~(j < i - 1) /\ j + 2 = i + 1 /\ i \in 1 .. n /\ i - 1 \in 1 .. n /\ (i - 1) + 1 = i
      BY <1>3, <1>9, <2>2
    <3>2. g[j] = Offset(f, i + 1) /\ g[j - 1] = Offset(f, i - 1)  BY <2>0, <2>2, <3>1
    <3>3. t[j].size = es[i - 1].size + es[i].size  BY <1>4, <2>0, <2>2
    <3>4. Offset(f, i + 1) = Offset(f, i) + es[i].size /\ Offset(f, i) = Offset(f, i - 1) + es[i - 1].size
      BY <1>7, <3>1
    <3>5. es[i] \in Ent(I) /\ es[i - 1] \in Ent(I)  BY <1>3, <3>1
    <3>6. es[i].size \in Nat /\ es[i - 1].size \in Nat  BY <3>5 DEF Ent
    <3>7. Offset(f, i - 1) \in Nat  BY <1>7, <1>9, <3>1
    <3> DEFINE x == es[i].size
               y == es[i - 1].size
               o == Offset(f, i - 1)
    <3>8. g[j] = (o + y) + x /\ g[j - 1] = o /\ t[j].size = y + x /\ x \in Nat /\ y \in Nat /\ o \in Nat
      BY <3>2, <3>3, <3>4, <3>6, <3>7
    <3> HIDE DEF x, y, o
    <3> QED  BY <3>8
  <2>3. CASE j > i - 1
    <3>1. ~(j < i - 1) /\ ~(j - 1 < i - 1) /\ j # i - 1 /\ Before(i, j) = j + 1 /\ j + 1 \in 1 .. n /\ (j + 1) + 1 = j + 2
      BY <1>9, <2>3 DEF Before
    <3>2. g[j] = Offset(f, j + 2) /\ g[j - 1] = Offset(f, j + 1)  BY <2>0, <3>1
    <3>3. t[j].size = es[j + 1].size  BY <1>4, <2>0, <3>1
    <3> QED  BY <1>7, <3>1, <3>2, <3>3
  <2> QED  BY <1>9, <2>1, <2>2, <2>3
<1>13. g[m] = Offset(f, n + 1)
  <2>1. m \in 0 .. m /\ ~(m < i - 1) /\ m + 2 = n + 1  BY <1>9
  <2> QED  BY <2>1
<1>14. ASSUME NEW j \in 1 .. m  PROVE g[j - 1] = Offset(f, Before(i, j))
  <2>1. j - 1 \in 0 .. m /\ (j - 1 < i - 1 <=> j < i) /\ (j - 1) + 1 = j /\ (j - 1) + 2 = j + 1  BY <1>9
  <2> QED  BY <2>1 DEF Before
<1> HIDE DEF g, m
<1>15. \A j \in 1 .. m : g[j] = g[j - 1] + r.entries[j].size  BY <1>5, <1>12
<1>16. \A j \in 0 .. m : Offset(r, j + 1) = g[j]
  <2>1. m \in Nat /\ m = Len(r.entries)  BY <1>9, <1>10
  <2>2. SumsUp(g, r, m)  BY <1>11, <1>15, <2>1 DEF SumsUp
  <2> QED  BY <2>2, OffsetsUnique
<1>17. Offset(r, m + 1) = r.size
  <2>1. m \in 0 .. m  BY <1>9
  <2> QED  BY <1>5, <1>8, <1>13, <1>16, <2>1
<1>18. ASSUME NEW j \in 1 .. m
       PROVE  r.entries[j].size >= Header + Length[r.entries[j].name] /\ Offset(r, j) % 4 = 0
  <2>1. j - 1 \in 0 .. m /\ (j - 1) + 1 = j /\ Before(i, j) \in 1 .. n /\ j \in 1 .. n - 1  BY <1>9 DEF Before
  <2>2. Offset(r, j) = Offset(f, Before(i, j))  BY <1>14, <1>16, <2>1
  <2>3. Offset(r, j) % 4 = 0  BY <1>8, <2>1, <2>2
  <2> DEFINE b == Before(i, j)
  <2>4. es[b].size >= Header + Length[es[b].name]  BY <1>8, <2>1
  <2>5. t[j].name = es[b].name  BY <1>4, <2>1
  <2>6. t[j].size = IF j = i - 1 THEN es[i - 1].size + es[i].size ELSE es[b].size  BY <1>4, <2>1
  <2>7. CASE j # i - 1  BY <1>5, <2>3, <2>4, <2>5, <2>6, <2>7
  <2>8. CASE j = i - 1
    <3>1. b = i - 1 /\ i - 1 \in 1 .. n /\ i \in 1 .. n  BY <1>3, <1>9, <2>8 DEF Before
    <3>2. es[i] \in Ent(I) /\ es[i - 1] \in Ent(I)  BY <1>3, <3>1
    <3>3. es[i].size \in Nat /\ es[i - 1].size \in Nat /\ es[i - 1].name \in DOMAIN Length  BY <3>2 DEF Ent
    <3>4. Header \in Nat /\ Length \in [DOMAIN Length -> Nat]  BY Ext2DirAssumption
    <3> DEFINE x == es[i].size
               y == es[i - 1].size
               z == Header + Length[es[i - 1].name]
    <3>5. x \in Nat /\ y \in Nat /\ z \in Nat /\ y >= z /\ t[j].size = y + x  BY <2>4, <2>6, <2>8, <3>1, <3>3, <3>4
    <3>6. z = Header + Length[t[j].name]  BY <2>5, <3>1
    <3> HIDE DEF x, y, z
    <3>7. t[j].size >= z  BY <3>5
    <3> QED  BY <1>5, <2>3, <3>6, <3>7
  <2> QED  BY <2>7, <2>8
<1>19. TilesFolder(r)  BY <1>9, <1>10, <1>17, <1>18, TilesIs
<1>20. t # <<>>
  <2>1. m # 0  BY <1>9
  <2> QED  BY <1>5, <1>10, <2>1
<1>21. ReadOk(r, I)  BY <1>5, <1>8, <1>19, <1>20 DEF ReadOk
<1> QED  BY <1>6, <1>21

-----------------------------------------------------------------------------
(* What filter keeps *)

\* The elements of a sequence.
LEMMA RangeIs ==
    ASSUME NEW T, NEW s \in Seq(T)
    PROVE  Range(s) = {s[j] : j \in 1 .. Len(s)} /\ Range(s) \subseteq T
BY DEF Range

\* An element appended is one element more.
LEMMA AppendRange ==
    ASSUME NEW T, NEW s \in Seq(T), NEW x \in T
    PROVE  Range(Append(s, x)) = Range(s) \cup {x}
<1> DEFINE t == Append(s, x)
           n == Len(s)
<1>1. t \in Seq(T) /\ Len(t) = n + 1 /\ (\A j \in 1 .. n : t[j] = s[j]) /\ t[n + 1] = x  BY AppendProperties
<1>2. n \in Nat  OBVIOUS
<1>3. Range(s) = {s[j] : j \in 1 .. n}  BY RangeIs
<1> HIDE DEF t, n
<1>4. Range(t) = {t[j] : j \in 1 .. n + 1}  BY <1>1, RangeIs
<1>5. 1 .. n + 1 = (1 .. n) \cup {n + 1}  BY <1>2
<1>6. Range(t) = Range(s) \cup {x}  BY <1>1, <1>3, <1>4, <1>5
<1> QED  BY <1>6 DEF t

\* filter keeps the elements of S.
LEMMA FilterIs ==
    ASSUME NEW T, NEW s \in Seq(T), NEW S
    PROVE  filter(s, S) \in Seq(T) /\ Range(filter(s, S)) = Range(s) \cap S
<1> DEFINE f == Filtered(s, S)
           n == Len(s)
           A == {i \in Nat : i <= n => f[i] \in Seq(T) /\ Range(f[i]) = {s[j] : j \in 1 .. i} \cap S}
<1>0. n \in Nat /\ Len(s) \in Nat  OBVIOUS
<1>1. f[0] = <<>> /\ (\A i \in 1 .. n : f[i] = KeptWith(f[i - 1], s[i], S)) /\ filter(s, S) = f[n]
  BY <1>0, FilterSteps
<1>2. Range(s) = {s[j] : j \in 1 .. n} /\ \A j \in 1 .. n : s[j] \in T  BY RangeIs
<1> HIDE DEF f, n
<1>3. 0 \in A
  <2>1. <<>> \in Seq(T) /\ Range(<<>>) = {}  BY DEF Range
  <2>2. {s[j] : j \in 1 .. 0} = {}  OBVIOUS
  <2> QED  BY <1>1, <2>1, <2>2
<1>4. ASSUME NEW i \in Nat, i \in A  PROVE i + 1 \in A
  <2> SUFFICES ASSUME i + 1 <= n
               PROVE  f[i + 1] \in Seq(T) /\ Range(f[i + 1]) = {s[j] : j \in 1 .. i + 1} \cap S
    OBVIOUS
  <2>1. i + 1 \in 1 .. n /\ (i + 1) - 1 = i /\ i <= n  BY <1>0
  <2> DEFINE k == f[i]
             x == s[i + 1]
  <2>2. k \in Seq(T) /\ Range(k) = {s[j] : j \in 1 .. i} \cap S  BY <1>4, <2>1
  <2>3. f[i + 1] = KeptWith(k, x, S)  BY <1>1, <2>1
  <2>4. 1 .. i + 1 = (1 .. i) \cup {i + 1}  OBVIOUS
  <2>5. {s[j] : j \in 1 .. i + 1} = {s[j] : j \in 1 .. i} \cup {x}  BY <2>4
  <2>6. x \in T  BY <1>2, <2>1
  <2> HIDE DEF k, x
  <2>7. CASE x \in S
    <3>1. f[i + 1] = Append(k, x)  BY <2>3, <2>7 DEF KeptWith
    <3>2. Range(Append(k, x)) = Range(k) \cup {x}  BY <2>2, <2>6, AppendRange
    <3>3. Append(k, x) \in Seq(T)  BY <2>2, <2>6
    <3> QED  BY <2>2, <2>5, <2>7, <3>1, <3>2, <3>3
  <2>8. CASE x \notin S
    <3>1. f[i + 1] = k  BY <2>3, <2>8 DEF KeptWith
    <3> QED  BY <2>2, <2>5, <2>8, <3>1
  <2> QED  BY <2>7, <2>8
<1> HIDE DEF A
<1>5. n \in A  BY <1>0, <1>3, <1>4, NatSetInduction
<1>6. f[n] \in Seq(T) /\ Range(f[n]) = {s[j] : j \in 1 .. n} \cap S  BY <1>0, <1>5 DEF A
<1> QED  BY <1>1, <1>2, <1>6

\* What filter finds first is one of S; it finds nothing only if there is none.
LEMMA FilterFinds ==
    ASSUME NEW T, NEW s \in Seq(T), NEW S
    PROVE  /\ filter(s, S) # <<>> => filter(s, S)[1] \in Range(s) \cap S
           /\ filter(s, S) = <<>> <=> Range(s) \cap S = {}
<1> DEFINE t == filter(s, S)
<1>1. t \in Seq(T) /\ Range(t) = Range(s) \cap S  BY FilterIs
<1> HIDE DEF t
<1>2. Range(t) = {t[j] : j \in 1 .. Len(t)} /\ Len(t) \in Nat  BY <1>1, RangeIs
<1>3. ASSUME t # <<>>  PROVE t[1] \in Range(t)
  <2>1. Len(t) # 0  BY <1>1, <1>3
  <2>2. 1 \in 1 .. Len(t)  BY <1>2, <2>1
  <2> QED  BY <1>2, <2>2
<1>4. t = <<>> => Range(t) = {}  BY <1>2
<1>5. (t # <<>> => t[1] \in Range(s) \cap S) /\ (t = <<>> <=> Range(s) \cap S = {})  BY <1>1, <1>3, <1>4
<1> QED  BY <1>5 DEF t

\* The last name of a path is a name that entries can have.
LEMMA LastIsName ==
    ASSUME NEW p \in Seq(Part)
    PROVE  last(p) # Blank => last(p) \in DOMAIN Length
<1> DEFINE ns == names(p)
<1>1. \A q : names(q) = filter(q, Range(q) \ {Blank})  BY DEF names, Blank
<1>2. last(p) = IF ns = <<>> THEN Blank ELSE ns[Len(ns)]  BY DEF last, Blank
<1>3. ns \in Seq(Part) /\ Range(ns) = Range(p) \cap (Range(p) \ {Blank})  BY <1>1, FilterIs
<1> HIDE DEF ns
<1>4. ASSUME ns # <<>>  PROVE ns[Len(ns)] \in DOMAIN Length
  <2>1. Len(ns) \in 1 .. Len(ns)  BY <1>3, <1>4
  <2>2. ns[Len(ns)] \in Range(ns)  BY <1>3, <2>1, RangeIs
  <2>3. Range(p) \subseteq Part  BY RangeIs
  <2> QED  BY <1>3, <2>2, <2>3, Blanks
<1> QED  BY <1>2, <1>4

-----------------------------------------------------------------------------
(* The nodes that paths lead to *)

\* Names of nodes: parts of paths, and those of the device file system.
Label == Part \cup {"dev", "hda"}

\* The tree of the root file system.
TreeOk ==
    tree \in [kids : [1 .. MaxNodes -> Seq(2 .. MaxNodes)], name : [1 .. MaxNodes -> Label],
              mount : [1 .. MaxNodes -> {"no", "dev", "ext2"}]]

\* The folders of the image and the inodes that can be linked.
FsOk ==
    /\ 2 \in DOMAIN folders /\ IsFiniteSet(DOMAIN folders)
    /\ \A a \in DOMAIN folders : ReadOk(folders[a], DOMAIN links)
    /\ links \in [DOMAIN links -> Nat] /\ Inodes \subseteq DOMAIN links

\* The nodes there are: folders of the root file system, devices, and the inodes of
\* the image, those with entries as folders.
NodeOk(n) ==
    /\ n.kind = "rootfs" => n.id \in 1 .. MaxNodes
    /\ n.kind = "folder" => n.id \in DOMAIN folders
    /\ n.kind = "file" => n.id \in DOMAIN links \ DOMAIN folders
Nodes ==
    {n \in [kind : {"rootfs", "device", "folder", "file"}, id : (1 .. MaxNodes) \cup DOMAIN folders \cup DOMAIN links] :
       NodeOk(n)}

\* A node that find finds is one of the children.
LEMMA FindOk ==
    ASSUME NEW L, NEW N, NEW c \in Seq(L \X N), NEW name
    PROVE  find(c, name) \in N \cup {NoNode}
<1> DEFINE found == {i \in DOMAIN c : c[i][1] = name}
<1>1. find(c, name) = IF found = {} THEN NoNode ELSE c[Min(found)][2]  BY DEF find
<1>2. DOMAIN c \subseteq Nat  OBVIOUS
<1>3. ASSUME found # {}  PROVE c[Min(found)][2] \in N
  <2>1. found \in SUBSET Nat  BY <1>2
  <2>2. Min(found) \in found  BY <1>3, <2>1, MinOfIndices
  <2>3. Min(found) \in DOMAIN c  BY <2>2
  <2>4. c[Min(found)] \in L \X N  BY <2>3
  <2> QED  BY <2>4
<1> QED  BY <1>1, <1>3

\* The children of a folder of the image have names and are nodes.
LEMMA ListingOk ==
    ASSUME FsOk, NEW a \in DOMAIN folders
    PROVE  Listing(a) \in Seq(Label \X Nodes)
<1> DEFINE es == folders[a].entries
           n == Len(es)
           nd(e) == Node(IF e.addr \in DOMAIN folders THEN "folder" ELSE "file", e.addr)
           c == [i \in DOMAIN es |-> <<es[i].name, nd(es[i])>>]
<1>1. Listing(a) = c  BY DEF Listing
<1>2. es \in Seq(Ent(DOMAIN links))
  <2>1. ReadOk(folders[a], DOMAIN links)  BY DEF FsOk
  <2> QED  BY <2>1 DEF ReadOk
<1>3. \A e \in Ent(DOMAIN links) : e.name \in DOMAIN Length /\ e.addr \in DOMAIN links  BY DEF Ent
<1>4. DOMAIN Length \subseteq Label  BY Blanks DEF Label
<1>5. ASSUME NEW e \in Ent(DOMAIN links)  PROVE nd(e) \in Nodes
  <2>1. nd(e).id = e.addr /\ nd(e).kind = (IF e.addr \in DOMAIN folders THEN "folder" ELSE "file")
        /\ nd(e) \in [kind : {"rootfs", "device", "folder", "file"}, id : {e.addr}]
    BY DEF Node
  <2> HIDE DEF nd
  <2>2. e.addr \in DOMAIN links  BY <1>3
  <2>3. NodeOk(nd(e))  BY <2>1, <2>2 DEF NodeOk
  <2>4. nd(e) \in [kind : {"rootfs", "device", "folder", "file"}, id : (1 .. MaxNodes) \cup DOMAIN folders \cup DOMAIN links]
    BY <2>1, <2>2
  <2> QED  BY <2>3, <2>4 DEF Nodes
<1> HIDE DEF es, nd
<1>6. n \in Nat /\ DOMAIN es = 1 .. n /\ \A i \in 1 .. n : es[i] \in Ent(DOMAIN links)  BY <1>2
<1>7. \A i \in 1 .. n : <<es[i].name, nd(es[i])>> \in Label \X Nodes  BY <1>3, <1>4, <1>5, <1>6
<1>8. c \in [1 .. n -> Label \X Nodes]  BY <1>6, <1>7
<1>9. c \in Seq(Label \X Nodes)
  <2> HIDE DEF c
  <2> QED  BY <1>6, <1>8
<1> QED  BY <1>1, <1>9

\* So have and are those of the device file system,
LEMMA DevicesOk == Devices \in Seq(Label \X Nodes)
<1>1. Node("device", 1).kind = "device" /\ Node("device", 1).id = 1
      /\ Node("device", 1) \in [kind : {"device"}, id : {1}]
  BY DEF Node
<1> DEFINE d == Node("device", 1)
<1> HIDE DEF d
<1>0. d.kind = "device" /\ d \in [kind : {"device"}, id : {1}]  BY <1>1 DEF d
<1>2. MaxNodes \in Nat \ {0, 1}  BY ShellAssumption
<1>3. 1 \in 1 .. MaxNodes  BY <1>2
<1>4. NodeOk(d)  BY <1>0 DEF NodeOk
<1>5. d \in [kind : {"rootfs", "device", "folder", "file"}, id : (1 .. MaxNodes) \cup DOMAIN folders \cup DOMAIN links]
  BY <1>0, <1>3
<1>6. d \in Nodes  BY <1>4, <1>5 DEF Nodes
<1>7. <<"hda", d>> \in Label \X Nodes  BY <1>6 DEF Label
<1>8. <<<<"hda", d>>>> \in Seq(Label \X Nodes)  BY <1>7
<1> QED  BY <1>8 DEF Devices, d

\* those of whatever is mounted,
LEMMA MountedOk ==
    ASSUME FsOk, NEW id
    PROVE  Mounted(id) \in Seq(Label \X Nodes)
<1>1. Listing(2) \in Seq(Label \X Nodes)  BY ListingOk DEF FsOk
<1>2. <<>> \in Seq(Label \X Nodes)  OBVIOUS
<1>3. Mounted(id) \in {Devices, Listing(2), <<>>}  BY DEF Mounted
<1> QED  BY <1>1, <1>2, <1>3, DevicesOk

\* The folders of the root file system that what is mounted does not hide.
Own(t, id, mounted) == filter(t.kids[id], {k \in Range(t.kids[id]) : find(mounted, t.name[k]) = NoNode})
OwnNodes(t, own) == [i \in DOMAIN own |-> <<t.name[own[i]], Node("rootfs", own[i])>>]

\* the folders of the root file system below one of its folders,
LEMMA OwnOk ==
    ASSUME TreeOk, NEW id \in 1 .. MaxNodes, NEW mounted
    PROVE  /\ rootfs_children(tree, id, mounted) = mounted \o OwnNodes(tree, Own(tree, id, mounted))
           /\ Own(tree, id, mounted) \in Seq(2 .. MaxNodes)
           /\ OwnNodes(tree, Own(tree, id, mounted)) \in Seq(Label \X Nodes)
           /\ Range(Own(tree, id, mounted)) = {k \in Range(tree.kids[id]) : find(mounted, tree.name[k]) = NoNode}
<1> DEFINE own == Own(tree, id, mounted)
           S == {k \in Range(tree.kids[id]) : find(mounted, tree.name[k]) = NoNode}
           c == OwnNodes(tree, own)
           ks == tree.kids[id]
<1>1. rootfs_children(tree, id, mounted) = mounted \o c  BY DEF rootfs_children, Own, OwnNodes
<1>2. own = filter(ks, S)  BY DEF Own
<1>3. ks \in Seq(2 .. MaxNodes) /\ tree.name \in [1 .. MaxNodes -> Label]  BY DEF TreeOk
<1> HIDE DEF ks
<1>4. own \in Seq(2 .. MaxNodes) /\ Range(own) = Range(ks) \cap S  BY <1>2, <1>3, FilterIs
<1>5. Range(ks) \cap S = S  BY DEF ks
<1> HIDE DEF own, S
<1>6. c = [i \in DOMAIN own |-> <<tree.name[own[i]], Node("rootfs", own[i])>>]  BY DEF OwnNodes
<1>7. MaxNodes \in Nat  BY ShellAssumption
<1>8. ASSUME NEW k \in 2 .. MaxNodes  PROVE <<tree.name[k], Node("rootfs", k)>> \in Label \X Nodes
  <2>1. k \in 1 .. MaxNodes  BY <1>7
  <2>2. Node("rootfs", k).kind = "rootfs" /\ Node("rootfs", k).id = k /\ Node("rootfs", k) \in [kind : {"rootfs"}, id : {k}]
    BY DEF Node
  <2> DEFINE d == Node("rootfs", k)
  <2>3. d.kind = "rootfs" /\ d.id = k /\ d \in [kind : {"rootfs"}, id : {k}]  BY <2>2
  <2> HIDE DEF d
  <2>4. NodeOk(d)  BY <2>1, <2>3 DEF NodeOk
  <2>5. d \in [kind : {"rootfs", "device", "folder", "file"}, id : (1 .. MaxNodes) \cup DOMAIN folders \cup DOMAIN links]
    BY <2>1, <2>3
  <2>6. d \in Nodes  BY <2>4, <2>5 DEF Nodes
  <2>7. tree.name[k] \in Label  BY <1>3, <2>1
  <2> QED  BY <2>6, <2>7 DEF d
<1>9. c \in Seq(Label \X Nodes)
  <2> DEFINE n == Len(own)
  <2>a. own \in Seq(2 .. MaxNodes)  BY <1>4
  <2> HIDE DEF c
  <2>b. n \in Nat /\ DOMAIN own = 1 .. n  BY ONLY <2>a
  <2> DEFINE T == 2 .. MaxNodes
  <2>d. own \in Seq(T)  BY <2>a
  <2> HIDE DEF T
  <2>e. \A i \in 1 .. n : own[i] \in T  BY ONLY <2>d
  <2>c. \A i \in 1 .. n : own[i] \in 2 .. MaxNodes  BY <2>e DEF T
  <2>1. n \in Nat /\ DOMAIN own = 1 .. n /\ \A i \in 1 .. n : own[i] \in 2 .. MaxNodes  BY <2>b, <2>c
  <2> USE DEF c
  <2> HIDE DEF n
  <2>2. c \in [1 .. n -> Label \X Nodes]  BY <1>6, <1>8, <2>1
  <2> HIDE DEF c
  <2> QED  BY <2>1, <2>2
<1> QED  BY <1>1, <1>4, <1>5, <1>9 DEF own, c, S, ks

\* and those of every folder.
LEMMA ChildrenOk ==
    ASSUME FsOk, TreeOk, NEW n, NodeOk(n), IsFolder(n)
    PROVE  Children(n) \in Seq(Label \X Nodes)
<1>1. CASE n.kind = "rootfs"
  <2>1. n.id \in 1 .. MaxNodes  BY <1>1 DEF NodeOk
  <2> DEFINE id == n.id
             m == Mounted(id)
             o == OwnNodes(tree, Own(tree, id, m))
  <2>2. Children(n) = rootfs_children(tree, id, m)  BY <1>1 DEF Children
  <2>3. m \in Seq(Label \X Nodes)  BY MountedOk
  <2>0. id \in 1 .. MaxNodes  BY <2>1
  <2> HIDE DEF m, id
  <2>4. rootfs_children(tree, id, m) = m \o o /\ o \in Seq(Label \X Nodes)  BY <2>0, OwnOk
  <2> HIDE DEF o
  <2>5. m \o o \in Seq(Label \X Nodes)  BY <2>3, <2>4, ConcatProperties
  <2> QED  BY <2>2, <2>4, <2>5
<1>2. CASE n.kind = "folder"
  <2>1. n.id \in DOMAIN folders  BY <1>2 DEF NodeOk
  <2>2. Children(n) = Listing(n.id)  BY <1>2 DEF Children
  <2> QED  BY <2>1, <2>2, ListingOk
<1> QED  BY <1>1, <1>2 DEF IsFolder

\* A path leads to a node, to none or into a panic.
LEMMA NamesOk ==
    ASSUME NEW p \in Seq(Part)
    PROVE  names(p) \in Seq(Part) /\ Len(names(p)) \in Nat
<1>1. \A q : names(q) = filter(q, Range(q) \ {Blank})  BY DEF names, Blank
<1>2. names(p) \in Seq(Part)  BY <1>1, FilterIs
<1> QED  BY <1>2

\* get_node ends at a node, finds none or panics.
LEMMA GetNodeOk ==
    ASSUME FsOk, TreeOk, NEW p \in Seq(Part)
    PROVE  get_node(p) \in Nodes \cup {NoNode, Panic}
<1> DEFINE ns == names(p)
           n == Len(ns)
           f == NodeWalk(ns)
           M == Nodes \cup {NoNode, Panic}
           A == {i \in Nat : i <= n => f[i] \in M}
<1>1. Len(ns) \in Nat  BY NamesOk
<1>2. /\ f[0] = RootNode
      /\ \A i \in 1 .. Len(ns) : f[i] = node_child(f[i - 1], ns[i])
      /\ get_node(p) = f[Len(ns)]
  BY <1>1, NodeSteps
<1> HIDE DEF ns, f
<1>3. RootNode \in M
  <2>1. MaxNodes \in Nat \ {0, 1}  BY ShellAssumption
  <2>2. 1 \in 1 .. MaxNodes  BY <2>1
  <2>3. RootNode.kind = "rootfs" /\ RootNode.id = 1 /\ RootNode \in [kind : {"rootfs"}, id : {1}]  BY DEF RootNode, Node
  <2>4. NodeOk(RootNode)  BY <2>2, <2>3 DEF NodeOk
  <2>5. RootNode \in [kind : {"rootfs", "device", "folder", "file"}, id : (1 .. MaxNodes) \cup DOMAIN folders \cup DOMAIN links]
    BY <2>2, <2>3
  <2> QED  BY <2>4, <2>5 DEF Nodes
<1>4. 0 \in A  BY <1>2, <1>3
<1>5. ASSUME NEW i \in Nat, i \in A  PROVE i + 1 \in A
  <2> SUFFICES ASSUME i + 1 <= n  PROVE f[i + 1] \in M  OBVIOUS
  <2>1. i + 1 \in 1 .. Len(ns) /\ (i + 1) - 1 = i /\ i <= n  BY <1>1
  <2> DEFINE v == f[i]
             x == ns[i + 1]
  <2>2. v \in M /\ f[i + 1] = node_child(v, x)  BY <1>2, <1>5, <2>1
  <2> HIDE DEF v, x
  <2>3. CASE v \in {NoNode, Panic}
    <3>1. node_child(v, x) = v  BY <2>3 DEF node_child
    <3> QED  BY <2>2, <3>1
  <2>4. CASE v \notin {NoNode, Panic} /\ ~IsFolder(v)
    <3>1. node_child(v, x) = Panic  BY <2>4 DEF node_child
    <3> QED  BY <2>2, <3>1
  <2>5. CASE v \notin {NoNode, Panic} /\ IsFolder(v)
    <3>1. node_child(v, x) = find(Children(v), Trimmed[x])  BY <2>5 DEF node_child
    <3>2. NodeOk(v)  BY <2>2, <2>5 DEF Nodes
    <3>3. Children(v) \in Seq(Label \X Nodes)  BY <2>5, <3>2, ChildrenOk
    <3>4. find(Children(v), Trimmed[x]) \in Nodes \cup {NoNode}  BY <3>3, FindOk
    <3> QED  BY <2>2, <3>1, <3>4
  <2> QED  BY <2>3, <2>4, <2>5
<1> HIDE DEF A, M
<1>6. n \in A  BY <1>1, <1>4, <1>5, NatSetInduction
<1> QED  BY <1>1, <1>2, <1>6 DEF A, M

\* The image takes the calls of a folder only as one of its own folders.
LEMMA TargetOk ==
    ASSUME FsOk, NEW n \in Nodes \cup {NoNode, Panic}
    PROVE  Target(n) \in DOMAIN folders \cup {0}
<1>1. CASE n.kind = "folder"
  <2>1. n \in Nodes  BY <1>1 DEF NoNode, Panic
  <2>2. n.id \in DOMAIN folders  BY <1>1, <2>1 DEF Nodes, NodeOk
  <2> QED  BY <1>1, <2>2 DEF Target
<1>2. CASE n.kind # "folder"
  <2>1. Target(n) \in {2, 0}  BY <1>2 DEF Target
  <2> QED  BY <2>1 DEF FsOk
<1> QED  BY <1>1, <1>2

\* get_rootfs_node leads to a folder of the root file system or nowhere.
LEMMA RootfsChildOk ==
    ASSUME TreeOk, NEW id \in 0 .. MaxNodes, NEW part
    PROVE  rootfs_child(tree, id, part) \in 0 .. MaxNodes
           /\ (rootfs_child(tree, id, part) # 0 => id # 0 /\ rootfs_child(tree, id, part) \in Range(tree.kids[id]))
<1> DEFINE S == {k \in Range(tree.kids[id]) : tree.name[k] = Trimmed[part]}
           found == filter(tree.kids[id], S)
<1>1. rootfs_child(tree, id, part) = IF id = 0 \/ found = <<>> THEN 0 ELSE found[1]  BY DEF rootfs_child
<1>0. MaxNodes \in Nat  BY ShellAssumption
<1>2. CASE id = 0 \/ found = <<>>  BY <1>0, <1>1, <1>2
<1>3. CASE ~(id = 0 \/ found = <<>>)
  <2>1. id \in 1 .. MaxNodes  BY <1>3
  <2> DEFINE ks == tree.kids[id]
  <2>2. ks \in Seq(2 .. MaxNodes)  BY <2>1 DEF TreeOk
  <2> HIDE DEF ks, S
  <2>3. filter(ks, S) # <<>> => filter(ks, S)[1] \in Range(ks) \cap S  BY <2>2, FilterFinds
  <2>4. found[1] \in Range(ks)  BY <1>3, <2>3 DEF ks
  <2>5. Range(ks) \subseteq 2 .. MaxNodes  BY <2>2, RangeIs
  <2>6. found[1] \in 0 .. MaxNodes /\ found[1] # 0  BY <1>0, <2>4, <2>5
  <2> QED  BY <1>1, <1>3, <2>4, <2>6 DEF ks
<1> QED  BY <1>2, <1>3

\* So does get_rootfs_node, over any number of names.
LEMMA GetRootNodeOk ==
    ASSUME TreeOk, NEW p \in Seq(Part)
    PROVE  get_rootfs_node(tree, p) \in 0 .. MaxNodes
<1> DEFINE ns == names(p)
           n == Len(ns)
           f == RootWalk(tree, ns)
           A == {i \in Nat : i <= n => f[i] \in 0 .. MaxNodes}
<1>1. Len(ns) \in Nat  BY NamesOk
<1>2. /\ f[0] = 1
      /\ \A i \in 1 .. Len(ns) : f[i] = rootfs_child(tree, f[i - 1], ns[i])
      /\ get_rootfs_node(tree, p) = f[Len(ns)]
  BY <1>1, RootNodeSteps
<1> HIDE DEF ns, f
<1>3. MaxNodes \in Nat \ {0, 1}  BY ShellAssumption
<1>4. 0 \in A  BY <1>2, <1>3
<1>5. ASSUME NEW i \in Nat, i \in A  PROVE i + 1 \in A
  <2> SUFFICES ASSUME i + 1 <= n  PROVE f[i + 1] \in 0 .. MaxNodes  OBVIOUS
  <2>1. i + 1 \in 1 .. Len(ns) /\ (i + 1) - 1 = i /\ i <= n  BY <1>1
  <2>2. f[i] \in 0 .. MaxNodes /\ f[i + 1] = rootfs_child(tree, f[i], ns[i + 1])  BY <1>2, <1>5, <2>1
  <2> QED  BY <2>2, RootfsChildOk
<1> HIDE DEF A
<1>6. n \in A  BY <1>1, <1>4, <1>5, NatSetInduction
<1> QED  BY <1>1, <1>2, <1>6 DEF A

-----------------------------------------------------------------------------
(* What a step does to the image *)

FsSame == folders' = folders /\ links' = links /\ failed' = failed

\* Inode i is linked under the name in folder a, which becomes r, or cannot grow.
Creates(a, name, i, r) ==
    /\ i \in Inodes /\ links[i] = 0 /\ links' = [links EXCEPT ![i] = 1]
    /\ Grown(folders[a], r, name, i)
    /\ \/ folders' = [folders EXCEPT ![a] = r] /\ ReadOk(r, DOMAIN links) /\ failed' = failed
       \/ folders' = folders /\ failed' = TRUE

\* Entry k of folder a goes, which becomes r.
Unlinks(a, k, r) ==
    /\ k \in 2 .. Len(folders[a].entries) /\ Shrunk(folders[a], r, k) /\ ReadOk(r, DOMAIN links)
    /\ folders' = [folders EXCEPT ![a] = r]
    /\ links' = [links EXCEPT ![folders[a].entries[k].addr] = IF @ >= 1 THEN @ - 1 ELSE @]
    /\ failed' = failed

\* create_empty_child does nothing or links one free inode.
LEMMA CreateIs ==
    ASSUME FsOk, NEW a \in DOMAIN folders, NEW name \in DOMAIN Length, create_empty_child(a, name)
    PROVE  FsSame \/ \E i, r : Creates(a, name, i, r)
<1> DEFINE F == {j \in Inodes : Free(j)}
           i == Min(F)
           r == create_entry(folders[a], name, i)
<1>1. CASE ro \/ folders[a].entries = <<>> \/ ~(\E j \in Inodes : Free(j))
  BY <1>1 DEF create_empty_child, FsSame
<1>2. CASE ~(ro \/ folders[a].entries = <<>> \/ ~(\E j \in Inodes : Free(j)))
  <2>1. /\ links' = [links EXCEPT ![i] = 1]
        /\ \/ r.size <= MaxFolder /\ folders' = [folders EXCEPT ![a] = r] /\ UNCHANGED failed
           \/ r.size > folders[a].size /\ failed' = TRUE /\ UNCHANGED folders
    BY <1>2 DEF create_empty_child
  <2>2. Inodes \subseteq Nat /\ Inodes \subseteq DOMAIN links  BY ShellAssumption DEF FsOk
  <2>3. F # {} /\ F \in SUBSET Nat  BY <1>2, <2>2
  <2>4. i \in F  BY <2>3, MinOfIndices
  <2>5. i \in Inodes /\ links[i] = 0 /\ i \in DOMAIN links  BY <2>2, <2>4 DEF Free
  <2> HIDE DEF i
  <2>6. ReadOk(folders[a], DOMAIN links)  BY DEF FsOk
  <2>7. Grown(folders[a], r, name, i) /\ (r.size <= MaxFolder => ReadOk(r, DOMAIN links))  BY <2>5, <2>6, CreateEntryOk
  <2> HIDE DEF r
  <2>8. Creates(a, name, i, r)  BY <2>1, <2>5, <2>7 DEF Creates
  <2> QED  BY <2>8
<1> QED  BY <1>1, <1>2

\* unlink_child does nothing or takes one entry that is not the first.
LEMMA UnlinkIs ==
    ASSUME FsOk, NEW a \in DOMAIN folders \cup {0}, NEW name, NEW full, unlink_child(a, name, full), failed' = failed
    PROVE  FsSame \/ (a \in DOMAIN folders /\ \E k, r : Unlinks(a, k, r))
<1> DEFINE f == folders[a]
           k == find_entry(f, name)
           r == unlink_entry(f, k)
<1>1. CASE a = 0 \/ k <= 1  BY <1>1 DEF unlink_child, FsSame
<1>2. CASE ~(a = 0 \/ k <= 1) /\ UNCHANGED <<folders, links>>  BY <1>2 DEF FsSame
<1>3. CASE ~(a = 0 \/ k <= 1) /\ ~UNCHANGED <<folders, links>>
  <2>1. a \in DOMAIN folders  BY <1>3
  <2>2. /\ links' = [links EXCEPT ![f.entries[k].addr] = IF @ >= 1 THEN @ - 1 ELSE @]
        /\ folders' = [folders EXCEPT ![a] = r]
    BY <1>3 DEF unlink_child
  <2>3. ReadOk(f, DOMAIN links)  BY <2>1 DEF FsOk
  <2> DEFINE found == {j \in DOMAIN f.entries : f.entries[j].name = name}
             es == f.entries
  <2>4. k = IF found = {} THEN 0 ELSE Min(found)  BY DEF find_entry
  <2>5. es \in Seq(Ent(DOMAIN links))  BY <2>3 DEF ReadOk
  <2>6. DOMAIN f.entries = 1 .. Len(f.entries) /\ Len(f.entries) \in Nat
    <3> HIDE DEF es
    <3>1. DOMAIN es = 1 .. Len(es) /\ Len(es) \in Nat  BY <2>5
    <3> QED  BY <3>1 DEF es
  <2>7. found # {}
    <3> SUFFICES ASSUME found = {}  PROVE FALSE  OBVIOUS
    <3>1. k = 0  BY <2>4
    <3> HIDE DEF k
    <3> QED  BY <1>3, <3>1
  <2>8. found \in SUBSET Nat  BY <2>6
  <2>9. k \in found  BY <2>4, <2>7, <2>8, MinOfIndices
  <2>10. k \in 1 .. Len(f.entries)  BY <2>6, <2>9
  <2> HIDE DEF k
  <2>11. k \in 2 .. Len(f.entries)  BY <1>3, <2>6, <2>10
  <2>12. Shrunk(f, r, k) /\ ReadOk(r, DOMAIN links)  BY <2>3, <2>11, UnlinkEntryOk
  <2> HIDE DEF r
  <2>13. Unlinks(a, k, r)  BY <2>2, <2>11, <2>12 DEF Unlinks
  <2> QED  BY <2>1, <2>13
<1> QED  BY <1>1, <1>2, <1>3

\* Paths of commands and of the folders they are in.
LEMMA DelLastOk ==
    ASSUME NEW p \in Paths
    PROVE  p \in Seq(Part) /\ del_last(p) \in Seq(Part)
<1>1. p \in Seq(Part) /\ Len(p) \in Nat  BY DEF Paths
<1>2. root \in Seq(Part)
  <2>1. Blank \in Part  BY Blanks
  <2>2. <<Blank, Blank>> \in Seq(Part)  BY <2>1
  <2> QED  BY <2>2, Blanks
<1>3. CASE Len(p) <= 2  BY <1>1, <1>2, <1>3 DEF del_last
<1>4. CASE ~(Len(p) <= 2)
  <2>1. Len(p) - 1 \in 0 .. Len(p)  BY <1>1, <1>4
  <2>2. SubSeq(p, 1, Len(p) - 1) \in Seq(Part)  BY <1>1, <2>1, FirstOnes
  <2> QED  BY <1>1, <1>4, <2>2 DEF del_last
<1> QED  BY <1>3, <1>4

\* A canonical path is absolute.
LEMMA CanonicalOk ==
    ASSUME NEW p \in Seq(Part)
    PROVE  canonicalize(p) \in Paths
<1> DEFINE q == Resolved(p)
<1>1. canonicalize(p) = CanonicalOf(q) /\ q \in Seq(Part)  BY CanonicalizeResolves
<1> HIDE DEF q
<1>2. Blank \in Part  BY Blanks
<1>3. <<Blank, Blank>> \in Seq(Part) /\ Len(<<Blank, Blank>>) = 2 /\ <<Blank, Blank>>[1] = Blank  BY <1>2
<1>4. root \in Paths
  <2>1. Len(<<Blank, Blank>>) > 1  BY <1>3
  <2> QED  BY <1>3, <2>1, Blanks DEF Paths
<1>5. CanonicalOf(q) = IF q = <<>> THEN root ELSE <<Blank>> \o q  BY DEF CanonicalOf, Blank
<1>6. ASSUME q # <<>>  PROVE <<Blank>> \o q \in Paths
  <2>1. <<Blank>> \in Seq(Part) /\ Len(<<Blank>>) = 1 /\ <<Blank>>[1] = Blank /\ Len(q) \in Nat /\ Len(q) # 0
    BY <1>1, <1>2, <1>6
  <2>2. /\ <<Blank>> \o q \in Seq(Part) /\ Len(<<Blank>> \o q) = 1 + Len(q)
        /\ \A i \in 1 .. 1 + Len(q) : (<<Blank>> \o q)[i] = IF i <= 1 THEN <<Blank>>[i] ELSE q[i - 1]
    BY <1>1, <2>1, ConcatProperties
  <2>3. 1 \in 1 .. 1 + Len(q) /\ 1 + Len(q) > 1  BY <2>1
  <2>4. (<<Blank>> \o q)[1] = Blank /\ Len(<<Blank>> \o q) > 1  BY <2>1, <2>2, <2>3
  <2> QED  BY <2>2, <2>4, Blanks DEF Paths
<1> QED  BY <1>1, <1>4, <1>5, <1>6

\* A step leaves the image alone, creates one entry or takes one away.
FsCreates == \E a \in DOMAIN folders : \E name \in DOMAIN Length : \E i, r : Creates(a, name, i, r)
FsUnlinks == \E a \in DOMAIN folders : \E k, r : Unlinks(a, k, r)

\* A step leaves the image alone, creates one entry or unlinks one.
LEMMA FsStep ==
    ASSUME CurOk, TreeOk, FsOk, [Next]_vars
    PROVE  FsSame \/ FsCreates \/ FsUnlinks
<1> USE DEF CurOk
<1>1. ASSUME NEW p \in Paths, Target(get_node(del_last(p))) # 0, last(p) # Blank,
             create_empty_child(Target(get_node(del_last(p))), last(p))
      PROVE  FsSame \/ FsCreates
  <2> DEFINE a == Target(get_node(del_last(p)))
  <2>1. p \in Seq(Part) /\ del_last(p) \in Seq(Part)  BY DelLastOk
  <2>2. get_node(del_last(p)) \in Nodes \cup {NoNode, Panic}  BY <2>1, GetNodeOk
  <2>3. a \in DOMAIN folders  BY <1>1, <2>2, TargetOk
  <2>4. last(p) \in DOMAIN Length  BY <1>1, <2>1, LastIsName
  <2>5. create_empty_child(a, last(p))  BY <1>1
  <2> HIDE DEF a
  <2>6. FsSame \/ \E i, r : Creates(a, last(p), i, r)  BY <2>3, <2>4, <2>5, CreateIs
  <2> QED  BY <2>3, <2>4, <2>6 DEF FsCreates
<1>2. ASSUME NEW arg \in Args, touch(arg)  PROVE FsSame \/ FsCreates
  <2> DEFINE p == path_of(cur_dir, arg)
  <2>1. arg \in Argument  BY ArgumentsOk
  <2>2. p \in Paths  BY <2>1, PathOfOk
  <2>3. last(p) # Blank  BY <1>2 DEF touch, Blank
  <2>4. \/ Crash
        \/ /\ Target(get_node(del_last(p))) # 0
           /\ create_empty_child(Target(get_node(del_last(p))), last(p))
    BY <1>2 DEF touch
  <2> HIDE DEF p
  <2>5. CASE Crash  BY <2>5 DEF Crash, FsSame
  <2> QED  BY <1>1, <2>2, <2>3, <2>4, <2>5
<1>3. ASSUME NEW arg \in Args \cup Dotted, NEW b \in BOOLEAN, open(arg, b, ~b)  PROVE FsSame \/ FsCreates
  <2> DEFINE q == IF absolute(arg) THEN arg ELSE append_str(cur_dir, arg)
             p == canonicalize(q)
  <2>1. arg \in Argument  BY ArgumentsOk
  <2>2. q \in Seq(Part)  BY <2>1, AppendStrOk DEF Paths, Argument
  <2>3. last(p) # Blank  BY <1>3 DEF open, Blank
  <2>4. \/ Crash
        \/ UNCHANGED <<folders, links, failed>>
        \/ /\ Target(get_node(del_last(p))) # 0
           /\ create_empty_child(Target(get_node(del_last(p))), last(p))
    BY <1>3 DEF open
  <2> HIDE DEF q
  <2>5. p \in Paths  BY <2>2, CanonicalOk
  <2> HIDE DEF p
  <2>6. CASE Crash  BY <2>6 DEF Crash, FsSame
  <2>7. CASE UNCHANGED <<folders, links, failed>>  BY <2>7 DEF FsSame
  <2> QED  BY <1>1, <2>3, <2>4, <2>5, <2>6, <2>7
<1>4. ASSUME NEW arg \in Args, rm(arg)  PROVE FsSame \/ FsUnlinks
  <2> DEFINE p == path_of(cur_dir, arg)
             a == Target(get_node(del_last(p)))
  <2>1. arg \in Argument  BY ArgumentsOk
  <2>2. p \in Paths  BY <2>1, PathOfOk
  <2>3. p \in Seq(Part) /\ del_last(p) \in Seq(Part)  BY <2>2, DelLastOk
  <2>4. Crash \/ (\E name, full : unlink_child(a, name, full) /\ failed' = failed)  BY <1>4 DEF rm
  <2>5. get_node(del_last(p)) \in Nodes \cup {NoNode, Panic}  BY <2>3, GetNodeOk
  <2>6. a \in DOMAIN folders \cup {0}  BY <2>5, TargetOk
  <2> HIDE DEF a
  <2>7. CASE Crash  BY <2>7 DEF Crash, FsSame
  <2>8. ASSUME NEW name, NEW full, unlink_child(a, name, full), failed' = failed  PROVE FsSame \/ FsUnlinks
    <3>1. FsSame \/ (a \in DOMAIN folders /\ \E k, r : Unlinks(a, k, r))  BY <2>6, <2>8, UnlinkIs
    <3> QED  BY <3>1 DEF FsUnlinks
  <2> QED  BY <2>4, <2>7, <2>8
<1>5. CASE ls  BY <1>5 DEF ls, Crash, FsSame
<1>6. ASSUME NEW arg \in Args, umount(arg)  PROVE FsSame  BY <1>6 DEF umount, FsSame
<1>7. ASSUME NEW arg \in Args, cd(arg)  PROVE FsSame  BY <1>7 DEF cd, Crash, FsSame
<1>8. ASSUME NEW source \in Sources, NEW arg \in Args, mount_ext2(source, arg)  PROVE FsSame
  BY <1>8 DEF mount_ext2, Crash, FsSame
<1>9. ASSUME NEW name \in Name, mkrootfsdir(name)  PROVE FsSame  BY <1>9 DEF mkrootfsdir, Crash, FsSame
<1>10. ASSUME NEW name \in Name, rmrootfsdir(name)  PROVE FsSame  BY <1>10 DEF rmrootfsdir, Crash, FsSame
<1>11. ASSUME NEW arg \in Args, NEW b \in BOOLEAN, puts(arg, b)  PROVE FsSame  BY <1>11 DEF puts, Crash, FsSame
<1>12. CASE UNCHANGED vars  BY <1>12 DEF vars, FsSame
<1> QED  BY <1>2, <1>3, <1>4, <1>5, <1>6, <1>7, <1>8, <1>9, <1>10, <1>11, <1>12 DEF Next

\* So the image stays readable.
LEMMA FsOkStep ==
    ASSUME FsOk, FsSame \/ FsCreates \/ FsUnlinks
    PROVE  FsOk' /\ DOMAIN folders' = DOMAIN folders /\ DOMAIN links' = DOMAIN links
<1>1. CASE FsSame
  <2>1. folders' = folders /\ links' = links  BY <1>1 DEF FsSame
  <2>2. \A b \in DOMAIN folders : ReadOk(folders[b], DOMAIN links)  BY DEF FsOk
  <2>3. \A b \in DOMAIN folders' : ReadOk(folders'[b], DOMAIN links')  BY <2>1, <2>2
  <2> QED  BY <2>1, <2>3 DEF FsOk
<1>2. ASSUME NEW a \in DOMAIN folders, NEW r, ReadOk(r, DOMAIN links), folders' = [folders EXCEPT ![a] = r],
             links' \in [DOMAIN links -> Nat]
      PROVE  FsOk' /\ DOMAIN folders' = DOMAIN folders /\ DOMAIN links' = DOMAIN links
  <2>1. DOMAIN folders' = DOMAIN folders /\ DOMAIN links' = DOMAIN links  BY <1>2
  <2>2. \A b \in DOMAIN folders : folders'[b] = IF b = a THEN r ELSE folders[b]  BY <1>2
  <2>3. \A b \in DOMAIN folders : ReadOk(folders'[b], DOMAIN links)  BY <1>2, <2>2 DEF FsOk
  <2>4. \A b \in DOMAIN folders' : ReadOk(folders'[b], DOMAIN links')  BY <2>1, <2>3
  <2> QED  BY <1>2, <2>1, <2>4 DEF FsOk
<1>3. links \in [DOMAIN links -> Nat]  BY DEF FsOk
<1>4. ASSUME NEW a \in DOMAIN folders, NEW name, NEW i, NEW r, Creates(a, name, i, r)
      PROVE  FsOk' /\ DOMAIN folders' = DOMAIN folders /\ DOMAIN links' = DOMAIN links
  <2>1. links' = [links EXCEPT ![i] = 1]  BY <1>4 DEF Creates
  <2>2. links' \in [DOMAIN links -> Nat]  BY <1>3, <2>1
  <2>3. CASE folders' = [folders EXCEPT ![a] = r] /\ ReadOk(r, DOMAIN links)  BY <1>2, <2>2, <2>3
  <2>4. CASE folders' = folders
    <3>1. ReadOk(folders[a], DOMAIN links)  BY DEF FsOk
    <3>2. DOMAIN links' = DOMAIN links  BY <2>2
    <3>3. \A b \in DOMAIN folders : ReadOk(folders[b], DOMAIN links)  BY DEF FsOk
    <3>4. \A b \in DOMAIN folders' : ReadOk(folders'[b], DOMAIN links')  BY <2>4, <3>2, <3>3
    <3> QED  BY <2>2, <2>4, <3>2, <3>4 DEF FsOk
  <2> QED  BY <1>4, <2>3, <2>4 DEF Creates
<1>5. ASSUME NEW a \in DOMAIN folders, NEW k, NEW r, Unlinks(a, k, r)
      PROVE  FsOk' /\ DOMAIN folders' = DOMAIN folders /\ DOMAIN links' = DOMAIN links
  <2> DEFINE c == folders[a].entries[k].addr
  <2>1. /\ links' = [links EXCEPT ![c] = IF @ >= 1 THEN @ - 1 ELSE @]
        /\ folders' = [folders EXCEPT ![a] = r] /\ ReadOk(r, DOMAIN links)
    BY <1>5 DEF Unlinks
  <2> HIDE DEF c
  <2>2. \A n \in Nat : (IF n >= 1 THEN n - 1 ELSE n) \in Nat  OBVIOUS
  <2>3. links' \in [DOMAIN links -> Nat]  BY <1>3, <2>1, <2>2
  <2> QED  BY <1>2, <2>1, <2>3
<1> QED  BY <1>1, <1>4, <1>5 DEF FsCreates, FsUnlinks

-----------------------------------------------------------------------------
(* What a step does to the tree of the root file system *)

\* What holds the root and with each folder its kids.
Closed(kids, S) == 1 \in S /\ \A k \in S : Range(kids[k]) \subseteq S
ReachedBy(kids) == {id \in 1 .. MaxNodes : \A S \in SUBSET (1 .. MaxNodes) : Closed(kids, S) => id \in S}

\* Reachable depends on the kids only.
LEMMA ReachableIs == Reachable = ReachedBy(tree.kids)
BY DEF Reachable, ReachedBy, Closed

\* The kids of a folder that can be reached can be reached.
LEMMA ReachedKids ==
    ASSUME NEW kids \in [1 .. MaxNodes -> Seq(2 .. MaxNodes)], NEW id \in ReachedBy(kids), NEW k \in Range(kids[id])
    PROVE  k \in ReachedBy(kids)
<1>0. MaxNodes \in Nat  BY ShellAssumption
<1>1. id \in 1 .. MaxNodes  BY DEF ReachedBy
<1>2. kids[id] \in Seq(2 .. MaxNodes)  BY <1>1
<1>3. k \in 2 .. MaxNodes  BY <1>2, RangeIs
<1>4. k \in 1 .. MaxNodes  BY <1>0, <1>3
<1>5. ASSUME NEW S \in SUBSET (1 .. MaxNodes), Closed(kids, S)  PROVE k \in S
  <2>1. id \in S  BY <1>5 DEF ReachedBy
  <2> QED  BY <1>5, <2>1 DEF Closed
<1> QED  BY <1>4, <1>5 DEF ReachedBy

\* get_rootfs_node goes from the root to kids only.
LEMMA RootNodeReached ==
    ASSUME TreeOk, NEW p \in Seq(Part)
    PROVE  get_rootfs_node(tree, p) \in ReachedBy(tree.kids) \cup {0}
<1> DEFINE ns == names(p)
           n == Len(ns)
           f == RootWalk(tree, ns)
           R == ReachedBy(tree.kids)
           A == {i \in Nat : i <= n => f[i] \in R \cup {0}}
<1>1. Len(ns) \in Nat  BY NamesOk
<1>2. /\ f[0] = 1
      /\ \A i \in 1 .. Len(ns) : f[i] = rootfs_child(tree, f[i - 1], ns[i])
      /\ get_rootfs_node(tree, p) = f[Len(ns)]
  BY <1>1, RootNodeSteps
<1> HIDE DEF ns, f
<1>3. MaxNodes \in Nat \ {0, 1}  BY ShellAssumption
<1>4. 0 \in A
  <2>1. 1 \in 1 .. MaxNodes  BY <1>3
  <2>2. 1 \in R  BY <2>1 DEF ReachedBy, Closed
  <2> HIDE DEF R
  <2> QED  BY <1>2, <2>2
<1>5. ASSUME NEW i \in Nat, i \in A  PROVE i + 1 \in A
  <2> SUFFICES ASSUME i + 1 <= n  PROVE f[i + 1] \in R \cup {0}  OBVIOUS
  <2>1. i + 1 \in 1 .. Len(ns) /\ (i + 1) - 1 = i /\ i <= n  BY <1>1
  <2> DEFINE v == f[i]
             w == f[i + 1]
  <2>2. v \in R \cup {0} /\ w = rootfs_child(tree, v, ns[i + 1])  BY <1>2, <1>5, <2>1
  <2>3. R \subseteq 1 .. MaxNodes  BY DEF ReachedBy
  <2>4. v \in 0 .. MaxNodes  BY <1>3, <2>2, <2>3
  <2> HIDE DEF v, w
  <2>5. w # 0 => v # 0 /\ w \in Range(tree.kids[v])  BY <2>2, <2>4, RootfsChildOk
  <2>6. tree.kids \in [1 .. MaxNodes -> Seq(2 .. MaxNodes)]  BY DEF TreeOk
  <2>7. ASSUME w # 0  PROVE w \in R
    <3>1. v \in R /\ w \in Range(tree.kids[v])  BY <2>2, <2>5, <2>7
    <3> QED  BY <2>6, <3>1, ReachedKids
  <2>8. w \in R \cup {0}  BY <2>7
  <2> QED  BY <2>8 DEF w
<1> HIDE DEF A, R
<1>6. n \in A  BY <1>1, <1>4, <1>5, NatSetInduction
<1> QED  BY <1>1, <1>2, <1>6 DEF A, R

\* More kids reach more; a kid without kids takes nothing with it but itself.
LEMMA ReachedGrows ==
    ASSUME NEW k1, NEW k2, \A j \in 1 .. MaxNodes : Range(k1[j]) \subseteq Range(k2[j])
    PROVE  ReachedBy(k1) \subseteq ReachedBy(k2)
<1> SUFFICES ASSUME NEW id \in ReachedBy(k1), NEW S \in SUBSET (1 .. MaxNodes), Closed(k2, S)
             PROVE  id \in S
  BY DEF ReachedBy
<1>1. Closed(k1, S)
  <2>1. ASSUME NEW k \in S  PROVE Range(k1[k]) \subseteq S
    <3>1. k \in 1 .. MaxNodes  OBVIOUS
    <3>2. Range(k1[k]) \subseteq Range(k2[k])  BY <3>1
    <3>3. Range(k2[k]) \subseteq S  BY DEF Closed
    <3> QED  BY <3>2, <3>3
  <2>2. 1 \in S  BY DEF Closed
  <2> QED  BY <2>1, <2>2 DEF Closed
<1> QED  BY <1>1 DEF ReachedBy

\* Without kid k, which has none, the others are still reached.
LEMMA ReachedShrinks ==
    ASSUME NEW k1, NEW k2, NEW k \in 1 .. MaxNodes, Range(k1[k]) = {},
           \A j \in 1 .. MaxNodes : Range(k1[j]) \subseteq Range(k2[j]) \cup {k}
    PROVE  ReachedBy(k1) \subseteq ReachedBy(k2) \cup {k}
<1> SUFFICES ASSUME NEW id \in ReachedBy(k1), id # k, NEW S \in SUBSET (1 .. MaxNodes), Closed(k2, S)
             PROVE  id \in S
  BY DEF ReachedBy
<1> DEFINE U == S \cup {k}
<1>1. U \in SUBSET (1 .. MaxNodes) /\ 1 \in U  BY DEF Closed
<1>2. ASSUME NEW j \in U  PROVE Range(k1[j]) \subseteq U
  <2>1. CASE j = k  BY <2>1
  <2>2. CASE j \in S
    <3>1. j \in 1 .. MaxNodes  BY <1>1
    <3>2. Range(k1[j]) \subseteq Range(k2[j]) \cup {k}  BY <3>1
    <3>3. Range(k2[j]) \subseteq S  BY <2>2 DEF Closed
    <3> QED  BY <3>2, <3>3
  <2> QED  BY <2>1, <2>2
<1>3. Closed(k1, U)  BY <1>1, <1>2 DEF Closed
<1> HIDE DEF U
<1>4. id \in U  BY <1>1, <1>3 DEF ReachedBy
<1> QED  BY <1>4 DEF U

\* mkrootfsdir: a kid more for a folder that can be reached.
TreeGrows ==
    \E at \in ReachedBy(tree.kids), id \in 2 .. MaxNodes, name \in Label :
      tree' = [kids |-> [tree.kids EXCEPT ![at] = Append(@, id)], name |-> [tree.name EXCEPT ![id] = name],
               mount |-> tree.mount]
\* rmrootfsdir: a folder loses a kid that has no children.
TreeShrinks ==
    \E at \in 1 .. MaxNodes, k \in 2 .. MaxNodes :
      /\ k \in Range(tree.kids[at]) /\ Children(Node("rootfs", k)) = <<>>
      /\ tree' = [kids |-> [tree.kids EXCEPT ![at] = filter(@, Range(@) \ {k})], name |-> tree.name,
                  mount |-> tree.mount]
\* mount.ext2 and umount: at a folder that can be reached.
TreeMounts ==
    \E at \in ReachedBy(tree.kids), m \in {"no", "ext2"} :
      tree' = [kids |-> tree.kids, name |-> tree.name, mount |-> [tree.mount EXCEPT ![at] = m]]

\* mkrootfsdir does what TreeGrows says, or crashes.
LEMMA GrowsIs ==
    ASSUME CurOk, TreeOk, NEW name \in Name, mkrootfsdir(name)
    PROVE  tree' = tree \/ TreeGrows
<1> DEFINE at == get_rootfs_node(tree, cur_dir)
           unused == {id \in 2 .. MaxNodes : tree.name[id] = ""}
           u == Min(unused)
<1>1. \/ Crash
      \/ /\ at # 0 /\ unused # {}
         /\ tree' = [tree EXCEPT !.kids[at] = Append(@, u), !.name[u] = name]
  BY DEF mkrootfsdir
<1>2. CASE Crash  BY <1>2 DEF Crash
<1>3. ASSUME at # 0, unused # {}, tree' = [tree EXCEPT !.kids[at] = Append(@, u), !.name[u] = name]
      PROVE  TreeGrows
  <2>1. at \in ReachedBy(tree.kids)
    <3>1. cur_dir \in Seq(Part)  BY DEF CurOk, Paths
    <3> QED  BY <1>3, <3>1, RootNodeReached
  <2>2. unused \subseteq 2 .. MaxNodes  BY Zenon
  <2> HIDE DEF unused
  <2>0. MaxNodes \in Nat  BY ShellAssumption
  <2>3. unused \in SUBSET Nat  BY <2>0, <2>2
  <2>4. u \in unused  BY <1>3, <2>3, MinOfIndices
  <2> HIDE DEF u, at
  <2>5. u \in 2 .. MaxNodes  BY <2>2, <2>4
  <2>6. name \in Label
    <3>1. Name \subseteq DOMAIN Length  BY ShellAssumption
    <3> QED  BY <3>1, Blanks DEF Label
  <2>7. tree' = [kids |-> [tree.kids EXCEPT ![at] = Append(@, u)], name |-> [tree.name EXCEPT ![u] = name],
                 mount |-> tree.mount]
    BY <1>3 DEF TreeOk
  <2> QED  BY <2>1, <2>5, <2>6, <2>7 DEF TreeGrows
<1> QED  BY <1>1, <1>2, <1>3

\* rmrootfsdir does what TreeShrinks says, or nothing.
LEMMA ShrinksIs ==
    ASSUME CurOk, TreeOk, NEW name \in Name, rmrootfsdir(name)
    PROVE  tree' = tree \/ TreeShrinks
<1> DEFINE at == get_rootfs_node(tree, cur_dir)
           empty == {id \in 2 .. MaxNodes : Children(Node("rootfs", id)) = <<>>}
           S == {k \in empty : tree.name[k] = name}
           ks == tree.kids[at]
           found == filter(ks, S)
<1>1. Crash \/ (at # 0 /\ tree' = del_folder(tree, at, name, empty))  BY DEF rmrootfsdir
<1>2. CASE Crash  BY <1>2 DEF Crash
<1>3. ASSUME at # 0, tree' = del_folder(tree, at, name, empty), tree' # tree  PROVE TreeShrinks
  <2>0. MaxNodes \in Nat  BY ShellAssumption
  <2>1. at \in 1 .. MaxNodes
    <3>1. cur_dir \in Seq(Part)  BY DEF CurOk, Paths
    <3>2. at \in 0 .. MaxNodes  BY <3>1, GetRootNodeOk
    <3> QED  BY <1>3, <2>0, <3>2
  <2>2. found # <<>> /\ tree' = [tree EXCEPT !.kids[at] = filter(@, Range(@) \ {found[1]})]
    BY <1>3 DEF del_folder
  <2>3. ks \in Seq(2 .. MaxNodes)  BY <2>1 DEF TreeOk
  <2>4. S \subseteq 2 .. MaxNodes /\ \A k \in S : Children(Node("rootfs", k)) = <<>>  BY Zenon
  <2> HIDE DEF S, ks
  <2>5. found[1] \in Range(ks) \cap S  BY <2>2, <2>3, FilterFinds
  <2> DEFINE k == found[1]
  <2>6. k \in 2 .. MaxNodes /\ k \in Range(tree.kids[at]) /\ Children(Node("rootfs", k)) = <<>>
    BY <2>4, <2>5 DEF ks
  <2> HIDE DEF k, at
  <2>7. tree' = [tree EXCEPT !.kids[at] = filter(@, Range(@) \ {k})]  BY <2>2 DEF k
  <2>8. tree' = [kids |-> [tree.kids EXCEPT ![at] = filter(@, Range(@) \ {k})], name |-> tree.name, mount |-> tree.mount]
    BY <2>7 DEF TreeOk
  <2> QED  BY <2>1, <2>6, <2>8 DEF TreeShrinks
<1> QED  BY <1>1, <1>2, <1>3

\* mount.ext2 and umount do what TreeMounts says.
LEMMA MountsIs ==
    ASSUME TreeOk, NEW p \in Seq(Part), get_rootfs_node(tree, p) # 0, NEW m \in {"no", "ext2"},
           tree' = [tree EXCEPT !.mount[get_rootfs_node(tree, p)] = m]
    PROVE  TreeMounts
<1> DEFINE at == get_rootfs_node(tree, p)
<1>1. at \in ReachedBy(tree.kids)  BY RootNodeReached
<1>2. tree' = [tree EXCEPT !.mount[at] = m]  OBVIOUS
<1> HIDE DEF at
<1>3. tree' = [kids |-> tree.kids, name |-> tree.name, mount |-> [tree.mount EXCEPT ![at] = m]]  BY <1>2 DEF TreeOk
<1> QED  BY <1>1, <1>3 DEF TreeMounts

\* Each step leaves the tree alone or changes it in one of these ways.
LEMMA TreeStep ==
    ASSUME CurOk, TreeOk, [Next]_vars
    PROVE  tree' = tree \/ TreeGrows \/ TreeShrinks \/ TreeMounts
<1>1. ASSUME NEW arg \in Args, umount(arg)  PROVE TreeMounts
  <2> DEFINE p == path_of(cur_dir, arg)
  <2>1. arg \in Argument  BY ArgumentsOk
  <2>2. p \in Seq(Part)  BY <2>1, PathOfOk DEF CurOk, Paths
  <2>3. get_rootfs_node(tree, p) # 0 /\ tree' = [tree EXCEPT !.mount[get_rootfs_node(tree, p)] = "no"]
    BY <1>1 DEF umount
  <2> HIDE DEF p
  <2> QED  BY <2>2, <2>3, MountsIs
<1>2. ASSUME NEW source \in Sources, NEW arg \in Args, mount_ext2(source, arg)  PROVE tree' = tree \/ TreeMounts
  <2> DEFINE p == path_of(cur_dir, arg)
  <2>1. arg \in Argument  BY ArgumentsOk
  <2>2. p \in Seq(Part)  BY <2>1, PathOfOk DEF CurOk, Paths
  <2>3. \/ Crash
        \/ get_rootfs_node(tree, p) # 0 /\ tree' = [tree EXCEPT !.mount[get_rootfs_node(tree, p)] = "ext2"]
    BY <1>2 DEF mount_ext2
  <2> HIDE DEF p
  <2>4. CASE Crash  BY <2>4 DEF Crash
  <2> QED  BY <2>2, <2>3, <2>4, MountsIs
<1>3. ASSUME NEW name \in Name, mkrootfsdir(name)  PROVE tree' = tree \/ TreeGrows  BY <1>3, GrowsIs
<1>4. ASSUME NEW name \in Name, rmrootfsdir(name)  PROVE tree' = tree \/ TreeShrinks  BY <1>4, ShrinksIs
<1>5. CASE ls  BY <1>5 DEF ls, Crash
<1>6. ASSUME NEW arg \in Args, cd(arg)  PROVE tree' = tree  BY <1>6 DEF cd, Crash
<1>7. ASSUME NEW arg \in Args, touch(arg)  PROVE tree' = tree  BY <1>7 DEF touch, Crash
<1>8. ASSUME NEW arg \in Args, rm(arg)  PROVE tree' = tree  BY <1>8 DEF rm, Crash
<1>9. ASSUME NEW arg \in Args, NEW b \in BOOLEAN, puts(arg, b)  PROVE tree' = tree  BY <1>9 DEF puts, Crash
<1>10. ASSUME NEW arg \in Args \cup Dotted, NEW b \in BOOLEAN, open(arg, b, ~b)  PROVE tree' = tree
  BY <1>10 DEF open, Crash
<1>11. CASE UNCHANGED vars  BY <1>11 DEF vars
<1> QED  BY <1>1, <1>2, <1>3, <1>4, <1>5, <1>6, <1>7, <1>8, <1>9, <1>10, <1>11 DEF Next

\* The tree stays a tree of folders.
LEMMA TreeOkStep ==
    ASSUME TreeOk, tree' = tree \/ TreeGrows \/ TreeShrinks \/ TreeMounts
    PROVE  TreeOk'
<1>1. CASE tree' = tree  BY <1>1 DEF TreeOk
<1>0. /\ tree.kids \in [1 .. MaxNodes -> Seq(2 .. MaxNodes)] /\ tree.name \in [1 .. MaxNodes -> Label]
      /\ tree.mount \in [1 .. MaxNodes -> {"no", "dev", "ext2"}]
  BY DEF TreeOk
<1>2. ASSUME NEW k \in [1 .. MaxNodes -> Seq(2 .. MaxNodes)], NEW n \in [1 .. MaxNodes -> Label],
             NEW m \in [1 .. MaxNodes -> {"no", "dev", "ext2"}], tree' = [kids |-> k, name |-> n, mount |-> m]
      PROVE  TreeOk'
  BY <1>2 DEF TreeOk
<1>3. ASSUME NEW at \in ReachedBy(tree.kids), NEW id \in 2 .. MaxNodes, NEW name \in Label,
             tree' = [kids |-> [tree.kids EXCEPT ![at] = Append(@, id)], name |-> [tree.name EXCEPT ![id] = name],
                      mount |-> tree.mount]
      PROVE  TreeOk'
  <2> DEFINE ks == tree.kids
             k == [ks EXCEPT ![at] = Append(ks[at], id)]
             n == [tree.name EXCEPT ![id] = name]
             m == tree.mount
  <2>1. at \in 1 .. MaxNodes  BY DEF ReachedBy
  <2>2. ks[at] \in Seq(2 .. MaxNodes)  BY <1>0, <2>1
  <2>3. Append(ks[at], id) \in Seq(2 .. MaxNodes)  BY <2>2
  <2>4. ks \in [1 .. MaxNodes -> Seq(2 .. MaxNodes)] /\ n \in [1 .. MaxNodes -> Label]
        /\ m \in [1 .. MaxNodes -> {"no", "dev", "ext2"}]
    BY <1>0
  <2>5. tree' = [kids |-> k, name |-> n, mount |-> m]  BY <1>3
  <2> HIDE DEF n, m, ks
  <2>6. k \in [1 .. MaxNodes -> Seq(2 .. MaxNodes)]  BY <2>3, <2>4
  <2> HIDE DEF k
  <2> QED  BY <1>2, <2>4, <2>5, <2>6
<1>4. ASSUME NEW at \in 1 .. MaxNodes, NEW x,
             tree' = [kids |-> [tree.kids EXCEPT ![at] = filter(@, Range(@) \ {x})], name |-> tree.name,
                      mount |-> tree.mount]
      PROVE  TreeOk'
  <2> DEFINE ks == tree.kids
             k == [ks EXCEPT ![at] = filter(ks[at], Range(ks[at]) \ {x})]
             n == tree.name
             m == tree.mount
  <2>2. ks[at] \in Seq(2 .. MaxNodes)  BY <1>0
  <2>3. filter(ks[at], Range(ks[at]) \ {x}) \in Seq(2 .. MaxNodes)  BY <2>2, FilterIs
  <2>4. ks \in [1 .. MaxNodes -> Seq(2 .. MaxNodes)] /\ n \in [1 .. MaxNodes -> Label]
        /\ m \in [1 .. MaxNodes -> {"no", "dev", "ext2"}]
    BY <1>0
  <2>5. tree' = [kids |-> k, name |-> n, mount |-> m]  BY <1>4
  <2> HIDE DEF n, m, ks
  <2>6. k \in [1 .. MaxNodes -> Seq(2 .. MaxNodes)]  BY <2>3, <2>4
  <2> HIDE DEF k
  <2> QED  BY <1>2, <2>4, <2>5, <2>6
<1>5. ASSUME NEW at \in ReachedBy(tree.kids), NEW x \in {"no", "ext2"},
             tree' = [kids |-> tree.kids, name |-> tree.name, mount |-> [tree.mount EXCEPT ![at] = x]]
      PROVE  TreeOk'
  <2> DEFINE k == tree.kids
             n == tree.name
             ms == tree.mount
             m == [ms EXCEPT ![at] = x]
  <2>1. tree' = [kids |-> k, name |-> n, mount |-> m]  BY <1>5
  <2>2. k \in [1 .. MaxNodes -> Seq(2 .. MaxNodes)] /\ n \in [1 .. MaxNodes -> Label]
        /\ ms \in [1 .. MaxNodes -> {"no", "dev", "ext2"}]
    BY <1>0
  <2> HIDE DEF n, ms, k
  <2>3. m \in [1 .. MaxNodes -> {"no", "dev", "ext2"}]  BY <2>2
  <2> HIDE DEF m
  <2> QED  BY <1>2, <2>1, <2>2, <2>3
<1> QED  BY <1>1, <1>3, <1>4, <1>5 DEF TreeGrows, TreeShrinks, TreeMounts

-----------------------------------------------------------------------------
(* Entries cover their folders *)

\* Only files hold data.
DataOk == data \subseteq DOMAIN links /\ data \cap DOMAIN folders = {}
FlagsOk == ro \in BOOLEAN /\ panicked \in BOOLEAN /\ failed \in BOOLEAN
ShellInv == CurOk /\ TreeOk /\ FsOk /\ DataOk /\ FlagsOk

\* The image is sound when it is mounted first, and the tree has one folder, "dev".
LEMMA ShellInit ==
    ASSUME Init
    PROVE  ShellInv
<1>1. CurOk
  <2>1. root \in Paths
    <3>1. Blank \in Part  BY Blanks
    <3>2. <<Blank, Blank>> \in Seq(Part) /\ Len(<<Blank, Blank>>) > 1 /\ <<Blank, Blank>>[1] = Blank  BY <3>1
    <3> QED  BY <3>2, Blanks DEF Paths
  <2>2. cur_dir = root  BY DEF Init
  <2> QED  BY <2>1, <2>2 DEF CurOk
<1>2. TreeOk
  <2>0. MaxNodes \in Nat \ {0, 1}  BY ShellAssumption
  <2> DEFINE k == [id \in 1 .. MaxNodes |-> IF id = 1 THEN <<2>> ELSE <<>>]
             n == [id \in 1 .. MaxNodes |-> IF id = 2 THEN "dev" ELSE Blank]
             m == [id \in 1 .. MaxNodes |-> IF id = 2 THEN "dev" ELSE "no"]
  <2>1. tree = [kids |-> k, name |-> n, mount |-> m]  BY Zenon DEF Init, Blank
  <2>2. 2 \in 2 .. MaxNodes  BY <2>0
  <2>3. <<2>> \in Seq(2 .. MaxNodes) /\ <<>> \in Seq(2 .. MaxNodes)  BY <2>2
  <2>4. k \in [1 .. MaxNodes -> Seq(2 .. MaxNodes)]  BY <2>3
  <2>5. Blank \in Label /\ "dev" \in Label  BY Blanks DEF Label
  <2>6. n \in [1 .. MaxNodes -> Label]  BY <2>5
  <2>7. m \in [1 .. MaxNodes -> {"no", "dev", "ext2"}]  OBVIOUS
  <2> HIDE DEF k, n, m
  <2> QED  BY <2>1, <2>4, <2>6, <2>7 DEF TreeOk
<1>3. folders = Image.folders /\ links = Image.links /\ data = {}  BY Zenon DEF Init
<1>4. FsOk
  <2>1. 2 \in DOMAIN Image.folders /\ IsFiniteSet(DOMAIN Image.folders)  BY ShellAssumption
  <2>2. FoldersRead(Image.folders, DOMAIN Image.links)  BY ShellAssumption
  <2>3. Image.links \in [DOMAIN Image.links -> Nat]  BY ShellAssumption
  <2>4. Inodes \subseteq DOMAIN Image.links  BY ShellAssumption
  <2>5. FoldersRead(folders, DOMAIN links)  BY <1>3, <2>2
  <2>6. \A a \in DOMAIN folders : ReadOk(folders[a], DOMAIN links)  BY <2>5, FoldersReadOk
  <2> QED  BY <1>3, <2>1, <2>3, <2>4, <2>6 DEF FsOk
<1>5. DataOk  BY <1>3 DEF DataOk
<1>6. FlagsOk  BY Zenon DEF Init, FlagsOk
<1> QED  BY <1>1, <1>2, <1>4, <1>5, <1>6 DEF ShellInv

\* Only puts gives a file data, and what it finds at a path is a file.
LEMMA DataStep ==
    ASSUME ShellInv, [Next]_vars
    PROVE  data' \subseteq data \/ \E i \in DOMAIN links \ DOMAIN folders : data' = data \cup {i}
<1>1. CASE ls  BY <1>1 DEF ls, Crash
<1>2. ASSUME NEW arg \in Args, cd(arg)  PROVE data' \subseteq data  BY <1>2 DEF cd, Crash
<1>3. ASSUME NEW arg \in Args, umount(arg)  PROVE data' \subseteq data  BY <1>3 DEF umount
<1>0. ASSUME NEW a, NEW name, create_empty_child(a, name)  PROVE data' \subseteq data
  <2>1. CASE UNCHANGED data  BY <2>1
  <2>2. CASE ~UNCHANGED data
    <3>1. \E i : data' = data \ {i}
      <4> DEFINE i == Min({j \in Inodes : Free(j)})
      <4>1. data' = data \ {i}  BY <1>0, <2>2 DEF create_empty_child
      <4> QED  BY <4>1
    <3> QED  BY <3>1
  <2> QED  BY <2>1, <2>2
<1>4. ASSUME NEW arg \in Args, touch(arg)  PROVE data' \subseteq data
  <2> DEFINE p == path_of(cur_dir, arg)
             a == Target(get_node(del_last(p)))
  <2>1. Crash \/ create_empty_child(a, last(p))  BY <1>4 DEF touch
  <2>2. CASE Crash  BY <2>2 DEF Crash
  <2> HIDE DEF a
  <2> QED  BY <1>0, <2>1, <2>2
<1>5. ASSUME NEW arg \in Args, rm(arg)  PROVE data' \subseteq data
  <2> DEFINE p == path_of(cur_dir, arg)
             c == find(Children(get_node(del_last(p))), last(p))
  <2>1. Crash \/ data' = data \ {c.id}  BY <1>5 DEF rm
  <2>2. CASE Crash  BY <2>2 DEF Crash
  <2> HIDE DEF c
  <2> QED  BY <2>1, <2>2
<1>6. ASSUME NEW source \in Sources, NEW arg \in Args, mount_ext2(source, arg)  PROVE data' \subseteq data
  BY <1>6 DEF mount_ext2, Crash
<1>7. ASSUME NEW name \in Name, mkrootfsdir(name)  PROVE data' \subseteq data  BY <1>7 DEF mkrootfsdir, Crash
<1>8. ASSUME NEW name \in Name, rmrootfsdir(name)  PROVE data' \subseteq data  BY <1>8 DEF rmrootfsdir, Crash
<1>9. ASSUME NEW arg \in Args, NEW b \in BOOLEAN, puts(arg, b)
      PROVE  data' \subseteq data \/ \E i \in DOMAIN links \ DOMAIN folders : data' = data \cup {i}
  <2> DEFINE p == path_of(cur_dir, arg)
             file == get_node(p)
  <2>1. Crash \/ (file.kind = "file" /\ data' = IF b THEN data \ {file.id} ELSE data \cup {file.id})
    BY <1>9 DEF puts
  <2>2. CASE Crash  BY <2>2 DEF Crash
  <2>3. file \in Nodes \cup {NoNode, Panic}
    <3>1. arg \in Argument  BY ArgumentsOk
    <3>2. p \in Seq(Part)  BY <3>1, PathOfOk DEF ShellInv, CurOk, Paths
    <3> HIDE DEF p
    <3> QED  BY <3>2, GetNodeOk DEF ShellInv
  <2> HIDE DEF file
  <2>4. ASSUME file.kind = "file"  PROVE file.id \in DOMAIN links \ DOMAIN folders
    <3>1. file \in Nodes  BY <2>3, <2>4 DEF NoNode, Panic
    <3> QED  BY <2>4, <3>1 DEF Nodes, NodeOk
  <2> QED  BY <2>1, <2>2, <2>4
<1>10. ASSUME NEW arg \in Args \cup Dotted, NEW b \in BOOLEAN, open(arg, b, ~b)  PROVE data' \subseteq data
  <2> DEFINE p == canonicalize(IF absolute(arg) THEN arg ELSE append_str(cur_dir, arg))
             parent == get_node(del_last(p))
             a == Target(parent)
             n == find(Children(parent), last(p))
  <2>1. Crash \/ data' = data \ {n.id} \/ create_empty_child(a, last(p))  BY <1>10 DEF open
  <2>2. CASE Crash  BY <2>2 DEF Crash
  <2> HIDE DEF a, n
  <2> QED  BY <1>0, <2>1, <2>2
<1>11. CASE UNCHANGED vars  BY <1>11 DEF vars
<1> QED  BY <1>1, <1>2, <1>3, <1>4, <1>5, <1>6, <1>7, <1>8, <1>9, <1>10, <1>11 DEF Next

\* The flags stay flags.
LEMMA FlagsStep ==
    ASSUME ShellInv, [Next]_vars
    PROVE  FlagsOk'
<1>0. FlagsOk  BY DEF ShellInv
<1>1. failed' \in BOOLEAN
  <2>1. FsSame \/ FsCreates \/ FsUnlinks  BY FsStep DEF ShellInv
  <2>2. FsSame => failed' = failed  BY DEF FsSame
  <2>3. FsCreates => failed' = failed \/ failed' = TRUE  BY DEF FsCreates, Creates
  <2>4. FsUnlinks => failed' = failed  BY DEF FsUnlinks, Unlinks
  <2> QED  BY <1>0, <2>1, <2>2, <2>3, <2>4 DEF FlagsOk
<1>2. ASSUME Crash  PROVE ro' \in BOOLEAN /\ panicked' \in BOOLEAN  BY <1>0, <1>2, Zenon DEF Crash, FlagsOk
<1>3. ASSUME Next  PROVE Crash \/ (ro' \in {ro} \cup BOOLEAN /\ panicked' = panicked)
  <2>1. CASE ls  BY <2>1 DEF ls
  <2>2. ASSUME NEW arg \in Args, umount(arg) \/ cd(arg) \/ touch(arg) \/ rm(arg)
        PROVE  Crash \/ (ro' = ro /\ panicked' = panicked)
    BY <2>2 DEF umount, cd, touch, rm
  <2>3. ASSUME NEW source \in Sources, NEW arg \in Args, mount_ext2(source, arg)
        PROVE  Crash \/ (ro' \in BOOLEAN /\ panicked' = panicked)
    BY <2>3, Zenon DEF mount_ext2
  <2>4. ASSUME NEW name \in Name, mkrootfsdir(name) \/ rmrootfsdir(name)
        PROVE  Crash \/ (ro' = ro /\ panicked' = panicked)
    BY <2>4, Zenon DEF mkrootfsdir, rmrootfsdir
  <2>5. ASSUME NEW arg \in Args, NEW b \in BOOLEAN, puts(arg, b)
        PROVE  Crash \/ (ro' = ro /\ panicked' = panicked)
    BY <2>5 DEF puts
  <2>6. ASSUME NEW arg \in Args \cup Dotted, NEW b \in BOOLEAN, open(arg, b, ~b)
        PROVE  Crash \/ (ro' = ro /\ panicked' = panicked)
    BY <2>6 DEF open
  <2> QED  BY <1>3, <2>1, <2>2, <2>3, <2>4, <2>5, <2>6, Zenon DEF Next
<1>4. CASE UNCHANGED vars  BY <1>0, <1>4, Zenon DEF vars, FlagsOk
<1>5. CASE Next
  <2>1. ro' \in BOOLEAN /\ panicked' \in BOOLEAN  BY <1>0, <1>2, <1>3, <1>5, Zenon DEF FlagsOk
  <2> QED  BY <1>1, <2>1 DEF FlagsOk
<1> QED  BY <1>4, <1>5

\* What every state of the shell has: a readable image, a tree, a current folder.
LEMMA ShellStep ==
    ASSUME ShellInv, [Next]_vars
    PROVE  ShellInv'
<1>1. CurOk /\ TreeOk /\ FsOk /\ DataOk  BY DEF ShellInv
<1>2. CurOk'  BY <1>1, CurOkStep
<1>3. TreeOk'
  <2>1. tree' = tree \/ TreeGrows \/ TreeShrinks \/ TreeMounts  BY <1>1, TreeStep
  <2> QED  BY <1>1, <2>1, TreeOkStep
<1>4. FsOk' /\ DOMAIN folders' = DOMAIN folders /\ DOMAIN links' = DOMAIN links
  <2>1. FsSame \/ FsCreates \/ FsUnlinks  BY <1>1, FsStep
  <2> QED  BY <1>1, <2>1, FsOkStep
<1>5. DataOk'
  <2>1. data' \subseteq data \/ \E i \in DOMAIN links \ DOMAIN folders : data' = data \cup {i}  BY DataStep
  <2> QED  BY <1>1, <1>4, <2>1 DEF DataOk
<1>6. FlagsOk'  BY FlagsStep
<1> QED  BY <1>2, <1>3, <1>4, <1>5, <1>6 DEF ShellInv

\* The entries of a readable folder, one by one.
LEMMA EntriesOk ==
    ASSUME NEW I, NEW f, ReadOk(f, I), NEW e \in Range(f.entries)
    PROVE  e.addr \in I /\ e.size \in 1 .. MaxFolder /\ e.name \in DOMAIN Length
<1> DEFINE es == f.entries
           n == Len(es)
<1>1. es \in Seq(Ent(I)) /\ n \in Nat  BY DEF ReadOk
<1>2. PICK j \in 1 .. n : e = es[j]  BY <1>1, RangeIs
<1>3. e \in Ent(I)  BY <1>1, <1>2
<1>4. e.addr \in I /\ e.size \in Nat \ {0} /\ e.name \in DOMAIN Length  BY <1>3 DEF Ent
<1>5. /\ Offset(f, j + 1) = Offset(f, j) + f.entries[j].size
      /\ \A i \in 1 .. n + 1 : Offset(f, i) \in Nat /\ Offset(f, i) <= Offset(f, n + 1)
  BY <1>1, <1>2, OffsetsGrow
<1>6. Offset(f, n + 1) = f.size /\ f.size \in 0 .. MaxFolder  BY DEF ReadOk, TilesFolder
<1>7. MaxFolder \in Nat  BY ShellAssumption
<1>8. j \in 1 .. n + 1 /\ j + 1 \in 1 .. n + 1  BY <1>1, <1>2
<1> DEFINE o == Offset(f, j)
           q == Offset(f, j + 1)
           m == Offset(f, n + 1)
<1>9. o \in Nat /\ q \in Nat /\ q <= m /\ m \in 0 .. MaxFolder /\ q = o + e.size
  BY <1>2, <1>5, <1>6, <1>8
<1> HIDE DEF o, q, m, es, n
<1>10. e.size \in 1 .. MaxFolder  BY <1>4, <1>7, <1>9
<1> QED  BY <1>4, <1>10

\* Whatever was created and unlinked, the entries of a folder cover it from its
\* first byte to its last, each with room for its name: get_entries, which steps by
\* their sizes, reads exactly them.
THEOREM ShellEntries == Spec => []EntriesTile
<1>1. Init => ShellInv  BY ShellInit
<1>2. ShellInv /\ [Next]_vars => ShellInv'  BY ShellStep
<1>3. ShellInv => EntriesTile
  <2> SUFFICES ASSUME ShellInv  PROVE EntriesTile  OBVIOUS
  <2>1. CurOk /\ TreeOk /\ FsOk /\ DataOk /\ FlagsOk  BY DEF ShellInv
  <2>2. ASSUME NEW id \in 1 .. MaxNodes
        PROVE  Range(tree.kids[id]) \subseteq 2 .. MaxNodes /\ tree.mount[id] \in {"no", "dev", "ext2"}
    <3>1. tree.kids \in [1 .. MaxNodes -> Seq(2 .. MaxNodes)] /\ tree.mount \in [1 .. MaxNodes -> {"no", "dev", "ext2"}]
      BY <2>1 DEF TreeOk
    <3>2. tree.kids[id] \in Seq(2 .. MaxNodes)  BY <3>1
    <3> QED  BY <3>1, <3>2, RangeIs
  <2>3. ASSUME NEW a \in DOMAIN folders, NEW e \in Range(folders[a].entries)
        PROVE  e.addr \in DOMAIN links /\ e.size \in 1 .. MaxFolder /\ e.name # Blank
    <3>1. ReadOk(folders[a], DOMAIN links)  BY <2>1 DEF FsOk
    <3>2. e.addr \in DOMAIN links /\ e.size \in 1 .. MaxFolder /\ e.name \in DOMAIN Length  BY <3>1, EntriesOk
    <3> QED  BY <3>2, Blanks
  <2>4. links \in [DOMAIN links -> Nat]  BY <2>1 DEF FsOk
  <2>5. data \subseteq Inodes \cup DOMAIN links /\ data \cap DOMAIN folders = {}  BY <2>1 DEF DataOk
  <2>6. absolute(cur_dir)  BY <2>1 DEF CurOk, Paths
  <2>7. {ro, panicked, failed} \subseteq BOOLEAN  BY <2>1 DEF FlagsOk
  <2>8. TypeOK  BY <2>2, <2>3, <2>4, <2>5, <2>6, <2>7, Zenon DEF TypeOK, Blank
  <2>9. \A a \in DOMAIN folders : TilesFolder(folders[a]) /\ folders[a].size % BlockSize = 0  BY <2>1 DEF FsOk, ReadOk
  <2> QED  BY <2>8, <2>9 DEF EntriesTile
<1> QED  BY <1>1, <1>2, <1>3, PTL DEF Spec

-----------------------------------------------------------------------------
(* One entry at a time *)

\* The names and inodes of a folder.
NamesIn(a, f) == {<<a, e.name, e.addr>> : e \in Range(f.entries)}
NameAt(a, f, j) == <<a, f.entries[j].name, f.entries[j].addr>>

\* What holds at most one thing more differs by at most one.
LEMMA OneMore ==
    ASSUME NEW A, NEW B, NEW x, A \subseteq B, B \subseteq A \cup {x}
    PROVE  Cardinality(A \ B) + Cardinality(B \ A) <= 1 /\ Cardinality(B \ A) + Cardinality(A \ B) <= 1
<1>1. Cardinality(A \ B) = 0
  <2>1. A \ B = {}  OBVIOUS
  <2> QED  BY <2>1, FS_EmptySet
<1>2. Cardinality(B \ A) \in {0, 1}
  <2>1. B \ A = {} \/ B \ A = {x}  OBVIOUS
  <2>2. Cardinality({}) = 0 /\ Cardinality({x}) = 1  BY FS_EmptySet, FS_Singleton
  <2> QED  BY <2>1, <2>2
<1> QED  BY <1>1, <1>2

\* The names of a readable folder, entry by entry.
LEMMA NamesInIs ==
    ASSUME NEW I, NEW f, ReadOk(f, I), NEW a
    PROVE  NamesIn(a, f) = {NameAt(a, f, j) : j \in 1 .. Len(f.entries)} /\ Len(f.entries) \in Nat
<1> DEFINE es == f.entries
           n == Len(es)
<1>1. es \in Seq(Ent(I)) /\ n \in Nat  BY DEF ReadOk
<1>2. Range(es) = {es[j] : j \in 1 .. n}  BY <1>1, RangeIs
<1>3. NamesIn(a, f) = {NameAt(a, f, j) : j \in 1 .. n}  BY <1>2 DEF NamesIn, NameAt
<1> QED  BY <1>1, <1>3

\* A created entry adds its name.
LEMMA NamesGrown ==
    ASSUME NEW I, NEW f, ReadOk(f, I), NEW r, ReadOk(r, I), NEW a, NEW name, NEW i, Grown(f, r, name, i)
    PROVE  NamesIn(a, f) \subseteq NamesIn(a, r) /\ NamesIn(a, r) \subseteq NamesIn(a, f) \cup {<<a, name, i>>}
<1> DEFINE n == Len(f.entries)
           m == Len(r.entries)
<1>1. NamesIn(a, f) = {NameAt(a, f, j) : j \in 1 .. n} /\ n \in Nat  BY NamesInIs
<1>2. NamesIn(a, r) = {NameAt(a, r, j) : j \in 1 .. m} /\ m \in Nat  BY NamesInIs
<1>3. m = n + 1 /\ (\A j \in 1 .. n : NameAt(a, r, j) = NameAt(a, f, j)) /\ NameAt(a, r, n + 1) = <<a, name, i>>
  BY DEF Grown, NameAt
<1> HIDE DEF n, m
<1>4. 1 .. m = (1 .. n) \cup {n + 1}  BY <1>1, <1>3
<1> QED  BY <1>1, <1>2, <1>3, <1>4

\* Positions before and after an entry went: Before(k, j) is where entry j was.
LEMMA BeforeIs ==
    ASSUME NEW n \in Nat, NEW k \in 1 .. n
    PROVE  /\ \A j \in 1 .. n - 1 : Before(k, j) \in (1 .. n) \ {k}
           /\ \A j \in (1 .. n) \ {k} : \E h \in 1 .. n - 1 : Before(k, h) = j
           /\ \A g, h \in 1 .. n - 1 : Before(k, g) = Before(k, h) => g = h
<1>1. \A j \in 1 .. n - 1 : Before(k, j) \in (1 .. n) \ {k}  BY DEF Before
<1>2. ASSUME NEW j \in (1 .. n) \ {k}  PROVE \E h \in 1 .. n - 1 : Before(k, h) = j
  <2>1. CASE j < k
    <3>1. j \in 1 .. n - 1 /\ Before(k, j) = j  BY <2>1 DEF Before
    <3> QED  BY <3>1
  <2>2. CASE j > k
    <3>1. j - 1 \in 1 .. n - 1 /\ Before(k, j - 1) = j  BY <2>2 DEF Before
    <3> QED  BY <3>1
  <2> QED  BY <2>1, <2>2
<1>3. \A g, h \in 1 .. n - 1 : Before(k, g) = Before(k, h) => g = h  BY DEF Before
<1> QED  BY <1>1, <1>2, <1>3

\* An unlinked entry takes at most its own name with it.
LEMMA NamesShrunk ==
    ASSUME NEW I, NEW f, ReadOk(f, I), NEW r, ReadOk(r, I), NEW a, NEW k \in 2 .. Len(f.entries), Shrunk(f, r, k)
    PROVE  NamesIn(a, r) \subseteq NamesIn(a, f) /\ NamesIn(a, f) \subseteq NamesIn(a, r) \cup {NameAt(a, f, k)}
<1> DEFINE n == Len(f.entries)
           m == Len(r.entries)
<1>1. NamesIn(a, f) = {NameAt(a, f, j) : j \in 1 .. n} /\ n \in Nat  BY NamesInIs
<1>2. NamesIn(a, r) = {NameAt(a, r, j) : j \in 1 .. m} /\ m \in Nat  BY NamesInIs
<1>3. m = n - 1 /\ \A j \in 1 .. n - 1 : NameAt(a, r, j) = NameAt(a, f, Before(k, j))  BY DEF Shrunk, NameAt
<1>4. k \in 2 .. n  OBVIOUS
<1> HIDE DEF n, m
<1>5. k \in 1 .. n  BY <1>1, <1>4
<1>6. /\ \A j \in 1 .. n - 1 : Before(k, j) \in (1 .. n) \ {k}
      /\ \A j \in (1 .. n) \ {k} : \E h \in 1 .. n - 1 : Before(k, h) = j
  BY <1>1, <1>5, BeforeIs
<1>7. \A j \in 1 .. m : NameAt(a, r, j) \in NamesIn(a, f)  BY <1>1, <1>3, <1>6
<1>8. ASSUME NEW j \in 1 .. n, j # k  PROVE NameAt(a, f, j) \in NamesIn(a, r)
  <2>1. PICK h \in 1 .. n - 1 : Before(k, h) = j  BY <1>6, <1>8
  <2>2. NameAt(a, f, j) = NameAt(a, r, h)  BY <1>3, <2>1
  <2> QED  BY <1>2, <1>3, <2>2
<1> QED  BY <1>1, <1>2, <1>7, <1>8

\* Set B has at most x more than A.
Adds(A, B, x) == A \subseteq B /\ B \subseteq A \cup {x}

\* The names of all folders change as those of the one that changes.
LEMMA NamedChanges ==
    ASSUME NEW fs, NEW a \in DOMAIN fs, NEW r, NEW gs, gs = [fs EXCEPT ![a] = r], NEW x
    PROVE  /\ Adds(NamesIn(a, fs[a]), NamesIn(a, r), x) => Adds(Named(fs), Named(gs), x)
           /\ Adds(NamesIn(a, r), NamesIn(a, fs[a]), x) => Adds(Named(gs), Named(fs), x)
<1>1. \A hs : Named(hs) = UNION {NamesIn(b, hs[b]) : b \in DOMAIN hs}  BY DEF Named, NamesIn
<1>2. DOMAIN gs = DOMAIN fs /\ \A b \in DOMAIN fs : gs[b] = IF b = a THEN r ELSE fs[b]  OBVIOUS
<1>3. \A y : y \in Named(fs) <=> \E b \in DOMAIN fs : y \in NamesIn(b, fs[b])  BY <1>1
<1>4. \A y : y \in Named(gs) <=> \E b \in DOMAIN fs : y \in NamesIn(b, gs[b])  BY <1>1, <1>2
<1> QED  BY <1>2, <1>3, <1>4 DEF Adds

\* A step of the shell or of a program changes one folder by one entry: the other
\* names, in all folders, stay where they are and name the same inodes.
THEOREM ShellOneEntry == Spec => OneEntryAtATime
<1> DEFINE A == Cardinality(Named(folders) \ Named(folders')) + Cardinality(Named(folders') \ Named(folders)) <= 1
<1>1. Init => ShellInv  BY ShellInit
<1>2. ShellInv /\ [Next]_vars => ShellInv'  BY ShellStep
<1>3. ShellInv /\ [Next]_vars => A
  <2> SUFFICES ASSUME ShellInv, [Next]_vars  PROVE A  OBVIOUS
  <2>1. FsSame \/ FsCreates \/ FsUnlinks  BY FsStep DEF ShellInv
  <2>2. \A a \in DOMAIN folders : ReadOk(folders[a], DOMAIN links)  BY DEF ShellInv, FsOk
  <2>3. CASE folders' = folders
    <3> DEFINE N == Named(folders)
    <3>1. Named(folders') = N  BY <2>3
    <3> HIDE DEF N
    <3>2. Cardinality(N \ N) + Cardinality(N \ N) <= 1  BY OneMore
    <3> QED  BY <3>1, <3>2 DEF N
  <2>4. ASSUME NEW a \in DOMAIN folders, NEW name, NEW i, NEW r, Creates(a, name, i, r)  PROVE A
    <3>1. CASE folders' = folders  BY <2>3, <3>1
    <3>2. CASE folders' = [folders EXCEPT ![a] = r] /\ ReadOk(r, DOMAIN links)
      <4>1. Grown(folders[a], r, name, i)  BY <2>4 DEF Creates
      <4>2. /\ NamesIn(a, folders[a]) \subseteq NamesIn(a, r)
            /\ NamesIn(a, r) \subseteq NamesIn(a, folders[a]) \cup {<<a, name, i>>}
        BY <2>2, <3>2, <4>1, NamesGrown
      <4> DEFINE x == <<a, name, i>>
      <4>3. Adds(NamesIn(a, folders[a]), NamesIn(a, r), x)  BY <4>2 DEF Adds
      <4> HIDE DEF x
      <4>4. Adds(Named(folders), Named(folders'), x)  BY <3>2, <4>3, NamedChanges
      <4> QED  BY <4>4, OneMore DEF Adds
    <3> QED  BY <2>4, <3>1, <3>2 DEF Creates
  <2>5. ASSUME NEW a \in DOMAIN folders, NEW k, NEW r, Unlinks(a, k, r)  PROVE A
    <3> DEFINE x == NameAt(a, folders[a], k)
    <3>1. /\ folders' = [folders EXCEPT ![a] = r] /\ ReadOk(r, DOMAIN links)
          /\ k \in 2 .. Len(folders[a].entries) /\ Shrunk(folders[a], r, k)
      BY <2>5 DEF Unlinks
    <3>2. NamesIn(a, r) \subseteq NamesIn(a, folders[a]) /\ NamesIn(a, folders[a]) \subseteq NamesIn(a, r) \cup {x}
      BY <2>2, <3>1, NamesShrunk
    <3> HIDE DEF x
    <3>3. Adds(NamesIn(a, r), NamesIn(a, folders[a]), x)  BY <3>2 DEF Adds
    <3>4. Adds(Named(folders'), Named(folders), x)  BY <3>1, <3>3, NamedChanges
    <3> QED  BY <3>4, OneMore DEF Adds
  <2>6. CASE FsSame  BY <2>3, <2>6 DEF FsSame
  <2> HIDE DEF A
  <2> QED  BY <2>1, <2>4, <2>5, <2>6 DEF FsCreates, FsUnlinks
<1> QED  BY <1>1, <1>2, <1>3, PTL DEF Spec, OneEntryAtATime

-----------------------------------------------------------------------------
(* Link counts *)

\* Entry h of folder b names inode i.
At(fs, b, h, i) == b \in DOMAIN fs /\ h \in 1 .. Len(fs[b].entries) /\ fs[b].entries[h].addr = i
Readable(fs, I) == \A b \in DOMAIN fs : ReadOk(fs[b], I)

\* The entries that name an inode, one by one.
LEMMA NamingIs ==
    ASSUME NEW fs, NEW I, Readable(fs, I), NEW i
    PROVE  /\ \A b, h : <<b, h>> \in Naming(fs, i) <=> At(fs, b, h, i)
           /\ \A x \in Naming(fs, i) : \E b, h : x = <<b, h>> /\ At(fs, b, h, i)
<1> DEFINE N(b) == {<<b, k>> : k \in {k \in DOMAIN fs[b].entries : fs[b].entries[k].addr = i}}
<1>1. Naming(fs, i) = UNION {N(b) : b \in DOMAIN fs}  BY DEF Naming
<1>2. ASSUME NEW b \in DOMAIN fs  PROVE DOMAIN fs[b].entries = 1 .. Len(fs[b].entries)
  <2> DEFINE es == fs[b].entries
  <2>1. es \in Seq(Ent(I))  BY DEF Readable, ReadOk
  <2> HIDE DEF es
  <2>2. DOMAIN es = 1 .. Len(es)  BY <2>1
  <2> QED  BY <2>2 DEF es
<1>3. \A b \in DOMAIN fs : \A x : x \in N(b) <=> \E k : x = <<b, k>> /\ At(fs, b, k, i)  BY <1>2 DEF At
<1>4. \A x : x \in Naming(fs, i) <=> \E b \in DOMAIN fs : x \in N(b)  BY <1>1
<1> HIDE DEF N
<1>5. \A x : x \in Naming(fs, i) <=> \E b, k : x = <<b, k>> /\ At(fs, b, k, i)  BY <1>3, <1>4 DEF At
<1>6. \A b, h, c, k : <<b, h>> = <<c, k>> => b = c /\ h = k  OBVIOUS
<1> QED  BY <1>5, <1>6

\* There are finitely many of them.
LEMMA NamingFinite ==
    ASSUME NEW fs, NEW I, Readable(fs, I), IsFiniteSet(DOMAIN fs), NEW i
    PROVE  IsFiniteSet(Naming(fs, i))
<1> DEFINE K(b) == {k \in DOMAIN fs[b].entries : fs[b].entries[k].addr = i}
           N(b) == {<<b, k>> : k \in K(b)}
           U == {N(b) : b \in DOMAIN fs}
<1>1. Naming(fs, i) = UNION U  BY DEF Naming
<1>2. ASSUME NEW b \in DOMAIN fs  PROVE IsFiniteSet(N(b))
  <2> DEFINE es == fs[b].entries
             n == Len(es)
             g == [k \in K(b) |-> <<b, k>>]
             KK == K(b)
             NN == N(b)
  <2>1. es \in Seq(Ent(I))  BY DEF Readable, ReadOk
  <2> HIDE DEF es
  <2>2. DOMAIN es = 1 .. n /\ n \in Nat  BY <2>1
  <2>3. KK \subseteq 1 .. n  BY <2>2 DEF es
  <2>4. NN = {<<b, k>> : k \in KK}  OBVIOUS
  <2>5. g = [k \in KK |-> <<b, k>>]  OBVIOUS
  <2> HIDE DEF KK, NN, n, g
  <2>6. IsFiniteSet(1 .. n)  BY <2>2, FS_Interval
  <2>7. IsFiniteSet(KK)  BY <2>3, <2>6, FS_Subset
  <2>8. g \in Surjection(KK, NN)  BY <2>4, <2>5 DEF Surjection
  <2>9. IsFiniteSet(NN)  BY <2>7, <2>8, FS_Surjection
  <2> QED  BY <2>9 DEF NN
<1> DEFINE s == [b \in DOMAIN fs |-> N(b)]
           D == DOMAIN fs
<1> HIDE DEF N
<1>3. s \in Surjection(D, U)  BY DEF Surjection
<1>4. IsFiniteSet(D)  OBVIOUS
<1>5. \A T \in U : IsFiniteSet(T)  BY <1>2
<1> HIDE DEF s, D, U
<1>6. IsFiniteSet(U)  BY <1>3, <1>4, FS_Surjection
<1>7. IsFiniteSet(UNION U)  BY <1>5, <1>6, FS_UNION
<1> QED  BY <1>1, <1>7

\* Readable folders before and after folder a became r.
Became(fs, gs, I, a, r) ==
    Readable(fs, I) /\ IsFiniteSet(DOMAIN fs) /\ a \in DOMAIN fs /\ ReadOk(r, I) /\ gs = [fs EXCEPT ![a] = r]

\* A created entry is one more for its inode and none for the others.
NamedOnceMore(fs, gs, i, j) ==
    /\ j = i => \E x : Naming(gs, j) = Naming(fs, j) \cup {x}
    /\ j # i => Naming(gs, j) = Naming(fs, j)
\* The new entry of create_entry is the one more.
LEMMA NamingGrown ==
    ASSUME NEW fs, NEW I, NEW a, NEW r, NEW gs, Became(fs, gs, I, a, r), NEW name, NEW i,
           Grown(fs[a], r, name, i), NEW j
    PROVE  NamedOnceMore(fs, gs, i, j)
<1>0. Readable(fs, I) /\ IsFiniteSet(DOMAIN fs) /\ a \in DOMAIN fs /\ ReadOk(r, I) /\ gs = [fs EXCEPT ![a] = r]
  BY DEF Became
<1> USE <1>0
<1> DEFINE n == Len(fs[a].entries)
           x == <<a, n + 1>>
<1>1. DOMAIN gs = DOMAIN fs /\ \A b \in DOMAIN fs : gs[b] = IF b = a THEN r ELSE fs[b]  OBVIOUS
<1>2. Readable(gs, I)  BY <1>1 DEF Readable
<1>3. n \in Nat
  <2> DEFINE es == fs[a].entries
  <2>1. es \in Seq(Ent(I))  BY DEF Readable, ReadOk
  <2> HIDE DEF es
  <2>2. Len(es) \in Nat  BY <2>1
  <2> QED  BY <2>2 DEF es
<1>4. /\ Len(r.entries) = n + 1 /\ r.entries[n + 1].addr = i
      /\ \A h \in 1 .. n : r.entries[h].addr = fs[a].entries[h].addr
  BY DEF Grown
<1>5. ASSUME NEW b, NEW h  PROVE At(gs, b, h, j) <=> (At(fs, b, h, j) \/ (j = i /\ b = a /\ h = n + 1))
  <2>1. CASE b # a  BY <1>1, <2>1 DEF At
  <2>2. CASE b = a
    <3>1. At(gs, a, h, j) <=> h \in 1 .. n + 1 /\ r.entries[h].addr = j  BY <1>1, <1>4 DEF At
    <3>2. At(fs, a, h, j) <=> h \in 1 .. n /\ fs[a].entries[h].addr = j  BY DEF At
    <3> HIDE DEF n
    <3>3. h \in 1 .. n + 1 <=> h \in 1 .. n \/ h = n + 1  BY <1>3
    <3>4. n + 1 \notin 1 .. n  BY <1>3
    <3> QED  BY <1>4, <2>2, <3>1, <3>2, <3>3, <3>4
  <2> QED  BY <2>1, <2>2
<1> HIDE DEF n
<1>8. /\ \A b, h : <<b, h>> \in Naming(fs, j) <=> At(fs, b, h, j)
      /\ \A y \in Naming(fs, j) : \E b, h : y = <<b, h>> /\ At(fs, b, h, j)
  BY NamingIs
<1>9. /\ \A b, h : <<b, h>> \in Naming(gs, j) <=> At(gs, b, h, j)
      /\ \A y \in Naming(gs, j) : \E b, h : y = <<b, h>> /\ At(gs, b, h, j)
  BY <1>2, NamingIs
<1>10. Naming(gs, j) = IF j = i THEN Naming(fs, j) \cup {x} ELSE Naming(fs, j)
  <2>1. ASSUME NEW y \in Naming(gs, j)  PROVE y \in Naming(fs, j) \/ (j = i /\ y = x)
    <3>1. PICK b, h : y = <<b, h>> /\ At(gs, b, h, j)  BY <1>9
    <3>2. At(fs, b, h, j) \/ (j = i /\ b = a /\ h = n + 1)  BY <1>5, <3>1
    <3>3. CASE At(fs, b, h, j)  BY <1>8, <3>1, <3>3
    <3>4. CASE j = i /\ b = a /\ h = n + 1  BY <3>1, <3>4
    <3> QED  BY <3>2, <3>3, <3>4
  <2>2. ASSUME NEW y \in Naming(fs, j)  PROVE y \in Naming(gs, j)
    <3>1. PICK b, h : y = <<b, h>> /\ At(fs, b, h, j)  BY <1>8
    <3> QED  BY <1>5, <1>9, <3>1
  <2>3. j = i => x \in Naming(gs, j)  BY <1>5, <1>9
  <2> QED  BY <2>1, <2>2, <2>3
<1> HIDE DEF x
<1> QED  BY <1>10 DEF NamedOnceMore

\* An entry that went is one less for its inode and none for the others.
LEMMA NamingShrunk ==
    ASSUME NEW fs, NEW I, NEW a, NEW r, NEW gs, Became(fs, gs, I, a, r),
           NEW k \in 2 .. Len(fs[a].entries), Shrunk(fs[a], r, k), NEW j
    PROVE  Cardinality(Naming(gs, j)) = Cardinality(Naming(fs, j) \ {<<a, k>>})
<1>a. Readable(fs, I) /\ IsFiniteSet(DOMAIN fs) /\ a \in DOMAIN fs /\ ReadOk(r, I) /\ gs = [fs EXCEPT ![a] = r]
  BY DEF Became
<1> USE <1>a
<1> DEFINE n == Len(fs[a].entries)
           S == Naming(gs, j)
           T == Naming(fs, j) \ {<<a, k>>}
           W(b, h) == IF b = a THEN Before(k, h) ELSE h
           g == [x \in S |-> <<x[1], W(x[1], x[2])>>]
<1>1. DOMAIN gs = DOMAIN fs /\ \A b \in DOMAIN fs : gs[b] = IF b = a THEN r ELSE fs[b]  OBVIOUS
<1>2. Readable(gs, I)  BY <1>1 DEF Readable
<1>3. n \in Nat /\ k \in 1 .. n
  <2> DEFINE es == fs[a].entries
             m == Len(es)
  <2>1. es \in Seq(Ent(I)) /\ k \in 2 .. m  BY DEF Readable, ReadOk
  <2> HIDE DEF es
  <2>2. m \in Nat  BY <2>1
  <2> HIDE DEF m
  <2>3. m \in Nat /\ k \in 1 .. m  BY <2>1, <2>2
  <2> QED  BY <2>3 DEF es, m
<1>4. Len(r.entries) = n - 1 /\ \A h \in 1 .. n - 1 : r.entries[h].addr = fs[a].entries[Before(k, h)].addr  BY DEF Shrunk
<1>5. \A h : At(fs, a, h, j) <=> h \in 1 .. n /\ fs[a].entries[h].addr = j  BY DEF At
<1>6. \A h : At(gs, a, h, j) <=> h \in 1 .. n - 1 /\ fs[a].entries[Before(k, h)].addr = j  BY <1>1, <1>4 DEF At
<1>7. \A b : b # a => \A h : At(gs, b, h, j) <=> At(fs, b, h, j)  BY <1>1 DEF At
<1> HIDE DEF n
<1>8. /\ \A h \in 1 .. n - 1 : Before(k, h) \in (1 .. n) \ {k}
      /\ \A h \in (1 .. n) \ {k} : \E q \in 1 .. n - 1 : Before(k, q) = h
      /\ \A h, q \in 1 .. n - 1 : Before(k, h) = Before(k, q) => h = q
  BY <1>3, BeforeIs
<1>9. /\ \A b, h : <<b, h>> \in Naming(fs, j) <=> At(fs, b, h, j)
      /\ \A y \in Naming(fs, j) : \E b, h : y = <<b, h>> /\ At(fs, b, h, j)
  BY NamingIs
<1>10. /\ \A b, h : <<b, h>> \in S <=> At(gs, b, h, j)
       /\ \A y \in S : \E b, h : y = <<b, h>> /\ At(gs, b, h, j)
  BY <1>2, NamingIs
<1>11. ASSUME NEW b, NEW h, At(gs, b, h, j)  PROVE At(fs, b, W(b, h), j) /\ ~(b = a /\ W(b, h) = k)
  <2>1. CASE b = a  BY <1>5, <1>6, <1>8, <1>11, <2>1
  <2>2. CASE b # a  BY <1>7, <1>11, <2>2
  <2> QED  BY <2>1, <2>2
<1>12. ASSUME NEW b, NEW h, At(fs, b, h, j), ~(b = a /\ h = k)  PROVE \E q : At(gs, b, q, j) /\ W(b, q) = h
  <2>1. CASE b = a
    <3>1. h \in (1 .. n) \ {k} /\ fs[a].entries[h].addr = j  BY <1>5, <1>12, <2>1
    <3>2. PICK q \in 1 .. n - 1 : Before(k, q) = h  BY <1>8, <3>1
    <3>3. At(gs, a, q, j)  BY <1>6, <3>1, <3>2
    <3> QED  BY <2>1, <3>2, <3>3
  <2>2. CASE b # a  BY <1>7, <1>12, <2>2
  <2> QED  BY <2>1, <2>2
<1>13. ASSUME NEW b, NEW h, NEW q, At(gs, b, h, j), At(gs, b, q, j), W(b, h) = W(b, q)  PROVE h = q
  <2>1. CASE b = a
    <3>1. h \in 1 .. n - 1 /\ q \in 1 .. n - 1  BY <1>6, <1>13, <2>1
    <3> QED  BY <1>8, <1>13, <2>1, <3>1
  <2>2. CASE b # a  BY <1>13, <2>2
  <2> QED  BY <2>1, <2>2
<1> HIDE DEF W
<1>14. \A b, h : At(gs, b, h, j) => g[<<b, h>>] = <<b, W(b, h)>>
  <2> SUFFICES ASSUME NEW b, NEW h, At(gs, b, h, j)  PROVE g[<<b, h>>] = <<b, W(b, h)>>  OBVIOUS
  <2>1. <<b, h>> \in S  BY <1>10
  <2> HIDE DEF S
  <2> QED  BY <2>1
<1>15. \A b, h : At(gs, b, h, j) => <<b, W(b, h)>> \in T
  <2> SUFFICES ASSUME NEW b, NEW h, At(gs, b, h, j)  PROVE <<b, W(b, h)>> \in T  OBVIOUS
  <2>1. At(fs, b, W(b, h), j) /\ ~(b = a /\ W(b, h) = k)  BY <1>11
  <2>2. <<b, W(b, h)>> \in Naming(fs, j)  BY <1>9, <2>1
  <2>3. <<b, W(b, h)>> # <<a, k>>  BY <2>1
  <2> QED  BY <2>2, <2>3
<1>16. \A y \in T : \E b, h : y = <<b, h>> /\ At(fs, b, h, j) /\ ~(b = a /\ h = k)  BY <1>9
<1>17. DOMAIN g = S  OBVIOUS
<1>0. g = [x \in S |-> g[x]]  OBVIOUS
<1> HIDE DEF g, S, T
<1>18. \A x \in S : g[x] \in T
  <2> SUFFICES ASSUME NEW x \in S  PROVE g[x] \in T  OBVIOUS
  <2>1. PICK b, h : x = <<b, h>> /\ At(gs, b, h, j)  BY <1>10
  <2>2. g[<<b, h>>] = <<b, W(b, h)>>  BY <1>14, <2>1
  <2>3. <<b, W(b, h)>> \in T  BY <1>15, <2>1
  <2> QED  BY <2>1, <2>2, <2>3
<1>19. g \in [S -> T]  BY <1>0, <1>18
<1>20. \A x, y \in S : g[x] = g[y] => x = y
  <2> SUFFICES ASSUME NEW x \in S, NEW y \in S, g[x] = g[y]  PROVE x = y  OBVIOUS
  <2>1. PICK b, h : x = <<b, h>> /\ At(gs, b, h, j)  BY <1>10
  <2>2. PICK c, q : y = <<c, q>> /\ At(gs, c, q, j)  BY <1>10
  <2>3. <<b, W(b, h)>> = <<c, W(c, q)>>  BY <1>14, <2>1, <2>2
  <2>4. b = c /\ W(b, h) = W(b, q)  BY <2>3
  <2>5. h = q  BY <1>13, <2>1, <2>2, <2>4
  <2> QED  BY <2>1, <2>2, <2>4, <2>5
<1>21. \A y \in T : \E x \in S : g[x] = y
  <2> SUFFICES ASSUME NEW y \in T  PROVE \E x \in S : g[x] = y  OBVIOUS
  <2>1. PICK b, h : y = <<b, h>> /\ At(fs, b, h, j) /\ ~(b = a /\ h = k)  BY <1>16
  <2>2. PICK q : At(gs, b, q, j) /\ W(b, q) = h  BY <1>12, <2>1
  <2>3. <<b, q>> \in S /\ g[<<b, q>>] = y  BY <1>10, <1>14, <2>1, <2>2
  <2> QED  BY <2>3
<1>22. ExistsBijection(S, T)
  <2>1. g \in Injection(S, T)  BY <1>17, <1>19, <1>20 DEF Injection, IsInjective
  <2>2. g \in Surjection(S, T)  BY <1>19, <1>21 DEF Surjection
  <2> QED  BY <2>1, <2>2 DEF ExistsBijection, Bijection
<1>23. IsFiniteSet(S)
  <2>1. IsFiniteSet(DOMAIN gs)  BY <1>1
  <2> QED  BY <1>2, <2>1, NamingFinite DEF S
<1> QED  BY <1>22, <1>23, FS_Bijection DEF S, T

\* The link count of an inode is the number of entries that name it, in every step
\* of the shell and of programs: none is freed while an entry is left and none is
\* kept without one, but for a child whose folder could not grow.
THEOREM ShellLinks == Spec => []LinksMatch
<1>1. Init => ShellInv /\ LinksMatch
  <2> SUFFICES ASSUME Init  PROVE ShellInv /\ LinksMatch  OBVIOUS
  <2>1. ShellInv  BY ShellInit
  <2>2. \A i \in DOMAIN Image.links : Cardinality(Naming(Image.folders, i)) = Image.links[i]  BY ShellAssumption
  <2>3. Image.links \in [DOMAIN Image.links -> Nat]  BY ShellAssumption
  <2>4. folders = Image.folders /\ links = Image.links  BY Zenon DEF Init
  <2>5. \A i \in DOMAIN links : Cardinality(Naming(folders, i)) = links[i] /\ links[i] \in Nat  BY <2>2, <2>3, <2>4
  <2>6. \A i \in DOMAIN links : Cardinality(Naming(folders, i)) <= links[i]  BY <2>5
  <2>7. LinksMatch  BY <2>5, <2>6 DEF LinksMatch
  <2> QED  BY <2>1, <2>7
<1>2. ShellInv /\ LinksMatch /\ [Next]_vars => ShellInv' /\ LinksMatch'
  <2> SUFFICES ASSUME ShellInv, LinksMatch, [Next]_vars  PROVE LinksMatch'  BY ShellStep
  <2>1. FsOk /\ FlagsOk  BY DEF ShellInv
  <2>2. FsSame \/ FsCreates \/ FsUnlinks  BY FsStep DEF ShellInv
  <2>3. Readable(folders, DOMAIN links) /\ IsFiniteSet(DOMAIN folders)  BY <2>1 DEF FsOk, Readable
  <2>4. \A i \in DOMAIN links : links[i] \in Nat  BY <2>1 DEF FsOk
  <2>5. \A i : IsFiniteSet(Naming(folders, i)) /\ Cardinality(Naming(folders, i)) \in Nat
    BY <2>3, NamingFinite, FS_CardinalityType
  <2>6. \A i \in DOMAIN links : Cardinality(Naming(folders, i)) <= links[i]
                                /\ (~failed => Cardinality(Naming(folders, i)) = links[i])
    BY DEF LinksMatch
  <2>7. CASE FsSame  BY <2>7 DEF FsSame, LinksMatch
  <2>8. ASSUME NEW a \in DOMAIN folders, NEW name, NEW i, NEW r, Creates(a, name, i, r)  PROVE LinksMatch'
    <3>1. /\ i \in DOMAIN links /\ links[i] = 0 /\ links' = [links EXCEPT ![i] = 1]
          /\ Grown(folders[a], r, name, i)
      BY <2>1, <2>8 DEF Creates, FsOk
    <3>2. Naming(folders, i) = {}
      <4>1. Cardinality(Naming(folders, i)) = 0  BY <2>5, <2>6, <3>1
      <4> QED  BY <2>5, <4>1, FS_EmptySet
    <3>3. DOMAIN links' = DOMAIN links /\ links'[i] = 1 /\ \A j \in DOMAIN links : j # i => links'[j] = links[j]
      BY <3>1
    <3>4. ASSUME NEW j \in DOMAIN links
          PROVE  Cardinality(Naming(folders', j)) <= links'[j]
                 /\ (~failed' => Cardinality(Naming(folders', j)) = links'[j])
      <4>1. CASE folders' = folders /\ failed' = TRUE
        <5>1. Cardinality(Naming(folders, j)) <= links'[j]
          <6>1. CASE j = i
            <7>1. Cardinality(Naming(folders, j)) = 0  BY <3>2, <6>1, FS_EmptySet
            <7> QED  BY <3>3, <6>1, <7>1
          <6>2. CASE j # i  BY <2>6, <3>3, <6>2
          <6> QED  BY <6>1, <6>2
        <5> QED  BY <4>1, <5>1
      <4>2. CASE folders' = [folders EXCEPT ![a] = r] /\ ReadOk(r, DOMAIN links) /\ failed' = failed
        <5>1. NamedOnceMore(folders, folders', i, j)
          <6>1. Became(folders, folders', DOMAIN links, a, r)  BY <2>3, <4>2 DEF Became
          <6>2. Grown(folders[a], r, name, i)  BY <3>1
          <6> QED  BY <6>1, <6>2, NamingGrown
        <5>2. CASE j = i
          <6>0. PICK x : Naming(folders', j) = Naming(folders, j) \cup {x}  BY <5>1, <5>2 DEF NamedOnceMore
          <6>1. Naming(folders', j) = {x}  BY <3>2, <5>2, <6>0
          <6>2. Cardinality({x}) = 1  BY FS_Singleton
          <6>3. Cardinality(Naming(folders', j)) = 1 /\ links'[j] = 1  BY <3>3, <5>2, <6>1, <6>2
          <6> QED  BY <6>3
        <5>3. CASE j # i
          <6>1. Naming(folders', j) = Naming(folders, j) /\ links'[j] = links[j]
            BY <3>3, <5>1, <5>3 DEF NamedOnceMore
          <6> QED  BY <2>6, <4>2, <6>1
        <5> QED  BY <5>2, <5>3
      <4> QED  BY <2>8, <4>1, <4>2 DEF Creates
    <3> QED  BY <3>3, <3>4 DEF LinksMatch
  <2>9. ASSUME NEW a \in DOMAIN folders, NEW k, NEW r, Unlinks(a, k, r)  PROVE LinksMatch'
    <3> DEFINE c == folders[a].entries[k].addr
    <3>1. /\ k \in 2 .. Len(folders[a].entries) /\ Shrunk(folders[a], r, k) /\ ReadOk(r, DOMAIN links)
          /\ folders' = [folders EXCEPT ![a] = r] /\ failed' = failed
      BY <2>9 DEF Unlinks
    <3>2. links' = [links EXCEPT ![c] = IF @ >= 1 THEN @ - 1 ELSE @]  BY <2>9 DEF Unlinks
    <3>3. k \in 1 .. Len(folders[a].entries)
      <4> DEFINE es == folders[a].entries
                 n == Len(es)
      <4>1. es \in Seq(Ent(DOMAIN links)) /\ k \in 2 .. n  BY <2>3, <3>1 DEF Readable, ReadOk
      <4> HIDE DEF es
      <4>2. n \in Nat  BY <4>1
      <4> HIDE DEF n
      <4>3. k \in 1 .. n  BY <4>1, <4>2
      <4> QED  BY <4>3 DEF n, es
    <3>4. At(folders, a, k, c) /\ \A j : j # c => ~At(folders, a, k, j)  BY <3>3 DEF At
    <3> HIDE DEF c
    <3>5. <<a, k>> \in Naming(folders, c)
      <4>1. <<a, k>> \in Naming(folders, c) <=> At(folders, a, k, c)  BY <2>3, NamingIs
      <4> QED  BY <3>4, <4>1
    <3>6. \A j : j # c => <<a, k>> \notin Naming(folders, j)
      <4> SUFFICES ASSUME NEW j, j # c  PROVE <<a, k>> \notin Naming(folders, j)  OBVIOUS
      <4>1. <<a, k>> \in Naming(folders, j) <=> At(folders, a, k, j)  BY <2>3, NamingIs
      <4> QED  BY <3>4, <4>1
    <3>7. DOMAIN links' = DOMAIN links /\ \A j \in DOMAIN links : j # c => links'[j] = links[j]  BY <3>2
    <3>8. ASSUME NEW j \in DOMAIN links
          PROVE  Cardinality(Naming(folders', j)) <= links'[j]
                 /\ (~failed' => Cardinality(Naming(folders', j)) = links'[j])
      <4>1. Cardinality(Naming(folders', j)) = Cardinality(Naming(folders, j) \ {<<a, k>>})
        <5>1. Became(folders, folders', DOMAIN links, a, r)  BY <2>3, <3>1 DEF Became
        <5> QED  BY <3>1, <5>1, NamingShrunk
      <4>2. CASE j = c
        <5> DEFINE N == Naming(folders, j)
                   m == Cardinality(N)
                   l == links[j]
        <5>1. IsFiniteSet(N) /\ <<a, k>> \in N /\ m \in Nat /\ l \in Nat  BY <2>4, <2>5, <3>5, <4>2
        <5>2. m <= l /\ (~failed => m = l)  BY <2>6
        <5>3. Cardinality(Naming(folders', j)) = Cardinality(N \ {<<a, k>>})  BY <4>1
        <5>4. links'[j] = IF l >= 1 THEN l - 1 ELSE l  BY <3>2, <4>2
        <5> HIDE DEF N, l
        <5>5. Cardinality(N \ {<<a, k>>}) = m - 1  BY <5>1, FS_RemoveElement
        <5>6. m # 0  BY <5>1, FS_EmptySet
        <5> HIDE DEF m
        <5>7. l >= 1 /\ m - 1 <= l - 1 /\ (~failed => m - 1 = l - 1)  BY <5>1, <5>2, <5>6
        <5> QED  BY <3>1, <5>3, <5>4, <5>5, <5>7
      <4>3. CASE j # c
        <5>1. Naming(folders, j) \ {<<a, k>>} = Naming(folders, j)  BY <3>6, <4>3
        <5>2. Cardinality(Naming(folders', j)) = Cardinality(Naming(folders, j)) /\ links'[j] = links[j]
          BY <3>7, <4>1, <4>3, <5>1
        <5> QED  BY <2>6, <3>1, <5>2
      <4> QED  BY <4>2, <4>3
    <3> QED  BY <3>7, <3>8 DEF LinksMatch
  <2> QED  BY <2>2, <2>7, <2>8, <2>9 DEF FsCreates, FsUnlinks
<1> QED  BY <1>1, <1>2, PTL DEF Spec

-----------------------------------------------------------------------------
(* Nothing is cut off *)

\* What is mounted is never a folder of the root file system, and never nothing.
LEMMA MountedKinds ==
    ASSUME FsOk, NEW id
    PROVE  /\ \A j \in DOMAIN Mounted(id) : Mounted(id)[j][2].kind # "rootfs"
           /\ tree.mount[id] \in {"dev", "ext2"} => Mounted(id) # <<>>
<1>1. \A j \in DOMAIN Devices : Devices[j][2].kind # "rootfs"
  <2>1. Node("device", 1).kind = "device"  BY DEF Node
  <2> DEFINE d == Node("device", 1)
  <2> HIDE DEF d
  <2>2. \A j \in DOMAIN <<<<"hda", d>>>> : <<<<"hda", d>>>>[j] = <<"hda", d>>  OBVIOUS
  <2>3. d.kind # "rootfs"  BY <2>1 DEF d
  <2>4. Devices = <<<<"hda", d>>>>  BY DEF Devices, d
  <2> QED  BY <2>2, <2>3, <2>4
<1>2. Devices # <<>>  BY DEF Devices
<1>3. \A j \in DOMAIN Listing(2) : Listing(2)[j][2].kind # "rootfs"  BY DEF Listing, Node
<1>4. Listing(2) # <<>>
  <2> DEFINE es == folders[2].entries
  <2>1. es \in Seq(Ent(DOMAIN links)) /\ es # <<>>  BY DEF FsOk, ReadOk
  <2>2. DOMAIN Listing(2) = DOMAIN es  BY DEF Listing
  <2> HIDE DEF es
  <2>3. 1 \in DOMAIN es  BY <2>1
  <2>4. DOMAIN Listing(2) # {}  BY <2>2, <2>3
  <2> QED  BY <2>4
<1>5. CASE tree.mount[id] = "dev"
  <2>1. Mounted(id) = Devices  BY <1>5 DEF Mounted
  <2> QED  BY <1>1, <1>2, <2>1
<1>6. CASE tree.mount[id] = "ext2"
  <2>1. Mounted(id) = Listing(2)  BY <1>6 DEF Mounted
  <2> QED  BY <1>3, <1>4, <2>1
<1>7. CASE tree.mount[id] \notin {"dev", "ext2"}
  <2>1. Mounted(id) = <<>>  BY <1>7 DEF Mounted
  <2> QED  BY <1>7, <2>1
<1> QED  BY <1>5, <1>6, <1>7

\* The children of a folder of the root file system: what is mounted, then its own.
LEMMA RootChildren ==
    ASSUME TreeOk, FsOk, NEW id \in 1 .. MaxNodes
    PROVE  /\ Children(Node("rootfs", id)) = Mounted(id) \o OwnNodes(tree, Own(tree, id, Mounted(id)))
           /\ Mounted(id) \in Seq(Label \X Nodes)
           /\ OwnNodes(tree, Own(tree, id, Mounted(id))) \in Seq(Label \X Nodes)
<1>1. Node("rootfs", id).kind = "rootfs" /\ Node("rootfs", id).id = id  BY DEF Node
<1>2. Children(Node("rootfs", id)) = rootfs_children(tree, id, Mounted(id))  BY <1>1 DEF Children
<1> QED  BY <1>2, OwnOk, MountedOk

\* A folder without children has no folders of its own and carries nothing.
LEMMA EmptyFolder ==
    ASSUME TreeOk, FsOk, NEW k \in 1 .. MaxNodes, Children(Node("rootfs", k)) = <<>>
    PROVE  tree.mount[k] = "no" /\ tree.kids[k] = <<>>
<1> DEFINE m == Mounted(k)
           own == Own(tree, k, m)
           o == OwnNodes(tree, own)
<1>1. m \o o = <<>> /\ m \in Seq(Label \X Nodes) /\ o \in Seq(Label \X Nodes)  BY RootChildren
<1>2. Range(own) = {x \in Range(tree.kids[k]) : find(m, tree.name[x]) = NoNode} /\ own \in Seq(2 .. MaxNodes)  BY OwnOk
<1>3. DOMAIN o = DOMAIN own  BY DEF OwnNodes
<1>4. m # <<>> \/ tree.mount[k] \notin {"dev", "ext2"}  BY MountedKinds
<1>5. tree.mount[k] \in {"no", "dev", "ext2"} /\ tree.kids[k] \in Seq(2 .. MaxNodes)  BY DEF TreeOk
<1> HIDE DEF m, own, o
<1>6. m = <<>> /\ o = <<>>
  <2>1. Len(m \o o) = Len(m) + Len(o) /\ Len(m) \in Nat /\ Len(o) \in Nat  BY <1>1, ConcatProperties
  <2>2. Len(m) + Len(o) = 0  BY <1>1, <2>1
  <2>3. Len(m) = 0 /\ Len(o) = 0  BY <2>1, <2>2
  <2> QED  BY <1>1, <2>3, EmptySeq
<1>7. Range(own) = {}  BY <1>3, <1>6 DEF Range
<1>8. \A x : find(m, x) = NoNode
  <2>1. DOMAIN m = {}  BY <1>6
  <2> QED  BY <2>1 DEF find
<1>9. Range(tree.kids[k]) = {}  BY <1>2, <1>7, <1>8
<1> DEFINE ks == tree.kids[k]
<1>10. ks = <<>>
  <2>1. ks \in Seq(2 .. MaxNodes) /\ Range(ks) = {}  BY <1>5, <1>9
  <2> HIDE DEF ks
  <2>2. Len(ks) \in Nat /\ {ks[j] : j \in 1 .. Len(ks)} = {}
    <3> DEFINE T == 2 .. MaxNodes
    <3>0. ks \in Seq(T)  BY <2>1
    <3> HIDE DEF T
    <3>1. Range(ks) = {ks[j] : j \in 1 .. Len(ks)}  BY <3>0, RangeIs
    <3> QED  BY <2>1, <3>1
  <2>4. ~(1 \in 1 .. Len(ks))  BY <2>2
  <2>3. Len(ks) = 0  BY <2>2, <2>4
  <2> QED  BY <2>1, <2>3, EmptySeq
<1> QED  BY <1>4, <1>5, <1>6, <1>10

\* A folder that carries a file system or folders can be reached.
Attached == \A id \in 1 .. MaxNodes : tree.mount[id] # "no" \/ tree.kids[id] # <<>> => id \in ReachedBy(tree.kids)

\* The root and "dev" are all there is at first.
LEMMA AttachedInit ==
    ASSUME Init
    PROVE  Attached
<1>0. MaxNodes \in Nat \ {0, 1}  BY ShellAssumption
<1>1. /\ tree.kids = [id \in 1 .. MaxNodes |-> IF id = 1 THEN <<2>> ELSE <<>>]
      /\ tree.mount = [id \in 1 .. MaxNodes |-> IF id = 2 THEN "dev" ELSE "no"]
  <2> DEFINE k == [id \in 1 .. MaxNodes |-> IF id = 1 THEN <<2>> ELSE <<>>]
             n == [id \in 1 .. MaxNodes |-> IF id = 2 THEN "dev" ELSE Blank]
             m == [id \in 1 .. MaxNodes |-> IF id = 2 THEN "dev" ELSE "no"]
  <2>1. tree = [kids |-> k, name |-> n, mount |-> m]  BY Zenon DEF Init, Blank
  <2> HIDE DEF k, n, m
  <2>2. tree.kids = k /\ tree.mount = m  BY <2>1
  <2> QED  BY <2>2 DEF k, m
<1>2. 1 \in 1 .. MaxNodes /\ 2 \in 1 .. MaxNodes /\ 2 \in 2 .. MaxNodes  BY <1>0
<1>3. 1 \in ReachedBy(tree.kids)  BY <1>2 DEF ReachedBy, Closed
<1>4. tree.kids \in [1 .. MaxNodes -> Seq(2 .. MaxNodes)]
  <2>1. <<2>> \in Seq(2 .. MaxNodes) /\ <<>> \in Seq(2 .. MaxNodes)  BY <1>2
  <2> QED  BY <1>1, <2>1
<1>5. 2 \in Range(tree.kids[1])
  <2>1. tree.kids[1] = <<2>>  BY <1>1, <1>2
  <2>2. 1 \in DOMAIN <<2>> /\ <<2>>[1] = 2  OBVIOUS
  <2> QED  BY <2>1, <2>2 DEF Range
<1>6. 2 \in ReachedBy(tree.kids)  BY <1>3, <1>4, <1>5, ReachedKids
<1>7. \A id \in 1 .. MaxNodes : id # 1 /\ id # 2 => tree.mount[id] = "no" /\ tree.kids[id] = <<>>  BY <1>1
<1> QED  BY <1>3, <1>6, <1>7 DEF Attached

\* Folders stay attached: a new one is below one that can be reached, one that goes
\* is empty, and a file system is mounted where a path leads.
LEMMA AttachedStep ==
    ASSUME TreeOk, FsOk, Attached, tree' = tree \/ TreeGrows \/ TreeShrinks \/ TreeMounts
    PROVE  Attached'
<1>0. tree.kids \in [1 .. MaxNodes -> Seq(2 .. MaxNodes)] /\ tree.mount \in [1 .. MaxNodes -> {"no", "dev", "ext2"}]
  BY DEF TreeOk
<1> DEFINE kids == tree.kids
           mount == tree.mount
           R == ReachedBy(kids)
<1>a. \A id \in 1 .. MaxNodes : mount[id] # "no" \/ kids[id] # <<>> => id \in R  BY DEF Attached
<1>b. kids \in [1 .. MaxNodes -> Seq(2 .. MaxNodes)] /\ mount \in [1 .. MaxNodes -> {"no", "dev", "ext2"}]  BY <1>0
<1>c. MaxNodes \in Nat  BY ShellAssumption
<1>1. CASE tree' = tree  BY <1>1 DEF Attached
<1>2. ASSUME NEW at \in ReachedBy(tree.kids), NEW id \in 2 .. MaxNodes, NEW name \in Label,
             tree' = [kids |-> [tree.kids EXCEPT ![at] = Append(@, id)], name |-> [tree.name EXCEPT ![id] = name],
                      mount |-> tree.mount]
      PROVE  Attached'
  <2> DEFINE kids2 == [kids EXCEPT ![at] = Append(kids[at], id)]
  <2>1. tree'.kids = kids2 /\ tree'.mount = mount /\ at \in R  BY <1>2
  <2>2. R \subseteq 1 .. MaxNodes  BY DEF ReachedBy
  <2> HIDE DEF kids, mount, R
  <2>3. at \in 1 .. MaxNodes  BY <2>1, <2>2
  <2>4. \A j \in 1 .. MaxNodes : kids2[j] = IF j = at THEN Append(kids[at], id) ELSE kids[j]  BY <1>b, <2>3
  <2> HIDE DEF kids2
  <2>5. ASSUME NEW j \in 1 .. MaxNodes  PROVE Range(kids[j]) \subseteq Range(kids2[j])
    <3>1. CASE j = at
      <4> DEFINE T == 2 .. MaxNodes
      <4>1. kids[at] \in Seq(T) /\ id \in T  BY <1>b, <2>3
      <4> HIDE DEF T
      <4>2. Range(Append(kids[at], id)) = Range(kids[at]) \cup {id}  BY <4>1, AppendRange
      <4>3. Range(kids2[j]) = Range(kids[j]) \cup {id}  BY <2>3, <2>4, <3>1, <4>2
      <4> QED  BY <4>3
    <3>2. CASE j # at
      <4>1. kids2[j] = kids[j]  BY <2>4, <3>2
      <4> QED  BY <4>1
    <3> QED  BY <3>1, <3>2
  <2>6. R \subseteq ReachedBy(kids2)  BY <2>5, ReachedGrows DEF R
  <2>7. \A j \in 1 .. MaxNodes : mount[j] # "no" \/ kids2[j] # <<>> => j \in ReachedBy(kids2)
    BY <1>a, <2>1, <2>4, <2>6
  <2> QED  BY <2>1, <2>7 DEF Attached
<1>3. ASSUME NEW at \in 1 .. MaxNodes, NEW k \in 2 .. MaxNodes,
             k \in Range(tree.kids[at]), Children(Node("rootfs", k)) = <<>>,
             tree' = [kids |-> [tree.kids EXCEPT ![at] = filter(@, Range(@) \ {k})], name |-> tree.name,
                      mount |-> tree.mount]
      PROVE  Attached'
  <2> DEFINE kids2 == [kids EXCEPT ![at] = filter(kids[at], Range(kids[at]) \ {k})]
  <2>0. k \in 1 .. MaxNodes  BY <1>c
  <2>1. tree'.kids = kids2 /\ tree'.mount = mount /\ k \in Range(kids[at])  BY <1>3
  <2>2. mount[k] = "no" /\ kids[k] = <<>>  BY <1>3, <2>0, EmptyFolder
  <2> HIDE DEF kids, mount, R
  <2>3. kids[at] \in Seq(2 .. MaxNodes)  BY <1>b
  <2>4. Range(filter(kids[at], Range(kids[at]) \ {k})) = Range(kids[at]) \cap (Range(kids[at]) \ {k})
    BY <2>3, FilterIs
  <2>5. \A j \in 1 .. MaxNodes : kids2[j] = IF j = at THEN filter(kids[at], Range(kids[at]) \ {k}) ELSE kids[j]  BY <1>b
  <2> HIDE DEF kids2
  <2>6. Range(kids[k]) = {}  BY <2>2 DEF Range
  <2>7. k # at /\ kids[at] # <<>>  BY <2>1, <2>6, <2>2
  <2>8. ASSUME NEW j \in 1 .. MaxNodes  PROVE Range(kids[j]) \subseteq Range(kids2[j]) \cup {k}
    <3>1. CASE j = at
      <4>1. Range(kids2[j]) = Range(kids[j]) \cap (Range(kids[j]) \ {k})  BY <2>4, <2>5, <3>1
      <4> QED  BY <4>1
    <3>2. CASE j # at
      <4>1. kids2[j] = kids[j]  BY <2>5, <3>2
      <4> QED  BY <4>1
    <3> QED  BY <3>1, <3>2
  <2>9. R \subseteq ReachedBy(kids2) \cup {k}  BY <2>0, <2>6, <2>8, ReachedShrinks DEF R
  <2>10. \A j \in 1 .. MaxNodes : mount[j] # "no" \/ kids2[j] # <<>> => j \in ReachedBy(kids2)
    <3> SUFFICES ASSUME NEW j \in 1 .. MaxNodes, mount[j] # "no" \/ kids2[j] # <<>>  PROVE j \in ReachedBy(kids2)
      OBVIOUS
    <3>1. j # k  BY <2>0, <2>2, <2>5, <2>7
    <3>2. mount[j] # "no" \/ kids[j] # <<>>  BY <2>5, <2>7
    <3>3. j \in R  BY <1>a, <3>2
    <3> QED  BY <2>9, <3>1, <3>3
  <2> QED  BY <2>1, <2>10 DEF Attached
<1>4. ASSUME NEW at \in ReachedBy(tree.kids), NEW m \in {"no", "ext2"},
             tree' = [kids |-> tree.kids, name |-> tree.name, mount |-> [tree.mount EXCEPT ![at] = m]]
      PROVE  Attached'
  <2> DEFINE mount2 == [mount EXCEPT ![at] = m]
  <2>1. tree'.kids = kids /\ tree'.mount = mount2 /\ at \in R  BY <1>4
  <2> HIDE DEF kids, mount, R
  <2>2. \A j \in 1 .. MaxNodes : j # at => mount2[j] = mount[j]  BY <1>b
  <2> HIDE DEF mount2
  <2>3. \A j \in 1 .. MaxNodes : mount2[j] # "no" \/ kids[j] # <<>> => j \in R  BY <1>a, <2>1, <2>2
  <2> QED  BY <2>1, <2>3 DEF Attached, R
<1> QED  BY <1>1, <1>2, <1>3, <1>4 DEF TreeGrows, TreeShrinks, TreeMounts

\* A name among what is mounted is found there.
LEMMA FindFinds ==
    ASSUME NEW c \in Seq(Label \X Nodes), NEW j \in DOMAIN c
    PROVE  find(c, c[j][1]) # NoNode
<1> DEFINE name == c[j][1]
           found == {i \in DOMAIN c : c[i][1] = name}
<1>1. find(c, name) = IF found = {} THEN NoNode ELSE c[Min(found)][2]  BY DEF find
<1>2. found # {} /\ found \in SUBSET Nat  OBVIOUS
<1>3. Min(found) \in found  BY <1>2, MinOfIndices
<1>4. Min(found) \in DOMAIN c  BY <1>3
<1>5. c[Min(found)] \in Label \X Nodes  BY <1>4
<1>6. c[Min(found)][2] \in Nodes  BY <1>5
<1>7. NoNode \notin Nodes  BY DEF NoNode, Nodes
<1> QED  BY <1>1, <1>2, <1>6, <1>7

\* A folder of the root file system is listed only if nothing mounted has its name.
LEMMA NoneHidden ==
    ASSUME TreeOk, FsOk
    PROVE  OneNodePerName
<1> SUFFICES ASSUME NEW id \in Reachable,
                    NEW i \in DOMAIN Children(Node("rootfs", id)), NEW j \in DOMAIN Children(Node("rootfs", id)),
                    Children(Node("rootfs", id))[i][2].kind = "rootfs",
                    Children(Node("rootfs", id))[j][1] = Children(Node("rootfs", id))[i][1]
             PROVE  Children(Node("rootfs", id))[j][2].kind = "rootfs"
  BY DEF OneNodePerName
<1> DEFINE m == Mounted(id)
           own == Own(tree, id, m)
           o == OwnNodes(tree, own)
           c == Children(Node("rootfs", id))
<1>0. id \in 1 .. MaxNodes  BY DEF Reachable
<1>1. c = m \o o /\ m \in Seq(Label \X Nodes) /\ o \in Seq(Label \X Nodes)  BY <1>0, RootChildren
<1>2. Range(own) = {x \in Range(tree.kids[id]) : find(m, tree.name[x]) = NoNode} /\ own \in Seq(2 .. MaxNodes)
  BY <1>0, OwnOk
<1>3. \A h \in DOMAIN m : m[h][2].kind # "rootfs"  BY MountedKinds
<1>4. DOMAIN o = DOMAIN own /\ \A h \in DOMAIN own : o[h] = <<tree.name[own[h]], Node("rootfs", own[h])>>  BY DEF OwnNodes
<1>5. i \in DOMAIN c /\ j \in DOMAIN c /\ c[i][2].kind = "rootfs" /\ c[j][1] = c[i][1]  OBVIOUS
<1> SUFFICES c[j][2].kind = "rootfs"  OBVIOUS
<1> HIDE DEF c, m, own, o
<1>6. /\ c \in Seq(Label \X Nodes) /\ Len(c) = Len(m) + Len(o) /\ Len(m) \in Nat /\ Len(o) \in Nat
      /\ \A h \in 1 .. Len(m) + Len(o) : c[h] = IF h <= Len(m) THEN m[h] ELSE o[h - Len(m)]
  BY <1>1, ConcatProperties
<1>7. DOMAIN c = 1 .. Len(c) /\ DOMAIN m = 1 .. Len(m) /\ DOMAIN o = 1 .. Len(o)  BY <1>1, <1>6
<1>8. ASSUME NEW h \in DOMAIN c
      PROVE  (h \in DOMAIN m /\ c[h] = m[h]) \/ (\E q \in DOMAIN o : c[h] = o[q])
  <2>1. h \in 1 .. Len(m) + Len(o)  BY <1>6, <1>7
  <2>2. CASE h <= Len(m)
    <3>1. h \in 1 .. Len(m)  BY <1>6, <2>1, <2>2
    <3> QED  BY <1>6, <1>7, <2>1, <2>2, <3>1
  <2>3. CASE ~(h <= Len(m))
    <3>1. h - Len(m) \in 1 .. Len(o)  BY <1>6, <2>1, <2>3
    <3>2. c[h] = o[h - Len(m)]  BY <1>6, <2>1, <2>3
    <3> QED  BY <1>7, <3>1, <3>2
  <2> QED  BY <2>2, <2>3
<1>9. ASSUME NEW q \in DOMAIN o  PROVE o[q][2].kind = "rootfs" /\ find(m, o[q][1]) = NoNode
  <2>1. own[q] \in Range(own)  BY <1>4 DEF Range
  <2>2. find(m, tree.name[own[q]]) = NoNode  BY <1>2, <2>1
  <2>3. o[q] = <<tree.name[own[q]], Node("rootfs", own[q])>>  BY <1>4
  <2>4. Node("rootfs", own[q]).kind = "rootfs"  BY DEF Node
  <2> QED  BY <2>2, <2>3, <2>4
<1>10. CASE \E q \in DOMAIN o : c[j] = o[q]  BY <1>9, <1>10
<1>11. CASE j \in DOMAIN m /\ c[j] = m[j]
  <2>1. PICK q \in DOMAIN o : c[i] = o[q]  BY <1>3, <1>5, <1>8
  <2>2. find(m, m[j][1]) = NoNode  BY <1>5, <1>9, <1>11, <2>1
  <2>3. find(m, m[j][1]) # NoNode  BY <1>1, <1>11, FindFinds
  <2> QED  BY <2>2, <2>3
<1> QED  BY <1>5, <1>8, <1>10, <1>11

\* A folder of the root file system that carries a file system or folders of its own
\* is never cut off from the root, also when several have the same name, and none
\* that get_children lists is behind a mounted node of its name.
THEOREM ShellNothingCutOff == Spec => []NothingCutOff
<1>1. Init => ShellInv /\ Attached  BY ShellInit, AttachedInit
<1>2. ShellInv /\ Attached /\ [Next]_vars => ShellInv' /\ Attached'
  <2> SUFFICES ASSUME ShellInv, Attached, [Next]_vars  PROVE Attached'  BY ShellStep
  <2>1. CurOk /\ TreeOk /\ FsOk  BY DEF ShellInv
  <2>2. tree' = tree \/ TreeGrows \/ TreeShrinks \/ TreeMounts  BY <2>1, TreeStep
  <2> QED  BY <2>1, <2>2, AttachedStep
<1>3. ShellInv /\ Attached => NothingCutOff
  <2> SUFFICES ASSUME ShellInv, Attached  PROVE NothingCutOff  OBVIOUS
  <2>1. OneNodePerName  BY NoneHidden DEF ShellInv
  <2>2. \A id \in 1 .. MaxNodes : tree.mount[id] # "no" \/ tree.kids[id] # <<>> => id \in Reachable
    BY ReachableIs DEF Attached
  <2> QED  BY <2>1, <2>2 DEF NothingCutOff
<1> QED  BY <1>1, <1>2, <1>3, PTL DEF Spec
=============================================================================
