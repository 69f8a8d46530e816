--------------------------- MODULE FatAlloc_proofs ---------------------------
(***************************************************************************)
(* Theorems about cluster allocation: clusters are never shared or lost,   *)
(* chains have the length of their file, the free count is right, and the  *)
(* volume is full only when it is full, for every number of clusters and   *)
(* names and every stretch of the directory.                               *)
(*                                                                         *)
(* Follow, Append and with them Chain are recursive functions of the FAT.  *)
(* The proofs replace them by paths: p lists the clusters of a chain in    *)
(* order.  A path is a fact about finitely many FAT entries, so what an    *)
(* operation does to the entries says what it does to the chains.          *)
(***************************************************************************)
EXTENDS FatAlloc, TLAPS, FiniteSetTheorems

\* The values a FAT in memory can take (put_fat, get_fat).
FatT == [Clusters -> {0} \cup Clusters \cup {EOC}]

\* p lists the n clusters of the chain that begins at s, each of them once.
IsChain(fat, s, p, n) ==
  /\ n \in Nat \ {0}
  /\ p \in [0 .. n - 1 -> Clusters]
  /\ p[0] = s
  /\ \A i, j \in 0 .. n - 1 : p[i] = p[j] => i = j
  /\ \A i \in 1 .. n - 1 : fat[p[i - 1]] = p[i]
  /\ fat[p[n - 1]] = EOC

\* The chain that begins at s has n clusters.
Long(fat, s, n) == \E p \in [0 .. n - 1 -> Clusters] : IsChain(fat, s, p, n)

\* The chain that begins at s ends.
HasChain(fat, s) == \E n \in 1 .. N : Long(fat, s, n)

\* Chains that begin at the clusters of S neither meet nor run into a free
\* cluster, and each of them ends.
Good(fat, S) ==
  /\ fat \in FatT
  /\ S \subseteq Clusters
  /\ \A c, d \in Clusters : fat[c] = fat[d] /\ c # d => fat[c] \in {0, EOC}
  /\ \A c \in Clusters : fat[c] \in Clusters => fat[c] \notin S /\ fat[fat[c]] # 0
  /\ \A s \in S : HasChain(fat, s)

\* Every cluster in use lies on a chain that begins in S.
Owned(fat, S) == \A c \in Clusters : fat[c] # 0 => \E s \in S : c \in Chain(fat, s)

\* Where the chains of a directory at root and of its entries o begin.
Firsts(o, root) == ({root} \cup {o[x].first : x \in Names}) \ {0}

\* The entries o of a directory at root fit the FAT.
Entries(fat, o, root) ==
  /\ o \in [Names -> Object]
  /\ \A x, y \in Names : o[x].first = o[y].first /\ x # y => o[x].first = 0
  /\ \A x \in Names : o[x].first # 0 => o[x].first # root
  /\ \A x \in Names : o[x].kind = "none" => o[x] = NoObject
  /\ \A x \in Names : o[x].first = 0 => o[x].len = 0
  /\ \A x \in Names : o[x].first # 0 => Long(fat, o[x].first, o[x].len)

\* What memory and device know of the number of free clusters.
Counts ==
  /\ vol.free <= N => vol.free >= Cardinality(FreeOf(vol.fat))
  /\ ~drifted /\ vol.free <= N => vol.free = Cardinality(FreeOf(vol.fat))
  /\ fat32 /\ ~vol.dirty => info.free = vol.free
  /\ fat32 /\ info.free <= N => info.free >= Cardinality(FreeOf(vol.fat))

\* The FAT on the device is the one in memory, but for one cluster that a mkdir
\* gave back in memory only.
OnDisk ==
  /\ fat32 /\ ~vol.dirty => diskfat = vol.fat
  /\ \/ diskfat = vol.fat
     \/ \E c \in Clusters : vol.fat[c] = 0 /\ diskfat = [vol.fat EXCEPT ![c] = EOC]

\* What Synced and Unsynced write.
Device ==
  /\ vol \in Volume
  /\ info \in [free : (0 .. N) \cup {Unknown}, last : 0 .. Unknown]
  /\ Counts
  /\ OnDisk

\* The inductive invariant.
IInv ==
  /\ fat32 \in BOOLEAN /\ drifted \in BOOLEAN /\ unlost \in BOOLEAN
  /\ reply \in [wanted : Nat, full : BOOLEAN]
  /\ Device
  /\ Good(vol.fat, Firsts(objs, Root))
  /\ Entries(vol.fat, objs, Root)
  /\ unlost => Owned(vol.fat, Firsts(objs, Root))
-----------------------------------------------------------------------------
(* Numbers and cardinalities.                                              *)

\* Clusters are finitely many, and none is 0 or an end mark.
LEMMA ClusterFacts ==
  /\ IsFiniteSet(Clusters)
  /\ Cardinality(Clusters) = N
  /\ Clusters \subseteq Nat
  /\ 0 \notin Clusters /\ EOC \notin Clusters
  /\ EOC # 0
<1>1. 2 \in Int /\ N + 1 \in Int /\ N \in Nat /\ N > 0
  BY AllocAssumption
<1>2. IsFiniteSet(2 .. N + 1) /\ Cardinality(2 .. N + 1) = IF 2 > N + 1 THEN 0 ELSE (N + 1) - 2 + 1
  BY <1>1, FS_Interval
<1>3. QED
  BY <1>1, <1>2 DEF Clusters, EOC

\* Every non-empty set of numbers has a least one.
LEMMA LeastNat ==
  ASSUME NEW T \in SUBSET Nat, T # {}
  PROVE  \E m \in T : \A k \in T : m <= k
<1> DEFINE R == OpToRel(<, Nat)
<1>1. IsWellFoundedOn(R, Nat)
  BY NatLessThanWellFounded
<1>2. \A i, k \in Nat : i < k => <<i, k>> \in R
  BY DEF OpToRel
<1> HIDE DEF R
<1>3. PICK m \in T : \A k \in T : ~ (<<k, m>> \in R)
  BY <1>1, WFMin
<1>4. ASSUME NEW k \in T PROVE m <= k
  <2>1. k \in Nat /\ m \in Nat
    OBVIOUS
  <2>2. ~(k < m)
    BY <1>2, <1>3, <2>1
  <2>3. QED
    BY <2>1, <2>2
<1>5. QED
  BY <1>4

\* Induction over the members of a set.
LEMMA Induction ==
  ASSUME NEW S \in SUBSET Nat, 0 \in S, \A n \in S : n + 1 \in S
  PROVE  S = Nat
<1>1. SUFFICES ASSUME Nat \ S # {} PROVE FALSE
  OBVIOUS
<1>2. PICK m \in Nat \ S : \A k \in Nat \ S : m <= k
  BY <1>1, LeastNat
<1>3. m # 0 /\ m - 1 \in Nat /\ ~(m <= m - 1) /\ (m - 1) + 1 = m
  BY <1>2
<1>4. QED
  BY <1>2, <1>3

\* The same up to a bound.
LEMMA InductionTo ==
  ASSUME NEW k \in Nat, NEW S, 0 \in S, \A n \in 0 .. k - 1 : n \in S => n + 1 \in S
  PROVE  \A n \in 0 .. k : n \in S
<1> DEFINE T == {n \in Nat : n <= k => n \in S}
<1>1. 0 \in T
  OBVIOUS
<1>2. ASSUME NEW n \in T PROVE n + 1 \in T
  <2>1. CASE n + 1 <= k
    <3>1. n \in 0 .. k - 1 /\ n \in S
      BY <2>1
    <3>2. QED
      BY <3>1
  <2>2. CASE ~(n + 1 <= k)
    BY <2>2
  <2>3. QED
    BY <2>1, <2>2
<1>3. T = Nat
  <2>1. T \in SUBSET Nat
    OBVIOUS
  <2> HIDE DEF T
  <2>2. QED
    BY <1>1, <1>2, <2>1, Induction
<1>4. QED
  BY <1>3

\* A function that is one to one with every value is a bijection.
LEMMA BijectionIs ==
  ASSUME NEW A, NEW R, NEW p \in [A -> R],
         \A i, j \in A : p[i] = p[j] => i = j,
         \A r \in R : \E i \in A : p[i] = r
  PROVE  p \in Bijection(A, R)
BY DEF Bijection, Injection, Surjection, IsInjective

\* The free clusters of a FAT are finitely many, at most all of them.
LEMMA FreeFacts ==
  ASSUME NEW fat
  PROVE  /\ FreeOf(fat) \subseteq Clusters
         /\ IsFiniteSet(FreeOf(fat))
         /\ Cardinality(FreeOf(fat)) \in 0 .. N
<1>1. FreeOf(fat) \subseteq Clusters
  BY DEF FreeOf
<1>2. /\ IsFiniteSet(FreeOf(fat))
      /\ Cardinality(FreeOf(fat)) <= Cardinality(Clusters)
  BY <1>1, ClusterFacts, FS_Subset
<1>3. Cardinality(FreeOf(fat)) \in Nat
  BY <1>2, FS_CardinalityType
<1>4. QED
  BY <1>1, <1>2, <1>3, ClusterFacts, AllocAssumption
-----------------------------------------------------------------------------
(* Chains are paths.                                                       *)

\* Follow is the function its definition recurs on.
LEMMA FollowDef ==
  ASSUME NEW fat, NEW c
  PROVE  /\ Follow(fat, c)[0] = c
         /\ \A i \in 1 .. N :
              Follow(fat, c)[i] = IF Follow(fat, c)[i - 1] \in Clusters
                                    THEN fat[Follow(fat, c)[i - 1]] ELSE Follow(fat, c)[i - 1]
<1> DEFINE G(g, n) ==
      g = [i \in 0 .. n |-> IF i = 0 THEN c
                            ELSE IF g[i - 1] \in Clusters THEN fat[g[i - 1]] ELSE g[i - 1]]
<1> DEFINE S == {n \in Nat : \E g : G(g, n)}
<1>1. 0 \in S
  <2> DEFINE g0 == [i \in 0 .. 0 |-> c]
  <2>1. G(g0, 0)
    OBVIOUS
  <2>2. QED
    BY <2>1
<1>2. ASSUME NEW n \in S PROVE n + 1 \in S
  <2>1. PICK g : G(g, n)
    OBVIOUS
  <2>2. n \in Nat
    OBVIOUS
  <2> DEFINE h == [i \in 0 .. n + 1 |->
                     IF i = n + 1 THEN IF g[n] \in Clusters THEN fat[g[n]] ELSE g[n] ELSE g[i]]
  <2>3. \A i \in 0 .. n : h[i] = IF i = 0 THEN c
                                 ELSE IF h[i - 1] \in Clusters THEN fat[h[i - 1]] ELSE h[i - 1]
    <3>1. \A i \in 0 .. n : h[i] = g[i]
      BY <2>2
    <3>2. \A i \in 0 .. n : i # 0 => i - 1 \in 0 .. n
      BY <2>2
    <3>3. \A i \in 0 .. n : g[i] = IF i = 0 THEN c
                                    ELSE IF g[i - 1] \in Clusters THEN fat[g[i - 1]] ELSE g[i - 1]
      BY <2>1
    <3> HIDE DEF h, G, S
    <3>4. QED
      BY <3>1, <3>2, <3>3
  <2>4. h[n + 1] = IF h[n] \in Clusters THEN fat[h[n]] ELSE h[n]
    BY <2>2
  <2>5. G(h, n + 1)
    <3>1. \A i \in 0 .. n + 1 : h[i] = IF i = 0 THEN c
                                 ELSE IF h[i - 1] \in Clusters THEN fat[h[i - 1]] ELSE h[i - 1]
      <4>1. \A i \in 0 .. n + 1 : i \in 0 .. n \/ (i = n + 1 /\ i # 0 /\ i - 1 = n)
        BY <2>2
      <4> HIDE DEF h
      <4>2. QED
        BY <2>3, <2>4, <4>1
    <3>2. h = [i \in 0 .. n + 1 |-> h[i]]
      OBVIOUS
    <3> HIDE DEF h
    <3>3. QED
      BY <3>1, <3>2
  <2>6. n + 1 \in Nat
    BY <2>2
  <2> HIDE DEF h, G
  <2>7. QED
    BY <2>5, <2>6
<1>3. S = Nat
  <2> HIDE DEF S
  <2> QED
    BY <1>1, <1>2, Induction DEF S
<1>4. \E g : G(g, N)
  BY <1>3, AllocAssumption
<1>5. G(Follow(fat, c), N)
  BY <1>4 DEF Follow
<1> HIDE DEF S
<1>6. QED
  BY <1>5, AllocAssumption

\* A path has at most as many clusters as the volume.
LEMMA ChainBound ==
  ASSUME NEW fat, NEW s, NEW p, NEW n, IsChain(fat, s, p, n)
  PROVE  n \in 1 .. N /\ s \in Clusters
<1>1. n \in Nat \ {0} /\ p \in [0 .. n - 1 -> Clusters] /\ p[0] = s
  BY DEF IsChain
<1>2. \A i, j \in 0 .. n - 1 : p[i] = p[j] => i = j
  BY DEF IsChain
<1>3. IsFiniteSet(0 .. n - 1) /\ Cardinality(0 .. n - 1) = n
  <2>1. 0 \in Int /\ n - 1 \in Int
    BY <1>1
  <2>2. QED
    BY <1>1, <2>1, FS_Interval
<1>4. p \in Injection(0 .. n - 1, Clusters)
  BY <1>1, <1>2 DEF Injection, IsInjective
<1>5. Cardinality(0 .. n - 1) <= Cardinality(Clusters)
  BY <1>3, <1>4, ClusterFacts, FS_Injection
<1>6. 0 \in 0 .. n - 1
  BY <1>1
<1>7. QED
  BY <1>1, <1>3, <1>5, <1>6, ClusterFacts, AllocAssumption

\* What get_fat meets when it follows a chain: the path, then the end mark.
LEMMA ChainIs ==
  ASSUME NEW fat, NEW s, NEW p, NEW n, IsChain(fat, s, p, n)
  PROVE  /\ \A i \in 0 .. n - 1 : Follow(fat, s)[i] = p[i]
         /\ \A i \in n .. N : Follow(fat, s)[i] = EOC
         /\ Chain(fat, s) = {p[i] : i \in 0 .. n - 1}
         /\ IsFiniteSet(Chain(fat, s)) /\ Cardinality(Chain(fat, s)) = n
         /\ Tail(fat, s) = p[n - 1]
         /\ \A c \in Chain(fat, s) : fat[c] # 0
<1> DEFINE F == Follow(fat, s)
<1>1. n \in 1 .. N /\ s \in Clusters /\ N \in Nat
  BY ChainBound, AllocAssumption
<1>2. p \in [0 .. n - 1 -> Clusters] /\ p[0] = s /\ fat[p[n - 1]] = EOC
  BY DEF IsChain
<1>3. \A i \in 1 .. n - 1 : fat[p[i - 1]] = p[i]
  BY DEF IsChain
<1>4. \A i, j \in 0 .. n - 1 : p[i] = p[j] => i = j
  BY DEF IsChain
<1>5. F[0] = s /\ \A i \in 1 .. N : F[i] = IF F[i - 1] \in Clusters THEN fat[F[i - 1]] ELSE F[i - 1]
  BY FollowDef
<1> HIDE DEF F
<1>6. \A i \in 0 .. n - 1 : F[i] = p[i]
  <2> DEFINE S == {i \in 0 .. n - 1 : F[i] = p[i]}
  <2>1. 0 \in S
    BY <1>1, <1>2, <1>5
  <2>2. ASSUME NEW i \in 0 .. (n - 1) - 1, i \in S PROVE i + 1 \in S
    <3>1. i \in 0 .. n - 1 /\ i + 1 \in 1 .. n - 1 /\ i + 1 \in 1 .. N /\ (i + 1) - 1 = i
      BY <1>1
    <3>2. F[i] = p[i] /\ p[i] \in Clusters
      BY <1>2, <2>2, <3>1
    <3>3. F[i + 1] = fat[F[i]]
      BY <1>5, <3>1, <3>2
    <3>4. fat[p[i]] = p[i + 1]
      BY <1>3, <3>1
    <3>5. QED
      BY <3>1, <3>2, <3>3, <3>4
  <2>3. n - 1 \in Nat
    BY <1>1
  <2> HIDE DEF S
  <2>4. \A i \in 0 .. n - 1 : i \in S
    BY <2>1, <2>2, <2>3, InductionTo
  <2>5. QED
    BY <2>4 DEF S
<1>7. \A i \in n .. N : F[i] = EOC
  <2> DEFINE S == {j \in 0 .. N - n : F[n + j] = EOC}
  <2>1. 0 \in S
    <3>1. n - 1 \in 0 .. n - 1 /\ n \in 1 .. N /\ n + 0 = n /\ 0 \in 0 .. N - n
      BY <1>1
    <3>2. F[n - 1] \in Clusters /\ fat[F[n - 1]] = EOC
      BY <1>2, <1>6, <3>1
    <3>3. QED
      BY <1>5, <3>1, <3>2
  <2>2. ASSUME NEW j \in 0 .. (N - n) - 1, j \in S PROVE j + 1 \in S
    <3>1. n + (j + 1) \in 1 .. N /\ (n + (j + 1)) - 1 = n + j /\ j + 1 \in 0 .. N - n
      BY <1>1
    <3>2. F[n + j] = EOC
      BY <2>2
    <3>3. F[n + (j + 1)] = EOC
      BY <1>5, <3>1, <3>2, ClusterFacts
    <3>4. QED
      BY <3>1, <3>3
  <2>3. N - n \in Nat
    BY <1>1
  <2> HIDE DEF S
  <2>4. \A j \in 0 .. N - n : j \in S
    BY <2>1, <2>2, <2>3, InductionTo
  <2>5. ASSUME NEW i \in n .. N PROVE F[i] = EOC
    <3>1. i - n \in 0 .. N - n /\ n + (i - n) = i
      BY <1>1
    <3>2. QED
      BY <2>4, <3>1 DEF S
  <2>6. QED
    BY <2>5
<1>8. Chain(fat, s) = {p[i] : i \in 0 .. n - 1}
  <2>1. ASSUME NEW i \in 0 .. N, F[i] \in Clusters PROVE F[i] \in {p[j] : j \in 0 .. n - 1}
    <3>1. i \in 0 .. n - 1
      BY <1>1, <1>7, <2>1, ClusterFacts
    <3>2. QED
      BY <1>6, <3>1
  <2>2. ASSUME NEW i \in 0 .. n - 1 PROVE p[i] \in Clusters /\ i \in 0 .. N /\ F[i] = p[i]
    BY <1>1, <1>2, <1>6
  <2>3. Chain(fat, s) = {F[i] : i \in 0 .. N} \cap Clusters
    BY DEF Chain, F
  <2>4. QED
    BY <2>1, <2>2, <2>3
<1>9. IsFiniteSet(Chain(fat, s)) /\ Cardinality(Chain(fat, s)) = n
  <2>1. IsFiniteSet(0 .. n - 1) /\ Cardinality(0 .. n - 1) = n
    <3>1. 0 \in Int /\ n - 1 \in Int /\ n \in Nat
      BY <1>1
    <3>2. QED
      BY <1>1, <3>1, FS_Interval
  <2>2. /\ p \in [0 .. n - 1 -> Chain(fat, s)]
        /\ \A c \in Chain(fat, s) : \E i \in 0 .. n - 1 : p[i] = c
    BY <1>2, <1>8
  <2>3. ExistsBijection(0 .. n - 1, Chain(fat, s))
    BY <1>4, <2>2, BijectionIs DEF ExistsBijection
  <2>4. QED
    BY <2>1, <2>3, FS_Bijection
<1>10. \A c \in Chain(fat, s) : fat[c] # 0 /\ (fat[c] = EOC => c = p[n - 1])
  <2>1. ASSUME NEW i \in 0 .. n - 1 PROVE fat[p[i]] # 0 /\ (fat[p[i]] = EOC => i = n - 1)
    <3>1. CASE i = n - 1
      BY <1>2, <3>1, ClusterFacts
    <3>2. CASE i # n - 1
      <4>1. i + 1 \in 1 .. n - 1 /\ i + 1 \in 0 .. n - 1 /\ (i + 1) - 1 = i
        BY <1>1, <3>2
      <4>2. fat[p[i]] = p[i + 1] /\ p[i + 1] \in Clusters
        BY <1>2, <1>3, <4>1
      <4>3. QED
        BY <4>2, ClusterFacts
    <3>3. QED
      BY <3>1, <3>2
  <2>2. QED
    BY <1>8, <2>1
<1>11. Tail(fat, s) = p[n - 1]
  <2>1. n - 1 \in 0 .. n - 1
    BY <1>1
  <2>2. p[n - 1] \in Chain(fat, s) /\ fat[p[n - 1]] = EOC
    BY <1>2, <1>8, <2>1
  <2>3. s # 0
    BY <1>1, ClusterFacts
  <2>4. Tail(fat, s) = CHOOSE x \in Chain(fat, s) : fat[x] = EOC
    BY <2>3 DEF Tail
  <2>5. QED
    BY <1>10, <2>2, <2>4
<1>12. QED
  BY <1>6, <1>7, <1>8, <1>9, <1>10, <1>11 DEF F
-----------------------------------------------------------------------------
(* Links: what one FAT entry more or a few less do to the chains.          *)

\* The chain of a file has its length and shows on the FAT.
LEMMA LongIs ==
  ASSUME NEW fat, NEW s, NEW n, Long(fat, s, n)
  PROVE  /\ \E p : IsChain(fat, s, p, n)
         /\ n \in 1 .. N /\ s \in Clusters /\ s # 0
         /\ Cardinality(Chain(fat, s)) = n
         /\ Follow(fat, s)[N] = EOC
         /\ \A c \in Chain(fat, s) : fat[c] # 0
         /\ fat[s] # 0 /\ s \in Chain(fat, s)
         /\ Tail(fat, s) \in Clusters
<1>1. PICK p : IsChain(fat, s, p, n)
  BY DEF Long
<1>2. n \in 1 .. N /\ s \in Clusters
  BY <1>1, ChainBound
<1>3. s # 0
  BY <1>2, ClusterFacts
<1>4. N \in n .. N /\ 0 \in 0 .. n - 1 /\ n - 1 \in 0 .. n - 1
  BY <1>2, AllocAssumption
<1>5. p[0] = s /\ p \in [0 .. n - 1 -> Clusters]
  BY <1>1 DEF IsChain
<1>6. /\ \A i \in n .. N : Follow(fat, s)[i] = EOC
      /\ Chain(fat, s) = {p[i] : i \in 0 .. n - 1}
      /\ Cardinality(Chain(fat, s)) = n
      /\ Tail(fat, s) = p[n - 1]
      /\ \A c \in Chain(fat, s) : fat[c] # 0
  BY <1>1, ChainIs
<1>7. s \in Chain(fat, s)
  BY <1>4, <1>5, <1>6
<1>8. QED
  BY <1>1, <1>2, <1>3, <1>4, <1>5, <1>6, <1>7

\* A chain of a file begins at a cluster in use and has at most N clusters
\* (what get_fat finds at the first cluster an entry names).
LEMMA GoodStart ==
  ASSUME NEW fat, NEW S, Good(fat, S), NEW s \in S
  PROVE  /\ \E n \in 1 .. N : Long(fat, s, n)
         /\ s \in Clusters /\ fat[s] # 0
<1>1. \E n \in 1 .. N : Long(fat, s, n)
  BY DEF Good, HasChain
<1>2. QED
  BY <1>1, LongIs

\* The clusters of a chain are those of its path, all in use.
LEMMA PathMembers ==
  ASSUME NEW fat, NEW s, NEW p, NEW n, IsChain(fat, s, p, n)
  PROVE  /\ \A i \in 0 .. n - 1 : p[i] \in Chain(fat, s) /\ p[i] \in Clusters /\ fat[p[i]] # 0
         /\ \A c \in Chain(fat, s) : \E i \in 0 .. n - 1 : p[i] = c
<1>1. p \in [0 .. n - 1 -> Clusters]
  BY DEF IsChain
<1>2. Chain(fat, s) = {p[i] : i \in 0 .. n - 1} /\ \A c \in Chain(fat, s) : fat[c] # 0
  BY ChainIs
<1>3. QED
  BY <1>1, <1>2

\* A path stays one while the entries of its clusters do.
LEMMA SameChain ==
  ASSUME NEW fat, NEW g, NEW s, NEW p, NEW n, IsChain(fat, s, p, n),
         \A i \in 0 .. n - 1 : g[p[i]] = fat[p[i]]
  PROVE  /\ IsChain(g, s, p, n) /\ Long(g, s, n)
         /\ n \in 1 .. N
         /\ Chain(g, s) = Chain(fat, s)
<1>1. n \in Nat \ {0} /\ \A i \in 1 .. n - 1 : fat[p[i - 1]] = p[i]
  BY DEF IsChain
<1>2. \A i \in 1 .. n - 1 : i - 1 \in 0 .. n - 1
  BY <1>1
<1>3. n - 1 \in 0 .. n - 1
  BY <1>1
<1>4. IsChain(g, s, p, n)
  BY <1>1, <1>2, <1>3 DEF IsChain
<1>5. p \in [0 .. n - 1 -> Clusters]
  BY DEF IsChain
<1>6. Chain(g, s) = {p[i] : i \in 0 .. n - 1} /\ Chain(fat, s) = {p[i] : i \in 0 .. n - 1}
  BY <1>4, ChainIs
<1>7. QED
  BY <1>4, <1>5, <1>6, ChainBound DEF Long

\* Two chains do not meet: the first cluster in which they did would be the
\* start of one of them or the next of two.
LEMMA Apart ==
  ASSUME NEW fat, NEW S, Good(fat, S), NEW s \in S, NEW t \in S, s # t,
         NEW p, NEW n, IsChain(fat, s, p, n), NEW q, NEW m, IsChain(fat, t, q, m)
  PROVE  \A i \in 0 .. n - 1, j \in 0 .. m - 1 : p[i] # q[j]
<1> DEFINE T == {i \in 0 .. n - 1 : \E j \in 0 .. m - 1 : p[i] = q[j]}
<1>1. /\ n \in Nat \ {0} /\ p \in [0 .. n - 1 -> Clusters] /\ p[0] = s
      /\ \A i \in 1 .. n - 1 : fat[p[i - 1]] = p[i]
  BY DEF IsChain
<1>2. /\ m \in Nat \ {0} /\ q \in [0 .. m - 1 -> Clusters] /\ q[0] = t
      /\ \A i \in 1 .. m - 1 : fat[q[i - 1]] = q[i]
  BY DEF IsChain
<1>3. /\ \A c, d \in Clusters : fat[c] = fat[d] /\ c # d => fat[c] \in {0, EOC}
      /\ \A c \in Clusters : fat[c] \in Clusters => fat[c] \notin S
  BY DEF Good
<1>4. SUFFICES ASSUME T # {} PROVE FALSE
  OBVIOUS
<1>5. PICK i \in T : \A k \in T : i <= k
  <2>1. T \in SUBSET Nat
    BY <1>1
  <2> HIDE DEF T
  <2>2. QED
    BY <1>4, <2>1, LeastNat
<1>6. PICK j \in 0 .. m - 1 : p[i] = q[j]
  OBVIOUS
<1>7. CASE i = 0
  <2>1. CASE j = 0
    BY <1>1, <1>2, <1>6, <1>7, <2>1
  <2>2. CASE j # 0
    <3>1. j \in 1 .. m - 1 /\ j - 1 \in 0 .. m - 1
      BY <1>2, <2>2
    <3>2. fat[q[j - 1]] = s /\ q[j - 1] \in Clusters /\ q[j] \in Clusters
      BY <1>1, <1>2, <1>6, <1>7, <3>1
    <3>3. QED
      BY <1>2, <1>3, <3>1, <3>2
  <2>3. QED
    BY <2>1, <2>2
<1>8. CASE i # 0
  <2>1. i \in 1 .. n - 1 /\ i - 1 \in 0 .. n - 1 /\ i \in 0 .. n - 1
    BY <1>1, <1>8
  <2>2. fat[p[i - 1]] = p[i] /\ p[i - 1] \in Clusters /\ p[i] \in Clusters
    BY <1>1, <2>1
  <2>3. j # 0
    BY <1>2, <1>3, <1>6, <2>2
  <2>4. j \in 1 .. m - 1 /\ j - 1 \in 0 .. m - 1
    BY <1>2, <2>3
  <2>5. fat[q[j - 1]] = q[j] /\ q[j - 1] \in Clusters
    BY <1>2, <2>4
  <2>6. p[i - 1] = q[j - 1]
    BY <1>3, <1>6, <2>2, <2>5, ClusterFacts
  <2>7. i - 1 \in T
    BY <2>1, <2>4, <2>6
  <2>8. i \in Nat /\ i <= i - 1
    BY <1>5, <2>1, <2>7
  <2>9. QED
    BY <2>8
<1>9. QED
  BY <1>7, <1>8

\* The clusters of a path of n from its len-th on.
IsRest(gone, p, len, n) == \A c : c \in gone <=> \E i \in len .. n - 1 : p[i] = c

\* From any cluster on, the rest of a path is a path.
LEMMA RestOfChain ==
  ASSUME NEW fat, NEW s, NEW p, NEW n, IsChain(fat, s, p, n), NEW len \in 0 .. n - 1,
         NEW gone, IsRest(gone, p, len, n)
  PROVE  /\ Long(fat, p[len], n - len)
         /\ Chain(fat, p[len]) = gone
         /\ IsFiniteSet(gone) /\ Cardinality(gone) = n - len
<1> DEFINE q == [i \in 0 .. (n - len) - 1 |-> p[i + len]]
<1>1. /\ n \in Nat \ {0} /\ p \in [0 .. n - 1 -> Clusters]
      /\ \A i, j \in 0 .. n - 1 : p[i] = p[j] => i = j
      /\ \A i \in 1 .. n - 1 : fat[p[i - 1]] = p[i]
      /\ fat[p[n - 1]] = EOC
  BY DEF IsChain
<1>2. /\ n - len \in Nat \ {0} /\ len \in Nat
      /\ 0 \in 0 .. (n - len) - 1 /\ 0 + len = len
      /\ (n - len) - 1 \in 0 .. (n - len) - 1 /\ ((n - len) - 1) + len = n - 1
  BY <1>1
<1>3. \A i \in 0 .. (n - len) - 1 : i + len \in 0 .. n - 1 /\ i + len \in len .. n - 1
  BY <1>1, <1>2
<1>4. \A i \in len .. n - 1 : i - len \in 0 .. (n - len) - 1 /\ (i - len) + len = i
  BY <1>1, <1>2
<1>5. q \in [0 .. (n - len) - 1 -> Clusters]
  BY <1>1, <1>3
<1>6. \A i, j \in 0 .. (n - len) - 1 : q[i] = q[j] => i = j
  <2>1. SUFFICES ASSUME NEW i \in 0 .. (n - len) - 1, NEW j \in 0 .. (n - len) - 1, q[i] = q[j]
                 PROVE  i = j
    OBVIOUS
  <2>2. p[i + len] = p[j + len]
    BY <2>1
  <2>3. i + len = j + len
    BY <1>1, <1>3, <2>2
  <2>4. QED
    BY <1>2, <2>3
<1>7. \A i \in 1 .. (n - len) - 1 : fat[q[i - 1]] = q[i]
  <2>1. SUFFICES ASSUME NEW i \in 1 .. (n - len) - 1 PROVE fat[q[i - 1]] = q[i]
    OBVIOUS
  <2>2. /\ i \in 0 .. (n - len) - 1 /\ i - 1 \in 0 .. (n - len) - 1
        /\ (i - 1) + len = (i + len) - 1 /\ i + len \in 1 .. n - 1
    BY <1>2
  <2>3. q[i] = p[i + len] /\ q[i - 1] = p[(i + len) - 1]
    BY <2>2
  <2>4. QED
    BY <1>1, <2>2, <2>3
<1>8. q[0] = p[len] /\ q[(n - len) - 1] = p[n - 1]
  BY <1>2
<1>9. \A c : (\E i \in 0 .. (n - len) - 1 : q[i] = c) <=> (\E i \in len .. n - 1 : p[i] = c)
  <2>1. ASSUME NEW i \in 0 .. (n - len) - 1 PROVE i + len \in len .. n - 1 /\ q[i] = p[i + len]
    BY <1>3
  <2>2. ASSUME NEW i \in len .. n - 1 PROVE i - len \in 0 .. (n - len) - 1 /\ q[i - len] = p[i]
    BY <1>4
  <2> HIDE DEF q
  <2>3. QED
    BY <2>1, <2>2
<1> HIDE DEF q
<1>10. IsChain(fat, p[len], q, n - len)
  BY <1>1, <1>2, <1>5, <1>6, <1>7, <1>8 DEF IsChain
<1>11. {q[i] : i \in 0 .. (n - len) - 1} = gone
  BY <1>9 DEF IsRest
<1>12. /\ Chain(fat, p[len]) = {q[i] : i \in 0 .. (n - len) - 1}
       /\ IsFiniteSet(Chain(fat, p[len])) /\ Cardinality(Chain(fat, p[len])) = n - len
  BY <1>10, ChainIs
<1>13. Long(fat, p[len], n - len)
  BY <1>5, <1>10 DEF Long
<1>14. QED
  BY <1>11, <1>12, <1>13
-----------------------------------------------------------------------------
(* create_chain: a free cluster becomes the end of a chain.                *)

\* The FAT with ncl linked behind t, or alone when t is 0.
LinkedFat(fat, t, ncl) ==
  [c \in Clusters |-> IF c = ncl THEN EOC ELSE IF c = t THEN ncl ELSE fat[c]]

\* One free cluster less.
LEMMA LinkTakesOne ==
  ASSUME NEW fat \in FatT, NEW ncl \in FreeOf(fat), NEW t, t \in Clusters => fat[t] # 0
  PROVE  /\ LinkedFat(fat, t, ncl) \in FatT
         /\ FreeOf(LinkedFat(fat, t, ncl)) = FreeOf(fat) \ {ncl}
         /\ Cardinality(FreeOf(LinkedFat(fat, t, ncl))) = Cardinality(FreeOf(fat)) - 1
<1> DEFINE g == LinkedFat(fat, t, ncl)
<1>1. ncl \in Clusters /\ fat[ncl] = 0
  BY DEF FreeOf
<1>2. \A c \in Clusters : g[c] = IF c = ncl THEN EOC ELSE IF c = t THEN ncl ELSE fat[c]
  BY DEF LinkedFat
<1>3. g \in FatT
  BY <1>1 DEF LinkedFat, FatT
<1> HIDE DEF g
<1>4. FreeOf(g) = FreeOf(fat) \ {ncl}
  BY <1>1, <1>2, ClusterFacts DEF FreeOf
<1>5. IsFiniteSet(FreeOf(fat))
  BY FreeFacts
<1>6. Cardinality(FreeOf(fat) \ {ncl}) = Cardinality(FreeOf(fat)) - 1
  BY <1>5, FS_RemoveElement
<1>7. QED
  BY <1>3, <1>4, <1>6 DEF g

\* A new chain of one cluster, apart from all others.
LEMMA LinkNew ==
  ASSUME NEW fat, NEW S, Good(fat, S), NEW ncl \in FreeOf(fat)
  PROVE  LET g == LinkedFat(fat, 0, ncl) IN
         /\ Good(g, S \cup {ncl})
         /\ Long(g, ncl, 1) /\ Tail(g, ncl) = ncl
         /\ \A r, m : Long(fat, r, m) => Long(g, r, m)
         /\ Owned(fat, S) => Owned(g, S \cup {ncl})
<1> DEFINE g == LinkedFat(fat, 0, ncl)
<1>1. ncl \in Clusters /\ fat[ncl] = 0 /\ ncl # 0 /\ ncl # EOC
  BY ClusterFacts DEF FreeOf
<1>2. \A c \in Clusters : g[c] = IF c = ncl THEN EOC ELSE fat[c]
  BY ClusterFacts DEF LinkedFat
<1>3. /\ fat \in FatT /\ S \subseteq Clusters
      /\ \A c, d \in Clusters : fat[c] = fat[d] /\ c # d => fat[c] \in {0, EOC}
      /\ \A c \in Clusters : fat[c] \in Clusters => fat[c] \notin S /\ fat[fat[c]] # 0
  BY DEF Good
<1>4. g \in FatT
  BY <1>3, LinkTakesOne, ClusterFacts
<1> HIDE DEF g
<1>5. IsChain(g, ncl, [i \in 0 .. 0 |-> ncl], 1)
  <2> DEFINE q == [i \in 0 .. 0 |-> ncl]
  <2>1. /\ 1 \in Nat \ {0} /\ 1 - 1 = 0
        /\ q \in [0 .. 0 -> Clusters] /\ q[0] = ncl
        /\ \A i, j \in 0 .. 0 : i = j
        /\ 1 .. 0 = {}
    BY <1>1
  <2>2. g[q[0]] = EOC
    BY <1>1, <1>2, <2>1
  <2> HIDE DEF q
  <2>3. IsChain(g, ncl, q, 1)
    BY <2>1, <2>2 DEF IsChain
  <2>4. QED
    BY <2>3 DEF q
<1>6. Tail(g, ncl) = ncl
  BY <1>5, ChainIs
<1>7. Long(g, ncl, 1)
  BY <1>5 DEF Long, IsChain
<1>8. ASSUME NEW r, NEW m, Long(fat, r, m)
      PROVE  Long(g, r, m) /\ Chain(g, r) = Chain(fat, r)
  <2>1. PICK q : IsChain(fat, r, q, m)
    BY <1>8 DEF Long
  <2>2. \A i \in 0 .. m - 1 : q[i] \in Clusters /\ fat[q[i]] # 0
    BY <2>1, PathMembers
  <2>3. \A i \in 0 .. m - 1 : g[q[i]] = fat[q[i]]
    BY <1>1, <1>2, <2>2
  <2>4. QED
    BY <2>1, <2>3, SameChain
<1>9. \A s \in S \cup {ncl} : HasChain(g, s)
  <2>1. HasChain(g, ncl)
    BY <1>7, LongIs DEF HasChain
  <2>2. ASSUME NEW s \in S PROVE HasChain(g, s)
    <3>1. PICK n \in 1 .. N : Long(fat, s, n)
      BY GoodStart
    <3>2. QED
      BY <1>8, <3>1 DEF HasChain
  <2>3. QED
    BY <2>1, <2>2
<1>10. \A c, d \in Clusters : g[c] = g[d] /\ c # d => g[c] \in {0, EOC}
  BY <1>2, <1>3
<1>11. ASSUME NEW c \in Clusters, g[c] \in Clusters
       PROVE  g[c] \notin S \cup {ncl} /\ g[g[c]] # 0
  <2>1. c # ncl /\ g[c] = fat[c]
    BY <1>2, <1>11, ClusterFacts
  <2>2. fat[c] \notin S /\ fat[fat[c]] # 0 /\ fat[c] # ncl
    BY <1>1, <1>3, <1>11, <2>1
  <2>3. QED
    BY <1>2, <1>11, <2>1, <2>2
<1>12. Good(g, S \cup {ncl})
  BY <1>1, <1>3, <1>4, <1>9, <1>10, <1>11 DEF Good
<1>13. ASSUME Owned(fat, S) PROVE Owned(g, S \cup {ncl})
  <2>1. SUFFICES ASSUME NEW c \in Clusters, g[c] # 0
                 PROVE  \E s \in S \cup {ncl} : c \in Chain(g, s)
    BY DEF Owned
  <2>2. CASE c = ncl
    BY <1>7, <2>2, LongIs
  <2>3. CASE c # ncl
    <3>1. PICK s \in S : c \in Chain(fat, s)
      BY <1>2, <1>13, <2>1, <2>3 DEF Owned
    <3>2. PICK n \in 1 .. N : Long(fat, s, n)
      BY GoodStart
    <3>3. Chain(g, s) = Chain(fat, s)
      BY <1>8, <3>2
    <3>4. QED
      BY <3>1, <3>3
  <2>4. QED
    BY <2>2, <2>3
<1>14. QED
  BY <1>6, <1>7, <1>8, <1>12, <1>13 DEF g

\* One cluster more at the end of a chain; the others stay.
LEMMA LinkOld ==
  ASSUME NEW fat, NEW S, Good(fat, S), NEW ncl \in FreeOf(fat),
         NEW s \in S, NEW n, Long(fat, s, n)
  PROVE  LET g == LinkedFat(fat, Tail(fat, s), ncl) IN
         /\ Good(g, S)
         /\ Long(g, s, n + 1) /\ Tail(g, s) = ncl
         /\ \A r \in S \ {s} : \A m : Long(fat, r, m) => Long(g, r, m)
         /\ Owned(fat, S) => Owned(g, S)
<1> DEFINE t == Tail(fat, s)
           g == LinkedFat(fat, t, ncl)
<1>1. ncl \in Clusters /\ fat[ncl] = 0 /\ ncl # 0 /\ ncl # EOC
  BY ClusterFacts DEF FreeOf
<1>2. \A c \in Clusters : g[c] = IF c = ncl THEN EOC ELSE IF c = t THEN ncl ELSE fat[c]
  BY DEF LinkedFat
<1>3. /\ fat \in FatT /\ S \subseteq Clusters
      /\ \A c, d \in Clusters : fat[c] = fat[d] /\ c # d => fat[c] \in {0, EOC}
      /\ \A c \in Clusters : fat[c] \in Clusters => fat[c] \notin S /\ fat[fat[c]] # 0
  BY DEF Good
<1>4. PICK p : IsChain(fat, s, p, n)
  BY DEF Long
<1>5. n \in 1 .. N /\ n \in Nat /\ n - 1 \in 0 .. n - 1
  BY <1>4, ChainBound, AllocAssumption
<1>6. /\ p \in [0 .. n - 1 -> Clusters] /\ p[0] = s
      /\ \A i, j \in 0 .. n - 1 : p[i] = p[j] => i = j
      /\ \A i \in 1 .. n - 1 : fat[p[i - 1]] = p[i]
      /\ fat[p[n - 1]] = EOC
  BY <1>4 DEF IsChain
<1>7. t = p[n - 1] /\ t \in Clusters /\ fat[t] = EOC /\ t # ncl
  <2>1. t = p[n - 1]
    BY <1>4, ChainIs
  <2>2. QED
    BY <1>1, <1>5, <1>6, <2>1, ClusterFacts
<1>8. \A i \in 0 .. n - 1 : p[i] \in Chain(fat, s) /\ p[i] \in Clusters /\ fat[p[i]] # 0 /\ p[i] # ncl
  <2>1. Chain(fat, s) = {p[i] : i \in 0 .. n - 1} /\ \A c \in Chain(fat, s) : fat[c] # 0
    BY <1>4, ChainIs
  <2>2. QED
    BY <1>1, <1>6, <2>1
<1>9. g \in FatT
  BY <1>3, <1>7, LinkTakesOne, ClusterFacts
<1> HIDE DEF g, t
<1> DEFINE q == [i \in 0 .. n |-> IF i = n THEN ncl ELSE p[i]]
<1>10. /\ q \in [0 .. n -> Clusters] /\ q[0] = s /\ q[n] = ncl
       /\ \A i \in 0 .. n - 1 : i \in 0 .. n /\ q[i] = p[i]
       /\ \A i \in 0 .. n : i \in 0 .. n - 1 \/ i = n
  BY <1>1, <1>5, <1>6
<1> HIDE DEF q
<1>11. IsChain(g, s, q, n + 1)
  <2>1. \A i, j \in 0 .. n : q[i] = q[j] => i = j
    BY <1>6, <1>8, <1>10
  <2>2. \A i \in 1 .. n : g[q[i - 1]] = q[i]
    <3>1. SUFFICES ASSUME NEW i \in 1 .. n PROVE g[q[i - 1]] = q[i]
      OBVIOUS
    <3>2. i - 1 \in 0 .. n - 1 /\ (i = n \/ i \in 1 .. n - 1)
      BY <1>5
    <3>3. q[i - 1] = p[i - 1] /\ q[i - 1] # ncl /\ q[i - 1] \in Clusters
      BY <1>8, <1>10, <3>2
    <3>4. CASE i = n
      BY <1>2, <1>7, <1>10, <3>3, <3>4
    <3>5. CASE i \in 1 .. n - 1
      <4>1. i \in 0 .. n - 1 /\ i - 1 # n - 1
        BY <1>5, <3>5
      <4>2. p[i - 1] # t
        BY <1>5, <1>6, <1>7, <3>2, <4>1
      <4>3. g[q[i - 1]] = fat[p[i - 1]]
        BY <1>2, <3>3, <4>2
      <4>4. QED
        BY <1>6, <1>10, <3>5, <4>1, <4>3
    <3>6. QED
      BY <3>2, <3>4, <3>5
  <2>3. g[q[n]] = EOC
    BY <1>1, <1>2, <1>10
  <2>4. n + 1 \in Nat \ {0} /\ (n + 1) - 1 = n
    BY <1>5
  <2>5. QED
    BY <1>10, <2>1, <2>2, <2>3, <2>4 DEF IsChain
<1>12. Tail(g, s) = ncl /\ \A i \in 0 .. n : q[i] \in Chain(g, s)
  <2>1. (n + 1) - 1 = n
    BY <1>5
  <2>2. Tail(g, s) = q[(n + 1) - 1]
    BY <1>11, ChainIs
  <2>3. \A i \in 0 .. (n + 1) - 1 : q[i] \in Chain(g, s)
    BY <1>11, PathMembers
  <2>4. QED
    BY <1>10, <2>1, <2>2, <2>3
<1>13. Long(g, s, n + 1)
  BY <1>11 DEF Long, IsChain
<1>14. ASSUME NEW r \in S, r # s, NEW m, Long(fat, r, m)
       PROVE  Long(g, r, m) /\ Chain(g, r) = Chain(fat, r)
  <2>1. PICK u : IsChain(fat, r, u, m)
    BY <1>14 DEF Long
  <2>2. \A i \in 0 .. m - 1 : u[i] \in Clusters /\ fat[u[i]] # 0
    BY <2>1, PathMembers
  <2>3. \A i \in 0 .. m - 1 : u[i] # t
    BY <1>4, <1>5, <1>7, <1>14, <2>1, Apart
  <2>4. \A i \in 0 .. m - 1 : g[u[i]] = fat[u[i]]
    BY <1>1, <1>2, <2>2, <2>3
  <2>5. QED
    BY <2>1, <2>4, SameChain
<1>15. \A r \in S : HasChain(g, r)
  <2>1. HasChain(g, s)
    BY <1>13, LongIs DEF HasChain
  <2>2. ASSUME NEW r \in S, r # s PROVE HasChain(g, r)
    <3>1. PICK m \in 1 .. N : Long(fat, r, m)
      BY GoodStart
    <3>2. QED
      BY <1>14, <2>2, <3>1 DEF HasChain
  <2>3. QED
    BY <2>1, <2>2
<1>16. \A c \in Clusters : fat[c] # ncl
  BY <1>1, <1>3
<1>17. \A c, d \in Clusters : g[c] = g[d] /\ c # d => g[c] \in {0, EOC}
  BY <1>1, <1>2, <1>3, <1>16
<1>18. ASSUME NEW c \in Clusters, g[c] \in Clusters
       PROVE  g[c] \notin S /\ g[g[c]] # 0
  <2>1. ncl \notin S
    BY <1>1, GoodStart
  <2>2. c # ncl
    BY <1>2, <1>18, ClusterFacts
  <2>3. CASE c = t
    BY <1>1, <1>2, <1>7, <2>1, <2>3, ClusterFacts
  <2>4. CASE c # t
    <3>1. g[c] = fat[c]
      BY <1>2, <2>2, <2>4
    <3>2. fat[c] \notin S /\ fat[fat[c]] # 0
      BY <1>3, <1>18, <3>1
    <3>3. g[fat[c]] # 0
      BY <1>1, <1>2, <1>18, <3>1, <3>2, ClusterFacts
    <3>4. QED
      BY <3>1, <3>2, <3>3
  <2>5. QED
    BY <2>3, <2>4
<1>19. Good(g, S)
  BY <1>3, <1>9, <1>15, <1>17, <1>18 DEF Good
<1>20. ASSUME Owned(fat, S) PROVE Owned(g, S)
  <2>1. SUFFICES ASSUME NEW c \in Clusters, g[c] # 0
                 PROVE  \E r \in S : c \in Chain(g, r)
    BY DEF Owned
  <2>2. CASE c = ncl
    <3>1. n \in 0 .. n
      BY <1>5
    <3>2. QED
      BY <1>10, <1>12, <2>2, <3>1
  <2>3. CASE c # ncl
    <3>1. fat[c] # 0
      BY <1>2, <1>7, <2>1, <2>3, ClusterFacts
    <3>2. PICK r \in S : c \in Chain(fat, r)
      BY <1>20, <3>1 DEF Owned
    <3>3. CASE r = s
      <4>1. PICK i \in 0 .. n - 1 : c = p[i]
        BY <1>4, <3>2, <3>3, ChainIs
      <4>2. QED
        BY <1>10, <1>12, <4>1
    <3>4. CASE r # s
      <4>1. PICK m \in 1 .. N : Long(fat, r, m)
        BY GoodStart
      <4>2. QED
        BY <1>14, <3>2, <3>4, <4>1
    <3>5. QED
      BY <3>3, <3>4
  <2>4. QED
    BY <2>2, <2>3
<1>21. QED
  BY <1>12, <1>13, <1>14, <1>19, <1>20 DEF g, t
-----------------------------------------------------------------------------
(* remove_chain: a chain gives its clusters back from one of them on.      *)

\* The FAT without the clusters gone; the one before them, if any, is an end.
CutFat(fat, gone, pclst) ==
  [x \in Clusters |-> IF x \in gone THEN 0 ELSE IF x = pclst THEN EOC ELSE fat[x]]

\* remove_chain from the cluster after the first len of a chain: every other chain
\* stays, this one has len clusters left, and none is lost.
LEMMA Remove ==
  ASSUME NEW fat, NEW S, Good(fat, S), NEW s \in S,
         NEW p, NEW n, IsChain(fat, s, p, n), NEW len \in 0 .. n - 1,
         NEW pclst, pclst = IF len = 0 THEN 0 ELSE p[len - 1],
         NEW gone, IsRest(gone, p, len, n),
         NEW T, T = IF len = 0 THEN S \ {s} ELSE S
  PROVE  LET g == CutFat(fat, gone, pclst) IN
         /\ Good(g, T)
         /\ len # 0 => Long(g, s, len)
         /\ \A r \in S \ {s} : \A m : Long(fat, r, m) => Long(g, r, m)
         /\ Owned(fat, S) => Owned(g, T)
         /\ Cardinality(FreeOf(g)) = Cardinality(FreeOf(fat)) + (n - len)
<1> DEFINE g == CutFat(fat, gone, pclst)
<1>1. n \in 1 .. N /\ n \in Nat /\ s \in Clusters /\ len \in Nat
  BY ChainBound, AllocAssumption
<1>2. /\ p \in [0 .. n - 1 -> Clusters] /\ p[0] = s
      /\ \A i, j \in 0 .. n - 1 : p[i] = p[j] => i = j
      /\ \A i \in 1 .. n - 1 : fat[p[i - 1]] = p[i]
      /\ fat[p[n - 1]] = EOC
  BY DEF IsChain
<1>3. /\ fat \in FatT /\ S \subseteq Clusters
      /\ \A c, d \in Clusters : fat[c] = fat[d] /\ c # d => fat[c] \in {0, EOC}
      /\ \A c \in Clusters : fat[c] \in Clusters => fat[c] \notin S /\ fat[fat[c]] # 0
  BY DEF Good
<1>4. \A i \in len .. n - 1 : i \in 0 .. n - 1
  BY <1>1
<1>5. /\ \A c : c \in gone <=> \E i \in len .. n - 1 : p[i] = c
      /\ gone \subseteq Clusters
      /\ \A c \in gone : fat[c] # 0
  <2>1. \A c : c \in gone <=> \E i \in len .. n - 1 : p[i] = c
    BY DEF IsRest
  <2>2. \A i \in 0 .. n - 1 : p[i] \in Clusters /\ fat[p[i]] # 0
    BY PathMembers
  <2> HIDE DEF g
  <2>3. QED
    BY <1>4, <2>1, <2>2
<1>6. \A c \in Clusters : g[c] = IF c \in gone THEN 0 ELSE IF c = pclst THEN EOC ELSE fat[c]
  BY DEF CutFat
<1>7. pclst \in Clusters => len # 0 /\ pclst = p[len - 1] /\ len - 1 \in 0 .. n - 1 /\ fat[pclst] # 0
  <2>1. pclst \in Clusters => len # 0
    BY ClusterFacts
  <2>2. len # 0 => len - 1 \in 0 .. n - 1
    BY <1>1
  <2>3. QED
    BY <2>1, <2>2, PathMembers
<1>8. g \in FatT
  BY <1>3, <1>5 DEF CutFat, FatT
<1>9. IsFiniteSet(gone) /\ Cardinality(gone) = n - len
  BY RestOfChain
<1> HIDE DEF g
<1>10. ASSUME NEW r \in S, r # s, NEW m, Long(fat, r, m)
       PROVE  Long(g, r, m) /\ Chain(g, r) = Chain(fat, r)
  <2>1. PICK u : IsChain(fat, r, u, m)
    BY <1>10 DEF Long
  <2>2. \A i \in 0 .. m - 1, j \in 0 .. n - 1 : u[i] # p[j]
    BY <1>10, <2>1, Apart
  <2>3. \A i \in 0 .. m - 1 : u[i] \in Clusters
    BY <2>1, PathMembers
  <2>4. \A i \in 0 .. m - 1 : u[i] \notin gone /\ u[i] # pclst
    BY <1>4, <1>5, <1>7, <2>2, <2>3
  <2>5. \A i \in 0 .. m - 1 : g[u[i]] = fat[u[i]]
    BY <1>6, <2>3, <2>4
  <2>6. QED
    BY <2>1, <2>5, SameChain
<1>11. ASSUME len # 0
       PROVE  Long(g, s, len) /\ \A i \in 0 .. len - 1 : p[i] \in Chain(g, s)
  <2> DEFINE q == [i \in 0 .. len - 1 |-> p[i]]
  <2>1. /\ len \in Nat \ {0} /\ 0 \in 0 .. len - 1 /\ len - 1 \in 0 .. len - 1
        /\ \A i \in 0 .. len - 1 : i \in 0 .. n - 1 /\ i \notin len .. n - 1
        /\ \A i \in 1 .. len - 1 : i \in 1 .. n - 1 /\ i \in 0 .. len - 1 /\ i - 1 \in 0 .. len - 1
                                   /\ i - 1 # len - 1
    BY <1>1, <1>11
  <2>2. q \in [0 .. len - 1 -> Clusters] /\ \A i \in 0 .. len - 1 : q[i] = p[i]
    BY <1>2, <2>1
  <2> HIDE DEF q
  <2>3. \A i \in 0 .. len - 1 : q[i] \notin gone
    BY <1>2, <1>4, <1>5, <2>1, <2>2
  <2>4. pclst = p[len - 1] /\ pclst = q[len - 1] /\ pclst \in Clusters
    BY <1>11, <2>1, <2>2
  <2>5. \A i, j \in 0 .. len - 1 : q[i] = q[j] => i = j
    BY <1>2, <2>1, <2>2
  <2>6. g[q[len - 1]] = EOC
    BY <1>6, <2>1, <2>3, <2>4
  <2>7. \A i \in 1 .. len - 1 : g[q[i - 1]] = q[i]
    <3>1. SUFFICES ASSUME NEW i \in 1 .. len - 1 PROVE g[q[i - 1]] = q[i]
      OBVIOUS
    <3>2. i \in 0 .. len - 1 /\ i - 1 \in 0 .. len - 1 /\ i - 1 # len - 1 /\ i \in 1 .. n - 1
      BY <2>1
    <3>3. q[i - 1] # pclst /\ q[i - 1] \notin gone /\ q[i - 1] \in Clusters
      BY <2>1, <2>2, <2>3, <2>4, <2>5, <3>2
    <3>4. g[q[i - 1]] = fat[p[i - 1]]
      BY <1>6, <2>2, <3>2, <3>3
    <3>5. QED
      BY <1>2, <2>2, <3>2, <3>4
  <2>8. q[0] = s
    BY <1>2, <2>1, <2>2
  <2>9. IsChain(g, s, q, len)
    BY <2>1, <2>2, <2>5, <2>6, <2>7, <2>8 DEF IsChain
  <2>10. Long(g, s, len)
    BY <2>2, <2>9 DEF Long
  <2>11. QED
    BY <2>2, <2>9, <2>10, PathMembers
<1>12. T \subseteq Clusters /\ T \subseteq S /\ (s \in T => len # 0)
  BY <1>3
<1>13. \A r \in T : HasChain(g, r)
  <2>1. ASSUME s \in T PROVE HasChain(g, s)
    BY <1>11, <1>12, <2>1, LongIs DEF HasChain
  <2>2. ASSUME NEW r \in T, r # s PROVE HasChain(g, r)
    <3>1. PICK m \in 1 .. N : Long(fat, r, m)
      BY <1>12, GoodStart
    <3>2. QED
      BY <1>10, <1>12, <2>2, <3>1 DEF HasChain
  <2>3. QED
    BY <2>1, <2>2
<1>14. \A c, d \in Clusters : g[c] = g[d] /\ c # d => g[c] \in {0, EOC}
  BY <1>3, <1>6
<1>15. ASSUME NEW c \in Clusters, g[c] \in Clusters
       PROVE  g[c] \notin T /\ g[g[c]] # 0
  <2>1. c \notin gone /\ c # pclst /\ g[c] = fat[c] /\ fat[c] \in Clusters
    BY <1>6, <1>15, ClusterFacts
  <2>2. fat[c] \notin S /\ fat[fat[c]] # 0
    BY <1>3, <2>1
  <2>3. fat[c] \notin gone
    <3>1. SUFFICES ASSUME NEW i \in len .. n - 1, p[i] = fat[c] PROVE FALSE
      BY <1>5
    <3>2. i # 0
      BY <1>2, <2>2, <3>1
    <3>3. i \in 1 .. n - 1 /\ i - 1 \in 0 .. n - 1 /\ (i - 1 \in len .. n - 1 \/ (i = len /\ len # 0))
      BY <1>1, <3>2
    <3>4. fat[p[i - 1]] = fat[c] /\ p[i - 1] \in Clusters
      BY <1>2, <3>1, <3>3
    <3>5. c = p[i - 1]
      BY <1>3, <2>1, <3>4, ClusterFacts
    <3>6. c \in gone \/ c = pclst
      BY <1>5, <3>3, <3>5
    <3>7. QED
      BY <2>1, <3>6
  <2>4. g[fat[c]] # 0
    BY <1>6, <2>1, <2>2, <2>3, ClusterFacts
  <2>5. QED
    BY <1>12, <2>1, <2>2, <2>4
<1>16. Good(g, T)
  BY <1>8, <1>12, <1>13, <1>14, <1>15 DEF Good
<1>17. ASSUME Owned(fat, S) PROVE Owned(g, T)
  <2>1. SUFFICES ASSUME NEW c \in Clusters, g[c] # 0
                 PROVE  \E r \in T : c \in Chain(g, r)
    BY DEF Owned
  <2>2. c \notin gone /\ fat[c] # 0
    BY <1>6, <1>7, <2>1
  <2>3. PICK r \in S : c \in Chain(fat, r)
    BY <1>17, <2>2 DEF Owned
  <2>4. CASE r = s
    <3>1. PICK i \in 0 .. n - 1 : p[i] = c
      BY <2>3, <2>4, PathMembers
    <3>2. i \notin len .. n - 1
      BY <1>5, <2>2, <3>1
    <3>3. len # 0 /\ i \in 0 .. len - 1
      BY <1>1, <3>2
    <3>4. QED
      BY <1>11, <3>1, <3>3
  <2>5. CASE r # s
    <3>1. PICK m \in 1 .. N : Long(fat, r, m)
      BY GoodStart
    <3>2. r \in T
      BY <2>5
    <3>3. QED
      BY <1>10, <2>3, <2>5, <3>1, <3>2
  <2>6. QED
    BY <2>4, <2>5
<1>18. Cardinality(FreeOf(g)) = Cardinality(FreeOf(fat)) + (n - len)
  <2>1. FreeOf(g) = FreeOf(fat) \cup gone
    BY <1>5, <1>6, <1>7, ClusterFacts DEF FreeOf
  <2>2. FreeOf(fat) \cap gone = {}
    BY <1>5 DEF FreeOf
  <2>3. IsFiniteSet(FreeOf(fat)) /\ Cardinality(FreeOf(fat)) \in Nat
    BY FreeFacts
  <2>4. /\ Cardinality(FreeOf(fat) \cup gone)
           = Cardinality(FreeOf(fat)) + Cardinality(gone) - Cardinality(FreeOf(fat) \cap gone)
    BY <1>9, <2>3, FS_Union
  <2>5. Cardinality(FreeOf(fat) \cap gone) = 0
    BY <2>2, FS_EmptySet
  <2>6. n - len \in Int
    BY <1>1
  <2>7. QED
    BY <1>9, <2>1, <2>3, <2>4, <2>5, <2>6
<1>19. QED
  BY <1>10, <1>11, <1>16, <1>17, <1>18 DEF g
-----------------------------------------------------------------------------
(* The search for a free cluster.                                          *)

\* The scan looks at every cluster of the volume.
LEMMA CandidatesCover ==
  ASSUME NEW scl \in 1 .. N + 1
  PROVE  /\ \A i \in 1 .. N : Candidate(scl, i) \in Clusters
         /\ \A c \in Clusters : \E i \in 1 .. N : Candidate(scl, i) = c
<1>1. N \in Nat \ {0} /\ scl \in Nat
  BY AllocAssumption
<1>2. \A i \in 1 .. N : Candidate(scl, i) \in Clusters
  BY <1>1 DEF Candidate, Clusters
<1>3. ASSUME NEW c \in Clusters PROVE \E i \in 1 .. N : Candidate(scl, i) = c
  <2>1. c \in Nat /\ 2 <= c /\ c <= N + 1
    BY <1>1 DEF Clusters
  <2>2. CASE c > scl
    <3>1. c - scl \in 1 .. N /\ scl + (c - scl) = c
      BY <1>1, <2>1, <2>2
    <3>2. Candidate(scl, c - scl) = c
      BY <2>1, <3>1 DEF Candidate
    <3>3. QED
      BY <3>1, <3>2
  <2>3. CASE ~(c > scl)
    <3> DEFINE i == (c + N) - scl
    <3>1. i \in 1 .. N /\ ~(scl + i <= N + 1) /\ scl + i - N = c
      BY <1>1, <2>1, <2>3
    <3>2. Candidate(scl, i) = c
      BY <3>1 DEF Candidate
    <3>3. QED
      BY <3>1, <3>2
  <2>4. QED
    BY <2>2, <2>3
<1>4. QED
  BY <1>2, <1>3

\* It finds a free cluster unless there is none.
LEMMA FirstFreeFinds ==
  ASSUME NEW fat, NEW scl \in 1 .. N + 1
  PROVE  /\ FirstFree(fat, scl) \in {0} \cup FreeOf(fat)
         /\ FirstFree(fat, scl) = 0 => FreeOf(fat) = {}
<1> DEFINE ix == {i \in 1 .. N : fat[Candidate(scl, i)] = 0}
<1>1. FirstFree(fat, scl) = IF ix = {} THEN 0 ELSE Candidate(scl, Min(ix))
  BY DEF FirstFree
<1>2. CASE ix = {}
  <2>1. FreeOf(fat) = {}
    BY <1>2, CandidatesCover DEF FreeOf
  <2>2. QED
    BY <1>1, <1>2, <2>1
<1>3. CASE ix # {}
  <2>1. Min(ix) \in ix
    <3>1. ix \in SUBSET Nat
      OBVIOUS
    <3> HIDE DEF ix
    <3>2. PICK m \in ix : \A k \in ix : m <= k
      BY <1>3, <3>1, LeastNat
    <3>3. QED
      BY <3>2 DEF Min
  <2>2. Candidate(scl, Min(ix)) \in FreeOf(fat)
    BY <2>1, CandidatesCover DEF FreeOf
  <2>3. Candidate(scl, Min(ix)) # 0
    BY <2>2, ClusterFacts DEF FreeOf
  <2> HIDE DEF ix
  <2>4. QED
    BY <1>1, <1>3, <2>2, <2>3
<1>4. QED
  BY <1>2, <1>3

\* create_chain takes a free cluster, wherever its hint points, unless the count
\* or the FAT says that there is none.
LEMMA PickFinds ==
  ASSUME NEW v \in Volume, NEW clst \in {0} \cup Clusters
  PROVE  /\ Pick(v, clst) \in {0} \cup FreeOf(v.fat)
         /\ Pick(v, clst) # 0 => v.free # 0
         /\ Pick(v, clst) = 0 => v.free = 0 \/ FreeOf(v.fat) = {}
<1> DEFINE next == IF clst + 1 > N + 1 THEN 2 ELSE clst + 1
           hint == IF v.last \in Clusters THEN v.last ELSE IF clst # 0 THEN clst ELSE 1
<1>1. Pick(v, clst) = IF v.free = 0 THEN 0
                      ELSE IF clst # 0 /\ v.fat[next] = 0 THEN next ELSE FirstFree(v.fat, hint)
  BY DEF Pick
<1>2. N \in Nat \ {0}
  BY AllocAssumption
<1>3. hint \in 1 .. N + 1
  BY <1>2 DEF Clusters
<1>4. clst # 0 => next \in Clusters
  BY <1>2 DEF Clusters
<1> HIDE DEF next, hint
<1>5. /\ FirstFree(v.fat, hint) \in {0} \cup FreeOf(v.fat)
      /\ FirstFree(v.fat, hint) = 0 => FreeOf(v.fat) = {}
  BY <1>3, FirstFreeFinds
<1>6. clst # 0 /\ v.fat[next] = 0 => next \in FreeOf(v.fat) /\ next # 0
  BY <1>4, ClusterFacts DEF FreeOf
<1>7. QED
  BY <1>1, <1>5, <1>6
-----------------------------------------------------------------------------
(* Append: clusters are linked one by one until there are enough of them.  *)

\* One round of Append.
AppendRound(p, i) ==
  LET ncl == Pick(p.v, p.tail)
  IN  IF p.n < i - 1 \/ ncl = 0 THEN p
      ELSE [v |-> Linked(p.v, p.tail, ncl), tail |-> ncl, n |-> i,
            first |-> IF p.first = 0 THEN ncl ELSE p.first]

\* Append before its first round.
AppendStart(v, first) == [v |-> v, first |-> first, tail |-> Tail(v.fat, first), n |-> 0]

\* Append is k rounds from its start.
LEMMA AppendDef ==
  ASSUME NEW v, NEW first, NEW k \in Nat
  PROVE  \E a : /\ a[0] = AppendStart(v, first)
                /\ \A i \in 1 .. k : a[i] = AppendRound(a[i - 1], i)
                /\ Append(v, first, k) = a[k]
<1> DEFINE Start == AppendStart(v, first)
           G(g, n) == g = [i \in 0 .. n |-> IF i = 0 THEN Start ELSE AppendRound(g[i - 1], i)]
           S == {n \in Nat : \E g : G(g, n)}
<1>1. 0 \in S
  <2> DEFINE g0 == [i \in 0 .. 0 |-> Start]
  <2>1. G(g0, 0)
    OBVIOUS
  <2>2. QED
    BY <2>1
<1>2. ASSUME NEW n \in S PROVE n + 1 \in S
  <2>1. PICK g : G(g, n)
    OBVIOUS
  <2>2. n \in Nat /\ n + 1 \in Nat
    OBVIOUS
  <2> DEFINE h == [i \in 0 .. n + 1 |-> IF i = n + 1 THEN AppendRound(g[n], n + 1) ELSE g[i]]
  <2>3. \A i \in 0 .. n : h[i] = g[i]
    BY <2>2
  <2>4. h[n + 1] = AppendRound(g[n], n + 1)
    BY <2>2
  <2>5. h = [i \in 0 .. n + 1 |-> h[i]]
    OBVIOUS
  <2>6. \A i \in 0 .. n : g[i] = IF i = 0 THEN Start ELSE AppendRound(g[i - 1], i)
    BY <2>1
  <2>7. \A i \in 0 .. n : i # 0 => i - 1 \in 0 .. n
    BY <2>2
  <2>8. \A i \in 0 .. n + 1 : i \in 0 .. n \/ (i = n + 1 /\ i # 0 /\ i - 1 = n /\ n \in 0 .. n)
    BY <2>2
  <2> HIDE DEF h, Start
  <2>9. \A i \in 0 .. n + 1 : h[i] = IF i = 0 THEN Start ELSE AppendRound(h[i - 1], i)
    BY <2>3, <2>4, <2>6, <2>7, <2>8
  <2>10. G(h, n + 1)
    BY <2>5, <2>9
  <2> HIDE DEF G
  <2>11. QED
    BY <2>2, <2>10
<1>3. S = Nat
  <2> HIDE DEF S
  <2> QED
    BY <1>1, <1>2, Induction DEF S
<1>4. \E g : G(g, k)
  BY <1>3
<1>5. PICK a : a = [i \in 0 .. k |-> IF i = 0 THEN Start ELSE AppendRound(a[i - 1], i)] /\ Append(v, first, k) = a[k]
  BY <1>4 DEF Append, AppendRound, AppendStart
<1>6. 0 \in 0 .. k /\ \A i \in 1 .. k : i \in 0 .. k /\ i # 0
  OBVIOUS
<1> HIDE DEF S, Start
<1>7. a[0] = Start /\ \A i \in 1 .. k : a[i] = AppendRound(a[i - 1], i)
  BY <1>5, <1>6
<1>8. QED
  BY <1>5, <1>7 DEF Start

\* The starts of the chains, with the one Append may have begun.
With(S, first) == S \cup ({first} \ {0})

\* What i rounds have made of a volume v and the chain of m clusters at first
\* (m = 0 and first = 0 for a new one): r.n clusters taken, and none free when
\* they are fewer than i.
Grown(v, first, m, S, r, i) ==
  /\ r.n \in 0 .. i
  /\ r.v \in Volume
  /\ r.tail = IF r.first = 0 THEN 0 ELSE Tail(r.v.fat, r.first)
  /\ first # 0 => r.first = first
  /\ first = 0 => r.first \in {0} \cup FreeOf(v.fat)
  /\ r.first = 0 <=> first = 0 /\ r.n = 0
  /\ Good(r.v.fat, With(S, r.first))
  /\ r.first # 0 => Long(r.v.fat, r.first, m + r.n)
  /\ \A s \in S \ {first} : \A len : Long(v.fat, s, len) => Long(r.v.fat, s, len)
  /\ Owned(v.fat, S) => Owned(r.v.fat, With(S, r.first))
  /\ Cardinality(FreeOf(r.v.fat)) = Cardinality(FreeOf(v.fat)) - r.n
  /\ r.v.free = IF v.free <= N THEN v.free - r.n ELSE v.free
  /\ r.n = 0 => r.v = v
  /\ r.n # 0 => r.v.dirty
  /\ r.n < i => Pick(r.v, r.tail) = 0

\* create_chain as a whole keeps the volume well typed.
LEMMA LinkedType ==
  ASSUME NEW v \in Volume, NEW clst, NEW ncl \in FreeOf(v.fat), v.free # 0,
         clst \in Clusters => v.fat[clst] # 0
  PROVE  /\ Linked(v, clst, ncl) \in Volume
         /\ Linked(v, clst, ncl).fat = LinkedFat(v.fat, clst, ncl)
         /\ Linked(v, clst, ncl).free = IF v.free <= N THEN v.free - 1 ELSE v.free
         /\ Linked(v, clst, ncl).dirty
<1>1. Linked(v, clst, ncl) = [fat   |-> LinkedFat(v.fat, clst, ncl),
                              free  |-> IF v.free <= N THEN v.free - 1 ELSE v.free,
                              last  |-> ncl,
                              dirty |-> TRUE]
  BY DEF Linked, LinkedFat
<1>2. v.fat \in FatT /\ v.free \in (0 .. N) \cup {Unknown}
  BY DEF Volume, FatT
<1>3. LinkedFat(v.fat, clst, ncl) \in FatT
  BY <1>2, LinkTakesOne
<1>4. N \in Nat \ {0}
  BY AllocAssumption
<1>5. ncl \in 0 .. Unknown
  BY <1>4 DEF FreeOf, Clusters, Unknown
<1>6. (IF v.free <= N THEN v.free - 1 ELSE v.free) \in (0 .. N) \cup {Unknown}
  BY <1>2, <1>4 DEF Unknown
<1>7. Linked(v, clst, ncl) \in Volume
  BY <1>1, <1>3, <1>5, <1>6 DEF Volume, FatT
<1>8. QED
  BY <1>1, <1>7

\* One round keeps what the rounds before it made.
LEMMA RoundGrows ==
  ASSUME NEW v \in Volume, NEW S, Good(v.fat, S), NEW first, NEW m \in Nat,
         first = 0 => m = 0, first # 0 => first \in S,
         NEW i \in Nat \ {0}, NEW p, Grown(v, first, m, S, p, i - 1)
  PROVE  Grown(v, first, m, S, AppendRound(p, i), i)
<1> DEFINE ncl == Pick(p.v, p.tail)
           r == AppendRound(p, i)
           F == Cardinality(FreeOf(v.fat))
<1>1. /\ p.n \in 0 .. i - 1 /\ p.v \in Volume
      /\ p.tail = IF p.first = 0 THEN 0 ELSE Tail(p.v.fat, p.first)
      /\ first # 0 => p.first = first
      /\ first = 0 => p.first \in {0} \cup FreeOf(v.fat)
      /\ p.first = 0 <=> first = 0 /\ p.n = 0
  BY DEF Grown
<1>2. /\ Good(p.v.fat, With(S, p.first))
      /\ p.first # 0 => Long(p.v.fat, p.first, m + p.n)
      /\ \A s \in S \ {first} : \A len : Long(v.fat, s, len) => Long(p.v.fat, s, len)
      /\ Owned(v.fat, S) => Owned(p.v.fat, With(S, p.first))
  BY DEF Grown
<1>3. /\ Cardinality(FreeOf(p.v.fat)) = F - p.n
      /\ p.v.free = IF v.free <= N THEN v.free - p.n ELSE v.free
      /\ p.n = 0 => p.v = v
      /\ p.n # 0 => p.v.dirty
      /\ p.n < i - 1 => Pick(p.v, p.tail) = 0
  BY DEF Grown
<1>4. p.tail \in {0} \cup Clusters
  BY <1>1, <1>2, LongIs
<1>5. CASE p.n < i - 1 \/ ncl = 0
  <2>1. r = p
    BY <1>5 DEF AppendRound
  <2>2. p.n \in 0 .. i /\ Pick(p.v, p.tail) = 0
    BY <1>1, <1>3, <1>5
  <2> HIDE DEF r, ncl, F
  <2>3. Grown(v, first, m, S, p, i)
    BY <1>1, <1>2, <1>3, <2>2 DEF Grown, F
  <2>4. QED
    BY <2>1, <2>3 DEF r
<1>6. CASE ~(p.n < i - 1 \/ ncl = 0)
  <2> DEFINE w == Linked(p.v, p.tail, ncl)
  <2>1. p.n = i - 1 /\ ncl # 0
    BY <1>1, <1>6
  <2>2. ncl \in FreeOf(p.v.fat) /\ p.v.free # 0
    BY <1>1, <1>4, <2>1, PickFinds
  <2>3. r = [v |-> w, tail |-> ncl, n |-> i, first |-> IF p.first = 0 THEN ncl ELSE p.first]
    BY <1>6 DEF AppendRound
  <2> HIDE DEF r, ncl, w
  <2>4. r.v = w /\ r.tail = ncl /\ r.n = i /\ r.first = IF p.first = 0 THEN ncl ELSE p.first
    BY <2>3
  <2>5. ncl \in Clusters /\ p.v.fat[ncl] = 0 /\ ncl # EOC
    BY <2>2, ClusterFacts DEF FreeOf
  <2>6. p.tail \in Clusters => p.v.fat[p.tail] # 0
    <3>1. p.tail \in Clusters => p.first # 0 /\ p.tail = Tail(p.v.fat, p.first)
      BY <1>1, ClusterFacts
    <3>2. SUFFICES ASSUME p.first # 0 PROVE p.v.fat[Tail(p.v.fat, p.first)] # 0
      BY <3>1
    <3>3. PICK q : IsChain(p.v.fat, p.first, q, m + p.n)
      BY <1>2, <3>2 DEF Long
    <3>4. Tail(p.v.fat, p.first) = q[(m + p.n) - 1]
      BY <3>3, ChainIs
    <3>5. p.v.fat[q[(m + p.n) - 1]] = EOC
      BY <3>3 DEF IsChain
    <3>6. QED
      BY <3>4, <3>5, ClusterFacts
  <2>7. /\ w \in Volume /\ w.fat = LinkedFat(p.v.fat, p.tail, ncl)
        /\ w.free = IF p.v.free <= N THEN p.v.free - 1 ELSE p.v.free
        /\ w.dirty
    BY <1>1, <2>2, <2>6, LinkedType DEF w
  <2>8. Cardinality(FreeOf(w.fat)) = F - i
    <3>1. p.v.fat \in FatT
      BY <1>2 DEF Good
    <3>2. Cardinality(FreeOf(w.fat)) = Cardinality(FreeOf(p.v.fat)) - 1
      BY <2>2, <2>6, <2>7, <3>1, LinkTakesOne
    <3>3. F \in Nat
      BY FreeFacts
    <3>4. QED
      BY <1>3, <2>1, <3>2, <3>3
  <2>9. w.free = IF v.free <= N THEN v.free - i ELSE v.free
    <3>1. v.free \in (0 .. N) \cup {Unknown} /\ N \in Nat
      BY AllocAssumption DEF Volume
    <3>2. QED
      BY <1>1, <1>3, <2>1, <2>7, <3>1 DEF Unknown
  <2>10. /\ i \in 0 .. i /\ i # 0 /\ ~(i < i)
    OBVIOUS
  <2>11. /\ Good(w.fat, With(S, r.first))
         /\ Long(w.fat, r.first, m + i) /\ Tail(w.fat, r.first) = ncl
         /\ \A s \in S \ {first} : \A len : Long(v.fat, s, len) => Long(w.fat, s, len)
         /\ Owned(v.fat, S) => Owned(w.fat, With(S, r.first))
         /\ r.first # 0
         /\ first # 0 => r.first = first
         /\ first = 0 => r.first \in FreeOf(v.fat)
    <3>1. CASE p.first = 0
      <4>1. first = 0 /\ p.n = 0 /\ m = 0 /\ p.v = v /\ p.tail = 0 /\ r.first = ncl /\ i = 1 /\ ncl # 0
        BY <1>1, <1>3, <2>1, <2>4, <3>1
      <4>2. With(S, r.first) = S \cup {ncl}
        BY <4>1 DEF With
      <4>3. w.fat = LinkedFat(v.fat, 0, ncl) /\ ncl \in FreeOf(v.fat)
        BY <2>2, <2>7, <4>1
      <4>4. /\ Good(w.fat, S \cup {ncl})
            /\ Long(w.fat, ncl, 1) /\ Tail(w.fat, ncl) = ncl
            /\ \A s, len : Long(v.fat, s, len) => Long(w.fat, s, len)
            /\ Owned(v.fat, S) => Owned(w.fat, S \cup {ncl})
        BY <4>3, LinkNew
      <4>5. m + i = 1
        BY <4>1
      <4>6. QED
        BY <4>1, <4>2, <4>3, <4>4, <4>5
    <3>2. CASE p.first # 0
      <4> DEFINE SS == With(S, p.first)
      <4>1. /\ r.first = p.first /\ p.first \in SS
            /\ p.tail = Tail(p.v.fat, p.first)
            /\ (m + p.n) + 1 = m + i
        BY <1>1, <2>1, <2>4, <3>2 DEF With
      <4>2. Good(p.v.fat, SS) /\ Long(p.v.fat, p.first, m + p.n)
        BY <1>2, <3>2
      <4>3. \A s \in S \ {first} : s \in SS \ {p.first}
        <5>1. first = 0 => p.first \notin S
          BY <1>1, <3>2, GoodStart DEF FreeOf
        <5>2. QED
          BY <1>1, <5>1 DEF With
      <4> HIDE DEF SS
      <4>4. /\ Good(w.fat, SS)
            /\ Long(w.fat, p.first, (m + p.n) + 1) /\ Tail(w.fat, p.first) = ncl
            /\ \A s \in SS \ {p.first} : \A len : Long(p.v.fat, s, len) => Long(w.fat, s, len)
            /\ Owned(p.v.fat, SS) => Owned(w.fat, SS)
        BY <2>2, <2>7, <4>1, <4>2, LinkOld
      <4>5. \A s \in S \ {first} : \A len : Long(v.fat, s, len) => Long(w.fat, s, len)
        BY <1>2, <4>3, <4>4
      <4>6. Owned(v.fat, S) => Owned(w.fat, SS)
        BY <1>2, <4>4 DEF SS
      <4>7. /\ first # 0 => r.first = first
            /\ first = 0 => r.first \in FreeOf(v.fat)
        BY <1>1, <3>2, <4>1
      <4>8. QED
        BY <3>2, <4>1, <4>4, <4>5, <4>6, <4>7 DEF SS
    <3>3. QED
      BY <3>1, <3>2
  <2>12. Grown(v, first, m, S, r, i)
    BY <2>4, <2>7, <2>8, <2>9, <2>10, <2>11 DEF Grown, F
  <2>13. QED
    BY <2>12 DEF r
<1>7. QED
  BY <1>5, <1>6

\* Append grows the chain by all rounds that find a cluster.
LEMMA AppendGrows ==
  ASSUME NEW v \in Volume, NEW S, Good(v.fat, S), NEW first, NEW m \in Nat, NEW k \in Nat,
         first = 0 => m = 0, first # 0 => first \in S /\ Long(v.fat, first, m)
  PROVE  Grown(v, first, m, S, Append(v, first, k), k)
<1>1. PICK a : /\ a[0] = AppendStart(v, first)
               /\ \A i \in 1 .. k : a[i] = AppendRound(a[i - 1], i)
               /\ Append(v, first, k) = a[k]
  BY AppendDef
<1> DEFINE T == {i \in 0 .. k : Grown(v, first, m, S, a[i], i)}
<1>2. 0 \in T
  <2>1. a[0] = [v |-> v, first |-> first, tail |-> Tail(v.fat, first), n |-> 0]
    BY <1>1 DEF AppendStart
  <2>2. a[0].v = v /\ a[0].first = first /\ a[0].n = 0 /\ a[0].tail = Tail(v.fat, first)
    BY <2>1
  <2>3. first = 0 => Tail(v.fat, first) = 0
    BY DEF Tail
  <2>4. With(S, first) = S
    BY DEF With
  <2>5. v.free \in (0 .. N) \cup {Unknown} /\ Cardinality(FreeOf(v.fat)) \in Nat /\ N \in Nat
    BY FreeFacts, AllocAssumption DEF Volume
  <2>6. /\ Cardinality(FreeOf(v.fat)) = Cardinality(FreeOf(v.fat)) - 0
        /\ v.free = IF v.free <= N THEN v.free - 0 ELSE v.free
        /\ m + 0 = m /\ ~(0 < 0) /\ 0 \in 0 .. 0
    BY <2>5 DEF Unknown
  <2>7. Grown(v, first, m, S, a[0], 0)
    BY <2>2, <2>3, <2>4, <2>6 DEF Grown
  <2>8. QED
    BY <2>7
<1>3. ASSUME NEW i \in 0 .. k - 1, i \in T PROVE i + 1 \in T
  <2>1. i + 1 \in 1 .. k /\ (i + 1) - 1 = i /\ i + 1 \in Nat \ {0} /\ i + 1 \in 0 .. k
    OBVIOUS
  <2>2. Grown(v, first, m, S, a[i], (i + 1) - 1)
    BY <1>3, <2>1
  <2>3. Grown(v, first, m, S, AppendRound(a[i], i + 1), i + 1)
    BY <2>1, <2>2, RoundGrows
  <2>4. a[i + 1] = AppendRound(a[i], i + 1)
    BY <1>1, <2>1
  <2>5. QED
    BY <2>1, <2>3, <2>4
<1> HIDE DEF T
<1>4. \A i \in 0 .. k : i \in T
  BY <1>2, <1>3, InductionTo
<1>5. k \in 0 .. k
  OBVIOUS
<1>6. QED
  BY <1>1, <1>4, <1>5 DEF T

\* It stops short exactly when more is asked for than there is.
LEMMA AppendFull ==
  ASSUME NEW v \in Volume, v.free <= N => v.free >= Cardinality(FreeOf(v.fat)),
         NEW S, NEW first, NEW m, NEW k \in Nat, NEW e, Grown(v, first, m, S, e, k)
  PROVE  /\ e.n < k <=> Cardinality(FreeOf(v.fat)) < k
         /\ e.n = k <=> ~(Cardinality(FreeOf(v.fat)) < k)
<1> DEFINE F == Cardinality(FreeOf(v.fat))
           G == Cardinality(FreeOf(e.v.fat))
<1>1. e.n \in 0 .. k /\ e.v \in Volume /\ G = F - e.n
  BY DEF Grown
<1>2. /\ e.v.free = IF v.free <= N THEN v.free - e.n ELSE v.free
      /\ e.n < k => Pick(e.v, e.tail) = 0
  BY DEF Grown
<1>3. F \in Nat /\ G \in Nat
  BY FreeFacts
<1>4. e.tail \in {0} \cup Clusters
  BY LongIs DEF Grown
<1>5. ASSUME e.n < k PROVE G = 0
  <2>1. e.v.free = 0 \/ FreeOf(e.v.fat) = {}
    BY <1>1, <1>2, <1>4, <1>5, PickFinds
  <2>2. CASE FreeOf(e.v.fat) = {}
    BY <2>2, FS_EmptySet
  <2>3. CASE e.v.free = 0
    <3>1. v.free \in (0 .. N) \cup {Unknown} /\ N \in Nat
      BY AllocAssumption DEF Volume
    <3>2. v.free <= N /\ v.free = e.n
      BY <1>1, <1>2, <2>3, <3>1 DEF Unknown
    <3>3. QED
      BY <1>1, <1>3, <3>1, <3>2
  <2>4. QED
    BY <2>1, <2>2, <2>3
<1> HIDE DEF F, G
<1>6. QED
  BY <1>1, <1>3, <1>5 DEF F
-----------------------------------------------------------------------------
(* What an operation makes of the volume.                                  *)

\* w is v with m clusters taken.
Taken(v, w, m) ==
  /\ v \in Volume /\ w \in Volume /\ m \in Nat
  /\ Cardinality(FreeOf(w.fat)) = Cardinality(FreeOf(v.fat)) - m
  /\ w.free = IF v.free <= N THEN v.free - m ELSE v.free
  /\ m = 0 => w = v
  /\ m # 0 => w.dirty

\* w is v with m clusters given back.
Given(v, w, m) ==
  /\ v \in Volume /\ w \in Volume /\ m \in Nat
  /\ Cardinality(FreeOf(w.fat)) = Cardinality(FreeOf(v.fat)) + m
  /\ w.free = IF v.free <= N THEN IF v.free + m <= N THEN v.free + m ELSE N ELSE v.free
  /\ w.dirty = (v.dirty \/ v.free < N)

\* f_truncate, and remove_chain of a whole chain: the chain keeps len clusters.
LEMMA CutGives ==
  ASSUME NEW v \in Volume, NEW S, Good(v.fat, S), NEW s \in S,
         NEW n, Long(v.fat, s, n), NEW len \in 0 .. n - 1,
         NEW T, T = IF len = 0 THEN S \ {s} ELSE S
  PROVE  LET w == Cut(v, s, len) IN
         /\ Given(v, w, n - len)
         /\ Good(w.fat, T)
         /\ len # 0 => Long(w.fat, s, len)
         /\ \A r \in S \ {s} : \A m : Long(v.fat, r, m) => Long(w.fat, r, m)
         /\ Owned(v.fat, S) => Owned(w.fat, T)
<1>1. PICK p : IsChain(v.fat, s, p, n)
  BY DEF Long
<1> DEFINE gone == {p[i] : i \in len .. n - 1}
           pclst == IF len = 0 THEN 0 ELSE p[len - 1]
           g == CutFat(v.fat, gone, pclst)
           w == Cut(v, s, len)
<1>2. n \in 1 .. N /\ n - len \in Nat /\ len \in Nat
  BY <1>1, ChainBound
<1>3. p \in [0 .. n - 1 -> Clusters] /\ p[0] = s
  BY <1>1 DEF IsChain
<1>4. w = remove_chain(v, p[len], pclst)
  <2>1. CASE len = 0
    BY <1>3, <2>1 DEF Cut
  <2>2. CASE len # 0
    <3>1. len - 1 \in 0 .. n - 1
      BY <1>2, <2>2
    <3>2. Follow(v.fat, s)[len] = p[len] /\ Follow(v.fat, s)[len - 1] = p[len - 1]
      BY <1>1, <3>1, ChainIs
    <3>3. p[len] \in Clusters
      BY <1>3
    <3>4. QED
      BY <2>2, <3>2, <3>3 DEF Cut
  <2>3. QED
    BY <2>1, <2>2
<1>5. IsRest(gone, p, len, n)
  BY DEF IsRest
<1>6. Chain(v.fat, p[len]) = gone /\ Cardinality(gone) = n - len
  <2> HIDE DEF gone
  <2>1. QED
    BY <1>1, <1>5, RestOfChain
<1>7. w = [fat   |-> g,
           free  |-> IF v.free <= N
                       THEN IF v.free + (n - len) <= N THEN v.free + (n - len) ELSE N
                       ELSE v.free,
           last  |-> v.last,
           dirty |-> v.dirty \/ v.free < N]
  BY <1>4, <1>6 DEF remove_chain, CutFat
<1>8. /\ Good(g, T)
      /\ len # 0 => Long(g, s, len)
      /\ \A r \in S \ {s} : \A m : Long(v.fat, r, m) => Long(g, r, m)
      /\ Owned(v.fat, S) => Owned(g, T)
      /\ Cardinality(FreeOf(g)) = Cardinality(FreeOf(v.fat)) + (n - len)
  <2>1. pclst = IF len = 0 THEN 0 ELSE p[len - 1]
    OBVIOUS
  <2> HIDE DEF gone, pclst
  <2>2. QED
    BY <1>1, <1>5, <2>1, Remove
<1> HIDE DEF g, w, gone, pclst
<1>9. w.fat = g
  BY <1>7
<1>10. Given(v, w, n - len)
  <2>1. g \in FatT
    BY <1>8 DEF Good
  <2>2. v.free \in (0 .. N) \cup {Unknown} /\ v.last \in 0 .. Unknown /\ v.dirty \in BOOLEAN
    BY DEF Volume
  <2>3. N \in Nat
    BY AllocAssumption
  <2>4. (IF v.free <= N THEN IF v.free + (n - len) <= N THEN v.free + (n - len) ELSE N ELSE v.free)
          \in (0 .. N) \cup {Unknown}
    BY <1>2, <2>2, <2>3 DEF Unknown
  <2>5. w \in Volume
    BY <1>7, <2>1, <2>2, <2>4 DEF Volume, FatT
  <2>6. /\ w.free = IF v.free <= N THEN IF v.free + (n - len) <= N THEN v.free + (n - len) ELSE N ELSE v.free
        /\ w.dirty = (v.dirty \/ v.free < N)
    BY <1>7
  <2>7. QED
    BY <1>2, <1>8, <1>9, <2>5, <2>6 DEF Given
<1>11. QED
  BY <1>8, <1>9, <1>10 DEF w

\* remove_chain of a whole chain.
LEMMA CutWhole ==
  ASSUME NEW v \in Volume, NEW S, Good(v.fat, S), NEW s \in S, NEW n, Long(v.fat, s, n)
  PROVE  /\ Given(v, Cut(v, s, 0), n)
         /\ Good(Cut(v, s, 0).fat, S \ {s})
         /\ \A r \in S \ {s} : \A m : Long(v.fat, r, m) => Long(Cut(v, s, 0).fat, r, m)
         /\ Owned(v.fat, S) => Owned(Cut(v, s, 0).fat, S \ {s})
<1>1. n \in 1 .. N
  BY LongIs
<1>2. 0 \in 0 .. n - 1 /\ n - 0 = n
  BY <1>1, AllocAssumption
<1> DEFINE zero == 0
           T == S \ {s}
<1>3. zero \in 0 .. n - 1 /\ n - zero = n /\ T = IF zero = 0 THEN S \ {s} ELSE S
  BY <1>2
<1> HIDE DEF zero, T
<1>4. /\ Given(v, Cut(v, s, zero), n - zero)
      /\ Good(Cut(v, s, zero).fat, T)
      /\ \A r \in S \ {s} : \A m : Long(v.fat, r, m) => Long(Cut(v, s, zero).fat, r, m)
      /\ Owned(v.fat, S) => Owned(Cut(v, s, zero).fat, T)
  BY <1>3, CutGives
<1>5. QED
  BY <1>3, <1>4 DEF zero, T

\* An operation that changes nothing.
LEMMA NothingTaken ==
  ASSUME NEW v \in Volume
  PROVE  Taken(v, v, 0)
<1>1. v.free \in (0 .. N) \cup {Unknown} /\ N \in Nat /\ Cardinality(FreeOf(v.fat)) \in Nat
  BY FreeFacts, AllocAssumption DEF Volume
<1>2. QED
  BY <1>1 DEF Taken, Unknown

\* dir_register: the directory may take clusters, everything else stays.
LEMMA Registered ==
  ASSUME fat32 \in BOOLEAN,
         NEW v \in Volume, v.free <= N => v.free >= Cardinality(FreeOf(v.fat)),
         NEW S, Good(v.fat, S), Root # 0 => Root \in S, NEW r \in Registrations(v)
  PROVE  /\ \E m : Taken(v, r.v, m)
         /\ Good(r.v.fat, S)
         /\ \A s \in S \ {Root} : \A m : Long(v.fat, s, m) => Long(r.v.fat, s, m)
         /\ Owned(v.fat, S) => Owned(r.v.fat, S)
         /\ r.wanted \in Nat
         /\ r.full = (Cardinality(FreeOf(v.fat)) < r.wanted)
<1>1. CASE r \in {[v |-> v, ok |-> ok, wanted |-> 0, full |-> FALSE] : ok \in BOOLEAN}
  <2>1. r.v = v /\ r.wanted = 0 /\ r.full = FALSE
    BY <1>1
  <2>2. Cardinality(FreeOf(v.fat)) \in Nat /\ ~(Cardinality(FreeOf(v.fat)) < 0)
    BY FreeFacts
  <2>3. Taken(v, r.v, 0)
    BY <2>1, NothingTaken
  <2>4. r.full = (Cardinality(FreeOf(v.fat)) < r.wanted)
    <3>1. (Cardinality(FreeOf(v.fat)) < 0) = FALSE
      BY <2>2
    <3>2. QED
      BY <2>1, <3>1
  <2>5. r.wanted \in Nat
    BY <2>1
  <2>6. /\ Good(r.v.fat, S)
        /\ \A s \in S \ {Root} : \A m : Long(v.fat, s, m) => Long(r.v.fat, s, m)
        /\ Owned(v.fat, S) => Owned(r.v.fat, S)
    BY <2>1
  <2>7. QED
    BY <2>3, <2>4, <2>5, <2>6
<1>2. CASE fat32 /\ r \in {Stretched(v, k) : k \in 1 .. MaxStretch}
  <2>1. PICK k \in 1 .. MaxStretch : r = Stretched(v, k)
    BY <1>2
  <2> DEFINE e == Append(v, Root, k)
  <2>2. r = [v |-> e.v, ok |-> e.n = k, wanted |-> k, full |-> e.n < k]
    BY <2>1 DEF Stretched
  <2>3. r.v = e.v /\ r.wanted = k /\ r.full = (e.n < k)
    BY <2>2
  <2>4. Root = 2 /\ Root # 0 /\ Root \in S /\ k \in Nat
    BY <1>2 DEF Root
  <2>5. PICK n \in 1 .. N : Long(v.fat, Root, n)
    BY <2>4, GoodStart
  <2>6. Grown(v, Root, n, S, e, k)
    BY <2>4, <2>5, AppendGrows
  <2> HIDE DEF e
  <2>7. With(S, e.first) = S
    BY <2>4, <2>6 DEF With, Grown
  <2>8. Taken(v, e.v, e.n)
    BY <2>4, <2>6 DEF Taken, Grown
  <2>9. /\ Good(e.v.fat, S)
        /\ \A s \in S \ {Root} : \A m : Long(v.fat, s, m) => Long(e.v.fat, s, m)
        /\ Owned(v.fat, S) => Owned(e.v.fat, S)
    BY <2>6, <2>7 DEF Grown
  <2>10. (e.n < k) = (Cardinality(FreeOf(v.fat)) < k)
    BY <2>4, <2>6, AppendFull
  <2>11. QED
    BY <2>3, <2>4, <2>8, <2>9, <2>10
<1>3. QED
  BY <1>1, <1>2 DEF Registrations

\* The chains of g are those of the directory o with z as its entry x.
Fits(g, o, root, x, z) ==
  /\ z \in Object
  /\ z.kind = "none" => z = NoObject
  /\ z.first = 0 => z.len = 0
  /\ z.first # 0 => Long(g, z.first, z.len) /\ z.first # root
                    /\ \A y \in Names \ {x} : o[y].first # z.first
  /\ \A y \in Names \ {x} : o[y].first # 0 => Long(g, o[y].first, o[y].len)

\* u is o with z for the entry of x (the write of one directory entry).
IsPut(u, o, x, z) == u = [o EXCEPT ![x] = z]

\* One start less, another one more.
Moved(S, old, new) == (S \ {old}) \cup ({new} \ {0})

\* One entry of the directory is written.
LEMMA EntryPut ==
  ASSUME NEW fat, NEW g, NEW o, NEW root, Entries(fat, o, root),
         NEW x \in Names, NEW z, Fits(g, o, root, x, z), NEW u, IsPut(u, o, x, z),
         NEW old, old = o[x].first
  PROVE  /\ Entries(g, u, root)
         /\ Firsts(u, root) = Moved(Firsts(o, root), old, z.first)
<1>1. /\ z \in Object
      /\ z.kind = "none" => z = NoObject
      /\ z.first = 0 => z.len = 0
      /\ z.first # 0 => Long(g, z.first, z.len) /\ z.first # root
                        /\ \A y \in Names \ {x} : o[y].first # z.first
      /\ \A y \in Names \ {x} : o[y].first # 0 => Long(g, o[y].first, o[y].len)
  BY DEF Fits
<1>2. /\ o \in [Names -> Object]
      /\ \A a, b \in Names : o[a].first = o[b].first /\ a # b => o[a].first = 0
      /\ \A a \in Names : o[a].first # 0 => o[a].first # root
      /\ \A a \in Names : o[a].kind = "none" => o[a] = NoObject
      /\ \A a \in Names : o[a].first = 0 => o[a].len = 0
  BY DEF Entries
<1>3. u \in [Names -> Object] /\ u[x] = z /\ \A y \in Names \ {x} : u[y] = o[y]
  BY <1>1, <1>2 DEF IsPut
<1>4. Entries(g, u, root)
  <2>1. \A a, b \in Names : u[a].first = u[b].first /\ a # b => u[a].first = 0
    BY <1>1, <1>2, <1>3
  <2>2. \A a \in Names : u[a].first # 0 => u[a].first # root
    BY <1>1, <1>2, <1>3
  <2>3. \A a \in Names : u[a].kind = "none" => u[a] = NoObject
    BY <1>1, <1>2, <1>3
  <2>4. \A a \in Names : u[a].first = 0 => u[a].len = 0
    BY <1>1, <1>2, <1>3
  <2>5. \A a \in Names : u[a].first # 0 => Long(g, u[a].first, u[a].len)
    BY <1>1, <1>3
  <2>6. QED
    BY <1>3, <2>1, <2>2, <2>3, <2>4, <2>5 DEF Entries
<1>5. Firsts(u, root) = Moved(Firsts(o, root), old, z.first)
  <2>1. \A c : c \in Firsts(u, root) <=> c # 0 /\ (c = root \/ \E a \in Names : c = u[a].first)
    BY DEF Firsts
  <2>2. \A c : c \in Firsts(o, root) <=> c # 0 /\ (c = root \/ \E a \in Names : c = o[a].first)
    BY DEF Firsts
  <2>3. \A c : c \in Moved(Firsts(o, root), old, z.first)
               <=> (c \in Firsts(o, root) /\ c # old) \/ (c = z.first /\ c # 0)
    BY DEF Moved
  <2>4. ASSUME NEW c, c \in Firsts(u, root)
        PROVE  (c \in Firsts(o, root) /\ c # old) \/ (c = z.first /\ c # 0)
    BY <1>1, <1>2, <1>3, <2>1, <2>2, <2>4
  <2>5. ASSUME NEW c, (c \in Firsts(o, root) /\ c # old) \/ (c = z.first /\ c # 0)
        PROVE  c \in Firsts(u, root)
    BY <1>1, <1>3, <2>1, <2>2, <2>5
  <2>6. QED
    BY <2>3, <2>4, <2>5
<1>6. QED
  BY <1>4, <1>5
-----------------------------------------------------------------------------
(* The counts in memory and on the device across an operation.             *)

\* The numbers in a volume, for the arithmetic below.
LEMMA VolumeFacts ==
  ASSUME NEW v \in Volume
  PROVE  /\ v.free \in (0 .. N) \cup {Unknown} /\ v.last \in 0 .. Unknown /\ v.dirty \in BOOLEAN
         /\ N \in Nat \ {0} /\ Unknown = N + 2
         /\ Cardinality(FreeOf(v.fat)) \in 0 .. N
BY FreeFacts, AllocAssumption DEF Volume, Unknown

\* sync_fs writes FSInfo and the FAT: the counts stay right when those of the new
\* volume are, and a volume that is not dirty has the count it had.
LEMMA SyncedDevice ==
  ASSUME fat32 \in BOOLEAN, Device, NEW w \in Volume, Synced(w), History,
         w.free <= N => w.free >= Cardinality(FreeOf(w.fat)),
         ~drifted /\ w.free <= N => w.free = Cardinality(FreeOf(w.fat)),
         ~w.dirty => ~vol.dirty /\ w.free = vol.free
  PROVE  Device' /\ vol'.fat = w.fat
<1>1. /\ vol' = [w EXCEPT !.dirty = w.dirty /\ ~fat32]
      /\ diskfat' = w.fat
      /\ info' = IF fat32 /\ w.dirty THEN [free |-> w.free, last |-> w.last] ELSE info
      /\ fat32' = fat32 /\ drifted' = drifted
  BY DEF Synced, History
<1>2. /\ w.free \in (0 .. N) \cup {Unknown} /\ w.last \in 0 .. Unknown /\ w.dirty \in BOOLEAN
      /\ N \in Nat \ {0} /\ Unknown = N + 2
      /\ Cardinality(FreeOf(w.fat)) \in 0 .. N
  BY VolumeFacts
<1>3. vol' \in Volume /\ vol'.fat = w.fat /\ vol'.free = w.free /\ vol'.dirty = (w.dirty /\ ~fat32)
  BY <1>1, <1>2 DEF Volume
<1>4. /\ info \in [free : (0 .. N) \cup {Unknown}, last : 0 .. Unknown]
      /\ fat32 /\ ~vol.dirty => info.free = vol.free
  BY DEF Device, Counts
<1>5. info' \in [free : (0 .. N) \cup {Unknown}, last : 0 .. Unknown]
  BY <1>1, <1>2, <1>4
<1>6. fat32 => info'.free = w.free
  BY <1>1, <1>4
<1>7. Counts'
  BY <1>1, <1>3, <1>6 DEF Counts
<1>8. OnDisk'
  BY <1>1, <1>3 DEF OnDisk
<1>9. QED
  BY <1>3, <1>5, <1>7, <1>8 DEF Device

\* After create_chain took m clusters and sync_fs succeeded, device and counts
\* agree with memory.
LEMMA SyncedTaken ==
  ASSUME fat32 \in BOOLEAN, Device, NEW w, NEW m, Taken(vol, w, m), Synced(w), History
  PROVE  Device' /\ vol'.fat = w.fat
<1>1. /\ vol \in Volume /\ w \in Volume /\ m \in Nat
      /\ Cardinality(FreeOf(w.fat)) = Cardinality(FreeOf(vol.fat)) - m
      /\ w.free = IF vol.free <= N THEN vol.free - m ELSE vol.free
      /\ m = 0 => w = vol
      /\ m # 0 => w.dirty
  BY DEF Taken
<1>2. /\ vol.free \in (0 .. N) \cup {Unknown} /\ w.free \in (0 .. N) \cup {Unknown}
      /\ N \in Nat \ {0} /\ Unknown = N + 2
      /\ Cardinality(FreeOf(vol.fat)) \in 0 .. N /\ Cardinality(FreeOf(w.fat)) \in 0 .. N
  BY <1>1, VolumeFacts
<1>3. /\ vol.free <= N => vol.free >= Cardinality(FreeOf(vol.fat))
      /\ ~drifted /\ vol.free <= N => vol.free = Cardinality(FreeOf(vol.fat))
  BY DEF Device, Counts
<1>4. /\ w.free <= N => w.free >= Cardinality(FreeOf(w.fat))
      /\ ~drifted /\ w.free <= N => w.free = Cardinality(FreeOf(w.fat))
      /\ ~w.dirty => ~vol.dirty /\ w.free = vol.free
  BY <1>1, <1>2, <1>3
<1>5. QED
  BY <1>1, <1>4, SyncedDevice

\* The same after remove_chain gave m clusters back.
LEMMA SyncedGiven ==
  ASSUME fat32 \in BOOLEAN, Device, NEW w, NEW m, Given(vol, w, m), Synced(w), History
  PROVE  Device' /\ vol'.fat = w.fat
<1>1. /\ vol \in Volume /\ w \in Volume /\ m \in Nat
      /\ Cardinality(FreeOf(w.fat)) = Cardinality(FreeOf(vol.fat)) + m
      /\ w.free = IF vol.free <= N THEN IF vol.free + m <= N THEN vol.free + m ELSE N ELSE vol.free
      /\ w.dirty = (vol.dirty \/ vol.free < N)
  BY DEF Given
<1>2. /\ vol.free \in (0 .. N) \cup {Unknown} /\ w.free \in (0 .. N) \cup {Unknown}
      /\ N \in Nat \ {0} /\ Unknown = N + 2
      /\ Cardinality(FreeOf(vol.fat)) \in 0 .. N /\ Cardinality(FreeOf(w.fat)) \in 0 .. N
  BY <1>1, VolumeFacts
<1>3. /\ vol.free <= N => vol.free >= Cardinality(FreeOf(vol.fat))
      /\ ~drifted /\ vol.free <= N => vol.free = Cardinality(FreeOf(vol.fat))
  BY DEF Device, Counts
<1>4. /\ w.free <= N => w.free >= Cardinality(FreeOf(w.fat))
      /\ ~drifted /\ w.free <= N => w.free = Cardinality(FreeOf(w.fat))
  BY <1>1, <1>2, <1>3
<1>5. ASSUME ~w.dirty PROVE ~vol.dirty /\ w.free = vol.free
  <2>1. ~vol.dirty /\ ~(vol.free < N)
    BY <1>1, <1>5
  <2>2. w.free = vol.free
    BY <1>1, <1>2, <2>1
  <2>3. QED
    BY <2>1, <2>2
<1>6. QED
  BY <1>1, <1>4, <1>5, SyncedDevice

\* An operation that took clusters and is not synced: FSInfo stays too high.
LEMMA UnsyncedTaken ==
  ASSUME fat32 \in BOOLEAN, Device, NEW w, NEW m, Taken(vol, w, m), Unsynced(w, w.fat), History
  PROVE  Device' /\ vol'.fat = w.fat
<1>1. /\ vol \in Volume /\ w \in Volume /\ m \in Nat
      /\ Cardinality(FreeOf(w.fat)) = Cardinality(FreeOf(vol.fat)) - m
      /\ w.free = IF vol.free <= N THEN vol.free - m ELSE vol.free
      /\ m = 0 => w = vol
      /\ m # 0 => w.dirty
  BY DEF Taken
<1>2. /\ vol.free \in (0 .. N) \cup {Unknown} /\ w.free \in (0 .. N) \cup {Unknown}
      /\ N \in Nat \ {0} /\ Unknown = N + 2
      /\ Cardinality(FreeOf(vol.fat)) \in 0 .. N /\ Cardinality(FreeOf(w.fat)) \in 0 .. N
  BY <1>1, VolumeFacts
<1>3. /\ vol.free <= N => vol.free >= Cardinality(FreeOf(vol.fat))
      /\ ~drifted /\ vol.free <= N => vol.free = Cardinality(FreeOf(vol.fat))
      /\ fat32 /\ ~vol.dirty => info.free = vol.free
      /\ fat32 /\ info.free <= N => info.free >= Cardinality(FreeOf(vol.fat))
      /\ info \in [free : (0 .. N) \cup {Unknown}, last : 0 .. Unknown]
  BY DEF Device, Counts
<1>4. vol' = w /\ diskfat' = w.fat /\ info' = info /\ fat32' = fat32 /\ drifted' = drifted
  BY DEF Unsynced, History
<1>5. /\ w.free <= N => w.free >= Cardinality(FreeOf(w.fat))
      /\ ~drifted /\ w.free <= N => w.free = Cardinality(FreeOf(w.fat))
  BY <1>1, <1>2, <1>3
<1>6. fat32 /\ ~w.dirty => info.free = w.free
  BY <1>1, <1>3
<1>7. fat32 /\ info.free <= N => info.free >= Cardinality(FreeOf(w.fat))
  <2>1. info.free \in Int
    BY <1>2, <1>3
  <2>2. QED
    BY <1>1, <1>2, <1>3, <2>1
<1>8. Counts'
  BY <1>4, <1>5, <1>6, <1>7 DEF Counts
<1>9. OnDisk'
  BY <1>4 DEF OnDisk
<1>10. QED
  BY <1>1, <1>3, <1>4, <1>8, <1>9 DEF Device
-----------------------------------------------------------------------------
(* The steps.                                                              *)

\* The answer of an operation: full when more is asked for than is free.
Told == reply'.full = (Cardinality(FreeOf(vol.fat)) < reply'.wanted)

\* What the invariant says of the directory and the chains in it.
LEMMA StateFacts ==
  ASSUME IInv
  PROVE  /\ fat32 \in BOOLEAN /\ vol \in Volume /\ Device
         /\ vol.free <= N => vol.free >= Cardinality(FreeOf(vol.fat))
         /\ Good(vol.fat, Firsts(objs, Root))
         /\ Root # 0 => Root \in Firsts(objs, Root)
         /\ objs \in [Names -> Object]
         /\ \A x \in Names : objs[x].kind = "none" => objs[x] = NoObject /\ objs[x].first = 0
         /\ \A x \in Names : objs[x].first = 0 => objs[x].len = 0
         /\ \A x \in Names : objs[x].first # 0 =>
              /\ objs[x].first \in Firsts(objs, Root) \ {Root}
              /\ objs[x].len \in 1 .. N
              /\ Long(vol.fat, objs[x].first, objs[x].len)
              /\ \A y \in Names \ {x} : objs[y].first # objs[x].first
<1>1. /\ fat32 \in BOOLEAN /\ vol \in Volume /\ Device
      /\ vol.free <= N => vol.free >= Cardinality(FreeOf(vol.fat))
      /\ Good(vol.fat, Firsts(objs, Root))
  BY DEF IInv, Device, Counts
<1>2. Entries(vol.fat, objs, Root)
  BY DEF IInv
<1>3. NoObject.first = 0
  BY DEF NoObject
<1>4. /\ objs \in [Names -> Object]
      /\ \A x \in Names : objs[x].kind = "none" => objs[x] = NoObject
      /\ \A x \in Names : objs[x].first = 0 => objs[x].len = 0
      /\ \A x, y \in Names : objs[x].first = objs[y].first /\ x # y => objs[x].first = 0
      /\ \A x \in Names : objs[x].first # 0 =>
           objs[x].first # Root /\ Long(vol.fat, objs[x].first, objs[x].len)
  BY <1>2 DEF Entries
<1>5. Root # 0 => Root \in Firsts(objs, Root)
  BY DEF Firsts
<1>6. \A x \in Names : objs[x].first # 0 => objs[x].first \in Firsts(objs, Root)
  BY DEF Firsts
<1>7. \A x \in Names : objs[x].first # 0 => objs[x].len \in 1 .. N
  BY <1>4, LongIs
<1>8. QED
  BY <1>1, <1>3, <1>4, <1>5, <1>6, <1>7

\* The parts of an operation make the invariant again.
LEMMA Closed ==
  ASSUME IInv, History, NEW a \in Nat, NEW b \in BOOLEAN, Answer(a, b),
         Device', NEW g, vol'.fat = g, NEW o, objs' = o,
         Good(g, Firsts(o, Root)), Entries(g, o, Root),
         unlost => Owned(g, Firsts(o, Root))
  PROVE  IInv' /\ reply'.wanted = a /\ reply'.full = b
<1>1. fat32' = fat32 /\ drifted' = drifted /\ unlost' = unlost
  BY DEF History
<1>2. Root' = Root
  BY <1>1 DEF Root
<1>3. reply' = [wanted |-> a, full |-> b]
  BY DEF Answer
<1>4. fat32 \in BOOLEAN /\ drifted \in BOOLEAN /\ unlost \in BOOLEAN
  BY DEF IInv
<1>5. Good(vol.fat, Firsts(objs, Root))' /\ Entries(vol.fat, objs, Root)'
  BY <1>2 DEF Firsts
<1>6. (unlost => Owned(vol.fat, Firsts(objs, Root)))'
  BY <1>1, <1>2 DEF Firsts
<1>7. QED
  BY <1>1, <1>3, <1>4, <1>5, <1>6 DEF IInv

\* The directory as it is, on a FAT that has kept the chains in it.
LEMMA EntriesKept ==
  ASSUME IInv, NEW g,
         \A s \in Firsts(objs, Root) \ {Root} : \A m : Long(vol.fat, s, m) => Long(g, s, m)
  PROVE  /\ Entries(g, objs, Root)
         /\ \A x \in Names : objs[x].first # 0 => Long(g, objs[x].first, objs[x].len)
<1>1. \A x \in Names : objs[x].first # 0 => Long(g, objs[x].first, objs[x].len)
  BY StateFacts
<1>2. QED
  BY <1>1 DEF IInv, Entries

\* A registration that succeeds or not, with nothing else done to the chains.
LEMMA RegisteredState ==
  ASSUME IInv, NEW r \in Registrations(vol)
  PROVE  /\ \E m : Taken(vol, r.v, m)
         /\ Good(r.v.fat, Firsts(objs, Root))
         /\ Entries(r.v.fat, objs, Root)
         /\ \A x \in Names : objs[x].first # 0 => Long(r.v.fat, objs[x].first, objs[x].len)
         /\ unlost => Owned(r.v.fat, Firsts(objs, Root))
         /\ r.wanted \in Nat /\ r.full \in BOOLEAN
         /\ r.full = (Cardinality(FreeOf(vol.fat)) < r.wanted)
<1> DEFINE S == Firsts(objs, Root)
<1>1. /\ fat32 \in BOOLEAN /\ vol \in Volume
      /\ vol.free <= N => vol.free >= Cardinality(FreeOf(vol.fat))
      /\ Good(vol.fat, S)
      /\ Root # 0 => Root \in S
  BY StateFacts
<1> HIDE DEF S
<1>2. /\ \E m : Taken(vol, r.v, m)
      /\ Good(r.v.fat, S)
      /\ \A s \in S \ {Root} : \A m : Long(vol.fat, s, m) => Long(r.v.fat, s, m)
      /\ Owned(vol.fat, S) => Owned(r.v.fat, S)
      /\ r.wanted \in Nat
      /\ r.full = (Cardinality(FreeOf(vol.fat)) < r.wanted)
  BY <1>1, Registered
<1>3. /\ Entries(r.v.fat, objs, Root)
      /\ \A x \in Names : objs[x].first # 0 => Long(r.v.fat, objs[x].first, objs[x].len)
  BY <1>2, EntriesKept DEF S
<1>4. unlost => Owned(r.v.fat, S)
  BY <1>2 DEF IInv, S
<1>5. QED
  BY <1>2, <1>3, <1>4 DEF S

\* f_open of a new name.
LEMMA CreateStep ==
  ASSUME IInv, NEW x \in Names, CreateFile(x)
  PROVE  IInv' /\ Told
<1>1. objs[x].kind = "none" /\ History
  BY DEF CreateFile
<1>2. PICK r \in Registrations(vol) :
        /\ Answer(r.wanted, r.full)
        /\ IF r.ok THEN /\ objs' = [objs EXCEPT ![x] = [NoObject EXCEPT !.kind = "file"]]
                        /\ Synced(r.v)
                   ELSE objs' = objs /\ Unsynced(r.v, r.v.fat)
  BY DEF CreateFile
<1>3. PICK m : Taken(vol, r.v, m)
  BY RegisteredState
<1>4. /\ Good(r.v.fat, Firsts(objs, Root)) /\ Entries(r.v.fat, objs, Root)
      /\ \A y \in Names : objs[y].first # 0 => Long(r.v.fat, objs[y].first, objs[y].len)
      /\ unlost => Owned(r.v.fat, Firsts(objs, Root))
      /\ r.wanted \in Nat /\ r.full \in BOOLEAN
      /\ r.full = (Cardinality(FreeOf(vol.fat)) < r.wanted)
  BY RegisteredState
<1>5. fat32 \in BOOLEAN /\ Device
  BY StateFacts
<1>6. IInv' /\ reply'.wanted = r.wanted /\ reply'.full = r.full
  <2>1. CASE r.ok
    <3> DEFINE z == [NoObject EXCEPT !.kind = "file"]
               o == [objs EXCEPT ![x] = z]
    <3>1. z \in Object /\ z.kind = "file" /\ z.first = 0 /\ z.len = 0
      BY AllocAssumption DEF NoObject, Object
    <3>2. objs[x].first = 0
      BY <1>1, StateFacts
    <3>3. objs' = o /\ Synced(r.v)
      BY <1>2, <2>1
    <3> HIDE DEF z
    <3>4. Fits(r.v.fat, objs, Root, x, z)
      BY <1>4, <3>1 DEF Fits
    <3>5. Entries(r.v.fat, o, Root) /\ Firsts(o, Root) = Moved(Firsts(objs, Root), objs[x].first, z.first)
      <4>1. IsPut(o, objs, x, z)
        BY DEF IsPut
      <4>2. Entries(r.v.fat, objs, Root)
        BY <1>4
      <4> HIDE DEF o
      <4>3. QED
        BY <3>4, <4>1, <4>2, EntryPut
    <3>6. Firsts(o, Root) = Firsts(objs, Root)
      BY <3>1, <3>2, <3>5 DEF Moved, Firsts
    <3> HIDE DEF o
    <3>7. Device' /\ vol'.fat = r.v.fat
      BY <1>1, <1>3, <1>5, <3>3, SyncedTaken
    <3>8. QED
      BY <1>1, <1>2, <1>4, <3>3, <3>5, <3>6, <3>7, Closed
  <2>2. CASE ~r.ok
    <3>1. objs' = objs /\ Unsynced(r.v, r.v.fat)
      BY <1>2, <2>2
    <3>2. Device' /\ vol'.fat = r.v.fat
      BY <1>1, <1>3, <1>5, <3>1, UnsyncedTaken
    <3>3. QED
      BY <1>1, <1>2, <1>4, <3>1, <3>2, Closed
  <2>3. QED
    BY <2>1, <2>2
<1>7. QED
  BY <1>4, <1>6 DEF Told

\* The chain of x is cut to len clusters, and its entry says so.
LEMMA CutState ==
  ASSUME IInv, NEW x \in Names, objs[x].first # 0, NEW len \in 0 .. objs[x].len - 1,
         NEW z, z \in Object, z.kind = "none" => z = NoObject, z.len = len,
         z.first = IF len = 0 THEN 0 ELSE objs[x].first,
         NEW o, IsPut(o, objs, x, z), NEW w, w = Cut(vol, objs[x].first, len)
  PROVE  /\ Given(vol, w, objs[x].len - len)
         /\ Good(w.fat, Firsts(o, Root))
         /\ Entries(w.fat, o, Root)
         /\ unlost => Owned(w.fat, Firsts(o, Root))
<1> DEFINE S == Firsts(objs, Root)
           s == objs[x].first
           n == objs[x].len
           T == IF len = 0 THEN S \ {s} ELSE S
<1>1. vol \in Volume /\ Good(vol.fat, S)
  BY StateFacts
<1>2. /\ s \in S \ {Root} /\ n \in 1 .. N /\ Long(vol.fat, s, n)
      /\ \A y \in Names \ {x} : objs[y].first # s
      /\ \A y \in Names : objs[y].first # 0 =>
           objs[y].first \in S \ {Root} /\ Long(vol.fat, objs[y].first, objs[y].len)
  BY StateFacts
<1>3. Entries(vol.fat, objs, Root)
  BY DEF IInv
<1>4. unlost => Owned(vol.fat, S)
  BY DEF IInv
<1>5. s # 0 /\ len \in 0 .. n - 1
  OBVIOUS
<1>6. z.first = (IF len = 0 THEN 0 ELSE s) /\ w = Cut(vol, s, len)
  OBVIOUS
<1>7. s = objs[x].first /\ n = objs[x].len
  OBVIOUS
<1> HIDE DEF S, s, n
<1>8. /\ Given(vol, w, n - len)
      /\ Good(w.fat, T)
      /\ len # 0 => Long(w.fat, s, len)
      /\ \A r \in S \ {s} : \A m : Long(vol.fat, r, m) => Long(w.fat, r, m)
      /\ Owned(vol.fat, S) => Owned(w.fat, T)
  <2>1. T = IF len = 0 THEN S \ {s} ELSE S
    OBVIOUS
  <2>2. s \in S
    BY <1>2
  <2> HIDE DEF T
  <2>3. /\ Given(vol, Cut(vol, s, len), n - len)
        /\ Good(Cut(vol, s, len).fat, T)
        /\ len # 0 => Long(Cut(vol, s, len).fat, s, len)
        /\ \A r \in S \ {s} : \A m : Long(vol.fat, r, m) => Long(Cut(vol, s, len).fat, r, m)
        /\ Owned(vol.fat, S) => Owned(Cut(vol, s, len).fat, T)
    BY <1>1, <1>2, <1>5, <2>1, <2>2, CutGives
  <2>4. QED
    BY <1>6, <2>3
<1>9. \A y \in Names \ {x} : objs[y].first # 0 => Long(w.fat, objs[y].first, objs[y].len)
  BY <1>2, <1>8
<1>10. Fits(w.fat, objs, Root, x, z)
  <2>1. z.first # 0 => /\ Long(w.fat, z.first, z.len) /\ z.first # Root
                       /\ \A y \in Names \ {x} : objs[y].first # z.first
    BY <1>2, <1>6, <1>8
  <2>2. z.first = 0 => z.len = 0
    BY <1>5, <1>6
  <2>3. QED
    BY <1>9, <2>1, <2>2 DEF Fits
<1>11. Entries(w.fat, o, Root) /\ Firsts(o, Root) = Moved(S, s, z.first)
  BY <1>3, <1>7, <1>10, EntryPut DEF S
<1>12. Moved(S, s, z.first) = T
  BY <1>2, <1>5, <1>6 DEF Moved
<1> HIDE DEF T
<1>13. QED
  BY <1>4, <1>7, <1>8, <1>11, <1>12

\* An entry without clusters is replaced by another one.
LEMMA EmptyState ==
  ASSUME IInv, NEW x \in Names, objs[x].first = 0,
         NEW z, z \in Object, z.kind = "none" => z = NoObject, z.first = 0, z.len = 0,
         NEW o, IsPut(o, objs, x, z)
  PROVE  /\ Taken(vol, vol, 0)
         /\ Good(vol.fat, Firsts(o, Root))
         /\ Entries(vol.fat, o, Root)
         /\ unlost => Owned(vol.fat, Firsts(o, Root))
<1>1. /\ vol \in Volume /\ Good(vol.fat, Firsts(objs, Root))
      /\ \A y \in Names : objs[y].first # 0 => Long(vol.fat, objs[y].first, objs[y].len)
  BY StateFacts
<1>2. Entries(vol.fat, objs, Root)
  BY DEF IInv
<1>3. Fits(vol.fat, objs, Root, x, z)
  BY <1>1 DEF Fits
<1>4. Entries(vol.fat, o, Root) /\ Firsts(o, Root) = Moved(Firsts(objs, Root), objs[x].first, z.first)
  BY <1>2, <1>3, EntryPut
<1>5. Firsts(o, Root) = Firsts(objs, Root)
  BY <1>4 DEF Moved, Firsts
<1>6. unlost => Owned(vol.fat, Firsts(objs, Root))
  BY DEF IInv
<1>7. QED
  BY <1>1, <1>4, <1>5, <1>6, NothingTaken

\* An operation that asks for nothing is told that nothing was missing.
LEMMA ToldNothing ==
  ASSUME reply'.wanted = 0, reply'.full = FALSE
  PROVE  Told
<1>1. (Cardinality(FreeOf(vol.fat)) < 0) = FALSE
  BY FreeFacts
<1>2. QED
  BY <1>1 DEF Told

\* f_open with FA_CREATE_ALWAYS.
LEMMA OverwriteStep ==
  ASSUME IInv, NEW x \in Names, OverwriteFile(x)
  PROVE  IInv' /\ Told
<1> DEFINE z == [NoObject EXCEPT !.kind = "file"]
           o == [objs EXCEPT ![x] = z]
           s == objs[x].first
<1>1. /\ History /\ Synced(Overwritten(vol, s)) /\ objs' = o /\ Answer(0, FALSE)
  BY DEF OverwriteFile
<1>2. z \in Object /\ z.kind = "file" /\ z.first = 0 /\ z.len = 0
  BY AllocAssumption DEF NoObject, Object
<1>3. IsPut(o, objs, x, z)
  BY DEF IsPut
<1>4. fat32 \in BOOLEAN /\ Device /\ vol \in Volume
  BY StateFacts
<1> HIDE DEF z, o
<1>5. IInv' /\ reply'.wanted = 0 /\ reply'.full = FALSE
  <2>1. CASE s = 0
    <3>1. Synced(vol)
      BY <1>1, <2>1 DEF Overwritten
    <3>2. /\ Taken(vol, vol, 0)
          /\ Good(vol.fat, Firsts(o, Root)) /\ Entries(vol.fat, o, Root)
          /\ unlost => Owned(vol.fat, Firsts(o, Root))
      BY <1>2, <1>3, <2>1, EmptyState
    <3>3. Device' /\ vol'.fat = vol.fat
      BY <1>1, <1>4, <3>1, <3>2, SyncedTaken
    <3>4. QED
      BY <1>1, <3>2, <3>3, Closed
  <2>2. CASE s # 0
    <3> DEFINE w == Cut(vol, s, 0)
               u == [w EXCEPT !.last = s - 1]
    <3>1. objs[x].len \in 1 .. N /\ 0 \in 0 .. objs[x].len - 1 /\ s \in Clusters
      BY <2>2, StateFacts, LongIs
    <3>2. /\ Given(vol, w, objs[x].len - 0)
          /\ Good(w.fat, Firsts(o, Root)) /\ Entries(w.fat, o, Root)
          /\ unlost => Owned(w.fat, Firsts(o, Root))
      BY <1>2, <1>3, <2>2, <3>1, CutState
    <3>3. Overwritten(vol, s) = u
      BY <2>2 DEF Overwritten, Cut
    <3> HIDE DEF w
    <3>4. Given(vol, u, objs[x].len - 0) /\ u.fat = w.fat
      <4>1. w \in Volume
        BY <3>2 DEF Given
      <4>2. s - 1 \in 0 .. Unknown
        BY <3>1, AllocAssumption DEF Clusters, Unknown
      <4>3. u \in Volume /\ u.fat = w.fat /\ u.free = w.free /\ u.dirty = w.dirty
        BY <4>1, <4>2 DEF Volume
      <4> HIDE DEF u
      <4>4. QED
        BY <3>2, <4>3 DEF Given
    <3> HIDE DEF u
    <3>5. Device' /\ vol'.fat = u.fat
      BY <1>1, <1>4, <3>3, <3>4, SyncedGiven
    <3>6. QED
      BY <1>1, <3>2, <3>4, <3>5, Closed
  <2>3. QED
    BY <2>1, <2>2
<1>6. QED
  BY <1>5, ToldNothing

\* f_truncate cuts the chain where the new size ends and keeps the invariant.
LEMMA TruncateStep ==
  ASSUME IInv, NEW x \in Names, NEW len \in 0 .. N, Truncate(x, len)
  PROVE  IInv' /\ Told
<1> DEFINE s == objs[x].first
           z == [objs[x] EXCEPT !.len = len, !.first = IF len = 0 THEN 0 ELSE s]
           o == [objs EXCEPT ![x] = z]
           w == Cut(vol, s, len)
<1>1. /\ objs[x].kind = "file" /\ len < objs[x].len /\ History
      /\ Synced(w) /\ Answer(0, FALSE)
      /\ objs' = [objs EXCEPT ![x].len = len, ![x].first = IF len = 0 THEN 0 ELSE @]
  BY DEF Truncate
<1>2. objs \in [Names -> Object] /\ objs[x] \in Object
  BY StateFacts
<1>3. objs' = o
  BY <1>1, <1>2
<1>4. s # 0 /\ len \in 0 .. objs[x].len - 1
  <2>1. objs[x].len # 0
    BY <1>1
  <2>2. s # 0
    BY <2>1, StateFacts
  <2>3. objs[x].len \in 1 .. N
    BY <2>2, StateFacts
  <2>4. QED
    BY <1>1, <2>2, <2>3, AllocAssumption
<1>5. z \in Object /\ z.kind = "file" /\ z.len = len /\ z.first = IF len = 0 THEN 0 ELSE s
  BY <1>1, <1>2 DEF Object
<1>6. IsPut(o, objs, x, z)
  BY DEF IsPut
<1>7. fat32 \in BOOLEAN /\ Device
  BY StateFacts
<1> HIDE DEF z, o
<1>8. /\ Given(vol, w, objs[x].len - len)
      /\ Good(w.fat, Firsts(o, Root)) /\ Entries(w.fat, o, Root)
      /\ unlost => Owned(w.fat, Firsts(o, Root))
  BY <1>4, <1>5, <1>6, CutState
<1> HIDE DEF w
<1>9. Device' /\ vol'.fat = w.fat
  BY <1>1, <1>7, <1>8, SyncedGiven
<1>10. IInv' /\ reply'.wanted = 0 /\ reply'.full = FALSE
  BY <1>1, <1>3, <1>8, <1>9, Closed
<1>11. QED
  BY <1>10, ToldNothing

\* f_unlink frees the whole chain with the entry and keeps the invariant.
LEMMA UnlinkStep ==
  ASSUME IInv, NEW x \in Names, f_unlink(x)
  PROVE  IInv' /\ Told
<1> DEFINE o == [objs EXCEPT ![x] = NoObject]
           s == objs[x].first
           w == IF s = 0 THEN vol ELSE remove_chain(vol, s, 0)
<1>1. /\ History /\ Synced(w) /\ objs' = o /\ Answer(0, FALSE)
  BY DEF f_unlink
<1>2. NoObject \in Object /\ NoObject.first = 0 /\ NoObject.len = 0
  BY AllocAssumption DEF NoObject, Object
<1>3. IsPut(o, objs, x, NoObject)
  BY DEF IsPut
<1>4. fat32 \in BOOLEAN /\ Device
  BY StateFacts
<1> HIDE DEF o
<1>5. IInv' /\ reply'.wanted = 0 /\ reply'.full = FALSE
  <2>1. CASE s = 0
    <3>1. Synced(vol)
      BY <1>1, <2>1
    <3>2. /\ Taken(vol, vol, 0)
          /\ Good(vol.fat, Firsts(o, Root)) /\ Entries(vol.fat, o, Root)
          /\ unlost => Owned(vol.fat, Firsts(o, Root))
      BY <1>2, <1>3, <2>1, EmptyState
    <3>3. Device' /\ vol'.fat = vol.fat
      BY <1>1, <1>4, <3>1, <3>2, SyncedTaken
    <3>4. QED
      BY <1>1, <3>2, <3>3, Closed
  <2>2. CASE s # 0
    <3>1. objs[x].len \in 1 .. N /\ 0 \in 0 .. objs[x].len - 1
      BY <2>2, StateFacts
    <3>2. w = Cut(vol, s, 0)
      BY <2>2 DEF Cut
    <3> HIDE DEF w
    <3>3. /\ Given(vol, w, objs[x].len - 0)
          /\ Good(w.fat, Firsts(o, Root)) /\ Entries(w.fat, o, Root)
          /\ unlost => Owned(w.fat, Firsts(o, Root))
      BY <1>2, <1>3, <2>2, <3>1, <3>2, CutState
    <3>4. Device' /\ vol'.fat = w.fat
      BY <1>1, <1>4, <3>3, SyncedGiven
    <3>5. QED
      BY <1>1, <3>3, <3>4, Closed
  <2>3. QED
    BY <2>1, <2>2
<1>6. QED
  BY <1>5, ToldNothing

\* f_lseek past the end, and f_write.
LEMMA ExtendStep ==
  ASSUME IInv, NEW x \in Names, NEW len \in 0 .. N, Extend(x, len)
  PROVE  IInv' /\ Told
<1> DEFINE S == Firsts(objs, Root)
           s == objs[x].first
           n == objs[x].len
           k == len - n
           e == Append(vol, s, k)
           z == [kind |-> "file", first |-> e.first, len |-> n + e.n]
           o == [objs EXCEPT ![x] = z]
           F == Cardinality(FreeOf(vol.fat))
<1>1. /\ objs[x].kind = "file" /\ len > n /\ History
      /\ objs' = [objs EXCEPT ![x] = [kind |-> "file", first |-> e.first, len |-> @.len + e.n]]
      /\ Synced(e.v) \/ (e.n = 0 /\ Unsynced(vol, vol.fat))
      /\ Answer(k, e.n < k)
  BY DEF Extend
<1>2. /\ fat32 \in BOOLEAN /\ Device /\ vol \in Volume /\ Good(vol.fat, S)
      /\ vol.free <= N => vol.free >= F
      /\ objs \in [Names -> Object]
      /\ s = 0 => n = 0
      /\ s # 0 => s \in S \ {Root} /\ Long(vol.fat, s, n)
                  /\ \A y \in Names \ {x} : objs[y].first # s
      /\ Root # 0 => Root \in S
  BY StateFacts
<1>3. \A y \in Names : objs[y].first # 0 => objs[y].first \in S /\ Long(vol.fat, objs[y].first, objs[y].len)
  BY StateFacts
<1>4. n \in 0 .. N /\ N \in Nat /\ n \in Nat
  BY <1>2, AllocAssumption DEF Object
<1>5. k \in Nat /\ k # 0
  BY <1>1, <1>4
<1>6. objs' = o
  BY <1>1, <1>2
<1>7. Grown(vol, s, n, S, e, k)
  <2> HIDE DEF S, s, n, k, e, z, o, F
  <2>1. s # 0 => s \in S /\ Long(vol.fat, s, n)
    BY <1>2
  <2>2. QED
    BY <1>2, <1>4, <1>5, <2>1, AppendGrows DEF e
<1>8. Entries(vol.fat, objs, Root) /\ (unlost => Owned(vol.fat, S))
  BY DEF IInv
<1>9. s = objs[x].first
  OBVIOUS
<1>10. z.kind = "file" /\ z.first = e.first /\ z.len = n + e.n
  OBVIOUS
<1>11. IsPut(o, objs, x, z)
  BY DEF IsPut
<1> HIDE DEF S, s, n, k, e, o, F
<1>12. /\ e.n \in 0 .. k
       /\ s # 0 => e.first = s
       /\ s = 0 => e.first \in {0} \cup FreeOf(vol.fat)
       /\ e.first = 0 <=> s = 0 /\ e.n = 0
       /\ Good(e.v.fat, With(S, e.first))
       /\ e.first # 0 => Long(e.v.fat, e.first, n + e.n)
       /\ \A r \in S \ {s} : \A m : Long(vol.fat, r, m) => Long(e.v.fat, r, m)
       /\ Owned(vol.fat, S) => Owned(e.v.fat, With(S, e.first))
       /\ e.n = 0 => e.v = vol
  BY <1>7 DEF Grown
<1>13. Taken(vol, e.v, e.n)
  BY <1>2, <1>5, <1>7 DEF Grown, Taken
<1>14. s = 0 => e.first \notin S
  <2>1. \A c \in S : vol.fat[c] # 0 /\ c # 0
    BY <1>2, GoodStart, ClusterFacts
  <2>2. QED
    BY <1>12, <2>1 DEF FreeOf
<1>15. z \in Object
  <2>1. e.first \in {0} \cup Clusters
    BY <1>12, LongIs
  <2>2. n + e.n \in 0 .. N
    <3>1. CASE e.first = 0
      BY <1>2, <1>4, <1>12, <3>1
    <3>2. CASE e.first # 0
      <4>1. n + e.n \in 1 .. N
        BY <1>12, <3>2, LongIs
      <4>2. QED
        BY <1>4, <4>1
    <3>3. QED
      BY <3>1, <3>2
  <2>3. QED
    BY <2>1, <2>2 DEF z, Object
<1> HIDE DEF z
<1>16. Fits(e.v.fat, objs, Root, x, z)
  <2>1. z.first = 0 => z.len = 0
    BY <1>2, <1>4, <1>10, <1>12
  <2>2. z.first # 0 => z.first # Root
    BY <1>2, <1>10, <1>12, <1>14
  <2>3. z.first # 0 => \A y \in Names \ {x} : objs[y].first # z.first
    BY <1>2, <1>3, <1>10, <1>12, <1>14
  <2>4. z.first # 0 => Long(e.v.fat, z.first, z.len)
    BY <1>10, <1>12
  <2>5. \A y \in Names \ {x} : objs[y].first # 0 => Long(e.v.fat, objs[y].first, objs[y].len)
    BY <1>2, <1>3, <1>12
  <2>6. z.kind # "none"
    BY <1>10
  <2>7. QED
    BY <1>15, <2>1, <2>2, <2>3, <2>4, <2>5, <2>6 DEF Fits
<1>17. Entries(e.v.fat, o, Root) /\ Firsts(o, Root) = Moved(S, s, z.first)
  BY <1>8, <1>9, <1>11, <1>16, EntryPut DEF S
<1>18. Moved(S, s, z.first) = With(S, e.first)
  <2>1. 0 \notin S
    BY DEF S, Firsts
  <2>2. QED
    BY <1>2, <1>10, <1>12, <2>1 DEF Moved, With
<1>19. Device' /\ vol'.fat = e.v.fat
  <2>1. CASE Synced(e.v)
    BY <1>1, <1>2, <1>13, <2>1, SyncedTaken
  <2>2. CASE e.n = 0 /\ Unsynced(vol, vol.fat)
    <3>1. e.v = vol /\ Taken(vol, vol, 0)
      BY <1>2, <1>12, <2>2, NothingTaken
    <3>2. QED
      BY <1>1, <1>2, <2>2, <3>1, UnsyncedTaken
  <2>3. QED
    BY <1>1, <2>1, <2>2
<1>20. (e.n < k) \in BOOLEAN /\ (e.n < k) = (F < k)
  BY <1>2, <1>5, <1>7, AppendFull DEF F
<1>21. IInv' /\ reply'.wanted = k /\ reply'.full = (e.n < k)
  BY <1>1, <1>5, <1>6, <1>8, <1>12, <1>17, <1>18, <1>19, <1>20, Closed
<1>22. QED
  BY <1>20, <1>21 DEF Told, F

\* f_rename: the entry moves, with its chain.
LEMMA RenameStep ==
  ASSUME IInv, NEW x \in Names, NEW y \in Names, f_rename(x, y)
  PROVE  IInv' /\ Told
<1>1. objs[x].kind # "none" /\ objs[y].kind = "none" /\ History
  BY DEF f_rename
<1>2. PICK r \in Registrations(vol) :
        /\ Answer(r.wanted, r.full)
        /\ IF r.ok THEN /\ objs' = [objs EXCEPT ![x] = NoObject, ![y] = objs[x]]
                        /\ Synced(r.v)
                   ELSE objs' = objs /\ Unsynced(r.v, r.v.fat)
  BY DEF f_rename
<1>3. PICK m : Taken(vol, r.v, m)
  BY RegisteredState
<1>4. /\ Good(r.v.fat, Firsts(objs, Root)) /\ Entries(r.v.fat, objs, Root)
      /\ \A a \in Names : objs[a].first # 0 => Long(r.v.fat, objs[a].first, objs[a].len)
      /\ unlost => Owned(r.v.fat, Firsts(objs, Root))
      /\ r.wanted \in Nat /\ r.full \in BOOLEAN
      /\ r.full = (Cardinality(FreeOf(vol.fat)) < r.wanted)
  BY RegisteredState
<1>5. fat32 \in BOOLEAN /\ Device /\ objs \in [Names -> Object]
  BY StateFacts
<1>6. /\ objs[y].first = 0 /\ x # y
      /\ objs[x].first = 0 => objs[x].len = 0
      /\ objs[x].first # 0 => objs[x].first \in Firsts(objs, Root) \ {Root}
                              /\ \A a \in Names \ {x} : objs[a].first # objs[x].first
  BY <1>1, StateFacts
<1>7. IInv' /\ reply'.wanted = r.wanted /\ reply'.full = r.full
  <2>1. CASE r.ok
    <3> DEFINE o1 == [objs EXCEPT ![x] = NoObject]
               o2 == [o1 EXCEPT ![y] = objs[x]]
               z == objs[x]
    <3>1. objs' = o2 /\ Synced(r.v)
      BY <1>2, <1>5, <2>1
    <3>2. NoObject \in Object /\ NoObject.first = 0 /\ NoObject.len = 0
      BY AllocAssumption DEF NoObject, Object
    <3>3. IsPut(o1, objs, x, NoObject) /\ IsPut(o2, o1, y, z)
      BY DEF IsPut
    <3>4. o1[x] = NoObject /\ o1[y] = objs[y] /\ \A a \in Names \ {x} : o1[a] = objs[a]
      BY <1>5, <1>6
    <3>5. z \in Object /\ z.kind # "none" /\ z = objs[x]
      BY <1>1, <1>5
    <3> HIDE DEF o1, o2, z
    <3>6. Fits(r.v.fat, objs, Root, x, NoObject)
      BY <1>4, <3>2 DEF Fits
    <3>7. Entries(r.v.fat, o1, Root)
      BY <1>4, <3>3, <3>6, EntryPut
    <3>8. Firsts(o1, Root) = Moved(Firsts(objs, Root), z.first, 0)
      BY <1>4, <3>2, <3>3, <3>5, <3>6, EntryPut
    <3>9. Fits(r.v.fat, o1, Root, y, z)
      <4>1. z.first # 0 => \A a \in Names \ {y} : o1[a].first # z.first
        BY <1>6, <3>2, <3>4, <3>5
      <4>2. \A a \in Names \ {y} : o1[a].first # 0 => Long(r.v.fat, o1[a].first, o1[a].len)
        BY <1>4, <3>2, <3>4
      <4>3. z.first # 0 => Long(r.v.fat, z.first, z.len) /\ z.first # Root
        BY <1>4, <1>6, <3>5
      <4>4. z.first = 0 => z.len = 0
        BY <1>6, <3>5
      <4>5. QED
        BY <3>5, <4>1, <4>2, <4>3, <4>4 DEF Fits
    <3>10. o1[y].first = 0
      BY <1>6, <3>4
    <3>11. Entries(r.v.fat, o2, Root) /\ Firsts(o2, Root) = Moved(Firsts(o1, Root), 0, z.first)
      BY <3>3, <3>7, <3>9, <3>10, EntryPut
    <3>12. Firsts(o2, Root) = Firsts(objs, Root)
      <4>1. 0 \notin Firsts(objs, Root) /\ (z.first # 0 => z.first \in Firsts(objs, Root))
        BY <1>6, <3>5 DEF Firsts
      <4>2. QED
        BY <3>8, <3>11, <4>1 DEF Moved
    <3>13. Device' /\ vol'.fat = r.v.fat
      BY <1>1, <1>3, <1>5, <3>1, SyncedTaken
    <3>14. QED
      BY <1>1, <1>2, <1>4, <3>1, <3>11, <3>12, <3>13, Closed
  <2>2. CASE ~r.ok
    <3>1. objs' = objs /\ Unsynced(r.v, r.v.fat)
      BY <1>2, <2>2
    <3>2. Device' /\ vol'.fat = r.v.fat
      BY <1>1, <1>3, <1>5, <3>1, UnsyncedTaken
    <3>3. QED
      BY <1>1, <1>2, <1>4, <3>1, <3>2, Closed
  <2>3. QED
    BY <2>1, <2>2
<1>8. QED
  BY <1>4, <1>7 DEF Told

\* A mkdir that could not register gives its cluster back in memory only: the
\* device keeps it linked, and FSInfo is not written.
LEMMA GivenBack ==
  ASSUME fat32 \in BOOLEAN, Device, History, NEW ncl \in Clusters,
         NEW v, NEW m, m # 0, Taken(vol, v, m), Long(v.fat, ncl, 1),
         NEW w, w = remove_chain(v, ncl, 0), Given(v, w, 1), Unsynced(w, v.fat)
  PROVE  Device' /\ vol'.fat = w.fat
<1>1. /\ vol \in Volume /\ v \in Volume /\ m \in Nat
      /\ Cardinality(FreeOf(v.fat)) = Cardinality(FreeOf(vol.fat)) - m
      /\ v.free = IF vol.free <= N THEN vol.free - m ELSE vol.free
      /\ v.dirty
  BY DEF Taken
<1>2. /\ w \in Volume
      /\ Cardinality(FreeOf(w.fat)) = Cardinality(FreeOf(v.fat)) + 1
      /\ w.free = IF v.free <= N THEN IF v.free + 1 <= N THEN v.free + 1 ELSE N ELSE v.free
      /\ w.dirty = (v.dirty \/ v.free < N)
  BY DEF Given
<1>3. /\ vol.free \in (0 .. N) \cup {Unknown} /\ v.free \in (0 .. N) \cup {Unknown}
      /\ N \in Nat \ {0} /\ Unknown = N + 2
      /\ Cardinality(FreeOf(vol.fat)) \in 0 .. N /\ Cardinality(FreeOf(w.fat)) \in 0 .. N
      /\ Cardinality(FreeOf(v.fat)) \in 0 .. N
  BY <1>1, <1>2, VolumeFacts
<1>4. /\ vol.free <= N => vol.free >= Cardinality(FreeOf(vol.fat))
      /\ ~drifted /\ vol.free <= N => vol.free = Cardinality(FreeOf(vol.fat))
      /\ fat32 /\ info.free <= N => info.free >= Cardinality(FreeOf(vol.fat))
      /\ info \in [free : (0 .. N) \cup {Unknown}, last : 0 .. Unknown]
  BY DEF Device, Counts
<1>5. vol' = w /\ diskfat' = v.fat /\ info' = info /\ fat32' = fat32 /\ drifted' = drifted
  BY DEF Unsynced, History
<1>6. w.dirty
  BY <1>1, <1>2
<1>7. /\ w.free <= N => w.free >= Cardinality(FreeOf(w.fat))
      /\ ~drifted /\ w.free <= N => w.free = Cardinality(FreeOf(w.fat))
  BY <1>1, <1>2, <1>3, <1>4
<1>8. fat32 /\ info.free <= N => info.free >= Cardinality(FreeOf(w.fat))
  <2>1. info.free \in Int
    BY <1>3, <1>4
  <2>2. Cardinality(FreeOf(w.fat)) <= Cardinality(FreeOf(vol.fat))
    BY <1>1, <1>2, <1>3
  <2>3. QED
    BY <1>3, <1>4, <2>1, <2>2
<1>9. Counts'
  BY <1>5, <1>6, <1>7, <1>8 DEF Counts
<1>10. w.fat[ncl] = 0 /\ v.fat = [w.fat EXCEPT ![ncl] = EOC]
  <2>1. PICK p : IsChain(v.fat, ncl, p, 1)
    BY DEF Long
  <2>2. p[0] = ncl /\ v.fat[p[1 - 1]] = EOC
    BY <2>1 DEF IsChain
  <2>3. Chain(v.fat, ncl) = {ncl}
    <3>1. Chain(v.fat, ncl) = {p[i] : i \in 0 .. 1 - 1}
      BY <2>1, ChainIs
    <3>2. \A i \in 0 .. 1 - 1 : i = 0
      OBVIOUS
    <3>3. 0 \in 0 .. 1 - 1
      OBVIOUS
    <3>4. QED
      BY <2>2, <3>1, <3>2, <3>3
  <2>4. v.fat[ncl] = EOC
    BY <2>2
  <2>5. v.fat \in [Clusters -> {0} \cup Clusters \cup {EOC}]
    BY <1>1 DEF Volume
  <2>6. w.fat = [c \in Clusters |-> IF c \in {ncl} THEN 0 ELSE IF c = 0 THEN EOC ELSE v.fat[c]]
    BY <2>3 DEF remove_chain
  <2>7. \A c \in Clusters : w.fat[c] = IF c = ncl THEN 0 ELSE v.fat[c]
    BY <2>6, ClusterFacts
  <2> DEFINE g == [w.fat EXCEPT ![ncl] = EOC]
  <2>8. DOMAIN w.fat = Clusters
    BY <2>6
  <2>9. g = [c \in Clusters |-> g[c]] /\ \A c \in Clusters : g[c] = IF c = ncl THEN EOC ELSE w.fat[c]
    BY <2>8
  <2> HIDE DEF g
  <2>10. \A c \in Clusters : g[c] = v.fat[c]
    BY <2>4, <2>7, <2>9
  <2>11. v.fat = g
    BY <2>5, <2>9, <2>10
  <2>12. QED
    BY <2>7, <2>11 DEF g
<1>11. OnDisk'
  BY <1>5, <1>6, <1>10 DEF OnDisk
<1>12. QED
  BY <1>2, <1>4, <1>5, <1>9, <1>11 DEF Device

\* f_mkdir keeps the invariant on each of its ways out: no cluster, no room for
\* the entry, and success.
LEMMA MkdirStep ==
  ASSUME IInv, NEW x \in Names, f_mkdir(x)
  PROVE  IInv' /\ Told
<1> DEFINE S == Firsts(objs, Root)
           ncl == Pick(vol, 0)
           v == Linked(vol, 0, ncl)
           S1 == S \cup {ncl}
           F == Cardinality(FreeOf(vol.fat))
<1>1. /\ objs[x].kind = "none" /\ History
      /\ \/ /\ ncl = 0
            /\ Unsynced(vol, vol.fat) /\ objs' = objs /\ Answer(1, TRUE)
         \/ /\ ncl # 0
            /\ \E r \in Registrations(v) :
                 /\ Answer(r.wanted + 1, r.full)
                 /\ IF r.ok
                      THEN /\ objs' = [objs EXCEPT ![x] = [kind |-> "dir", first |-> ncl, len |-> 1]]
                           /\ Synced(r.v)
                      ELSE objs' = objs /\ Unsynced(remove_chain(r.v, ncl, 0), r.v.fat)
  BY DEF f_mkdir
<1>2. /\ fat32 \in BOOLEAN /\ Device /\ vol \in Volume /\ Good(vol.fat, S)
      /\ vol.free <= N => vol.free >= F
      /\ Root # 0 => Root \in S
      /\ objs[x].first = 0
      /\ \A y \in Names : objs[y].first # 0 =>
           objs[y].first \in S \ {Root} /\ Long(vol.fat, objs[y].first, objs[y].len)
  BY <1>1, StateFacts
<1>3. Entries(vol.fat, objs, Root) /\ (unlost => Owned(vol.fat, S))
  BY DEF IInv
<1>4. /\ ncl \in {0} \cup FreeOf(vol.fat)
      /\ ncl # 0 => vol.free # 0
      /\ ncl = 0 => vol.free = 0 \/ FreeOf(vol.fat) = {}
  BY <1>2, PickFinds
<1>5. F \in Nat
  BY FreeFacts
<1>6. CASE ncl = 0
  <2>1. F = 0
    <3>1. CASE FreeOf(vol.fat) = {}
      BY <3>1, FS_EmptySet
    <3>2. CASE vol.free = 0
      BY <1>2, <1>5, <3>2, AllocAssumption
    <3>3. QED
      BY <1>4, <1>6, <3>1, <3>2
  <2>2. Unsynced(vol, vol.fat) /\ objs' = objs /\ Answer(1, TRUE)
    BY <1>1, <1>6
  <2> HIDE DEF ncl, v, F, S
  <2>3. Device' /\ vol'.fat = vol.fat
    BY <1>1, <1>2, <2>2, NothingTaken, UnsyncedTaken
  <2>4. IInv' /\ reply'.wanted = 1 /\ reply'.full = TRUE
    BY <1>1, <1>2, <1>3, <2>2, <2>3, Closed DEF S
  <2>5. (F < 1) = TRUE
    BY <2>1
  <2>6. QED
    BY <2>4, <2>5 DEF Told, F
<1>7. CASE ncl # 0
  <2>1. PICK r \in Registrations(v) :
          /\ Answer(r.wanted + 1, r.full)
          /\ IF r.ok
               THEN /\ objs' = [objs EXCEPT ![x] = [kind |-> "dir", first |-> ncl, len |-> 1]]
                    /\ Synced(r.v)
               ELSE objs' = objs /\ Unsynced(remove_chain(r.v, ncl, 0), r.v.fat)
    BY <1>1, <1>7
  <2>2. ncl \in FreeOf(vol.fat) /\ ncl \in Clusters /\ vol.fat[ncl] = 0 /\ vol.free # 0
    BY <1>4, <1>7 DEF FreeOf
  <2>3. ncl \notin S
    BY <1>2, <2>2, GoodStart
  <2> HIDE DEF ncl
  <2>4. /\ v \in Volume /\ v.fat = LinkedFat(vol.fat, 0, ncl) /\ v.dirty
        /\ v.free = IF vol.free <= N THEN vol.free - 1 ELSE vol.free
    BY <1>2, <2>2, LinkedType, ClusterFacts
  <2> HIDE DEF v, S
  <2>5. Cardinality(FreeOf(v.fat)) = F - 1
    <3>1. vol.fat \in FatT
      BY <1>2 DEF Good
    <3>2. QED
      BY <2>2, <2>4, <3>1, LinkTakesOne, ClusterFacts
  <2>6. v.free <= N => v.free >= Cardinality(FreeOf(v.fat))
    <3>1. vol.free \in (0 .. N) \cup {Unknown} /\ N \in Nat /\ Unknown = N + 2
      BY <1>2, VolumeFacts
    <3>2. QED
      BY <1>2, <1>5, <2>4, <2>5, <3>1
  <2>7. /\ Good(v.fat, S1) /\ Long(v.fat, ncl, 1)
        /\ \A s, n : Long(vol.fat, s, n) => Long(v.fat, s, n)
        /\ Owned(vol.fat, S) => Owned(v.fat, S1)
    BY <1>2, <2>2, <2>4, LinkNew
  <2>8. Root # 0 => Root \in S1
    BY <1>2
  <2>9. ncl \in S1 /\ ncl # Root /\ ncl # 0 /\ S1 \ {ncl} = S
    BY <1>2, <1>7, <2>3
  <2>10. \A y \in Names : objs[y].first # 0 => objs[y].first \in S1 \ {Root} /\ objs[y].first # ncl
    BY <1>2, <2>3
  <2>11. S1 = S \cup {ncl}
    OBVIOUS
  <2> HIDE DEF S1
  <2>12. /\ \E m : Taken(v, r.v, m)
         /\ Good(r.v.fat, S1)
         /\ \A s \in S1 \ {Root} : \A n : Long(v.fat, s, n) => Long(r.v.fat, s, n)
         /\ Owned(v.fat, S1) => Owned(r.v.fat, S1)
         /\ r.wanted \in Nat
         /\ r.full = (Cardinality(FreeOf(v.fat)) < r.wanted)
    BY <1>2, <2>4, <2>6, <2>7, <2>8, Registered
  <2>13. PICK m : Taken(v, r.v, m)
    BY <2>12
  <2>14. Taken(vol, r.v, m + 1) /\ m + 1 # 0
    <3>1. /\ r.v \in Volume /\ m \in Nat
          /\ Cardinality(FreeOf(r.v.fat)) = Cardinality(FreeOf(v.fat)) - m
          /\ r.v.free = IF v.free <= N THEN v.free - m ELSE v.free
          /\ m = 0 => r.v = v
          /\ m # 0 => r.v.dirty
      BY <2>13 DEF Taken
    <3>2. r.v.dirty
      BY <2>4, <3>1
    <3>3. vol.free \in (0 .. N) \cup {Unknown} /\ N \in Nat /\ Unknown = N + 2
      BY <1>2, VolumeFacts
    <3>4. m + 1 \in Nat /\ m + 1 # 0 /\ Cardinality(FreeOf(r.v.fat)) = F - (m + 1)
      BY <1>5, <2>5, <3>1
    <3>5. r.v.free = IF vol.free <= N THEN vol.free - (m + 1) ELSE vol.free
      BY <2>2, <2>4, <3>1, <3>3
    <3>6. QED
      BY <1>2, <3>1, <3>2, <3>4, <3>5 DEF Taken
  <2>15. Long(r.v.fat, ncl, 1)
    BY <2>7, <2>9, <2>12
  <2>16. \A y \in Names : objs[y].first # 0 => Long(r.v.fat, objs[y].first, objs[y].len)
    BY <1>2, <2>7, <2>10, <2>12
  <2>17. unlost => Owned(r.v.fat, S1)
    BY <1>3, <2>7, <2>12
  <2>18. r.full \in BOOLEAN /\ r.full = (F < r.wanted + 1) /\ r.wanted + 1 \in Nat
    <3>1. (Cardinality(FreeOf(v.fat)) < r.wanted) = (F < r.wanted + 1)
      BY <1>5, <2>5, <2>12
    <3>2. QED
      BY <2>12, <3>1
  <2>19. IInv' /\ reply'.wanted = r.wanted + 1 /\ reply'.full = r.full
    <3>1. CASE r.ok
      <4> DEFINE z == [kind |-> "dir", first |-> ncl, len |-> 1]
                 o == [objs EXCEPT ![x] = z]
      <4>1. z \in Object /\ z.kind = "dir" /\ z.first = ncl /\ z.len = 1
        BY <2>2, AllocAssumption DEF Object
      <4>2. objs' = o /\ Synced(r.v)
        BY <2>1, <3>1
      <4>3. IsPut(o, objs, x, z)
        BY DEF IsPut
      <4> HIDE DEF z, o
      <4>4. Fits(r.v.fat, objs, Root, x, z)
        BY <2>9, <2>10, <2>15, <2>16, <4>1 DEF Fits
      <4>5. Entries(r.v.fat, o, Root) /\ Firsts(o, Root) = Moved(S, 0, ncl)
        BY <1>2, <1>3, <4>1, <4>3, <4>4, EntryPut DEF S
      <4>6. Firsts(o, Root) = S1
        <5>1. 0 \notin S
          BY DEF S, Firsts
        <5>2. QED
          BY <2>9, <2>11, <4>5, <5>1 DEF Moved
      <4>7. Device' /\ vol'.fat = r.v.fat
        BY <1>1, <1>2, <2>14, <4>2, SyncedTaken
      <4>8. QED
        BY <1>1, <2>1, <2>12, <2>17, <2>18, <4>2, <4>5, <4>6, <4>7, Closed
    <3>2. CASE ~r.ok
      <4> DEFINE w == remove_chain(r.v, ncl, 0)
      <4>1. objs' = objs /\ Unsynced(w, r.v.fat)
        BY <2>1, <3>2
      <4>2. w = Cut(r.v, ncl, 0)
        BY DEF Cut
      <4>3. r.v \in Volume
        BY <2>13 DEF Taken
      <4>4. /\ Given(r.v, Cut(r.v, ncl, 0), 1)
            /\ Good(Cut(r.v, ncl, 0).fat, S)
            /\ \A s \in S1 \ {ncl} : \A n : Long(r.v.fat, s, n) => Long(Cut(r.v, ncl, 0).fat, s, n)
            /\ Owned(r.v.fat, S1) => Owned(Cut(r.v, ncl, 0).fat, S)
        BY <2>9, <2>12, <2>15, <4>3, CutWhole
      <4>5. w = remove_chain(r.v, ncl, 0)
        OBVIOUS
      <4> HIDE DEF w
      <4>6. /\ Given(r.v, w, 1) /\ Good(w.fat, S)
            /\ unlost => Owned(w.fat, S)
        BY <2>17, <4>2, <4>4
      <4>7. \A y \in Names : objs[y].first # 0 => Long(w.fat, objs[y].first, objs[y].len)
        BY <2>10, <2>16, <4>2, <4>4
      <4>8. Entries(w.fat, objs, Root)
        BY <1>3, <4>7 DEF Entries
      <4>9. Device' /\ vol'.fat = w.fat
        BY <1>1, <1>2, <2>2, <2>14, <2>15, <4>1, <4>5, <4>6, GivenBack
      <4>10. QED
        BY <1>1, <2>1, <2>18, <4>1, <4>6, <4>8, <4>9, Closed DEF S
    <3>3. QED
      BY <3>1, <3>2
  <2>20. QED
    BY <2>18, <2>19 DEF Told, F
<1>8. QED
  BY <1>6, <1>7

\* f_getfree only replaces a count that was unknown by the counted one.
LEMMA GetfreeStep ==
  ASSUME IInv, f_getfree
  PROVE  IInv' /\ Told
<1> DEFINE F == Cardinality(FreeOf(vol.fat))
           w == [vol EXCEPT !.free = Counted(vol), !.dirty = @ \/ vol.free > N]
<1>1. /\ objs' = objs /\ Answer(0, FALSE) /\ History
  BY DEF f_getfree
<1>2. PICK onDisk \in {diskfat, vol.fat} :
        /\ vol.free <= N => onDisk = diskfat
        /\ Unsynced(w, onDisk)
  BY DEF f_getfree
<1>3. fat32 \in BOOLEAN /\ vol \in Volume /\ Device /\ Good(vol.fat, Firsts(objs, Root))
  BY StateFacts
<1>4. /\ vol.free \in (0 .. N) \cup {Unknown} /\ vol.dirty \in BOOLEAN
      /\ N \in Nat \ {0} /\ Unknown = N + 2 /\ F \in 0 .. N
  BY <1>3, VolumeFacts
<1>5. /\ vol.free <= N => vol.free >= F
      /\ ~drifted /\ vol.free <= N => vol.free = F
      /\ fat32 /\ ~vol.dirty => info.free = vol.free
      /\ fat32 /\ info.free <= N => info.free >= F
      /\ info \in [free : (0 .. N) \cup {Unknown}, last : 0 .. Unknown]
  BY <1>3 DEF Device, Counts
<1>6. vol' = w /\ diskfat' = onDisk /\ info' = info /\ fat32' = fat32 /\ drifted' = drifted
  BY <1>1, <1>2 DEF Unsynced, History
<1>7. Counted(vol) \in (0 .. N) \cup {Unknown} /\ Counted(vol) = IF vol.free <= N THEN vol.free ELSE F
  BY <1>4 DEF Counted
<1>8. /\ w \in Volume /\ w.fat = vol.fat /\ w.free = Counted(vol)
      /\ w.dirty = (vol.dirty \/ vol.free > N)
  BY <1>3, <1>4, <1>7 DEF Volume
<1> HIDE DEF w
<1>9. ~w.dirty => ~vol.dirty /\ vol.free <= N
  <2>1. ~w.dirty => ~vol.dirty /\ ~(vol.free > N)
    BY <1>8
  <2>2. ~(vol.free > N) => vol.free <= N
    BY <1>4
  <2>3. QED
    BY <2>1, <2>2
<1>10. Counts'
  <2>1. /\ w.free <= N => w.free >= F
        /\ ~drifted /\ w.free <= N => w.free = F
    BY <1>4, <1>5, <1>7, <1>8
  <2>2. fat32 /\ ~w.dirty => info.free = w.free
    BY <1>5, <1>7, <1>8, <1>9
  <2> HIDE DEF F
  <2>3. Cardinality(FreeOf(vol.fat))' = F
    BY <1>6, <1>8 DEF F
  <2>4. QED
    BY <1>5, <1>6, <2>1, <2>2, <2>3 DEF Counts
<1>11. OnDisk'
  <2>1. /\ fat32 /\ ~vol.dirty => diskfat = vol.fat
        /\ \/ diskfat = vol.fat
           \/ \E c \in Clusters : vol.fat[c] = 0 /\ diskfat = [vol.fat EXCEPT ![c] = EOC]
    BY <1>3 DEF Device, OnDisk
  <2>2. fat32 /\ ~w.dirty => onDisk = vol.fat
    BY <1>2, <1>9, <2>1
  <2>3. \/ onDisk = vol.fat
        \/ \E c \in Clusters : vol.fat[c] = 0 /\ onDisk = [vol.fat EXCEPT ![c] = EOC]
    BY <2>1
  <2>4. QED
    BY <1>6, <1>8, <2>2, <2>3 DEF OnDisk
<1>12. Device' /\ vol'.fat = vol.fat
  BY <1>5, <1>6, <1>8, <1>10, <1>11 DEF Device
<1>13. IInv' /\ reply'.wanted = 0 /\ reply'.full = FALSE
  <2>1. Entries(vol.fat, objs, Root) /\ (unlost => Owned(vol.fat, Firsts(objs, Root)))
    BY DEF IInv
  <2> HIDE DEF F
  <2>2. QED
    BY <1>1, <1>3, <1>12, <2>1, Closed
<1>14. QED
  BY <1>13, ToldNothing

\* Mount reads the FAT and FSInfo from the device.
LEMMA RemountStep ==
  ASSUME IInv, Remount
  PROVE  IInv' /\ Told
<1> DEFINE S == Firsts(objs, Root)
<1>1. /\ vol' = [fat |-> diskfat, dirty |-> FALSE,
                 free |-> IF fat32 THEN info.free ELSE Unknown,
                 last |-> IF fat32 THEN info.last ELSE Unknown]
      /\ drifted' = (drifted \/ (fat32 /\ vol.dirty))
      /\ unlost' = (unlost /\ diskfat = vol.fat)
      /\ reply' = [wanted |-> 0, full |-> FALSE]
      /\ fat32' = fat32 /\ objs' = objs /\ diskfat' = diskfat /\ info' = info
  BY DEF Remount, Answer
<1>2. /\ fat32 \in BOOLEAN /\ vol \in Volume /\ Good(vol.fat, S)
      /\ drifted \in BOOLEAN /\ unlost \in BOOLEAN
  BY StateFacts DEF IInv
<1>3. /\ ~drifted /\ vol.free <= N => vol.free = Cardinality(FreeOf(vol.fat))
      /\ fat32 /\ ~vol.dirty => info.free = vol.free
      /\ fat32 /\ info.free <= N => info.free >= Cardinality(FreeOf(vol.fat))
      /\ info \in [free : (0 .. N) \cup {Unknown}, last : 0 .. Unknown]
      /\ fat32 /\ ~vol.dirty => diskfat = vol.fat
  BY DEF IInv, Device, Counts, OnDisk
<1>4. Entries(vol.fat, objs, Root) /\ (unlost => Owned(vol.fat, S))
  BY DEF IInv
<1>5. N \in Nat \ {0} /\ Unknown = N + 2 /\ Cardinality(FreeOf(vol.fat)) \in 0 .. N
  BY <1>2, VolumeFacts
<1>6. Root' = Root
  BY <1>1 DEF Root
<1>7. /\ Good(diskfat, S)
      /\ \A s, n : Long(vol.fat, s, n) => Long(diskfat, s, n)
      /\ Cardinality(FreeOf(diskfat)) <= Cardinality(FreeOf(vol.fat))
      /\ Cardinality(FreeOf(diskfat)) \in 0 .. N
  <2>1. CASE diskfat = vol.fat
    BY <1>2, <1>5, <2>1
  <2>2. CASE \E c \in Clusters : vol.fat[c] = 0 /\ diskfat = [vol.fat EXCEPT ![c] = EOC]
    <3>1. PICK c \in Clusters : vol.fat[c] = 0 /\ diskfat = [vol.fat EXCEPT ![c] = EOC]
      BY <2>2
    <3>2. c \in FreeOf(vol.fat) /\ vol.fat \in FatT
      BY <1>2, <3>1 DEF FreeOf, Good
    <3>3. diskfat = LinkedFat(vol.fat, 0, c)
      BY <3>1, <3>2, ClusterFacts DEF LinkedFat, FatT
    <3>4. /\ Good(diskfat, S \cup {c})
          /\ \A s, n : Long(vol.fat, s, n) => Long(diskfat, s, n)
      BY <1>2, <3>2, <3>3, LinkNew
    <3>5. Cardinality(FreeOf(diskfat)) = Cardinality(FreeOf(vol.fat)) - 1
      BY <3>2, <3>3, LinkTakesOne, ClusterFacts
    <3>6. Cardinality(FreeOf(diskfat)) \in 0 .. N
      BY FreeFacts
    <3>7. Good(diskfat, S)
      BY <3>4 DEF Good
    <3>8. QED
      BY <1>5, <3>4, <3>5, <3>6, <3>7
  <2>3. QED
    BY <2>1, <2>2 DEF IInv, Device, OnDisk
<1>8. Entries(diskfat, objs, Root)
  BY <1>4, <1>7 DEF Entries
<1>9. vol' \in Volume /\ vol'.fat = diskfat /\ ~vol'.dirty /\ vol'.free = IF fat32 THEN info.free ELSE Unknown
  <2>1. diskfat \in FatT
    BY <1>7 DEF Good
  <2>2. Unknown \in 0 .. Unknown
    BY <1>5
  <2>3. QED
    BY <1>1, <1>3, <2>1, <2>2 DEF Volume, FatT
<1>10. Counts'
  <2>1. vol'.free <= N => vol'.free >= Cardinality(FreeOf(diskfat))
    <3>1. info.free \in (0 .. N) \cup {Unknown}
      BY <1>3
    <3>2. vol'.free <= N => fat32 /\ vol'.free = info.free /\ info.free <= N
      BY <1>5, <1>9
    <3>3. QED
      BY <1>3, <1>5, <1>7, <3>1, <3>2
  <2>2. ~drifted' /\ vol'.free <= N => vol'.free = Cardinality(FreeOf(diskfat))
    <3>1. vol'.free <= N => fat32
      BY <1>5, <1>9
    <3>2. ~drifted' /\ fat32 => ~drifted /\ ~vol.dirty
      BY <1>1
    <3>3. QED
      BY <1>3, <1>9, <3>1, <3>2
  <2>3. fat32 => info.free = vol'.free
    BY <1>9
  <2>4. fat32 /\ info.free <= N => info.free >= Cardinality(FreeOf(diskfat))
    <3>1. info.free \in (0 .. N) \cup {Unknown}
      BY <1>3
    <3>2. QED
      BY <1>3, <1>5, <1>7, <3>1
  <2>5. Cardinality(FreeOf(vol.fat))' = Cardinality(FreeOf(diskfat))
    BY <1>9
  <2>6. QED
    BY <1>1, <2>1, <2>2, <2>3, <2>4, <2>5 DEF Counts
<1>11. OnDisk'
  BY <1>1, <1>9 DEF OnDisk
<1>12. (unlost => Owned(vol.fat, Firsts(objs, Root)))'
  BY <1>1, <1>4, <1>6, <1>9 DEF Firsts
<1>13. (Good(vol.fat, Firsts(objs, Root)) /\ Entries(vol.fat, objs, Root))'
  BY <1>1, <1>6, <1>7, <1>8, <1>9 DEF Firsts
<1>14. Device'
  BY <1>1, <1>3, <1>9, <1>10, <1>11 DEF Device
<1>15. unlost' \in BOOLEAN /\ drifted' \in BOOLEAN /\ reply' \in [wanted : Nat, full : BOOLEAN]
  BY <1>1, <1>2
<1>16. IInv'
  BY <1>1, <1>2, <1>12, <1>13, <1>14, <1>15 DEF IInv
<1>17. reply'.wanted = 0 /\ reply'.full = FALSE
  BY <1>1
<1>18. QED
  BY <1>16, <1>17, ToldNothing
-----------------------------------------------------------------------------
(* The theorems.                                                           *)

\* A volume as f_mkfs leaves it.
LEMMA InitOK ==
  ASSUME Init
  PROVE  IInv
<1> DEFINE z == [c \in Clusters |-> 0]
           fat == [c \in Clusters |-> IF fat32 /\ c = 2 THEN EOC ELSE 0]
           S == Firsts(objs, Root)
<1>1. /\ fat32 \in BOOLEAN
      /\ info \in {[free |-> Unknown, last |-> Unknown],
                   [free |-> Cardinality(FreeOf(fat)), last |-> 2]}
      /\ diskfat = fat
      /\ vol = [fat |-> fat, dirty |-> FALSE,
                free |-> IF fat32 THEN info.free ELSE Unknown,
                last |-> IF fat32 THEN info.last ELSE Unknown]
      /\ objs = [x \in Names |-> NoObject]
      /\ reply = [wanted |-> 0, full |-> FALSE]
      /\ drifted = FALSE /\ unlost = TRUE
  BY DEF Init
<1>2. N \in Nat \ {0} /\ Unknown = N + 2 /\ EOC = N + 2 /\ 2 \in Clusters /\ 2 \in 0 .. Unknown
  BY AllocAssumption DEF Unknown, EOC, Clusters
<1>3. NoObject \in Object /\ NoObject.first = 0 /\ NoObject.len = 0
  BY AllocAssumption DEF NoObject, Object
<1>4. S = IF fat32 THEN {2} ELSE {}
  BY <1>1, <1>3 DEF Firsts, Root
<1>5. Good(z, {}) /\ Owned(z, {})
  BY ClusterFacts DEF Good, Owned, FatT
<1> HIDE DEF S
<1>6. Good(fat, S) /\ Owned(fat, S)
  <2>1. CASE fat32
    <3>1. 2 \in FreeOf(z)
      BY <1>2 DEF FreeOf
    <3>2. fat = LinkedFat(z, 0, 2)
      BY <2>1, ClusterFacts DEF LinkedFat
    <3> HIDE DEF z, fat
    <3>3. Good(fat, {} \cup {2}) /\ Owned(fat, {} \cup {2})
      BY <1>5, <3>1, <3>2, LinkNew
    <3>4. {} \cup {2} = S
      BY <1>4, <2>1
    <3>5. QED
      BY <3>3, <3>4
  <2>2. CASE ~fat32
    <3>1. fat = z
      BY <2>2
    <3>2. QED
      BY <1>4, <1>5, <2>2, <3>1
  <2>3. QED
    BY <1>1, <2>1, <2>2
<1>7. Entries(fat, objs, Root)
  <2>1. \A x \in Names : objs[x] = NoObject
    BY <1>1
  <2>2. objs \in [Names -> Object]
    BY <1>1, <1>3
  <2>3. QED
    BY <1>3, <2>1, <2>2 DEF Entries
<1>8. Cardinality(FreeOf(fat)) \in 0 .. N
  BY FreeFacts
<1>9. fat \in FatT
  BY <1>6 DEF Good
<1> HIDE DEF fat, z
<1>10. /\ info \in [free : (0 .. N) \cup {Unknown}, last : 0 .. Unknown]
       /\ info.free \in {Unknown, Cardinality(FreeOf(fat))}
  BY <1>1, <1>2, <1>8
<1>11. vol \in Volume /\ vol.fat = fat /\ vol.free \in {Unknown, Cardinality(FreeOf(fat))}
       /\ ~vol.dirty /\ (fat32 => info.free = vol.free)
  BY <1>1, <1>2, <1>9, <1>10 DEF Volume, FatT
<1>12. Counts
  <2>1. ~(Unknown <= N)
    BY <1>2
  <2>2. Cardinality(FreeOf(fat)) >= Cardinality(FreeOf(fat))
    BY <1>8
  <2>3. QED
    BY <1>10, <1>11, <2>1, <2>2 DEF Counts
<1>13. OnDisk
  BY <1>1, <1>11 DEF OnDisk
<1>14. reply \in [wanted : Nat, full : BOOLEAN]
  BY <1>1
<1>15. Device
  BY <1>10, <1>11, <1>12, <1>13 DEF Device
<1>16. Good(vol.fat, Firsts(objs, Root)) /\ Owned(vol.fat, Firsts(objs, Root))
  BY <1>6, <1>11 DEF S
<1>17. fat32 \in BOOLEAN /\ drifted \in BOOLEAN /\ unlost \in BOOLEAN
  BY <1>1
<1>18. QED
  BY <1>7, <1>11, <1>14, <1>15, <1>16, <1>17 DEF IInv

\* Every step keeps the invariant and answers truly.
LEMMA NextOK ==
  ASSUME IInv, Next
  PROVE  IInv' /\ Told
<1>1. CASE \E x \in Names : CreateFile(x) \/ OverwriteFile(x) \/ f_unlink(x) \/ f_mkdir(x)
  BY <1>1, CreateStep, OverwriteStep, UnlinkStep, MkdirStep
<1>2. CASE \E x \in Names, len \in 0 .. N : Extend(x, len) \/ Truncate(x, len)
  BY <1>2, ExtendStep, TruncateStep
<1>3. CASE \E x, y \in Names : f_rename(x, y)
  BY <1>3, RenameStep
<1>4. CASE f_getfree
  BY <1>4, GetfreeStep
<1>5. CASE Remount
  BY <1>5, RemountStep
<1>6. QED
  BY <1>1, <1>2, <1>3, <1>4, <1>5 DEF Next

\* A step that changes nothing.
LEMMA StutterOK ==
  ASSUME IInv, UNCHANGED vars
  PROVE  IInv'
<1>1. /\ fat32' = fat32 /\ vol' = vol /\ objs' = objs /\ diskfat' = diskfat /\ info' = info
      /\ reply' = reply /\ drifted' = drifted /\ unlost' = unlost
  BY DEF vars
<1>2. QED
  BY <1>1 DEF IInv, Device, Counts, OnDisk, Root, Firsts

\* The inductive invariant: chains are paths that neither meet nor run into free
\* clusters, every entry has a path as long as its size says, and the counts
\* in memory and in FSInfo bound the number of free clusters.
THEOREM Invariant == Spec => []IInv
<1>1. Init => IInv
  BY InitOK
<1>2. IInv /\ [Next]_vars => IInv'
  BY NextOK, StutterOK
<1>3. QED
  BY <1>1, <1>2, PTL DEF Spec

\* The volume is well typed: in particular the free count is never below zero or
\* above the number of clusters (create_chain, remove_chain).
THEOREM TypeCorrect == Spec => []TypeOK
<1>1. IInv => TypeOK
  <2>1. SUFFICES ASSUME IInv PROVE TypeOK
    OBVIOUS
  <2>2. vol \in Volume /\ info \in [free : (0 .. N) \cup {Unknown}, last : 0 .. Unknown] /\ OnDisk
    BY <2>1 DEF IInv, Device
  <2>3. vol.fat \in [Clusters -> {0} \cup Clusters \cup {EOC}]
    BY <2>2 DEF Volume
  <2>4. diskfat \in [Clusters -> {0} \cup Clusters \cup {EOC}]
    BY <2>2, <2>3 DEF OnDisk
  <2>5. objs \in [Names -> Object]
    BY <2>1 DEF IInv, Entries
  <2>6. QED
    BY <2>1, <2>2, <2>4, <2>5 DEF IInv, TypeOK
<1>2. QED
  BY <1>1, Invariant, PTL

\* No cluster belongs to two files (create_chain, remove_chain and every
\* operation that calls them).
THEOREM ClustersNotShared == Spec => []NoCrossLink
<1>1. IInv => NoCrossLink
  <2>1. SUFFICES ASSUME IInv PROVE NoCrossLink
    OBVIOUS
  <2>2. Starts = Firsts(objs, Root)
    BY DEF Starts, Firsts
  <2>3. Good(vol.fat, Starts) /\ Entries(vol.fat, objs, Root)
    BY <2>1, <2>2 DEF IInv
  <2>4. \A s \in Starts : vol.fat[s] # 0
    BY <2>3, GoodStart
  <2>5. QED
    BY <2>3, <2>4 DEF NoCrossLink, Good, Entries
<1>2. QED
  BY <1>1, Invariant, PTL

\* Every file has the clusters its size calls for, and its chain ends (f_lseek,
\* f_write, f_truncate).
THEOREM SizesMatch == Spec => []ChainMatchesSize
<1>1. IInv => ChainMatchesSize
  <2>1. SUFFICES ASSUME IInv, NEW x \in Names
                 PROVE  IF objs[x].first = 0 THEN objs[x].len = 0
                        ELSE /\ Cardinality(Chain(vol.fat, objs[x].first)) = objs[x].len
                             /\ Follow(vol.fat, objs[x].first)[N] = EOC
    BY DEF ChainMatchesSize
  <2>2. /\ objs[x].first = 0 => objs[x].len = 0
        /\ objs[x].first # 0 => Long(vol.fat, objs[x].first, objs[x].len)
    BY <2>1, StateFacts
  <2>3. QED
    BY <2>2, LongIs
<1>2. QED
  BY <1>1, Invariant, PTL

\* No cluster in use is lost (remove_chain, and the ways out of f_mkdir).
THEOREM NothingLost == Spec => []EveryClusterOwned
<1>1. IInv => EveryClusterOwned
  <2>1. SUFFICES ASSUME IInv, unlost
                 PROVE  Clusters \ FreeOf(vol.fat) = UNION {Chain(vol.fat, s) : s \in Starts}
    BY DEF EveryClusterOwned
  <2>2. Starts = Firsts(objs, Root)
    BY DEF Starts, Firsts
  <2>3. Good(vol.fat, Starts) /\ Owned(vol.fat, Starts)
    BY <2>1, <2>2 DEF IInv
  <2>4. \A c \in Clusters : c \notin FreeOf(vol.fat) => \E s \in Starts : c \in Chain(vol.fat, s)
    BY <2>3 DEF Owned, FreeOf
  <2>5. ASSUME NEW s \in Starts, NEW c \in Chain(vol.fat, s)
        PROVE  c \in Clusters /\ c \notin FreeOf(vol.fat)
    <3>1. PICK n \in 1 .. N : Long(vol.fat, s, n)
      BY <2>3, GoodStart
    <3>2. vol.fat[c] # 0
      BY <3>1, LongIs
    <3>3. c \in Clusters
      BY DEF Chain
    <3>4. QED
      BY <3>2, <3>3 DEF FreeOf
  <2>6. QED
    BY <2>4, <2>5
<1>2. QED
  BY <1>1, Invariant, PTL

\* The free count is exact while no stale FSInfo was mounted (create_chain,
\* remove_chain, sync_fs, f_getfree).
THEOREM CountExact == Spec => []FreeCountExact
<1>1. IInv => FreeCountExact
  BY DEF IInv, Device, Counts, FreeCountExact
<1>2. QED
  BY <1>1, Invariant, PTL

\* The free count is never too low, also after a stale FSInfo was mounted
\* (create_chain, remove_chain, find_volume).
THEOREM CountNotTooLow == Spec => []FreeNeverUnderstated
<1>1. IInv => FreeNeverUnderstated
  BY DEF IInv, Device, Counts, FreeNeverUnderstated
<1>2. QED
  BY <1>1, Invariant, PTL

\* "Volume full" is answered exactly when the operation asks for more clusters
\* than are free (create_chain's search and its hint).
THEOREM FullWhenFull == Spec => FullOnlyWhenFull
<1>1. IInv /\ [Next]_vars =>
        [reply'.full = (Cardinality(FreeOf(vol.fat)) < reply'.wanted)]_vars
  BY NextOK DEF Told
<1>2. QED
  BY <1>1, Invariant, PTL DEF Spec, FullOnlyWhenFull
=============================================================================
