--------------------------- MODULE ProjectListProofs ---------------------------
(***************************************************************************)
(* Theorems about ProjectListPages, for every set of assets and periods,   *)
(* every text order, size of chunks and size of pages, and walks and       *)
(* disturbances of any length.                                             *)
(*                                                                         *)
(* A page is cut out of one list.  Of a single period that is its rows; of *)
(* several it is what their merge brings: an asset comes once those of the *)
(* other periods are behind the largest code before it in its own period   *)
(* (Peak), so the list exists even where the backend sorts otherwise than  *)
(* the merge compares (Merged).  For as long as nobody disturbs, a stream  *)
(* holds the next rows of its period (StreamAt), the reader has taken the  *)
(* first assets of the list (ReaderAt) and the pages are the first parts   *)
(* of it (WalkedAt): Undisturbed, of which PagesAreSlices is read off.     *)
(*                                                                         *)
(* While others insert there is no such list.  What is kept then is that   *)
(* the assets that were there when the page under way began, unless they   *)
(* are on a page already, are seen by the reader or still come out of the  *)
(* stream of their period (Comes, LeftFor), in the order of their codes;   *)
(* and that one which no page holds has at least a page of others before   *)
(* it for every page walked: NothingLost.                                  *)
(***************************************************************************)
EXTENDS ProjectListPages, FiniteSetTheorems, NaturalsInduction, WellFoundedInduction, TLAPS

USE ProjectListAssumption

\* Ranks that tell the assets of a set apart.
Ranking(S) == {r \in [Codes -> Nat] : \A a, b \in S : r[a] = r[b] => a = b}

Below(S, rank, a) == {b \in S : rank[b] < rank[a]}

-------------------------------------------------------------------------------
(* Rows in order *)

LEMMA CodesFinite ==
    ASSUME NEW S \in SUBSET Codes
    PROVE  IsFiniteSet(S) /\ Cardinality(S) \in Nat
PROOF
<1>1. IsFiniteSet(Codes)
  BY FS_Interval DEF Codes
<1> QED  BY <1>1, FS_Subset, FS_CardinalityType

LEMMA UpTo ==
    ASSUME NEW n \in Nat
    PROVE  IsFiniteSet(1..n) /\ Cardinality(1..n) = n
BY FS_Interval

\* A subset without a certain member is smaller.
LEMMA ProperSubset ==
    ASSUME NEW S \in SUBSET Codes, NEW T \in SUBSET S, NEW a \in S, a \notin T
    PROVE  Cardinality(T) < Cardinality(S)
PROOF
<1>1. T \in SUBSET (S \ {a}) /\ IsFiniteSet(S) /\ Cardinality(S) \in Nat /\ Cardinality(T) \in Nat
  BY CodesFinite
<1>2. Cardinality(S \ {a}) = Cardinality(S) - 1 /\ IsFiniteSet(S \ {a})
  BY <1>1, FS_RemoveElement
<1>3. Cardinality(T) <= Cardinality(S \ {a})
  BY <1>1, <1>2, FS_Subset
<1> QED  BY <1>1, <1>2, <1>3

LEMMA BelowSmaller ==
    ASSUME NEW S \in SUBSET Codes, NEW rank \in [Codes -> Nat], NEW a \in S
    PROVE  /\ Below(S, rank, a) \in SUBSET S
           /\ Cardinality(Below(S, rank, a)) \in 0..Cardinality(S) - 1
PROOF
<1>1. Below(S, rank, a) \in SUBSET S /\ a \notin Below(S, rank, a)
  BY DEF Below
<1> QED  BY <1>1, CodesFinite, ProperSubset

LEMMA BelowGrows ==
    ASSUME NEW S \in SUBSET Codes, NEW rank \in [Codes -> Nat], NEW a \in S, NEW b \in S,
           rank[a] < rank[b]
    PROVE  Cardinality(Below(S, rank, a)) < Cardinality(Below(S, rank, b))
PROOF
<1>1. Below(S, rank, b) \in SUBSET Codes /\ a \in Below(S, rank, b)
      /\ a \notin Below(S, rank, a)
  BY DEF Below
<1>2. Below(S, rank, a) \in SUBSET Below(S, rank, b)
  BY DEF Below
<1> QED  BY <1>1, <1>2, ProperSubset

\* As many assets are below one as below another only if they are the same.
LEMMA BelowTells ==
    ASSUME NEW S \in SUBSET Codes, NEW rank \in Ranking(S), NEW a \in S, NEW b \in S,
           Cardinality(Below(S, rank, a)) = Cardinality(Below(S, rank, b))
    PROVE  a = b
PROOF
<1>1. rank \in [Codes -> Nat] /\ (rank[a] = rank[b] => a = b)
  BY DEF Ranking
<1>2. rank[a] \in Nat /\ rank[b] \in Nat /\ Cardinality(Below(S, rank, a)) \in Nat
      /\ Cardinality(Below(S, rank, b)) \in Nat
  BY <1>1, BelowSmaller
<1> QED  BY <1>1, <1>2, BelowGrows

\* Each place has its asset.
LEMMA BelowReaches ==
    ASSUME NEW S \in SUBSET Codes, NEW rank \in Ranking(S), NEW i \in 1..Cardinality(S)
    PROVE  \E a \in S : Cardinality(Below(S, rank, a)) = i - 1
PROOF
<1> DEFINE N == Cardinality(S)
           f == [a \in S |-> Cardinality(Below(S, rank, a)) + 1]
<1>0. rank \in [Codes -> Nat] /\ N \in Nat /\ IsFiniteSet(S)
  BY CodesFinite DEF Ranking
<1>1. \A a \in S : Cardinality(Below(S, rank, a)) \in 0..N - 1
  BY <1>0, BelowSmaller
<1>2. f \in [S -> 1..N]
  BY <1>0, <1>1
<1>3. \A a, b \in S : f[a] = f[b] => a = b
  BY <1>1, BelowTells
<1>4. f \in Injection(S, 1..N)
  BY <1>2, <1>3 DEF Injection, IsInjective
<1>5. IsFiniteSet(1..N) /\ Cardinality(1..N) = N
  BY <1>0, FS_Interval
<1>6. f \in Surjection(S, 1..N)
  BY <1>4, <1>5, FS_Injection
<1>7. PICK a \in S : f[a] = i
  BY <1>6 DEF Surjection
<1> QED  BY <1>1, <1>7

\* InOrder enumerates a set by rank.
LEMMA InOrderRows ==
    ASSUME NEW S \in SUBSET Codes, NEW rank \in Ranking(S)
    PROVE  /\ InOrder(S, rank) \in Seq(S)
           /\ Len(InOrder(S, rank)) = Cardinality(S)
           /\ \A i \in 1..Cardinality(S) :
                 /\ InOrder(S, rank)[i] \in S
                 /\ Cardinality(Below(S, rank, InOrder(S, rank)[i])) = i - 1
PROOF
<1> DEFINE N == Cardinality(S)
           s == InOrder(S, rank)
<1>0. N \in Nat  BY CodesFinite
<1>1. s = [i \in 1..N |-> CHOOSE a \in S : Cardinality(Below(S, rank, a)) = i - 1]
  BY DEF InOrder, Below
<1>2. \A i \in 1..N : s[i] \in S /\ Cardinality(Below(S, rank, s[i])) = i - 1
  <2> SUFFICES ASSUME NEW i \in 1..N
               PROVE  s[i] \in S /\ Cardinality(Below(S, rank, s[i])) = i - 1
    OBVIOUS
  <2>1. s[i] = CHOOSE a \in S : Cardinality(Below(S, rank, a)) = i - 1  BY <1>1
  <2>2. \E a \in S : Cardinality(Below(S, rank, a)) = i - 1  BY BelowReaches
  <2> QED  BY <2>1, <2>2
<1>3. s \in [1..N -> S]
  BY <1>1, <1>2
<1>4. s \in Seq(S) /\ Len(s) = N
  BY <1>0, <1>3
<1> QED  BY <1>2, <1>4

\* The place of an asset is the number of those below it.
LEMMA InOrderPlace ==
    ASSUME NEW S \in SUBSET Codes, NEW rank \in Ranking(S), NEW a \in S
    PROVE  /\ Cardinality(Below(S, rank, a)) + 1 \in 1..Cardinality(S)
           /\ InOrder(S, rank)[Cardinality(Below(S, rank, a)) + 1] = a
PROOF
<1> DEFINE n == Cardinality(Below(S, rank, a))
           s == InOrder(S, rank)
<1>1. n + 1 \in 1..Cardinality(S)
  BY BelowSmaller, CodesFinite DEF Ranking
<1>2. s[n + 1] \in S /\ Cardinality(Below(S, rank, s[n + 1])) = n
  <2>1. \A i \in 1..Cardinality(S) : s[i] \in S /\ Cardinality(Below(S, rank, s[i])) = i - 1
    BY InOrderRows
  <2>2. PICK i \in 1..Cardinality(S) : i = n + 1 /\ n = i - 1
    BY <1>1, BelowSmaller DEF Ranking
  <2> HIDE DEF n, s
  <2> QED  BY <2>1, <2>2
<1>3. s[n + 1] = a
  BY <1>2, BelowTells
<1> QED  BY <1>1, <1>3

Increasing(s, rank) == \A i, j \in 1..Len(s) : i < j => rank[s[i]] < rank[s[j]]

LEMMA InOrderSorted ==
    ASSUME NEW S \in SUBSET Codes, NEW rank \in Ranking(S)
    PROVE  /\ Increasing(InOrder(S, rank), rank)
           /\ IsInjective(InOrder(S, rank))
           /\ ToSet(InOrder(S, rank)) = S
PROOF
<1> DEFINE N == Cardinality(S)
           s == InOrder(S, rank)
<1>0. N \in Nat /\ rank \in [Codes -> Nat]  BY CodesFinite DEF Ranking
<1>1. s \in Seq(S) /\ Len(s) = N /\ DOMAIN s = 1..N
  BY InOrderRows
<1>2. \A i \in 1..N : s[i] \in S /\ Cardinality(Below(S, rank, s[i])) = i - 1
  BY InOrderRows
<1>3. Increasing(s, rank)
  <2> SUFFICES ASSUME NEW i \in 1..N, NEW j \in 1..N, i < j
               PROVE  rank[s[i]] < rank[s[j]]
    BY <1>1 DEF Increasing
  <2>1. rank[s[i]] \in Nat /\ rank[s[j]] \in Nat  BY <1>0, <1>2
  <2>2. CASE rank[s[j]] < rank[s[i]]
    <3>1. Cardinality(Below(S, rank, s[j])) < Cardinality(Below(S, rank, s[i]))
      BY <2>2, <1>0, <1>2, BelowGrows
    <3> QED  BY <3>1, <1>2
  <2>3. CASE rank[s[j]] = rank[s[i]]
    <3>1. s[i] = s[j]  BY <2>3, <1>2 DEF Ranking
    <3>2. Cardinality(Below(S, rank, s[j])) = j - 1 /\ Cardinality(Below(S, rank, s[i])) = i - 1
      BY <1>2
    <3> HIDE DEF s
    <3> QED  BY <3>1, <3>2
  <2> QED  BY <2>1, <2>2, <2>3
<1>4. \A i, j \in 1..N : s[i] = s[j] => i = j
  <2> SUFFICES ASSUME NEW i \in 1..N, NEW j \in 1..N, s[i] = s[j]  PROVE i = j
    OBVIOUS
  <2>1. Cardinality(Below(S, rank, s[j])) = j - 1 /\ Cardinality(Below(S, rank, s[i])) = i - 1
    BY <1>2
  <2> HIDE DEF s
  <2> QED  BY <2>1
<1>5. ToSet(s) = S
  <2>1. ToSet(s) \subseteq S  BY <1>1, <1>2 DEF ToSet
  <2>2. ASSUME NEW a \in S PROVE a \in ToSet(s)
    BY <1>1, InOrderPlace DEF ToSet
  <2> QED  BY <2>1, <2>2
<1> QED  BY <1>1, <1>3, <1>4, <1>5 DEF IsInjective

LEMMA SameSeq ==
    ASSUME NEW T, NEW s \in Seq(T), NEW r \in Seq(T), Len(r) = Len(s),
           \A i \in 1..Len(s) : r[i] = s[i]
    PROVE  r = s
OBVIOUS

LEMMA SeqOfItsSet ==
    ASSUME NEW T, NEW s \in Seq(T)
    PROVE  s \in Seq(ToSet(s)) /\ ToSet(s) = {s[i] : i \in 1..Len(s)}
PROOF
<1>1. DOMAIN s = 1..Len(s) /\ Len(s) \in Nat
  OBVIOUS
<1>2. ToSet(s) = {s[i] : i \in 1..Len(s)}
  BY <1>1 DEF ToSet
<1>3. \A i \in 1..Len(s) : s[i] \in ToSet(s)
  BY <1>2
<1>4. s \in [1..Len(s) -> ToSet(s)]
  BY <1>1, <1>3
<1> QED  BY <1>1, <1>2, <1>4

\* What increases by rank is in order.
LEMMA InOrderUnique ==
    ASSUME NEW S \in SUBSET Codes, NEW rank \in [Codes -> Nat], NEW s \in Seq(S),
           ToSet(s) = S, Increasing(s, rank)
    PROVE  rank \in Ranking(S) /\ InOrder(S, rank) = s /\ Cardinality(S) = Len(s)
PROOF
<1>1. Len(s) \in Nat /\ DOMAIN s = 1..Len(s) /\ \A i \in 1..Len(s) : s[i] \in S
  OBVIOUS
<1>2. \A a \in S : \E i \in 1..Len(s) : s[i] = a
  BY <1>1 DEF ToSet
<1>3. \A i, j \in 1..Len(s) : i < j => rank[s[i]] < rank[s[j]]
  BY DEF Increasing
<1>4. \A a \in S : rank[a] \in Nat
  OBVIOUS
<1>5. \A i, j \in 1..Len(s) : rank[s[i]] = rank[s[j]] => i = j
  <2> SUFFICES ASSUME NEW i \in 1..Len(s), NEW j \in 1..Len(s), rank[s[i]] = rank[s[j]]
               PROVE  i = j
    OBVIOUS
  <2>1. rank[s[i]] \in Nat /\ i \in Nat /\ j \in Nat  BY <1>1, <1>4
  <2> QED  BY <2>1, <1>3
<1>6. rank \in Ranking(S)
  <2> SUFFICES ASSUME NEW a \in S, NEW b \in S, rank[a] = rank[b]  PROVE a = b
    BY DEF Ranking
  <2>1. PICK i \in 1..Len(s) : s[i] = a  BY <1>2
  <2>2. PICK j \in 1..Len(s) : s[j] = b  BY <1>2
  <2> QED  BY <2>1, <2>2, <1>5
<1>7. ASSUME NEW i \in 1..Len(s)
      PROVE  Cardinality(Below(S, rank, s[i])) = i - 1
  <2> DEFINE B == Below(S, rank, s[i])
             f == [j \in 1..i - 1 |-> s[j]]
  <2>1. \A j \in 1..i - 1 : f[j] \in B
    BY <1>1, <1>3 DEF Below
  <2>2. \A b \in B : \E j \in 1..i - 1 : f[j] = b
    <3> SUFFICES ASSUME NEW b \in B  PROVE \E j \in 1..i - 1 : f[j] = b
      OBVIOUS
    <3>1. b \in S /\ rank[b] < rank[s[i]]  BY DEF Below
    <3>2. PICK j \in 1..Len(s) : s[j] = b  BY <3>1, <1>2
    <3>3. j < i
      <4> SUFFICES ASSUME ~ (j < i)  PROVE FALSE
        OBVIOUS
      <4>1. rank[s[i]] <= rank[s[j]]  BY <1>1, <1>3, <1>4
      <4> QED  BY <4>1, <3>1, <3>2, <1>1, <1>4
    <3> QED  BY <3>2, <3>3
  <2>3. \A j, k \in 1..i - 1 : f[j] = f[k] => j = k
    BY <1>1, <1>5
  <2>4. f \in Bijection(1..i - 1, B)
    BY <2>1, <2>2, <2>3 DEF Bijection, Injection, Surjection, IsInjective
  <2>5. IsFiniteSet(1..i - 1) /\ Cardinality(1..i - 1) = i - 1
    <3>1. i - 1 \in Nat  BY <1>1
    <3> QED  BY <3>1, UpTo
  <2> QED  BY <2>4, <2>5, FS_Bijection DEF ExistsBijection
<1>8. Cardinality(S) = Len(s)
  <2>1. s \in Bijection(1..Len(s), S)
    BY <1>1, <1>2, <1>5 DEF Bijection, Injection, Surjection, IsInjective
  <2>2. IsFiniteSet(1..Len(s)) /\ Cardinality(1..Len(s)) = Len(s)
    BY <1>1, UpTo
  <2> QED  BY <2>1, <2>2, FS_Bijection DEF ExistsBijection
<1>9. ASSUME NEW i \in 1..Len(s)
      PROVE  InOrder(S, rank)[i] = s[i]
  <2>1. InOrder(S, rank)[Cardinality(Below(S, rank, s[i])) + 1] = s[i]
    BY <1>1, <1>6, InOrderPlace
  <2>2. Cardinality(Below(S, rank, s[i])) + 1 = i
    BY <1>1, <1>7
  <2> QED  BY <2>1, <2>2
<1>10. InOrder(S, rank) \in Seq(S) /\ Len(InOrder(S, rank)) = Len(s)
  BY <1>6, <1>8, InOrderRows
<1>11. InOrder(S, rank) = s
  BY <1>9, <1>10, SameSeq
<1> QED  BY <1>6, <1>8, <1>11

\* The part of a sequence from one place to another.
LEMMA SubSeqRows ==
    ASSUME NEW T, NEW s \in Seq(T), NEW m \in Nat \ {0}, NEW n \in Nat, n <= Len(s)
    PROVE  /\ SubSeq(s, m, n) \in Seq(T)
           /\ Len(SubSeq(s, m, n)) = IF m <= n THEN n - m + 1 ELSE 0
           /\ \A i \in 1..Len(SubSeq(s, m, n)) :
                 m + i - 1 \in 1..Len(s) /\ SubSeq(s, m, n)[i] = s[m + i - 1]
OBVIOUS

\* A part of the assets of a set, in order.
IsPart(part, S, rank) ==
    /\ part \in Seq(Codes)
    /\ ToSet(part) \in SUBSET S
    /\ Increasing(part, rank)
    /\ IsInjective(part)
    /\ InOrder(ToSet(part), rank) = part
    /\ Cardinality(ToSet(part)) = Len(part)

LEMMA SliceInOrder ==
    ASSUME NEW S \in SUBSET Codes, NEW rank \in Ranking(S), NEW m \in Nat \ {0},
           NEW n \in Nat, n <= Cardinality(S)
    PROVE  IsPart(SubSeq(InOrder(S, rank), m, n), S, rank)
PROOF
<1> DEFINE s == InOrder(S, rank)
           part == SubSeq(s, m, n)
<1>1. s \in Seq(S) /\ Len(s) = Cardinality(S)
  BY InOrderRows
<1>2. Increasing(s, rank) /\ rank \in [Codes -> Nat]
  BY InOrderSorted DEF Ranking
<1>3. /\ part \in Seq(S)
      /\ \A i \in 1..Len(part) : m + i - 1 \in 1..Len(s) /\ part[i] = s[m + i - 1]
  BY <1>1, SubSeqRows
<1>4. Len(part) \in Nat /\ DOMAIN part = 1..Len(part) /\ \A i \in 1..Len(part) : part[i] \in S
  BY <1>3
<1>5. Increasing(part, rank)
  <2> SUFFICES ASSUME NEW i \in 1..Len(part), NEW j \in 1..Len(part), i < j
               PROVE  rank[part[i]] < rank[part[j]]
    BY DEF Increasing
  <2>1. m + i - 1 \in 1..Len(s) /\ m + j - 1 \in 1..Len(s) /\ m + i - 1 < m + j - 1
    BY <1>3, <1>4
  <2>2. rank[s[m + i - 1]] < rank[s[m + j - 1]]
    BY <2>1, <1>2 DEF Increasing
  <2> QED  BY <2>2, <1>3
<1>6. ToSet(part) \in SUBSET S
  BY <1>4 DEF ToSet
<1> HIDE DEF part
<1>7. part \in Seq(ToSet(part))
  BY <1>3, SeqOfItsSet
<1>8. /\ InOrder(ToSet(part), rank) = part
      /\ Cardinality(ToSet(part)) = Len(part)
      /\ rank \in Ranking(ToSet(part))
  BY <1>2, <1>5, <1>6, <1>7, InOrderUnique
<1>9. IsInjective(part)
  BY <1>6, <1>8, InOrderSorted
<1>10. part \in Seq(Codes)
  BY <1>3
<1> QED  BY <1>5, <1>6, <1>8, <1>9, <1>10 DEF part, IsPart

-------------------------------------------------------------------------------
(* The pages one after the other *)

LEMMA LeastOf ==
    ASSUME NEW D \in SUBSET Nat, D # {}
    PROVE  \E n \in D : \A k \in D : n <= k
PROOF
<1>1. PICK n \in D : \A k \in D : ~ (<< k, n >> \in OpToRel(<, Nat))
  BY WFMin, NatLessThanWellFounded, Zenon
<1>2. \A k \in D : ~ (k < n)
  BY <1>1 DEF OpToRel
<1> QED  BY <1>2

\* f has, for each of the first n sequences of w, those so far in one.
Flattens(f, n, w) == f = [i \in 1..n |-> IF i = 1 THEN w[i] ELSE f[i - 1] \o w[i]]

LEMMA FlattenExists ==
    ASSUME NEW w, NEW n \in Nat
    PROVE  \E f : Flattens(f, n, w)
PROOF
<1> DEFINE D == {k \in Nat : ~ \E f : Flattens(f, k, w)}
<1> SUFFICES D = {}
  OBVIOUS
<1> SUFFICES ASSUME D # {}  PROVE FALSE
  OBVIOUS
<1>1. PICK k \in D : \A j \in D : k <= j
  BY LeastOf
<1>2. CASE k = 0
  <2> DEFINE f == [i \in 1..0 |-> w]
  <2>1. f = [i \in 1..k |-> IF i = 1 THEN w[i] ELSE f[i - 1] \o w[i]]
    BY <1>2
  <2>2. Flattens(f, k, w)
    BY <2>1, Zenon DEF Flattens
  <2> QED  BY <2>2
<1>3. CASE k # 0
  <2>1. k - 1 \in Nat /\ k - 1 \notin D /\ k \in Nat
    BY <1>1, <1>3
  <2>2. PICK f : Flattens(f, k - 1, w)
    BY <2>1
  <2> DEFINE last == IF k = 1 THEN w[k] ELSE f[k - 1] \o w[k]
             g == [i \in 1..k |-> IF i = k THEN last ELSE f[i]]
  <2>3. ASSUME NEW i \in 1..k
        PROVE  g[i] = IF i = 1 THEN w[i] ELSE g[i - 1] \o w[i]
    <3>1. CASE i = k
      BY <3>1, <2>1
    <3>2. CASE i # k
      <4>1. i \in 1..(k - 1) /\ (i # 1 => i - 1 \in 1..(k - 1) /\ i - 1 \in 1..k /\ i - 1 # k)
        BY <3>2, <2>1
      <4>2. f[i] = IF i = 1 THEN w[i] ELSE f[i - 1] \o w[i]
        BY <4>1, <2>2 DEF Flattens
      <4>3. g[i] = f[i] /\ (i # 1 => g[i - 1] = f[i - 1])
        BY <4>1, <3>2
      <4> HIDE DEF g
      <4> QED  BY <4>2, <4>3
    <3> QED  BY <3>1, <3>2
  <2>4. g = [i \in 1..k |-> g[i]]
    OBVIOUS
  <2> HIDE DEF g
  <2>5. Flattens(g, k, w)
    BY <2>3, <2>4 DEF Flattens
  <2> QED  BY <2>5
<1> QED  BY <1>2, <1>3

LEMMA FlattenOf ==
    ASSUME NEW T, NEW w \in Seq(T), w # << >>
    PROVE  \E f : Flattens(f, Len(w), w) /\ FlattenSeq(w) = f[Len(w)]
PROOF
<1> DEFINE f == CHOOSE h : Flattens(h, Len(w), w)
<1>1. Len(w) \in Nat /\ Len(w) # 0
  OBVIOUS
<1>2. Flattens(f, Len(w), w)
  BY <1>1, FlattenExists
<1>3. f = CHOOSE h : h = [i \in 1..Len(w) |-> IF i = 1 THEN w[i] ELSE h[i - 1] \o w[i]]
  BY DEF Flattens
<1>4. FlattenSeq(w) = f[Len(w)]
  BY <1>1, <1>3 DEF FlattenSeq
<1> QED  BY <1>2, <1>4

LEMMA AppendRows ==
    ASSUME NEW T, NEW s \in Seq(T), NEW e \in T
    PROVE  /\ Append(s, e) \in Seq(T) /\ Append(s, e) # << >>
           /\ Len(Append(s, e)) = Len(s) + 1 /\ Len(s) \in Nat
           /\ Append(s, e)[Len(s) + 1] = e
           /\ \A i \in 1..Len(s) : s[i] = Append(s, e)[i]
OBVIOUS

\* It is the same for as long as the sequences are.
LEMMA FlattenAgrees ==
    ASSUME NEW w \in Seq(Seq(Codes)), NEW r \in Seq(Codes), NEW f, NEW g,
           Flattens(f, Len(w), w), Flattens(g, Len(Append(w, r)), Append(w, r))
    PROVE  \A i \in 1..Len(w) : f[i] = g[i]
PROOF
<1> DEFINE n == Len(w)
           m == Len(Append(w, r))
           v == Append(w, r)
<1>0. n \in Nat /\ m = n + 1 /\ \A i \in 1..n : w[i] = v[i]
  BY AppendRows
<1>00. Flattens(f, n, w) /\ Flattens(g, m, v)
  OBVIOUS
<1> HIDE DEF n, m, v
<1> DEFINE D == {i \in 1..n : f[i] # g[i]}
<1> SUFFICES ASSUME D # {}  PROVE FALSE
  BY DEF n
<1>1. PICK k \in D : \A j \in D : k <= j
  <2>1. D \in SUBSET Nat  BY <1>0
  <2> QED  BY <2>1, LeastOf
<1>2. k \in 1..n /\ k \in 1..m /\ f[k] # g[k]
  BY <1>0
<1>3. f[k] = IF k = 1 THEN w[k] ELSE f[k - 1] \o w[k]
  BY <1>00, <1>2 DEF Flattens
<1>4. g[k] = IF k = 1 THEN v[k] ELSE g[k - 1] \o v[k]
  BY <1>00, <1>2 DEF Flattens
<1>5. k # 1
  BY <1>0, <1>2, <1>3, <1>4
<1>6. k - 1 \in 1..n /\ ~ (k <= k - 1)
  BY <1>0, <1>2, <1>5
<1>7. f[k - 1] = g[k - 1]
  BY <1>1, <1>6
<1> QED  BY <1>0, <1>2, <1>3, <1>4, <1>7

\* One more page adds its rows.
LEMMA FlattenMore ==
    ASSUME NEW w \in Seq(Seq(Codes)), NEW r \in Seq(Codes)
    PROVE  FlattenSeq(Append(w, r)) = IF w = << >> THEN r ELSE FlattenSeq(w) \o r
PROOF
<1> DEFINE v == Append(w, r)
<1>1. /\ v \in Seq(Seq(Codes)) /\ v # << >> /\ Len(v) = Len(w) + 1 /\ Len(w) \in Nat
      /\ v[Len(w) + 1] = r /\ \A i \in 1..Len(w) : w[i] = v[i]
  BY AppendRows
<1> HIDE DEF v
<1>2. PICK g : Flattens(g, Len(v), v) /\ FlattenSeq(v) = g[Len(v)]
  BY <1>1, FlattenOf
<1>3. g[Len(v)] = IF Len(v) = 1 THEN v[Len(v)] ELSE g[Len(v) - 1] \o v[Len(v)]
  <2>1. Len(v) \in 1..Len(v)  BY <1>1
  <2> QED  BY <1>2, <2>1 DEF Flattens
<1>4. CASE w = << >>
  BY <1>1, <1>2, <1>3, <1>4 DEF v
<1>5. CASE w # << >>
  <2>1. PICK f : Flattens(f, Len(w), w) /\ FlattenSeq(w) = f[Len(w)]
    BY <1>5, FlattenOf
  <2>2. Len(w) \in 1..Len(w) /\ Len(v) # 1 /\ Len(v) - 1 = Len(w)
    BY <1>1, <1>5
  <2>3. f[Len(w)] = g[Len(w)]
    BY <1>2, <2>1, <2>2, FlattenAgrees DEF v
  <2> QED  BY <1>1, <1>2, <1>3, <1>5, <2>1, <2>2, <2>3 DEF v
<1> QED  BY <1>4, <1>5

-------------------------------------------------------------------------------
(* Types *)

\* No page shows an asset twice, whatever others do: the first part of PagesAreSlices.
PagesRepeatNothing == \A n \in DOMAIN walked : IsInjective(walked[n])

ListInv ==
    /\ ListTypeOK
    /\ PagesRepeatNothing
    /\ IsInjective(reader.rows) /\ ToSet(reader.rows) \subseteq reader.seen

LEMMA OneTimeMore ==
    ASSUME NEW n \in Nat \ {0}, NEW c \in Nat
    PROVE  /\ n * c \in Nat /\ (n - 1) * c \in Nat
           /\ n * c = (n - 1) * c + c
PROOF
<1>1. PICK k \in Nat : n = k + 1
  <2>1. n - 1 \in Nat /\ n = (n - 1) + 1  OBVIOUS
  <2> QED  BY <2>1
<1>2. (k + 1) * c = k * c + c /\ k * c \in Nat
  OBVIOUS
<1> QED  BY <1>1, <1>2

LEMMA RanksTell ==
    ASSUME NEW S \in SUBSET Codes
    PROVE  Ranks \in Ranking(S)
PROOF
<1>1. [a \in Codes |-> a] \in Ranking(S)
  BY DEF Ranking, Codes
<1>2. TextRank \in Ranking(S)
  BY DEF Ranking
<1> QED  BY <1>1, <1>2 DEF Ranks

\* What the pages of a period are cut from: assets.
LEMMA BaseTyped ==
    ASSUME ListTypeOK
    PROVE  Base \in [Periods -> SUBSET Codes]
PROOF
<1> SUFFICES ASSUME NEW p \in Periods
             PROVE  (IF scans[p] = {} THEN listed[p] ELSE UNION scans[p]) \in SUBSET Codes
  BY DEF Base
<1>1. listed[p] \in SUBSET Codes /\ scans[p] \in SUBSET SUBSET Codes
  BY DEF ListTypeOK
<1> QED  BY <1>1

\* It stays the same when it is scanned, and when nobody writes.
LEMMA BaseStays ==
    ASSUME ListTypeOK, NEW p \in Periods, UNCHANGED listed, Scanned(p) \/ UNCHANGED scans
    PROVE  Base' = Base /\ scans' \in [Periods -> SUBSET SUBSET Codes]
PROOF
<1>1. scans \in [Periods -> SUBSET SUBSET Codes] /\ Base \in [Periods -> SUBSET Codes]
  BY BaseTyped DEF ListTypeOK
<1>2. CASE UNCHANGED scans
  BY <1>1, <1>2 DEF Base
<1>3. CASE scans' = [scans EXCEPT ![p] = {Base[p]}]
  <2>1. Base[p] \in SUBSET Codes
    BY <1>1
  <2>2. PICK S \in SUBSET Codes : S = Base[p]
    BY <2>1
  <2>3. scans' \in [Periods -> SUBSET SUBSET Codes]
    BY <1>1, <1>3, <2>2
  <2>4. scans'[p] = {S} /\ \A q \in Periods \ {p} : scans'[q] = scans[q]
    BY <1>1, <1>3, <2>2
  <2>5. \A q \in Periods : (IF scans'[q] = {} THEN listed'[q] ELSE UNION scans'[q]) = Base[q]
    <3> SUFFICES ASSUME NEW q \in Periods
                 PROVE  (IF scans'[q] = {} THEN listed'[q] ELSE UNION scans'[q]) = Base[q]
      OBVIOUS
    <3>1. CASE q = p
      <4>1. UNION {S} = S /\ {S} # {}
        OBVIOUS
      <4> QED  BY <3>1, <4>1, <2>2, <2>4
    <3>2. CASE q # p
      BY <3>2, <2>4 DEF Base
    <3> QED  BY <3>1, <3>2
  <2>6. Base' = [q \in Periods |-> IF scans'[q] = {} THEN listed'[q] ELSE UNION scans'[q]]
    BY DEF Base
  <2>7. Base' = [q \in Periods |-> Base[q]]
    BY <2>5, <2>6
  <2> QED  BY <1>1, <2>3, <2>7
<1> QED  BY <1>2, <1>3 DEF Scanned

\* The rows of a chunk, and which of the period they are.
LEMMA ChunkRows ==
    ASSUME ListTypeOK, NEW p \in Periods, NEW n \in Nat \ {0}, NEW size \in Nat \ {0}
    PROVE  LET rows == InOrder(Base[p], Ranks)
               N == Cardinality(Base[p])
           IN  /\ IsPart(Chunk(p, n, size), Base[p], Ranks)
               /\ rows \in Seq(Base[p]) /\ Len(rows) = N /\ N \in Nat
               /\ Chunk(p, n, size) = SubSeq(rows, (n - 1) * size + 1,
                                             IF n * size < N THEN n * size ELSE N)
               /\ (n - 1) * size \in Nat /\ n * size = (n - 1) * size + size
PROOF
<1> DEFINE S == Base[p]
           N == Cardinality(S)
           rows == InOrder(S, Ranks)
           last == IF n * size < N THEN n * size ELSE N
<1>1. S \in SUBSET Codes /\ N \in Nat
  BY CodesFinite, BaseTyped
<1>2. Ranks \in Ranking(S)
  BY <1>1, RanksTell
<1>3. (n - 1) * size \in Nat /\ n * size = (n - 1) * size + size /\ n * size \in Nat
  BY OneTimeMore
<1>4. rows \in Seq(S) /\ Len(rows) = N
  BY <1>1, <1>2, InOrderRows
<1>5. Chunk(p, n, size) = SubSeq(rows, (n - 1) * size + 1, last)
  BY <1>4 DEF Chunk
<1>6. (n - 1) * size + 1 \in Nat \ {0} /\ last \in Nat /\ last <= N
  BY <1>1, <1>3
<1> HIDE DEF rows, N, last, S
<1>7. PICK m \in Nat \ {0} : m = (n - 1) * size + 1
  BY <1>6
<1>8. IsPart(SubSeq(InOrder(S, Ranks), m, last), S, Ranks)
  BY <1>1, <1>2, <1>6, SliceInOrder DEF N
<1>9. IsPart(Chunk(p, n, size), S, Ranks)
  BY <1>5, <1>7, <1>8 DEF rows
<1> QED  BY <1>1, <1>3, <1>4, <1>5, <1>9 DEF rows, N, last, S

LEMMA RowsByIdTyped ==
    ASSUME ListTypeOK, NEW p \in Periods
    PROVE  RowsById(p) \in Seq(Codes) /\ IsInjective(RowsById(p))
           /\ ToSet(RowsById(p)) \subseteq listed[p]
PROOF
<1> DEFINE S == stream[p].wanted \cap listed[p]
<1>1. S \in SUBSET Codes
  BY DEF ListTypeOK
<1>2. Ranks \in Ranking(S)
  BY <1>1, RanksTell
<1>3. InOrder(S, Ranks) \in Seq(S) /\ IsInjective(InOrder(S, Ranks))
      /\ ToSet(InOrder(S, Ranks)) = S
  BY <1>1, <1>2, InOrderRows, InOrderSorted
<1>4. RowsById(p) = InOrder(S, Ranks)
  BY DEF RowsById
<1> HIDE DEF S
<1>5. RowsById(p) \in Seq(Codes)
  BY <1>1, <1>3, <1>4
<1> QED  BY <1>3, <1>4, <1>5 DEF S

LEMMA ChosenPeriod ==
    ASSUME ListTypeOK, NEW p \in chosen
    PROVE  p \in Periods /\ stream[p] \in Stream
BY DEF ListTypeOK

LEMMA FreshWalk == NewStream \in Stream /\ NoReader \in Reader
PROOF
<1>1. << >> \in Seq(Codes)
  OBVIOUS
<1> QED  BY <1>1 DEF NewStream, NoReader, Stream, Reader

\* A period's stream is set to one of the type.
LEMMA RefilledTyped ==
    ASSUME ListTypeOK, NEW p \in Periods, NEW rows \in Seq(Codes), Refilled(p, rows)
    PROVE  stream' \in [Periods -> Stream]
PROOF
<1> DEFINE st == stream[p]
           nil == [st EXCEPT !.exhausted = TRUE, !.scanning = FALSE, !.wanted = {}]
           more == [st EXCEPT !.buffer = rows, !.page = st.page + 1, !.scanning = FALSE,
                              !.wanted = {}, !.exhausted = Len(rows) < ChunkSize]
<1>1. st \in Stream
  BY DEF ListTypeOK
<1>2. nil \in Stream
  BY <1>1 DEF Stream
<1>4. more \in Stream
  <2>1. st.page + 1 \in Nat \ {0} /\ (Len(rows) < ChunkSize) \in BOOLEAN
    BY <1>1 DEF Stream
  <2> QED  BY <1>1, <2>1 DEF Stream
<1>3. stream' = [stream EXCEPT ![p] = IF rows = << >> THEN nil ELSE more]
  BY DEF Refilled
<1> HIDE DEF nil, more
<1> QED  BY <1>2, <1>3, <1>4 DEF ListTypeOK

LEMMA InjectiveAppend ==
    ASSUME NEW T, NEW s \in Seq(T), NEW e \in T, IsInjective(s), e \notin ToSet(s)
    PROVE  IsInjective(Append(s, e)) /\ ToSet(Append(s, e)) = ToSet(s) \cup {e}
PROOF
<1> DEFINE v == Append(s, e)
<1>1. /\ v \in Seq(T) /\ Len(v) = Len(s) + 1 /\ Len(s) \in Nat
      /\ v[Len(s) + 1] = e /\ \A i \in 1..Len(s) : s[i] = v[i]
  BY AppendRows
<1>2. /\ DOMAIN s = 1..Len(s) /\ DOMAIN v = 1..Len(s) + 1
  BY <1>1
<1> HIDE DEF v
<1>3. \A i \in 1..Len(s) : s[i] # e
  BY <1>2 DEF ToSet
<1>4. IsInjective(v)
  <2> SUFFICES ASSUME NEW i \in 1..Len(s) + 1, NEW j \in 1..Len(s) + 1, v[i] = v[j]
               PROVE  i = j
    BY <1>2 DEF IsInjective
  <2>1. CASE i \in 1..Len(s) /\ j \in 1..Len(s)
    BY <2>1, <1>1, <1>2 DEF IsInjective
  <2>2. CASE i = Len(s) + 1 \/ j = Len(s) + 1
    BY <2>2, <1>1, <1>3
  <2> QED  BY <2>1, <2>2, <1>1
<1>5. ToSet(v) = ToSet(s) \cup {e}
  <2>1. ToSet(v) \subseteq ToSet(s) \cup {e}
    <3> SUFFICES ASSUME NEW i \in 1..Len(s) + 1, v[i] # e  PROVE v[i] \in ToSet(s)
      BY <1>2 DEF ToSet
    <3>1. i \in 1..Len(s)  BY <1>1
    <3> QED  BY <3>1, <1>1, <1>2 DEF ToSet
  <2>2. ToSet(s) \cup {e} \subseteq ToSet(v)
    BY <1>1, <1>2 DEF ToSet
  <2> QED  BY <2>1, <2>2
<1> QED  BY <1>4, <1>5 DEF v

LEMMA ShowPageTyped ==
    ASSUME ListInv, NEW rows \in Seq(Codes), IsInjective(rows), NEW total \in Nat,
           ShowPage(rows, total)
    PROVE  /\ walked' \in Seq(Seq(Codes)) /\ PagesRepeatNothing'
           /\ reader' \in Reader /\ IsInjective(reader'.rows)
           /\ ToSet(reader'.rows) \subseteq reader'.seen
PROOF
<1>1. walked \in Seq(Seq(Codes)) /\ walked' = Append(walked, rows)
  BY DEF ListInv, ListTypeOK, ShowPage
<1>2. /\ walked' \in Seq(Seq(Codes)) /\ Len(walked') = Len(walked) + 1 /\ Len(walked) \in Nat
      /\ walked'[Len(walked) + 1] = rows
      /\ \A i \in 1..Len(walked) : walked[i] = walked'[i]
  BY <1>1, AppendRows
<1>3. PagesRepeatNothing'
  <2>1. DOMAIN walked' = 1..Len(walked) + 1 /\ DOMAIN walked = 1..Len(walked)
    BY <1>1, <1>2
  <2> SUFFICES ASSUME NEW n \in 1..Len(walked) + 1  PROVE IsInjective(walked'[n])
    BY <2>1 DEF PagesRepeatNothing
  <2>2. CASE n = Len(walked) + 1
    BY <2>2, <1>2
  <2>3. CASE n \in 1..Len(walked)
    BY <2>3, <2>1, <1>2 DEF ListInv, PagesRepeatNothing
  <2> QED  BY <2>2, <2>3, <1>2
<1>4. reader' = [NoReader EXCEPT !.total = total] /\ NoReader \in Reader
  BY FreshWalk DEF ShowPage
<1>5. reader' \in Reader
  BY <1>4 DEF Reader
<1>6. reader'.rows = << >>
  BY <1>4 DEF NoReader
<1>7. IsInjective(reader'.rows) /\ ToSet(reader'.rows) = {}
  BY <1>6 DEF IsInjective, ToSet
<1> QED  BY <1>2, <1>3, <1>5, <1>7

LEMMA ScanTyped ==
    ASSUME ListTypeOK, NEW p \in Periods, NEW w \in SUBSET Codes,
           stream' = [stream EXCEPT ![p].scanning = TRUE, ![p].wanted = w]
    PROVE  /\ stream' \in [Periods -> Stream]
           /\ stream'[p] = [stream[p] EXCEPT !.scanning = TRUE, !.wanted = w]
           /\ \A q \in Periods \ {p} : stream'[q] = stream[q]
PROOF
<1>1. stream[p] \in Stream /\ stream \in [Periods -> Stream]
  BY DEF ListTypeOK
<1>2. [stream[p] EXCEPT !.scanning = TRUE, !.wanted = w] \in Stream
  BY <1>1 DEF Stream
<1>3. stream'[p] = [stream[p] EXCEPT !.scanning = TRUE, !.wanted = w]
  BY <1>1 DEF Stream
<1>4. stream' \in [Periods -> Stream] /\ \A q \in Periods \ {p} : stream'[q] = stream[q]
  <2>1. stream' = [q \in Periods |-> IF q = p THEN stream'[p] ELSE stream[q]]
    BY <1>1
  <2> QED  BY <2>1, <1>1, <1>2, <1>3
<1> QED  BY <1>3, <1>4

LEMMA TakeHeadTyped ==
    ASSUME ListInv, TakeHead
    PROVE  /\ stream' \in [Periods -> Stream] /\ reader' \in Reader
           /\ IsInjective(reader'.rows) /\ ToSet(reader'.rows) \subseteq reader'.seen
PROOF
<1>1. PICK p \in Heads :
          LET a == Head(stream[p].buffer) IN
          /\ stream' = [stream EXCEPT ![p].buffer = Tail(@)]
          /\ reader' =
                IF a \in reader.seen THEN reader
                ELSE IF reader.skipped < (PageNo - 1) * PageSize
                THEN [reader EXCEPT !.seen = @ \cup {a}, !.skipped = @ + 1]
                ELSE [reader EXCEPT !.seen = @ \cup {a}, !.rows = Append(@, a)]
  BY DEF TakeHead
<1>2. p \in Periods /\ stream[p] \in Stream /\ stream[p].buffer # << >>
      /\ stream[p].buffer \in Seq(Codes) /\ stream \in [Periods -> Stream]
  BY <1>1, ChosenPeriod DEF ListInv, ListTypeOK, Heads, Stream
<1>3. PICK a \in Codes : a = Head(stream[p].buffer)
  BY <1>2
<1>4. Tail(stream[p].buffer) \in Seq(Codes)
  BY <1>2
<1>5. stream' \in [Periods -> Stream]
  <2>1. [stream[p] EXCEPT !.buffer = Tail(stream[p].buffer)] \in Stream
    BY <1>2, <1>4 DEF Stream
  <2>2. stream' = [stream EXCEPT ![p] = [stream[p] EXCEPT !.buffer = Tail(stream[p].buffer)]]
    BY <1>1
  <2> QED  BY <1>2, <2>1, <2>2
<1>6. reader \in Reader /\ IsInjective(reader.rows) /\ ToSet(reader.rows) \subseteq reader.seen
  BY DEF ListInv, ListTypeOK
<1>7. CASE a \in reader.seen
  BY <1>1, <1>3, <1>5, <1>6, <1>7
<1>8. CASE a \notin reader.seen /\ reader.skipped < (PageNo - 1) * PageSize
  <2>1. reader' = [reader EXCEPT !.seen = reader.seen \cup {a}, !.skipped = reader.skipped + 1]
    BY <1>1, <1>3, <1>8
  <2>2. reader.skipped + 1 \in Nat /\ reader.seen \cup {a} \in SUBSET Codes
    BY <1>6 DEF Reader
  <2>3. reader' \in Reader /\ reader'.rows = reader.rows /\ reader'.seen = reader.seen \cup {a}
    BY <2>1, <2>2, <1>6 DEF Reader
  <2> QED  BY <2>3, <1>5, <1>6
<1>9. CASE a \notin reader.seen /\ ~ (reader.skipped < (PageNo - 1) * PageSize)
  <2>1. reader' = [reader EXCEPT !.seen = reader.seen \cup {a}, !.rows = Append(reader.rows, a)]
    BY <1>1, <1>3, <1>9
  <2>2. reader.rows \in Seq(Codes) /\ a \notin ToSet(reader.rows)
    BY <1>6, <1>9 DEF Reader
  <2>3. IsInjective(Append(reader.rows, a)) /\ Append(reader.rows, a) \in Seq(Codes)
        /\ ToSet(Append(reader.rows, a)) = ToSet(reader.rows) \cup {a}
    BY <2>2, <1>6, InjectiveAppend
  <2>4. reader' \in Reader /\ reader'.rows = Append(reader.rows, a)
        /\ reader'.seen = reader.seen \cup {a}
    BY <2>1, <2>3, <1>6 DEF Reader
  <2> QED  BY <2>3, <2>4, <1>5, <1>6
<1> QED  BY <1>7, <1>8, <1>9

LEMMA ListInvInit == ListInit => ListInv
PROOF
<1> SUFFICES ASSUME ListInit  PROVE ListInv
  OBVIOUS
<1>1. stream \in [Periods -> Stream] /\ reader \in Reader
  BY FreshWalk DEF ListInit
<1>2. chosen \subseteq Periods
  BY DEF ListInit, Periods
<1>3. atFirst \subseteq Codes
  BY <1>2 DEF ListInit
<1>4. walked \in Seq(Seq(Codes)) /\ events \in Seq({"insert", "delete"})
      /\ walked = << >>
  BY DEF ListInit
<1>5. PagesRepeatNothing
  BY <1>4 DEF PagesRepeatNothing
<1>6. reader.rows = << >>
  BY DEF ListInit, NoReader
<1>7. IsInjective(reader.rows) /\ ToSet(reader.rows) = {}
  BY <1>6 DEF IsInjective, ToSet
<1>8. scans \in [Periods -> SUBSET SUBSET Codes]
  BY DEF ListInit
<1> QED  BY <1>1, <1>2, <1>3, <1>4, <1>5, <1>7, <1>8 DEF ListInv, ListTypeOK, ListInit

LEMMA ListInvStep == ListInv /\ [ListNext]_listVars => ListInv'
PROOF
<1> SUFFICES ASSUME ListInv, [ListNext]_listVars  PROVE ListInv'
  OBVIOUS
<1>0. ListTypeOK
  BY DEF ListInv
<1>1. CASE UNCHANGED listVars
  BY <1>1 DEF listVars, ListInv, ListTypeOK, PagesRepeatNothing
<1>2. CASE AskPage
  <2>1. stream' \in [Periods -> Stream]
    BY <1>2, FreshWalk DEF AskPage
  <2>2. reader' \in Reader /\ reader'.rows = << >>
    BY <1>2, FreshWalk DEF AskPage, NoReader, Reader
  <2>3. IsInjective(reader'.rows) /\ ToSet(reader'.rows) = {}
    BY <2>2 DEF IsInjective, ToSet
  <2> QED  BY <1>0, <1>2, <2>1, <2>2, <2>3 DEF AskPage, ListInv, ListTypeOK, PagesRepeatNothing
<1>3. CASE TakeHead
  BY <1>0, <1>3, TakeHeadTyped DEF TakeHead, ListInv, ListTypeOK, PagesRepeatNothing
<1>4. CASE EndMerge
  <2>1. reader.rows \in Seq(Codes) /\ IsInjective(reader.rows) /\ reader.total \in Nat
    BY DEF ListInv, ListTypeOK, Reader
  <2>2. ShowPage(reader.rows, reader.total)
    BY <1>4 DEF EndMerge
  <2> QED  BY <1>0, <1>4, <2>1, <2>2, ShowPageTyped DEF EndMerge, ListInv, ListTypeOK
<1>5. ASSUME NEW p \in chosen, MergeStep(p)  PROVE ListInv'
  <2>0. p \in Periods /\ stream[p] \in Stream /\ stream[p].page \in Nat \ {0}
    BY <1>0, ChosenPeriod DEF Stream
  <2>1. CASE CountPeriod(p)
    <3>1. stream' \in [Periods -> Stream]
      <4>1. PICK c \in {"no", "empty", "open"} : stream' = [stream EXCEPT ![p].counted = c]
        BY <2>1 DEF CountPeriod
      <4>2. [stream[p] EXCEPT !.counted = c] \in Stream
        BY <2>0 DEF Stream
      <4> QED  BY <4>1, <4>2, <1>0, <2>0 DEF ListTypeOK
    <3>2. PICK at \in {"totals", "merge"} : reader' = [reader EXCEPT
              !.total = reader.total + Cardinality(Base[p]), !.at = at]
      <4> DEFINE at == IF \A q \in chosen \ {p} : stream[q].counted # "no" THEN "merge"
                       ELSE reader.at
      <4>1. at \in {"totals", "merge"} /\ reader' = [reader EXCEPT
              !.total = reader.total + Cardinality(Base[p]), !.at = at]
        BY <2>1 DEF CountPeriod
      <4> QED  BY <4>1
    <3>3. Cardinality(Base[p]) \in Nat
      BY <1>0, <2>0, CodesFinite, BaseTyped
    <3>4. reader' \in Reader /\ reader'.rows = reader.rows /\ reader'.seen = reader.seen
      <4>1. reader \in Reader /\ reader.total + Cardinality(Base[p]) \in Nat
        BY <1>0, <3>3 DEF ListTypeOK, Reader
      <4> QED  BY <3>2, <4>1 DEF Reader
    <3>5. scans' \in [Periods -> SUBSET SUBSET Codes]
      BY <1>0, <2>0, <2>1, BaseStays DEF CountPeriod
    <3> QED
      BY <1>0, <2>1, <3>1, <3>4, <3>5 DEF CountPeriod, ListInv, ListTypeOK, PagesRepeatNothing
  <2>2. CASE RefillStream(p)
    <3>1. Chunk(p, stream[p].page, ChunkSize) \in Seq(Codes)
      BY <1>0, <2>0, ChunkRows DEF IsPart
    <3>2. stream' \in [Periods -> Stream]
      BY <1>0, <2>0, <2>2, <3>1, RefilledTyped DEF RefillStream
    <3> QED  BY <1>0, <2>2, <3>2 DEF RefillStream, ListInv, ListTypeOK, PagesRepeatNothing
  <2>3. CASE RefillScan(p)
    <3>1. ToSet(Chunk(p, stream[p].page, ChunkSize)) \in SUBSET Codes
      BY <1>0, <2>0, ChunkRows, BaseTyped DEF IsPart
    <3>2. stream' \in [Periods -> Stream] /\ scans' \in [Periods -> SUBSET SUBSET Codes]
      BY <1>0, <2>0, <2>3, <3>1, ScanTyped, BaseStays DEF RefillScan, ScanIds
    <3> QED  BY <1>0, <2>3, <3>2 DEF RefillScan, ScanIds, ListInv, ListTypeOK, PagesRepeatNothing
  <2>4. CASE RefillFetch(p)
    <3>1. stream' \in [Periods -> Stream]
      BY <1>0, <2>0, <2>4, RowsByIdTyped, RefilledTyped DEF RefillFetch
    <3> QED  BY <1>0, <2>4, <3>1 DEF RefillFetch, ListInv, ListTypeOK, PagesRepeatNothing
  <2> QED  BY <1>5, <2>1, <2>2, <2>3, <2>4 DEF MergeStep
<1>6. ASSUME NEW p \in chosen, SingleStep(p)  PROVE ListInv'
  <2>0. p \in Periods /\ PageNo \in Nat \ {0} /\ Cardinality(Base[p]) \in Nat
    BY <1>0, ChosenPeriod, CodesFinite, BaseTyped DEF ListTypeOK, PageNo
  <2>1. CASE SinglePage(p)
    <3>1. Chunk(p, PageNo, PageSize) \in Seq(Codes) /\ IsInjective(Chunk(p, PageNo, PageSize))
      BY <1>0, <2>0, ChunkRows DEF IsPart
    <3>2. ShowPage(Chunk(p, PageNo, PageSize), Cardinality(Base[p]))
      BY <2>1 DEF SinglePage
    <3> QED  BY <1>0, <2>0, <2>1, <3>1, <3>2, ShowPageTyped DEF SinglePage, ListInv, ListTypeOK
  <2>2. CASE SingleScan(p)
    <3>1. ToSet(Chunk(p, PageNo, PageSize)) \in SUBSET Codes
      BY <1>0, <2>0, ChunkRows, BaseTyped DEF IsPart
    <3>2. stream' \in [Periods -> Stream] /\ scans' \in [Periods -> SUBSET SUBSET Codes]
      BY <1>0, <2>0, <2>2, <3>1, ScanTyped, BaseStays DEF SingleScan
    <3>3. reader' \in Reader /\ reader'.rows = reader.rows /\ reader'.seen = reader.seen
      BY <1>0, <2>0, <2>2 DEF SingleScan, ListTypeOK, Reader
    <3> QED  BY <1>0, <2>2, <3>2, <3>3 DEF SingleScan, ListInv, ListTypeOK, PagesRepeatNothing
  <2>3. CASE SingleFetch(p)
    <3>1. RowsById(p) \in Seq(Codes) /\ IsInjective(RowsById(p)) /\ reader.total \in Nat
      BY <1>0, <2>0, RowsByIdTyped DEF ListTypeOK, Reader
    <3>2. ShowPage(RowsById(p), reader.total)
      BY <2>3 DEF SingleFetch
    <3> QED  BY <1>0, <2>3, <3>1, <3>2, ShowPageTyped DEF SingleFetch, ListInv, ListTypeOK
  <2> QED  BY <1>6, <2>1, <2>2, <2>3 DEF SingleStep
<1>7. ASSUME NEW a \in Codes, NEW p \in chosen, InsertAsset(a, p) \/ DeleteAsset(a, p)
      PROVE  ListInv'
  <2>1. p \in Periods
    BY <1>0, ChosenPeriod
  <2>2. listed' \in [Periods -> SUBSET Codes]
    <3>1. listed \in [Periods -> SUBSET Codes]
      BY <1>0 DEF ListTypeOK
    <3>2. PICK S \in SUBSET Codes : listed' = [listed EXCEPT ![p] = S]
      <4>1. listed[p] \cup {a} \in SUBSET Codes /\ listed[p] \ {a} \in SUBSET Codes
        BY <3>1, <2>1
      <4> QED  BY <1>7, <4>1 DEF InsertAsset, DeleteAsset
    <3> QED  BY <2>1, <3>1, <3>2
  <2>3. events' \in Seq({"insert", "delete"})
    <3>1. events \in Seq({"insert", "delete"})
      BY <1>0 DEF ListTypeOK
    <3>2. PICK e \in {"insert", "delete"} : events' = Append(events, e)
      BY <1>7 DEF InsertAsset, DeleteAsset, Happens
    <3> QED  BY <3>1, <3>2, AppendRows
  <2>4. UNCHANGED << chosen, scanned, keeps, scans, stream, reader, walked, atFirst >>
    BY <1>7 DEF InsertAsset, DeleteAsset, Happens
  <2>5. settled' \in BOOLEAN
    BY <1>0, <1>7 DEF InsertAsset, DeleteAsset, ListTypeOK
  <2> QED  BY <1>0, <2>2, <2>3, <2>4, <2>5 DEF ListInv, ListTypeOK, PagesRepeatNothing
<1>8. ASSUME NEW p \in chosen, DropScan(p)  PROVE ListInv'
  <2>1. scans' \in [Periods -> SUBSET SUBSET Codes]
    BY <1>0, <1>8, ChosenPeriod DEF DropScan, ListTypeOK
  <2>2. settled' \in BOOLEAN
    BY <1>0, <1>8 DEF DropScan, ListTypeOK
  <2> QED  BY <1>0, <1>8, <2>1, <2>2 DEF DropScan, ListInv, ListTypeOK, PagesRepeatNothing
<1> QED
  BY <1>1, <1>2, <1>3, <1>4, <1>5, <1>6, <1>7, <1>8 DEF ListNext

\* The state of a list has its type.
THEOREM ListTypes == ListSpec => []ListTypeOK
PROOF
<1>1. ListInv => ListTypeOK
  BY DEF ListInv
<1> QED  BY <1>1, ListInvInit, ListInvStep, PTL DEF ListSpec

-------------------------------------------------------------------------------
(* The list whose slices the pages are *)

\* The assets of the periods C.
AllOf(L, C) == UNION {L[p] : p \in C}

ApartIn(L) == \A p, q \in Periods : p # q => L[p] \cap L[q] = {}

\* The assets of a period up to one of it.
Upto(L, C, r, a) ==
    {b \in AllOf(L, C) : r[b] <= r[a] /\ \E p \in C : a \in L[p] /\ b \in L[p]}

\* An asset comes out of the merge once those of the other periods are behind the
\* highest that came before it in its own.
Peak(L, C, r, a) == CHOOSE m \in Upto(L, C, r, a) : \A b \in Upto(L, C, r, a) : b <= m
Earlier(L, C, r, a, b) ==
    \/ Peak(L, C, r, a) < Peak(L, C, r, b)
    \/ Peak(L, C, r, a) = Peak(L, C, r, b) /\ r[a] < r[b]
MergeRank(L, C, r) ==
    [a \in Codes |-> IF a \in AllOf(L, C)
                     THEN Cardinality({b \in AllOf(L, C) : Earlier(L, C, r, b, a)}) ELSE 0]
Merged(L, C, r) == InOrder(AllOf(L, C), MergeRank(L, C, r))

LEMMA Greatest ==
    ASSUME NEW S \in SUBSET Codes, S # {}
    PROVE  \E m \in S : \A b \in S : b <= m
PROOF
<1> DEFINE D == {MaxCode - b : b \in S}
<1>1. \A b \in S : b \in Nat /\ MaxCode - b \in Nat
  BY DEF Codes
<1>2. D \in SUBSET Nat
  BY <1>1
<1>3. PICK c \in S : TRUE
  OBVIOUS
<1>4. D # {}
  <2>1. MaxCode - c \in D  BY <1>3
  <2> QED  BY <2>1
<1>5. PICK n \in D : \A k \in D : n <= k
  BY <1>2, <1>4, LeastOf
<1>6. PICK m \in S : n = MaxCode - m
  OBVIOUS
<1>7. ASSUME NEW b \in S  PROVE b <= m
  <2>1. MaxCode - m <= MaxCode - b
    BY <1>5, <1>6
  <2> QED  BY <1>1, <2>1
<1> QED  BY <1>7

LEMMA PeakIs ==
    ASSUME NEW L \in [Periods -> SUBSET Codes], NEW C \in SUBSET Periods,
           NEW r \in Ranking(Codes), NEW p \in C, NEW a \in L[p]
    PROVE  /\ a \in AllOf(L, C) /\ AllOf(L, C) \in SUBSET Codes
           /\ Peak(L, C, r, a) \in Upto(L, C, r, a)
           /\ Peak(L, C, r, a) \in Nat
           /\ \A b \in Upto(L, C, r, a) : b <= Peak(L, C, r, a)
           /\ a \in Upto(L, C, r, a)
PROOF
<1>1. a \in AllOf(L, C) /\ AllOf(L, C) \in SUBSET Codes
  BY DEF AllOf
<1>2. r[a] \in Nat
  BY <1>1 DEF Ranking
<1>3. a \in Upto(L, C, r, a)
  BY <1>1, <1>2 DEF Upto
<1>4. Upto(L, C, r, a) \in SUBSET Codes
  BY <1>1 DEF Upto
<1>5. \E m \in Upto(L, C, r, a) : \A b \in Upto(L, C, r, a) : b <= m
  BY <1>3, <1>4, Greatest
<1>6. Peak(L, C, r, a) \in Upto(L, C, r, a)
      /\ \A b \in Upto(L, C, r, a) : b <= Peak(L, C, r, a)
  BY <1>5 DEF Peak
<1>7. Peak(L, C, r, a) \in Nat
  BY <1>4, <1>6 DEF Codes
<1> QED  BY <1>1, <1>3, <1>6, <1>7

\* The peak of an asset is in its period.
LEMMA PeakHome ==
    ASSUME NEW L \in [Periods -> SUBSET Codes], ApartIn(L), NEW C \in SUBSET Periods,
           NEW r \in Ranking(Codes), NEW p \in C, NEW a \in L[p]
    PROVE  /\ Upto(L, C, r, a) = {b \in L[p] : r[b] <= r[a]}
           /\ Peak(L, C, r, a) \in L[p] /\ r[Peak(L, C, r, a)] <= r[a]
           /\ a <= Peak(L, C, r, a)
PROOF
<1>1. \A q \in C : a \in L[q] => q = p
  BY DEF ApartIn
<1>2. L[p] \subseteq AllOf(L, C)
  BY DEF AllOf
<1>3. Upto(L, C, r, a) = {b \in L[p] : r[b] <= r[a]}
  BY <1>1, <1>2 DEF Upto
<1> QED  BY <1>3, PeakIs

\* Within a period the order is that of the backend.
LEMMA EarlierAtHome ==
    ASSUME NEW L \in [Periods -> SUBSET Codes], ApartIn(L), NEW C \in SUBSET Periods,
           NEW r \in Ranking(Codes), NEW p \in C, NEW a \in L[p], NEW b \in L[p], r[a] < r[b]
    PROVE  Earlier(L, C, r, a, b)
PROOF
<1>1. r \in [Codes -> Nat] /\ L[p] \in SUBSET Codes
  BY DEF Ranking
<1>2. r[a] \in Nat /\ r[b] \in Nat /\ \A c \in L[p] : r[c] \in Nat
  BY <1>1
<1>3. Peak(L, C, r, a) \in L[p] /\ r[Peak(L, C, r, a)] <= r[a] /\ Peak(L, C, r, a) \in Nat
  BY PeakHome, PeakIs
<1>4. Peak(L, C, r, a) \in Upto(L, C, r, b)
  <2>1. Upto(L, C, r, b) = {c \in L[p] : r[c] <= r[b]}
    BY PeakHome
  <2> QED  BY <2>1, <1>2, <1>3
<1>5. Peak(L, C, r, a) <= Peak(L, C, r, b) /\ Peak(L, C, r, b) \in Nat
  BY <1>4, PeakIs
<1> QED  BY <1>3, <1>5 DEF Earlier

\* Of two assets one is earlier.
LEMMA EarlierEither ==
    ASSUME NEW L \in [Periods -> SUBSET Codes], ApartIn(L), NEW C \in SUBSET Periods,
           NEW r \in Ranking(Codes), NEW a \in AllOf(L, C), NEW b \in AllOf(L, C), a # b
    PROVE  Earlier(L, C, r, a, b) \/ Earlier(L, C, r, b, a)
PROOF
<1>1. PICK p \in C : a \in L[p]
  BY DEF AllOf
<1>2. PICK q \in C : b \in L[q]
  BY DEF AllOf
<1>3. Peak(L, C, r, a) \in L[p] /\ Peak(L, C, r, b) \in L[q]
      /\ Peak(L, C, r, a) \in Nat /\ Peak(L, C, r, b) \in Nat
  BY <1>1, <1>2, PeakHome, PeakIs
<1>4. CASE Peak(L, C, r, a) = Peak(L, C, r, b)
  <2>1. p = q
    BY <1>3, <1>4 DEF ApartIn
  <2>2. r[a] # r[b] /\ r[a] \in Nat /\ r[b] \in Nat
    BY <1>1, <1>2 DEF Ranking
  <2> QED  BY <1>4, <2>2 DEF Earlier
<1>5. CASE Peak(L, C, r, a) # Peak(L, C, r, b)
  BY <1>3, <1>5 DEF Earlier
<1> QED  BY <1>4, <1>5

LEMMA EarlierOrder ==
    ASSUME NEW L \in [Periods -> SUBSET Codes], NEW C \in SUBSET Periods,
           NEW r \in Ranking(Codes), NEW a \in AllOf(L, C), NEW b \in AllOf(L, C),
           NEW c \in AllOf(L, C)
    PROVE  /\ ~ Earlier(L, C, r, a, a)
           /\ Earlier(L, C, r, a, b) /\ Earlier(L, C, r, b, c) => Earlier(L, C, r, a, c)
PROOF
<1>1. \A d \in AllOf(L, C) : Peak(L, C, r, d) \in Nat /\ r[d] \in Nat
  <2> SUFFICES ASSUME NEW d \in AllOf(L, C)  PROVE Peak(L, C, r, d) \in Nat /\ r[d] \in Nat
    OBVIOUS
  <2>1. PICK p \in C : d \in L[p]
    BY DEF AllOf
  <2> QED  BY <2>1, PeakIs DEF Ranking
<1>2. /\ Peak(L, C, r, a) \in Nat /\ Peak(L, C, r, b) \in Nat /\ Peak(L, C, r, c) \in Nat
      /\ r[a] \in Nat /\ r[b] \in Nat /\ r[c] \in Nat
  BY <1>1
<1> QED  BY <1>2 DEF Earlier

\* MergeRank numbers the assets in this order.
LEMMA MergeRanks ==
    ASSUME NEW L \in [Periods -> SUBSET Codes], ApartIn(L), NEW C \in SUBSET Periods,
           NEW r \in Ranking(Codes)
    PROVE  /\ AllOf(L, C) \in SUBSET Codes
           /\ MergeRank(L, C, r) \in Ranking(AllOf(L, C))
           /\ \A a, b \in AllOf(L, C) :
                 MergeRank(L, C, r)[a] < MergeRank(L, C, r)[b] <=> Earlier(L, C, r, a, b)
PROOF
<1> DEFINE S == AllOf(L, C)
           m == MergeRank(L, C, r)
           B(a) == {b \in S : Earlier(L, C, r, b, a)}
<1>1. S \in SUBSET Codes
  BY DEF AllOf
<1>2. \A a \in S : B(a) \in SUBSET Codes /\ Cardinality(B(a)) \in Nat
  <2> SUFFICES ASSUME NEW a \in S  PROVE B(a) \in SUBSET Codes /\ Cardinality(B(a)) \in Nat
    OBVIOUS
  <2>1. B(a) \in SUBSET Codes  BY <1>1
  <2> QED  BY <2>1, CodesFinite
<1>3. m \in [Codes -> Nat] /\ \A a \in S : m[a] = Cardinality(B(a))
  BY <1>1, <1>2 DEF MergeRank
<1>4. ASSUME NEW a \in S, NEW b \in S, Earlier(L, C, r, a, b)
      PROVE  m[a] < m[b]
  <2>1. a \in B(b) /\ a \notin B(a)
    BY <1>4, EarlierOrder
  <2>2. ASSUME NEW c \in B(a)  PROVE c \in B(b)
    <3>1. c \in S /\ Earlier(L, C, r, c, a)
      OBVIOUS
    <3> QED  BY <3>1, <1>4, EarlierOrder
  <2>3. B(a) \in SUBSET B(b)
    BY <2>2
  <2>4. Cardinality(B(a)) < Cardinality(B(b))
    BY <1>2, <2>1, <2>3, ProperSubset
  <2> QED  BY <1>3, <2>4
<1>5. ASSUME NEW a \in S, NEW b \in S
      PROVE  /\ m[a] < m[b] <=> Earlier(L, C, r, a, b)
             /\ m[a] = m[b] => a = b
  <2>1. m[a] \in Nat /\ m[b] \in Nat
    BY <1>1, <1>3
  <2>2. a # b => Earlier(L, C, r, a, b) \/ Earlier(L, C, r, b, a)
    BY EarlierEither
  <2>3. (Earlier(L, C, r, a, b) => m[a] < m[b]) /\ (Earlier(L, C, r, b, a) => m[b] < m[a])
    BY <1>4
  <2> QED  BY <2>1, <2>2, <2>3
<1>6. m \in Ranking(S)
  BY <1>3, <1>5 DEF Ranking
<1> QED  BY <1>1, <1>5, <1>6

LEMMA MergedRows ==
    ASSUME NEW L \in [Periods -> SUBSET Codes], ApartIn(L), NEW C \in SUBSET Periods,
           NEW r \in Ranking(Codes)
    PROVE  /\ Merged(L, C, r) \in Seq(Codes) /\ Len(Merged(L, C, r)) = Cardinality(AllOf(L, C))
           /\ Cardinality(AllOf(L, C)) \in Nat /\ IsFiniteSet(AllOf(L, C))
           /\ ToSet(Merged(L, C, r)) = AllOf(L, C)
           /\ \A i \in 1..Cardinality(AllOf(L, C)) : Merged(L, C, r)[i] \in AllOf(L, C)
           /\ \A a \in AllOf(L, C) : \E i \in 1..Cardinality(AllOf(L, C)) : a = Merged(L, C, r)[i]
           /\ \A i, j \in 1..Cardinality(AllOf(L, C)) :
                 /\ Merged(L, C, r)[i] = Merged(L, C, r)[j] => i = j
                 /\ i < j => Earlier(L, C, r, Merged(L, C, r)[i], Merged(L, C, r)[j])
PROOF
<1> DEFINE S == AllOf(L, C)
           m == MergeRank(L, C, r)
           w == InOrder(S, m)
           N == Cardinality(S)
<1>1. S \in SUBSET Codes /\ m \in Ranking(S)
      /\ \A a, b \in S : m[a] < m[b] <=> Earlier(L, C, r, a, b)
  BY MergeRanks
<1> HIDE DEF m, S
<1>2. w \in Seq(S) /\ Len(w) = N /\ \A i \in 1..N : w[i] \in S
  BY <1>1, InOrderRows
<1>3. Increasing(w, m) /\ IsInjective(w) /\ ToSet(w) = S
  BY <1>1, InOrderSorted
<1>4. N \in Nat /\ IsFiniteSet(S)
  BY <1>1, CodesFinite
<1> HIDE DEF w, N
<1>5. DOMAIN w = 1..N
  BY <1>2
<1>6. w \in Seq(Codes)
  BY <1>1, <1>2
<1>7. \A a \in S : \E i \in 1..N : a = w[i]
  BY <1>3, <1>5 DEF ToSet
<1>8. ASSUME NEW i \in 1..N, NEW j \in 1..N
      PROVE  /\ w[i] = w[j] => i = j
             /\ i < j => Earlier(L, C, r, w[i], w[j])
  <2>1. w[i] = w[j] => i = j
    BY <1>3, <1>5 DEF IsInjective
  <2>2. i < j => m[w[i]] < m[w[j]]
    BY <1>2, <1>3 DEF Increasing
  <2> QED  BY <2>1, <2>2, <1>1, <1>2
<1>9. Merged(L, C, r) = w
  BY DEF Merged, w, m, S
<1> QED  BY <1>2, <1>3, <1>4, <1>6, <1>7, <1>8, <1>9 DEF N, S

FirstOf(W, n) == {W[i] : i \in 1..n}

\* What no other rest of the list comes before is the next.
LEMMA MergedNext ==
    ASSUME NEW L \in [Periods -> SUBSET Codes], ApartIn(L), NEW C \in SUBSET Periods,
           NEW r \in Ranking(Codes), NEW k \in 0..Cardinality(AllOf(L, C)),
           NEW T, T = FirstOf(Merged(L, C, r), k), NEW a \in AllOf(L, C) \ T,
           \A b \in AllOf(L, C) \ T : b = a \/ Earlier(L, C, r, a, b)
    PROVE  /\ k + 1 \in 1..Cardinality(AllOf(L, C))
           /\ Merged(L, C, r)[k + 1] = a
           /\ T \cup {a} = FirstOf(Merged(L, C, r), k + 1)
PROOF
<1> DEFINE S == AllOf(L, C)
           w == Merged(L, C, r)
           N == Cardinality(S)
<1>1. N \in Nat /\ \A i \in 1..N : w[i] \in S
  BY MergedRows
<1>2. \A i, j \in 1..N : (w[i] = w[j] => i = j) /\ (i < j => Earlier(L, C, r, w[i], w[j]))
  BY MergedRows
<1>3. PICK j \in 1..N : a = w[j]
  <2>1. a \in S  OBVIOUS
  <2>2. \A b \in S : \E i \in 1..N : b = w[i]
    BY MergedRows
  <2> QED  BY <2>1, <2>2
<1>4. \A b, c \in S : Earlier(L, C, r, b, c) => ~ Earlier(L, C, r, c, b)
  BY EarlierOrder
<1> HIDE DEF w, N, S
<1>5. k \in Nat /\ k <= N
  BY <1>1 DEF N, S
<1>6. j > k
  <2> SUFFICES ASSUME j <= k  PROVE FALSE
    BY <1>1, <1>3, <1>5
  <2>1. j \in 1..k  BY <1>1, <1>3, <1>5
  <2> QED  BY <2>1, <1>3 DEF w, FirstOf
<1>7. j = k + 1
  <2> SUFFICES ASSUME j # k + 1  PROVE FALSE
    OBVIOUS
  <2>1. k + 1 \in 1..N /\ k + 1 < j
    BY <1>1, <1>3, <1>5, <1>6
  <2>2. w[k + 1] \in S /\ w[k + 1] # a
    BY <1>1, <1>2, <1>3, <2>1
  <2>3. w[k + 1] \notin T
    <3> SUFFICES ASSUME NEW i \in 1..k, w[k + 1] = w[i]  PROVE FALSE
      BY DEF w, FirstOf
    <3>1. i \in 1..N /\ i # k + 1  BY <1>1, <1>5
    <3> QED  BY <3>1, <2>1, <1>2
  <2>4. Earlier(L, C, r, a, w[k + 1])
    BY <2>2, <2>3 DEF S
  <2>5. Earlier(L, C, r, w[k + 1], a)
    BY <1>2, <1>3, <2>1
  <2>6. a \in S
    BY DEF S
  <2> QED  BY <1>4, <2>2, <2>4, <2>5, <2>6
<1>8. T \cup {a} = {w[i] : i \in 1..k + 1}
  <2>1. T = {w[i] : i \in 1..k}
    BY DEF w, FirstOf
  <2>2. \A i \in 1..k + 1 : i \in 1..k \/ i = k + 1
    BY <1>5
  <2>3. \A i \in 1..k : i \in 1..k + 1
    BY <1>5
  <2>4. k + 1 \in 1..k + 1 /\ w[k + 1] = a
    BY <1>3, <1>5, <1>7
  <2> QED  BY <2>1, <2>2, <2>3, <2>4
<1> QED  BY <1>3, <1>7, <1>8 DEF w, N, S, FirstOf

\* A single period is in the order of the backend.
LEMMA MergedOne ==
    ASSUME NEW L \in [Periods -> SUBSET Codes], ApartIn(L), NEW p \in Periods,
           NEW r \in Ranking(Codes)
    PROVE  /\ AllOf(L, {p}) = L[p]
           /\ Merged(L, {p}, r) = InOrder(L[p], r)
PROOF
<1> DEFINE s == InOrder(L[p], r)
           C == {p}
           m == MergeRank(L, C, r)
<1>1. L[p] \in SUBSET Codes /\ r \in Ranking(L[p])
  BY DEF Ranking
<1>2. AllOf(L, C) = L[p]
  BY DEF AllOf
<1>3. s \in Seq(L[p]) /\ ToSet(s) = L[p] /\ Increasing(s, r)
  BY <1>1, InOrderRows, InOrderSorted
<1>4. m \in [Codes -> Nat]
      /\ \A a, b \in L[p] : m[a] < m[b] <=> Earlier(L, C, r, a, b)
  <2>1. C \in SUBSET Periods  OBVIOUS
  <2>2. /\ MergeRank(L, C, r) \in Ranking(AllOf(L, C))
        /\ \A a, b \in AllOf(L, C) :
              MergeRank(L, C, r)[a] < MergeRank(L, C, r)[b] <=> Earlier(L, C, r, a, b)
    BY <2>1, MergeRanks
  <2> QED  BY <2>2, <1>2 DEF Ranking
<1> HIDE DEF s, m
<1>5. Increasing(s, m)
  <2> SUFFICES ASSUME NEW i \in 1..Len(s), NEW j \in 1..Len(s), i < j
               PROVE  m[s[i]] < m[s[j]]
    BY DEF Increasing
  <2>1. s[i] \in L[p] /\ s[j] \in L[p] /\ r[s[i]] < r[s[j]]
    BY <1>3 DEF Increasing
  <2>2. Earlier(L, C, r, s[i], s[j])
    BY <2>1, EarlierAtHome
  <2> QED  BY <1>4, <2>1, <2>2
<1>6. InOrder(L[p], m) = s
  BY <1>1, <1>3, <1>4, <1>5, InOrderUnique
<1> QED  BY <1>2, <1>6 DEF Merged, m, s

\* Where the backend sorts as the browser does, the merged list is sorted.
LEMMA MergedSorted ==
    ASSUME NEW L \in [Periods -> SUBSET Codes], ApartIn(L), NEW C \in SUBSET Periods
    PROVE  Merged(L, C, [a \in Codes |-> a]) = InOrder(AllOf(L, C), [a \in Codes |-> a])
PROOF
<1> DEFINE r == [a \in Codes |-> a]
           S == AllOf(L, C)
           w == Merged(L, C, r)
<1>1. r \in [Codes -> Nat] /\ r \in Ranking(Codes) /\ \A a \in Codes : r[a] = a
  BY DEF Ranking, Codes
<1> HIDE DEF r
<1>2. w \in Seq(Codes) /\ ToSet(w) = S /\ Len(w) = Cardinality(S) /\ Len(w) \in Nat
      /\ (\A i \in 1..Len(w) : w[i] \in S)
      /\ \A i, j \in 1..Len(w) : i < j => Earlier(L, C, r, w[i], w[j])
  <2>1. w \in Seq(Codes) /\ ToSet(w) = S /\ Len(w) = Cardinality(S) /\ Cardinality(S) \in Nat
    BY <1>1, MergedRows
  <2>2. \A i \in 1..Cardinality(S) : w[i] \in S
    BY <1>1, MergedRows
  <2>3. \A i, j \in 1..Cardinality(S) : i < j => Earlier(L, C, r, w[i], w[j])
    BY <1>1, MergedRows
  <2> HIDE DEF w, S
  <2> QED  BY <2>1, <2>2, <2>3
<1>3. S \in SUBSET Codes
  BY DEF AllOf
<1>4. ASSUME NEW a \in S  PROVE Peak(L, C, r, a) = a
  <2>1. PICK p \in C : a \in L[p]
    BY DEF AllOf
  <2>2. Peak(L, C, r, a) \in L[p] /\ r[Peak(L, C, r, a)] <= r[a] /\ a <= Peak(L, C, r, a)
    BY <1>1, <2>1, PeakHome
  <2>3. Peak(L, C, r, a) \in Codes /\ a \in Codes /\ L[p] \in SUBSET Codes
    BY <1>3, <2>1, <2>2
  <2>4. Peak(L, C, r, a) <= a
    BY <1>1, <2>2, <2>3
  <2> QED  BY <2>2, <2>3, <2>4 DEF Codes
<1> HIDE DEF w, S
<1>5. Increasing(w, r)
  <2> SUFFICES ASSUME NEW i \in 1..Len(w), NEW j \in 1..Len(w), i < j
               PROVE  r[w[i]] < r[w[j]]
    BY DEF Increasing
  <2>1. Earlier(L, C, r, w[i], w[j]) /\ w[i] \in S /\ w[j] \in S
    BY <1>2
  <2>2. w[i] < w[j] \/ r[w[i]] < r[w[j]]
    BY <2>1, <1>4 DEF Earlier
  <2> QED  BY <2>1, <2>2, <1>1, <1>3
<1>6. w \in Seq(S)
  BY <1>2, SeqOfItsSet
<1>7. InOrder(S, r) = w
  BY <1>1, <1>2, <1>3, <1>5, <1>6, InOrderUnique
<1> QED  BY <1>7 DEF w, S, r

-------------------------------------------------------------------------------
(* The parts of the state, undisturbed *)

Atmost(n, m) == IF n < m THEN n ELSE m

\* The n-th part of rows.
Sliced(R, n, size) == SubSeq(R, (n - 1) * size + 1, Atmost(n * size, Len(R)))

\* A stream over the rows R of its period, k of which have been seen.
StreamAt(st, R, seen, k) ==
    LET n == k + Len(st.buffer) IN
    /\ k \in 0..Len(R)
    /\ seen \cap ToSet(R) = {R[i] : i \in 1..k}
    /\ \A i \in 1..Len(st.buffer) : st.buffer[i] = R[k + i]
    /\ n = Atmost((st.page - 1) * ChunkSize, Len(R))
    /\ st.exhausted => n = Len(R)
    /\ st.scanning => st.wanted = ToSet(Sliced(R, st.page, ChunkSize))
    /\ st.counted = "empty" => R = << >>

\* The reader of the n-th page of W.
ReaderAt(rd, W, n) ==
    LET k == rd.skipped + Len(rd.rows) IN
    /\ k <= Len(W)
    /\ rd.seen = {W[i] : i \in 1..k}
    /\ \A i \in 1..Len(rd.rows) : rd.rows[i] = W[rd.skipped + i]
    /\ rd.skipped <= (n - 1) * PageSize
    /\ rd.rows # << >> => rd.skipped = (n - 1) * PageSize
    /\ Len(rd.rows) <= PageSize

\* The rows of n pages of W.
WalkedAt(rows, n, W) ==
    /\ rows \in Seq(Codes)
    /\ Len(rows) = Atmost(n * PageSize, Len(W))
    /\ \A i \in 1..Len(rows) : rows[i] = W[i]

\* The lengths of what comes before a part and of the part.
LEMMA PartLengths ==
    ASSUME NEW b \in Nat, NEW size \in Nat \ {0}, NEW z \in Nat, NEW n \in Nat,
           Atmost(b, z) + n = Atmost(b + size, z)
    PROVE  /\ n < size => Atmost(b + size, z) = z
           /\ n = 0 => Atmost(b, z) = z
           /\ n # 0 => z # 0 /\ Atmost(b, z) = b
           /\ Atmost(b, z) <= z
BY DEF Atmost

LEMMA SlicedRows ==
    ASSUME NEW R \in Seq(Codes), NEW n \in Nat \ {0}, NEW size \in Nat \ {0}
    PROVE  /\ (n - 1) * size \in Nat /\ n * size \in Nat /\ n * size = (n - 1) * size + size
           /\ Sliced(R, n, size) \in Seq(Codes)
           /\ Atmost((n - 1) * size, Len(R)) + Len(Sliced(R, n, size)) = Atmost(n * size, Len(R))
           /\ \A i \in 1..Len(Sliced(R, n, size)) :
                 Sliced(R, n, size)[i] = R[Atmost((n - 1) * size, Len(R)) + i]
PROOF
<1>1. PICK b \in Nat : b = (n - 1) * size
  BY OneTimeMore
<1>2. n * size = b + size
  BY <1>1, OneTimeMore
<1>3. PICK l \in Nat : l = Atmost(b + size, Len(R)) /\ l <= Len(R)
  BY DEF Atmost
<1>4. PICK m \in Nat \ {0} : m = b + 1
  OBVIOUS
<1>5. Sliced(R, n, size) = SubSeq(R, m, l)
  BY <1>1, <1>2, <1>3, <1>4 DEF Sliced
<1>6. /\ SubSeq(R, m, l) \in Seq(Codes)
      /\ Len(SubSeq(R, m, l)) = IF m <= l THEN l - m + 1 ELSE 0
      /\ \A i \in 1..Len(SubSeq(R, m, l)) : SubSeq(R, m, l)[i] = R[m + i - 1]
  BY <1>3, SubSeqRows
<1>7. PICK s \in Seq(Codes) :
          /\ s = Sliced(R, n, size)
          /\ Len(s) = IF m <= l THEN l - m + 1 ELSE 0
          /\ \A i \in 1..Len(s) : s[i] = R[m + i - 1]
  BY <1>5, <1>6
<1>8. Len(s) \in Nat /\ Len(R) \in Nat
  OBVIOUS
<1>9. /\ Atmost(b, Len(R)) + Len(s) = Atmost(b + size, Len(R))
      /\ Len(s) # 0 => Atmost(b, Len(R)) = b
  <2>1. PICK z \in Nat : z = Len(R)
    BY <1>8
  <2>2. PICK d \in Nat : d = Len(s)
    BY <1>8
  <2>3. l = Atmost(b + size, z)
    BY <1>3, <2>1
  <2>4. d = IF m <= l THEN l - m + 1 ELSE 0
    BY <1>7, <2>2
  <2>5. Atmost(b, z) + d = Atmost(b + size, z) /\ (d # 0 => Atmost(b, z) = b)
    BY <1>4, <2>3, <2>4 DEF Atmost
  <2> QED  BY <2>1, <2>2, <2>5
<1>10. ASSUME NEW i \in 1..Len(s)  PROVE s[i] = R[Atmost(b, Len(R)) + i]
  <2>1. Atmost(b, Len(R)) = b
    BY <1>8, <1>9
  <2>2. m + i - 1 = b + i
    BY <1>4, <1>8
  <2>3. s[i] = R[m + i - 1]
    BY <1>7
  <2> QED  BY <2>1, <2>2, <2>3, Zenon
<1> QED  BY <1>1, <1>2, <1>7, <1>9, <1>10

LEMMA StreamFresh ==
    ASSUME NEW R \in Seq(Codes)
    PROVE  StreamAt(NewStream, R, {}, 0)
PROOF
<1>1. (1 - 1) * ChunkSize = 0
  OBVIOUS
<1> QED  BY <1>1 DEF StreamAt, NewStream, Atmost

LEMMA StreamCounted ==
    ASSUME NEW st \in Stream, NEW R \in Seq(Codes), NEW seen, NEW k, StreamAt(st, R, seen, k),
           NEW c \in {"empty", "open"}, c = "empty" => R = << >>
    PROVE  StreamAt([st EXCEPT !.counted = c], R, seen, k)
BY DEF StreamAt, Stream

LEMMA StreamScans ==
    ASSUME NEW st \in Stream, NEW R \in Seq(Codes), NEW seen, NEW k, StreamAt(st, R, seen, k),
           NEW w, w = ToSet(Sliced(R, st.page, ChunkSize))
    PROVE  StreamAt([st EXCEPT !.scanning = TRUE, !.wanted = w], R, seen, k)
BY DEF StreamAt, Stream

\* Its next chunk.
LEMMA StreamRefills ==
    ASSUME NEW st \in Stream, NEW R \in Seq(Codes), NEW seen, NEW k, StreamAt(st, R, seen, k),
           st.buffer = << >>, NEW rows, rows = Sliced(R, st.page, ChunkSize)
    PROVE  /\ rows = << >> =>
                 StreamAt([st EXCEPT !.exhausted = TRUE, !.scanning = FALSE, !.wanted = {}],
                          R, seen, k)
           /\ rows # << >> =>
                 StreamAt([st EXCEPT !.buffer = rows, !.page = st.page + 1, !.scanning = FALSE,
                                     !.wanted = {}, !.exhausted = Len(rows) < ChunkSize],
                          R, seen, k)
PROOF
<1>1. st.page \in Nat \ {0} /\ Len(st.buffer) = 0
  BY DEF Stream
<1>2. PICK b \in Nat : b = (st.page - 1) * ChunkSize
  BY <1>1, OneTimeMore
<1>3. st.page * ChunkSize = b + ChunkSize
  BY <1>1, <1>2, OneTimeMore
<1>4. /\ rows \in Seq(Codes)
      /\ Atmost(b, Len(R)) + Len(rows) = Atmost(b + ChunkSize, Len(R))
      /\ \A i \in 1..Len(rows) : rows[i] = R[Atmost(b, Len(R)) + i]
  <2>1. PICK n \in Nat \ {0} : n = st.page
    BY <1>1
  <2>2. PICK size \in Nat \ {0} : size = ChunkSize
    OBVIOUS
  <2>3. /\ Sliced(R, n, size) \in Seq(Codes)
        /\ Atmost((n - 1) * size, Len(R)) + Len(Sliced(R, n, size))
               = Atmost(n * size, Len(R))
        /\ \A i \in 1..Len(Sliced(R, n, size)) :
              Sliced(R, n, size)[i] = R[Atmost((n - 1) * size, Len(R)) + i]
    BY SlicedRows
  <2>4. rows = Sliced(R, n, size) /\ b = (n - 1) * size /\ b + ChunkSize = n * size
    BY <1>2, <1>3, <2>1, <2>2
  <2> QED  BY <2>3, <2>4
<1>5. k \in 0..Len(R) /\ k = Atmost(b, Len(R)) /\ k \in Nat /\ Len(R) \in Nat
      /\ Len(rows) \in Nat /\ (rows # << >> => Len(rows) # 0)
  BY <1>1, <1>2, <1>4 DEF StreamAt
<1>6. CASE rows = << >>
  <2>1. k = Len(R)
    <3>1. PICK z \in Nat : z = Len(R)
      BY <1>5
    <3>2. Atmost(b, z) + 0 = Atmost(b + ChunkSize, z)
      BY <1>4, <1>6, <3>1
    <3>3. Atmost(b, z) = Atmost(b + ChunkSize, z)
      BY <3>2 DEF Atmost
    <3>4. Atmost(b, z) = z
      BY <3>3 DEF Atmost
    <3> QED  BY <1>5, <3>1, <3>4
  <2> DEFINE new == [st EXCEPT !.exhausted = TRUE, !.scanning = FALSE, !.wanted = {}]
  <2>2. /\ new.buffer = st.buffer /\ new.page = st.page /\ new.counted = st.counted
        /\ ~ new.scanning
    BY DEF Stream
  <2> HIDE DEF new
  <2>3. StreamAt(new, R, seen, k)
    BY <1>1, <1>5, <2>1, <2>2 DEF StreamAt
  <2> QED  BY <1>6, <2>3 DEF new
<1>7. CASE rows # << >>
  <2> DEFINE new == [st EXCEPT !.buffer = rows, !.page = st.page + 1, !.scanning = FALSE,
                               !.wanted = {}, !.exhausted = Len(rows) < ChunkSize]
  <2>1. /\ new.buffer = rows /\ new.page = st.page + 1 /\ new.counted = st.counted
        /\ ~ new.scanning /\ (new.exhausted => Len(rows) < ChunkSize)
    BY DEF Stream
  <2> HIDE DEF new
  <2>2. (new.page - 1) * ChunkSize = b + ChunkSize
    BY <1>1, <1>3, <2>1
  <2>3. k + Len(rows) = Atmost(b + ChunkSize, Len(R))
    BY <1>4, <1>5
  <2>4. Len(rows) < ChunkSize => k + Len(rows) = Len(R)
    BY <1>4, <1>5, <2>3, PartLengths
  <2>5. R # << >>
    <3>1. Len(R) # 0
      BY <1>4, <1>5, <1>7, PartLengths
    <3> QED  BY <3>1
  <2>6. seen \cap ToSet(R) = {R[i] : i \in 1..k} /\ (st.counted = "empty" => R = << >>)
    BY DEF StreamAt
  <2>7. \A i \in 1..Len(rows) : rows[i] = R[k + i]
    BY <1>4, <1>5
  <2>8. StreamAt(new, R, seen, k)
    BY <1>5, <2>1, <2>2, <2>3, <2>4, <2>6, <2>7 DEF StreamAt
  <2> QED  BY <1>7, <2>8 DEF new
<1> QED  BY <1>6, <1>7

\* The head of a stream is the first of its period not seen.
LEMMA StreamHead ==
    ASSUME NEW st \in Stream, NEW R \in Seq(Codes), IsInjective(R), NEW seen, NEW k,
           StreamAt(st, R, seen, k), st.buffer # << >>
    PROVE  /\ k \in Nat /\ k + 1 \in 1..Len(R) /\ Head(st.buffer) = R[k + 1]
           /\ Head(st.buffer) \notin seen
           /\ \A i \in 1..Len(R) : R[i] \notin seen => i >= k + 1
           /\ \A i \in 1..k : R[i] \in seen
PROOF
<1>1. st.buffer \in Seq(Codes) /\ Len(st.buffer) \in Nat /\ Len(st.buffer) # 0
      /\ Head(st.buffer) = st.buffer[1] /\ Len(R) \in Nat /\ DOMAIN R = 1..Len(R)
  BY DEF Stream
<1>2. /\ k \in 0..Len(R)
      /\ seen \cap ToSet(R) = {R[i] : i \in 1..k}
      /\ st.buffer[1] = R[k + 1]
      /\ k + Len(st.buffer) = Atmost((st.page - 1) * ChunkSize, Len(R))
  <2>1. 1 \in 1..Len(st.buffer)  BY <1>1
  <2> QED  BY <2>1 DEF StreamAt
<1>3. k + 1 \in 1..Len(R)
  <2>1. PICK n \in Nat : n = (st.page - 1) * ChunkSize
    <3>1. st.page \in Nat \ {0}  BY DEF Stream
    <3> QED  BY <3>1, OneTimeMore
  <2>2. k + Len(st.buffer) <= Len(R)
    BY <1>1, <1>2, <2>1 DEF Atmost
  <2> QED  BY <1>1, <1>2, <2>2
<1>4. \A i \in 1..Len(R) : R[i] \in ToSet(R)
  BY <1>1 DEF ToSet
<1>5. \A i, j \in 1..Len(R) : R[i] = R[j] => i = j
  BY <1>1 DEF IsInjective
<1>6. R[k + 1] \notin seen
  <2> SUFFICES ASSUME R[k + 1] \in seen  PROVE FALSE
    OBVIOUS
  <2>1. PICK i \in 1..k : R[k + 1] = R[i]
    BY <1>2, <1>3, <1>4
  <2>2. i \in 1..Len(R) /\ i # k + 1
    BY <1>2
  <2> QED  BY <1>3, <1>5, <2>1, <2>2
<1>7. \A i \in 1..k : R[i] \in seen
  BY <1>2
<1>8. \A i \in 1..Len(R) : R[i] \notin seen => i >= k + 1
  BY <1>2, <1>7
<1> QED  BY <1>1, <1>2, <1>3, <1>6, <1>7, <1>8

LEMMA StreamTakes ==
    ASSUME NEW st \in Stream, NEW R \in Seq(Codes), IsInjective(R), NEW seen, NEW k,
           StreamAt(st, R, seen, k), st.buffer # << >>, NEW a, a = Head(st.buffer)
    PROVE  StreamAt([st EXCEPT !.buffer = Tail(st.buffer)], R, seen \cup {a}, k + 1)
PROOF
<1> DEFINE new == [st EXCEPT !.buffer = Tail(st.buffer)]
<1>1. /\ k \in Nat /\ k + 1 \in 1..Len(R) /\ a = R[k + 1]
      /\ \A i \in 1..k : R[i] \in seen
  BY StreamHead
<1>2. st.buffer \in Seq(Codes) /\ Len(st.buffer) \in Nat /\ Len(st.buffer) # 0
      /\ Len(R) \in Nat /\ DOMAIN R = 1..Len(R)
  BY DEF Stream
<1>3. /\ Len(Tail(st.buffer)) = Len(st.buffer) - 1
      /\ \A i \in 1..Len(st.buffer) - 1 : Tail(st.buffer)[i] = st.buffer[i + 1]
  BY <1>2
<1>4. /\ new.buffer = Tail(st.buffer) /\ new.page = st.page /\ new.exhausted = st.exhausted
      /\ new.scanning = st.scanning /\ new.wanted = st.wanted /\ new.counted = st.counted
  BY DEF Stream
<1> HIDE DEF new
<1>5. (seen \cup {a}) \cap ToSet(R) = {R[i] : i \in 1..k + 1}
  <2>1. seen \cap ToSet(R) = {R[i] : i \in 1..k}
    BY DEF StreamAt
  <2>2. a \in ToSet(R)
    BY <1>1, <1>2 DEF ToSet
  <2>3. \A i \in 1..k + 1 : i \in 1..k \/ i = k + 1
    BY <1>1
  <2>4. \A i \in 1..k : i \in 1..k + 1
    BY <1>1
  <2>5. k + 1 \in 1..k + 1
    BY <1>1
  <2> QED  BY <1>1, <2>1, <2>2, <2>3, <2>4, <2>5
<1>6. \A i \in 1..Len(new.buffer) : new.buffer[i] = R[(k + 1) + i]
  <2> SUFFICES ASSUME NEW i \in 1..Len(st.buffer) - 1
               PROVE  Tail(st.buffer)[i] = R[(k + 1) + i]
    BY <1>3, <1>4
  <2>1. i + 1 \in 1..Len(st.buffer) /\ k + (i + 1) = (k + 1) + i
    <3>1. PICK d \in Nat : d = Len(st.buffer)
      BY <1>2
    <3>2. i \in 1..d - 1
      BY <3>1
    <3>3. i + 1 \in 1..d /\ k + (i + 1) = (k + 1) + i
      BY <1>1, <3>2
    <3> QED  BY <3>1, <3>3
  <2>2. st.buffer[i + 1] = R[k + (i + 1)]
    BY <2>1 DEF StreamAt
  <2> QED  BY <1>3, <2>1, <2>2
<1>7. (k + 1) + Len(new.buffer) = k + Len(st.buffer)
  <2>1. PICK d \in Nat : d = Len(st.buffer)
    BY <1>2
  <2>2. Len(new.buffer) = d - 1
    BY <1>3, <1>4, <2>1
  <2>3. (k + 1) + (d - 1) = k + d
    BY <1>1
  <2> QED  BY <2>1, <2>2, <2>3
<1>8. /\ k + Len(st.buffer) = Atmost((st.page - 1) * ChunkSize, Len(R))
      /\ st.exhausted => k + Len(st.buffer) = Len(R)
      /\ st.scanning => st.wanted = ToSet(Sliced(R, st.page, ChunkSize))
      /\ st.counted = "empty" => R = << >>
  BY DEF StreamAt
<1>9. k + 1 \in 0..Len(R)
  BY <1>1
<1>10. StreamAt(new, R, seen \cup {a}, k + 1)
  BY <1>4, <1>5, <1>6, <1>7, <1>8, <1>9 DEF StreamAt
<1> QED  BY <1>10 DEF new

\* What is not of its period does not concern a stream.
LEMMA StreamPasses ==
    ASSUME NEW st \in Stream, NEW R \in Seq(Codes), NEW seen, NEW k, StreamAt(st, R, seen, k),
           NEW a, a \notin ToSet(R)
    PROVE  StreamAt(st, R, seen \cup {a}, k)
PROOF
<1>1. (seen \cup {a}) \cap ToSet(R) = seen \cap ToSet(R)
  OBVIOUS
<1> QED  BY <1>1 DEF StreamAt

\* A stream that has run dry has been seen.
LEMMA StreamDry ==
    ASSUME NEW st \in Stream, NEW R \in Seq(Codes), NEW seen, NEW k, StreamAt(st, R, seen, k),
           st.buffer = << >>, st.exhausted \/ st.counted = "empty"
    PROVE  ToSet(R) \subseteq seen
PROOF
<1>1. DOMAIN R = 1..Len(R) /\ Len(R) \in Nat /\ Len(st.buffer) = 0
  OBVIOUS
<1>2. k = Len(R) /\ seen \cap ToSet(R) = {R[i] : i \in 1..k}
  BY <1>1 DEF StreamAt
<1> QED  BY <1>1, <1>2 DEF ToSet

LEMMA ReaderFresh ==
    ASSUME NEW W \in Seq(Codes), NEW n \in Nat \ {0}, NEW rd \in Reader,
           rd.skipped = 0, rd.seen = {}, rd.rows = << >>
    PROVE  ReaderAt(rd, W, n)
PROOF
<1>1. (n - 1) * PageSize \in Nat
  BY OneTimeMore
<1> QED  BY <1>1 DEF ReaderAt

\* The reader takes the next.
LEMMA ReaderTakes ==
    ASSUME NEW W \in Seq(Codes), NEW n \in Nat \ {0}, NEW rd \in Reader, ReaderAt(rd, W, n),
           Len(rd.rows) < PageSize, NEW a \in Codes,
           rd.skipped + Len(rd.rows) + 1 \in 1..Len(W),
           a = W[rd.skipped + Len(rd.rows) + 1],
           rd.seen \cup {a} = {W[i] : i \in 1..rd.skipped + Len(rd.rows) + 1}
    PROVE  /\ rd.skipped < (n - 1) * PageSize =>
                 ReaderAt([rd EXCEPT !.seen = rd.seen \cup {a}, !.skipped = rd.skipped + 1], W, n)
           /\ ~ (rd.skipped < (n - 1) * PageSize) =>
                 ReaderAt([rd EXCEPT !.seen = rd.seen \cup {a}, !.rows = Append(rd.rows, a)], W, n)
PROOF
<1>1. PICK b \in Nat : b = (n - 1) * PageSize
  BY OneTimeMore
<1>2. rd.skipped \in Nat /\ rd.rows \in Seq(Codes) /\ Len(rd.rows) \in Nat
  BY DEF Reader
<1>3. /\ \A i \in 1..Len(rd.rows) : rd.rows[i] = W[rd.skipped + i]
      /\ rd.skipped <= b
      /\ rd.rows # << >> => rd.skipped = b
  BY <1>1 DEF ReaderAt
<1>4. CASE rd.skipped < b
  <2> DEFINE new == [rd EXCEPT !.seen = rd.seen \cup {a}, !.skipped = rd.skipped + 1]
  <2>1. rd.rows = << >> /\ Len(rd.rows) = 0
    BY <1>2, <1>3, <1>4
  <2>2. new.seen = rd.seen \cup {a} /\ new.skipped = rd.skipped + 1 /\ new.rows = << >>
    BY <2>1 DEF Reader
  <2> HIDE DEF new
  <2>3. rd.skipped + Len(rd.rows) + 1 = new.skipped + Len(new.rows) /\ Len(new.rows) = 0
        /\ new.skipped <= b
    BY <1>2, <1>4, <2>1, <2>2
  <2>4. new.seen = {W[i] : i \in 1..new.skipped + Len(new.rows)}
        /\ new.skipped + Len(new.rows) <= Len(W)
    BY <2>2, <2>3
  <2>5. /\ \A i \in 1..Len(new.rows) : new.rows[i] = W[new.skipped + i]
        /\ Len(new.rows) <= PageSize
    BY <2>3
  <2>6. /\ new.skipped <= (n - 1) * PageSize
        /\ new.rows # << >> => new.skipped = (n - 1) * PageSize
    BY <1>1, <2>2, <2>3
  <2>7. ReaderAt(new, W, n)
    BY <2>4, <2>5, <2>6, Zenon DEF ReaderAt
  <2> QED  BY <1>1, <1>4, <2>7 DEF new
<1>5. CASE ~ (rd.skipped < b)
  <2> DEFINE new == [rd EXCEPT !.seen = rd.seen \cup {a}, !.rows = Append(rd.rows, a)]
  <2>1. rd.skipped = b
    BY <1>2, <1>3, <1>5
  <2>2. new.seen = rd.seen \cup {a} /\ new.skipped = b /\ new.rows = Append(rd.rows, a)
    BY <2>1 DEF Reader
  <2>3. /\ Len(Append(rd.rows, a)) = Len(rd.rows) + 1
        /\ Append(rd.rows, a)[Len(rd.rows) + 1] = a
        /\ \A i \in 1..Len(rd.rows) : rd.rows[i] = Append(rd.rows, a)[i]
    BY <1>2, AppendRows
  <2> HIDE DEF new
  <2>4. new.skipped + Len(new.rows) = rd.skipped + Len(rd.rows) + 1
        /\ Len(new.rows) = Len(rd.rows) + 1 /\ Len(new.rows) <= PageSize
    BY <1>2, <2>1, <2>2, <2>3
  <2>5. \A i \in 1..Len(new.rows) : new.rows[i] = W[new.skipped + i]
    <3> SUFFICES ASSUME NEW i \in 1..Len(rd.rows) + 1
                 PROVE  new.rows[i] = W[b + i]
      BY <2>2, <2>4
    <3>1. CASE i \in 1..Len(rd.rows)
      BY <3>1, <1>3, <2>1, <2>2, <2>3
    <3>2. CASE i = Len(rd.rows) + 1
      <4>1. rd.skipped + Len(rd.rows) + 1 = b + i
        BY <1>2, <2>1, <3>2
      <4>2. new.rows[i] = a
        BY <3>2, <2>2, <2>3
      <4> QED  BY <4>1, <4>2
    <3>3. i \in 1..Len(rd.rows) \/ i = Len(rd.rows) + 1
      BY <1>2
    <3> QED  BY <3>1, <3>2, <3>3
  <2>6. new.seen = {W[i] : i \in 1..new.skipped + Len(new.rows)}
        /\ new.skipped + Len(new.rows) <= Len(W)
    <3>1. PICK k \in 1..Len(W) : k = rd.skipped + Len(rd.rows) + 1
      OBVIOUS
    <3>2. new.seen = {W[i] : i \in 1..k} /\ k <= Len(W)
      BY <2>2, <3>1
    <3>3. new.skipped + Len(new.rows) = k
      BY <2>4, <3>1
    <3> QED  BY <3>2, <3>3
  <2>7. /\ new.skipped <= (n - 1) * PageSize
        /\ new.rows # << >> => new.skipped = (n - 1) * PageSize
    BY <1>1, <2>2
  <2>8. ReaderAt(new, W, n)
    BY <2>4, <2>5, <2>6, <2>7, Zenon DEF ReaderAt
  <2> QED  BY <1>1, <1>5, <2>8 DEF new
<1> QED  BY <1>4, <1>5

LEMMA JoinRows ==
    ASSUME NEW v \in Seq(Codes), NEW w \in Seq(Codes)
    PROVE  /\ v \o w \in Seq(Codes) /\ Len(v \o w) = Len(v) + Len(w)
           /\ \A i \in 1..Len(v) : (v \o w)[i] = v[i]
           /\ \A i \in 1..Len(w) : (v \o w)[Len(v) + i] = w[i]
PROOF
<1>1. v \o w \in Seq(Codes) /\ Len(v \o w) = Len(v) + Len(w)
  OBVIOUS
<1>2. ASSUME NEW i \in 1..Len(v)  PROVE (v \o w)[i] = v[i]
  OBVIOUS
<1>3. ASSUME NEW i \in 1..Len(w)  PROVE (v \o w)[Len(v) + i] = w[i]
  <2>1. Len(v) \in Nat /\ Len(w) \in Nat
    OBVIOUS
  <2>2. PICK j \in Nat : j = Len(v) + i /\ j > Len(v) /\ j <= Len(v) + Len(w)
                          /\ j - Len(v) = i
    <3>1. PICK b \in Nat : b = Len(v)
      BY <2>1
    <3>2. PICK d \in Nat : d = Len(w)
      BY <2>1
    <3>3. i \in 1..d
      BY <3>2
    <3>4. b + i \in Nat /\ b + i > b /\ b + i <= b + d /\ (b + i) - b = i
      BY <3>3
    <3> QED  BY <3>1, <3>2, <3>4
  <2>3. (v \o w)[j] = w[j - Len(v)]
    BY <2>1, <2>2
  <2> QED  BY <2>2, <2>3
<1> QED  BY <1>1, <1>2, <1>3

LEMMA WalkedMore ==
    ASSUME NEW W \in Seq(Codes), NEW n \in Nat, NEW seq, WalkedAt(seq, n, W),
           NEW rows \in Seq(Codes),
           Atmost(n * PageSize, Len(W)) + Len(rows) = Atmost((n + 1) * PageSize, Len(W)),
           \A i \in 1..Len(rows) : rows[i] = W[Atmost(n * PageSize, Len(W)) + i]
    PROVE  WalkedAt(seq \o rows, n + 1, W)
PROOF
<1> DEFINE more == seq \o rows
<1>1. seq \in Seq(Codes) /\ Len(seq) = Atmost(n * PageSize, Len(W))
      /\ Len(seq) \in Nat /\ Len(rows) \in Nat /\ \A i \in 1..Len(seq) : seq[i] = W[i]
  BY DEF WalkedAt
<1>2. /\ more \in Seq(Codes) /\ Len(more) = Len(seq) + Len(rows)
      /\ \A i \in 1..Len(seq) : more[i] = seq[i]
      /\ \A i \in 1..Len(rows) : more[Len(seq) + i] = rows[i]
  BY <1>1, JoinRows
<1> HIDE DEF more
<1>3. Len(more) = Atmost((n + 1) * PageSize, Len(W))
  BY <1>1, <1>2
<1>4. ASSUME NEW i \in 1..Len(more)  PROVE more[i] = W[i]
  <2>1. CASE i \in 1..Len(seq)
    BY <2>1, <1>1, <1>2
  <2>2. CASE i \notin 1..Len(seq)
    <3>1. PICK j \in 1..Len(rows) : i = Len(seq) + j
      <4>1. i - Len(seq) \in 1..Len(rows) /\ i = Len(seq) + (i - Len(seq))
        BY <1>1, <1>2, <2>2
      <4> QED  BY <4>1
    <3>2. rows[j] = W[Len(seq) + j] /\ more[Len(seq) + j] = rows[j]
      BY <1>1, <1>2
    <3> QED  BY <3>1, <3>2
  <2> QED  BY <2>1, <2>2
<1> QED  BY <1>2, <1>3, <1>4 DEF WalkedAt, more

\* A page that is a part of the list.
LEMMA WalkedChunk ==
    ASSUME NEW W \in Seq(Codes), NEW n \in Nat, NEW seq, WalkedAt(seq, n, W),
           NEW rows, rows = Sliced(W, n + 1, PageSize)
    PROVE  WalkedAt(seq \o rows, n + 1, W)
PROOF
<1>1. PICK m \in Nat \ {0} : m = n + 1 /\ m - 1 = n
  <2>1. n + 1 \in Nat \ {0} /\ (n + 1) - 1 = n  OBVIOUS
  <2> QED  BY <2>1
<1>2. /\ Sliced(W, m, PageSize) \in Seq(Codes)
      /\ Atmost((m - 1) * PageSize, Len(W)) + Len(Sliced(W, m, PageSize))
             = Atmost(m * PageSize, Len(W))
      /\ \A i \in 1..Len(Sliced(W, m, PageSize)) :
             Sliced(W, m, PageSize)[i] = W[Atmost((m - 1) * PageSize, Len(W)) + i]
  <2>1. PICK size \in Nat \ {0} : size = PageSize
    OBVIOUS
  <2>2. /\ Sliced(W, m, size) \in Seq(Codes)
        /\ Atmost((m - 1) * size, Len(W)) + Len(Sliced(W, m, size)) = Atmost(m * size, Len(W))
        /\ \A i \in 1..Len(Sliced(W, m, size)) :
               Sliced(W, m, size)[i] = W[Atmost((m - 1) * size, Len(W)) + i]
    BY SlicedRows
  <2> QED  BY <2>1, <2>2
<1>3. rows = Sliced(W, m, PageSize)
  BY <1>1
<1>4. /\ rows \in Seq(Codes)
      /\ Atmost(n * PageSize, Len(W)) + Len(rows) = Atmost((n + 1) * PageSize, Len(W))
      /\ \A i \in 1..Len(rows) : rows[i] = W[Atmost(n * PageSize, Len(W)) + i]
  BY <1>1, <1>2, <1>3
<1> QED  BY <1>4, WalkedMore

\* A page that is full, or ends the list.
LEMMA WalkedReader ==
    ASSUME NEW W \in Seq(Codes), NEW n \in Nat, NEW seq, WalkedAt(seq, n, W),
           NEW rd \in Reader, ReaderAt(rd, W, n + 1),
           Len(rd.rows) = PageSize \/ rd.skipped + Len(rd.rows) = Len(W)
    PROVE  WalkedAt(seq \o rd.rows, n + 1, W)
PROOF
<1>1. PICK m \in Nat \ {0} : m = n + 1 /\ m - 1 = n
  <2>1. n + 1 \in Nat \ {0} /\ (n + 1) - 1 = n  OBVIOUS
  <2> QED  BY <2>1
<1>2. PICK b \in Nat : b = n * PageSize /\ (n + 1) * PageSize = b + PageSize
  <2>1. (m - 1) * PageSize \in Nat /\ m * PageSize = (m - 1) * PageSize + PageSize
    BY OneTimeMore
  <2> QED  BY <1>1, <2>1
<1>3. rd.skipped \in Nat /\ rd.rows \in Seq(Codes) /\ Len(rd.rows) \in Nat /\ Len(W) \in Nat
      /\ (rd.rows # << >> <=> Len(rd.rows) # 0)
  BY DEF Reader
<1>4. /\ rd.skipped + Len(rd.rows) <= Len(W)
      /\ \A i \in 1..Len(rd.rows) : rd.rows[i] = W[rd.skipped + i]
      /\ rd.skipped <= b
      /\ rd.rows # << >> => rd.skipped = b
      /\ Len(rd.rows) <= PageSize
  <2>1. (n + 1) - 1 = n  OBVIOUS
  <2>2. (m - 1) * PageSize = b
    BY <1>1, <1>2
  <2>3. ReaderAt(rd, W, m)
    BY <1>1
  <2> QED  BY <2>2, <2>3 DEF ReaderAt
<1>5. PICK N \in Nat : N = Len(W)
  BY <1>3
<1>6. PICK d \in Nat : d = Len(rd.rows)
  BY <1>3
<1>7. Atmost(b, N) + d = Atmost(b + PageSize, N) /\ (d # 0 => Atmost(b, N) = rd.skipped)
  <2>1. /\ rd.skipped + d <= N /\ rd.skipped <= b /\ (d # 0 => rd.skipped = b) /\ d <= PageSize
        /\ d = PageSize \/ rd.skipped + d = N
    BY <1>3, <1>4, <1>5, <1>6
  <2> QED  BY <1>3, <2>1 DEF Atmost
<1>8. \A i \in 1..d : rd.rows[i] = W[Atmost(b, N) + i]
  <2> SUFFICES ASSUME NEW i \in 1..d  PROVE rd.rows[i] = W[Atmost(b, N) + i]
    OBVIOUS
  <2>1. Atmost(b, N) = rd.skipped
    BY <1>7
  <2> QED  BY <1>4, <1>6, <2>1
<1>9. /\ Atmost(n * PageSize, Len(W)) + Len(rd.rows) = Atmost((n + 1) * PageSize, Len(W))
      /\ \A i \in 1..Len(rd.rows) : rd.rows[i] = W[Atmost(n * PageSize, Len(W)) + i]
  BY <1>2, <1>5, <1>6, <1>7, <1>8
<1> QED  BY <1>3, <1>9, WalkedMore

\* What was walked is the beginning of the list, and all of it in the end.
LEMMA WalkedIs ==
    ASSUME NEW W \in Seq(Codes), IsInjective(W), NEW n \in Nat, NEW seq, WalkedAt(seq, n, W)
    PROVE  /\ IsInjective(seq)
           /\ seq = SubSeq(W, 1, Len(seq))
           /\ Len(W) <= n * PageSize => seq = W
PROOF
<1>1. n * PageSize \in Nat
  OBVIOUS
<1>2. seq \in Seq(Codes) /\ Len(seq) \in Nat /\ Len(W) \in Nat
      /\ Len(seq) = Atmost(n * PageSize, Len(W)) /\ \A i \in 1..Len(seq) : seq[i] = W[i]
  BY DEF WalkedAt
<1>3. Len(seq) <= Len(W) /\ (Len(W) <= n * PageSize => Len(seq) = Len(W))
  BY <1>1, <1>2 DEF Atmost
<1>4. IsInjective(seq)
  <2> SUFFICES ASSUME NEW i \in 1..Len(seq), NEW j \in 1..Len(seq), seq[i] = seq[j]
               PROVE  i = j
    BY <1>2 DEF IsInjective
  <2>1. i \in DOMAIN W /\ j \in DOMAIN W /\ W[i] = W[j]
    BY <1>2, <1>3
  <2> QED  BY <2>1 DEF IsInjective
<1>5. seq = SubSeq(W, 1, Len(seq))
  <2> DEFINE r == SubSeq(W, 1, Len(seq))
  <2>1. r \in Seq(Codes) /\ Len(r) = Len(seq) /\ \A i \in 1..Len(seq) : r[i] = seq[i]
    BY <1>2, <1>3
  <2> HIDE DEF r
  <2>2. r = seq
    BY <1>2, <2>1, SameSeq
  <2> QED  BY <2>2 DEF r
<1>6. ASSUME Len(W) <= n * PageSize  PROVE seq = W
  <2>1. Len(seq) = Len(W)
    BY <1>3, <1>6
  <2> QED  BY <1>2, <2>1, SameSeq
<1> QED  BY <1>4, <1>5, <1>6

\* The pages a total promises hold it.
LEMMA PagesEnough ==
    ASSUME NEW N \in Nat, NEW n \in Nat, n = PagesOf(N)
    PROVE  N <= n * PageSize
PROOF
<1>1. CASE N = 0
  <2>1. n * PageSize \in Nat  OBVIOUS
  <2> QED  BY <1>1, <2>1
<1>2. CASE N # 0
  <2>1. n = (N + PageSize - 1) \div PageSize
    BY <1>2 DEF PagesOf
  <2>2. PICK s \in Nat \ {0} : s = PageSize
    OBVIOUS
  <2>3. PICK x \in Nat : x = N + s - 1
    <3>1. N + s - 1 \in Nat  OBVIOUS
    <3> QED  BY <3>1
  <2>4. x \div s \in Int /\ x % s \in 0..s - 1 /\ x = s * (x \div s) + (x % s)
    OBVIOUS
  <2>5. n = x \div s
    BY <2>1, <2>2, <2>3
  <2>6. PICK y \in Int : y = s * n
    OBVIOUS
  <2>7. x <= y + (s - 1)
    BY <2>4, <2>5, <2>6
  <2>8. N <= y
    BY <2>3, <2>7
  <2>9. y = n * PageSize
    BY <2>2, <2>6
  <2> QED  BY <2>8, <2>9
<1> QED  BY <1>1, <1>2

-------------------------------------------------------------------------------
(* The pages of a walk that nobody disturbs *)

\* Where the others have nothing before it, the first rest of a period is the next
\* of the merged list.
LEMMA HeadIsNext ==
    ASSUME NEW L \in [Periods -> SUBSET Codes], ApartIn(L), NEW C \in SUBSET Periods,
           NEW r \in Ranking(Codes), NEW j \in 0..Cardinality(AllOf(L, C)),
           NEW T, T = FirstOf(Merged(L, C, r), j),
           NEW p \in C, NEW a \in L[p], a \notin T,
           \A b \in L[p] : b \in T \/ r[a] <= r[b],
           \A q \in C : q = p \/
               \A b \in L[q] : b \in T \/ \E h \in L[q] : a <= h /\ r[h] <= r[b]
    PROVE  /\ a \in AllOf(L, C)
           /\ \A b \in AllOf(L, C) \ T : b = a \/ Earlier(L, C, r, a, b)
PROOF
<1>1. a \in AllOf(L, C) /\ AllOf(L, C) \in SUBSET Codes
  BY DEF AllOf
<1> SUFFICES ASSUME NEW b \in AllOf(L, C), b \notin T, b # a
             PROVE  Earlier(L, C, r, a, b)
  BY <1>1
<1>2. PICK q \in C : b \in L[q]
  BY DEF AllOf
<1>3. r \in [Codes -> Nat] /\ r[a] \in Nat /\ r[b] \in Nat /\ r[a] # r[b]
  BY <1>1 DEF Ranking
<1>4. CASE q = p
  <2>1. r[a] < r[b]
    BY <1>2, <1>3, <1>4
  <2> QED  BY <1>2, <1>4, <2>1, EarlierAtHome
<1>5. CASE q # p
  <2>1. PICK m \in Nat : m = Peak(L, C, r, a)
    BY PeakIs
  <2>2. PICK n \in Nat : n = Peak(L, C, r, b)
    BY <1>2, PeakIs
  <2>3. m \in L[p] /\ r[m] <= r[a] /\ a <= m /\ n \in L[q]
    BY <1>2, <2>1, <2>2, PeakHome
  <2>4. m # n
    BY <1>5, <2>3 DEF ApartIn
  <2>5. a <= n
    <3>1. PICK h \in L[q] : a <= h /\ r[h] <= r[b]
      BY <1>2, <1>5
    <3>2. Upto(L, C, r, b) = {c \in L[q] : r[c] <= r[b]}
      BY <1>2, PeakHome
    <3>3. h \in Upto(L, C, r, b)
      BY <3>1, <3>2
    <3>4. h <= n
      BY <1>2, <2>2, <3>3, PeakIs
    <3>5. h \in Nat /\ a \in Nat
      BY <1>1 DEF Codes
    <3> QED  BY <3>1, <3>4, <3>5
  <2>6. m < n
    <3>1. CASE m = a
      BY <2>4, <2>5, <3>1
    <3>2. CASE m # a
      <4>1. m \in Codes /\ r[m] \in Nat /\ r[m] # r[a]
        BY <1>1, <1>3, <2>3, <3>2 DEF Ranking
      <4>2. m \in T
        BY <1>3, <2>3, <4>1
      <4>3. PICK i \in 1..j : m = Merged(L, C, r)[i]
        BY <4>2 DEF FirstOf
      <4>4. PICK l \in 1..Cardinality(AllOf(L, C)) : b = Merged(L, C, r)[l]
        BY MergedRows
      <4>5. Cardinality(AllOf(L, C)) \in Nat
        BY MergedRows
      <4>6. ~ (l <= j)
        BY <4>4, <4>5 DEF FirstOf
      <4>7. i \in 1..Cardinality(AllOf(L, C)) /\ i < l
        BY <4>5, <4>6
      <4>8. Earlier(L, C, r, m, b)
        BY <4>3, <4>4, <4>7, MergedRows
      <4>9. Peak(L, C, r, m) <= m
        <5>1. Upto(L, C, r, m) = {c \in L[p] : r[c] <= r[m]}
          BY <2>3, PeakHome
        <5>2. Upto(L, C, r, a) = {c \in L[p] : r[c] <= r[a]}
          BY PeakHome
        <5>3. Peak(L, C, r, m) \in L[p] /\ r[Peak(L, C, r, m)] <= r[m]
          BY <2>3, PeakHome
        <5>4. r[Peak(L, C, r, m)] \in Nat
          BY <1>1, <1>3, <5>3
        <5>5. r[Peak(L, C, r, m)] <= r[a]
          BY <1>3, <2>3, <4>1, <5>3, <5>4
        <5>6. Peak(L, C, r, m) \in Upto(L, C, r, a)
          BY <5>2, <5>3, <5>5
        <5> QED  BY <2>1, <5>6, PeakIs
      <4>10. Peak(L, C, r, m) \in Nat /\ m <= Peak(L, C, r, m)
        BY <2>3, PeakIs, PeakHome
      <4>11. Peak(L, C, r, m) = m
        BY <4>9, <4>10
      <4> QED  BY <2>2, <2>4, <4>8, <4>11 DEF Earlier
    <3> QED  BY <3>1, <3>2
  <2> QED  BY <2>1, <2>2, <2>6 DEF Earlier
<1> QED  BY <1>4, <1>5

Rows(p) == InOrder(Base[p], Ranks)
Whole == Merged(Base, chosen, Ranks)
CountedPeriods == {c \in chosen : stream[c].counted # "no"}

MergeHolds ==
    /\ ReaderAt(reader, Whole, PageNo)
    /\ \A p \in chosen : \E k \in Nat : StreamAt(stream[p], Rows(p), reader.seen, k)
    /\ reader.total = Cardinality(AllOf(Base, CountedPeriods))
    /\ reader.at = "merge" => CountedPeriods = chosen

SingleHolds ==
    /\ Single
    /\ \A p \in chosen : stream[p].scanning =>
          /\ stream[p].wanted = ToSet(Chunk(p, PageNo, PageSize))
          /\ reader.total = Cardinality(Shown)

\* What was walked is the beginning of the merged list, and a page under way is
\* further on in it.
Undisturbed ==
    /\ WalkedAt(Walked, Len(walked), Whole)
    /\ reader.at = "idle" /\ walked # << >> => reader.total = Cardinality(Shown)
    /\ reader.at \in {"totals", "merge"} => MergeHolds
    /\ reader.at = "single" => SingleHolds

StillThere == \A p \in Periods : Base[p] \subseteq listed[p]

SlicesInv ==
    /\ ListInv
    /\ settled => ApartIn(Base) /\ StillThere /\ Undisturbed

LEMMA ListFacts ==
    ASSUME ListTypeOK, ApartIn(Base)
    PROVE  /\ Base \in [Periods -> SUBSET Codes] /\ chosen \in SUBSET Periods
           /\ Ranks \in Ranking(Codes)
           /\ Shown = AllOf(Base, chosen) /\ Cardinality(Shown) \in Nat
           /\ Whole \in Seq(Codes) /\ Len(Whole) = Cardinality(Shown)
           /\ ToSet(Whole) = Shown /\ IsInjective(Whole)
           /\ PageNo \in Nat \ {0} /\ PageNo - 1 = Len(walked) /\ Len(walked) \in Nat
PROOF
<1>1. Base \in [Periods -> SUBSET Codes] /\ chosen \in SUBSET Periods
  BY BaseTyped DEF ListTypeOK
<1>2. Ranks \in Ranking(Codes)
  BY RanksTell
<1>3. Shown = AllOf(Base, chosen)
  BY DEF Shown, AllOf
<1>4. PICK L \in [Periods -> SUBSET Codes] : L = Base
  BY <1>1
<1>5. PICK C \in SUBSET Periods : C = chosen
  BY <1>1
<1>6. PICK r \in Ranking(Codes) : r = Ranks
  BY <1>2
<1>7. PICK W : W = Merged(L, C, r)
  OBVIOUS
<1>8. PICK N : N = Cardinality(AllOf(L, C))
  OBVIOUS
<1>9. /\ W \in Seq(Codes) /\ Len(W) = N /\ N \in Nat /\ ToSet(W) = AllOf(L, C)
      /\ \A i, j \in 1..N : W[i] = W[j] => i = j
  BY <1>4, <1>7, <1>8, MergedRows
<1>10. IsInjective(W)
  BY <1>9 DEF IsInjective
<1>11. Whole = W /\ Cardinality(Shown) = N
  BY <1>3, <1>4, <1>5, <1>6, <1>7, <1>8 DEF Whole
<1>12. Len(walked) \in Nat
  BY DEF ListTypeOK
<1>13. PageNo \in Nat \ {0} /\ PageNo - 1 = Len(walked)
  <2>1. PICK n \in Nat : n = Len(walked)
    BY <1>12
  <2>2. n + 1 \in Nat \ {0} /\ (n + 1) - 1 = n
    OBVIOUS
  <2> QED  BY <2>1, <2>2 DEF PageNo
<1> QED  BY <1>1, <1>2, <1>3, <1>4, <1>5, <1>9, <1>10, <1>11, <1>12, <1>13

LEMMA RowsFacts ==
    ASSUME ListTypeOK, NEW p \in Periods
    PROVE  /\ Rows(p) \in Seq(Codes) /\ Len(Rows(p)) = Cardinality(Base[p])
           /\ Cardinality(Base[p]) \in Nat
           /\ ToSet(Rows(p)) = Base[p] /\ IsInjective(Rows(p))
           /\ Increasing(Rows(p), Ranks)
PROOF
<1>1. PICK S \in SUBSET Codes : S = Base[p]
  BY BaseTyped
<1>2. PICK r \in Ranking(S) : r = Ranks
  BY RanksTell
<1>3. /\ InOrder(S, r) \in Seq(S) /\ Len(InOrder(S, r)) = Cardinality(S)
      /\ Cardinality(S) \in Nat
      /\ ToSet(InOrder(S, r)) = S /\ IsInjective(InOrder(S, r))
      /\ Increasing(InOrder(S, r), r)
  BY InOrderRows, InOrderSorted, CodesFinite
<1>4. InOrder(S, r) \in Seq(Codes)
  BY <1>3
<1> QED  BY <1>1, <1>2, <1>3, <1>4 DEF Rows

\* A chunk is a part of the rows, and so are the rows of its ids.
LEMMA ChunkIs ==
    ASSUME ListTypeOK, NEW p \in Periods, NEW n \in Nat \ {0}, NEW size \in Nat \ {0}
    PROVE  /\ Chunk(p, n, size) = Sliced(Rows(p), n, size)
           /\ Base[p] \subseteq listed[p] /\ stream[p].wanted = ToSet(Chunk(p, n, size))
                  => RowsById(p) = Chunk(p, n, size)
PROOF
<1>1. IsPart(Chunk(p, n, size), Base[p], Ranks)
  BY ChunkRows
<1>2. Chunk(p, n, size) = Sliced(Rows(p), n, size)
  BY DEF Chunk, Sliced, Rows, Atmost
<1>3. ASSUME Base[p] \subseteq listed[p], stream[p].wanted = ToSet(Chunk(p, n, size))
      PROVE  RowsById(p) = Chunk(p, n, size)
  <2>1. stream[p].wanted \cap listed[p] = ToSet(Chunk(p, n, size))
    BY <1>1, <1>3 DEF IsPart
  <2> QED  BY <1>1, <2>1 DEF IsPart, RowsById
<1> QED  BY <1>2, <1>3

\* What depends on the assets, the periods and the filter alone.
LEMMA SameList ==
    ASSUME UNCHANGED << Base, chosen, scanned >>
    PROVE  /\ Ranks' = Ranks /\ Whole' = Whole /\ Shown' = Shown /\ (Single <=> Single')
           /\ \A p \in Periods : Rows(p)' = Rows(p)
           /\ \A p, n, size : Chunk(p, n, size)' = Chunk(p, n, size)
PROOF
<1>1. Ranks' = Ranks
  BY DEF Ranks
<1> QED  BY <1>1 DEF Whole, Shown, Single, Rows, Chunk

\* What is read of a page.
LEMMA ReaderSame ==
    ASSUME NEW W, NEW n, NEW rd \in Reader, NEW new \in Reader, ReaderAt(rd, W, n),
           new.skipped = rd.skipped, new.rows = rd.rows, new.seen = rd.seen
    PROVE  ReaderAt(new, W, n)
BY DEF ReaderAt

\* One stream of a merge moves on.
LEMMA StreamStep ==
    ASSUME ListTypeOK, ApartIn(Base), MergeHolds, NEW p \in chosen, NEW st \in Stream,
           stream' = [stream EXCEPT ![p] = st], st.counted = stream[p].counted,
           UNCHANGED << Base, chosen, scanned, reader, walked >>,
           \A k \in Nat : StreamAt(stream[p], Rows(p), reader.seen, k)
                              => StreamAt(st, Rows(p), reader.seen, k)
    PROVE  MergeHolds'
PROOF
<1>1. Whole' = Whole /\ PageNo' = PageNo /\ \A q \in Periods : Rows(q)' = Rows(q)
  BY SameList DEF PageNo
<1>2. p \in Periods /\ chosen \in SUBSET Periods /\ stream \in [Periods -> Stream]
  BY DEF ListTypeOK
<1>3. stream'[p] = st /\ \A q \in chosen : q # p => stream'[q] = stream[q]
  BY <1>2
<1>4. CountedPeriods' = CountedPeriods
  BY <1>3 DEF CountedPeriods
<1>5. ASSUME NEW q \in chosen
      PROVE  \E k \in Nat : StreamAt(stream'[q], Rows(q), reader.seen, k)
  <2>1. PICK k \in Nat : StreamAt(stream[q], Rows(q), reader.seen, k)
    BY DEF MergeHolds
  <2>2. CASE q = p
    BY <1>3, <2>1, <2>2
  <2>3. CASE q # p
    BY <1>3, <2>1, <2>3
  <2> QED  BY <2>2, <2>3
<1>6. \A q \in chosen : \E k \in Nat : StreamAt(stream'[q], Rows(q)', reader.seen, k)
  BY <1>1, <1>2, <1>5
<1>7. ReaderAt(reader', Whole', PageNo')
  BY <1>1 DEF MergeHolds
<1>8. /\ reader'.total = Cardinality(AllOf(Base', CountedPeriods'))
      /\ reader'.at = "merge" => CountedPeriods' = chosen'
  BY <1>4 DEF MergeHolds
<1> QED  BY <1>6, <1>7, <1>8 DEF MergeHolds

LEMMA AskPageSlices ==
    ASSUME ListInv, ApartIn(Base), Undisturbed, AskPage
    PROVE  Undisturbed'
PROOF
<1>1. ListTypeOK /\ UNCHANGED << Base, chosen, scanned, walked >> /\ reader.at = "idle"
  BY DEF ListInv, AskPage, Base
<1>2. Whole' = Whole /\ PageNo' = PageNo /\ Walked' = Walked /\ (Single <=> Single')
      /\ \A q \in Periods : Rows(q)' = Rows(q)
  BY <1>1, SameList DEF PageNo, Walked
<1>3. WalkedAt(Walked', Len(walked'), Whole')
  BY <1>1, <1>2 DEF Undisturbed
<1>4. PICK at \in {"totals", "single"} :
          /\ reader' = [NoReader EXCEPT !.at = at]
          /\ at = "single" => Single
  BY DEF AskPage
<1>5. /\ reader' \in Reader /\ reader'.at = at /\ reader'.total = 0 /\ reader'.skipped = 0
      /\ reader'.seen = {} /\ reader'.rows = << >>
  <2>1. NoReader \in Reader /\ NoReader.total = 0 /\ NoReader.skipped = 0
        /\ NoReader.seen = {} /\ NoReader.rows = << >>
    BY FreshWalk DEF NoReader
  <2> QED  BY <1>4, <2>1 DEF Reader
<1>6. stream' = [p \in Periods |-> NewStream] /\ chosen \in SUBSET Periods
  BY <1>1 DEF AskPage, ListTypeOK
<1>7. \A p \in chosen : stream'[p].counted = "no" /\ ~ stream'[p].scanning
  BY <1>6 DEF NewStream
<1>8. CASE at = "totals"
  <2>1. Whole \in Seq(Codes) /\ PageNo \in Nat \ {0}
    BY <1>1, ListFacts
  <2>2. ReaderAt(reader', Whole', PageNo')
    BY <1>2, <1>5, <2>1, ReaderFresh
  <2>3. ASSUME NEW p \in chosen
        PROVE  \E k \in Nat : StreamAt(stream'[p], Rows(p)', reader'.seen, k)
    <3>1. p \in Periods /\ stream'[p] = NewStream
      BY <1>6
    <3>2. Rows(p) \in Seq(Codes)
      BY <1>1, <3>1, RowsFacts
    <3>3. StreamAt(NewStream, Rows(p), {}, 0)
      BY <3>2, StreamFresh
    <3> QED  BY <1>2, <1>5, <3>1, <3>3
  <2>4. CountedPeriods' = {}
    BY <1>1, <1>7 DEF CountedPeriods
  <2>5. Cardinality(AllOf(Base', CountedPeriods')) = 0
    <3>1. AllOf(Base', CountedPeriods') = {}
      BY <2>4 DEF AllOf
    <3> QED  BY <3>1, FS_EmptySet
  <2>6. MergeHolds'
    BY <1>1, <1>5, <1>8, <2>2, <2>3, <2>5 DEF MergeHolds
  <2> QED  BY <1>3, <1>5, <1>8, <2>6 DEF Undisturbed
<1>9. CASE at = "single"
  <2>1. Single'
    BY <1>2, <1>4, <1>9
  <2>2. \A p \in chosen' : ~ stream'[p].scanning
    BY <1>1, <1>7
  <2>3. SingleHolds'
    BY <2>1, <2>2 DEF SingleHolds
  <2> QED  BY <1>3, <1>5, <1>9, <2>3 DEF Undisturbed
<1> QED  BY <1>8, <1>9

LEMMA CountSlices ==
    ASSUME ListInv, ApartIn(Base), Undisturbed, NEW p \in chosen, CountPeriod(p)
    PROVE  Undisturbed'
PROOF
<1>1. /\ ListTypeOK /\ UNCHANGED << Base, chosen, scanned, walked >> /\ reader.at = "totals"
      /\ stream[p].counted = "no"
  BY BaseStays, ChosenPeriod DEF ListInv, CountPeriod
<1>2. Whole' = Whole /\ PageNo' = PageNo /\ Walked' = Walked
      /\ \A q \in Periods : Rows(q)' = Rows(q)
  BY <1>1, SameList DEF PageNo, Walked
<1>3. WalkedAt(Walked', Len(walked'), Whole') /\ MergeHolds
  BY <1>1, <1>2 DEF Undisturbed
<1>4. /\ p \in Periods /\ chosen \in SUBSET Periods /\ stream \in [Periods -> Stream]
      /\ Base \in [Periods -> SUBSET Codes] /\ reader \in Reader
  BY <1>1, BaseTyped DEF ListTypeOK
<1>5. PICK c \in {"empty", "open"} :
          /\ stream' = [stream EXCEPT ![p].counted = c]
          /\ c = "empty" => Base[p] = {}
  BY DEF CountPeriod
<1>6. /\ stream'[p] = [stream[p] EXCEPT !.counted = c]
      /\ \A q \in chosen : q # p => stream'[q] = stream[q]
      /\ stream'[p].counted = c
  <2> DEFINE st == [stream[p] EXCEPT !.counted = c]
  <2>1. stream' = [stream EXCEPT ![p] = st]
    BY <1>5
  <2>2. st.counted = c
    BY <1>4 DEF Stream
  <2> HIDE DEF st
  <2>3. stream'[p] = st /\ \A q \in chosen : q # p => stream'[q] = stream[q]
    BY <1>4, <2>1
  <2> QED  BY <2>2, <2>3 DEF st
<1>7. PICK at \in {"totals", "merge"} :
          /\ reader' = [reader EXCEPT !.total = reader.total + Cardinality(Base[p]), !.at = at]
          /\ at = "merge" => \A q \in chosen \ {p} : stream[q].counted # "no"
  <2> DEFINE at == IF \A q \in chosen \ {p} : stream[q].counted # "no" THEN "merge"
                   ELSE reader.at
  <2>1. /\ at \in {"totals", "merge"}
        /\ reader' = [reader EXCEPT !.total = reader.total + Cardinality(Base[p]), !.at = at]
        /\ at = "merge" => \A q \in chosen \ {p} : stream[q].counted # "no"
    BY <1>1 DEF CountPeriod
  <2> QED  BY <2>1
<1>8. Cardinality(Base[p]) \in Nat /\ Rows(p) \in Seq(Codes)
      /\ ToSet(Rows(p)) = Base[p] /\ Len(Rows(p)) = Cardinality(Base[p])
  BY <1>1, <1>4, RowsFacts
<1>9. /\ reader' \in Reader /\ reader'.at = at /\ reader'.skipped = reader.skipped
      /\ reader'.rows = reader.rows /\ reader'.seen = reader.seen
      /\ reader'.total = reader.total + Cardinality(Base[p])
  <2>1. reader.total + Cardinality(Base[p]) \in Nat
    BY <1>4, <1>8 DEF Reader
  <2> QED  BY <1>4, <1>7, <2>1 DEF Reader
<1>10. ReaderAt(reader', Whole', PageNo')
  BY <1>2, <1>3, <1>4, <1>9, ReaderSame DEF MergeHolds
<1>11. ASSUME NEW q \in chosen
       PROVE  \E k \in Nat : StreamAt(stream'[q], Rows(q)', reader'.seen, k)
  <2>1. PICK k \in Nat : StreamAt(stream[q], Rows(q), reader.seen, k)
    BY <1>3 DEF MergeHolds
  <2>2. CASE q = p
    <3>1. c = "empty" => Rows(p) = << >>
      <4>0. Base[p] = {} => Cardinality(Base[p]) = 0
        BY FS_EmptySet
      <4>1. c = "empty" => Len(Rows(p)) = 0
        BY <1>5, <1>8, <4>0
      <4> QED  BY <4>1, <1>8
    <3>2. StreamAt([stream[p] EXCEPT !.counted = c], Rows(p), reader.seen, k)
      BY <1>4, <1>8, <2>1, <2>2, <3>1, StreamCounted
    <3> QED  BY <1>2, <1>4, <1>6, <1>9, <2>2, <3>2
  <2>3. CASE q # p
    BY <1>2, <1>4, <1>6, <1>9, <2>1, <2>3
  <2> QED  BY <2>2, <2>3
<1>12. CountedPeriods' = CountedPeriods \cup {p} /\ p \notin CountedPeriods
  <2>1. chosen' = chosen /\ stream[p].counted = "no" /\ stream'[p].counted # "no"
    BY <1>1, <1>6
  <2>2. \A q \in chosen : q # p => stream'[q].counted = stream[q].counted
    BY <1>6
  <2> QED  BY <2>1, <2>2 DEF CountedPeriods
<1>13. reader'.total = Cardinality(AllOf(Base', CountedPeriods'))
  <2> DEFINE S == AllOf(Base, CountedPeriods)
  <2>1. S \in SUBSET Codes /\ Base[p] \in SUBSET Codes
    BY <1>4 DEF AllOf, CountedPeriods
  <2>2. S \cap Base[p] = {}
    <3>1. \A q \in CountedPeriods : q \in Periods /\ q # p
      BY <1>4, <1>12 DEF CountedPeriods
    <3> QED  BY <1>4, <3>1 DEF AllOf, ApartIn
  <2>3. AllOf(Base', CountedPeriods') = S \cup Base[p]
    BY <1>1, <1>12 DEF AllOf
  <2>4. reader.total = Cardinality(S)
    BY <1>3 DEF MergeHolds
  <2> HIDE DEF S
  <2>5. Cardinality(S \cup Base[p]) = Cardinality(S) + Cardinality(Base[p])
    <3>1. IsFiniteSet(S) /\ IsFiniteSet(Base[p])
      BY <2>1, CodesFinite
    <3>2. Cardinality(S \cap Base[p]) = 0
      BY <2>2, FS_EmptySet
    <3>3. Cardinality(S) \in Nat /\ Cardinality(Base[p]) \in Nat
      BY <2>1, CodesFinite
    <3> QED  BY <3>1, <3>2, <3>3, FS_Union
  <2> QED  BY <1>9, <2>3, <2>4, <2>5
<1>14. reader'.at = "merge" => CountedPeriods' = chosen'
  BY <1>1, <1>7, <1>9, <1>12 DEF CountedPeriods
<1>15. MergeHolds'
  BY <1>1, <1>10, <1>11, <1>13, <1>14 DEF MergeHolds
<1> QED  BY <1>3, <1>9, <1>15 DEF Undisturbed

\* A merge whose reader stays where it is.
LEMMA MergeStays ==
    ASSUME Undisturbed, MergeHolds', reader.at = "merge",
           UNCHANGED << Base, chosen, scanned, reader, walked >>
    PROVE  Undisturbed'
PROOF
<1>1. Whole' = Whole /\ Walked' = Walked
  BY SameList DEF Walked
<1> QED  BY <1>1 DEF Undisturbed

LEMMA RefilledSlices ==
    ASSUME ListInv, ApartIn(Base), Undisturbed, NEW p \in chosen, NeedsHead(p),
           Refilled(p, Chunk(p, stream[p].page, ChunkSize)),
           UNCHANGED << Base, chosen, scanned, reader, walked >>
    PROVE  Undisturbed'
PROOF
<1>1. /\ ListTypeOK /\ p \in Periods /\ stream[p] \in Stream /\ MergeHolds
      /\ reader.at = "merge" /\ stream[p].buffer = << >> /\ stream[p].page \in Nat \ {0}
  BY ChosenPeriod DEF ListInv, NeedsHead, Undisturbed, Stream
<1> DEFINE old == stream[p]
           rows == Chunk(p, old.page, ChunkSize)
           nil == [old EXCEPT !.exhausted = TRUE, !.scanning = FALSE, !.wanted = {}]
           more == [old EXCEPT !.buffer = rows, !.page = old.page + 1, !.scanning = FALSE,
                               !.wanted = {}, !.exhausted = Len(rows) < ChunkSize]
           st == IF rows = << >> THEN nil ELSE more
<1>2. rows = Sliced(Rows(p), old.page, ChunkSize) /\ rows \in Seq(Codes)
  BY <1>1, ChunkIs, ChunkRows DEF IsPart
<1>3. st \in Stream /\ st.counted = stream[p].counted
  <2>1. nil \in Stream /\ nil.counted = old.counted
    BY <1>1 DEF Stream
  <2>2. more \in Stream /\ more.counted = old.counted
    <3>1. old.page + 1 \in Nat \ {0} /\ (Len(rows) < ChunkSize) \in BOOLEAN
      BY <1>1
    <3> HIDE DEF rows
    <3> QED  BY <1>1, <1>2, <3>1 DEF Stream
  <2> HIDE DEF nil, more
  <2> QED  BY <2>1, <2>2
<1>4. stream' = [stream EXCEPT ![p] = st]
  BY DEF Refilled
<1>5. Rows(p) \in Seq(Codes)
  BY <1>1, RowsFacts
<1>6. ASSUME NEW k \in Nat, StreamAt(stream[p], Rows(p), reader.seen, k)
      PROVE  StreamAt(st, Rows(p), reader.seen, k)
  <2>1. /\ rows = << >> => StreamAt(nil, Rows(p), reader.seen, k)
        /\ rows # << >> => StreamAt(more, Rows(p), reader.seen, k)
    <3> HIDE DEF rows
    <3> QED  BY <1>1, <1>2, <1>5, <1>6, StreamRefills
  <2> HIDE DEF nil, more, rows
  <2> QED  BY <2>1
<1> HIDE DEF st
<1>7. MergeHolds'
  BY <1>1, <1>3, <1>4, <1>6, StreamStep
<1> QED  BY <1>1, <1>7, MergeStays

LEMMA RefillScanSlices ==
    ASSUME ListInv, ApartIn(Base), Undisturbed, NEW p \in chosen, RefillScan(p)
    PROVE  Undisturbed'
PROOF
<1>1. /\ ListTypeOK /\ p \in Periods /\ stream[p] \in Stream /\ MergeHolds
      /\ reader.at = "merge" /\ stream[p].page \in Nat \ {0}
      /\ UNCHANGED << Base, chosen, scanned, reader, walked >>
  BY ChosenPeriod, BaseStays DEF ListInv, NeedsHead, Undisturbed, Stream, RefillScan, ScanIds
<1>2. PICK w : w = ToSet(Chunk(p, stream[p].page, ChunkSize))
  OBVIOUS
<1>3. w \in SUBSET Codes /\ w = ToSet(Sliced(Rows(p), stream[p].page, ChunkSize))
  <2>1. w \in SUBSET Base[p] /\ Base[p] \in SUBSET Codes
    BY <1>1, <1>2, ChunkRows, BaseTyped DEF IsPart
  <2> QED  BY <1>1, <1>2, <2>1, ChunkIs
<1> DEFINE st == [stream[p] EXCEPT !.scanning = TRUE, !.wanted = w]
<1>4. st \in Stream /\ st.counted = stream[p].counted
  BY <1>1, <1>3 DEF Stream
<1>5. stream' = [stream EXCEPT ![p] = st]
  BY <1>1, <1>2 DEF RefillScan, ScanIds, ListTypeOK
<1>6. Rows(p) \in Seq(Codes)
  BY <1>1, RowsFacts
<1>7. ASSUME NEW k \in Nat, StreamAt(stream[p], Rows(p), reader.seen, k)
      PROVE  StreamAt(st, Rows(p), reader.seen, k)
  BY <1>1, <1>3, <1>6, <1>7, StreamScans
<1> HIDE DEF st
<1>8. MergeHolds'
  BY <1>1, <1>4, <1>5, <1>7, StreamStep
<1> QED  BY <1>1, <1>8, MergeStays

LEMMA RefillFetchSlices ==
    ASSUME ListInv, ApartIn(Base), StillThere, Undisturbed, NEW p \in chosen, RefillFetch(p)
    PROVE  Undisturbed'
PROOF
<1>1. /\ ListTypeOK /\ p \in Periods /\ stream[p] \in Stream /\ MergeHolds
      /\ reader.at = "merge" /\ stream[p].page \in Nat \ {0} /\ stream[p].scanning
      /\ UNCHANGED << Base, chosen, scanned, reader, walked >> /\ NeedsHead(p)
  BY ChosenPeriod, BaseStays DEF ListInv, NeedsHead, Undisturbed, Stream, RefillFetch
<1>2. PICK k \in Nat : StreamAt(stream[p], Rows(p), reader.seen, k)
  BY <1>1 DEF MergeHolds
<1>3. stream[p].wanted = ToSet(Sliced(Rows(p), stream[p].page, ChunkSize))
  BY <1>1, <1>2 DEF StreamAt
<1>4. RowsById(p) = Chunk(p, stream[p].page, ChunkSize)
  BY <1>1, <1>3, ChunkIs DEF StillThere
<1>5. Refilled(p, Chunk(p, stream[p].page, ChunkSize))
  BY <1>4 DEF RefillFetch
<1> QED  BY <1>1, <1>5, RefilledSlices

\* The head of a stream is the first of its period that has not been seen.
LEMMA HeadFirst ==
    ASSUME NEW st \in Stream, NEW R \in Seq(Codes), IsInjective(R), NEW r \in [Codes -> Nat],
           Increasing(R, r), NEW seen, NEW k, StreamAt(st, R, seen, k), st.buffer # << >>
    PROVE  /\ Head(st.buffer) \in ToSet(R) /\ Head(st.buffer) \notin seen
           /\ \A b \in ToSet(R) : b \in seen \/ r[Head(st.buffer)] <= r[b]
PROOF
<1>1. /\ k \in Nat /\ k + 1 \in 1..Len(R) /\ Head(st.buffer) = R[k + 1]
      /\ Head(st.buffer) \notin seen
      /\ \A i \in 1..Len(R) : R[i] \notin seen => i >= k + 1
  BY StreamHead
<1>2. DOMAIN R = 1..Len(R) /\ Len(R) \in Nat /\ \A i \in 1..Len(R) : R[i] \in Codes
  OBVIOUS
<1>3. Head(st.buffer) \in ToSet(R)
  BY <1>1, <1>2 DEF ToSet
<1>4. ASSUME NEW b \in ToSet(R), b \notin seen
      PROVE  r[Head(st.buffer)] <= r[b]
  <2>1. PICK i \in 1..Len(R) : b = R[i]
    BY <1>2 DEF ToSet
  <2>2. i >= k + 1
    BY <1>1, <1>4, <2>1
  <2>3. r[R[i]] \in Nat /\ r[R[k + 1]] \in Nat
    BY <1>1, <1>2
  <2>4. CASE i = k + 1
    BY <1>1, <2>1, <2>3, <2>4
  <2>5. CASE i > k + 1
    <3>1. r[R[k + 1]] < r[R[i]]
      BY <1>1, <2>5 DEF Increasing
    <3> QED  BY <1>1, <2>1, <2>3, <3>1
  <2> QED  BY <1>1, <1>2, <2>2, <2>4, <2>5
<1> QED  BY <1>1, <1>3, <1>4

\* The lowest head is the next of the merged list.
LEMMA LeaderIsNext ==
    ASSUME ListTypeOK, ApartIn(Base), MergeHolds, reader.at = "merge",
           Len(reader.rows) < PageSize, Ready, NEW p \in Heads, Leads(p), NEW a \in Codes,
           a = Head(stream[p].buffer), NEW j \in Nat, j = reader.skipped + Len(reader.rows)
    PROVE  /\ a \notin reader.seen /\ a \in Base[p]
           /\ j + 1 \in 1..Len(Whole) /\ a = Whole[j + 1]
           /\ reader.seen \cup {a} = FirstOf(Whole, j + 1)
PROOF
<1>1. /\ chosen \in SUBSET Periods /\ stream \in [Periods -> Stream]
      /\ p \in chosen /\ p \in Periods /\ stream[p].buffer # << >>
  BY DEF ListTypeOK, Heads
<1>2. /\ Base \in [Periods -> SUBSET Codes] /\ Ranks \in Ranking(Codes)
      /\ Shown = AllOf(Base, chosen) /\ Len(Whole) = Cardinality(Shown)
      /\ Cardinality(Shown) \in Nat
  BY ListFacts
<1>3. j <= Len(Whole) /\ reader.seen = FirstOf(Whole, j)
  BY DEF MergeHolds, ReaderAt, FirstOf
<1>4. Ranks \in [Codes -> Nat]
  BY <1>2 DEF Ranking
<1>5. ASSUME NEW q \in chosen
      PROVE  /\ stream[q].buffer # << >> =>
                   /\ Head(stream[q].buffer) \in Base[q]
                   /\ Head(stream[q].buffer) \notin reader.seen
                   /\ \A b \in Base[q] :
                         b \in reader.seen \/ Ranks[Head(stream[q].buffer)] <= Ranks[b]
             /\ stream[q].buffer = << >> => Base[q] \subseteq reader.seen
  <2>1. /\ q \in Periods /\ stream[q] \in Stream /\ Rows(q) \in Seq(Codes)
        /\ ToSet(Rows(q)) = Base[q] /\ IsInjective(Rows(q)) /\ Increasing(Rows(q), Ranks)
    BY <1>1, RowsFacts
  <2>2. PICK k \in Nat : StreamAt(stream[q], Rows(q), reader.seen, k)
    BY DEF MergeHolds
  <2>3. CASE stream[q].buffer # << >>
    <3>1. PICK r \in [Codes -> Nat] : r = Ranks
      BY <1>4
    <3>2. PICK R \in Seq(Codes) : R = Rows(q)
      BY <2>1
    <3>3. PICK st \in Stream : st = stream[q]
      BY <2>1
    <3>4. PICK seen : seen = reader.seen
      OBVIOUS
    <3>5. /\ Head(st.buffer) \in ToSet(R) /\ Head(st.buffer) \notin seen
          /\ \A b \in ToSet(R) : b \in seen \/ r[Head(st.buffer)] <= r[b]
      BY <2>1, <2>2, <2>3, <3>1, <3>2, <3>3, <3>4, HeadFirst
    <3> QED  BY <2>1, <2>3, <3>1, <3>2, <3>3, <3>4, <3>5
  <2>4. CASE stream[q].buffer = << >>
    <3>1. stream[q].counted # "no"
      BY DEF MergeHolds, CountedPeriods
    <3>2. stream[q].exhausted \/ stream[q].counted = "empty"
      <4>1. ~ NeedsHead(q)
        BY DEF Ready
      <4>2. stream[q].counted = "empty" \/ stream[q].counted = "open"
        BY <2>1, <3>1 DEF Stream
      <4> QED  BY <2>4, <4>1, <4>2 DEF NeedsHead
    <3>3. ToSet(Rows(q)) \subseteq reader.seen
      BY <2>1, <2>2, <2>4, <3>2, StreamDry
    <3> QED  BY <2>1, <2>4, <3>3
  <2> QED  BY <2>3, <2>4
<1>6. a \in Base[p] /\ a \notin reader.seen
      /\ \A b \in Base[p] : b \in reader.seen \/ Ranks[a] <= Ranks[b]
  BY <1>1, <1>5
<1>7. ASSUME NEW q \in chosen, q # p, NEW b \in Base[q], b \notin reader.seen
      PROVE  \E h \in Base[q] : a <= h /\ Ranks[h] <= Ranks[b]
  <2>1. stream[q].buffer # << >>
    BY <1>5, <1>7
  <2>2. a <= Head(stream[q].buffer)
    BY <2>1 DEF Leads, Heads
  <2> QED  BY <1>5, <1>7, <2>1, <2>2
<1>8. PICK L \in [Periods -> SUBSET Codes] : L = Base
  BY <1>2
<1>9. PICK C \in SUBSET Periods : C = chosen
  BY <1>1
<1>10. PICK r \in Ranking(Codes) : r = Ranks
  BY <1>2
<1>11. PICK T : T = reader.seen
  OBVIOUS
<1>12. Whole = Merged(L, C, r) /\ Cardinality(AllOf(L, C)) = Len(Whole)
       /\ ApartIn(L) /\ T = FirstOf(Merged(L, C, r), j)
  BY <1>2, <1>3, <1>8, <1>9, <1>10, <1>11 DEF Whole
<1>13. j \in 0..Cardinality(AllOf(L, C))
  <2>1. PICK N \in Nat : N = Cardinality(AllOf(L, C))
    BY <1>2, <1>12
  <2>2. j <= N
    BY <1>3, <1>12, <2>1
  <2> QED  BY <2>1, <2>2
<1>14. /\ p \in C /\ a \in L[p] /\ a \notin T
       /\ \A b \in L[p] : b \in T \/ r[a] <= r[b]
  BY <1>1, <1>6, <1>8, <1>9, <1>10, <1>11
<1>15. \A q \in C : q = p \/
           \A b \in L[q] : b \in T \/ \E h \in L[q] : a <= h /\ r[h] <= r[b]
  BY <1>7, <1>8, <1>9, <1>10, <1>11
<1>16. /\ a \in AllOf(L, C)
       /\ \A b \in AllOf(L, C) \ T : b = a \/ Earlier(L, C, r, a, b)
  <2>1. PICK m \in 0..Cardinality(AllOf(L, C)) : m = j
    BY <1>13
  <2>2. T = FirstOf(Merged(L, C, r), m)
    BY <1>12, <2>1
  <2>3. ApartIn(L)
    BY <1>12
  <2> QED  BY <1>14, <1>15, <2>2, <2>3, HeadIsNext
<1>17. /\ j + 1 \in 1..Cardinality(AllOf(L, C))
       /\ Merged(L, C, r)[j + 1] = a
       /\ T \cup {a} = FirstOf(Merged(L, C, r), j + 1)
  <2>1. PICK m \in 0..Cardinality(AllOf(L, C)) : m = j
    BY <1>13
  <2>2. T = FirstOf(Merged(L, C, r), m)
    BY <1>12, <2>1
  <2>3. ApartIn(L) /\ a \in AllOf(L, C) \ T
    BY <1>12, <1>14, <1>16
  <2>4. /\ m + 1 \in 1..Cardinality(AllOf(L, C))
        /\ Merged(L, C, r)[m + 1] = a
        /\ T \cup {a} = FirstOf(Merged(L, C, r), m + 1)
    BY <1>16, <2>2, <2>3, MergedNext
  <2> QED  BY <2>1, <2>4
<1> QED  BY <1>6, <1>11, <1>12, <1>17

LEMMA TakeHeadSlices ==
    ASSUME ListInv, ApartIn(Base), Undisturbed, TakeHead
    PROVE  Undisturbed'
PROOF
<1>1. /\ ListTypeOK /\ UNCHANGED << Base, chosen, scanned, walked >> /\ reader.at = "merge"
      /\ Len(reader.rows) < PageSize /\ Ready /\ MergeHolds
  BY DEF ListInv, TakeHead, Undisturbed, Base
<1>2. Whole' = Whole /\ PageNo' = PageNo /\ Walked' = Walked
      /\ \A q \in Periods : Rows(q)' = Rows(q)
  BY <1>1, SameList DEF PageNo, Walked
<1>3. WalkedAt(Walked', Len(walked'), Whole')
  BY <1>1, <1>2 DEF Undisturbed
<1>4. PICK p \in Heads :
          LET a == Head(stream[p].buffer) IN
          /\ Leads(p)
          /\ stream' = [stream EXCEPT ![p].buffer = Tail(@)]
          /\ reader' =
                IF a \in reader.seen THEN reader
                ELSE IF reader.skipped < (PageNo - 1) * PageSize
                THEN [reader EXCEPT !.seen = @ \cup {a}, !.skipped = @ + 1]
                ELSE [reader EXCEPT !.seen = @ \cup {a}, !.rows = Append(@, a)]
  BY DEF TakeHead
<1>5. p \in chosen /\ p \in Periods /\ stream[p] \in Stream /\ stream[p].buffer # << >>
      /\ stream[p].buffer \in Seq(Codes) /\ stream \in [Periods -> Stream]
      /\ reader \in Reader /\ chosen \in SUBSET Periods
  BY <1>1, <1>4, ChosenPeriod DEF ListTypeOK, Heads, Stream
<1>6. PICK a \in Codes : a = Head(stream[p].buffer)
  BY <1>5
<1>7. PICK j \in Nat : j = reader.skipped + Len(reader.rows)
  <2>1. reader.skipped \in Nat /\ Len(reader.rows) \in Nat
    BY <1>5 DEF Reader
  <2> QED  BY <2>1
<1>8. /\ a \notin reader.seen /\ a \in Base[p]
      /\ j + 1 \in 1..Len(Whole) /\ a = Whole[j + 1]
      /\ reader.seen \cup {a} = FirstOf(Whole, j + 1)
  <2>1. Leads(p)
    BY <1>4
  <2> QED  BY <1>1, <1>6, <1>7, <2>1, LeaderIsNext
<1>9. Whole \in Seq(Codes) /\ PageNo \in Nat \ {0}
  BY <1>1, ListFacts
<1>10. /\ ReaderAt(reader', Whole, PageNo)
       /\ reader'.seen = reader.seen \cup {a} /\ reader'.at = reader.at
       /\ reader'.total = reader.total
  <2>1. PICK W \in Seq(Codes) : W = Whole
    BY <1>9
  <2>2. PICK n \in Nat \ {0} : n = PageNo
    BY <1>9
  <2>3. PICK rd \in Reader : rd = reader
    BY <1>5
  <2>4. ReaderAt(rd, W, n) /\ Len(rd.rows) < PageSize
    BY <1>1, <2>1, <2>2, <2>3 DEF MergeHolds
  <2>5. /\ rd.skipped + Len(rd.rows) + 1 \in 1..Len(W)
        /\ a = W[rd.skipped + Len(rd.rows) + 1]
        /\ rd.seen \cup {a} = {W[i] : i \in 1..rd.skipped + Len(rd.rows) + 1}
    BY <1>7, <1>8, <2>1, <2>3 DEF FirstOf
  <2>6. /\ rd.skipped < (n - 1) * PageSize =>
              ReaderAt([rd EXCEPT !.seen = rd.seen \cup {a}, !.skipped = rd.skipped + 1], W, n)
        /\ ~ (rd.skipped < (n - 1) * PageSize) =>
              ReaderAt([rd EXCEPT !.seen = rd.seen \cup {a}, !.rows = Append(rd.rows, a)], W, n)
    BY <2>4, <2>5, ReaderTakes
  <2>7. reader' = IF rd.skipped < (n - 1) * PageSize
                  THEN [rd EXCEPT !.seen = rd.seen \cup {a}, !.skipped = rd.skipped + 1]
                  ELSE [rd EXCEPT !.seen = rd.seen \cup {a}, !.rows = Append(rd.rows, a)]
    BY <1>4, <1>6, <1>8, <2>2, <2>3
  <2>8. ReaderAt(reader', W, n)
    <3>1. CASE rd.skipped < (n - 1) * PageSize
      <4>1. reader' = [rd EXCEPT !.seen = rd.seen \cup {a}, !.skipped = rd.skipped + 1]
        BY <2>7, <3>1
      <4> QED  BY <2>6, <3>1, <4>1
    <3>2. CASE ~ (rd.skipped < (n - 1) * PageSize)
      <4>1. reader' = [rd EXCEPT !.seen = rd.seen \cup {a}, !.rows = Append(rd.rows, a)]
        BY <2>7, <3>2
      <4> QED  BY <2>6, <3>2, <4>1
    <3> QED  BY <3>1, <3>2
  <2>9. reader'.seen = rd.seen \cup {a} /\ reader'.at = rd.at /\ reader'.total = rd.total
    BY <2>7 DEF Reader
  <2> QED  BY <2>1, <2>2, <2>3, <2>8, <2>9
<1> DEFINE st == [stream[p] EXCEPT !.buffer = Tail(stream[p].buffer)]
<1>11. stream' = [stream EXCEPT ![p] = st] /\ st.counted = stream[p].counted
  BY <1>4, <1>5 DEF Stream
<1>12. PICK k \in Nat : StreamAt(stream[p], Rows(p), reader.seen, k)
  BY <1>1, <1>5 DEF MergeHolds
<1>13. /\ Rows(p) \in Seq(Codes) /\ IsInjective(Rows(p))
  BY <1>1, <1>5, RowsFacts
<1>14. StreamAt(st, Rows(p), reader.seen \cup {a}, k + 1) /\ k + 1 \in Nat
  <2>1. PICK R \in Seq(Codes) : R = Rows(p)
    BY <1>13
  <2>2. PICK s \in Stream : s = stream[p]
    BY <1>5
  <2>3. PICK seen : seen = reader.seen
    OBVIOUS
  <2>4. StreamAt(s, R, seen, k) /\ IsInjective(R) /\ s.buffer # << >> /\ a = Head(s.buffer)
    BY <1>5, <1>6, <1>12, <1>13, <2>1, <2>2, <2>3
  <2>5. StreamAt([s EXCEPT !.buffer = Tail(s.buffer)], R, seen \cup {a}, k + 1)
    BY <2>4, StreamTakes
  <2> QED  BY <2>1, <2>2, <2>3, <2>5
<1> HIDE DEF st
<1>15. stream'[p] = st /\ \A q \in chosen : q # p => stream'[q] = stream[q]
  BY <1>5, <1>11
<1>16. ASSUME NEW q \in chosen
       PROVE  \E l \in Nat : StreamAt(stream'[q], Rows(q)', reader'.seen, l)
  <2>1. CASE q = p
    <3>1. StreamAt(stream'[q], Rows(q)', reader'.seen, k + 1)
      BY <1>2, <1>5, <1>10, <1>14, <1>15, <2>1
    <3> QED  BY <1>14, <3>1
  <2>2. CASE q # p
    <3>1. PICK l \in Nat : StreamAt(stream[q], Rows(q), reader.seen, l)
      BY <1>1 DEF MergeHolds
    <3>2. /\ q \in Periods /\ stream[q] \in Stream /\ Rows(q) \in Seq(Codes)
          /\ ToSet(Rows(q)) = Base[q]
      BY <1>1, <1>5, RowsFacts
    <3>3. a \notin ToSet(Rows(q))
      BY <1>5, <1>8, <2>2, <3>2 DEF ApartIn
    <3>4. StreamAt(stream[q], Rows(q), reader.seen \cup {a}, l)
      BY <3>1, <3>2, <3>3, StreamPasses
    <3> QED  BY <1>2, <1>10, <1>15, <2>2, <3>2, <3>4
  <2> QED  BY <2>1, <2>2
<1>17. CountedPeriods' = CountedPeriods
  BY <1>1, <1>11, <1>15 DEF CountedPeriods
<1>18. ReaderAt(reader', Whole', PageNo')
  BY <1>2, <1>10
<1>19. /\ reader'.total = Cardinality(AllOf(Base', CountedPeriods'))
       /\ reader'.at = "merge" => CountedPeriods' = chosen'
  BY <1>1, <1>10, <1>17 DEF MergeHolds
<1>20. MergeHolds'
  BY <1>1, <1>16, <1>18, <1>19 DEF MergeHolds
<1> QED  BY <1>1, <1>3, <1>10, <1>20 DEF Undisturbed

LEMMA JoinedSet ==
    ASSUME NEW v \in Seq(Codes), NEW w \in Seq(Codes)
    PROVE  ToSet(v) \subseteq ToSet(v \o w) /\ ToSet(w) \subseteq ToSet(v \o w)
PROOF
<1>1. PICK u \in Seq(Codes) : u = v \o w
  BY JoinRows
<1>2. PICK m \in Nat : m = Len(v)
  OBVIOUS
<1>3. PICK n \in Nat : n = Len(w)
  OBVIOUS
<1>4. /\ Len(u) = m + n
      /\ \A i \in 1..m : u[i] = v[i]
      /\ \A i \in 1..n : u[m + i] = w[i]
  BY <1>1, <1>2, <1>3, JoinRows
<1>5. ToSet(v) = {v[i] : i \in 1..m} /\ ToSet(w) = {w[i] : i \in 1..n}
      /\ ToSet(u) = {u[i] : i \in 1..m + n}
  <2>1. ToSet(u) = {u[i] : i \in 1..Len(u)}
    BY SeqOfItsSet
  <2>2. ToSet(v) = {v[i] : i \in 1..Len(v)}
    BY SeqOfItsSet
  <2>3. ToSet(w) = {w[i] : i \in 1..Len(w)}
    BY SeqOfItsSet
  <2>4. Len(u) = m + n
    BY <1>4
  <2> QED  BY <1>2, <1>3, <2>1, <2>2, <2>3, <2>4, Zenon
<1>6. ASSUME NEW i \in 1..m  PROVE v[i] \in ToSet(u)
  <2>1. i \in 1..m + n
    OBVIOUS
  <2> QED  BY <1>4, <1>5, <2>1
<1>7. ASSUME NEW i \in 1..n  PROVE w[i] \in ToSet(u)
  <2>1. m + i \in 1..m + n
    OBVIOUS
  <2> QED  BY <1>4, <1>5, <2>1
<1>8. ToSet(v) \subseteq ToSet(u)
  BY <1>5, <1>6
<1>9. ToSet(w) \subseteq ToSet(u)
  BY <1>5, <1>7
<1> QED  BY <1>1, <1>8, <1>9, Zenon

\* A page is shown after those walked.
LEMMA ShownMore ==
    ASSUME ListTypeOK, NEW rows \in Seq(Codes), NEW total, ShowPage(rows, total),
           Walked \in Seq(Codes)
    PROVE  /\ Walked' = Walked \o rows /\ Walked' \in Seq(Codes)
           /\ Len(walked') = Len(walked) + 1
           /\ LastIsShort' <=> Len(rows) < PageSize
           /\ reader'.at = "idle" /\ reader'.total = total
PROOF
<1>1. walked \in Seq(Seq(Codes)) /\ walked' = Append(walked, rows)
  BY DEF ListTypeOK, ShowPage
<1>2. /\ Len(walked') = Len(walked) + 1 /\ walked' # << >>
      /\ walked'[Len(walked) + 1] = rows
  <2>1. PICK T : T = Seq(Codes)
    OBVIOUS
  <2>2. walked \in Seq(T) /\ rows \in T
    BY <1>1, <2>1
  <2>3. PICK w \in Seq(T) : w = walked
    BY <2>2
  <2>4. /\ Append(w, rows) # << >> /\ Len(Append(w, rows)) = Len(w) + 1
        /\ Append(w, rows)[Len(w) + 1] = rows
    BY <2>2, AppendRows
  <2> QED  BY <1>1, <2>3, <2>4
<1>3. Walked' = Walked \o rows
  <2>1. FlattenSeq(Append(walked, rows)) =
            IF walked = << >> THEN rows ELSE FlattenSeq(walked) \o rows
    BY <1>1, FlattenMore
  <2>2. Walked' = FlattenSeq(Append(walked, rows))
    BY <1>1 DEF Walked
  <2>3. CASE walked = << >>
    <3>1. Walked = << >>
      BY <2>3 DEF Walked, FlattenSeq
    <3>2. << >> \o rows = rows
      OBVIOUS
    <3> QED  BY <2>1, <2>2, <2>3, <3>1, <3>2
  <2>4. CASE walked # << >>
    BY <2>1, <2>2, <2>4 DEF Walked
  <2> QED  BY <2>3, <2>4
<1>4. LastIsShort' <=> Len(rows) < PageSize
  <2>1. walked'[Len(walked')] = rows
    BY <1>2
  <2> QED  BY <1>2, <2>1 DEF LastIsShort
<1>5. reader'.at = "idle" /\ reader'.total = total
  BY DEF ShowPage, NoReader
<1>6. Walked \o rows \in Seq(Codes)
  <2>1. PICK v \in Seq(Codes) : v = Walked
    OBVIOUS
  <2> QED  BY <2>1, JoinRows
<1> QED  BY <1>2, <1>3, <1>4, <1>5, <1>6

\* The next part of the list is shown.
LEMMA ShownSlices ==
    ASSUME ListTypeOK, UNCHANGED << Base, chosen, scanned >>, NEW rows \in Seq(Codes),
           NEW total, total = Cardinality(Shown), ShowPage(rows, total),
           WalkedAt(Walked \o rows, Len(walked) + 1, Whole), Walked \in Seq(Codes)
    PROVE  Undisturbed'
PROOF
<1>1. Whole' = Whole /\ Shown' = Shown
  BY SameList
<1>2. Walked' = Walked \o rows /\ Len(walked') = Len(walked) + 1
      /\ reader'.at = "idle" /\ reader'.total = total
  BY ShownMore
<1>3. WalkedAt(Walked', Len(walked'), Whole')
  BY <1>1, <1>2
<1>4. reader'.total = Cardinality(Shown')
  BY <1>1, <1>2
<1> QED  BY <1>2, <1>3, <1>4 DEF Undisturbed

LEMMA EndMergeSlices ==
    ASSUME ListInv, ApartIn(Base), Undisturbed, EndMerge
    PROVE  Undisturbed'
PROOF
<1>1. /\ ListTypeOK /\ UNCHANGED << Base, chosen, scanned >> /\ reader.at = "merge"
      /\ ShowPage(reader.rows, reader.total) /\ MergeHolds /\ reader \in Reader
      /\ WalkedAt(Walked, Len(walked), Whole)
  BY DEF ListInv, ListTypeOK, EndMerge, Undisturbed, Base
<1>2. /\ Whole \in Seq(Codes) /\ Len(Whole) = Cardinality(Shown) /\ ToSet(Whole) = Shown
      /\ IsInjective(Whole) /\ Shown = AllOf(Base, chosen) /\ Cardinality(Shown) \in Nat
      /\ PageNo - 1 = Len(walked) /\ Len(walked) \in Nat /\ PageNo = Len(walked) + 1
  BY <1>1, ListFacts DEF PageNo
<1>3. PICK j \in Nat : j = reader.skipped + Len(reader.rows)
  <2>1. reader.skipped \in Nat /\ Len(reader.rows) \in Nat
    BY <1>1 DEF Reader
  <2> QED  BY <2>1
<1>4. /\ ReaderAt(reader, Whole, PageNo) /\ j <= Len(Whole) /\ reader.seen = FirstOf(Whole, j)
      /\ Len(reader.rows) <= PageSize
  BY <1>1, <1>3 DEF MergeHolds, ReaderAt, FirstOf
<1>5. reader.total = Cardinality(Shown)
  BY <1>1, <1>2 DEF MergeHolds
<1>6. Len(reader.rows) = PageSize \/ j = Len(Whole)
  <2> SUFFICES ASSUME Len(reader.rows) # PageSize  PROVE j = Len(Whole)
    OBVIOUS
  <2>1. Ready /\ Heads = {} /\ Len(reader.rows) < PageSize
    <3>1. Len(reader.rows) \in Nat
      BY <1>1 DEF Reader
    <3> QED  BY <1>4, <3>1 DEF EndMerge
  <2>2. ASSUME NEW q \in chosen  PROVE Base[q] \subseteq reader.seen
    <3>1. /\ q \in Periods /\ stream[q] \in Stream /\ Rows(q) \in Seq(Codes)
          /\ ToSet(Rows(q)) = Base[q]
      BY <1>1, ChosenPeriod, RowsFacts
    <3>2. PICK k \in Nat : StreamAt(stream[q], Rows(q), reader.seen, k)
      BY <1>1 DEF MergeHolds
    <3>3. stream[q].buffer = << >> /\ ~ NeedsHead(q)
      BY <2>1 DEF Ready, Heads
    <3>4. stream[q].counted # "no"
      BY <1>1 DEF MergeHolds, CountedPeriods
    <3>5. stream[q].counted = "empty" \/ stream[q].counted = "open"
      BY <3>1, <3>4 DEF Stream
    <3>6. stream[q].exhausted \/ stream[q].counted = "empty"
      BY <1>1, <2>1, <3>3, <3>5 DEF NeedsHead
    <3> QED  BY <3>1, <3>2, <3>3, <3>6, StreamDry
  <2>3. Shown \subseteq reader.seen
    BY <2>2 DEF Shown
  <2>4. PICK N \in Nat : N = Len(Whole)
    BY <1>2
  <2>5. CASE j < N
    <3>1. N \in DOMAIN Whole /\ \A i \in 1..N : i \in DOMAIN Whole
      BY <1>2, <2>4, <2>5
    <3>2. Whole[N] \in reader.seen
      BY <1>2, <2>3, <3>1 DEF ToSet
    <3>3. PICK i \in 1..j : Whole[N] = Whole[i]
      BY <1>4, <3>2 DEF FirstOf
    <3>4. i \in 1..N /\ i # N
      BY <2>4, <2>5
    <3> QED  BY <1>2, <3>1, <3>3, <3>4 DEF IsInjective
  <2> QED  BY <1>4, <2>4, <2>5
<1>7. WalkedAt(Walked \o reader.rows, Len(walked) + 1, Whole)
  <2>1. PICK W \in Seq(Codes) : W = Whole
    BY <1>2
  <2>2. PICK n \in Nat : n = Len(walked)
    BY <1>2
  <2>3. PICK rd \in Reader : rd = reader
    BY <1>1
  <2>4. PICK seq : seq = Walked
    OBVIOUS
  <2>5. ReaderAt(rd, W, n + 1) /\ WalkedAt(seq, n, W)
    BY <1>1, <1>2, <1>4, <2>1, <2>2, <2>3, <2>4
  <2>6. Len(rd.rows) = PageSize \/ rd.skipped + Len(rd.rows) = Len(W)
    BY <1>3, <1>6, <2>1, <2>3
  <2>7. WalkedAt(seq \o rd.rows, n + 1, W)
    BY <2>5, <2>6, WalkedReader
  <2> QED  BY <2>1, <2>2, <2>3, <2>4, <2>7
<1>8. reader.rows \in Seq(Codes) /\ Walked \in Seq(Codes)
  BY <1>1 DEF Reader, WalkedAt
<1> QED  BY <1>1, <1>5, <1>7, <1>8, ShownSlices

\* The list of a single period.
LEMMA SingleFacts ==
    ASSUME ListTypeOK, ApartIn(Base), Single, NEW p \in chosen
    PROVE  chosen = {p} /\ Whole = Rows(p) /\ Shown = Base[p]
PROOF
<1>1. p \in Periods /\ Base \in [Periods -> SUBSET Codes] /\ chosen \in SUBSET Periods
      /\ Ranks \in Ranking(Codes)
  BY ListFacts
<1>2. chosen = {p}
  <2>1. IsFiniteSet(Periods)
    BY FS_Interval DEF Periods
  <2>2. IsFiniteSet(chosen)
    BY <1>1, <2>1, FS_Subset
  <2>3. PICK x : chosen = {x}
    BY <2>2, FS_Singleton DEF Single
  <2> QED  BY <2>3
<1>3. PICK L \in [Periods -> SUBSET Codes] : L = Base
  BY <1>1
<1>4. PICK r \in Ranking(Codes) : r = Ranks
  BY <1>1
<1>5. AllOf(L, {p}) = L[p] /\ Merged(L, {p}, r) = InOrder(L[p], r)
  BY <1>1, <1>3, MergedOne
<1>6. Whole = Merged(L, {p}, r) /\ Rows(p) = InOrder(L[p], r) /\ Shown = AllOf(L, {p})
  BY <1>2, <1>3, <1>4 DEF Whole, Rows, Shown, AllOf
<1> QED  BY <1>2, <1>3, <1>5, <1>6

\* The page of a single period is shown.
LEMMA SingleShows ==
    ASSUME ListInv, ApartIn(Base), Undisturbed, Single, NEW p \in chosen,
           UNCHANGED << Base, chosen, scanned >>, NEW total, total = Cardinality(Shown),
           ShowPage(Chunk(p, PageNo, PageSize), total)
    PROVE  Undisturbed'
PROOF
<1>1. ListTypeOK /\ p \in Periods /\ WalkedAt(Walked, Len(walked), Whole)
  BY ChosenPeriod DEF ListInv, Undisturbed
<1>2. Whole = Rows(p) /\ Whole \in Seq(Codes) /\ PageNo \in Nat \ {0}
      /\ PageNo = Len(walked) + 1 /\ Len(walked) \in Nat
  BY <1>1, SingleFacts, ListFacts DEF PageNo
<1>3. /\ Chunk(p, PageNo, PageSize) = Sliced(Whole, Len(walked) + 1, PageSize)
      /\ Chunk(p, PageNo, PageSize) \in Seq(Codes)
  <2>1. PICK n \in Nat \ {0} : n = PageNo
    BY <1>2
  <2>2. PICK size \in Nat \ {0} : size = PageSize
    OBVIOUS
  <2>3. Chunk(p, n, size) = Sliced(Rows(p), n, size)
    BY <1>1, ChunkIs
  <2>4. Chunk(p, n, size) \in Seq(Codes)
    BY <1>1, ChunkRows DEF IsPart
  <2> QED  BY <1>2, <2>1, <2>2, <2>3, <2>4
<1>4. WalkedAt(Walked \o Chunk(p, PageNo, PageSize), Len(walked) + 1, Whole)
  <2>1. PICK W \in Seq(Codes) : W = Whole
    BY <1>2
  <2>2. PICK n \in Nat : n = Len(walked)
    BY <1>2
  <2>3. PICK seq : seq = Walked
    OBVIOUS
  <2>4. PICK rows : rows = Chunk(p, PageNo, PageSize)
    OBVIOUS
  <2>5. WalkedAt(seq, n, W) /\ rows = Sliced(W, n + 1, PageSize)
    BY <1>1, <1>3, <2>1, <2>2, <2>3, <2>4
  <2>6. WalkedAt(seq \o rows, n + 1, W)
    BY <2>5, WalkedChunk
  <2> QED  BY <2>1, <2>2, <2>3, <2>4, <2>6
<1>5. Walked \in Seq(Codes)
  BY <1>1 DEF WalkedAt
<1> QED  BY <1>1, <1>3, <1>4, <1>5, ShownSlices

LEMMA SingleSlices ==
    ASSUME ListInv, ApartIn(Base), StillThere, Undisturbed, NEW p \in chosen, SingleStep(p)
    PROVE  Undisturbed'
PROOF
<1>1. /\ ListTypeOK /\ p \in Periods /\ UNCHANGED << listed, chosen, scanned >>
      /\ reader.at = "single" /\ (Scanned(p) \/ UNCHANGED scans)
  BY ChosenPeriod DEF ListInv, SingleStep, SinglePage, SingleScan, SingleFetch
<1>7. UNCHANGED << Base, chosen, scanned >>
  BY <1>1, BaseStays
<1>2. SingleHolds /\ Single
  BY <1>1 DEF Undisturbed, SingleHolds
<1>3. chosen = {p} /\ Shown = Base[p] /\ PageNo \in Nat \ {0}
  BY <1>1, <1>2, SingleFacts, ListFacts
<1>4. CASE SinglePage(p)
  <2>1. ShowPage(Chunk(p, PageNo, PageSize), Cardinality(Shown))
    BY <1>3, <1>4 DEF SinglePage
  <2> QED  BY <1>1, <1>2, <1>7, <2>1, SingleShows
<1>5. CASE SingleFetch(p)
  <2>1. stream[p].wanted = ToSet(Chunk(p, PageNo, PageSize))
        /\ reader.total = Cardinality(Shown)
    BY <1>2, <1>5 DEF SingleFetch, SingleHolds
  <2>2. RowsById(p) = Chunk(p, PageNo, PageSize)
    <3>1. PICK n \in Nat \ {0} : n = PageNo
      BY <1>3
    <3>2. PICK size \in Nat \ {0} : size = PageSize
      OBVIOUS
    <3>3. stream[p].wanted = ToSet(Chunk(p, n, size)) => RowsById(p) = Chunk(p, n, size)
      BY <1>1, ChunkIs DEF StillThere
    <3> QED  BY <2>1, <3>1, <3>2, <3>3
  <2>3. ShowPage(Chunk(p, PageNo, PageSize), reader.total)
    BY <1>5, <2>2 DEF SingleFetch
  <2> QED  BY <1>1, <1>2, <1>7, <2>1, <2>3, SingleShows
<1>6. CASE SingleScan(p)
  <2>1. /\ reader' = [reader EXCEPT !.total = Cardinality(Base[p])]
        /\ stream' = [stream EXCEPT ![p].scanning = TRUE,
                                    ![p].wanted = ToSet(Chunk(p, PageNo, PageSize))]
        /\ walked' = walked
    BY <1>6 DEF SingleScan
  <2>2. reader'.at = "single" /\ reader'.total = Cardinality(Base[p])
    BY <1>1, <2>1 DEF ListTypeOK, Reader
  <2>3. /\ Whole' = Whole /\ Shown' = Shown /\ PageNo' = PageNo /\ Walked' = Walked
        /\ (Single <=> Single')
        /\ Chunk(p, PageNo, PageSize)' = Chunk(p, PageNo, PageSize)
    BY <1>1, <1>7, <2>1, SameList DEF PageNo, Walked, Chunk
  <2>4. stream'[p].wanted = ToSet(Chunk(p, PageNo, PageSize))
    <3>1. PICK w : w = ToSet(Chunk(p, PageNo, PageSize))
      OBVIOUS
    <3>2. stream \in [Periods -> Stream] /\ stream[p] \in Stream
      BY <1>1 DEF ListTypeOK
    <3>3. stream' = [stream EXCEPT ![p].scanning = TRUE, ![p].wanted = w]
      BY <2>1, <3>1
    <3>4. stream'[p].wanted = w
      BY <1>1, <3>2, <3>3 DEF Stream
    <3> QED  BY <3>1, <3>4
  <2>5. Single'
    BY <1>2, <2>3
  <2>6. SingleHolds'
    <3> SUFFICES ASSUME NEW q \in chosen'
                 PROVE  /\ stream'[q].wanted = ToSet(Chunk(q, PageNo, PageSize)')
                        /\ reader'.total = Cardinality(Shown')
      BY <2>5 DEF SingleHolds
    <3>1. q = p
      BY <1>1, <1>3
    <3> QED  BY <1>3, <2>2, <2>3, <2>4, <3>1
  <2>7. WalkedAt(Walked', Len(walked'), Whole')
    BY <2>1, <2>3 DEF Undisturbed
  <2> QED  BY <2>2, <2>6, <2>7 DEF Undisturbed
<1> QED  BY <1>4, <1>5, <1>6 DEF SingleStep

\* At first what is kept is what there is.
LEMMA BaseAtFirst == ListInit => Base = listed
PROOF
<1> SUFFICES ASSUME ListInit  PROVE Base = listed
  OBVIOUS
<1>1. listed = [p \in Periods |-> listed[p]]
  BY DEF ListInit
<1>2. \A p \in Periods : (IF scans[p] = {} THEN listed[p] ELSE UNION scans[p]) = listed[p]
  <2> SUFFICES ASSUME NEW p \in Periods, scans[p] # {}  PROVE UNION scans[p] = listed[p]
    OBVIOUS
  <2>1. scans[p] = {listed[p]}
    BY DEF ListInit
  <2> QED  BY <2>1
<1> QED  BY <1>1, <1>2 DEF Base

LEMMA SlicesInit == ListInit => SlicesInv
PROOF
<1> SUFFICES ASSUME ListInit  PROVE SlicesInv
  OBVIOUS
<1>0. Base = listed
  BY BaseAtFirst
<1>1. ListInv /\ ListTypeOK /\ ApartIn(Base) /\ StillThere
  BY <1>0, ListInvInit DEF ListInv, ListInit, ApartIn, StillThere
<1>2. walked = << >> /\ reader.at = "idle" /\ Walked = << >> /\ Len(walked) = 0
  BY DEF ListInit, NoReader, Walked, FlattenSeq
<1>3. Whole \in Seq(Codes) /\ Len(Whole) \in Nat
  BY <1>1, ListFacts
<1>4. WalkedAt(Walked, Len(walked), Whole)
  <2>1. 0 * PageSize = 0 /\ << >> \in Seq(Codes) /\ Len(<< >>) = 0
    OBVIOUS
  <2>2. Atmost(0, Len(Whole)) = 0
    BY <1>3 DEF Atmost
  <2> QED  BY <1>2, <2>1, <2>2 DEF WalkedAt
<1> QED  BY <1>1, <1>2, <1>4 DEF SlicesInv, Undisturbed

\* While what they are cut from stays, so do the pages.
LEMMA UndisturbedStays ==
    ASSUME ListTypeOK, UNCHANGED << Base, chosen, scanned, stream, reader, walked >>, Undisturbed
    PROVE  Undisturbed'
PROOF
<1>1. /\ Whole' = Whole /\ Shown' = Shown /\ PageNo' = PageNo /\ Walked' = Walked
      /\ Single <=> Single'
      /\ CountedPeriods' = CountedPeriods
      /\ \A p \in Periods : Rows(p)' = Rows(p)
      /\ \A p : Chunk(p, PageNo, PageSize)' = Chunk(p, PageNo, PageSize)
  BY SameList DEF PageNo, Walked, CountedPeriods, Chunk
<1>2. chosen \in SUBSET Periods
  BY DEF ListTypeOK
<1>3. ASSUME MergeHolds  PROVE MergeHolds'
  <2>1. ReaderAt(reader', Whole', PageNo')
    BY <1>1, <1>3 DEF MergeHolds
  <2>2. ASSUME NEW q \in chosen
        PROVE  \E k \in Nat : StreamAt(stream'[q], Rows(q)', reader'.seen, k)
    <3>1. PICK k \in Nat : StreamAt(stream[q], Rows(q), reader.seen, k)
      BY <1>3 DEF MergeHolds
    <3> QED  BY <1>1, <1>2, <3>1
  <2>3. /\ reader'.total = Cardinality(AllOf(Base', CountedPeriods'))
        /\ reader'.at = "merge" => CountedPeriods' = chosen'
    BY <1>1, <1>3 DEF MergeHolds
  <2> QED  BY <2>1, <2>2, <2>3 DEF MergeHolds
<1>4. SingleHolds => SingleHolds'
  BY <1>1 DEF SingleHolds
<1> QED  BY <1>1, <1>3, <1>4 DEF Undisturbed

\* Others leave what the pages are cut from as it is, or it is not settled any more: what
\* they insert shows only once the scan is dropped.
LEMMA OthersSettled ==
    ASSUME ListTypeOK, NEW p \in chosen, settled',
           (\E a \in Codes : InsertAsset(a, p) \/ DeleteAsset(a, p)) \/ DropScan(p)
    PROVE  settled /\ Base' = Base /\ (StillThere => StillThere')
PROOF
<1>1. /\ p \in Periods /\ listed \in [Periods -> SUBSET Codes]
      /\ scans \in [Periods -> SUBSET SUBSET Codes] /\ Base \in [Periods -> SUBSET Codes]
      /\ settled \in BOOLEAN
  BY ChosenPeriod, BaseTyped DEF ListTypeOK
<1>2. ASSUME NEW q \in Periods
      PROVE  Base[q] = IF scans[q] = {} THEN listed[q] ELSE UNION scans[q]
  BY DEF Base
<1>3. Base' = [q \in Periods |-> IF scans'[q] = {} THEN listed'[q] ELSE UNION scans'[q]]
  BY DEF Base
<1>4. SUFFICES /\ settled
               /\ \A q \in Periods :
                     (IF scans'[q] = {} THEN listed'[q] ELSE UNION scans'[q]) = Base[q]
               /\ \A q \in Periods : listed[q] \subseteq listed'[q]
  <2>1. Base = [q \in Periods |-> Base[q]]
    BY <1>1
  <2>2. Base' = Base
    BY <1>3, <1>4, <2>1
  <2> QED  BY <1>4, <2>2 DEF StillThere
<1>5. ASSUME NEW a \in Codes, InsertAsset(a, p)
      PROVE  /\ settled
             /\ \A q \in Periods :
                   (IF scans'[q] = {} THEN listed'[q] ELSE UNION scans'[q]) = Base[q]
             /\ \A q \in Periods : listed[q] \subseteq listed'[q]
  <2>1. settled /\ scans[p] # {} /\ scans' = scans /\ listed' = [listed EXCEPT ![p] = @ \cup {a}]
    BY <1>5 DEF InsertAsset, Happens
  <2>2. \A q \in Periods : listed[q] \subseteq listed'[q] /\ (q # p => listed'[q] = listed[q])
    BY <1>1, <2>1
  <2> QED  BY <1>2, <2>1, <2>2
<1>6. ~ \E a \in Codes : DeleteAsset(a, p)
  BY DEF DeleteAsset
<1>7. ASSUME DropScan(p)
      PROVE  /\ settled
             /\ \A q \in Periods :
                   (IF scans'[q] = {} THEN listed'[q] ELSE UNION scans'[q]) = Base[q]
             /\ \A q \in Periods : listed[q] \subseteq listed'[q]
  <2>1. /\ settled /\ listed[p] = Base[p] /\ listed' = listed
        /\ scans' = [scans EXCEPT ![p] = {}]
    BY <1>1, <1>7 DEF DropScan
  <2>2. scans'[p] = {} /\ \A q \in Periods : q # p => scans'[q] = scans[q]
    BY <1>1, <2>1
  <2> QED  BY <1>2, <2>1, <2>2
<1> QED  BY <1>5, <1>6, <1>7

LEMMA SlicesStep == SlicesInv /\ [ListNext]_listVars => SlicesInv'
PROOF
<1> SUFFICES ASSUME SlicesInv, [ListNext]_listVars  PROVE SlicesInv'
  OBVIOUS
<1>1. ListInv /\ ListTypeOK /\ ListInv' /\ (settled => ApartIn(Base) /\ StillThere /\ Undisturbed)
  BY ListInvStep DEF SlicesInv, ListInv
<1>2. CASE UNCHANGED listVars
  <2>1. UNCHANGED << Base, chosen, scanned, stream, reader, walked >>
        /\ UNCHANGED << listed, settled >>
    BY <1>2 DEF listVars, Base
  <2>2. StillThere => StillThere'
    BY <2>1 DEF StillThere
  <2> QED  BY <1>1, <2>1, <2>2, UndisturbedStays DEF SlicesInv
<1>3. ASSUME NEW p \in chosen,
             (\E a \in Codes : InsertAsset(a, p) \/ DeleteAsset(a, p)) \/ DropScan(p)
      PROVE  SlicesInv'
  <2> SUFFICES ASSUME settled'  PROVE ApartIn(Base') /\ StillThere' /\ Undisturbed'
    BY <1>1 DEF SlicesInv
  <2>1. settled /\ Base' = Base /\ (StillThere => StillThere')
    BY <1>1, <1>3, OthersSettled
  <2>2. UNCHANGED << chosen, scanned, stream, reader, walked >>
    BY <1>3 DEF InsertAsset, DeleteAsset, Happens, DropScan
  <2> QED  BY <1>1, <2>1, <2>2, UndisturbedStays
<1>4. ASSUME UNCHANGED << listed, settled >>, NEW q \in Periods, Scanned(q) \/ UNCHANGED scans,
             settled => Undisturbed'
      PROVE  SlicesInv'
  <2>1. Base' = Base
    BY <1>1, <1>4, BaseStays
  <2>2. StillThere => StillThere'
    BY <1>4, <2>1 DEF StillThere
  <2> QED  BY <1>1, <1>4, <2>1, <2>2 DEF SlicesInv
<1>0. 1 \in Periods
  BY DEF Periods
<1>5. CASE AskPage
  BY <1>0, <1>1, <1>4, <1>5, AskPageSlices DEF AskPage
<1>6. CASE TakeHead
  BY <1>0, <1>1, <1>4, <1>6, TakeHeadSlices DEF TakeHead
<1>7. CASE EndMerge
  BY <1>0, <1>1, <1>4, <1>7, EndMergeSlices DEF EndMerge
<1>8. ASSUME NEW p \in chosen, MergeStep(p)  PROVE SlicesInv'
  <2>0. p \in Periods
    BY <1>1, ChosenPeriod
  <2>1. CASE CountPeriod(p)
    BY <1>1, <1>4, <2>0, <2>1, CountSlices DEF CountPeriod
  <2>2. CASE RefillStream(p)
    <3>1. UNCHANGED << Base, chosen, scanned, reader, walked >>
      BY <2>2 DEF RefillStream, Base
    <3> QED  BY <1>1, <1>4, <2>0, <2>2, <3>1, RefilledSlices DEF RefillStream
  <2>3. CASE RefillScan(p)
    BY <1>1, <1>4, <2>0, <2>3, RefillScanSlices DEF RefillScan, ScanIds
  <2>4. CASE RefillFetch(p)
    BY <1>1, <1>4, <2>0, <2>4, RefillFetchSlices DEF RefillFetch
  <2> QED  BY <1>8, <2>1, <2>2, <2>3, <2>4 DEF MergeStep
<1>9. ASSUME NEW p \in chosen, SingleStep(p)  PROVE SlicesInv'
  <2>0. p \in Periods
    BY <1>1, ChosenPeriod
  <2>1. UNCHANGED << listed, settled >> /\ (Scanned(p) \/ UNCHANGED scans)
    BY <1>9 DEF SingleStep, SinglePage, SingleScan, SingleFetch
  <2> QED  BY <1>1, <1>4, <1>9, <2>0, <2>1, SingleSlices
<1> QED
  BY <1>2, <1>3, <1>5, <1>6, <1>7, <1>8, <1>9 DEF ListNext

LEMMA SlicesMeans == SlicesInv => PagesAreSlices
PROOF
<1> SUFFICES ASSUME SlicesInv  PROVE PagesAreSlices
  OBVIOUS
<1>1. ListTypeOK /\ \A n \in DOMAIN walked : IsInjective(walked[n])
  BY DEF SlicesInv, ListInv, PagesRepeatNothing
<1>2. ASSUME settled
      PROVE  /\ IsInjective(Walked)
             /\ reader.at = "idle" /\ Len(walked) = PagesOf(reader.total) => ToSet(Walked) = Shown
             /\ scanned => Walked = SubSeq(InOrder(Shown, Ranks), 1, Len(Walked))
  <2>0. ApartIn(Base)
    BY <1>2 DEF SlicesInv
  <2>1. /\ Whole \in Seq(Codes) /\ Len(Whole) = Cardinality(Shown) /\ ToSet(Whole) = Shown
        /\ IsInjective(Whole) /\ Len(walked) \in Nat /\ Cardinality(Shown) \in Nat
        /\ Base \in [Periods -> SUBSET Codes] /\ chosen \in SUBSET Periods
        /\ Shown = AllOf(Base, chosen)
    BY <1>1, <2>0, ListFacts
  <2>2. WalkedAt(Walked, Len(walked), Whole)
        /\ (reader.at = "idle" /\ walked # << >> => reader.total = Cardinality(Shown))
    BY <1>2 DEF SlicesInv, Undisturbed
  <2>3. /\ IsInjective(Walked)
        /\ Walked = SubSeq(Whole, 1, Len(Walked))
        /\ Len(Whole) <= Len(walked) * PageSize => Walked = Whole
    <3>1. PICK W \in Seq(Codes) : W = Whole
      BY <2>1
    <3>2. PICK n \in Nat : n = Len(walked)
      BY <2>1
    <3>3. PICK seq : seq = Walked
      OBVIOUS
    <3>4. IsInjective(W) /\ WalkedAt(seq, n, W)
      BY <2>1, <2>2, <3>1, <3>2, <3>3
    <3>5. /\ IsInjective(seq) /\ seq = SubSeq(W, 1, Len(seq))
          /\ Len(W) <= n * PageSize => seq = W
      BY <3>4, WalkedIs
    <3> QED  BY <3>1, <3>2, <3>3, <3>5
  <2>4. ASSUME reader.at = "idle", Len(walked) = PagesOf(reader.total)
        PROVE  ToSet(Walked) = Shown
    <3>1. PICK t \in Nat : t = reader.total
      BY <1>1 DEF ListTypeOK, Reader
    <3>2. PICK n \in Nat : n = Len(walked)
      BY <2>1
    <3>3. n = PagesOf(t)
      BY <2>4, <3>1, <3>2
    <3>4. t <= n * PageSize
      BY <3>3, PagesEnough
    <3>5. walked # << >>
      <4> SUFFICES ASSUME walked = << >>  PROVE FALSE
        OBVIOUS
      <4>1. n = 0
        BY <3>2
      <4>2. 0 * PageSize = 0
        OBVIOUS
      <4>3. t = 0
        BY <3>4, <4>1, <4>2
      <4> QED  BY <3>3, <4>1, <4>3 DEF PagesOf
    <3>6. t = Len(Whole)
      BY <2>1, <2>2, <2>4, <3>1, <3>5
    <3>7. Walked = Whole
      BY <2>3, <3>2, <3>4, <3>6
    <3> QED  BY <2>1, <3>7
  <2>5. ASSUME scanned
        PROVE  Walked = SubSeq(InOrder(Shown, Ranks), 1, Len(Walked))
    <3>1. Ranks = [a \in Codes |-> a]
      BY <2>5 DEF Ranks
    <3>2. PICK L \in [Periods -> SUBSET Codes] : L = Base
      BY <2>1
    <3>3. PICK C \in SUBSET Periods : C = chosen
      BY <2>1
    <3>4. Merged(L, C, [a \in Codes |-> a]) = InOrder(AllOf(L, C), [a \in Codes |-> a])
      BY <2>0, <3>2, MergedSorted
    <3>5. Whole = InOrder(Shown, Ranks)
      BY <2>1, <3>1, <3>2, <3>3, <3>4 DEF Whole
    <3> QED  BY <2>3, <3>5
  <2> QED  BY <2>3, <2>4, <2>5
<1> QED  BY <1>1, <1>2 DEF PagesAreSlices

\* While what they are cut from - the table, or the scan that is kept - stays the same and
\* none of it is deleted, the pages are the consecutive parts of one list, which holds every
\* asset of it once, and is sorted where the backend sorts as the browser does.
THEOREM PagesCut == ListSpec => []PagesAreSlices
BY SlicesInit, SlicesStep, SlicesMeans, PTL DEF ListSpec

-------------------------------------------------------------------------------
(* What inserts do to a walk *)

\* Among more assets there are as many below one, or more.
LEMMA BelowIn ==
    ASSUME NEW S \in SUBSET Codes, NEW T \in SUBSET S, NEW rank, NEW a
    PROVE  /\ Cardinality(Below(T, rank, a)) \in Nat /\ Cardinality(Below(S, rank, a)) \in Nat
           /\ Cardinality(Below(T, rank, a)) <= Cardinality(Below(S, rank, a))
PROOF
<1>1. Below(S, rank, a) \in SUBSET Codes /\ Below(T, rank, a) \in SUBSET Below(S, rank, a)
  BY DEF Below
<1>2. Below(T, rank, a) \in SUBSET Codes
  BY <1>1
<1>3. IsFiniteSet(Below(S, rank, a)) /\ Cardinality(Below(S, rank, a)) \in Nat
      /\ Cardinality(Below(T, rank, a)) \in Nat
  BY <1>1, <1>2, CodesFinite
<1> QED  BY <1>1, <1>3, FS_Subset

\* An asset that no earlier part holds is in the part, or the part is full and of
\* assets before it.
ReachedBy(part, S, rank, a, n, size) ==
    \/ a \in part
    \/ /\ Cardinality(Below(S, rank, a)) >= n * size
       /\ Cardinality(part) = size
       /\ \A x \in part : rank[x] < rank[a]

LEMMA PartReaches ==
    ASSUME NEW S \in SUBSET Codes, NEW rank \in Ranking(S), NEW n \in Nat \ {0},
           NEW size \in Nat \ {0}, NEW a \in S,
           Cardinality(Below(S, rank, a)) >= (n - 1) * size
    PROVE  ReachedBy(ToSet(Sliced(InOrder(S, rank), n, size)), S, rank, a, n, size)
PROOF
<1>1. PICK R \in Seq(S) : R = InOrder(S, rank)
  BY InOrderRows
<1>2. Len(R) = Cardinality(S) /\ Len(R) \in Nat /\ Increasing(R, rank) /\ R \in Seq(Codes)
  BY <1>1, InOrderRows, InOrderSorted
<1>3. PICK b \in Nat : b = (n - 1) * size
  BY OneTimeMore
<1>4. n * size = b + size
  BY <1>3, OneTimeMore
<1>5. PICK i \in 1..Len(R) : i = Cardinality(Below(S, rank, a)) + 1 /\ R[i] = a
  BY <1>1, <1>2, InOrderPlace
<1>6. i > b /\ (i > b + size => Cardinality(Below(S, rank, a)) >= n * size)
  <2>1. PICK d \in Nat : d = Cardinality(Below(S, rank, a))
    BY BelowIn
  <2> QED  BY <1>3, <1>4, <1>5, <2>1
<1>7. PICK s \in Seq(Codes) :
          /\ s = Sliced(R, n, size)
          /\ Atmost(b, Len(R)) + Len(s) = Atmost(b + size, Len(R))
          /\ \A k \in 1..Len(s) : s[k] = R[Atmost(b, Len(R)) + k]
  <2>1. PICK Q \in Seq(Codes) : Q = R
    BY <1>2
  <2>2. /\ Sliced(Q, n, size) \in Seq(Codes)
        /\ Atmost((n - 1) * size, Len(Q)) + Len(Sliced(Q, n, size)) = Atmost(n * size, Len(Q))
        /\ \A k \in 1..Len(Sliced(Q, n, size)) :
              Sliced(Q, n, size)[k] = Q[Atmost((n - 1) * size, Len(Q)) + k]
    BY SlicedRows
  <2> QED  BY <1>3, <1>4, <2>1, <2>2
<1>8. PICK N \in Nat : N = Len(R)
  BY <1>2
<1>9. PICK d \in Nat : d = Len(s)
  OBVIOUS
<1>10. /\ i \in 1..N /\ Atmost(b, N) = b
       /\ i <= b + size => i - b \in 1..d
       /\ i > b + size => d = size
       /\ b + d <= b + size
  <2>1. i \in 1..N /\ i > b
    BY <1>5, <1>6, <1>8
  <2>2. Atmost(b, N) + d = Atmost(b + size, N)
    BY <1>7, <1>8, <1>9
  <2> QED  BY <2>1, <2>2 DEF Atmost
<1>11. \A k \in 1..d : s[k] = R[b + k]
  BY <1>7, <1>8, <1>9, <1>10
<1>12. ToSet(s) = {s[k] : k \in 1..d}
  BY <1>9, SeqOfItsSet
<1>13. CASE i <= b + size
  <2>1. PICK k \in 1..d : k = i - b
    BY <1>10, <1>13
  <2>2. b + k = i
    BY <1>10, <2>1
  <2>3. s[k] = a
    BY <1>5, <1>11, <2>2
  <2>4. a \in ToSet(s)
    BY <1>12, <2>3
  <2> QED  BY <1>1, <1>7, <2>4 DEF ReachedBy
<1>14. CASE i > b + size
  <2>1. IsPart(SubSeq(InOrder(S, rank), b + 1, Atmost(b + size, N)), S, rank)
    <3>1. PICK l \in Nat : l = Atmost(b + size, N) /\ l <= N
      BY DEF Atmost
    <3>2. PICK m \in Nat \ {0} : m = b + 1
      OBVIOUS
    <3>3. l <= Cardinality(S)
      BY <1>2, <1>8, <3>1
    <3>4. IsPart(SubSeq(InOrder(S, rank), m, l), S, rank)
      BY <3>3, SliceInOrder
    <3> QED  BY <3>1, <3>2, <3>4
  <2>2. SubSeq(InOrder(S, rank), b + 1, Atmost(b + size, N)) = s
    BY <1>1, <1>3, <1>4, <1>7, <1>8 DEF Sliced
  <2>3. Cardinality(ToSet(s)) = size
    BY <1>9, <1>10, <1>14, <2>1, <2>2 DEF IsPart
  <2>4. ASSUME NEW x \in ToSet(s)  PROVE rank[x] < rank[a]
    <3>1. PICK k \in 1..d : x = s[k]
      BY <1>12
    <3>2. x = R[b + k]
      BY <1>11, <3>1
    <3>3. PICK l \in Nat : l = b + k /\ l < i /\ l \in 1..N
      <4>1. b + k \in Nat /\ b + k < i /\ b + k \in 1..N
        BY <1>10, <1>14
      <4> QED  BY <4>1
    <3>4. rank[R[l]] < rank[R[i]]
      BY <1>2, <1>8, <1>10, <3>3 DEF Increasing
    <3> QED  BY <1>5, <3>2, <3>3, <3>4
  <2>5. Cardinality(Below(S, rank, a)) >= n * size
    BY <1>6, <1>14
  <2> QED  BY <1>1, <1>7, <2>3, <2>4, <2>5 DEF ReachedBy
<1> QED  BY <1>10, <1>13, <1>14

LEMMA TailSet ==
    ASSUME NEW s \in Seq(Codes), s # << >>
    PROVE  /\ Tail(s) \in Seq(Codes) /\ Head(s) \in ToSet(s)
           /\ ToSet(Tail(s)) \subseteq ToSet(s)
           /\ ToSet(s) \subseteq ToSet(Tail(s)) \cup {Head(s)}
PROOF
<1>1. PICK n \in Nat \ {0} : n = Len(s)
  <2>1. Len(s) \in Nat /\ Len(s) # 0
    OBVIOUS
  <2> QED  BY <2>1
<1>0. Tail(s) \in Seq(Codes)
  OBVIOUS
<1>2. PICK t \in Seq(Codes) : t = Tail(s)
  BY <1>0
<1>3. Head(s) = s[1] /\ Len(t) = n - 1 /\ \A i \in 1..n - 1 : t[i] = s[i + 1]
  BY <1>1, <1>2
<1>4. ToSet(s) = {s[i] : i \in 1..n} /\ ToSet(t) = {t[i] : i \in 1..n - 1}
  <2>1. ToSet(s) = {s[i] : i \in 1..Len(s)}
    BY SeqOfItsSet
  <2>2. ToSet(t) = {t[i] : i \in 1..Len(t)}
    BY SeqOfItsSet
  <2> QED  BY <1>1, <1>3, <2>1, <2>2
<1>5. ASSUME NEW i \in 1..n - 1  PROVE t[i] \in ToSet(s)
  <2>1. i + 1 \in 1..n
    OBVIOUS
  <2> QED  BY <1>3, <1>4, <2>1
<1>6. ASSUME NEW i \in 1..n, i # 1  PROVE s[i] \in ToSet(t)
  <2>1. PICK k \in 1..n - 1 : i = k + 1
    <3>1. i - 1 \in 1..n - 1 /\ i = (i - 1) + 1
      BY <1>6
    <3> QED  BY <3>1
  <2> QED  BY <1>3, <1>4, <2>1
<1>7. 1 \in 1..n
  OBVIOUS
<1> QED  BY <1>2, <1>3, <1>4, <1>5, <1>6, <1>7

Id == [a \in Codes |-> a]

\* An asset of the period S is in the buffer of its stream, or behind it.
Comes(st, S, a) ==
    \/ a \in ToSet(st.buffer)
    \/ /\ ~ st.exhausted
       /\ Cardinality(Below(S, Id, a)) >= (st.page - 1) * ChunkSize
       /\ \A x \in ToSet(st.buffer) : x < a
       /\ st.scanning => ReachedBy(st.wanted, S, Id, a, st.page, ChunkSize)

\* Buffers are sorted, and hold assets of those listed in S.
KeptBuffer(st, S) ==
    /\ \A i, j \in 1..Len(st.buffer) : i < j => st.buffer[i] < st.buffer[j]
    /\ ToSet(st.buffer) \subseteq S
    /\ st.scanning => st.wanted \subseteq S

LEMMA IdOf == \A a \in Codes : Id[a] = a /\ a \in Nat
BY DEF Id, Codes

LEMMA IdIs ==
    ASSUME NEW S \in SUBSET Codes
    PROVE  Id \in Ranking(S) /\ Id \in [Codes -> Nat] /\ \A a \in S : Id[a] = a /\ a \in Nat
PROOF
<1>1. \A a \in Codes : Id[a] = a /\ a \in Nat
  BY IdOf
<1>2. Id \in [Codes -> Nat]
  BY <1>1 DEF Id
<1> QED  BY <1>1, <1>2 DEF Ranking

\* Others come into the period.
LEMMA ComesLater ==
    ASSUME NEW st \in Stream, NEW S \in SUBSET Codes, NEW T \in SUBSET S, NEW a,
           Comes(st, T, a)
    PROVE  Comes(st, S, a)
PROOF
<1>1. PICK m \in Nat : m = Cardinality(Below(T, Id, a))
  BY BelowIn
<1>2. PICK n \in Nat : n = Cardinality(Below(S, Id, a))
  BY BelowIn
<1>3. m <= n
  BY <1>1, <1>2, BelowIn
<1>4. st.page \in Nat \ {0}
  BY DEF Stream
<1>5. PICK c \in Nat : c = (st.page - 1) * ChunkSize
  BY <1>4, OneTimeMore
<1>6. PICK d \in Nat : d = st.page * ChunkSize
  BY <1>4, OneTimeMore
<1>7. ASSUME ReachedBy(st.wanted, T, Id, a, st.page, ChunkSize)
      PROVE  ReachedBy(st.wanted, S, Id, a, st.page, ChunkSize)
  <2>1. a \in st.wanted \/ (m >= d /\ Cardinality(st.wanted) = ChunkSize
                            /\ \A x \in st.wanted : Id[x] < Id[a])
    BY <1>1, <1>6, <1>7 DEF ReachedBy
  <2>2. m >= d => n >= d
    BY <1>3
  <2> QED  BY <1>2, <1>6, <2>1, <2>2 DEF ReachedBy
<1>8. m >= c => n >= c
  BY <1>3
<1> QED  BY <1>1, <1>2, <1>5, <1>7, <1>8 DEF Comes

LEMMA ComesCounted ==
    ASSUME NEW st \in Stream, NEW S, NEW a, Comes(st, S, a), NEW c \in {"empty", "open"}
    PROVE  Comes([st EXCEPT !.counted = c], S, a)
BY DEF Comes, Stream

\* The ids of the next chunk are asked for.
LEMMA ComesScans ==
    ASSUME NEW st \in Stream, NEW S \in SUBSET Codes, NEW a \in S, Comes(st, S, a),
           st.buffer = << >>, NEW w, w = ToSet(Sliced(InOrder(S, Id), st.page, ChunkSize))
    PROVE  Comes([st EXCEPT !.scanning = TRUE, !.wanted = w], S, a)
PROOF
<1>1. st.page \in Nat \ {0} /\ ToSet(st.buffer) = {}
  BY DEF Stream, ToSet
<1>2. ~ st.exhausted /\ Cardinality(Below(S, Id, a)) >= (st.page - 1) * ChunkSize
  BY <1>1 DEF Comes
<1>3. ReachedBy(w, S, Id, a, st.page, ChunkSize)
  <2>1. PICK n \in Nat \ {0} : n = st.page
    BY <1>1
  <2>2. PICK size \in Nat \ {0} : size = ChunkSize
    OBVIOUS
  <2>3. PICK r \in Ranking(S) : r = Id
    BY IdIs
  <2>4. Cardinality(Below(S, r, a)) >= (n - 1) * size
    BY <1>2, <2>1, <2>2, <2>3
  <2>5. ReachedBy(ToSet(Sliced(InOrder(S, r), n, size)), S, r, a, n, size)
    BY <2>4, PartReaches
  <2> QED  BY <2>1, <2>2, <2>3, <2>5
<1> DEFINE new == [st EXCEPT !.scanning = TRUE, !.wanted = w]
<1>4. /\ new.buffer = st.buffer /\ new.page = st.page /\ (new.exhausted => st.exhausted)
      /\ new.wanted = w
  BY DEF Stream
<1> HIDE DEF new
<1>5. Comes(new, S, a)
  BY <1>1, <1>2, <1>3, <1>4 DEF Comes
<1> QED  BY <1>5 DEF new

\* Their rows have come.
LEMMA ComesFetched ==
    ASSUME NEW st \in Stream, NEW S \in SUBSET Codes, NEW a \in S, Comes(st, S, a),
           st.buffer = << >>, st.scanning, st.wanted \subseteq S,
           NEW rows, rows = InOrder(st.wanted, Id)
    PROVE  /\ rows # << >>
           /\ Comes([st EXCEPT !.buffer = rows, !.page = st.page + 1, !.scanning = FALSE,
                               !.wanted = {}, !.exhausted = Len(rows) < ChunkSize], S, a)
PROOF
<1>1. st.page \in Nat \ {0} /\ ToSet(st.buffer) = {} /\ st.wanted \in SUBSET Codes
  BY DEF Stream, ToSet
<1>2. ReachedBy(st.wanted, S, Id, a, st.page, ChunkSize)
  BY <1>1 DEF Comes
<1>3. rows \in Seq(Codes) /\ ToSet(rows) = st.wanted /\ Len(rows) = Cardinality(st.wanted)
      /\ Len(rows) \in Nat
  <2>1. PICK w \in SUBSET Codes : w = st.wanted
    BY <1>1
  <2>2. PICK r \in Ranking(w) : r = Id
    BY IdIs
  <2>3. InOrder(w, r) \in Seq(w) /\ Len(InOrder(w, r)) = Cardinality(w)
        /\ ToSet(InOrder(w, r)) = w
    BY InOrderRows, InOrderSorted
  <2>4. InOrder(w, r) \in Seq(Codes)
    BY <2>3
  <2> QED  BY <2>1, <2>2, <2>3, <2>4
<1>4. rows # << >>
  <2> SUFFICES ASSUME rows = << >>  PROVE FALSE
    OBVIOUS
  <2>1. Len(rows) = 0 /\ ToSet(rows) = {}
    BY DEF ToSet
  <2> QED  BY <1>2, <1>3, <2>1 DEF ReachedBy
<1> DEFINE new == [st EXCEPT !.buffer = rows, !.page = st.page + 1, !.scanning = FALSE,
                             !.wanted = {}, !.exhausted = Len(rows) < ChunkSize]
<1>5. /\ new.buffer = rows /\ new.page = st.page + 1 /\ ~ new.scanning
      /\ (new.exhausted => Len(rows) < ChunkSize)
  BY DEF Stream
<1> HIDE DEF new
<1>6. Comes(new, S, a)
  <2>1. CASE a \in st.wanted
    BY <1>3, <1>5, <2>1 DEF Comes
  <2>2. CASE a \notin st.wanted
    <3>1. /\ Cardinality(Below(S, Id, a)) >= st.page * ChunkSize
          /\ Len(rows) = ChunkSize
          /\ \A x \in st.wanted : Id[x] < Id[a]
      BY <1>2, <1>3, <2>2 DEF ReachedBy
    <3>2. (new.page - 1) * ChunkSize = st.page * ChunkSize
      <4>1. new.page - 1 = st.page
        BY <1>1, <1>5
      <4> QED  BY <4>1
    <3>3. \A x \in st.wanted : x < a
      BY <3>1, IdIs
    <3>4. ~ new.exhausted
      BY <1>5, <3>1
    <3> QED  BY <1>3, <1>5, <3>1, <3>2, <3>3, <3>4 DEF Comes
  <2> QED  BY <2>1, <2>2
<1> QED  BY <1>4, <1>6 DEF new

\* A head is taken that is not the asset.
LEMMA ComesPasses ==
    ASSUME NEW st \in Stream, NEW S, NEW a, Comes(st, S, a), st.buffer # << >>,
           a # Head(st.buffer)
    PROVE  Comes([st EXCEPT !.buffer = Tail(st.buffer)], S, a)
PROOF
<1> DEFINE new == [st EXCEPT !.buffer = Tail(st.buffer)]
<1>1. /\ new.buffer = Tail(st.buffer) /\ new.page = st.page /\ (new.exhausted => st.exhausted)
      /\ new.wanted = st.wanted /\ (new.scanning => st.scanning)
  BY DEF Stream
<1>2. ToSet(Tail(st.buffer)) \subseteq ToSet(st.buffer)
      /\ ToSet(st.buffer) \subseteq ToSet(Tail(st.buffer)) \cup {Head(st.buffer)}
  <2>1. st.buffer \in Seq(Codes)
    BY DEF Stream
  <2> QED  BY <2>1, TailSet
<1> HIDE DEF new
<1>3. Comes(new, S, a)
  BY <1>1, <1>2 DEF Comes
<1> QED  BY <1>3 DEF new

\* A page of several periods, of the assets L that were there when it began.
ReaderKeeps(rd, n) ==
    /\ Cardinality(rd.seen) = rd.skipped + Len(rd.rows)
    /\ rd.skipped <= (n - 1) * PageSize
    /\ rd.rows # << >> => rd.skipped = (n - 1) * PageSize
    /\ Len(rd.rows) <= PageSize

ReaderMeets(rd, L, n) ==
    /\ \A a \in L, x \in rd.seen : a \in rd.seen \/ x < a
    /\ \A a \in L \cap rd.seen :
          a \in ToSet(rd.rows) \/ Cardinality(Below(L, Id, a)) < (n - 1) * PageSize

LeftFor(L) ==
    /\ atFirst \subseteq L
    /\ \A a \in atFirst :
          a \in ToSet(Walked) \/ Cardinality(Below(L, Id, a)) >= (PageNo - 1) * PageSize
    /\ \A p \in chosen : stream[p].counted = "empty" => L \cap Base[p] = {}
    /\ \A p \in chosen : \A a \in L \cap Base[p] :
          a \in reader.seen \/ Comes(stream[p], Base[p], a)
    /\ ReaderMeets(reader, L, PageNo)

MergeMeets ==
    /\ scanned /\ ReaderKeeps(reader, PageNo)
    /\ reader.seen \subseteq Shown
    /\ \A p \in chosen : KeptBuffer(stream[p], Base[p])
    /\ reader.at = "merge" => CountedPeriods = chosen
    /\ \E L \in SUBSET Shown : LeftFor(L)

SingleMeets ==
    /\ Single
    /\ \A p \in chosen : stream[p].scanning =>
          /\ stream[p].wanted \subseteq Base[p]
          /\ \A a \in atFirst : \/ a \in ToSet(Walked)
                                \/ ReachedBy(stream[p].wanted, Shown, Ranks, a, PageNo, PageSize)

\* Nothing that was there at the beginning falls behind the pages walked.
NothingLost ==
    /\ atFirst \subseteq Shown
    /\ \A a \in atFirst :
          a \in ToSet(Walked) \/ Cardinality(Below(Shown, Ranks, a)) >= Len(walked) * PageSize
    /\ LastIsShort => atFirst \subseteq ToSet(Walked)
    /\ reader.at \in {"totals", "merge"} => MergeMeets
    /\ reader.at = "single" => SingleMeets

Undeleted == (scanned \/ Single) /\ "delete" \notin ToSet(events)

HideInv ==
    /\ ListInv
    /\ ApartIn(listed)
    /\ Walked \in Seq(Codes)
    /\ Undeleted => StillThere /\ NothingLost

\* What is the same for as long as nobody inserts or deletes.
LEMMA SameHides ==
    ASSUME ListTypeOK, UNCHANGED << Base, chosen, scanned, walked, atFirst >>
    PROVE  /\ Ranks' = Ranks /\ Shown' = Shown /\ PageNo' = PageNo /\ Walked' = Walked
           /\ Single <=> Single'
           /\ LastIsShort <=> LastIsShort'
           /\ PageNo \in Nat \ {0} /\ PageNo - 1 = Len(walked) /\ Len(walked) \in Nat
           /\ (PageNo - 1) * PageSize \in Nat
           /\ Base \in [Periods -> SUBSET Codes] /\ chosen \in SUBSET Periods
           /\ Shown \in SUBSET Codes
           /\ Ranks \in Ranking(Codes)
PROOF
<1>1. Ranks' = Ranks /\ Shown' = Shown /\ (Single <=> Single')
  BY SameList
<1>2. PageNo' = PageNo /\ Walked' = Walked /\ (LastIsShort <=> LastIsShort')
  BY DEF PageNo, Walked, LastIsShort
<1>3. Base \in [Periods -> SUBSET Codes] /\ chosen \in SUBSET Periods
      /\ Len(walked) \in Nat
  BY BaseTyped DEF ListTypeOK
<1>4. Shown \in SUBSET Codes
  BY <1>3 DEF Shown
<1>5. PageNo \in Nat \ {0} /\ PageNo - 1 = Len(walked)
  <2>1. PICK n \in Nat : n = Len(walked)
    BY <1>3
  <2>2. n + 1 \in Nat \ {0} /\ (n + 1) - 1 = n
    OBVIOUS
  <2> QED  BY <2>1, <2>2 DEF PageNo
<1>6. (PageNo - 1) * PageSize \in Nat
  BY <1>5, OneTimeMore
<1>7. Ranks \in Ranking(Codes)
  BY RanksTell
<1> QED  BY <1>1, <1>2, <1>3, <1>4, <1>5, <1>6, <1>7

\* A page of several periods goes on.
LEMMA MergeHides ==
    ASSUME ListTypeOK, NothingLost, UNCHANGED << Base, chosen, scanned, walked, atFirst >>,
           MergeMeets', reader'.at \in {"totals", "merge"}
    PROVE  NothingLost'
PROOF
<1>1. Ranks' = Ranks /\ Shown' = Shown /\ Walked' = Walked /\ (LastIsShort <=> LastIsShort')
  BY SameHides
<1> QED  BY <1>1 DEF NothingLost

LEMMA AskHides ==
    ASSUME ListTypeOK, NothingLost, Undeleted, AskPage
    PROVE  NothingLost'
PROOF
<1>1. UNCHANGED << Base, chosen, scanned, walked, atFirst >>
  BY DEF AskPage, Base
<1>2. /\ Ranks' = Ranks /\ Shown' = Shown /\ PageNo' = PageNo /\ Walked' = Walked
      /\ Single <=> Single'
      /\ LastIsShort <=> LastIsShort'
      /\ PageNo - 1 = Len(walked) /\ (PageNo - 1) * PageSize \in Nat
      /\ Base \in [Periods -> SUBSET Codes] /\ chosen \in SUBSET Periods
      /\ Shown \in SUBSET Codes
  BY <1>1, SameHides
<1>3. PICK at \in {"totals", "single"} :
          /\ reader' = [NoReader EXCEPT !.at = at]
          /\ at = "single" => Single
          /\ at = "totals" => ~ Single
  BY DEF AskPage
<1>4. /\ reader'.at = at /\ reader'.skipped = 0 /\ reader'.seen = {} /\ reader'.rows = << >>
  <2>1. NoReader \in Reader /\ NoReader.skipped = 0 /\ NoReader.seen = {}
        /\ NoReader.rows = << >>
    BY FreshWalk DEF NoReader
  <2> QED  BY <1>3, <2>1 DEF Reader
<1>5. \A p \in chosen : stream'[p] = NewStream
  BY <1>2 DEF AskPage
<1>6. NewStream.buffer = << >> /\ ToSet(NewStream.buffer) = {} /\ ~ NewStream.exhausted
      /\ NewStream.page = 1 /\ ~ NewStream.scanning /\ NewStream.counted = "no"
  BY DEF NewStream, ToSet
<1>7. CASE at = "totals"
  <2>1. scanned /\ Ranks = Id
    BY <1>3, <1>7 DEF Undeleted, Ranks, Id
  <2>2. ReaderKeeps(reader', PageNo')
    <3>1. Cardinality({}) = 0
      BY FS_EmptySet
    <3> QED  BY <1>2, <1>4, <3>1 DEF ReaderKeeps
  <2>3. \A p \in chosen : KeptBuffer(stream'[p], Base[p])
    BY <1>5, <1>6 DEF KeptBuffer
  <2>4. PICK L \in SUBSET Codes : L = Shown
    BY <1>2
  <2>5. \A p \in chosen : \A a \in L \cap Base[p] : Comes(stream'[p], Base[p], a)
    <3> SUFFICES ASSUME NEW p \in chosen, NEW a \in L \cap Base[p]
                 PROVE  Comes(stream'[p], Base[p], a)
      OBVIOUS
    <3>1. Base[p] \in SUBSET Codes
      BY <1>2
    <3>2. PICK c \in Nat : c = Cardinality(Below(Base[p], Id, a))
      BY <3>1, BelowIn
    <3>3. (1 - 1) * ChunkSize = 0
      OBVIOUS
    <3>4. Cardinality(Below(Base[p], Id, a)) >= (NewStream.page - 1) * ChunkSize
      BY <1>6, <3>2, <3>3
    <3> QED  BY <1>5, <1>6, <3>4 DEF Comes
  <2>6. ReaderMeets(reader', L, PageNo')
    BY <1>4 DEF ReaderMeets
  <2>7. \A a \in atFirst : a \in ToSet(Walked)
                           \/ Cardinality(Below(L, Id, a)) >= (PageNo - 1) * PageSize
    BY <1>2, <2>1, <2>4 DEF NothingLost
  <2>8. atFirst \subseteq L
    BY <2>4 DEF NothingLost
  <2>9. \A p \in chosen : stream'[p].counted # "empty"
    BY <1>5, <1>6
  <2>10. LeftFor(L)'
    BY <1>1, <1>2, <2>5, <2>6, <2>7, <2>8, <2>9 DEF LeftFor
  <2>11. MergeMeets'
    BY <1>1, <1>2, <1>4, <1>7, <2>1, <2>2, <2>3, <2>4, <2>10 DEF MergeMeets
  <2> QED  BY <1>1, <1>4, <1>7, <2>11, MergeHides
<1>8. CASE at = "single"
  <2>1. SingleMeets'
    <3>1. Single' /\ \A p \in chosen' : ~ stream'[p].scanning
      BY <1>1, <1>2, <1>3, <1>5, <1>6, <1>8
    <3> QED  BY <3>1 DEF SingleMeets
  <2> QED  BY <1>1, <1>2, <1>4, <1>8, <2>1 DEF NothingLost
<1> QED  BY <1>7, <1>8

LEMMA CountHides ==
    ASSUME ListTypeOK, NothingLost, NEW p \in chosen, CountPeriod(p)
    PROVE  NothingLost'
PROOF
<1>1. UNCHANGED << Base, chosen, scanned, walked, atFirst >> /\ reader.at = "totals"
  BY BaseStays, ChosenPeriod DEF CountPeriod
<1>2. /\ Shown' = Shown /\ PageNo' = PageNo /\ Walked' = Walked
      /\ Base \in [Periods -> SUBSET Codes] /\ chosen \in SUBSET Periods
      /\ p \in Periods /\ stream \in [Periods -> Stream] /\ reader \in Reader
  BY <1>1, SameHides DEF ListTypeOK
<1>3. PICK c \in {"empty", "open"} :
          /\ stream' = [stream EXCEPT ![p].counted = c]
          /\ c = "empty" => Base[p] = {}
  BY DEF CountPeriod
<1>4. /\ stream'[p] = [stream[p] EXCEPT !.counted = c]
      /\ \A q \in chosen : q # p => stream'[q] = stream[q]
      /\ stream'[p].counted = c
  <2> DEFINE st == [stream[p] EXCEPT !.counted = c]
  <2>1. stream' = [stream EXCEPT ![p] = st]
    BY <1>3
  <2>2. st.counted = c
    BY <1>2 DEF Stream
  <2> HIDE DEF st
  <2>3. stream'[p] = st /\ \A q \in chosen : q # p => stream'[q] = stream[q]
    BY <1>2, <2>1
  <2> QED  BY <2>2, <2>3 DEF st
<1>5. PICK at \in {"totals", "merge"} :
          /\ reader' = [reader EXCEPT !.total = reader.total + Cardinality(Base[p]), !.at = at]
          /\ at = "merge" => \A q \in chosen \ {p} : stream[q].counted # "no"
  <2> DEFINE at == IF \A q \in chosen \ {p} : stream[q].counted # "no" THEN "merge"
                   ELSE reader.at
  <2>1. /\ at \in {"totals", "merge"}
        /\ reader' = [reader EXCEPT !.total = reader.total + Cardinality(Base[p]), !.at = at]
        /\ at = "merge" => \A q \in chosen \ {p} : stream[q].counted # "no"
    BY <1>1 DEF CountPeriod
  <2> QED  BY <2>1
<1>6. reader'.at = at /\ reader'.skipped = reader.skipped
      /\ reader'.rows = reader.rows /\ reader'.seen = reader.seen
  BY <1>2, <1>5 DEF Reader
<1>7. MergeMeets
  BY <1>1 DEF NothingLost
<1>8. PICK L \in SUBSET Shown : LeftFor(L)
  BY <1>7 DEF MergeMeets
<1>9. ASSUME NEW q \in chosen
      PROVE  /\ stream'[q].counted = "empty" => L \cap Base[q] = {}
             /\ \A a \in L \cap Base[q] : a \in reader.seen \/ Comes(stream'[q], Base[q], a)
             /\ KeptBuffer(stream'[q], Base[q])
  <2>1. /\ stream[q].counted = "empty" => L \cap Base[q] = {}
        /\ \A a \in L \cap Base[q] : a \in reader.seen \/ Comes(stream[q], Base[q], a)
        /\ KeptBuffer(stream[q], Base[q])
    BY <1>7, <1>8 DEF LeftFor, MergeMeets
  <2>2. CASE q # p
    BY <1>4, <2>1, <2>2
  <2>3. CASE q = p
    <3>1. stream[p] \in Stream
      BY <1>2
    <3>2. ASSUME NEW a \in Base[p], Comes(stream[p], Base[p], a)
          PROVE  Comes(stream'[p], Base[p], a)
      <4>1. PICK st \in Stream : st = stream[p]
        BY <3>1
      <4>2. PICK S : S = Base[p]
        OBVIOUS
      <4>3. Comes(st, S, a)
        BY <3>2, <4>1, <4>2
      <4>4. Comes([st EXCEPT !.counted = c], S, a)
        BY <4>3, ComesCounted
      <4>5. stream'[p] = [st EXCEPT !.counted = c]
        BY <1>4, <4>1
      <4> QED  BY <4>2, <4>4, <4>5
    <3>3. KeptBuffer(stream'[p], Base[p])
      BY <1>4, <2>1, <2>3, <3>1 DEF KeptBuffer, Stream
    <3> QED  BY <1>3, <1>4, <2>1, <2>3, <3>2, <3>3
  <2> QED  BY <2>2, <2>3
<1>10. ReaderMeets(reader', L, PageNo') /\ ReaderKeeps(reader', PageNo')
  BY <1>2, <1>6, <1>7, <1>8 DEF LeftFor, MergeMeets, ReaderMeets, ReaderKeeps
<1>11. LeftFor(L)'
  BY <1>1, <1>2, <1>6, <1>8, <1>9, <1>10 DEF LeftFor
<1>12. reader'.at = "merge" => CountedPeriods' = chosen'
  <2> SUFFICES ASSUME at = "merge"  PROVE \A q \in chosen : stream'[q].counted # "no"
    BY <1>1, <1>6 DEF CountedPeriods
  <2>1. c # "no"
    OBVIOUS
  <2> SUFFICES ASSUME NEW q \in chosen  PROVE stream'[q].counted # "no"
    OBVIOUS
  <2>2. CASE q = p
    BY <1>4, <2>1, <2>2
  <2>3. CASE q # p
    BY <1>4, <1>5, <2>3
  <2> QED  BY <2>2, <2>3
<1>13. MergeMeets'
  BY <1>1, <1>2, <1>6, <1>7, <1>8, <1>9, <1>10, <1>11, <1>12 DEF MergeMeets
<1> QED  BY <1>1, <1>5, <1>6, <1>13, MergeHides

\* One stream of a merge moves on.
LEMMA StreamHides ==
    ASSUME ListTypeOK, NothingLost, reader.at = "merge", NEW p \in chosen, NEW st \in Stream,
           stream' = [stream EXCEPT ![p] = st], st.counted = stream[p].counted,
           UNCHANGED << Base, chosen, scanned, reader, walked, atFirst >>,
           KeptBuffer(st, Base[p]),
           \A a \in Base[p] : Comes(stream[p], Base[p], a) => Comes(st, Base[p], a)
    PROVE  NothingLost'
PROOF
<1>1. /\ Shown' = Shown /\ PageNo' = PageNo /\ Walked' = Walked
      /\ p \in Periods /\ stream \in [Periods -> Stream] /\ chosen \in SUBSET Periods
  BY SameHides DEF ListTypeOK
<1>2. stream'[p] = st /\ \A q \in chosen : q # p => stream'[q] = stream[q]
  BY <1>1
<1>3. MergeMeets
  BY DEF NothingLost
<1>4. PICK L \in SUBSET Shown : LeftFor(L)
  BY <1>3 DEF MergeMeets
<1>5. ASSUME NEW q \in chosen
      PROVE  /\ stream'[q].counted = "empty" => L \cap Base[q] = {}
             /\ \A a \in L \cap Base[q] : a \in reader.seen \/ Comes(stream'[q], Base[q], a)
             /\ KeptBuffer(stream'[q], Base[q])
  <2>1. /\ stream[q].counted = "empty" => L \cap Base[q] = {}
        /\ \A a \in L \cap Base[q] : a \in reader.seen \/ Comes(stream[q], Base[q], a)
        /\ KeptBuffer(stream[q], Base[q])
    BY <1>3, <1>4 DEF LeftFor, MergeMeets
  <2>2. CASE q # p
    BY <1>2, <2>1, <2>2
  <2>3. CASE q = p
    BY <1>2, <2>1, <2>3
  <2> QED  BY <2>2, <2>3
<1>6. LeftFor(L)'
  BY <1>1, <1>4, <1>5 DEF LeftFor
<1>7. CountedPeriods' = CountedPeriods
  BY <1>2 DEF CountedPeriods
<1>8. MergeMeets'
  BY <1>1, <1>3, <1>5, <1>6, <1>7 DEF MergeMeets
<1> QED  BY <1>8, MergeHides

LEMMA ScanHides ==
    ASSUME ListTypeOK, NothingLost, NEW p \in chosen, RefillScan(p)
    PROVE  NothingLost'
PROOF
<1>1. /\ p \in Periods /\ stream[p] \in Stream /\ reader.at = "merge"
      /\ stream[p].page \in Nat \ {0} /\ stream[p].buffer = << >> /\ scanned
      /\ UNCHANGED << Base, chosen, scanned, reader, walked, atFirst >>
      /\ Base[p] \in SUBSET Codes
  BY ChosenPeriod, BaseStays, BaseTyped DEF NeedsHead, Stream, RefillScan, ScanIds
<1>2. Ranks = Id
  BY <1>1 DEF Ranks, Id
<1>3. PICK w : w = ToSet(Chunk(p, stream[p].page, ChunkSize))
  OBVIOUS
<1>4. w \in SUBSET Base[p] /\ w = ToSet(Sliced(InOrder(Base[p], Id), stream[p].page, ChunkSize))
  <2>1. w \in SUBSET Base[p]
    BY <1>1, <1>3, ChunkRows DEF IsPart
  <2>2. Chunk(p, stream[p].page, ChunkSize) = Sliced(Rows(p), stream[p].page, ChunkSize)
    BY <1>1, ChunkIs
  <2> QED  BY <1>2, <1>3, <2>1, <2>2 DEF Rows
<1> DEFINE st == [stream[p] EXCEPT !.scanning = TRUE, !.wanted = w]
<1>5. st \in Stream /\ st.counted = stream[p].counted /\ st.buffer = stream[p].buffer
      /\ st.wanted = w
  <2>1. w \in SUBSET Codes
    BY <1>1, <1>4
  <2> QED  BY <1>1, <2>1 DEF Stream
<1>6. stream' = [stream EXCEPT ![p] = st]
  BY <1>1, <1>3 DEF RefillScan, ScanIds, ListTypeOK
<1>7. ASSUME NEW a \in Base[p], Comes(stream[p], Base[p], a)
      PROVE  Comes(st, Base[p], a)
  <2>1. PICK S \in SUBSET Codes : S = Base[p]
    BY <1>1
  <2>2. PICK old \in Stream : old = stream[p]
    BY <1>1
  <2>3. Comes([old EXCEPT !.scanning = TRUE, !.wanted = w], S, a)
    BY <1>1, <1>4, <1>7, <2>1, <2>2, ComesScans
  <2> QED  BY <2>1, <2>2, <2>3
<1> HIDE DEF st
<1>8. KeptBuffer(st, Base[p])
  <2>1. MergeMeets
    BY <1>1 DEF NothingLost
  <2>2. KeptBuffer(stream[p], Base[p])
    BY <2>1 DEF MergeMeets
  <2> QED  BY <1>4, <1>5, <2>2 DEF KeptBuffer
<1> QED  BY <1>1, <1>5, <1>6, <1>7, <1>8, StreamHides

LEMMA FetchHides ==
    ASSUME ListTypeOK, StillThere, NothingLost, NEW p \in chosen, RefillFetch(p)
    PROVE  NothingLost'
PROOF
<1>1. /\ p \in Periods /\ stream[p] \in Stream /\ reader.at = "merge"
      /\ stream[p].page \in Nat \ {0} /\ stream[p].buffer = << >> /\ stream[p].scanning
      /\ UNCHANGED << Base, chosen, scanned, reader, walked, atFirst >>
      /\ Base[p] \in SUBSET Codes /\ Refilled(p, RowsById(p)) /\ Base[p] \subseteq listed[p]
  BY ChosenPeriod, BaseStays, BaseTyped DEF NeedsHead, Stream, RefillFetch, StillThere
<1>2. MergeMeets
  BY <1>1 DEF NothingLost
<1>3. Ranks = Id /\ KeptBuffer(stream[p], Base[p])
  BY <1>2 DEF MergeMeets, Ranks, Id
<1>4. PICK w \in SUBSET Codes : w = stream[p].wanted /\ w \subseteq Base[p]
  BY <1>1, <1>3 DEF KeptBuffer
<1>5. PICK rows : rows = InOrder(w, Id)
  OBVIOUS
<1>6. RowsById(p) = rows
  <2>1. stream[p].wanted \cap listed[p] = w
    BY <1>1, <1>4
  <2> QED  BY <1>3, <1>5, <2>1 DEF RowsById
<1>7. /\ rows \in Seq(Codes) /\ ToSet(rows) = w
      /\ \A i, j \in 1..Len(rows) : i < j => rows[i] < rows[j]
  <2>1. PICK r \in Ranking(w) : r = Id
    BY <1>4, IdIs
  <2>2. /\ InOrder(w, r) \in Seq(w) /\ ToSet(InOrder(w, r)) = w
        /\ Increasing(InOrder(w, r), r)
    BY InOrderRows, InOrderSorted
  <2>3. rows \in Seq(w) /\ ToSet(rows) = w /\ Increasing(rows, Id)
    BY <1>5, <2>1, <2>2
  <2>4. rows \in Seq(Codes) /\ \A i \in 1..Len(rows) : rows[i] \in w
    BY <2>3
  <2>5. \A a \in w : Id[a] = a
    BY <1>4, IdIs
  <2> QED  BY <2>3, <2>4, <2>5 DEF Increasing
<1> DEFINE old == stream[p]
           nil == [old EXCEPT !.exhausted = TRUE, !.scanning = FALSE, !.wanted = {}]
           more == [old EXCEPT !.buffer = rows, !.page = old.page + 1, !.scanning = FALSE,
                               !.wanted = {}, !.exhausted = Len(rows) < ChunkSize]
           st == IF rows = << >> THEN nil ELSE more
<1>8. stream' = [stream EXCEPT ![p] = st]
  BY <1>1, <1>6 DEF Refilled
<1>9. nil \in Stream /\ nil.counted = old.counted /\ nil.buffer = << >> /\ ~ nil.scanning
  BY <1>1 DEF Stream
<1>10. more \in Stream /\ more.counted = old.counted /\ more.buffer = rows /\ ~ more.scanning
  <2>1. old.page + 1 \in Nat \ {0} /\ (Len(rows) < ChunkSize) \in BOOLEAN
    BY <1>1
  <2> QED  BY <1>1, <1>7, <2>1 DEF Stream
<1>11. ASSUME NEW a \in Base[p], Comes(stream[p], Base[p], a)
       PROVE  rows # << >> /\ Comes(more, Base[p], a)
  <2>1. PICK S \in SUBSET Codes : S = Base[p]
    BY <1>1
  <2>2. PICK s \in Stream : s = stream[p]
    BY <1>1
  <2>3. /\ rows # << >>
        /\ Comes([s EXCEPT !.buffer = rows, !.page = s.page + 1, !.scanning = FALSE,
                           !.wanted = {}, !.exhausted = Len(rows) < ChunkSize], S, a)
    BY <1>1, <1>4, <1>5, <1>11, <2>1, <2>2, ComesFetched
  <2> QED  BY <2>1, <2>2, <2>3
<1> HIDE DEF nil, more
<1>12. KeptBuffer(nil, Base[p]) /\ KeptBuffer(more, Base[p])
  <2>1. ToSet(nil.buffer) = {} /\ Len(nil.buffer) = 0
    BY <1>9 DEF ToSet
  <2> QED  BY <1>4, <1>7, <1>9, <1>10, <2>1 DEF KeptBuffer
<1>13. st \in Stream /\ st.counted = stream[p].counted /\ KeptBuffer(st, Base[p])
  BY <1>9, <1>10, <1>12
<1>14. \A a \in Base[p] : Comes(stream[p], Base[p], a) => Comes(st, Base[p], a)
  BY <1>11
<1> HIDE DEF st
<1> QED  BY <1>1, <1>8, <1>13, <1>14, StreamHides

LEMMA KeptPasses ==
    ASSUME NEW st \in Stream, NEW S, KeptBuffer(st, S), st.buffer # << >>
    PROVE  KeptBuffer([st EXCEPT !.buffer = Tail(st.buffer)], S)
PROOF
<1> DEFINE new == [st EXCEPT !.buffer = Tail(st.buffer)]
<1>1. new.buffer = Tail(st.buffer) /\ new.wanted = st.wanted /\ (new.scanning => st.scanning)
  BY DEF Stream
<1>2. PICK s \in Seq(Codes) : s = st.buffer
  BY DEF Stream
<1>3. ToSet(Tail(s)) \subseteq ToSet(s)
  BY <1>2, TailSet
<1>4. \A i, j \in 1..Len(Tail(s)) : i < j => Tail(s)[i] < Tail(s)[j]
  <2> SUFFICES ASSUME NEW i \in 1..Len(Tail(s)), NEW j \in 1..Len(Tail(s)), i < j
               PROVE  Tail(s)[i] < Tail(s)[j]
    OBVIOUS
  <2>1. s # << >> /\ Len(s) \in Nat /\ Len(Tail(s)) = Len(s) - 1
    BY <1>2
  <2>2. i + 1 \in 1..Len(s) /\ j + 1 \in 1..Len(s) /\ i + 1 < j + 1
    BY <2>1
  <2>3. Tail(s)[i] = s[i + 1] /\ Tail(s)[j] = s[j + 1]
    BY <2>1
  <2>4. s[i + 1] < s[j + 1]
    BY <1>2, <2>2 DEF KeptBuffer
  <2> QED  BY <2>3, <2>4
<1> HIDE DEF new
<1>5. KeptBuffer(new, S)
  BY <1>1, <1>2, <1>3, <1>4 DEF KeptBuffer
<1> QED  BY <1>5 DEF new

LEMMA AppendSet ==
    ASSUME NEW T, NEW s \in Seq(T), NEW a \in T
    PROVE  ToSet(s) \subseteq ToSet(Append(s, a)) /\ a \in ToSet(Append(s, a))
PROOF
<1>1. PICK t \in Seq(T) : t = Append(s, a)
  BY AppendRows
<1>2. PICK n \in Nat : n = Len(s)
  OBVIOUS
<1>3. Len(t) = n + 1 /\ t[n + 1] = a /\ \A i \in 1..n : t[i] = s[i]
  BY <1>1, <1>2, AppendRows
<1>4. ToSet(s) = {s[i] : i \in 1..n} /\ ToSet(t) = {t[i] : i \in 1..n + 1}
  BY <1>2, <1>3, SeqOfItsSet
<1>5. n + 1 \in 1..n + 1 /\ \A i \in 1..n : i \in 1..n + 1
  OBVIOUS
<1> QED  BY <1>1, <1>3, <1>4, <1>5

\* The smallest asset left is taken.
LEMMA ReaderMeetsNext ==
    ASSUME NEW L \in SUBSET Codes, NEW n \in Nat \ {0}, NEW rd \in Reader,
           ReaderKeeps(rd, n), ReaderMeets(rd, L, n), Len(rd.rows) < PageSize,
           NEW a \in Codes, a \notin rd.seen,
           \A b \in L : b \in rd.seen \/ b = a \/ a < b,
           NEW new, new = IF rd.skipped < (n - 1) * PageSize
                          THEN [rd EXCEPT !.seen = rd.seen \cup {a}, !.skipped = rd.skipped + 1]
                          ELSE [rd EXCEPT !.seen = rd.seen \cup {a}, !.rows = Append(rd.rows, a)]
    PROVE  ReaderKeeps(new, n) /\ ReaderMeets(new, L, n)
PROOF
<1>1. PICK c \in Nat : c = (n - 1) * PageSize
  BY OneTimeMore
<1>2. /\ rd.skipped \in Nat /\ rd.rows \in Seq(Codes) /\ Len(rd.rows) \in Nat
      /\ rd.seen \in SUBSET Codes
  BY DEF Reader
<1>3. PICK k \in Nat : k = rd.skipped
  BY <1>2
<1>4. PICK d \in Nat : d = Len(rd.rows)
  BY <1>2
<1>5. IsFiniteSet(rd.seen) /\ Cardinality(rd.seen) = k + d
      /\ Cardinality(rd.seen \cup {a}) = k + d + 1
  <2>1. IsFiniteSet(rd.seen)
    BY <1>2, CodesFinite
  <2>2. Cardinality(rd.seen \cup {a}) = Cardinality(rd.seen) + 1
    <3>1. PICK S : S = rd.seen
      OBVIOUS
    <3>2. IsFiniteSet(S) /\ a \notin S
      BY <2>1, <3>1
    <3>3. Cardinality(S \cup {a}) = Cardinality(S) + 1
      BY <3>2, FS_AddElement
    <3> QED  BY <3>1, <3>3
  <2>3. Cardinality(rd.seen) = k + d
    BY <1>3, <1>4 DEF ReaderKeeps
  <2> QED  BY <2>1, <2>2, <2>3
<1>6. k <= c /\ (rd.rows # << >> => k = c) /\ d < PageSize
  BY <1>1, <1>3, <1>4 DEF ReaderKeeps
<1>7. new.seen = rd.seen \cup {a}
  BY DEF Reader
<1>8. \A b \in L, x \in new.seen : b \in new.seen \/ x < b
  BY <1>7 DEF ReaderMeets
<1>9. CASE k < c
  <2>1. new.skipped = k + 1 /\ new.rows = rd.rows
    BY <1>1, <1>3, <1>9 DEF Reader
  <2>2. rd.rows = << >> /\ d = 0
    BY <1>4, <1>6, <1>9
  <2>3. ReaderKeeps(new, n)
    <3>1. Cardinality(new.seen) = new.skipped + Len(new.rows) /\ new.skipped <= c
          /\ Len(new.rows) <= PageSize /\ new.rows = << >>
      BY <1>4, <1>5, <1>6, <1>7, <1>9, <2>1, <2>2
    <3> QED  BY <1>1, <3>1 DEF ReaderKeeps
  <2>4. Cardinality(Below(L, Id, a)) < c
    <3>1. Below(L, Id, a) \subseteq rd.seen
      <4> SUFFICES ASSUME NEW b \in Below(L, Id, a)  PROVE b \in rd.seen
        OBVIOUS
      <4>1. b \in L /\ b \in Codes /\ Id[b] < Id[a]
        BY DEF Below
      <4>2. Id[b] = b /\ b \in Nat /\ Id[a] = a /\ a \in Nat
        BY <4>1, IdOf
      <4>3. b # a /\ ~ (a < b)
        BY <4>1, <4>2
      <4> QED  BY <4>1, <4>3
    <3>2. Cardinality(Below(L, Id, a)) <= Cardinality(rd.seen)
          /\ Cardinality(Below(L, Id, a)) \in Nat
      BY <1>5, <3>1, FS_Subset, FS_CardinalityType
    <3> QED  BY <1>5, <1>9, <2>2, <3>2
  <2>5. ReaderMeets(new, L, n)
    BY <1>1, <1>7, <1>8, <2>1, <2>4 DEF ReaderMeets
  <2> QED  BY <2>3, <2>5
<1>10. CASE ~ (k < c)
  <2>1. new.skipped = k /\ new.rows = Append(rd.rows, a)
    BY <1>1, <1>3, <1>10 DEF Reader
  <2>2. Len(new.rows) = d + 1
    BY <1>2, <1>4, <2>1, AppendRows
  <2>3. ReaderKeeps(new, n)
    <3>1. k = c /\ c <= c /\ d + 1 <= PageSize
      BY <1>6, <1>10
    <3>2. new.skipped = c /\ Len(new.rows) <= PageSize /\ new.skipped <= c
      BY <2>1, <2>2, <3>1
    <3>3. Cardinality(new.seen) = new.skipped + Len(new.rows)
      <4>1. Cardinality(new.seen) = k + d + 1 /\ k + d + 1 = k + (d + 1)
        BY <1>5, <1>7
      <4> QED  BY <2>1, <2>2, <4>1
    <3> QED  BY <1>1, <3>2, <3>3 DEF ReaderKeeps
  <2>4. ToSet(rd.rows) \subseteq ToSet(new.rows) /\ a \in ToSet(new.rows)
    BY <1>2, <2>1, AppendSet
  <2>5. ReaderMeets(new, L, n)
    BY <1>7, <1>8, <2>4 DEF ReaderMeets
  <2> QED  BY <2>3, <2>5
<1> QED  BY <1>9, <1>10

\* The head that leads is before every asset the reader has not seen.
LEMMA HeadIsNextOf ==
    ASSUME ListTypeOK, MergeMeets, reader.at = "merge", Len(reader.rows) < PageSize, Ready,
           NEW p \in Heads, Leads(p), NEW L \in SUBSET Shown, LeftFor(L),
           NEW a \in Codes, a = Head(stream[p].buffer), NEW b \in L
    PROVE  b \in reader.seen \/ b = a \/ a < b
PROOF
<1>1. PICK q \in chosen : b \in Base[q]
  BY DEF Shown
<1>2. q \in Periods /\ stream[q] \in Stream /\ Base[q] \in SUBSET Codes
  BY ChosenPeriod, BaseTyped
<1>3. PICK s \in Seq(Codes) : s = stream[q].buffer
  BY <1>2 DEF Stream
<1>4. b \in Codes /\ a \in Nat /\ b \in Nat
  BY <1>1, <1>2 DEF Codes
<1> SUFFICES ASSUME b \notin reader.seen  PROVE a <= b
  BY <1>4
<1>5. Comes(stream[q], Base[q], b)
  BY <1>1 DEF LeftFor
<1>6. \A i, j \in 1..Len(s) : i < j => s[i] < s[j]
  BY <1>3 DEF MergeMeets, KeptBuffer
<1>7. s # << >> => a <= Head(s)
  BY <1>3 DEF Leads, Heads
<1>8. s # << >> => Head(s) = s[1] /\ 1 \in 1..Len(s) /\ s[1] \in Nat /\ s[1] \in ToSet(s)
  <2> SUFFICES ASSUME s # << >>
               PROVE Head(s) = s[1] /\ 1 \in 1..Len(s) /\ s[1] \in Nat /\ s[1] \in ToSet(s)
    OBVIOUS
  <2>1. Len(s) \in Nat /\ Len(s) # 0
    OBVIOUS
  <2>2. 1 \in 1..Len(s) /\ Head(s) = s[1]
    BY <2>1
  <2>3. s[1] \in Codes
    BY <2>2
  <2> QED  BY <2>2, <2>3, TailSet DEF Codes
<1>9. CASE b \in ToSet(s)
  <2>0. ToSet(s) = {s[i] : i \in 1..Len(s)}
    BY SeqOfItsSet
  <2>1. PICK i \in 1..Len(s) : b = s[i]
    BY <1>9, <2>0
  <2>2. s # << >>
    BY <2>1
  <2>3. ASSUME i # 1  PROVE s[1] < s[i]
    <3>1. i \in Nat /\ 1 <= i
      OBVIOUS
    <3>2. 1 < i
      BY <2>3, <3>1
    <3>3. 1 \in 1..Len(s) /\ i \in 1..Len(s)
      BY <1>8, <2>2
    <3> QED  BY <1>6, <3>2, <3>3
  <2> QED  BY <1>4, <1>7, <1>8, <2>1, <2>2, <2>3
<1>10. CASE b \notin ToSet(s)
  <2>1. ~ stream[q].exhausted /\ \A x \in ToSet(s) : x < b
    BY <1>3, <1>5, <1>10 DEF Comes
  <2>2. stream[q].counted = "open"
    <3>1. stream[q].counted # "empty"
      BY <1>1 DEF LeftFor
    <3>2. stream[q].counted # "no"
      BY <1>1 DEF MergeMeets, CountedPeriods
    <3> QED  BY <1>2, <3>1, <3>2 DEF Stream
  <2>3. s # << >>
    BY <1>3, <2>1, <2>2 DEF Ready, NeedsHead
  <2>4. a <= s[1] /\ s[1] < b /\ s[1] \in Nat
    BY <1>7, <1>8, <2>1, <2>3
  <2> QED  BY <1>4, <2>4
<1> QED  BY <1>9, <1>10

LEMMA TakeHides ==
    ASSUME ListTypeOK, NothingLost, TakeHead
    PROVE  NothingLost'
PROOF
<1>1. UNCHANGED << Base, chosen, scanned, walked, atFirst >> /\ reader.at = "merge"
      /\ Len(reader.rows) < PageSize /\ Ready
  BY DEF TakeHead, Base
<1>2. /\ Shown' = Shown /\ PageNo' = PageNo /\ Walked' = Walked /\ PageNo \in Nat \ {0}
      /\ Base \in [Periods -> SUBSET Codes] /\ chosen \in SUBSET Periods
      /\ Shown \in SUBSET Codes
  BY <1>1, SameHides
<1>3. MergeMeets
  BY <1>1 DEF NothingLost
<1>4. PICK L \in SUBSET Shown : LeftFor(L)
  BY <1>3 DEF MergeMeets
<1>5. PICK p \in Heads :
          LET a == Head(stream[p].buffer) IN
          /\ Leads(p)
          /\ stream' = [stream EXCEPT ![p].buffer = Tail(@)]
          /\ reader' =
                IF a \in reader.seen THEN reader
                ELSE IF reader.skipped < (PageNo - 1) * PageSize
                THEN [reader EXCEPT !.seen = @ \cup {a}, !.skipped = @ + 1]
                ELSE [reader EXCEPT !.seen = @ \cup {a}, !.rows = Append(@, a)]
  BY DEF TakeHead
<1>6. p \in chosen /\ p \in Periods /\ stream[p] \in Stream /\ stream[p].buffer # << >>
      /\ stream[p].buffer \in Seq(Codes) /\ stream \in [Periods -> Stream]
      /\ reader \in Reader
  BY <1>5, ChosenPeriod DEF ListTypeOK, Heads, Stream
<1>7. PICK a \in Codes : a = Head(stream[p].buffer)
  BY <1>6
<1>8. a \in Base[p] /\ a \in Shown
  <2>1. a \in ToSet(stream[p].buffer)
    BY <1>6, <1>7, TailSet
  <2>2. KeptBuffer(stream[p], Base[p])
    BY <1>3, <1>6 DEF MergeMeets
  <2> QED  BY <1>6, <2>1, <2>2 DEF KeptBuffer, Shown
<1>9. /\ ReaderKeeps(reader', PageNo) /\ ReaderMeets(reader', L, PageNo)
      /\ reader'.seen = reader.seen \cup {a} /\ reader'.at = "merge"
  <2>1. ReaderKeeps(reader, PageNo) /\ ReaderMeets(reader, L, PageNo)
    BY <1>3, <1>4 DEF MergeMeets, LeftFor
  <2>2. CASE a \in reader.seen
    <3>1. reader' = reader
      BY <1>5, <1>7, <2>2
    <3>2. reader.seen \cup {a} = reader.seen
      BY <2>2
    <3> QED  BY <1>1, <2>1, <3>1, <3>2
  <2>3. CASE a \notin reader.seen
    <3>1. PICK rd \in Reader : rd = reader
      BY <1>6
    <3>2. PICK n \in Nat \ {0} : n = PageNo
      BY <1>2
    <3>3. \A b \in L : b \in rd.seen \/ b = a \/ a < b
      BY <1>1, <1>3, <1>4, <1>5, <1>7, <3>1, HeadIsNextOf
    <3>4. PICK new : new = IF rd.skipped < (n - 1) * PageSize
                  THEN [rd EXCEPT !.seen = rd.seen \cup {a}, !.skipped = rd.skipped + 1]
                  ELSE [rd EXCEPT !.seen = rd.seen \cup {a}, !.rows = Append(rd.rows, a)]
      OBVIOUS
    <3>5. reader' = new
      BY <1>5, <1>7, <2>3, <3>1, <3>2, <3>4
    <3>6. ReaderKeeps(rd, n) /\ ReaderMeets(rd, L, n) /\ Len(rd.rows) < PageSize
          /\ L \in SUBSET Codes /\ a \notin rd.seen
      BY <1>1, <1>2, <2>1, <2>3, <3>1, <3>2
    <3>7. ReaderKeeps(new, n) /\ ReaderMeets(new, L, n)
      BY <3>3, <3>4, <3>6, ReaderMeetsNext
    <3>8. new.seen = rd.seen \cup {a} /\ new.at = rd.at
      BY <3>4 DEF Reader
    <3> QED  BY <1>1, <3>1, <3>2, <3>5, <3>7, <3>8
  <2> QED  BY <2>2, <2>3
<1>10. PICK old \in Stream : old = stream[p]
  BY <1>6
<1> DEFINE st == [old EXCEPT !.buffer = Tail(old.buffer)]
<1>11. stream' = [stream EXCEPT ![p] = st] /\ st.counted = stream[p].counted
  BY <1>5, <1>6, <1>10 DEF Stream
<1>12. KeptBuffer(st, Base[p])
  <2>1. KeptBuffer(old, Base[p]) /\ old.buffer # << >>
    BY <1>3, <1>6, <1>10 DEF MergeMeets
  <2> QED  BY <2>1, KeptPasses
<1>13. ASSUME NEW b \in Base[p], Comes(old, Base[p], b), b # a
       PROVE  Comes(st, Base[p], b)
  <2>1. PICK S : S = Base[p]
    OBVIOUS
  <2>2. Comes(old, S, b) /\ old.buffer # << >> /\ b # Head(old.buffer)
    BY <1>6, <1>7, <1>10, <1>13, <2>1
  <2>3. Comes([old EXCEPT !.buffer = Tail(old.buffer)], S, b)
    BY <2>2, ComesPasses
  <2> QED  BY <2>1, <2>3
<1> HIDE DEF st
<1>14. stream'[p] = st /\ \A q \in chosen : q # p => stream'[q] = stream[q]
  BY <1>2, <1>6, <1>11
<1>15. ASSUME NEW q \in chosen
       PROVE  /\ stream'[q].counted = stream[q].counted
              /\ KeptBuffer(stream'[q], Base[q])
              /\ \A b \in L \cap Base[q] : \/ b \in reader'.seen
                                             \/ Comes(stream'[q], Base[q], b)
  <2>1. KeptBuffer(stream[q], Base[q])
        /\ \A b \in L \cap Base[q] : b \in reader.seen \/ Comes(stream[q], Base[q], b)
    BY <1>3, <1>4 DEF MergeMeets, LeftFor
  <2>2. CASE q = p
    BY <1>9, <1>10, <1>11, <1>12, <1>13, <1>14, <2>1, <2>2
  <2>3. CASE q # p
    BY <1>9, <1>14, <2>1, <2>3
  <2> QED  BY <2>2, <2>3
<1>16. LeftFor(L)'
  BY <1>1, <1>2, <1>4, <1>9, <1>15 DEF LeftFor
<1>17. CountedPeriods' = CountedPeriods
  BY <1>1, <1>15 DEF CountedPeriods
<1>18. reader'.seen \subseteq Shown'
  BY <1>2, <1>3, <1>8, <1>9 DEF MergeMeets
<1>19. MergeMeets'
  BY <1>1, <1>2, <1>3, <1>9, <1>15, <1>16, <1>17, <1>18 DEF MergeMeets
<1> QED  BY <1>1, <1>9, <1>19, MergeHides

\* The page is shown: what was there at the beginning has been shown, or is behind
\* a page that is full.
LEMMA PageHides ==
    ASSUME ListTypeOK, NothingLost, Walked \in Seq(Codes),
           UNCHANGED << Base, chosen, scanned, atFirst >>,
           NEW rows \in Seq(Codes), NEW total, ShowPage(rows, total),
           \A a \in atFirst :
               \/ a \in ToSet(Walked) \/ a \in ToSet(rows)
               \/ /\ Len(rows) >= PageSize
                  /\ Cardinality(Below(Shown, Ranks, a)) >= PageNo * PageSize
    PROVE  NothingLost'
PROOF
<1>1. /\ Walked' = Walked \o rows /\ Len(walked') = Len(walked) + 1
      /\ LastIsShort' <=> Len(rows) < PageSize
      /\ reader'.at = "idle"
  BY ShownMore
<1>2. Ranks' = Ranks /\ Shown' = Shown
  BY SameList
<1>3. ToSet(Walked) \subseteq ToSet(Walked') /\ ToSet(rows) \subseteq ToSet(Walked')
  <2>1. PICK v \in Seq(Codes) : v = Walked
    OBVIOUS
  <2>2. ToSet(v) \subseteq ToSet(v \o rows) /\ ToSet(rows) \subseteq ToSet(v \o rows)
    BY JoinedSet
  <2> QED  BY <1>1, <2>1, <2>2
<1>4. PageNo = Len(walked')
  BY <1>1 DEF PageNo
<1>5. ASSUME NEW a \in atFirst
      PROVE  \/ a \in ToSet(Walked')
             \/ Cardinality(Below(Shown, Ranks, a)) >= Len(walked') * PageSize
  BY <1>3, <1>4
<1>6. ASSUME LastIsShort'
      PROVE  atFirst \subseteq ToSet(Walked')
  <2>1. ~ (Len(rows) >= PageSize)
    <3>1. PICK d \in Nat : d = Len(rows)
      OBVIOUS
    <3> QED  BY <1>1, <1>6, <3>1
  <2> QED  BY <1>3, <2>1
<1>7. atFirst \subseteq Shown
  BY DEF NothingLost
<1> QED  BY <1>1, <1>2, <1>5, <1>6, <1>7 DEF NothingLost

LEMMA EndHides ==
    ASSUME ListTypeOK, NothingLost, Walked \in Seq(Codes), EndMerge
    PROVE  NothingLost'
PROOF
<1>1. /\ UNCHANGED << Base, chosen, scanned, atFirst >> /\ reader.at = "merge"
      /\ ShowPage(reader.rows, reader.total)
      /\ Len(reader.rows) = PageSize \/ (Ready /\ Heads = {})
  BY DEF EndMerge, Base
<1>2. MergeMeets
  BY <1>1 DEF NothingLost
<1>3. PICK L \in SUBSET Shown : LeftFor(L)
  BY <1>2 DEF MergeMeets
<1>4. /\ Base \in [Periods -> SUBSET Codes] /\ chosen \in SUBSET Periods
      /\ Shown \in SUBSET Codes /\ reader \in Reader
      /\ reader.rows \in Seq(Codes) /\ reader.seen \in SUBSET Codes
      /\ Len(walked) \in Nat
  BY BaseTyped DEF ListTypeOK, Shown, Reader
<1>5. PageNo \in Nat \ {0}
  <2>1. PICK n \in Nat : n = Len(walked)
    BY <1>4
  <2>2. n + 1 \in Nat \ {0}
    OBVIOUS
  <2> QED  BY <2>1, <2>2 DEF PageNo
<1>6. PICK n \in Nat \ {0} : n = PageNo
  BY <1>5
<1>7. PICK c \in Nat : c = (n - 1) * PageSize /\ n * PageSize = c + PageSize
  BY OneTimeMore
<1>8. Ranks = Id
  BY <1>2 DEF MergeMeets, Ranks, Id
<1>9. ASSUME NEW a \in atFirst, a \notin ToSet(Walked), a \notin ToSet(reader.rows)
      PROVE  /\ Len(reader.rows) >= PageSize
             /\ Cardinality(Below(Shown, Ranks, a)) >= PageNo * PageSize
  <2>1. a \in L /\ a \in Shown /\ Cardinality(Below(L, Id, a)) >= c
    BY <1>3, <1>6, <1>7, <1>9 DEF LeftFor
  <2>2. a \notin reader.seen
    <3> SUFFICES ASSUME a \in reader.seen  PROVE FALSE
      OBVIOUS
    <3>1. Cardinality(Below(L, Id, a)) < c
      BY <1>3, <1>6, <1>7, <1>9, <2>1 DEF LeftFor, ReaderMeets
    <3>2. PICK l \in Nat : l = Cardinality(Below(L, Id, a))
      <4>1. L \in SUBSET Codes
        BY <1>4
      <4> QED  BY <4>1, BelowIn
    <3> QED  BY <2>1, <3>1, <3>2
  <2>3. PICK q \in chosen : a \in Base[q]
    BY <2>1 DEF Shown
  <2>4. Comes(stream[q], Base[q], a) /\ stream[q].counted # "empty"
    BY <1>3, <2>1, <2>2, <2>3 DEF LeftFor
  <2>5. Len(reader.rows) = PageSize
    <3> SUFFICES ASSUME Ready, Heads = {}, Len(reader.rows) # PageSize  PROVE FALSE
      BY <1>1
    <3>1. Len(reader.rows) < PageSize
      <4>0. Len(reader.rows) \in Nat
        BY <1>4
      <4>1. PICK d \in Nat : d = Len(reader.rows)
        BY <4>0
      <4>2. d <= PageSize
        BY <1>2, <4>1 DEF MergeMeets, ReaderKeeps
      <4> QED  BY <4>1, <4>2
    <3>2. stream[q].buffer = << >> /\ ToSet(stream[q].buffer) = {}
      BY DEF Heads, ToSet
    <3>3. ~ stream[q].exhausted
      BY <2>4, <3>2 DEF Comes
    <3>4. stream[q].counted = "open"
      <4>1. stream[q] \in Stream
        BY ChosenPeriod
      <4>2. stream[q].counted # "no"
        BY <1>1, <1>2 DEF MergeMeets, CountedPeriods
      <4> QED  BY <2>4, <4>1, <4>2 DEF Stream
    <3> QED  BY <1>1, <3>1, <3>2, <3>3, <3>4 DEF Ready, NeedsHead
  <2>6. Cardinality(reader.seen) = n * PageSize
    <3>1. reader.rows # << >>
      BY <2>5
    <3>2. reader.skipped = c
      BY <1>2, <1>6, <1>7, <3>1 DEF MergeMeets, ReaderKeeps
    <3>3. Cardinality(reader.seen) = reader.skipped + Len(reader.rows)
      BY <1>2 DEF MergeMeets, ReaderKeeps
    <3> QED  BY <1>7, <2>5, <3>2, <3>3
  <2>7. reader.seen \subseteq Below(Shown, Ranks, a)
    <3> SUFFICES ASSUME NEW x \in reader.seen  PROVE x \in Below(Shown, Ranks, a)
      OBVIOUS
    <3>1. x < a
      BY <1>3, <2>1, <2>2 DEF LeftFor, ReaderMeets
    <3>2. x \in Shown
      BY <1>2 DEF MergeMeets
    <3>3. Id[x] = x /\ Id[a] = a
      BY <1>4, <2>1, <3>2, IdIs
    <3> QED  BY <1>8, <3>1, <3>2, <3>3 DEF Below
  <2>8. Cardinality(reader.seen) <= Cardinality(Below(Shown, Ranks, a))
    <3>1. Below(Shown, Ranks, a) \in SUBSET Codes
      BY <1>4 DEF Below
    <3>2. IsFiniteSet(Below(Shown, Ranks, a))
      BY <3>1, CodesFinite
    <3>3. PICK B : B = Below(Shown, Ranks, a)
      OBVIOUS
    <3> QED  BY <2>7, <3>2, <3>3, FS_Subset
  <2>9. PICK l \in Nat : l = Cardinality(Below(Shown, Ranks, a))
    BY <1>4, BelowIn
  <2> QED  BY <1>6, <1>7, <2>5, <2>6, <2>8, <2>9
<1>10. PICK rows \in Seq(Codes) : rows = reader.rows
  BY <1>4
<1>11. PICK total : total = reader.total
  OBVIOUS
<1>12. /\ ShowPage(rows, total)
       /\ \A a \in atFirst :
             \/ a \in ToSet(Walked) \/ a \in ToSet(rows)
             \/ /\ Len(rows) >= PageSize
                /\ Cardinality(Below(Shown, Ranks, a)) >= PageNo * PageSize
  BY <1>1, <1>9, <1>10, <1>11
<1> QED  BY <1>1, <1>12, PageHides

\* The part of a single period that is asked for.
LEMMA SingleReaches ==
    ASSUME ListTypeOK, ApartIn(Base), NothingLost, Single, NEW p \in chosen,
           NEW w, w = ToSet(Chunk(p, PageNo, PageSize))
    PROVE  /\ w \in SUBSET Base[p]
           /\ \A a \in atFirst :
                 a \in ToSet(Walked) \/ ReachedBy(w, Shown, Ranks, a, PageNo, PageSize)
PROOF
<1>1. p \in Periods /\ PageNo \in Nat \ {0} /\ PageNo - 1 = Len(walked)
      /\ Base[p] \in SUBSET Codes /\ Shown = Base[p]
  BY ChosenPeriod, ListFacts, SingleFacts
<1>2. PICK n \in Nat \ {0} : n = PageNo
  BY <1>1
<1>3. PICK size \in Nat \ {0} : size = PageSize
  OBVIOUS
<1>4. PICK S \in SUBSET Codes : S = Base[p]
  BY <1>1
<1>5. PICK r \in Ranking(S) : r = Ranks
  BY RanksTell
<1>6. /\ Chunk(p, n, size) = Sliced(Rows(p), n, size)
      /\ IsPart(Chunk(p, n, size), Base[p], Ranks)
  BY <1>1, ChunkIs, ChunkRows
<1>7. w = ToSet(Sliced(InOrder(S, r), n, size)) /\ w \in SUBSET S
  BY <1>2, <1>3, <1>4, <1>5, <1>6 DEF Rows, IsPart
<1>8. ASSUME NEW a \in atFirst, a \notin ToSet(Walked)
      PROVE  ReachedBy(w, Shown, Ranks, a, PageNo, PageSize)
  <2>1. a \in S /\ Cardinality(Below(Shown, Ranks, a)) >= Len(walked) * PageSize
    BY <1>1, <1>4, <1>8 DEF NothingLost
  <2>2. Cardinality(Below(S, r, a)) >= (n - 1) * size
    BY <1>1, <1>2, <1>3, <1>4, <1>5, <2>1
  <2>3. ReachedBy(ToSet(Sliced(InOrder(S, r), n, size)), S, r, a, n, size)
    BY <2>1, <2>2, PartReaches
  <2> QED  BY <1>1, <1>2, <1>3, <1>4, <1>5, <1>7, <2>3
<1> QED  BY <1>4, <1>7, <1>8

\* The rows of that part are the page.
LEMMA SingleShown ==
    ASSUME ListTypeOK, NothingLost, Walked \in Seq(Codes),
           UNCHANGED << Base, chosen, scanned, atFirst >>,
           NEW rows \in Seq(Codes), NEW total, ShowPage(rows, total),
           NEW w, w = ToSet(rows), Len(rows) = Cardinality(w),
           \A a \in atFirst :
               a \in ToSet(Walked) \/ ReachedBy(w, Shown, Ranks, a, PageNo, PageSize)
    PROVE  NothingLost'
PROOF
<1>1. ASSUME NEW a \in atFirst
      PROVE  \/ a \in ToSet(Walked) \/ a \in ToSet(rows)
             \/ /\ Len(rows) >= PageSize
                /\ Cardinality(Below(Shown, Ranks, a)) >= PageNo * PageSize
  <2> SUFFICES ASSUME a \notin ToSet(Walked), a \notin w
               PROVE  /\ Len(rows) >= PageSize
                      /\ Cardinality(Below(Shown, Ranks, a)) >= PageNo * PageSize
    OBVIOUS
  <2>1. /\ Cardinality(Below(Shown, Ranks, a)) >= PageNo * PageSize
        /\ Len(rows) = PageSize
    BY DEF ReachedBy
  <2> QED  BY <2>1
<1> QED  BY <1>1, PageHides

LEMMA SingleHides ==
    ASSUME ListTypeOK, ApartIn(Base), StillThere, NothingLost, Walked \in Seq(Codes),
           NEW p \in chosen, SingleStep(p)
    PROVE  NothingLost'
PROOF
<1>0. /\ UNCHANGED << listed, chosen, scanned, atFirst >> /\ reader.at = "single"
      /\ Scanned(p) \/ UNCHANGED scans
  BY DEF SingleStep, SinglePage, SingleScan, SingleFetch
<1>1. UNCHANGED << Base, chosen, scanned, atFirst >> /\ reader.at = "single"
  BY <1>0, BaseStays, ChosenPeriod
<1>2. SingleMeets /\ Single
  BY <1>1 DEF NothingLost, SingleMeets
<1>3. /\ p \in Periods /\ chosen = {p} /\ Shown = Base[p] /\ PageNo \in Nat \ {0}
      /\ Base[p] \in SUBSET Codes /\ stream \in [Periods -> Stream] /\ stream[p] \in Stream
      /\ reader \in Reader
  BY <1>2, ChosenPeriod, SingleFacts, ListFacts, BaseTyped DEF ListTypeOK
<1>4. PICK w : w = ToSet(Chunk(p, PageNo, PageSize))
  OBVIOUS
<1>5. /\ w \in SUBSET Base[p]
      /\ \A a \in atFirst :
            a \in ToSet(Walked) \/ ReachedBy(w, Shown, Ranks, a, PageNo, PageSize)
  BY <1>2, <1>4, SingleReaches
<1>6. CASE SinglePage(p)
  <2>1. /\ Chunk(p, PageNo, PageSize) \in Seq(Codes)
        /\ Len(Chunk(p, PageNo, PageSize)) = Cardinality(w)
    <3>1. PICK n \in Nat \ {0} : n = PageNo
      BY <1>3
    <3>2. PICK size \in Nat \ {0} : size = PageSize
      OBVIOUS
    <3>3. IsPart(Chunk(p, n, size), Base[p], Ranks)
      BY <1>3, ChunkRows
    <3> QED  BY <1>4, <3>1, <3>2, <3>3 DEF IsPart
  <2>2. PICK rows \in Seq(Codes) : rows = Chunk(p, PageNo, PageSize)
    BY <2>1
  <2>3. PICK total : total = Cardinality(Base[p])
    OBVIOUS
  <2>4. ShowPage(rows, total)
    BY <1>6, <2>2, <2>3 DEF SinglePage
  <2>5. w = ToSet(rows) /\ Len(rows) = Cardinality(w)
    BY <1>4, <2>1, <2>2
  <2> QED  BY <1>1, <1>5, <2>4, <2>5, SingleShown
<1>7. CASE SingleFetch(p)
  <2>1. PICK v \in SUBSET Codes : v = stream[p].wanted
    BY <1>3 DEF Stream
  <2>2. /\ v \subseteq Base[p]
        /\ \A a \in atFirst :
              a \in ToSet(Walked) \/ ReachedBy(v, Shown, Ranks, a, PageNo, PageSize)
    BY <1>2, <1>7, <2>1 DEF SingleMeets, SingleFetch
  <2>3. PICK r \in Ranking(v) : r = Ranks
    BY RanksTell
  <2>4. RowsById(p) = InOrder(v, r)
    <3>1. stream[p].wanted \cap listed[p] = v
      BY <1>3, <2>1, <2>2 DEF StillThere
    <3> QED  BY <2>3, <3>1 DEF RowsById
  <2>5. InOrder(v, r) \in Seq(v) /\ Len(InOrder(v, r)) = Cardinality(v)
        /\ ToSet(InOrder(v, r)) = v
    BY InOrderRows, InOrderSorted
  <2>6. PICK rows \in Seq(Codes) : rows = InOrder(v, r)
    BY <2>5
  <2>7. PICK total : total = reader.total
    OBVIOUS
  <2>8. ShowPage(rows, total)
    BY <1>7, <2>4, <2>6, <2>7 DEF SingleFetch
  <2>9. v = ToSet(rows) /\ Len(rows) = Cardinality(v)
    BY <2>5, <2>6
  <2> QED  BY <1>1, <2>2, <2>8, <2>9, SingleShown
<1>8. CASE SingleScan(p)
  <2>1. /\ reader' = [reader EXCEPT !.total = Cardinality(Base[p])]
        /\ stream' = [stream EXCEPT ![p].scanning = TRUE, ![p].wanted = w]
        /\ walked' = walked
    BY <1>4, <1>8 DEF SingleScan
  <2>2. reader'.at = "single"
    BY <1>1, <1>3, <2>1 DEF Reader
  <2>3. stream'[p].wanted = w
    BY <1>3, <2>1 DEF Stream
  <2>4. /\ Ranks' = Ranks /\ Shown' = Shown /\ PageNo' = PageNo /\ Walked' = Walked
        /\ Single <=> Single'
        /\ LastIsShort <=> LastIsShort'
    BY <1>1, <2>1, SameHides
  <2>5. SingleMeets'
    <3> SUFFICES ASSUME NEW q \in chosen'
                 PROVE  /\ stream'[q].wanted \subseteq Base'[q]
                        /\ \A a \in atFirst' :
                              \/ a \in ToSet(Walked')
                              \/ ReachedBy(stream'[q].wanted, Shown', Ranks', a, PageNo', PageSize)
      BY <1>2, <2>4 DEF SingleMeets
    <3>1. q = p
      BY <1>1, <1>3
    <3> QED  BY <1>1, <1>5, <2>3, <2>4, <3>1
  <2> QED  BY <1>1, <2>1, <2>2, <2>4, <2>5 DEF NothingLost
<1> QED  BY <1>6, <1>7, <1>8 DEF SingleStep

LEMMA ReachedLater ==
    ASSUME NEW S \in SUBSET Codes, NEW T \in SUBSET S, NEW rank, NEW a, NEW w,
           NEW n \in Nat \ {0}, NEW size \in Nat, ReachedBy(w, T, rank, a, n, size)
    PROVE  ReachedBy(w, S, rank, a, n, size)
PROOF
<1>1. PICK i \in Nat : i = Cardinality(Below(T, rank, a))
  BY BelowIn
<1>2. PICK j \in Nat : j = Cardinality(Below(S, rank, a))
  BY BelowIn
<1>3. PICK c \in Nat : c = n * size
  BY OneTimeMore
<1>4. i >= c => j >= c
  <2>1. i <= j
    BY <1>1, <1>2, BelowIn
  <2> QED  BY <2>1
<1>5. CASE a \in w
  BY <1>5 DEF ReachedBy
<1>6. CASE a \notin w
  <2>1. i >= c /\ Cardinality(w) = size /\ \A x \in w : rank[x] < rank[a]
    BY <1>1, <1>3, <1>6 DEF ReachedBy
  <2>2. j >= c
    BY <1>4, <2>1
  <2> QED  BY <1>2, <1>3, <2>1, <2>2 DEF ReachedBy
<1> QED  BY <1>5, <1>6

\* What the pages are cut from stays apart while it is still there.
LEMMA BaseApart ==
    ASSUME ListTypeOK, ApartIn(listed), StillThere
    PROVE  ApartIn(Base)
PROOF
<1> SUFFICES ASSUME NEW p \in Periods, NEW q \in Periods, p # q  PROVE Base[p] \cap Base[q] = {}
  BY DEF ApartIn
<1>1. Base[p] \subseteq listed[p] /\ Base[q] \subseteq listed[q] /\ listed[p] \cap listed[q] = {}
  BY DEF ApartIn, StillThere
<1> QED  BY <1>1

\* Assets that come, into the table or with a new scan, are none of those there were.
LEMMA GrowHides ==
    ASSUME ListTypeOK, NothingLost, ApartIn(Base'),
           UNCHANGED << chosen, scanned, stream, reader, walked, atFirst >>,
           \A q \in Periods : Base[q] \subseteq Base'[q] /\ Base'[q] \in SUBSET Codes
    PROVE  NothingLost'
PROOF
<1>1. UNCHANGED << chosen, scanned, stream, reader, walked, atFirst >>
  OBVIOUS
<1>2. chosen \in SUBSET Periods /\ stream \in [Periods -> Stream]
  BY DEF ListTypeOK
<1>3. \A q \in chosen : Base'[q] \in SUBSET Codes /\ Base[q] \in SUBSET Base'[q]
  BY <1>2
<1>4. ASSUME NEW q \in chosen  PROVE Shown \cap Base'[q] = Base[q]
  <2>1. ASSUME NEW c \in chosen, c # q  PROVE Base[c] \cap Base'[q] = {}
    <3>1. c \in Periods /\ q \in Periods
      BY <1>2
    <3>2. Base'[c] \cap Base'[q] = {}
      BY <2>1, <3>1 DEF ApartIn
    <3> QED  BY <1>3, <3>2
  <2>2. Base[q] \subseteq Shown /\ Base[q] \subseteq Base'[q]
    BY <1>3 DEF Shown
  <2>3. ASSUME NEW a \in Shown \cap Base'[q]  PROVE a \in Base[q]
    <3>1. PICK c \in chosen : a \in Base[c]
      BY DEF Shown
    <3> QED  BY <2>1, <3>1
  <2> QED  BY <2>2, <2>3
<1>5. Shown \in SUBSET Shown' /\ Shown' \in SUBSET Codes
  <2>1. Shown' = UNION {Base'[q] : q \in chosen}
    BY <1>1 DEF Shown
  <2>2. ASSUME NEW a \in Shown  PROVE a \in Shown'
    <3>1. PICK q \in chosen : a \in Base[q]
      BY DEF Shown
    <3>2. Base[q] \in SUBSET Base'[q]
      BY <1>3
    <3>3. a \in Base'[q]
      BY <3>1, <3>2
    <3> QED  BY <2>1, <3>3
  <2>3. ASSUME NEW a \in Shown'  PROVE a \in Codes
    <3>1. PICK q \in chosen : a \in Base'[q]
      BY <2>1
    <3> QED  BY <1>3, <3>1
  <2> QED  BY <2>2, <2>3
<1>6. /\ Ranks' = Ranks /\ PageNo' = PageNo /\ Walked' = Walked
      /\ Single <=> Single'
      /\ LastIsShort <=> LastIsShort'
      /\ CountedPeriods' = CountedPeriods
  BY <1>1 DEF Ranks, PageNo, Walked, Single, LastIsShort, CountedPeriods
<1>7. Len(walked) \in Nat /\ PageNo \in Nat \ {0}
  <2>1. PICK n \in Nat : n = Len(walked)
    BY DEF ListTypeOK
  <2>2. n + 1 \in Nat \ {0}
    OBVIOUS
  <2> QED  BY <2>1, <2>2 DEF PageNo
<1>8. ASSUME NEW a \in atFirst, a \notin ToSet(Walked)
      PROVE  Cardinality(Below(Shown', Ranks, a)) >= Len(walked) * PageSize
  <2>1. PICK S \in SUBSET Codes : S = Shown'
    BY <1>5
  <2>2. PICK T \in SUBSET S : T = Shown
    BY <1>5, <2>1
  <2>3. PICK r : r = Ranks
    OBVIOUS
  <2>4. PICK i \in Nat : i = Cardinality(Below(T, r, a))
    BY BelowIn
  <2>5. PICK j \in Nat : j = Cardinality(Below(S, r, a))
    BY BelowIn
  <2>6. i <= j
    BY <2>4, <2>5, BelowIn
  <2>7. PICK c \in Nat : c = Len(walked) * PageSize
    BY <1>7
  <2>8. i >= c
    BY <1>8, <2>2, <2>3, <2>4, <2>7 DEF NothingLost
  <2>9. j >= c
    BY <2>6, <2>8
  <2> QED  BY <2>1, <2>3, <2>5, <2>7, <2>9
<1>9. ASSUME MergeMeets  PROVE MergeMeets'
  <2>1. PICK L \in SUBSET Shown : LeftFor(L)
    BY <1>9 DEF MergeMeets
  <2>2. ASSUME NEW q \in chosen
        PROVE  /\ KeptBuffer(stream[q], Base'[q])
               /\ L \cap Base'[q] = L \cap Base[q]
               /\ \A a \in L \cap Base[q] :
                     a \in reader.seen \/ Comes(stream[q], Base'[q], a)
    <3>1. KeptBuffer(stream[q], Base'[q])
      BY <1>3, <1>9 DEF MergeMeets, KeptBuffer
    <3>2. L \cap Base'[q] = L \cap Base[q]
      BY <1>4
    <3>3. ASSUME NEW a \in L \cap Base[q], a \notin reader.seen
          PROVE  Comes(stream[q], Base'[q], a)
      <4>1. PICK S \in SUBSET Codes : S = Base'[q]
        BY <1>3
      <4>2. PICK T \in SUBSET S : T = Base[q]
        BY <1>3, <4>1
      <4>3. PICK st \in Stream : st = stream[q]
        BY <1>2
      <4>4. Comes(st, T, a)
        BY <2>1, <3>3, <4>2, <4>3 DEF LeftFor
      <4>5. Comes(st, S, a)
        BY <4>4, ComesLater
      <4> QED  BY <4>1, <4>3, <4>5
    <3> QED  BY <3>1, <3>2, <3>3
  <2>3. LeftFor(L)'
    BY <1>1, <1>6, <2>1, <2>2 DEF LeftFor
  <2>4. L \in SUBSET Shown' /\ reader'.seen \subseteq Shown'
    BY <1>1, <1>5, <1>9 DEF MergeMeets
  <2> QED  BY <1>1, <1>6, <1>9, <2>2, <2>3, <2>4 DEF MergeMeets
<1>10. ASSUME SingleMeets  PROVE SingleMeets'
  <2>1. ASSUME NEW q \in chosen, stream[q].scanning
        PROVE  /\ stream[q].wanted \subseteq Base'[q]
               /\ \A a \in atFirst :
                     \/ a \in ToSet(Walked)
                     \/ ReachedBy(stream[q].wanted, Shown', Ranks, a, PageNo, PageSize)
    <3>1. stream[q].wanted \subseteq Base[q]
      BY <1>10, <2>1 DEF SingleMeets
    <3>2. ASSUME NEW a \in atFirst, a \notin ToSet(Walked)
          PROVE  ReachedBy(stream[q].wanted, Shown', Ranks, a, PageNo, PageSize)
      <4>1. PICK S \in SUBSET Codes : S = Shown'
        BY <1>5
      <4>2. PICK T \in SUBSET S : T = Shown
        BY <1>5, <4>1
      <4>3. PICK w : w = stream[q].wanted
        OBVIOUS
      <4>4. PICK r : r = Ranks
        OBVIOUS
      <4>5. PICK n \in Nat \ {0} : n = PageNo
        BY <1>7
      <4>6. PICK size \in Nat : size = PageSize
        OBVIOUS
      <4>7. ReachedBy(w, T, r, a, n, size)
        BY <1>10, <2>1, <3>2, <4>2, <4>3, <4>4, <4>5, <4>6 DEF SingleMeets
      <4>8. ReachedBy(w, S, r, a, n, size)
        BY <4>7, ReachedLater
      <4> QED  BY <4>1, <4>3, <4>4, <4>5, <4>6, <4>8
    <3> QED  BY <1>3, <3>1, <3>2
  <2> QED  BY <1>1, <1>6, <1>10, <2>1 DEF SingleMeets
<1>11. atFirst' \subseteq Shown'
  BY <1>1, <1>5 DEF NothingLost
<1> QED  BY <1>1, <1>6, <1>8, <1>9, <1>10, <1>11 DEF NothingLost

\* The same of a step that leaves the walk alone.
LEMMA BaseGrows ==
    ASSUME ListTypeOK, ListTypeOK', StillThere, NothingLost, ApartIn(listed'),
           UNCHANGED << chosen, scanned, stream, reader, walked, atFirst >>,
           \A q \in Periods : Base[q] \subseteq Base'[q] /\ Base'[q] \subseteq listed'[q]
    PROVE  StillThere' /\ NothingLost'
PROOF
<1>1. \A q \in Periods : Base'[q] \in SUBSET Codes
  BY DEF ListTypeOK
<1>2. ApartIn(Base')
  <2> SUFFICES ASSUME NEW p \in Periods, NEW q \in Periods, p # q
               PROVE  Base'[p] \cap Base'[q] = {}
    BY DEF ApartIn
  <2>1. listed'[p] \cap listed'[q] = {}
    BY DEF ApartIn
  <2> QED  BY <2>1
<1>3. NothingLost'
  BY <1>1, <1>2, GrowHides
<1> QED  BY <1>3 DEF StillThere

LEMMA HideInit == ListInit => HideInv
PROOF
<1> SUFFICES ASSUME ListInit  PROVE HideInv
  OBVIOUS
<1>1. ListInv /\ ListTypeOK /\ ApartIn(listed)
  BY ListInvInit DEF ListInv, ListInit, ApartIn
<1>0. Base = listed /\ StillThere /\ chosen \in SUBSET Periods
  BY <1>1, BaseAtFirst DEF StillThere, ListTypeOK
<1>2. /\ walked = << >> /\ reader.at = "idle" /\ Walked = << >> /\ Len(walked) = 0
      /\ atFirst = Shown
  BY <1>0 DEF ListInit, NoReader, Walked, FlattenSeq, Shown
<1>3. << >> \in Seq(Codes)
  OBVIOUS
<1>4. Shown \in SUBSET Codes
  BY <1>0, <1>1 DEF ListTypeOK, Shown
<1>5. ASSUME NEW a \in atFirst
      PROVE  Cardinality(Below(Shown, Ranks, a)) >= Len(walked) * PageSize
  <2>1. PICK i \in Nat : i = Cardinality(Below(Shown, Ranks, a))
    BY <1>4, BelowIn
  <2>2. 0 * PageSize = 0
    OBVIOUS
  <2> QED  BY <1>2, <2>1, <2>2
<1>6. ~ LastIsShort
  BY <1>2 DEF LastIsShort
<1>7. NothingLost
  BY <1>2, <1>5, <1>6 DEF NothingLost
<1> QED  BY <1>0, <1>1, <1>2, <1>3, <1>7 DEF HideInv

LEMMA HideStep == HideInv /\ [ListNext]_listVars => HideInv'
PROOF
<1> SUFFICES ASSUME HideInv, [ListNext]_listVars  PROVE HideInv'
  OBVIOUS
<1>1. /\ ListInv /\ ListTypeOK /\ ApartIn(listed) /\ ListInv' /\ ListTypeOK'
      /\ Walked \in Seq(Codes)
  BY ListInvStep DEF HideInv, ListInv
<1>2. CASE UNCHANGED listVars
  <2>0. /\ UNCHANGED << Base, chosen, scanned, stream, reader, walked, atFirst, events >>
        /\ UNCHANGED << listed >>
    BY <1>2 DEF listVars, Base
  <2>1. /\ UNCHANGED << Base, chosen, scanned, stream, reader, walked, atFirst, events >>
        /\ Shown' = Shown /\ PageNo' = PageNo /\ Walked' = Walked /\ Ranks' = Ranks
        /\ Single <=> Single'
        /\ LastIsShort <=> LastIsShort'
        /\ CountedPeriods' = CountedPeriods
    BY <1>1, <2>0, SameHides DEF CountedPeriods
  <2>2. ASSUME MergeMeets  PROVE MergeMeets'
    <3>1. PICK L \in SUBSET Shown : LeftFor(L)
      BY <2>2 DEF MergeMeets
    <3>2. LeftFor(L)'
      BY <2>1, <3>1 DEF LeftFor
    <3> QED  BY <2>1, <2>2, <3>2 DEF MergeMeets
  <2>3. SingleMeets => SingleMeets'
    BY <2>1 DEF SingleMeets
  <2>4. NothingLost => NothingLost'
    BY <2>1, <2>2, <2>3 DEF NothingLost
  <2>5. StillThere => StillThere'
    BY <2>0 DEF StillThere
  <2> QED  BY <1>1, <2>0, <2>1, <2>4, <2>5 DEF HideInv, Undeleted
<1>3. ASSUME NEW e \in {"insert", "delete"}, Happens(e)
      PROVE  /\ Undeleted' => Undeleted /\ e = "insert"
             /\ Walked' \in Seq(Codes)
  <2>1. PICK es \in Seq({"insert", "delete"}) : es = events
    BY <1>1 DEF ListTypeOK
  <2>2. ToSet(es) \subseteq ToSet(Append(es, e)) /\ e \in ToSet(Append(es, e))
    <3>1. PICK T : T = {"insert", "delete"}
      OBVIOUS
    <3>2. es \in Seq(T) /\ e \in T
      BY <3>1
    <3> QED  BY <3>2, AppendSet
  <2>3. ToSet(events) \subseteq ToSet(events') /\ e \in ToSet(events')
    BY <1>3, <2>1, <2>2 DEF Happens
  <2>4. UNCHANGED << scanned, chosen, walked >>
    BY <1>3 DEF Happens
  <2> QED  BY <1>1, <2>3, <2>4 DEF Undeleted, Single, Walked
<1>4. ASSUME NEW a \in Codes, NEW p \in chosen, InsertAsset(a, p)
      PROVE  HideInv'
  <2>1. p \in Periods /\ listed \in [Periods -> SUBSET Codes]
    BY <1>1, ChosenPeriod DEF ListTypeOK
  <2>2. ApartIn(listed')
    BY <1>1, <1>4, <2>1 DEF InsertAsset, ApartIn
  <2>3. Happens("insert")
    BY <1>4 DEF InsertAsset
  <2>4. Undeleted' => Undeleted /\ Walked' \in Seq(Codes)
    BY <1>3, <2>3
  <2>5. Walked' \in Seq(Codes)
    BY <1>3, <2>3
  <2>6. ASSUME Undeleted'  PROVE StillThere' /\ NothingLost'
    <3>1. StillThere /\ NothingLost
      BY <2>4, <2>6 DEF HideInv
    <3>2. UNCHANGED << scans, chosen, scanned, stream, reader, walked, atFirst >>
          /\ listed' = [listed EXCEPT ![p] = listed[p] \cup {a}]
      BY <1>4 DEF InsertAsset, Happens
    <3>3. \A q \in Periods : /\ listed[q] \subseteq listed'[q]
                             /\ Base[q] \subseteq Base'[q] /\ Base'[q] \subseteq listed'[q]
      <4> SUFFICES ASSUME NEW q \in Periods
                   PROVE  /\ listed[q] \subseteq listed'[q]
                          /\ Base[q] \subseteq Base'[q] /\ Base'[q] \subseteq listed'[q]
        OBVIOUS
      <4>1. listed[q] \subseteq listed'[q]
        BY <2>1, <3>2
      <4>2. Base[q] = (IF scans[q] = {} THEN listed[q] ELSE UNION scans[q])
            /\ Base'[q] = (IF scans[q] = {} THEN listed'[q] ELSE UNION scans[q])
        BY <3>2 DEF Base
      <4>3. Base[q] \subseteq listed[q]
        BY <3>1 DEF StillThere
      <4> QED  BY <4>1, <4>2, <4>3
    <3> QED  BY <1>1, <2>2, <3>1, <3>2, <3>3, BaseGrows
  <2> QED  BY <1>1, <2>2, <2>5, <2>6 DEF HideInv
<1>5. ASSUME NEW a \in Codes, NEW p \in chosen, DeleteAsset(a, p)
      PROVE  HideInv'
  <2>1. p \in Periods /\ listed \in [Periods -> SUBSET Codes]
    BY <1>1, ChosenPeriod DEF ListTypeOK
  <2>2. ApartIn(listed')
    BY <1>1, <1>5, <2>1 DEF DeleteAsset, ApartIn
  <2>3. Happens("delete")
    BY <1>5 DEF DeleteAsset
  <2>4. ~ Undeleted' /\ Walked' \in Seq(Codes)
    BY <1>3, <2>3
  <2> QED  BY <1>1, <2>2, <2>4 DEF HideInv
<1>13. ASSUME NEW p \in chosen, DropScan(p)
       PROVE  HideInv'
  <2>1. /\ p \in Periods /\ listed \in [Periods -> SUBSET Codes]
        /\ scans \in [Periods -> SUBSET SUBSET Codes]
    BY <1>1, ChosenPeriod DEF ListTypeOK
  <2>2. /\ UNCHANGED << listed, chosen, scanned, stream, reader, walked, atFirst, events >>
        /\ scans' = [scans EXCEPT ![p] = {}]
    BY <1>13 DEF DropScan
  <2>3. ASSUME Undeleted'  PROVE StillThere' /\ NothingLost'
    <3>1. StillThere /\ NothingLost
      BY <2>2, <2>3 DEF HideInv, Undeleted, Single
    <3>2. \A q \in Periods : Base[q] \subseteq Base'[q] /\ Base'[q] \subseteq listed'[q]
      <4> SUFFICES ASSUME NEW q \in Periods
                   PROVE  Base[q] \subseteq Base'[q] /\ Base'[q] \subseteq listed'[q]
        OBVIOUS
      <4>1. Base[q] \subseteq listed[q]
        BY <3>1 DEF StillThere
      <4>2. Base'[q] = (IF scans'[q] = {} THEN listed[q] ELSE UNION scans'[q])
        BY <2>2 DEF Base
      <4>3. CASE q = p
        BY <2>1, <2>2, <4>1, <4>2, <4>3
      <4>4. CASE q # p
        <5>1. scans'[q] = scans[q]
          BY <2>1, <2>2, <4>4
        <5>2. Base'[q] = Base[q]
          BY <4>2, <5>1 DEF Base
        <5> QED  BY <2>2, <4>1, <5>2
      <4> QED  BY <4>3, <4>4
    <3>3. ApartIn(listed')
      BY <1>1, <2>2
    <3> QED  BY <1>1, <2>2, <3>1, <3>2, <3>3, BaseGrows
  <2>4. Walked' \in Seq(Codes) /\ ApartIn(listed')
    BY <1>1, <2>2 DEF Walked
  <2> QED  BY <1>1, <2>3, <2>4 DEF HideInv
<1>6. ASSUME UNCHANGED << listed, chosen, scanned, events >>, Walked' \in Seq(Codes),
             NEW q \in Periods, Scanned(q) \/ UNCHANGED scans,
             ApartIn(Base) /\ StillThere /\ Undeleted /\ NothingLost => NothingLost'
      PROVE  HideInv'
  <2>1. Undeleted' => Undeleted
    BY <1>6 DEF Undeleted, Single
  <2>2. Base' = Base
    BY <1>1, <1>6, BaseStays
  <2>3. StillThere => ApartIn(Base) /\ StillThere'
    BY <1>1, <1>6, <2>2, BaseApart DEF StillThere
  <2> QED  BY <1>1, <1>6, <2>1, <2>3 DEF HideInv
<1>7. ASSUME UNCHANGED << listed, chosen, scanned, walked, events >>,
             NEW q \in Periods, Scanned(q) \/ UNCHANGED scans,
             ApartIn(Base) /\ StillThere /\ Undeleted /\ NothingLost => NothingLost'
      PROVE  HideInv'
  <2>1. Walked' = Walked
    BY <1>7 DEF Walked
  <2> QED  BY <1>1, <1>6, <1>7, <2>1
<1>0. 1 \in Periods
  BY DEF Periods
<1>8. CASE AskPage
  <2>1. UNCHANGED << listed, chosen, scanned, walked, events >> /\ UNCHANGED scans
    BY <1>8 DEF AskPage
  <2> QED  BY <1>0, <1>1, <1>7, <1>8, <2>1, AskHides
<1>9. CASE TakeHead
  <2>1. UNCHANGED << listed, chosen, scanned, walked, events >> /\ UNCHANGED scans
    BY <1>9 DEF TakeHead
  <2> QED  BY <1>0, <1>1, <1>7, <1>9, <2>1, TakeHides
<1>10. CASE EndMerge
  <2>1. UNCHANGED << listed, chosen, scanned, events >> /\ UNCHANGED scans
    BY <1>10 DEF EndMerge
  <2>2. Walked' \in Seq(Codes)
    <3>1. PICK rows \in Seq(Codes) : rows = reader.rows
      BY <1>1 DEF ListTypeOK, Reader
    <3>2. PICK total : total = reader.total
      OBVIOUS
    <3>3. ShowPage(rows, total)
      BY <1>10, <3>1, <3>2 DEF EndMerge
    <3> QED  BY <1>1, <3>3, ShownMore
  <2> QED  BY <1>0, <1>1, <1>6, <1>10, <2>1, <2>2, EndHides
<1>11. ASSUME NEW p \in chosen, MergeStep(p)  PROVE HideInv'
  <2>0. p \in Periods
    BY <1>1, ChosenPeriod
  <2>1. UNCHANGED << listed, chosen, scanned, walked, events >>
        /\ (Scanned(p) \/ UNCHANGED scans)
    BY <1>11 DEF MergeStep, CountPeriod, RefillStream, RefillScan, ScanIds, RefillFetch
  <2>2. ASSUME StillThere, Undeleted, NothingLost  PROVE NothingLost'
    <3>1. CASE CountPeriod(p)
      BY <1>1, <2>2, <3>1, CountHides
    <3>2. CASE RefillStream(p)
      BY <2>2, <3>2 DEF RefillStream, NeedsHead, NothingLost, MergeMeets
    <3>3. CASE RefillScan(p)
      BY <1>1, <2>2, <3>3, ScanHides
    <3>4. CASE RefillFetch(p)
      BY <1>1, <2>2, <3>4, FetchHides
    <3> QED  BY <1>11, <3>1, <3>2, <3>3, <3>4 DEF MergeStep
  <2> QED  BY <1>7, <2>0, <2>1, <2>2
<1>12. ASSUME NEW p \in chosen, SingleStep(p)  PROVE HideInv'
  <2>0. p \in Periods
    BY <1>1, ChosenPeriod
  <2>1. UNCHANGED << listed, chosen, scanned, events >> /\ (Scanned(p) \/ UNCHANGED scans)
    BY <1>12 DEF SingleStep, SinglePage, SingleScan, SingleFetch
  <2>2. Walked' \in Seq(Codes)
    <3>1. /\ p \in Periods /\ PageNo \in Nat \ {0}
          /\ walked \in Seq(Seq(Codes))
      BY <1>1, ChosenPeriod, SameHides DEF ListTypeOK, PageNo
    <3>2. CASE walked' = walked
      BY <1>1, <3>2 DEF Walked
    <3>3. ASSUME NEW rows \in Seq(Codes), NEW total, ShowPage(rows, total)
          PROVE  Walked' \in Seq(Codes)
      BY <1>1, <3>3, ShownMore
    <3>4. CASE SinglePage(p)
      <4>1. PICK n \in Nat \ {0} : n = PageNo
        BY <3>1
      <4>2. PICK size \in Nat \ {0} : size = PageSize
        OBVIOUS
      <4>3. Chunk(p, n, size) \in Seq(Codes)
        BY <1>1, <3>1, ChunkRows DEF IsPart
      <4>4. ShowPage(Chunk(p, n, size), Cardinality(Base[p]))
        BY <3>4, <4>1, <4>2 DEF SinglePage
      <4> QED  BY <3>3, <4>3, <4>4
    <3>5. CASE SingleFetch(p)
      BY <1>1, <3>1, <3>3, <3>5, RowsByIdTyped DEF SingleFetch
    <3> QED  BY <1>12, <3>2, <3>4, <3>5 DEF SingleStep, SingleScan
  <2> QED  BY <1>1, <1>6, <1>12, <2>0, <2>1, <2>2, SingleHides
<1> QED
  BY <1>2, <1>4, <1>5, <1>8, <1>9, <1>10, <1>11, <1>12, <1>13 DEF ListNext

LEMMA HideMeans == HideInv => InsertsHideNothing
BY DEF HideInv, NothingLost, Undeleted, InsertsHideNothing

\* Who walks to a page that is not full has seen every asset the pages were to be cut from
\* at first, whatever others insert and whenever a scan that was kept is dropped, if nothing
\* was deleted, where the rows of one period are paged or all are sorted as the browser does.
THEOREM InsertsKeepAll == ListSpec => []InsertsHideNothing
BY HideInit, HideStep, HideMeans, PTL DEF ListSpec
===============================================================================
