----------------------------- MODULE CmapProofs ------------------------------
(***************************************************************************)
(* The hash map of cmap.c, for any number of keys, buckets and threads:    *)
(* called freely by threads (CmapClients), and by the threads of main      *)
(* (CmapMain, here as M).  What the operations do to the list of a bucket  *)
(* is proved first, without the threads.                                   *)
(***************************************************************************)
EXTENDS CmapClients, SequenceTheorems, FiniteSetTheorems, TLAPS

\* The prover of the leaves that name no other.
USE Zenon

-----------------------------------------------------------------------------
\* The lists.
MapNodes == [index : Nat, value : Nat, in_use : {0, 1}]

Where(l, S) == {n \in DOMAIN l : l[n] \in S}
Used(l, k) == {n \in DOMAIN l : l[n].in_use = 1 /\ l[n].index = k}
FreeIn(l) == {n \in DOMAIN l : l[n].in_use = 0}
Busy == {x \in MapNodes : x.in_use = 1}
KeysOf(b) == {k \in Keys : HashOf[k] = b}

\* The list l of bucket b holds the entries counted in s, and c of them.
Holds(s, c, l, b) ==
    /\ \A n \in DOMAIN l : l[n].in_use = 1 => l[n].index \in KeysOf(b) /\ l[n].value \in Values
    /\ \A k \in KeysOf(b), v \in Values : Cardinality(Where(l, {NodeFor(k, v)})) = s[k][v]
    /\ Cardinality(Where(l, Busy)) = c
    /\ Len(l) <= DATA_SIZE \/ Len(l) <= MaxEntries

LEMMA CmapFacts ==
  /\ Keys \subseteq Nat /\ IsFiniteSet(Keys) /\ BUCK_SIZE \in Nat \ {0}
  /\ DATA_SIZE \in Nat /\ HashOf \in [Keys -> Buckets]
  /\ Values \subseteq Nat /\ MaxEntries \in Nat
  /\ CallsAbsent \in BOOLEAN /\ None \notin Clients
<1>1. Values \subseteq Nat  BY CmapAssumption, CmapClientsAssumption, SMT
<1>2. QED  BY <1>1, CmapAssumption, CmapClientsAssumption

LEMMA ListFacts ==
  ASSUME NEW l \in Seq(MapNodes)
  PROVE  /\ Len(l) \in Nat /\ DOMAIN l = 1 .. Len(l)
         /\ IsFiniteSet(DOMAIN l) /\ Cardinality(DOMAIN l) = Len(l)
         /\ \A n \in DOMAIN l : l[n] \in MapNodes
         /\ \A S : IsFiniteSet(Where(l, S)) /\ Cardinality(Where(l, S)) \in Nat
<1>1. Len(l) \in Nat /\ DOMAIN l = 1 .. Len(l)  BY LenProperties
<1>2. \A n \in DOMAIN l : l[n] \in MapNodes  BY <1>1, ElementOfSeq
<1>3. IsFiniteSet(1 .. Len(l)) /\ Cardinality(1 .. Len(l)) = Len(l)
  <2>1. 1 \in Int /\ Len(l) \in Int  BY <1>1, SMT
  <2>2. /\ IsFiniteSet(1 .. Len(l))
        /\ Cardinality(1 .. Len(l)) = IF 1 > Len(l) THEN 0 ELSE Len(l) - 1 + 1
    BY <2>1, FS_Interval
  <2>3. QED  BY <1>1, <2>2, SMT
<1>4. ASSUME NEW S PROVE IsFiniteSet(Where(l, S)) /\ Cardinality(Where(l, S)) \in Nat
  <2>1. Where(l, S) \in SUBSET DOMAIN l  BY DEF Where
  <2>2. IsFiniteSet(Where(l, S))  BY <1>1, <1>3, <2>1, FS_Subset
  <2>3. QED  BY <2>2, FS_CardinalityType
<1>5. QED  BY <1>1, <1>2, <1>3, <1>4

\* A set of naturals has a least element, and Min is it.
LEMMA LeastNode ==
  ASSUME NEW S, S \subseteq Nat, S # {}
  PROVE  Min(S) \in S
<1> DEFINE R == {ss \in Nat \X Nat : ss[1] < ss[2]}
<1>1. IsWellFoundedOn(R, Nat)  BY NatLessThanWellFounded DEF OpToRel
<1>2. PICK x \in S : \A y \in S : ~(<<y, x>> \in R)  BY <1>1, WFMin
<1>3. ASSUME NEW y \in S PROVE x <= y
  <2>1. x \in Nat /\ y \in Nat  OBVIOUS
  <2>2. y < x => <<y, x>> \in R  BY <2>1
  <2>3. QED  BY <1>2, <2>1, <2>2, SMT
<1>4. QED  BY <1>3 DEF Min

\* The walk of cmap_get and cmap_del ends on a node of the key if there is one.
LEMMA WalkFinds ==
  ASSUME NEW l \in Seq(MapNodes), NEW k
  PROVE  /\ IF Used(l, k) = {} THEN Find(l, k) = 0 ELSE Find(l, k) \in Used(l, k)
         /\ 0 \notin Used(l, k)
<1>1. Used(l, k) \subseteq Nat /\ 0 \notin Used(l, k)  BY LenProperties, SMT DEF Used
<1>2. Find(l, k) = IF Used(l, k) # {} THEN Min(Used(l, k)) ELSE 0
  BY DEF Find, First, Used
<1>3. QED  BY <1>1, <1>2, LeastNode

\* The walk of cmap_set ends on a free node if there is one.
LEMMA FreeIsFound ==
  ASSUME NEW l \in Seq(MapNodes)
  PROVE  /\ IF FreeIn(l) = {} THEN FindFree(l) = 0 ELSE FindFree(l) \in FreeIn(l)
         /\ 0 \notin FreeIn(l)
<1>1. FreeIn(l) \subseteq Nat /\ 0 \notin FreeIn(l)  BY LenProperties, SMT DEF FreeIn
<1>2. FindFree(l) = IF FreeIn(l) # {} THEN Min(FreeIn(l)) ELSE 0
  BY DEF FindFree, First, FreeIn
<1>3. QED  BY <1>1, <1>2, LeastNode

\* cmap_set fills a free node, or adds one when there is none.
LEMMA SetShape ==
  ASSUME NEW l \in Seq(MapNodes), NEW k, NEW v
  PROVE  IF FreeIn(l) = {} THEN SetIn(l, k, v) = <<NodeFor(k, v)>> \o l
         ELSE \E f \in FreeIn(l) : SetIn(l, k, v) = [l EXCEPT ![f] = NodeFor(k, v)]
  BY FreeIsFound DEF SetIn, SetAt

\* How many nodes of a kind there are, when the node at p is written anew ...
Replaced(l, p, x, m) ==
    /\ m \in Seq(MapNodes) /\ Len(m) = Len(l) /\ DOMAIN m = DOMAIN l
    /\ m[p] = x /\ \A n \in DOMAIN l : n # p => m[n] = l[n]
    /\ \A S : Cardinality(Where(m, S)) = Cardinality(Where(l, S)) + (IF x \in S THEN 1 ELSE 0)
                                                                 - (IF l[p] \in S THEN 1 ELSE 0)
LEMMA ReplaceCount ==
  ASSUME NEW l \in Seq(MapNodes), NEW p \in DOMAIN l, NEW x \in MapNodes
  PROVE  Replaced(l, p, x, [l EXCEPT ![p] = x])
<1> DEFINE m == [l EXCEPT ![p] = x]
<1> SUFFICES ASSUME NEW S
             PROVE  /\ m \in Seq(MapNodes) /\ Len(m) = Len(l) /\ DOMAIN m = DOMAIN l
                    /\ m[p] = x /\ \A n \in DOMAIN l : n # p => m[n] = l[n]
                    /\ Cardinality(Where(m, S)) =
                         Cardinality(Where(l, S)) + (IF x \in S THEN 1 ELSE 0)
                                                  - (IF l[p] \in S THEN 1 ELSE 0)
  BY DEF Replaced
<1>1. /\ m \in Seq(MapNodes) /\ Len(m) = Len(l) /\ DOMAIN m = DOMAIN l
  BY SMT
<1>2. m[p] = x /\ \A n \in DOMAIN l : n # p => m[n] = l[n]
  BY ListFacts
<1> HIDE DEF m
<1> DEFINE L == Where(l, S) \ {p}
<1>3. /\ IsFiniteSet(Where(l, S)) /\ Cardinality(Where(l, S)) \in Nat  BY ListFacts
<1>4. /\ IsFiniteSet(L) /\ p \notin L
      /\ Cardinality(L) = IF p \in Where(l, S) THEN Cardinality(Where(l, S)) - 1
                                              ELSE Cardinality(Where(l, S))
  BY <1>3, FS_RemoveElement
<1>5. Where(m, S) = IF x \in S THEN L \union {p} ELSE L  BY <1>1, <1>2 DEF Where
<1>6. p \in Where(l, S) <=> l[p] \in S  BY DEF Where
<1> HIDE DEF L
<1>7. Cardinality(L \union {p}) = Cardinality(L) + 1  BY <1>4, FS_AddElement
<1>8. Cardinality(Where(m, S)) = IF x \in S THEN Cardinality(L) + 1 ELSE Cardinality(L)
  BY <1>5, <1>7
<1>9. Cardinality(Where(m, S)) = Cardinality(Where(l, S)) + (IF x \in S THEN 1 ELSE 0)
                                                         - (IF l[p] \in S THEN 1 ELSE 0)
  BY <1>3, <1>4, <1>6, <1>8, SMT
<1>10. QED  BY <1>1, <1>2, <1>9

\* ... and when one is added at the front.
Prepended(l, x, m) ==
    /\ m \in Seq(MapNodes) /\ Len(m) = Len(l) + 1 /\ m[1] = x
    /\ \A n \in DOMAIN m : n # 1 => n - 1 \in DOMAIN l /\ m[n] = l[n - 1]
    /\ \A S : Cardinality(Where(m, S)) = Cardinality(Where(l, S)) + (IF x \in S THEN 1 ELSE 0)
LEMMA FrontCount ==
  ASSUME NEW l \in Seq(MapNodes), NEW x \in MapNodes
  PROVE  Prepended(l, x, <<x>> \o l)
<1> DEFINE m == <<x>> \o l
<1> SUFFICES ASSUME NEW S
             PROVE  /\ m \in Seq(MapNodes) /\ Len(m) = Len(l) + 1 /\ m[1] = x
                    /\ \A n \in DOMAIN m : n # 1 => n - 1 \in DOMAIN l /\ m[n] = l[n - 1]
                    /\ Cardinality(Where(m, S)) =
                         Cardinality(Where(l, S)) + (IF x \in S THEN 1 ELSE 0)
  BY DEF Prepended
<1>1. Len(l) \in Nat /\ DOMAIN l = 1 .. Len(l)  BY ListFacts
<1>2. m \in Seq(MapNodes) /\ Len(m) = Len(l) + 1 /\ m[1] = x  BY <1>1, SMT
<1>3. DOMAIN m = 1 .. Len(l) + 1  BY <1>2, LenProperties
<1>4. \A n \in 2 .. Len(l) + 1 : m[n] = l[n - 1]  BY <1>1, <1>2, SMT
<1>5. \A n \in DOMAIN m : n # 1 => n - 1 \in DOMAIN l /\ m[n] = l[n - 1]
  BY <1>1, <1>3, <1>4, SMT
<1> HIDE DEF m
<1>6. \A n \in DOMAIN l : n + 1 \in DOMAIN m /\ m[n + 1] = l[n] /\ n + 1 # 1
  BY <1>1, <1>3, <1>4, SMT
<1> DEFINE L == Where(l, S)
           R == {n + 1 : n \in L}
           f == [n \in L |-> n + 1]
<1>7. L \subseteq DOMAIN l /\ \A n \in L : n \in Nat  BY <1>1, SMT DEF Where
<1>8. \A n, o \in L : n + 1 = o + 1 => n = o  BY <1>7, SMT
<1>9. f \in Bijection(L, R)
  <2>1. f \in [L -> R]  OBVIOUS
  <2>2. f \in Injection(L, R)  BY <1>8, <2>1 DEF Injection, IsInjective
  <2>3. f \in Surjection(L, R)  BY <2>1 DEF Surjection
  <2>4. QED  BY <2>2, <2>3 DEF Bijection
<1>10. IsFiniteSet(L) /\ Cardinality(L) \in Nat  BY ListFacts
<1> HIDE DEF f
<1>11. ExistsBijection(L, R)  BY <1>9 DEF ExistsBijection
<1>12. IsFiniteSet(R) /\ Cardinality(R) = Cardinality(L)  BY <1>10, <1>11, FS_Bijection
<1>13. 1 \in DOMAIN m /\ 1 \notin R
  BY <1>1, <1>3, <1>7, SMT
<1>14. \A n \in DOMAIN m : n # 1 => (m[n] \in S <=> n \in R)
  <2> SUFFICES ASSUME NEW n \in DOMAIN m, n # 1 PROVE m[n] \in S <=> n \in R
    OBVIOUS
  <2>1. n - 1 \in DOMAIN l /\ m[n] = l[n - 1] /\ (n - 1) + 1 = n  BY <1>3, <1>5, SMT
  <2>2. m[n] \in S => n \in R  BY <2>1 DEF Where
  <2>3. n \in R => m[n] \in S  BY <1>6, <1>7 DEF Where
  <2>4. QED  BY <2>2, <2>3
<1>15. R \subseteq DOMAIN m  BY <1>6, <1>7
<1> HIDE DEF R
<1>16. Where(m, S) = IF x \in S THEN R \union {1} ELSE R
  BY <1>2, <1>13, <1>14, <1>15 DEF Where
<1>17. Cardinality(R \union {1}) = Cardinality(R) + 1  BY <1>12, <1>13, FS_AddElement
<1>18. Cardinality(Where(m, S)) = Cardinality(L) + (IF x \in S THEN 1 ELSE 0)
  <2>1. CASE x \in S  BY <1>12, <1>16, <1>17, <2>1
  <2>2. CASE x \notin S  BY <1>10, <1>12, <1>16, <2>2, SMT
  <2>3. QED  BY <2>1, <2>2
<1>19. QED  BY <1>2, <1>5, <1>18

\* A list without a free node has one for each entry.
LEMMA FullList ==
  ASSUME NEW l \in Seq(MapNodes), FreeIn(l) = {}
  PROVE  Cardinality(Where(l, Busy)) = Len(l)
<1>1. ASSUME NEW n \in DOMAIN l PROVE l[n] \in Busy
  <2>1. l[n] \in MapNodes  BY ListFacts
  <2>2. l[n].in_use \in {0, 1} /\ l[n].in_use # 0  BY <2>1 DEF MapNodes, FreeIn
  <2>3. QED  BY <2>1, <2>2 DEF Busy
<1>2. Where(l, Busy) = DOMAIN l  BY <1>1 DEF Where
<1>3. QED  BY <1>2, ListFacts

LEMMA FreeNodeFacts ==
  FreeNode \in MapNodes /\ FreeNode \notin Busy /\ FreeNode.in_use = 0 /\ FreeNode.value = 0
<1>1. FreeNode \in MapNodes /\ FreeNode.in_use = 0 /\ FreeNode.value = 0 /\ 0 # 1
  BY SMT DEF FreeNode, MapNodes
<1>2. QED  BY <1>1 DEF Busy

LEMMA NodeForFacts ==
  ASSUME NEW k, NEW v
  PROVE  /\ NodeFor(k, v).index = k /\ NodeFor(k, v).value = v /\ NodeFor(k, v).in_use = 1
         /\ k \in Nat /\ v \in Nat => NodeFor(k, v) \in MapNodes /\ NodeFor(k, v) \in Busy
<1>1. NodeFor(k, v).index = k /\ NodeFor(k, v).value = v /\ NodeFor(k, v).in_use = 1
  BY DEF NodeFor
<1>2. k \in Nat /\ v \in Nat => NodeFor(k, v) \in MapNodes  BY SMT DEF NodeFor, MapNodes
<1>3. QED  BY <1>1, <1>2 DEF Busy

LEMMA NodesDiffer ==
  ASSUME NEW k, NEW v, NEW j, NEW w
  PROVE  NodeFor(k, v) \in {NodeFor(j, w)} <=> j = k /\ w = v
<1>1. /\ NodeFor(k, v).index = k /\ NodeFor(k, v).value = v
      /\ NodeFor(j, w).index = j /\ NodeFor(j, w).value = w
  BY NodeForFacts
<1>2. QED  BY <1>1

LEMMA FreeIsNoEntry ==
  ASSUME NEW x, x.in_use = 0, NEW j, NEW w
  PROVE  x \notin {NodeFor(j, w)}
<1>1. 0 # 1  BY SMT
<1>2. NodeFor(j, w).in_use = 1  BY DEF NodeFor
<1>3. QED  BY <1>1, <1>2

\* A node of a key that is in use is the node of that key and a value set.
LEMMA UsedNode ==
  ASSUME NEW s, NEW c, NEW b, NEW l \in Seq(MapNodes), Holds(s, c, l, b),
         NEW k \in KeysOf(b), NEW at \in Used(l, k)
  PROVE  /\ at \in DOMAIN l /\ l[at].value \in Values /\ l[at] = NodeFor(k, l[at].value)
         /\ l[at] \in Busy
         /\ s[k][l[at].value] > 0
<1>1. at \in DOMAIN l /\ l[at] \in MapNodes /\ l[at].in_use = 1 /\ l[at].index = k
  BY ListFacts DEF Used
<1>2. l[at].value \in Values  BY <1>1 DEF Holds
<1>3. l[at] = NodeFor(k, l[at].value)  BY <1>1 DEF MapNodes, NodeFor
<1> DEFINE x == NodeFor(k, l[at].value)
<1>4. at \in Where(l, {x})  BY <1>1, <1>3 DEF Where
<1>5. IsFiniteSet(Where(l, {x})) /\ Cardinality(Where(l, {x})) \in Nat  BY ListFacts
<1>6. Cardinality(Where(l, {x})) # 0  BY <1>4, <1>5, FS_EmptySet
<1>7. Cardinality(Where(l, {x})) = s[k][l[at].value]  BY <1>2 DEF Holds
<1>8. s[k][l[at].value] > 0
  <2> DEFINE y == s[k][l[at].value]
  <2>1. y \in Nat /\ y # 0  BY <1>5, <1>6, <1>7
  <2> HIDE DEF y
  <2>2. y > 0  BY <2>1, SMT
  <2>3. QED  BY <2>2 DEF y
<1>9. QED  BY <1>1, <1>2, <1>3, <1>8 DEF Busy

\* A key has an entry when the walk of cmap_get finds a node for it, and only then.
LEMMA EntryIsFound ==
  ASSUME NEW s, NEW c, NEW b, NEW l \in Seq(MapNodes), Holds(s, c, l, b), NEW k \in KeysOf(b)
  PROVE  /\ (\E v \in Values : s[k][v] > 0) <=> Find(l, k) # 0
         /\ Find(l, k) # 0 => Find(l, k) \in Used(l, k)
<1>1. /\ Find(l, k) # 0 => Find(l, k) \in Used(l, k)
      /\ Used(l, k) # {} => Find(l, k) # 0
  BY WalkFinds
<1>2. Find(l, k) # 0 => \E v \in Values : s[k][v] > 0  BY <1>1, UsedNode
<1>3. ASSUME NEW v \in Values, s[k][v] > 0 PROVE Used(l, k) # {}
  <2>1. Cardinality(Where(l, {NodeFor(k, v)})) > 0  BY <1>3 DEF Holds
  <2>2. Cardinality(Where(l, {NodeFor(k, v)})) # 0  BY <2>1, SMT
  <2>3. Where(l, {NodeFor(k, v)}) # {}  BY <2>2, FS_EmptySet
  <2>4. PICK n \in DOMAIN l : l[n] = NodeFor(k, v)  BY <2>3 DEF Where
  <2>5. NodeFor(k, v).index = k /\ NodeFor(k, v).in_use = 1  BY NodeForFacts
  <2>6. n \in Used(l, k)  BY <2>4, <2>5 DEF Used
  <2>7. QED  BY <2>6
<1>4. QED  BY <1>1, <1>2, <1>3

\* cmap_set adds an entry.
LEMMA SetHolds ==
  ASSUME NEW b \in Buckets, NEW s \in [Keys -> [Values -> Int]], NEW c \in Int,
         NEW l \in Seq(MapNodes), Holds(s, c, l, b), c < MaxEntries,
         NEW k \in KeysOf(b), NEW v \in Values
  PROVE  /\ SetAt(l, FindFree(l), k, v) \in Seq(MapNodes)
         /\ Holds([s EXCEPT ![k] = [s[k] EXCEPT ![v] = s[k][v] + 1]], c + 1,
                  SetAt(l, FindFree(l), k, v), b)
<1> DEFINE m == SetAt(l, FindFree(l), k, v)
           x == NodeFor(k, v)
           z == [s EXCEPT ![k] = [s[k] EXCEPT ![v] = s[k][v] + 1]]
<1>1. k \in Keys /\ k \in Nat /\ v \in Nat  BY CmapFacts DEF KeysOf
<1>2. x \in Busy /\ x \in MapNodes /\ x.index = k /\ x.value = v  BY <1>1, NodeForFacts
<1>3. \A j \in KeysOf(b), w \in Values :
        /\ z[j][w] = IF j = k /\ w = v THEN s[j][w] + 1 ELSE s[j][w]
        /\ s[j][w] \in Int
  BY <1>1 DEF KeysOf
<1>7. \A j, w : x \in {NodeFor(j, w)} <=> j = k /\ w = v  BY NodesDiffer
<1> HIDE DEF x, z
<1>4. CASE FreeIn(l) = {}
  <2>1. m = <<x>> \o l  BY <1>4, FreeIsFound DEF SetAt, x
  <2> HIDE DEF m
  <2>0. Prepended(l, x, m)  BY <1>2, <2>1, FrontCount
  <2>2. /\ m \in Seq(MapNodes) /\ Len(m) = Len(l) + 1 /\ m[1] = x
        /\ \A n \in DOMAIN m : n # 1 => n - 1 \in DOMAIN l /\ m[n] = l[n - 1]
    BY <2>0 DEF Prepended
  <2>3. \A S : Cardinality(Where(m, S)) = Cardinality(Where(l, S)) + (IF x \in S THEN 1 ELSE 0)
    BY <2>0 DEF Prepended
  <2>4. \A n \in DOMAIN m : m[n].in_use = 1 => m[n].index \in KeysOf(b) /\ m[n].value \in Values
    <3> SUFFICES ASSUME NEW n \in DOMAIN m, m[n].in_use = 1
                 PROVE  m[n].index \in KeysOf(b) /\ m[n].value \in Values
      OBVIOUS
    <3>1. CASE n = 1  BY <1>2, <2>2, <3>1
    <3>2. CASE n # 1
      <4>1. n - 1 \in DOMAIN l /\ m[n] = l[n - 1]  BY <2>2, <3>2
      <4>2. QED  BY <4>1 DEF Holds
    <3>3. QED  BY <3>1, <3>2
  <2>5. Cardinality(Where(m, Busy)) = c + 1  BY <1>2, <2>3 DEF Holds
  <2>6. Len(m) <= MaxEntries
    <3>1. Len(l) = c /\ Len(l) \in Nat  BY <1>4, FullList, ListFacts DEF Holds
    <3>2. QED  BY <2>2, <3>1, CmapFacts, SMT
  <2>7. ASSUME NEW j \in KeysOf(b), NEW w \in Values
        PROVE  Cardinality(Where(m, {NodeFor(j, w)})) = z[j][w]
    <3>1. Cardinality(Where(l, {NodeFor(j, w)})) = s[j][w]  BY DEF Holds
    <3>2. CASE j = k /\ w = v
      <4>1. x \in {NodeFor(j, w)}  BY <1>7, <3>2
      <4>2. Cardinality(Where(m, {NodeFor(j, w)})) = s[j][w] + 1  BY <2>3, <3>1, <4>1
      <4>3. QED  BY <1>3, <3>2, <4>2
    <3>3. CASE ~(j = k /\ w = v)
      <4>1. Cardinality(Where(m, {NodeFor(j, w)})) = s[j][w] + 0
        BY <1>3, <1>7, <2>3, <3>1, <3>3
      <4>2. QED  BY <1>3, <3>3, <4>1, SMT
    <3>4. QED  BY <3>2, <3>3
  <2>8. QED  BY <2>2, <2>4, <2>5, <2>6, <2>7 DEF Holds, z, m
<1>5. CASE FreeIn(l) # {}
  <2> DEFINE f == FindFree(l)
  <2>1. f \in DOMAIN l /\ l[f].in_use = 0 /\ f # 0  BY <1>5, FreeIsFound DEF FreeIn
  <2>2. m = [l EXCEPT ![f] = x]  BY <2>1 DEF SetAt, x
  <2> HIDE DEF f, m
  <2>0. Replaced(l, f, x, m)  BY <1>2, <2>1, <2>2, ReplaceCount
  <2>3. /\ m \in Seq(MapNodes) /\ Len(m) = Len(l) /\ DOMAIN m = DOMAIN l
        /\ m[f] = x /\ \A n \in DOMAIN l : n # f => m[n] = l[n]
    BY <2>0 DEF Replaced
  <2>4. \A S : Cardinality(Where(m, S)) = Cardinality(Where(l, S)) + (IF x \in S THEN 1 ELSE 0)
                                                                 - (IF l[f] \in S THEN 1 ELSE 0)
    BY <2>0 DEF Replaced
  <2>5. l[f] \notin Busy /\ \A j, w : l[f] \notin {NodeFor(j, w)}
    <3>1. 0 # 1  BY SMT
    <3>2. QED  BY <2>1, <3>1, FreeIsNoEntry DEF Busy
  <2>6. \A n \in DOMAIN m : m[n].in_use = 1 => m[n].index \in KeysOf(b) /\ m[n].value \in Values
    BY <1>2, <2>3 DEF Holds
  <2>7. Cardinality(Where(m, Busy)) = c + 1
    <3>1. Cardinality(Where(m, Busy)) = c + 1 - 0  BY <1>2, <2>4, <2>5 DEF Holds
    <3>2. QED  BY <3>1, SMT
  <2>8. Len(m) <= DATA_SIZE \/ Len(m) <= MaxEntries  BY <2>3 DEF Holds
  <2>9. ASSUME NEW j \in KeysOf(b), NEW w \in Values
        PROVE  Cardinality(Where(m, {NodeFor(j, w)})) = z[j][w]
    <3>1. Cardinality(Where(l, {NodeFor(j, w)})) = s[j][w]  BY DEF Holds
    <3>2. CASE j = k /\ w = v
      <4>1. x \in {NodeFor(j, w)} /\ l[f] \notin {NodeFor(j, w)}  BY <1>7, <2>5, <3>2
      <4>2. Cardinality(Where(m, {NodeFor(j, w)})) = s[j][w] + 1 - 0  BY <2>4, <3>1, <4>1
      <4>3. QED  BY <1>3, <3>2, <4>2, SMT
    <3>3. CASE ~(j = k /\ w = v)
      <4>1. Cardinality(Where(m, {NodeFor(j, w)})) = s[j][w] + 0 - 0
        BY <1>3, <1>7, <2>4, <2>5, <3>1, <3>3
      <4>2. QED  BY <1>3, <3>3, <4>1, SMT
    <3>4. QED  BY <3>2, <3>3
  <2>10. QED  BY <2>3, <2>6, <2>7, <2>8, <2>9 DEF Holds, z, m
<1>6. QED  BY <1>4, <1>5

\* cmap_del takes one away.
LEMMA DelHolds ==
  ASSUME NEW b \in Buckets, NEW s \in [Keys -> [Values -> Int]], NEW c \in Int,
         NEW l \in Seq(MapNodes), Holds(s, c, l, b),
         NEW k \in KeysOf(b), NEW at \in Used(l, k)
  PROVE  /\ DelIn(l, at) \in Seq(MapNodes)
         /\ LET v == l[at].value
            IN  Holds([s EXCEPT ![k] = [s[k] EXCEPT ![v] = s[k][v] - 1]], c - 1, DelIn(l, at), b)
<1> DEFINE v == l[at].value
           m == DelIn(l, at)
           z == [s EXCEPT ![k] = [s[k] EXCEPT ![v] = s[k][v] - 1]]
<1>1. at \in DOMAIN l /\ v \in Values /\ l[at] = NodeFor(k, v) /\ l[at] \in Busy
  BY UsedNode, SMT
<1> HIDE DEF v
<1>2. \A j \in KeysOf(b), w \in Values :
        /\ z[j][w] = IF j = k /\ w = v THEN s[j][w] - 1 ELSE s[j][w]
        /\ s[j][w] \in Int
  BY <1>1 DEF KeysOf
<1>0. \A j, w : l[at] \in {NodeFor(j, w)} <=> j = k /\ w = v
  <2>1. ASSUME NEW j, NEW w PROVE NodeFor(k, v) \in {NodeFor(j, w)} <=> j = k /\ w = v
    BY NodesDiffer
  <2>2. QED  BY <1>1, <2>1
<1>3. m = [l EXCEPT ![at] = FreeNode]  BY DEF DelIn
<1> HIDE DEF z, m
<1>12. Replaced(l, at, FreeNode, m)  BY <1>1, <1>3, FreeNodeFacts, ReplaceCount
<1>4. /\ m \in Seq(MapNodes) /\ Len(m) = Len(l) /\ DOMAIN m = DOMAIN l
      /\ m[at] = FreeNode /\ \A n \in DOMAIN l : n # at => m[n] = l[n]
  BY <1>12 DEF Replaced
<1>5. \A S : Cardinality(Where(m, S)) = Cardinality(Where(l, S)) + (IF FreeNode \in S THEN 1 ELSE 0)
                                                               - (IF l[at] \in S THEN 1 ELSE 0)
  BY <1>12 DEF Replaced
<1>6. FreeNode \notin Busy /\ \A j, w : FreeNode \notin {NodeFor(j, w)}
  BY FreeNodeFacts, FreeIsNoEntry
<1>7. \A n \in DOMAIN m : m[n].in_use = 1 => m[n].index \in KeysOf(b) /\ m[n].value \in Values
  <2>1. m[at].in_use # 1  BY <1>4, FreeNodeFacts, SMT
  <2>2. QED  BY <1>4, <2>1 DEF Holds
<1>8. Cardinality(Where(m, Busy)) = c - 1
  <2>1. Cardinality(Where(m, Busy)) = c + 0 - 1  BY <1>1, <1>5, <1>6 DEF Holds
  <2>2. QED  BY <2>1, SMT
<1>9. Len(m) <= DATA_SIZE \/ Len(m) <= MaxEntries  BY <1>4 DEF Holds
<1>10. ASSUME NEW j \in KeysOf(b), NEW w \in Values
       PROVE  Cardinality(Where(m, {NodeFor(j, w)})) = z[j][w]
  <2>1. Cardinality(Where(l, {NodeFor(j, w)})) = s[j][w]  BY DEF Holds
  <2>2. CASE j = k /\ w = v
    <3>1. l[at] \in {NodeFor(j, w)} /\ FreeNode \notin {NodeFor(j, w)}  BY <1>0, <1>6, <2>2
    <3>2. Cardinality(Where(m, {NodeFor(j, w)})) = s[j][w] + 0 - 1  BY <1>5, <2>1, <3>1
    <3>3. QED  BY <1>2, <2>2, <3>2, SMT
  <2>3. CASE ~(j = k /\ w = v)
    <3>1. Cardinality(Where(m, {NodeFor(j, w)})) = s[j][w] + 0 - 0
      BY <1>0, <1>2, <1>5, <1>6, <2>1, <2>3
    <3>2. QED  BY <1>2, <2>3, <3>1, SMT
  <2>4. QED  BY <2>2, <2>3
<1>11. QED  BY <1>4, <1>7, <1>8, <1>9, <1>10 DEF Holds, z, m, v

-----------------------------------------------------------------------------
\* The threads of CmapClients.
Calls == [op : {"set", "get", "del"}, key : Keys, value : Nat, at : Int]

CmapTypes ==
    /\ buck \in [Buckets -> Seq(MapNodes)]
    /\ block \in [Buckets -> Clients \union {None}]
    /\ call \in [Clients -> Calls \union {Idle}]
    /\ DOMAIN reply = Clients
    /\ store \in [Keys -> [Values -> Int]]
    /\ entries \in [Buckets -> Int]

\* A thread in a call holds the mutex of its bucket, so that what it has found still holds.
CallOf(t) ==
    call[t] # Idle =>
      LET c == call[t]
          b == HashOf[c.key]
      IN  /\ block[b] = t
          /\ c.op = "set" => c.value \in Values /\ entries[b] < MaxEntries
          /\ c.op # "set" => CallsAbsent \/ Present(c.key)
          /\ c.at # -1 => c.at = IF c.op = "set" THEN FindFree(buck[b]) ELSE Find(buck[b], c.key)

\* A mutex is held by a thread in a call of its bucket, when no call misses.
MutexOf(b) ==
    block[b] # None => \/ CallsAbsent
                       \/ /\ call[block[b]] # Idle
                          /\ HashOf[call[block[b]].key] = b

HoldsIn(b) == Holds(store, entries[b], buck[b], b)

CmapInv ==
    /\ CmapTypes
    /\ \A t \in Clients : CallOf(t)
    /\ \A b \in Buckets : MutexOf(b) /\ HoldsIn(b)

LEMMA CallFacts ==
  /\ Idle.op = "idle"
  /\ \A c \in Calls : c # Idle /\ c.key \in Keys /\ HashOf[c.key] \in Buckets
                      /\ c.key \in KeysOf(HashOf[c.key])
<1>1. Idle.op = "idle"  BY DEF Idle, Call
<1>2. ASSUME NEW c \in Calls
      PROVE  c # Idle /\ c.key \in Keys /\ HashOf[c.key] \in Buckets
             /\ c.key \in KeysOf(HashOf[c.key])
  <2>1. c.op \in {"set", "get", "del"} /\ c.key \in Keys  BY DEF Calls
  <2>2. c # Idle  BY <1>1, <2>1
  <2>3. QED  BY <2>1, <2>2, CmapFacts DEF KeysOf
<1>3. QED  BY <1>1, <1>2

\* A step of t that changes at most the bucket b, which no other thread has locked.
OnlyBucket(t, b) ==
    /\ block[b] \in {t, None}
    /\ call[t] = Idle \/ HashOf[call[t].key] = b
    /\ \A u \in Clients : u # t => call'[u] = call[u]
    /\ \A d \in Buckets : d # b => /\ buck'[d] = buck[d] /\ block'[d] = block[d]
                                   /\ entries'[d] = entries[d]
    /\ \A k \in Keys : HashOf[k] # b => store'[k] = store[k]

LEMMA OthersKeep ==
  ASSUME CmapInv, NEW t \in Clients, NEW b \in Buckets, OnlyBucket(t, b),
         NEW u \in Clients, u # t
  PROVE  CallOf(u)'
<1>1. call'[u] = call[u]  BY DEF OnlyBucket
<1>2. CASE call[u] = Idle  BY <1>1, <1>2 DEF CallOf
<1>3. CASE call[u] # Idle
  <2> DEFINE c == call[u]
             d == HashOf[c.key]
  <2>1. c \in Calls  BY <1>3 DEF CmapInv, CmapTypes
  <2>2. c.key \in Keys /\ d \in Buckets  BY <2>1, CallFacts
  <2>3. CallOf(u)  BY DEF CmapInv
  <2>4. block[d] = u /\ u # None  BY <1>3, <2>3, CmapClientsAssumption DEF CallOf
  <2>5. d # b  BY <2>4 DEF OnlyBucket
  <2>6. /\ buck'[d] = buck[d] /\ block'[d] = block[d] /\ entries'[d] = entries[d]
        /\ store'[c.key] = store[c.key]
    BY <2>2, <2>5 DEF OnlyBucket
  <2>7. QED  BY <1>1, <1>3, <2>3, <2>6 DEF CallOf, Present
<1>4. QED  BY <1>2, <1>3

LEMMA BucketsKeep ==
  ASSUME CmapInv, NEW t \in Clients, NEW b \in Buckets, OnlyBucket(t, b),
         NEW d \in Buckets, d # b
  PROVE  MutexOf(d)' /\ HoldsIn(d)'
<1>1. /\ buck'[d] = buck[d] /\ block'[d] = block[d] /\ entries'[d] = entries[d]
      /\ \A k \in KeysOf(d) : store'[k] = store[k]
  BY DEF OnlyBucket, KeysOf
<1>2. MutexOf(d) /\ HoldsIn(d)  BY DEF CmapInv
<1>3. HoldsIn(d)'  BY <1>1, <1>2 DEF HoldsIn, Holds
<1>4. MutexOf(d)'
  <2> SUFFICES ASSUME block[d] # None, ~CallsAbsent
               PROVE  call'[block[d]] # Idle /\ HashOf[call'[block[d]].key] = d
    BY <1>1 DEF MutexOf
  <2>1. call[block[d]] # Idle /\ HashOf[call[block[d]].key] = d  BY <1>2 DEF MutexOf
  <2>2. block[d] \in Clients  BY DEF CmapInv, CmapTypes
  <2>3. block[d] # t  BY <2>1 DEF OnlyBucket
  <2>4. QED  BY <2>1, <2>2, <2>3 DEF OnlyBucket
<1>5. QED  BY <1>3, <1>4

\* What is left to show of a step.
LEMMA StepKeeps ==
  ASSUME CmapInv, NEW t \in Clients, NEW b \in Buckets, OnlyBucket(t, b),
         CmapTypes', CallOf(t)', MutexOf(b)', HoldsIn(b)'
  PROVE  CmapInv'
<1>1. \A u \in Clients : CallOf(u)'  BY OthersKeep
<1>2. \A d \in Buckets : MutexOf(d)' /\ HoldsIn(d)'  BY BucketsKeep
<1>3. QED  BY <1>1, <1>2 DEF CmapInv

LEMMA CmapInitially ==
  ASSUME Init
  PROVE  CmapInv
<1> DEFINE l == [n \in 1 .. DATA_SIZE |-> FreeNode]
<1>1. /\ buck = [b \in Buckets |-> l] /\ block = [b \in Buckets |-> None]
      /\ call = [t \in Clients |-> Idle] /\ reply = [t \in Clients |-> NoReply]
      /\ store = [k \in Keys |-> [v \in Values |-> 0]] /\ entries = [b \in Buckets |-> 0]
  BY DEF Init, Alloc
<1>2. FreeNode \in MapNodes /\ FreeNode.in_use = 0 /\ FreeNode \notin Busy  BY FreeNodeFacts
<1>3. DATA_SIZE \in Nat  BY CmapFacts
<1>4. l \in Seq(MapNodes) /\ DOMAIN l = 1 .. DATA_SIZE /\ Len(l) = DATA_SIZE
  BY <1>2, <1>3, SMT
<1>5. \A n \in DOMAIN l : l[n] = FreeNode  BY <1>4
<1>6. 0 # 1 /\ 0 \in Int /\ DATA_SIZE <= DATA_SIZE  BY <1>3, SMT
<1> HIDE DEF l
<1>7. CmapTypes  BY <1>1, <1>4, <1>6 DEF CmapTypes
<1>8. \A t \in Clients : CallOf(t)  BY <1>1 DEF CallOf
<1>9. \A b \in Buckets : MutexOf(b)  BY <1>1 DEF MutexOf
<1>10. Where(l, Busy) = {}  BY <1>2, <1>5 DEF Where
<1>11. ASSUME NEW k, NEW v PROVE Where(l, {NodeFor(k, v)}) = {}
  <2>1. FreeNode \notin {NodeFor(k, v)}  BY <1>2, FreeIsNoEntry
  <2>2. QED  BY <1>5, <2>1 DEF Where
<1>12. ASSUME NEW b \in Buckets PROVE HoldsIn(b)
  <2>1. buck[b] = l /\ entries[b] = 0  BY <1>1
  <2>2. Cardinality({}) = 0  BY FS_EmptySet
  <2>3. \A n \in DOMAIN l : ~(l[n].in_use = 1)  BY <1>2, <1>5, <1>6
  <2>4. Cardinality(Where(l, Busy)) = 0  BY <1>10, <2>2
  <2>5. \A k \in KeysOf(b), v \in Values : Cardinality(Where(l, {NodeFor(k, v)})) = store[k][v]
    BY <1>1, <1>11, <2>2 DEF KeysOf
  <2>6. Len(l) <= DATA_SIZE  BY <1>4, <1>6
  <2>7. QED  BY <2>1, <2>3, <2>4, <2>5, <2>6 DEF HoldsIn, Holds
<1>13. QED  BY <1>7, <1>8, <1>9, <1>12 DEF CmapInv

LEMMA BeginKeeps ==
  ASSUME CmapInv, NEW t \in Clients, Begin(t)
  PROVE  CmapInv'
<1>1. PICK k \in Keys :
        /\ LockBucket(t, k)
        /\ \/ /\ entries[HashOf[k]] < MaxEntries
              /\ \E v \in Values : call' = [call EXCEPT ![t] = Call("set", k, v)]
           \/ /\ CallsAbsent \/ Present(k)
              /\ \E op \in {"get", "del"} : call' = [call EXCEPT ![t] = Call(op, k, 0)]
  BY DEF Begin
<1> DEFINE b == HashOf[k]
<1>2. b \in Buckets  BY CmapFacts
<1>3. /\ call[t] = Idle /\ block[b] = None /\ block' = [block EXCEPT ![b] = t]
      /\ buck' = buck /\ store' = store /\ entries' = entries /\ DOMAIN reply' = DOMAIN reply
  BY <1>1 DEF Begin, LockBucket
<1>4. PICK c : /\ call' = [call EXCEPT ![t] = c] /\ c \in Calls /\ c.key = k /\ c.at = -1
               /\ c.op = "set" => c.value \in Values /\ entries[b] < MaxEntries
               /\ c.op # "set" => CallsAbsent \/ Present(k)
  <2>0. 0 \in Nat /\ -1 \in Int  BY SMT
  <2>1. CASE \E v \in Values : entries[b] < MaxEntries
                               /\ call' = [call EXCEPT ![t] = Call("set", k, v)]
    <3>1. PICK v \in Values : entries[b] < MaxEntries
                              /\ call' = [call EXCEPT ![t] = Call("set", k, v)]
      BY <2>1
    <3>2. v \in Nat  BY CmapFacts
    <3>3. /\ Call("set", k, v) \in Calls /\ Call("set", k, v).key = k
          /\ Call("set", k, v).at = -1 /\ Call("set", k, v).op = "set"
          /\ Call("set", k, v).value = v
      BY <2>0, <3>2, SMT DEF Call, Calls
    <3>4. QED  BY <3>1, <3>3
  <2>2. CASE \E op \in {"get", "del"} : (CallsAbsent \/ Present(k))
                                        /\ call' = [call EXCEPT ![t] = Call(op, k, 0)]
    <3>1. PICK op \in {"get", "del"} : (CallsAbsent \/ Present(k))
                                       /\ call' = [call EXCEPT ![t] = Call(op, k, 0)]
      BY <2>2
    <3>2. /\ Call(op, k, 0) \in Calls /\ Call(op, k, 0).key = k
          /\ Call(op, k, 0).at = -1 /\ Call(op, k, 0).op # "set"
      BY <2>0, SMT DEF Call, Calls
    <3>3. QED  BY <3>1, <3>2
  <2>3. QED  BY <1>1, <2>1, <2>2
<1> HIDE DEF b
<1>5. call'[t] = c /\ block'[b] = t /\ c # Idle
  BY <1>2, <1>3, <1>4, CallFacts DEF CmapInv, CmapTypes
<1>6. CmapTypes'  BY <1>2, <1>3, <1>4 DEF CmapInv, CmapTypes
<1>7. OnlyBucket(t, b)  BY <1>2, <1>3, <1>4 DEF OnlyBucket, CmapInv, CmapTypes
<1>8. HashOf[c.key] = b  BY <1>4 DEF b
<1>9. CallOf(t)'  BY <1>3, <1>4, <1>5, <1>8 DEF CallOf, Present
<1>10. MutexOf(b)'  BY <1>5, <1>8 DEF MutexOf
<1>11. HoldsIn(b)'  BY <1>2, <1>3 DEF HoldsIn, CmapInv
<1>12. QED  BY <1>2, <1>6, <1>7, <1>9, <1>10, <1>11, StepKeeps

\* A thread past its lock.
InCall(t, c, b, l) ==
    /\ c = call[t] /\ c # Idle /\ c \in Calls /\ c.key \in Keys /\ c.key \in KeysOf(b)
    /\ b = HashOf[c.key] /\ b \in Buckets /\ l = buck[b] /\ l \in Seq(MapNodes)
    /\ block[b] = t /\ t # None
    /\ c.op = "set" => c.value \in Values /\ entries[b] < MaxEntries
    /\ c.op # "set" => CallsAbsent \/ Present(c.key)
    /\ c.at # -1 => c.at = IF c.op = "set" THEN FindFree(l) ELSE Find(l, c.key)
    /\ Holds(store, entries[b], l, b) /\ entries[b] \in Int

LEMMA InACall ==
  ASSUME CmapInv, NEW t \in Clients, call[t] # Idle
  PROVE  InCall(t, call[t], HashOf[call[t].key], buck[HashOf[call[t].key]])
<1> DEFINE c == call[t]
           b == HashOf[c.key]
<1>1. c \in Calls  BY DEF CmapInv, CmapTypes
<1>2. c.key \in Keys /\ b \in Buckets /\ c.key \in KeysOf(b)  BY <1>1, CallFacts
<1>3. buck[b] \in Seq(MapNodes) /\ entries[b] \in Int  BY <1>2 DEF CmapInv, CmapTypes
<1>4. Holds(store, entries[b], buck[b], b)  BY <1>2 DEF CmapInv, HoldsIn
<1>5. CallOf(t)  BY DEF CmapInv
<1>6. t # None  BY CmapClientsAssumption
<1>7. QED  BY <1>1, <1>2, <1>3, <1>4, <1>5, <1>6 DEF CallOf, InCall

LEMMA WalkKeeps ==
  ASSUME CmapInv, NEW t \in Clients, Walk(t)
  PROVE  CmapInv' /\ call'[t] # Idle
<1>1. call[t] # Idle  BY DEF Walk
<1>3. PICK c, b, l : InCall(t, c, b, l)  BY <1>1, InACall
<1> DEFINE x == IF c.op = "set" THEN FindFree(l) ELSE Find(l, c.key)
           d == [c EXCEPT !.at = x]
<1>0. call' = [call EXCEPT ![t] = d]  BY <1>3 DEF Walk, InCall
<1>2. /\ buck' = buck /\ block' = block /\ reply' = reply /\ store' = store
      /\ entries' = entries
  BY DEF Walk
<1>4. l \in Seq(MapNodes) /\ c \in Calls /\ b \in Buckets  BY <1>3 DEF InCall
<1>5. x \in Int
  <2>1. \A n \in DOMAIN l : n \in Int  BY <1>4, ListFacts, SMT
  <2>2. 0 \in Int  BY SMT
  <2>3. FindFree(l) \in Int  BY <1>4, <2>1, <2>2, FreeIsFound DEF FreeIn
  <2>4. Find(l, c.key) \in Int  BY <1>4, <2>1, <2>2, WalkFinds DEF Used
  <2>5. QED  BY <2>3, <2>4
<1> HIDE DEF x
<1>6. /\ d \in Calls /\ d.op = c.op /\ d.key = c.key /\ d.value = c.value /\ d.at = x
  BY <1>4, <1>5 DEF Calls
<1>7. d # Idle  BY <1>6, CallFacts
<1> HIDE DEF d
<1>8. call'[t] = d  BY <1>0 DEF CmapInv, CmapTypes
<1>9. CmapTypes'  BY <1>0, <1>2, <1>6 DEF CmapInv, CmapTypes
<1>10. OnlyBucket(t, b)  BY <1>0, <1>2, <1>3 DEF OnlyBucket, InCall, CmapInv, CmapTypes
<1>11. CallOf(t)'  BY <1>2, <1>3, <1>6, <1>8 DEF CallOf, InCall, Present, x
<1>12. MutexOf(b)'  BY <1>2, <1>3, <1>6, <1>7, <1>8 DEF MutexOf, InCall
<1>13. HoldsIn(b)'  BY <1>2, <1>4 DEF HoldsIn, CmapInv
<1>14. CmapInv'  BY <1>4, <1>9, <1>10, <1>11, <1>12, <1>13, StepKeeps
<1>15. QED  BY <1>7, <1>8, <1>14

\* The end of a call of t, whose bucket b is unlocked or has become unreachable.
LEMMA EndKeeps ==
  ASSUME CmapInv, NEW t \in Clients, NEW c, NEW b, NEW l, InCall(t, c, b, l),
         call' = [call EXCEPT ![t] = Idle], DOMAIN reply' = DOMAIN reply,
         block' = [block EXCEPT ![b] = None] \/ (block' = block /\ CallsAbsent),
         NEW m \in Seq(MapNodes), NEW n \in Int, buck' = [buck EXCEPT ![b] = m],
         entries' = [entries EXCEPT ![b] = n], store' \in [Keys -> [Values -> Int]],
         \A k \in Keys : k # c.key => store'[k] = store[k], Holds(store', n, m, b)
  PROVE  CmapInv'
<1>1. b \in Buckets /\ block[b] = t /\ HashOf[c.key] = b /\ c = call[t] /\ c.key \in Keys
  BY DEF InCall
<1>2. CmapTypes  BY DEF CmapInv
<1>3. CmapTypes'  BY <1>1, <1>2 DEF CmapTypes
<1>4. OnlyBucket(t, b)
  <2>1. \A u \in Clients : u # t => call'[u] = call[u]  BY <1>2 DEF CmapTypes
  <2>2. \A d \in Buckets : d # b => /\ buck'[d] = buck[d] /\ block'[d] = block[d]
                                    /\ entries'[d] = entries[d]
    BY <1>2 DEF CmapTypes
  <2>3. \A k \in Keys : HashOf[k] # b => store'[k] = store[k]  BY <1>1
  <2>4. QED  BY <1>1, <2>1, <2>2, <2>3 DEF OnlyBucket
<1>5. call'[t] = Idle  BY <1>2 DEF CmapTypes
<1>6. CallOf(t)'  BY <1>5 DEF CallOf
<1>7. MutexOf(b)'  BY <1>1, <1>2 DEF MutexOf, CmapTypes
<1>8. buck'[b] = m /\ entries'[b] = n  BY <1>1, <1>2 DEF CmapTypes
<1>9. HoldsIn(b)'  BY <1>8 DEF HoldsIn
<1>10. QED  BY <1>1, <1>3, <1>4, <1>6, <1>7, <1>9, StepKeeps

\* What store[k][v] counts, one more or one less.
LEMMA CountChanges ==
  ASSUME NEW s \in [Keys -> [Values -> Int]], NEW k \in Keys, NEW v \in Values, NEW x \in Int,
         NEW z, z = [s EXCEPT ![k] = [s[k] EXCEPT ![v] = x]]
  PROVE  z \in [Keys -> [Values -> Int]] /\ \A j \in Keys : j # k => z[j] = s[j]
<1>1. s[k] \in [Values -> Int]  OBVIOUS
<1>2. [s[k] EXCEPT ![v] = x] \in [Values -> Int]  BY <1>1
<1>3. QED  BY <1>2

LEMMA SetKeeps ==
  ASSUME CmapInv, NEW t \in Clients, Set(t)
  PROVE  CmapInv'
<1>1. call[t].op = "set" /\ call[t].at # -1 /\ call' = [call EXCEPT ![t] = Idle]
  BY DEF Set, Ends
<1>2. call[t] # Idle  BY <1>1, CallFacts
<1>3. PICK c, b, l : InCall(t, c, b, l)  BY <1>2, InACall
<1>4. /\ c = call[t] /\ b = HashOf[c.key] /\ b \in Buckets /\ l = buck[b] /\ l \in Seq(MapNodes)
      /\ c.key \in Keys /\ c.key \in KeysOf(b) /\ entries[b] \in Int /\ c.value \in Values
      /\ entries[b] < MaxEntries /\ c.at = FindFree(l) /\ Holds(store, entries[b], l, b)
  BY <1>1, <1>3 DEF InCall
<1>5. /\ buck' = [buck EXCEPT ![b] = SetAt(l, FindFree(l), c.key, c.value)]
      /\ block' = [block EXCEPT ![b] = None] /\ DOMAIN reply' = DOMAIN reply
      /\ store' = [store EXCEPT ![c.key] =
                     [store[c.key] EXCEPT ![c.value] = store[c.key][c.value] + 1]]
      /\ entries' = [entries EXCEPT ![b] = entries[b] + 1]
  BY <1>4 DEF Set, UnlockBucket
<1>6. store \in [Keys -> [Values -> Int]]  BY DEF CmapInv, CmapTypes
<1>7. /\ SetAt(l, FindFree(l), c.key, c.value) \in Seq(MapNodes)
      /\ Holds(store', entries[b] + 1, SetAt(l, FindFree(l), c.key, c.value), b)
  BY <1>4, <1>5, <1>6, SetHolds
<1>8. store[c.key][c.value] + 1 \in Int /\ entries[b] + 1 \in Int
  <2>1. store[c.key][c.value] \in Int  BY <1>4, <1>6
  <2>2. QED  BY <1>4, <2>1, SMT
<1>9. /\ store' \in [Keys -> [Values -> Int]]
      /\ \A k \in Keys : k # c.key => store'[k] = store[k]
  BY <1>4, <1>5, <1>6, <1>8, CountChanges
<1>10. QED  BY <1>1, <1>3, <1>5, <1>7, <1>8, <1>9, EndKeeps

\* A get or del that has walked: it found a node exactly when the key has an entry.
LEMMA FoundWhenPresent ==
  ASSUME CmapInv, NEW t \in Clients, NEW c, NEW b, NEW l, InCall(t, c, b, l),
         c.op # "set", c.at # -1
  PROVE  /\ Present(c.key) <=> c.at # 0
         /\ c.at = 0 => CallsAbsent
         /\ c.at # 0 => /\ c.at \in Used(l, c.key)
                        /\ l[c.at].value \in Values /\ store[c.key][l[c.at].value] > 0
<1>1. /\ c.at = Find(l, c.key) /\ l \in Seq(MapNodes) /\ Holds(store, entries[b], l, b)
      /\ c.key \in KeysOf(b) /\ (CallsAbsent \/ Present(c.key))
  BY DEF InCall
<1>2. /\ (\E v \in Values : store[c.key][v] > 0) <=> Find(l, c.key) # 0
      /\ Find(l, c.key) # 0 => Find(l, c.key) \in Used(l, c.key)
  BY <1>1, EntryIsFound
<1>3. Present(c.key) <=> c.at # 0  BY <1>1, <1>2 DEF Present
<1>4. ASSUME c.at # 0
      PROVE  /\ c.at \in Used(l, c.key)
             /\ l[c.at].value \in Values /\ store[c.key][l[c.at].value] > 0
  <2>1. c.at \in Used(l, c.key)  BY <1>1, <1>2, <1>4
  <2> DEFINE k == c.key
             at == c.at
  <2>2. k \in KeysOf(b) /\ at \in Used(l, k)  BY <1>1, <2>1
  <2> HIDE DEF k, at
  <2>3. l[at].value \in Values /\ store[k][l[at].value] > 0  BY <1>1, <2>2, UsedNode, SMT
  <2>4. QED  BY <2>1, <2>3 DEF k, at
<1>5. QED  BY <1>1, <1>3, <1>4

LEMMA GetKeeps ==
  ASSUME CmapInv, NEW t \in Clients, Get(t)
  PROVE  CmapInv' /\ Answered(t)
<1>1. call[t].op = "get" /\ call[t].at # -1 /\ call' = [call EXCEPT ![t] = Idle]
  BY DEF Get, Ends
<1>2. call[t] # Idle  BY <1>1, CallFacts
<1>3. PICK c, b, l : InCall(t, c, b, l)  BY <1>2, InACall
<1>4. /\ c = call[t] /\ b = HashOf[c.key] /\ b \in Buckets /\ l = buck[b] /\ l \in Seq(MapNodes)
      /\ entries[b] \in Int /\ Holds(store, entries[b], l, b)
  BY <1>3 DEF InCall
<1>5. /\ Present(c.key) <=> c.at # 0
      /\ c.at = 0 => CallsAbsent
      /\ c.at # 0 => l[c.at].value \in Values /\ store[c.key][l[c.at].value] > 0
  BY <1>1, <1>3, <1>4, FoundWhenPresent
<1>6. /\ block' = IF c.at # 0 THEN [block EXCEPT ![b] = None] ELSE block
      /\ buck' = buck /\ store' = store /\ entries' = entries
      /\ reply' = [reply EXCEPT ![t] = IF c.at = 0 THEN <<-1, Absent>> ELSE <<b, l[c.at].value>>]
  BY <1>4 DEF Get, UnlockBucket
<1>7. CmapTypes  BY DEF CmapInv
<1>8. /\ buck' = [buck EXCEPT ![b] = l] /\ entries' = [entries EXCEPT ![b] = entries[b]]
      /\ DOMAIN reply' = DOMAIN reply
      /\ store' \in [Keys -> [Values -> Int]]
      /\ \A k \in Keys : k # c.key => store'[k] = store[k]
      /\ Holds(store', entries[b], l, b)
  BY <1>4, <1>6, <1>7 DEF CmapTypes
<1>9. block' = [block EXCEPT ![b] = None] \/ (block' = block /\ CallsAbsent)  BY <1>5, <1>6
<1>10. CmapInv'  BY <1>1, <1>3, <1>4, <1>8, <1>9, EndKeeps
<1>11. reply'[t] = IF c.at = 0 THEN <<-1, Absent>> ELSE <<b, l[c.at].value>>
  BY <1>6, <1>7 DEF CmapTypes
<1>12. Answered(t)
  <2>1. CASE c.at = 0  BY <1>4, <1>5, <1>11, <2>1 DEF Answered
  <2>2. CASE c.at # 0
    <3>1. reply'[t] = <<b, l[c.at].value>>  BY <1>11, <2>2
    <3>2. reply'[t][1] = b /\ reply'[t][2] = l[c.at].value  BY <3>1, SMT
    <3>3. QED  BY <1>4, <1>5, <2>2, <3>2 DEF Answered
  <2>3. QED  BY <2>1, <2>2
<1>13. QED  BY <1>10, <1>12

LEMMA DelKeeps ==
  ASSUME CmapInv, NEW t \in Clients, Del(t)
  PROVE  CmapInv' /\ Answered(t)
<1>1. call[t].op = "del" /\ call[t].at # -1 /\ call' = [call EXCEPT ![t] = Idle]
  BY DEF Del, Ends
<1>2. call[t] # Idle  BY <1>1, CallFacts
<1>3. PICK c, b, l : InCall(t, c, b, l)  BY <1>2, InACall
<1>4. /\ c = call[t] /\ b = HashOf[c.key] /\ b \in Buckets /\ l = buck[b] /\ l \in Seq(MapNodes)
      /\ c.key \in Keys /\ c.key \in KeysOf(b) /\ entries[b] \in Int
      /\ Holds(store, entries[b], l, b)
  BY <1>3 DEF InCall
<1>5. /\ Present(c.key) <=> c.at # 0
      /\ c.at = 0 => CallsAbsent
      /\ c.at # 0 => c.at \in Used(l, c.key) /\ l[c.at].value \in Values
  BY <1>1, <1>3, <1>4, FoundWhenPresent
<1>6. CmapTypes  BY DEF CmapInv
<1>7. reply' = [reply EXCEPT ![t] = <<IF c.at = 0 THEN -1 ELSE b, Absent>>]
  BY <1>4 DEF Del
<1>8. DOMAIN reply' = DOMAIN reply /\ reply'[t] = <<IF c.at = 0 THEN -1 ELSE b, Absent>>
  BY <1>6, <1>7 DEF CmapTypes
<1>9. CASE c.at = 0
  <2>1. block' = block /\ buck' = buck /\ store' = store /\ entries' = entries
    BY <1>4, <1>9 DEF Del, UnlockBucket
  <2>2. /\ buck' = [buck EXCEPT ![b] = l] /\ entries' = [entries EXCEPT ![b] = entries[b]]
        /\ store' \in [Keys -> [Values -> Int]]
        /\ \A k \in Keys : k # c.key => store'[k] = store[k]
        /\ Holds(store', entries[b], l, b)
    BY <1>4, <1>6, <2>1 DEF CmapTypes
  <2>3. CmapInv'  BY <1>1, <1>3, <1>4, <1>5, <1>8, <1>9, <2>1, <2>2, EndKeeps
  <2>4. reply'[t] = <<-1, Absent>>  BY <1>8, <1>9
  <2>5. Answered(t)  BY <1>4, <1>5, <1>9, <2>4 DEF Answered
  <2>6. QED  BY <2>3, <2>5
<1>10. CASE c.at # 0
  <2> DEFINE k == c.key
             at == c.at
             v == l[at].value
  <2>1. /\ block' = [block EXCEPT ![b] = None]
        /\ buck' = [buck EXCEPT ![b] = DelIn(l, at)]
        /\ store' = [store EXCEPT ![k] = [store[k] EXCEPT ![v] = store[k][v] - 1]]
        /\ entries' = [entries EXCEPT ![b] = entries[b] - 1]
    BY <1>4, <1>10 DEF Del, UnlockBucket
  <2>2. store \in [Keys -> [Values -> Int]]  BY <1>6 DEF CmapTypes
  <2>3. k \in Keys /\ k \in KeysOf(b) /\ at \in Used(l, k) /\ v \in Values  BY <1>4, <1>5, <1>10
  <2> HIDE DEF k, at
  <2>4. DelIn(l, at) \in Seq(MapNodes) /\ Holds(store', entries[b] - 1, DelIn(l, at), b)
    BY <1>4, <2>1, <2>2, <2>3, DelHolds
  <2> HIDE DEF v
  <2>5. store[k][v] - 1 \in Int /\ entries[b] - 1 \in Int
    <3>1. store[k][v] \in Int  BY <2>2, <2>3
    <3>2. QED  BY <1>4, <3>1, SMT
  <2>6. store' \in [Keys -> [Values -> Int]] /\ \A j \in Keys : j # k => store'[j] = store[j]
    BY <2>1, <2>2, <2>3, <2>5, CountChanges
  <2>7. CmapInv'  BY <1>1, <1>3, <1>8, <2>1, <2>4, <2>5, <2>6, EndKeeps DEF k
  <2>8. reply'[t] = <<b, Absent>>  BY <1>8, <1>10
  <2>9. reply'[t][1] = b  BY <2>8, SMT
  <2>10. Answered(t)  BY <1>1, <1>4, <1>5, <1>10, <2>9 DEF Answered
  <2>11. QED  BY <2>7, <2>10
<1>11. QED  BY <1>9, <1>10

LEMMA CmapInductive ==
  CmapInv /\ [Next]_vars => CmapInv'
<1> SUFFICES ASSUME CmapInv, [Next]_vars PROVE CmapInv'
  OBVIOUS
<1>1. CASE UNCHANGED vars
  BY <1>1 DEF vars, CmapInv, CmapTypes, CallOf, MutexOf, HoldsIn, Present
<1>2. CASE Next  BY <1>2, BeginKeeps, WalkKeeps, SetKeeps, GetKeeps, DelKeeps DEF Next
<1>3. QED  BY <1>1, <1>2

LEMMA CmapInvariance ==
  Spec => []CmapInv
  BY CmapInitially, CmapInductive, PTL DEF Spec

\* Whatever cmap_set, cmap_get and cmap_del the threads make, any of them on any key and on
\* keys that are set already, the lists are the multimap of the entries set and not deleted,
\* and no longer than the nodes allocated or the entries held at once.
THEOREM MapRepresents ==
  Spec => []RepresentsStore
<1>1. CmapInv => RepresentsStore
  <2> SUFFICES ASSUME CmapInv PROVE RepresentsStore
    OBVIOUS
  <2>1. ASSUME NEW k \in Keys, NEW v \in Values
        PROVE  Cardinality({n \in DOMAIN buck[HashOf[k]] : buck[HashOf[k]][n] = NodeFor(k, v)})
                 = store[k][v]
    <3>1. HashOf[k] \in Buckets /\ k \in KeysOf(HashOf[k])  BY CmapFacts DEF KeysOf
    <3>2. HoldsIn(HashOf[k])  BY <3>1 DEF CmapInv
    <3>3. Where(buck[HashOf[k]], {NodeFor(k, v)})
            = {n \in DOMAIN buck[HashOf[k]] : buck[HashOf[k]][n] = NodeFor(k, v)}
      BY DEF Where
    <3>4. Cardinality(Where(buck[HashOf[k]], {NodeFor(k, v)})) = store[k][v]
      BY <3>1, <3>2 DEF HoldsIn, Holds
    <3>5. QED  BY <3>3, <3>4
  <2>2. ASSUME NEW b \in Buckets
        PROVE  /\ Cardinality({n \in DOMAIN buck[b] : buck[b][n].in_use = 1}) = entries[b]
               /\ Len(buck[b]) <= IF DATA_SIZE > MaxEntries THEN DATA_SIZE ELSE MaxEntries
    <3>1. HoldsIn(b) /\ buck[b] \in Seq(MapNodes)  BY DEF CmapInv, CmapTypes
    <3>2. \A n \in DOMAIN buck[b] : buck[b][n] \in MapNodes  BY <3>1, ListFacts
    <3>3. Where(buck[b], Busy) = {n \in DOMAIN buck[b] : buck[b][n].in_use = 1}
      BY <3>2 DEF Where, Busy
    <3>4. Cardinality(Where(buck[b], Busy)) = entries[b]  BY <3>1 DEF HoldsIn, Holds
    <3>5. Len(buck[b]) <= DATA_SIZE \/ Len(buck[b]) <= MaxEntries  BY <3>1 DEF HoldsIn, Holds
    <3>6. Len(buck[b]) \in Nat  BY <3>1, ListFacts
    <3>7. Len(buck[b]) <= IF DATA_SIZE > MaxEntries THEN DATA_SIZE ELSE MaxEntries
      BY <3>5, <3>6, CmapFacts, SMT
    <3>8. QED  BY <3>3, <3>4, <3>7
  <2>3. QED  BY <2>1, <2>2 DEF RepresentsStore
<1>2. QED  BY <1>1, CmapInvariance, PTL

\* cmap_get answers with a value of its key that was set and not deleted, and cmap_get and
\* cmap_del miss exactly the keys without an entry.
THEOREM AnswersAreStored ==
  Spec => AnswersFromStore
<1>1. CmapInv /\ [Next]_vars =>
        [\A t \in Clients : call[t].op \in {"get", "del"} /\ call'[t] = Idle => Answered(t)]_vars
  <2> SUFFICES ASSUME CmapInv, Next, NEW t \in Clients, call[t].op \in {"get", "del"},
                      call'[t] = Idle
               PROVE  Answered(t)
    OBVIOUS
  <2>1. call[t] # Idle  BY CallFacts
  <2>2. PICK u \in Clients : Begin(u) \/ Walk(u) \/ Set(u) \/ Get(u) \/ Del(u)  BY DEF Next
  <2>3. call \in [Clients -> Calls \union {Idle}]  BY DEF CmapInv, CmapTypes
  <2>4. u = t
    <3>1. ASSUME u # t PROVE call'[t] = call[t]
      BY <2>2, <2>3, <3>1 DEF Begin, Walk, Set, Get, Del, Ends
    <3>2. QED  BY <2>1, <3>1
  <2>5. ~Begin(t)  BY <2>1 DEF Begin
  <2>6. ~Walk(t)  BY WalkKeeps
  <2>7. ~Set(t)  BY DEF Set, Ends
  <2>8. QED  BY <2>2, <2>4, <2>5, <2>6, <2>7, GetKeeps, DelKeeps
<1>2. QED  BY <1>1, CmapInvariance, PTL DEF Spec, AnswersFromStore

\* Without calls that miss, a thread outside a call holds no mutex of a bucket.
THEOREM MutexReturned ==
  ASSUME ~CallsAbsent
  PROVE  Spec => []LockReleased
<1>1. CmapInv => LockReleased  BY DEF CmapInv, MutexOf, LockReleased
<1>2. QED  BY <1>1, CmapInvariance, PTL

-----------------------------------------------------------------------------
\* main of cmap.c.
\* The list l of bucket b has one node for each key of the map s.
Sound(s, l, b) ==
    /\ \A n \in 1 .. Len(l) : l[n].in_use = 1 =>
         l[n].index \in KeysOf(b) /\ s[l[n].index] = l[n].value /\ l[n].value # Absent
    /\ \A m, n \in 1 .. Len(l) :
         l[m].in_use = 1 /\ l[n].in_use = 1 /\ l[m].index = l[n].index => m = n
    /\ \A k \in KeysOf(b) : s[k] # Absent => Used(l, k) # {}

\* Main sets no key twice.
LEMMA SetSound ==
  ASSUME NEW b \in Buckets, NEW S, NEW s \in [Keys -> S],
         NEW l \in Seq(MapNodes), Sound(s, l, b),
         NEW k \in KeysOf(b), s[k] = Absent, NEW v \in Nat
  PROVE  /\ SetIn(l, k, v) \in Seq(MapNodes)
         /\ Sound([s EXCEPT ![k] = v], SetIn(l, k, v), b)
<1> DEFINE x == NodeFor(k, v)
           z == [s EXCEPT ![k] = v]
<1>1. x \in MapNodes /\ x.index = k /\ x.value = v /\ x.in_use = 1 /\ v # Absent
  BY CmapFacts, SMT DEF NodeFor, MapNodes, KeysOf, Absent
<1>2. z[k] = v /\ \A j \in KeysOf(b) : j # k => z[j] = s[j]
  BY DEF KeysOf
<1>3. \A n \in 1 .. Len(l) : l[n].in_use = 1 => l[n].index # k  BY DEF Sound
<1>4. Len(l) \in Nat /\ \A n \in 1 .. Len(l) : l[n] \in MapNodes  BY LenProperties, ElementOfSeq
<1> HIDE DEF x, z
<1>5. CASE FreeIn(l) = {}
  <2> DEFINE m == <<x>> \o l
  <2>1. SetIn(l, k, v) = m  BY <1>5, SetShape DEF x
  <2>2. m \in Seq(MapNodes) /\ Len(m) = Len(l) + 1  BY <1>1, <1>4, SMT
  <2>3. m[1] = x /\ \A n \in 2 .. Len(m) : m[n] = l[n - 1] /\ n - 1 \in 1 .. Len(l)
    BY <1>1, <1>4, <2>2, SMT
  <2>4. \A n \in 1 .. Len(l) : n + 1 \in 2 .. Len(m) /\ m[n + 1] = l[n]
    BY <1>4, <2>2, <2>3, SMT
  <2> HIDE DEF m
  <2>5. \A n \in 1 .. Len(m) : m[n].in_use = 1 =>
           m[n].index \in KeysOf(b) /\ z[m[n].index] = m[n].value /\ m[n].value # Absent
    <3> SUFFICES ASSUME NEW n \in 1 .. Len(m), m[n].in_use = 1
                 PROVE  /\ m[n].index \in KeysOf(b) /\ z[m[n].index] = m[n].value
                        /\ m[n].value # Absent
      OBVIOUS
    <3>1. CASE n = 1  BY <3>1, <2>3, <1>1, <1>2
    <3>2. CASE n # 1
      <4>1. m[n] = l[n - 1] /\ n - 1 \in 1 .. Len(l)  BY <3>2, <2>3, <2>2, <1>4, SMT
      <4>2. QED  BY <4>1, <1>2, <1>3, SMT DEF Sound
    <3>3. QED  BY <3>1, <3>2
  <2>6. ASSUME NEW p \in 1 .. Len(m), NEW q \in 1 .. Len(m),
               m[p].in_use = 1, m[q].in_use = 1, m[p].index = m[q].index
        PROVE  p = q
    <3>1. \A n \in 1 .. Len(m) : n # 1 => m[n] = l[n - 1] /\ n - 1 \in 1 .. Len(l)
      BY <2>3, <2>2, <1>4, SMT
    <3>2. p = 1 <=> q = 1  BY <3>1, <2>6, <2>3, <1>1, <1>3
    <3>3. p # 1 /\ q # 1 => p - 1 = q - 1  BY <3>1, <2>6 DEF Sound
    <3>4. QED  BY <3>2, <3>3, <2>2, <1>4, SMT
  <2>7. ASSUME NEW j \in KeysOf(b), z[j] # Absent PROVE Used(m, j) # {}
    <3>1. CASE j = k
      <4>1. 1 \in Used(m, j)  BY <3>1, <2>2, <2>3, <1>1, <1>4, SMT DEF Used
      <4>2. QED  BY <4>1
    <3>2. CASE j # k
      <4>1. PICK n \in Used(l, j) : TRUE  BY <3>2, <2>7, <1>2 DEF Sound
      <4>2. n + 1 \in Used(m, j)  BY <4>1, <2>4, <2>2, <1>4, SMT DEF Used
      <4>3. QED  BY <4>2
    <3>3. QED  BY <3>1, <3>2
  <2>8. QED  BY <2>1, <2>2, <2>5, <2>6, <2>7 DEF Sound, z
<1>6. CASE FreeIn(l) # {}
  <2>1. PICK f \in FreeIn(l) : SetIn(l, k, v) = [l EXCEPT ![f] = x]
    BY <1>6, SetShape DEF x
  <2> DEFINE m == [l EXCEPT ![f] = x]
  <2>2. f \in 1 .. Len(l) /\ l[f].in_use = 0  BY SMT DEF FreeIn
  <2>3. m \in Seq(MapNodes) /\ Len(m) = Len(l)  BY <1>1, <2>2, SMT
  <2>4. m[f] = x /\ \A n \in 1 .. Len(l) : n # f => m[n] = l[n]  BY <2>2, <1>4, SMT
  <2> HIDE DEF m
  <2>5. \A n \in 1 .. Len(m) : m[n].in_use = 1 =>
           m[n].index \in KeysOf(b) /\ z[m[n].index] = m[n].value /\ m[n].value # Absent
    <3> SUFFICES ASSUME NEW n \in 1 .. Len(m), m[n].in_use = 1
                 PROVE  /\ m[n].index \in KeysOf(b) /\ z[m[n].index] = m[n].value
                        /\ m[n].value # Absent
      OBVIOUS
    <3>1. CASE n = f  BY <3>1, <2>4, <1>1, <1>2
    <3>2. CASE n # f  BY <3>2, <2>3, <2>4, <1>2, <1>3, SMT DEF Sound
    <3>3. QED  BY <3>1, <3>2
  <2>6. ASSUME NEW p \in 1 .. Len(m), NEW q \in 1 .. Len(m),
               m[p].in_use = 1, m[q].in_use = 1, m[p].index = m[q].index
        PROVE  p = q
    <3>1. p = f <=> q = f  BY <2>3, <2>4, <2>6, <1>1, <1>3, SMT
    <3>2. p # f /\ q # f => p = q  BY <2>3, <2>4, <2>6 DEF Sound
    <3>3. QED  BY <3>1, <3>2
  <2>7. ASSUME NEW j \in KeysOf(b), z[j] # Absent PROVE Used(m, j) # {}
    <3>1. CASE j = k
      <4>1. f \in Used(m, j)  BY <3>1, <2>2, <2>3, <2>4, <1>1, SMT DEF Used
      <4>2. QED  BY <4>1
    <3>2. CASE j # k
      <4>1. PICK n \in Used(l, j) : TRUE  BY <3>2, <2>7, <1>2 DEF Sound
      <4>2. n \in Used(m, j)  BY <4>1, <2>2, <2>3, <2>4, SMT DEF Used
      <4>3. QED  BY <4>2
    <3>3. QED  BY <3>1, <3>2
  <2>8. QED  BY <2>1, <2>3, <2>5, <2>6, <2>7 DEF Sound, z, m
<1>7. QED  BY <1>5, <1>6

\* A list does not change when the map does for a key of another bucket.
LEMMA OtherSound ==
  ASSUME NEW S, NEW s \in [Keys -> S], NEW b, NEW l, Sound(s, l, b),
         NEW k \in Keys, HashOf[k] # b, NEW v
  PROVE  Sound([s EXCEPT ![k] = v], l, b)
<1>1. \A j \in KeysOf(b) : [s EXCEPT ![k] = v][j] = s[j]  BY DEF KeysOf
<1>2. QED  BY <1>1 DEF Sound

\* A key that is there is found.
LEMMA PresentIsFound ==
  ASSUME NEW b, NEW k \in KeysOf(b), NEW s, NEW l \in Seq(MapNodes), Sound(s, l, b)
  PROVE  /\ Find(l, k) # 0 => Find(l, k) \in Used(l, k) /\ l[Find(l, k)].value = s[k]
         /\ s[k] # Absent => Find(l, k) # 0
<1>1. 0 \notin Used(l, k)  BY LenProperties, SMT DEF Used
<1>2. \A n \in Used(l, k) : l[n].value = s[k]  BY LenProperties DEF Sound, Used
<1>3. s[k] # Absent => Used(l, k) # {}  BY DEF Sound
<1>4. QED  BY <1>1, <1>2, <1>3, WalkFinds

INSTANCE ModArithmetic

CONSTANTS Incs, Decs
VARIABLES pc, i, node, val, inc_done_count, dec_done_count, verdict
M == INSTANCE CmapMain

\* main of cmap.c.  The keys are the loop indices, there are as many threads of each kind,
\* and neither main nor the free mutex is one of them.
MainSizes ==
    /\ Keys # {} /\ Keys = 0 .. M!TOTAL_VAL_COUNT - 1
    /\ IsFiniteSet(Incs) /\ IsFiniteSet(Decs) /\ Incs \intersect Decs = {}
    /\ Cardinality(Incs) = Cardinality(Decs)
    /\ M!Main \notin M!Worker /\ M!None \notin M!Worker

\* The increments, or decrements, of key k made by the threads of S, and what they leave.
Past(S, k) == Cardinality({t \in S : i[t] > k})
Tally(k) == (k * (Past(Incs, k) - Past(Decs, k))) % UINT64

\* The map main and the threads have made so far.
Inserting == pc[M!Main] = "insert"
Made == [k \in Keys |-> IF Inserting /\ i[M!Main] <= k THEN Absent ELSE Tally(k)]

\* Verify also looks at the free nodes.
Zeroed(l) == \A n \in 1 .. Len(l) : l[n].in_use = 0 => l[n].value = 0

MainTypes ==
    /\ buck \in [Buckets -> Seq(MapNodes)]
    /\ pc \in [M!Worker \union {M!Main} -> {"insert", "join", "free", "new", "lock", "walk",
                                            "store", "done", "exited"}]
    /\ i \in [M!Worker \union {M!Main} -> Nat]
    /\ block \in [Buckets -> M!Worker \union {M!None}]
    /\ DOMAIN node = M!Worker /\ DOMAIN val = M!Worker

\* Where a thread is says how far its loop is; none of them gives up.
ThreadInv ==
    \A t \in M!Worker :
      /\ pc[t] \in {"new", "lock", "walk", "store", "done", "exited"}
      /\ pc[t] = "new" <=> Inserting
      /\ pc[t] = "new" => i[t] = 0
      /\ pc[t] \in {"lock", "walk", "store"} => i[t] \in Keys
      /\ pc[t] \in {"done", "exited"} => i[t] = M!TOTAL_VAL_COUNT

\* A thread in cmap_get holds the mutex of the bucket, so that between its load and its
\* store the node is that of its key and the value the one it loaded.
Held(t) ==
    /\ pc[t] \in {"walk", "store"} => block[HashOf[i[t]]] = t
    /\ pc[t] = "store" => /\ node[t] = Find(buck[HashOf[i[t]]], i[t])
                          /\ val[t] = Tally(i[t])

MainInv ==
    /\ MainTypes /\ ThreadInv
    /\ \A t \in M!Worker : Held(t)
    /\ pc[M!Main] \in {"insert", "join", "free", "exited"}
    /\ Inserting => i[M!Main] \in Keys
    /\ pc[M!Main] \in {"insert", "join"} =>
         \A b \in Buckets : Sound(Made, buck[b], b) /\ Zeroed(buck[b])
    /\ pc[M!Main] \in {"free", "exited"} => \A t \in M!Worker : pc[t] = "exited"
    /\ verdict # "invalid"

\* Cardinality as CmapMain knows it.
LEMMA SameCardinality == \A S : M!Cardinality(S) = Cardinality(S)
  BY DEF M!Cardinality, Cardinality

LEMMA MainFacts ==
  ASSUME MainSizes
  PROVE  /\ M!TOTAL_VAL_COUNT \in Nat /\ 0 \in Keys /\ UINT64 \in Nat \ {0}
         /\ \A k \in Keys : /\ k \in Nat /\ k < M!TOTAL_VAL_COUNT /\ HashOf[k] \in Buckets
                            /\ IF k + 1 < M!TOTAL_VAL_COUNT THEN k + 1 \in Keys
                                                           ELSE k + 1 = M!TOTAL_VAL_COUNT
         /\ M!Worker = Incs \union Decs /\ M!Main \notin M!Worker
<1>1. M!TOTAL_VAL_COUNT \in Nat
  BY CmapFacts, SameCardinality, FS_CardinalityType DEF M!TOTAL_VAL_COUNT
<1>2. Keys = 0 .. M!TOTAL_VAL_COUNT - 1 /\ Keys # {}  BY DEF MainSizes
<1>3. QED  BY <1>1, <1>2, CmapAssumption, SMT DEF MainSizes, M!Worker

\* The map of main is that of Cmap.
LEMMA SameMap ==
  /\ M!Buckets = Buckets /\ M!FreeNode = FreeNode /\ M!None = None
  /\ \A l, k : M!Find(l, k) = Find(l, k)
  /\ \A l, k, v : M!SetIn(l, k, v) = SetIn(l, k, v)
<1>1. M!Buckets = Buckets /\ M!FreeNode = FreeNode  BY DEF M!Buckets, Buckets, M!FreeNode, FreeNode
<1>2. \A S : M!First(S) = First(S)  BY DEF M!First, First, M!Min, Min
<1>3. \A k, v : M!NodeFor(k, v) = NodeFor(k, v)  BY DEF M!NodeFor, NodeFor
<1>4. \A l, k : M!Find(l, k) = Find(l, k)  BY <1>2 DEF M!Find, Find
<1>5. \A l : M!FindFree(l) = FindFree(l)  BY <1>2 DEF M!FindFree, FindFree
<1>6. \A l, k, v : M!SetIn(l, k, v) = SetIn(l, k, v)
  BY <1>3, <1>5 DEF M!SetIn, SetIn, M!SetAt, SetAt
<1>7. M!None = None  BY DEF M!None, None
<1>8. QED  BY <1>1, <1>4, <1>6, <1>7

LEMMA PastCounted ==
  ASSUME NEW S, IsFiniteSet(S), NEW k
  PROVE  Past(S, k) \in Nat
  BY FS_Subset, FS_CardinalityType DEF Past

LEMMA Tallied ==
  ASSUME MainSizes, NEW k \in Keys
  PROVE  Tally(k) \in Nat /\ Tally(k) # Absent
<1>1. Past(Incs, k) \in Nat /\ Past(Decs, k) \in Nat  BY PastCounted DEF MainSizes
<1>2. k \in Nat /\ UINT64 \in Nat \ {0}  BY MainFacts
<1> DEFINE d == Past(Incs, k) - Past(Decs, k)
<1>3. d \in Int  BY <1>1, SMT
<1> HIDE DEF d
<1>4. k * d \in Int  BY <1>2, <1>3, SMT
<1>5. (k * d) % UINT64 \in Nat  BY <1>2, <1>4, SMT
<1>6. QED  BY <1>5, SMT DEF Tally, d, Absent

LEMMA NothingPast ==
  ASSUME MainSizes, NEW k \in Keys, \A t \in M!Worker : i[t] = 0
  PROVE  Tally(k) = 0
<1>1. k \in Nat /\ UINT64 \in Nat \ {0} /\ M!Worker = Incs \union Decs  BY MainFacts
<1>2. {t \in Incs : i[t] > k} = {} /\ {t \in Decs : i[t] > k} = {}  BY <1>1, SMT
<1>3. Past(Incs, k) = 0 /\ Past(Decs, k) = 0  BY <1>2, FS_EmptySet DEF Past
<1>4. k * (0 - 0) = 0 /\ 0 % UINT64 = 0  BY <1>1, SMT
<1>5. QED  BY <1>3, <1>4 DEF Tally

LEMMA AllPast ==
  ASSUME MainSizes, NEW k \in Keys, \A t \in M!Worker : i[t] = M!TOTAL_VAL_COUNT
  PROVE  Tally(k) = 0
<1>1. /\ k \in Nat /\ UINT64 \in Nat \ {0} /\ M!Worker = Incs \union Decs
      /\ M!TOTAL_VAL_COUNT > k
  BY MainFacts
<1>2. {t \in Incs : i[t] > k} = Incs /\ {t \in Decs : i[t] > k} = Decs  BY <1>1
<1>3. Past(Incs, k) = Past(Decs, k)  BY <1>2 DEF Past, MainSizes
<1>4. Past(Incs, k) \in Nat  BY PastCounted DEF MainSizes
<1>5. Past(Incs, k) - Past(Decs, k) = 0  BY <1>3, <1>4, SMT
<1>6. k * 0 = 0 /\ 0 % UINT64 = 0  BY <1>1, SMT
<1>7. QED  BY <1>5, <1>6 DEF Tally

\* A thread that has done its update of a key is past that one.
LEMMA OnePast ==
  ASSUME NEW S, IsFiniteSet(S), S \subseteq M!Worker, MainTypes, NEW t \in M!Worker,
         i[t] \in Nat, i' = [i EXCEPT ![t] = i[t] + 1], NEW k \in Nat
  PROVE  Past(S, k)' = IF t \in S /\ k = i[t] THEN Past(S, k) + 1 ELSE Past(S, k)
<1> DEFINE P == {u \in S : i[u] > k}
           Q == {u \in S : i'[u] > k}
<1>1. Past(S, k) = Cardinality(P) /\ Past(S, k)' = Cardinality(Q)  BY DEF Past
<1>2. /\ i'[t] = i[t] + 1
      /\ \A u \in S : u # t => i'[u] = i[u]
  BY DEF MainTypes
<1>3. IsFiniteSet(P)  BY FS_Subset
<1>4. CASE t \in S /\ k = i[t]
  <2>1. Q = P \union {t} /\ t \notin P  BY <1>2, <1>4, SMT
  <2>2. Cardinality(P \union {t}) = Cardinality(P) + 1  BY <1>3, <2>1, FS_AddElement
  <2>3. QED  BY <1>1, <1>4, <2>1, <2>2
<1>5. CASE ~(t \in S /\ k = i[t])
  <2>1. t \in S => (i[t] + 1 > k <=> i[t] > k)  BY <1>5, SMT
  <2>2. Q = P  BY <1>2, <2>1
  <2>3. QED  BY <1>1, <1>5, <2>2
<1>6. QED  BY <1>4, <1>5

LEMMA TallyMoves ==
  ASSUME MainSizes, MainTypes, NEW t \in M!Worker, i[t] \in Keys,
         i' = [i EXCEPT ![t] = i[t] + 1], NEW k \in Keys
  PROVE  Tally(k)' = IF k = i[t] THEN M!Callback(t, Tally(k), k) ELSE Tally(k)
<1>1. /\ k \in Nat /\ i[t] \in Nat /\ UINT64 \in Nat \ {0}
      /\ Incs \subseteq M!Worker /\ Decs \subseteq M!Worker /\ t \in Incs \union Decs
  BY MainFacts
<1>2. Past(Incs, k) \in Nat /\ Past(Decs, k) \in Nat  BY PastCounted DEF MainSizes
<1>3. Past(Incs, k)' = IF t \in Incs /\ k = i[t] THEN Past(Incs, k) + 1 ELSE Past(Incs, k)
  BY <1>1, OnePast DEF MainSizes
<1>4. Past(Decs, k)' = IF t \in Decs /\ k = i[t] THEN Past(Decs, k) + 1 ELSE Past(Decs, k)
  BY <1>1, OnePast DEF MainSizes
<1> DEFINE d == Past(Incs, k) - Past(Decs, k)
<1>5. d \in Int  BY <1>2, SMT
<1>6. Tally(k) = (k * d) % UINT64  BY DEF Tally
<1>7. Tally(k)' = (k * (Past(Incs, k)' - Past(Decs, k)')) % UINT64  BY DEF Tally
<1>8. CASE k # i[t]  BY <1>3, <1>4, <1>6, <1>7, <1>8
<1>9. CASE k = i[t] /\ t \in Incs
  <2>1. t \notin Decs  BY <1>9 DEF MainSizes
  <2>2. Past(Incs, k)' - Past(Decs, k)' = d + 1  BY <1>2, <1>3, <1>4, <1>9, <2>1, SMT
  <2> HIDE DEF d
  <2>3. k * (d + 1) = k * d + k /\ k * d \in Int  BY <1>1, <1>5, SMT
  <2>4. (((k * d) % UINT64) + k) % UINT64 = (k * d + k) % UINT64  BY <1>1, <2>3, ModAdd, SMT
  <2>5. QED  BY <1>6, <1>7, <1>9, <2>2, <2>3, <2>4 DEF M!Callback
<1>10. CASE k = i[t] /\ t \notin Incs
  <2>1. t \in Decs  BY <1>1, <1>10
  <2>2. Past(Incs, k)' - Past(Decs, k)' = d - 1  BY <1>2, <1>3, <1>4, <1>10, <2>1, SMT
  <2> HIDE DEF d
  <2>3. k * (d - 1) = k * d + (-k) /\ k * d \in Int /\ -k \in Int  BY <1>1, <1>5, SMT
  <2>4. (((k * d) % UINT64) + (-k)) % UINT64 = (k * d + (-k)) % UINT64  BY <1>1, <2>3, ModAdd
  <2>5. (k * d) % UINT64 \in Int  BY <1>1, <2>3, SMT
  <2>6. ((k * d) % UINT64) + (-k) = ((k * d) % UINT64) - k  BY <1>1, <2>5
  <2>7. QED  BY <1>6, <1>7, <1>10, <2>2, <2>3, <2>4, <2>6 DEF M!Callback
<1>11. QED  BY <1>8, <1>9, <1>10


\* The callback of cmap_get writes the value of the one node of the key.
LEMMA UpdateSound ==
  ASSUME NEW b \in Buckets, NEW S, NEW s \in [Keys -> S],
         NEW l \in Seq(MapNodes), Sound(s, l, b), Zeroed(l),
         NEW k \in KeysOf(b), NEW p \in Used(l, k), NEW v \in Nat
  PROVE  /\ [l EXCEPT ![p].value = v] \in Seq(MapNodes)
         /\ Sound([s EXCEPT ![k] = v], [l EXCEPT ![p].value = v], b)
         /\ Zeroed([l EXCEPT ![p].value = v])
<1> DEFINE x == [l[p] EXCEPT !.value = v]
           m == [l EXCEPT ![p] = x]
           z == [s EXCEPT ![k] = v]
<1>1. p \in 1 .. Len(l) /\ l[p].in_use = 1 /\ l[p].index = k /\ l[p] \in MapNodes
  BY LenProperties, ElementOfSeq DEF Used
<1>2. x \in MapNodes /\ x.index = k /\ x.in_use = 1 /\ x.value = v /\ v # Absent
  <2>1. l[p] = [index |-> l[p].index, value |-> l[p].value, in_use |-> l[p].in_use]
    BY <1>1 DEF MapNodes
  <2>2. x = [index |-> l[p].index, value |-> v, in_use |-> l[p].in_use]  BY <2>1, SMT
  <2>3. l[p].index \in Nat /\ l[p].in_use \in {0, 1}  BY <1>1 DEF MapNodes
  <2>4. QED  BY <1>1, <2>2, <2>3, SMT DEF MapNodes, Absent
<1>3. m = [l EXCEPT ![p].value = v]  OBVIOUS
<1>4. z[k] = v /\ \A j \in KeysOf(b) : j # k => z[j] = s[j]  BY DEF KeysOf
<1> HIDE DEF x, z
<1>5. m \in Seq(MapNodes) /\ Len(m) = Len(l)  BY <1>1, <1>2, SMT
<1>6. m[p] = x /\ \A n \in 1 .. Len(l) : n # p => m[n] = l[n]  BY <1>1, LenProperties
<1> HIDE DEF m
<1>7. \A n \in 1 .. Len(l) : m[n].in_use = l[n].in_use /\ m[n].index = l[n].index
  BY <1>1, <1>2, <1>6
<1>8. \A n \in 1 .. Len(l) : l[n].in_use = 1 /\ n # p => l[n].index # k  BY <1>1 DEF Sound
<1>9. ASSUME NEW n \in 1 .. Len(m), m[n].in_use = 1
      PROVE  m[n].index \in KeysOf(b) /\ z[m[n].index] = m[n].value /\ m[n].value # Absent
  <2>1. CASE n = p  BY <1>2, <1>4, <1>6, <2>1
  <2>2. CASE n # p  BY <1>4, <1>5, <1>6, <1>8, <1>9, <2>2, SMT DEF Sound
  <2>3. QED  BY <2>1, <2>2
<1>10. \A q, n \in 1 .. Len(m) :
         m[q].in_use = 1 /\ m[n].in_use = 1 /\ m[q].index = m[n].index => q = n
  BY <1>5, <1>7 DEF Sound
<1>11. ASSUME NEW j \in KeysOf(b), z[j] # Absent PROVE Used(m, j) # {}
  <2>1. CASE j = k
    <3>1. p \in Used(m, j)  BY <1>1, <1>2, <1>5, <1>6, <2>1, SMT DEF Used
    <3>2. QED  BY <3>1
  <2>2. CASE j # k
    <3>1. PICK n \in Used(l, j) : TRUE  BY <1>4, <1>11, <2>2 DEF Sound
    <3>2. n \in Used(m, j)  BY <1>5, <1>7, <3>1, SMT DEF Used
    <3>3. QED  BY <3>2
  <2>3. QED  BY <2>1, <2>2
<1>12. Sound(z, m, b)  BY <1>5, <1>9, <1>10, <1>11 DEF Sound
<1>13. Zeroed(m)  BY <1>2, <1>5, <1>6, SMT DEF Zeroed
<1>14. QED  BY <1>3, <1>5, <1>12, <1>13 DEF z

LEMMA SetZeroed ==
  ASSUME NEW l \in Seq(MapNodes), Zeroed(l), NEW k \in Nat, NEW v \in Nat
  PROVE  Zeroed(SetIn(l, k, v))
<1> DEFINE x == NodeFor(k, v)
<1>1. x \in MapNodes /\ x.in_use = 1  BY DEF NodeFor, MapNodes
<1>2. Len(l) \in Nat  BY LenProperties
<1>3. CASE FreeIn(l) = {}
  <2> DEFINE m == <<x>> \o l
  <2>1. SetIn(l, k, v) = m  BY <1>3, SetShape
  <2> HIDE DEF x
  <2>2. Len(m) = Len(l) + 1 /\ m[1] = x /\ \A n \in 2 .. Len(m) : m[n] = l[n - 1]
    BY <1>1, <1>2, SMT
  <2> HIDE DEF m
  <2>3. ASSUME NEW n \in 1 .. Len(m), m[n].in_use = 0 PROVE m[n].value = 0
    <3>1. n # 1  BY <1>1, <2>2, <2>3, SMT
    <3>2. n \in 2 .. Len(m) /\ n - 1 \in 1 .. Len(l)  BY <1>2, <2>2, <3>1, SMT
    <3>3. QED  BY <2>2, <2>3, <3>2 DEF Zeroed
  <2>4. QED  BY <2>1, <2>3 DEF Zeroed
<1>4. CASE FreeIn(l) # {}
  <2>1. PICK f \in FreeIn(l) : SetIn(l, k, v) = [l EXCEPT ![f] = x]  BY <1>4, SetShape
  <2> DEFINE m == [l EXCEPT ![f] = x]
  <2> HIDE DEF x
  <2>2. f \in 1 .. Len(l)  BY <1>2, SMT DEF FreeIn
  <2>3. Len(m) = Len(l) /\ m[f] = x /\ \A n \in 1 .. Len(l) : n # f => m[n] = l[n]
    BY <1>1, <1>2, <2>2, SMT
  <2> HIDE DEF m
  <2>4. QED  BY <1>1, <2>1, <2>3, SMT DEF Zeroed, m
<1>5. QED  BY <1>3, <1>4

\* A step that changes the list of one bucket and the entry of one key of it.
LEMMA MadeKept ==
  ASSUME MainSizes, MainInv, pc[M!Main] \in {"insert", "join"}, NEW k \in Keys, NEW v,
         NEW l \in Seq(MapNodes), Sound([Made EXCEPT ![k] = v], l, HashOf[k]), Zeroed(l),
         buck' = [buck EXCEPT ![HashOf[k]] = l], Made' = [Made EXCEPT ![k] = v]
  PROVE  /\ buck' \in [Buckets -> Seq(MapNodes)]
         /\ \A b \in Buckets : Sound(Made', buck'[b], b) /\ Zeroed(buck'[b])
<1>1. buck \in [Buckets -> Seq(MapNodes)] /\ HashOf[k] \in Buckets
  BY MainFacts DEF MainInv, MainTypes
<1>2. \E S : Made \in [Keys -> S]
  <2>1. Made \in [Keys -> {Made[j] : j \in Keys}]  BY DEF Made
  <2>2. QED  BY <2>1
<1>3. ASSUME NEW b \in Buckets PROVE Sound(Made', buck'[b], b) /\ Zeroed(buck'[b])
  <2>1. CASE b = HashOf[k]  BY <1>1, <2>1
  <2>2. CASE b # HashOf[k]
    <3>1. Sound(Made, buck[b], b) /\ Zeroed(buck[b])  BY DEF MainInv
    <3>2. Sound([Made EXCEPT ![k] = v], buck[b], b)  BY <1>2, <2>2, <3>1, OtherSound
    <3>3. QED  BY <1>1, <2>2, <3>1, <3>2
  <2>3. QED  BY <2>1, <2>2
<1>4. QED  BY <1>1, <1>3

LEMMA MainInitially ==
  ASSUME MainSizes, M!Init
  PROVE  MainInv
<1> DEFINE e == [n \in 1 .. DATA_SIZE |-> FreeNode]
<1>1. e \in Seq(MapNodes) /\ Len(e) = DATA_SIZE
      /\ \A n \in 1 .. DATA_SIZE : e[n].in_use = 0 /\ e[n].value = 0
  <2>1. DATA_SIZE \in Nat /\ FreeNode \in MapNodes /\ FreeNode.in_use = 0 /\ FreeNode.value = 0
    BY CmapFacts DEF FreeNode, MapNodes
  <2>2. QED  BY <2>1, SMT
<1>2. buck = [b \in Buckets |-> e]  BY SameMap DEF M!Init, M!Alloc
<1> HIDE DEF e
<1>3. /\ pc = [t \in M!Worker \union {M!Main} |-> IF t = M!Main THEN "insert" ELSE "new"]
      /\ i = [t \in M!Worker \union {M!Main} |-> 0] /\ verdict = "none"
      /\ block = [b \in Buckets |-> M!None] /\ DOMAIN node = M!Worker /\ DOMAIN val = M!Worker
  BY SameMap DEF M!Init, M!Alloc
<1>4. MainTypes  BY <1>1, <1>2, <1>3 DEF MainTypes
<1>5. pc[M!Main] = "insert" /\ i[M!Main] = 0 /\ Inserting  BY <1>3 DEF Inserting
<1>6. \A t \in M!Worker : pc[t] = "new" /\ i[t] = 0  BY <1>3, MainFacts
<1>7. ThreadInv  BY <1>5, <1>6 DEF ThreadInv
<1>8. \A k \in Keys : Made[k] = Absent  BY <1>5, MainFacts, SMT DEF Made
<1>9. ASSUME NEW b \in Buckets PROVE Sound(Made, buck[b], b) /\ Zeroed(buck[b])
  <2>1. buck[b] = e  BY <1>2
  <2>2. Sound(Made, e, b)  BY <1>1, <1>8, CmapFacts, SMT DEF Sound, KeysOf
  <2>3. Zeroed(e)  BY <1>1 DEF Zeroed
  <2>4. QED  BY <2>1, <2>2, <2>3
<1>10. 0 \in Keys  BY MainFacts
<1>11. \A t \in M!Worker : Held(t)  BY <1>6 DEF Held
<1>12. QED  BY <1>3, <1>4, <1>5, <1>7, <1>9, <1>10, <1>11 DEF MainInv

LEMMA InsertKeeps ==
  ASSUME MainSizes, MainInv, M!Insert
  PROVE  MainInv'
<1> DEFINE k == i[M!Main]
           l == buck[HashOf[k]]
<1>1. /\ pc[M!Main] = "insert" /\ Inserting /\ k \in Keys /\ MainTypes /\ ThreadInv
      /\ verdict # "invalid"
      /\ \A b \in Buckets : Sound(Made, buck[b], b) /\ Zeroed(buck[b])
  BY DEF M!Insert, MainInv, Inserting
<1>2. /\ buck' = [buck EXCEPT ![HashOf[k]] = SetIn(l, k, 0)]
      /\ i' = [i EXCEPT ![M!Main] = k + 1] /\ verdict' = verdict
      /\ IF k + 1 < M!TOTAL_VAL_COUNT THEN pc' = pc
         ELSE pc' = [t \in M!Worker \union {M!Main} |-> IF t = M!Main THEN "join" ELSE "lock"]
      /\ block' = block /\ node' = node /\ val' = val
  BY SameMap DEF M!Insert
<1>3. /\ HashOf[k] \in Buckets /\ k \in KeysOf(HashOf[k]) /\ l \in Seq(MapNodes) /\ k \in Nat
      /\ M!Main \notin M!Worker
  BY <1>1, MainFacts DEF MainTypes, KeysOf
<1>4. Made \in [Keys -> Nat \union {Absent}]  BY Tallied DEF Made
<1>5. Made[k] = Absent  BY <1>1, <1>3, SMT DEF Made
<1>6. Sound(Made, l, HashOf[k]) /\ Zeroed(l)  BY <1>1, <1>3
<1>7. i'[M!Main] = k + 1 /\ \A t \in M!Worker : i'[t] = i[t] /\ i[t] = 0
  BY <1>1, <1>2, <1>3 DEF MainTypes, ThreadInv
<1>8. \A j \in Keys : Tally(j) = 0 /\ Tally(j)' = 0
  <2>1. \A j \in Keys : Tally(j) = 0  BY <1>7, NothingPast
  <2>2. ASSUME NEW j \in Keys PROVE Tally(j)' = Tally(j)
    <3>1. Incs \subseteq M!Worker /\ Decs \subseteq M!Worker  BY MainFacts
    <3>2. {t \in Incs : i'[t] > j} = {t \in Incs : i[t] > j}
          /\ {t \in Decs : i'[t] > j} = {t \in Decs : i[t] > j}
      BY <1>7, <3>1
    <3>3. QED  BY <3>2 DEF Tally, Past
  <2>3. QED  BY <2>1, <2>2
<1>9. pc'[M!Main] = IF k + 1 < M!TOTAL_VAL_COUNT THEN "insert" ELSE "join"  BY <1>1, <1>2
<1>10. Made' = [Made EXCEPT ![k] = 0]
  <2>1. Made' = [j \in Keys |-> IF k + 1 < M!TOTAL_VAL_COUNT /\ k + 1 <= j THEN Absent ELSE 0]
    BY <1>7, <1>8, <1>9 DEF Made, Inserting
  <2>2. Made = [j \in Keys |-> IF k <= j THEN Absent ELSE 0]  BY <1>1, <1>8 DEF Made
  <2>3. /\ k \in Nat /\ M!TOTAL_VAL_COUNT \in Nat
        /\ \A j \in Keys : j \in Nat /\ j < M!TOTAL_VAL_COUNT
    BY <1>3, MainFacts
  <2> HIDE DEF k
  <2>4. \A j \in Keys : (k + 1 < M!TOTAL_VAL_COUNT /\ k + 1 <= j) <=> (k <= j /\ j # k)
    BY <2>3, SMT
  <2>5. QED  BY <2>1, <2>2, <2>4
<1> HIDE DEF k, l
<1>11. SetIn(l, k, 0) \in Seq(MapNodes) /\ Sound([Made EXCEPT ![k] = 0], SetIn(l, k, 0), HashOf[k])
  BY <1>3, <1>4, <1>5, <1>6, SetSound
<1>12. Zeroed(SetIn(l, k, 0))  BY <1>3, <1>6, SetZeroed
<1>13. /\ buck' \in [Buckets -> Seq(MapNodes)]
       /\ \A b \in Buckets : Sound(Made', buck'[b], b) /\ Zeroed(buck'[b])
  BY <1>1, <1>2, <1>10, <1>11, <1>12, MadeKept
<1>14. MainTypes'  BY <1>1, <1>2, <1>3, <1>13, SMT DEF MainTypes
<1>15. CASE k + 1 < M!TOTAL_VAL_COUNT
  <2>1. pc' = pc /\ pc'[M!Main] = "insert" /\ Inserting' /\ k + 1 \in Keys
    BY <1>1, <1>2, <1>9, <1>15, MainFacts DEF Inserting
  <2>2. ThreadInv'  BY <1>1, <1>7, <2>1 DEF ThreadInv
  <2>3. \A t \in M!Worker : pc'[t] = "new"  BY <1>1, <2>1 DEF ThreadInv
  <2>4. \A t \in M!Worker : Held(t)'  BY <2>3 DEF Held
  <2>5. QED  BY <1>1, <1>2, <1>7, <1>13, <1>14, <2>1, <2>2, <2>4 DEF MainInv
<1>16. CASE ~(k + 1 < M!TOTAL_VAL_COUNT)
  <2>1. pc'[M!Main] = "join" /\ ~Inserting' /\ \A t \in M!Worker : pc'[t] = "lock"
    BY <1>2, <1>3, <1>16 DEF Inserting
  <2>2. ThreadInv'  BY <1>7, <2>1, MainFacts DEF ThreadInv
  <2>3. \A t \in M!Worker : Held(t)'  BY <2>1 DEF Held
  <2>4. QED  BY <1>1, <1>2, <1>13, <1>14, <2>1, <2>2, <2>3 DEF MainInv
<1>17. QED  BY <1>15, <1>16

\* A thread in its loop finds main waiting for it, and its key in the map.
LEMMA InTheLoop ==
  ASSUME MainSizes, MainInv, NEW t \in M!Worker, pc[t] \in {"lock", "walk", "store", "done"}
  PROVE  pc[M!Main] = "join" /\ ~Inserting
  BY DEF MainInv, ThreadInv, Inserting

\* What a thread holds is left alone by a step of another in another bucket.
OtherKey(t, b) ==
    /\ block[b] \in {t, M!None}
    /\ \A u \in M!Worker : u # t => /\ pc'[u] = pc[u] /\ i'[u] = i[u]
                                    /\ node'[u] = node[u] /\ val'[u] = val[u]
    /\ \A d \in Buckets : d # b => buck'[d] = buck[d] /\ block'[d] = block[d]
    /\ \A k \in Keys : HashOf[k] # b => Tally(k)' = Tally(k)

LEMMA OthersHold ==
  ASSUME MainSizes, MainInv, NEW t \in M!Worker, NEW b \in Buckets, OtherKey(t, b),
         NEW u \in M!Worker, u # t
  PROVE  Held(u)'
<1>1. Held(u) /\ ThreadInv  BY DEF MainInv
<1>2. pc'[u] = pc[u] /\ i'[u] = i[u] /\ node'[u] = node[u] /\ val'[u] = val[u]
  BY DEF OtherKey
<1>3. CASE pc[u] \notin {"walk", "store"}  BY <1>2, <1>3 DEF Held
<1>4. CASE pc[u] \in {"walk", "store"}
  <2>1. PICK j \in Keys : j = i[u]  BY <1>1, <1>4 DEF ThreadInv
  <2>2. block[HashOf[j]] = u /\ u # M!None /\ HashOf[j] \in Buckets
    BY <1>1, <1>4, <2>1, MainFacts DEF Held, MainSizes
  <2>3. HashOf[j] # b  BY <2>2 DEF OtherKey
  <2>4. /\ buck'[HashOf[j]] = buck[HashOf[j]] /\ block'[HashOf[j]] = block[HashOf[j]]
        /\ Tally(j)' = Tally(j)
    BY <2>2, <2>3 DEF OtherKey
  <2>5. i'[u] = j  BY <1>2, <2>1
  <2>6. pc[u] = "store" => node[u] = Find(buck[HashOf[j]], j) /\ val[u] = Tally(j)
    BY <1>1, <2>1 DEF Held
  <2>7. Tally(i[u])' = Tally(j)'  BY <2>5 DEF Tally, Past
  <2>8. QED  BY <1>2, <2>2, <2>4, <2>5, <2>6, <2>7 DEF Held
<1>5. QED  BY <1>3, <1>4

\* Steps of a thread that leave the map and the loop counters alone.
LEMMA ThreadMoves ==
  ASSUME MainSizes, MainInv, NEW t \in M!Worker, NEW w, NEW b \in Buckets,
         \/ pc[t] = "lock" /\ w = "walk"
         \/ pc[t] = "walk" /\ w = "store"
         \/ pc[t] = "done" /\ w = "exited",
         pc' = [pc EXCEPT ![t] = w], UNCHANGED <<buck, i, verdict>>,
         block[b] \in {t, M!None} \/ block' = block,
         block' = [block EXCEPT ![b] = t] \/ block' = block,
         DOMAIN node' = M!Worker, DOMAIN val' = M!Worker,
         \A u \in M!Worker : u # t => node'[u] = node[u] /\ val'[u] = val[u],
         Held(t)'
  PROVE  MainInv'
<1>1. MainTypes /\ ThreadInv /\ verdict # "invalid"  BY DEF MainInv
<1>2. pc[M!Main] = "join" /\ ~Inserting  BY InTheLoop
<1>3. M!Main # t  BY MainFacts
<1>4. pc'[t] = w /\ pc'[M!Main] = "join" /\ \A u \in M!Worker : u # t => pc'[u] = pc[u]
  BY <1>1, <1>2, <1>3 DEF MainTypes
<1>5. block' \in [Buckets -> M!Worker \union {M!None}]  BY <1>1 DEF MainTypes
<1>6. pc' \in [M!Worker \union {M!Main} -> {"insert", "join", "free", "new", "lock", "walk",
                                            "store", "done", "exited"}]
  BY <1>1 DEF MainTypes
<1>7. MainTypes'  BY <1>1, <1>5, <1>6 DEF MainTypes
<1>8. ~Inserting'  BY <1>4 DEF Inserting
<1>9. ThreadInv'  BY <1>1, <1>2, <1>4, <1>8 DEF ThreadInv
<1>10. \A k : Tally(k)' = Tally(k)  BY DEF Tally, Past
<1>11. Made' = Made  BY <1>2, <1>8, <1>10 DEF Made
<1>12. \A d \in Buckets : Sound(Made', buck'[d], d) /\ Zeroed(buck'[d])  BY <1>2, <1>11 DEF MainInv
<1>13. ASSUME NEW u \in M!Worker, u # t PROVE Held(u)'
  <2>1. CASE block' = block
    <3>1. Held(u) /\ pc'[u] = pc[u] /\ node'[u] = node[u] /\ val'[u] = val[u]
      BY <1>4, <1>13 DEF MainInv
    <3>2. Tally(i[u])' = Tally(i[u])  BY DEF Tally, Past
    <3>3. QED  BY <2>1, <3>1, <3>2 DEF Held
  <2>2. CASE block' # block
    <3>1. \A d \in Buckets : d # b => block'[d] = block[d]  BY <1>1, <2>2 DEF MainTypes
    <3>2. OtherKey(t, b)  BY <1>4, <1>10, <2>2, <3>1 DEF OtherKey
    <3>3. QED  BY <1>13, <3>2, OthersHold
  <2>3. QED  BY <2>1, <2>2
<1>14. \A u \in M!Worker : Held(u)'  BY <1>13
<1>15. QED  BY <1>1, <1>4, <1>7, <1>8, <1>9, <1>12, <1>14 DEF MainInv

LEMMA LockKeeps ==
  ASSUME MainSizes, MainInv, NEW t \in M!Worker, M!GetLock(t)
  PROVE  MainInv'
<1>1. /\ pc[t] = "lock" /\ pc' = [pc EXCEPT ![t] = "walk"]
      /\ UNCHANGED <<buck, i, node, val, verdict>>
  BY DEF M!GetLock, M!Goto
<1>2. MainTypes /\ ThreadInv  BY DEF MainInv
<1>3. PICK k \in Keys : k = i[t]  BY <1>1, <1>2 DEF ThreadInv
<1>4. block[HashOf[k]] = M!None /\ block' = [block EXCEPT ![HashOf[k]] = t]
  BY <1>3 DEF M!GetLock, M!LockBucket
<1>5. HashOf[k] \in Buckets  BY MainFacts
<1>6. pc'[t] = "walk" /\ block'[HashOf[k]] = t /\ i'[t] = k
  BY <1>1, <1>2, <1>3, <1>4, <1>5 DEF MainTypes
<1>7. Held(t)'  BY <1>6 DEF Held
<1>8. QED  BY <1>1, <1>2, <1>4, <1>5, <1>7, ThreadMoves DEF MainTypes

\* A thread that holds the mutex finds the node of its key, with the value so far.
LEMMA KeyIsFound ==
  ASSUME MainSizes, MainInv, NEW t \in M!Worker, pc[t] \in {"walk", "store"},
         NEW k, k = i[t]
  PROVE  /\ k \in Keys /\ HashOf[k] \in Buckets /\ k \in KeysOf(HashOf[k]) /\ k \in Nat
         /\ buck[HashOf[k]] \in Seq(MapNodes) /\ block[HashOf[k]] = t
         /\ Sound(Made, buck[HashOf[k]], HashOf[k]) /\ Zeroed(buck[HashOf[k]])
         /\ Find(buck[HashOf[k]], k) # 0
         /\ Find(buck[HashOf[k]], k) \in Used(buck[HashOf[k]], k)
         /\ buck[HashOf[k]][Find(buck[HashOf[k]], k)].value = Tally(k)
<1>1. pc[M!Main] = "join" /\ ~Inserting  BY InTheLoop
<1>2. /\ MainTypes /\ ThreadInv /\ k \in Keys /\ Held(t)
      /\ \A b \in Buckets : Sound(Made, buck[b], b) /\ Zeroed(buck[b])
  BY <1>1 DEF MainInv, ThreadInv
<1>3. /\ HashOf[k] \in Buckets /\ k \in KeysOf(HashOf[k]) /\ k \in Nat
      /\ buck[HashOf[k]] \in Seq(MapNodes)
  BY <1>2, MainFacts DEF MainTypes, KeysOf
<1>4. block[HashOf[k]] = t  BY <1>2 DEF Held
<1>5. Made[k] = Tally(k) /\ Made[k] # Absent  BY <1>1, <1>2, Tallied DEF Made
<1>6. Sound(Made, buck[HashOf[k]], HashOf[k]) /\ Zeroed(buck[HashOf[k]])  BY <1>2, <1>3
<1> DEFINE l == buck[HashOf[k]]
<1>7. Find(l, k) # 0 /\ Find(l, k) \in Used(l, k) /\ l[Find(l, k)].value = Tally(k)
  BY <1>3, <1>5, <1>6, PresentIsFound, SMT
<1>8. QED  BY <1>2, <1>3, <1>4, <1>6, <1>7

LEMMA LoadKeeps ==
  ASSUME MainSizes, MainInv, NEW t \in M!Worker, M!GetWalk(t)
  PROVE  MainInv'
<1>1. pc[t] = "walk"  BY DEF M!GetWalk
<1>2. PICK k : k = i[t]  OBVIOUS
<1> DEFINE l == buck[HashOf[k]]
<1>3. /\ HashOf[k] \in Buckets /\ k \in Keys /\ block[HashOf[k]] = t
      /\ Find(l, k) # 0 /\ l[Find(l, k)].value = Tally(k)
  BY <1>1, <1>2, KeyIsFound
<1>4. /\ node' = [node EXCEPT ![t] = Find(l, k)] /\ val' = [val EXCEPT ![t] = Tally(k)]
      /\ pc' = [pc EXCEPT ![t] = "store"] /\ UNCHANGED <<buck, block, i, verdict>>
  BY <1>2, <1>3, SameMap DEF M!GetWalk, M!Goto
<1>5. MainTypes  BY DEF MainInv
<1>6. /\ pc'[t] = "store" /\ i'[t] = k /\ node'[t] = Find(l, k) /\ val'[t] = Tally(k)
      /\ block'[HashOf[k]] = t /\ buck'[HashOf[k]] = l
  BY <1>2, <1>3, <1>4, <1>5 DEF MainTypes
<1>7. Tally(i[t])' = Tally(k)  BY <1>4, <1>6 DEF Tally, Past
<1>8. Held(t)'  BY <1>6, <1>7 DEF Held
<1>9. /\ DOMAIN node' = M!Worker /\ DOMAIN val' = M!Worker
      /\ \A u \in M!Worker : u # t => node'[u] = node[u] /\ val'[u] = val[u]
  BY <1>4, <1>5 DEF MainTypes
<1>10. QED  BY <1>1, <1>3, <1>4, <1>8, <1>9, ThreadMoves

LEMMA StoreKeeps ==
  ASSUME MainSizes, MainInv, NEW t \in M!Worker, M!GetStore(t)
  PROVE  MainInv'
<1>1. pc[t] = "store" /\ pc[M!Main] = "join" /\ ~Inserting
  BY InTheLoop DEF M!GetStore
<1>2. MainTypes /\ ThreadInv /\ verdict # "invalid" /\ Held(t)  BY DEF MainInv
<1>0. PICK k : k = i[t]  OBVIOUS
<1> DEFINE l == buck[HashOf[k]]
           p == Find(l, k)
           v == M!Callback(t, Tally(k), k)
           w == IF k + 1 < M!TOTAL_VAL_COUNT THEN "lock" ELSE "done"
<1>3. /\ k \in Keys /\ HashOf[k] \in Buckets /\ k \in KeysOf(HashOf[k]) /\ k \in Nat
      /\ l \in Seq(MapNodes) /\ block[HashOf[k]] = t /\ Sound(Made, l, HashOf[k]) /\ Zeroed(l)
      /\ p \in Used(l, k)
  BY <1>0, <1>1, KeyIsFound
<1>4. node[t] = p /\ val[t] = Tally(k)  BY <1>0, <1>1, <1>2 DEF Held
<1>5. Tally(k) \in Nat /\ UINT64 \in Nat \ {0} /\ M!Main # t  BY <1>3, Tallied, MainFacts
<1>6. /\ buck' = [buck EXCEPT ![HashOf[k]] = [l EXCEPT ![p].value = v]]
      /\ i' = [i EXCEPT ![t] = k + 1] /\ verdict' = verdict /\ pc' = [pc EXCEPT ![t] = w]
      /\ block' = [block EXCEPT ![HashOf[k]] = M!None]
      /\ node' = [node EXCEPT ![t] = 0] /\ val' = [val EXCEPT ![t] = 0]
  BY <1>0, <1>4 DEF M!GetStore, M!Goto, M!UnlockBucket
<1>7. i' = [i EXCEPT ![t] = i[t] + 1]  BY <1>0, <1>6
<1>8. v \in Nat
  <2>1. Tally(k) + k \in Int /\ Tally(k) - k \in Int  BY <1>3, <1>5, SMT
  <2>2. (Tally(k) + k) % UINT64 \in Nat /\ (Tally(k) - k) % UINT64 \in Nat  BY <1>5, <2>1, SMT
  <2>3. QED  BY <2>2 DEF M!Callback
<1>9. Made \in [Keys -> Nat \union {Absent}]  BY Tallied DEF Made
<1>10. pc'[M!Main] = "join" /\ ~Inserting'
  BY <1>1, <1>2, <1>5, <1>6 DEF Inserting, MainTypes
<1>11. \A j \in Keys : Tally(j)' = IF j = k THEN v ELSE Tally(j)
  BY <1>0, <1>2, <1>3, <1>7, TallyMoves
<1>12. Made' = [Made EXCEPT ![k] = v]
  <2>1. Made = [j \in Keys |-> Tally(j)] /\ Made' = [j \in Keys |-> Tally(j)']
    BY <1>1, <1>10 DEF Made
  <2> HIDE DEF v
  <2>2. QED  BY <1>11, <2>1
<1> HIDE DEF l, p, v, w
<1>13. /\ [l EXCEPT ![p].value = v] \in Seq(MapNodes)
       /\ Sound([Made EXCEPT ![k] = v], [l EXCEPT ![p].value = v], HashOf[k])
       /\ Zeroed([l EXCEPT ![p].value = v])
  BY <1>3, <1>8, <1>9, UpdateSound
<1>14. /\ buck' \in [Buckets -> Seq(MapNodes)]
       /\ \A b \in Buckets : Sound(Made', buck'[b], b) /\ Zeroed(buck'[b])
  BY <1>1, <1>3, <1>6, <1>12, <1>13, MadeKept
<1>15. w \in {"lock", "done"}  BY DEF w
<1>16. MainTypes'
  <2>1. pc' \in [M!Worker \union {M!Main} -> {"insert", "join", "free", "new", "lock", "walk",
                                              "store", "done", "exited"}]
    BY <1>2, <1>6, <1>15 DEF MainTypes
  <2>2. i' \in [M!Worker \union {M!Main} -> Nat]
    <3>1. k + 1 \in Nat  BY <1>3, SMT
    <3>2. QED  BY <1>2, <1>6, <3>1 DEF MainTypes
  <2>3. block' \in [Buckets -> M!Worker \union {M!None}]  BY <1>2, <1>6 DEF MainTypes
  <2>4. QED  BY <1>2, <1>6, <1>14, <2>1, <2>2, <2>3 DEF MainTypes
<1>17. /\ pc'[t] = w /\ i'[t] = k + 1
       /\ \A u \in M!Worker : u # t => /\ pc'[u] = pc[u] /\ i'[u] = i[u]
                                       /\ node'[u] = node[u] /\ val'[u] = val[u]
  BY <1>2, <1>6 DEF MainTypes
<1>18. ThreadInv'
  <2>1. IF k + 1 < M!TOTAL_VAL_COUNT THEN k + 1 \in Keys ELSE k + 1 = M!TOTAL_VAL_COUNT
    BY <1>3, MainFacts
  <2>2. QED  BY <1>1, <1>2, <1>10, <1>17, <2>1 DEF ThreadInv, w
<1>19. Held(t)'  BY <1>15, <1>17 DEF Held
<1>20. OtherKey(t, HashOf[k])
  <2>1. \A d \in Buckets : d # HashOf[k] => buck'[d] = buck[d] /\ block'[d] = block[d]
    BY <1>2, <1>6 DEF MainTypes
  <2>2. \A j \in Keys : HashOf[j] # HashOf[k] => Tally(j)' = Tally(j)  BY <1>11
  <2>3. QED  BY <1>3, <1>17, <2>1, <2>2 DEF OtherKey
<1>21. \A u \in M!Worker : Held(u)'  BY <1>3, <1>19, <1>20, OthersHold
<1>22. QED  BY <1>2, <1>6, <1>10, <1>14, <1>16, <1>18, <1>21 DEF MainInv

LEMMA VerifyKeeps ==
  ASSUME MainSizes, MainInv, M!Verify
  PROVE  MainInv'
<1>1. /\ pc[M!Main] = "join" /\ \A t \in M!Worker : pc[t] = "exited"
      /\ pc' = [pc EXCEPT ![M!Main] = "free"] /\ UNCHANGED <<buck, block, i, node, val>>
      /\ verdict' = IF \E b \in Buckets : \E n \in 1 .. Len(buck[b]) : buck[b][n].value # 0
                    THEN "invalid" ELSE "valid"
  BY SameMap DEF M!Verify, M!Goto
<1>2. /\ MainTypes /\ ThreadInv
      /\ \A b \in Buckets : Sound(Made, buck[b], b) /\ Zeroed(buck[b])
  BY <1>1 DEF MainInv
<1>3. \A t \in M!Worker : i[t] = M!TOTAL_VAL_COUNT  BY <1>1, <1>2 DEF ThreadInv
<1>4. \A k \in Keys : Made[k] = 0
  <2>1. \A k \in Keys : Tally(k) = 0  BY <1>3, AllPast
  <2>2. QED  BY <1>1, <2>1 DEF Made, Inserting
<1>5. ASSUME NEW b \in Buckets, NEW n \in 1 .. Len(buck[b]) PROVE buck[b][n].value = 0
  <2>1. buck[b][n] \in MapNodes  BY <1>2, ElementOfSeq DEF MainTypes
  <2>2. buck[b][n].in_use \in {0, 1}  BY <2>1 DEF MapNodes
  <2>3. CASE buck[b][n].in_use = 0  BY <1>2, <2>3 DEF Zeroed
  <2>4. CASE buck[b][n].in_use = 1
    <3>1. buck[b][n].index \in KeysOf(b) /\ Made[buck[b][n].index] = buck[b][n].value
      BY <1>2, <2>4 DEF Sound
    <3>2. QED  BY <1>4, <3>1 DEF KeysOf
  <2>5. QED  BY <2>2, <2>3, <2>4
<1>6. verdict' # "invalid"  BY <1>1, <1>5
<1>7. /\ pc'[M!Main] = "free" /\ ~Inserting /\ ~Inserting'
      /\ \A t \in M!Worker : pc'[t] = "exited"
  BY <1>1, <1>2, MainFacts DEF MainTypes, Inserting
<1>8. MainTypes' /\ ThreadInv'  BY <1>1, <1>2, <1>3, <1>7 DEF MainTypes, ThreadInv
<1>9. \A t \in M!Worker : Held(t)'  BY <1>7 DEF Held
<1>10. QED  BY <1>6, <1>7, <1>8, <1>9 DEF MainInv

LEMMA FreeMapKeeps ==
  ASSUME MainSizes, MainInv, M!FreeMap
  PROVE  MainInv'
<1>1. /\ pc[M!Main] = "free" /\ pc' = [pc EXCEPT ![M!Main] = "exited"]
      /\ UNCHANGED <<block, i, node, val, verdict>> /\ buck' = [b \in Buckets |-> <<>>]
  BY SameMap DEF M!FreeMap, M!Goto
<1>2. /\ MainTypes /\ ThreadInv /\ verdict # "invalid"
      /\ \A t \in M!Worker : pc[t] = "exited"
  BY <1>1 DEF MainInv
<1>3. /\ pc'[M!Main] = "exited" /\ ~Inserting /\ ~Inserting'
      /\ \A t \in M!Worker : pc'[t] = "exited"
  BY <1>1, <1>2, MainFacts DEF MainTypes, Inserting
<1>4. buck' \in [Buckets -> Seq(MapNodes)]  BY <1>1, SMT
<1>5. MainTypes' /\ ThreadInv'  BY <1>1, <1>2, <1>3, <1>4 DEF MainTypes, ThreadInv
<1>6. \A t \in M!Worker : Held(t)'  BY <1>3 DEF Held
<1>7. QED  BY <1>1, <1>2, <1>3, <1>5, <1>6 DEF MainInv

LEMMA MainInductive ==
  ASSUME MainSizes, MainInv, [M!Next]_M!vars
  PROVE  MainInv'
<1>1. CASE M!Insert  BY <1>1, InsertKeeps
<1>2. ASSUME NEW t \in M!Worker, M!GetLock(t) PROVE MainInv'  BY <1>2, LockKeeps
<1>3. ASSUME NEW t \in M!Worker, M!GetWalk(t) PROVE MainInv'  BY <1>3, LoadKeeps
<1>4. ASSUME NEW t \in M!Worker, M!GetStore(t) PROVE MainInv'  BY <1>4, StoreKeeps
<1>5. ASSUME NEW t \in M!Worker, M!Done(t) PROVE MainInv'
  <2>1. /\ pc[t] = "done" /\ pc' = [pc EXCEPT ![t] = "exited"]
        /\ UNCHANGED <<buck, block, i, node, val, verdict>>
    BY <1>5 DEF M!Done, M!Goto
  <2>2. MainTypes  BY DEF MainInv
  <2>3. pc'[t] = "exited"  BY <2>1, <2>2 DEF MainTypes
  <2>4. Held(t)'  BY <2>3 DEF Held
  <2>5. PICK b \in Buckets : TRUE
    <3>1. HashOf[0] \in Buckets  BY MainFacts
    <3>2. QED  BY <3>1
  <2>6. QED  BY <2>1, <2>2, <2>4, ThreadMoves DEF MainTypes
<1>6. CASE M!Verify  BY <1>6, VerifyKeeps, SMT
<1>7. CASE M!FreeMap  BY <1>7, FreeMapKeeps, SMT
<1>8. CASE UNCHANGED M!vars
  <2>1. UNCHANGED <<buck, block, pc, i, node, val, verdict>>  BY <1>8 DEF M!vars
  <2>2. /\ MainTypes' = MainTypes /\ ThreadInv' = ThreadInv /\ Made' = Made
        /\ Inserting' = Inserting
    BY <2>1 DEF MainTypes, ThreadInv, Made, Tally, Past, Inserting
  <2>3. \A t \in M!Worker : Held(t) => Held(t)'  BY <2>1 DEF Held, Tally, Past
  <2>4. QED  BY <2>1, <2>2, <2>3 DEF MainInv
<1>9. QED  BY <1>1, <1>2, <1>3, <1>4, <1>5, <1>6, <1>7, <1>8 DEF M!Next, M!Work, M!Exited

\* No update of a thread of main is lost and main never prints "data invalid", for any
\* number of keys, buckets and threads, whatever the keys hash to, although the callback
\* loads and stores in two steps and the values go below zero in between.
THEOREM UpdatesKept ==
  ASSUME MainSizes
  PROVE  M!Spec => []M!NoLostUpdate
<1>1. ASSUME MainInv PROVE M!NoLostUpdate
  <2>1. verdict # "invalid"  BY <1>1 DEF MainInv
  <2>2. ASSUME pc[M!Main] = "join", NEW k \in Keys
        PROVE  buck[HashOf[k]][Find(buck[HashOf[k]], k)].value = Tally(k)
    <3>1. HashOf[k] \in Buckets /\ k \in KeysOf(HashOf[k])  BY MainFacts DEF KeysOf
    <3>2. Sound(Made, buck[HashOf[k]], HashOf[k]) /\ buck[HashOf[k]] \in Seq(MapNodes)
      BY <1>1, <2>2, <3>1 DEF MainInv, MainTypes
    <3>3. Made[k] = Tally(k) /\ Made[k] # Absent  BY <2>2, Tallied DEF Made, Inserting
    <3>4. QED  BY <3>1, <3>2, <3>3, PresentIsFound, SMT
  <2>3. \A k : Tally(k) = (k * (M!Cardinality({t \in Incs : i[t] > k})
                               - M!Cardinality({t \in Decs : i[t] > k}))) % UINT64
    BY SameCardinality DEF Tally, Past
  <2>4. QED  BY <2>1, <2>2, <2>3, SameMap DEF M!NoLostUpdate
<1>2. M!Init => MainInv  BY MainInitially
<1>3. MainInv /\ [M!Next]_M!vars => MainInv'  BY MainInductive
<1>4. QED  BY <1>1, <1>2, <1>3, PTL DEF M!Spec
=============================================================================
