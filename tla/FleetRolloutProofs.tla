-------------------------- MODULE FleetRolloutProofs --------------------------
(* Theorems about FleetRollout, for any number of hosts, groups, rollouts   *)
(* and edits, any limits and any policies.                                  *)
EXTENDS FleetRollout, FiniteSetTheorems, SequenceTheorems, WellFoundedInduction,
        TLAPS

-----------------------------------------------------------------------------
(* Sorting                                                                  *)

TotalOrder(order, S) ==
  /\ \A h \in S : <<h, h>> \notin order
  /\ \A f, g, h \in S : <<f, g>> \in order /\ <<g, h>> \in order => <<f, h>> \in order
  /\ \A g, h \in S : g # h => <<g, h>> \in order \/ <<h, g>> \in order

Place(h, S, order) == Cardinality(Earlier(h, S, order)) + 1

LEMMA PlaceType ==
  ASSUME NEW S, IsFiniteSet(S), NEW order, TotalOrder(order, S), NEW h \in S
  PROVE  Place(h, S, order) \in 1..Cardinality(S)
<1>1. IsFiniteSet(S \ {h}) /\ Cardinality(S \ {h}) = Cardinality(S) - 1
  BY FS_RemoveElement
<1>2. Earlier(h, S, order) \subseteq S \ {h}
  BY DEF Earlier, TotalOrder
<1>3. /\ Cardinality(Earlier(h, S, order)) \in Nat
      /\ Cardinality(Earlier(h, S, order)) <= Cardinality(S) - 1
  BY <1>1, <1>2, FS_Subset, FS_CardinalityType
<1>4. Cardinality(S) \in Nat
  BY FS_CardinalityType
<1>5. QED
  BY <1>3, <1>4 DEF Place

LEMMA EarlierPlace ==
  ASSUME NEW S, IsFiniteSet(S), NEW order, TotalOrder(order, S),
         NEW g \in S, NEW h \in S, <<g, h>> \in order
  PROVE  Place(g, S, order) < Place(h, S, order)
<1>1. /\ Earlier(g, S, order) \subseteq Earlier(h, S, order)
      /\ g \in Earlier(h, S, order) /\ g \notin Earlier(g, S, order)
  BY DEF Earlier, TotalOrder
<1>2. IsFiniteSet(Earlier(h, S, order)) /\ IsFiniteSet(Earlier(g, S, order))
  BY FS_Subset DEF Earlier
<1>3. /\ Cardinality(Earlier(g, S, order)) \in Nat
      /\ Cardinality(Earlier(h, S, order)) \in Nat
  BY <1>2, FS_CardinalityType
<1>4. /\ Cardinality(Earlier(g, S, order)) <= Cardinality(Earlier(h, S, order))
      /\ Cardinality(Earlier(g, S, order)) # Cardinality(Earlier(h, S, order))
  BY <1>1, <1>2, FS_Subset
<1>5. QED
  BY <1>3, <1>4 DEF Place

(* Every place is taken, by one member of S.                                *)
LEMMA PlacesTaken ==
  ASSUME NEW S, IsFiniteSet(S), NEW order, TotalOrder(order, S),
         NEW i \in 1..Cardinality(S)
  PROVE  \E h \in S : Place(h, S, order) = i
<1> DEFINE place == [h \in S |-> Place(h, S, order)]
<1>1. place \in [S -> 1..Cardinality(S)]
  BY PlaceType
<1>2. \A g, h \in S : place[g] = place[h] => g = h
  <2>1. SUFFICES ASSUME NEW g \in S, NEW h \in S, g # h
        PROVE  Place(g, S, order) # Place(h, S, order)
    OBVIOUS
  <2>2. Place(g, S, order) \in Int /\ Place(h, S, order) \in Int
    BY PlaceType
  <2>3. <<g, h>> \in order \/ <<h, g>> \in order
    BY <2>1 DEF TotalOrder
  <2>4. QED
    BY <2>2, <2>3, EarlierPlace
<1>3. place \in Injection(S, 1..Cardinality(S))
  BY <1>1, <1>2 DEF Injection, IsInjective
<1>4. /\ IsFiniteSet(1..Cardinality(S))
      /\ Cardinality(1..Cardinality(S)) = Cardinality(S)
  BY FS_CardinalityType, FS_Interval
<1>5. place \in Surjection(S, 1..Cardinality(S))
  BY <1>3, <1>4, FS_Injection
<1>6. QED
  BY <1>5 DEF Surjection

(* Sorted(S, order) is a sequence of the members of S, each of them once,   *)
(* in that order.                                                           *)
LEMMA SortedProperties ==
  ASSUME NEW S, IsFiniteSet(S), NEW order, TotalOrder(order, S)
  PROVE  LET s == Sorted(S, order)
         IN /\ s \in Seq(S) /\ Len(s) = Cardinality(S) /\ DOMAIN s = 1..Cardinality(S)
            /\ IsInjective(s) /\ Range(s) = S
            /\ \A i, j \in DOMAIN s : i < j => <<s[i], s[j]>> \in order
<1> DEFINE n == Cardinality(S)
           s == Sorted(S, order)
<1>1. n \in Nat
  BY FS_CardinalityType
<1>2. s = [i \in 1..n |-> CHOOSE h \in S : Place(h, S, order) = i]
  BY DEF Sorted, Place
<1>3. \A i \in 1..n : s[i] \in S /\ Place(s[i], S, order) = i
  BY <1>2, PlacesTaken
<1>4. s \in Seq(S) /\ Len(s) = n /\ DOMAIN s = 1..n
  BY <1>1, <1>2, <1>3
<1>5. \A i, j \in 1..n : s[i] = s[j] => i = j
  BY <1>3
<1>6. \A h \in S : s[Place(h, S, order)] = h
  <2>1. SUFFICES ASSUME NEW h \in S, s[Place(h, S, order)] # h
        PROVE  FALSE
    OBVIOUS
  <2>2. Place(h, S, order) \in 1..n
    BY PlaceType
  <2>3. PICK g \in S : g # h /\ Place(g, S, order) = Place(h, S, order)
    BY <1>3, <2>1, <2>2
  <2>4. <<g, h>> \in order \/ <<h, g>> \in order
    BY <2>3 DEF TotalOrder
  <2>5. QED
    BY <2>2, <2>3, <2>4, EarlierPlace
<1>7. Range(s) = S
  <2>1. \A h \in S : Place(h, S, order) \in 1..n
    BY PlaceType
  <2>2. QED
    BY <1>3, <1>4, <1>6, <2>1 DEF Range
<1>8. \A i, j \in 1..n : i < j => <<s[i], s[j]>> \in order
  <2>1. SUFFICES ASSUME NEW i \in 1..n, NEW j \in 1..n, i < j
        PROVE  <<s[i], s[j]>> \in order
    OBVIOUS
  <2>2. s[i] # s[j] /\ ~(<<s[j], s[i]>> \in order)
    BY <1>3, <1>5, <2>1, EarlierPlace
  <2>3. QED
    BY <1>3, <2>2 DEF TotalOrder
<1>9. QED
  BY <1>4, <1>5, <1>7, <1>8 DEF IsInjective
-----------------------------------------------------------------------------
(* Chunks                                                                   *)

LEMMA SmallerOfTwo ==
  ASSUME NEW a \in Int, NEW b \in Int
  PROVE  Min({a, b}) = IF a <= b THEN a ELSE b
<1>1. \E x \in {a, b} : \A y \in {a, b} : x <= y
  OBVIOUS
<1>2. Min({a, b}) \in {a, b} /\ \A y \in {a, b} : Min({a, b}) <= y
  BY <1>1 DEF Min
<1>3. QED
  BY <1>2

LEMMA GreaterOfTwo ==
  ASSUME NEW a \in Int, NEW b \in Int
  PROVE  Max({a, b}) = IF a >= b THEN a ELSE b
<1>1. \E x \in {a, b} : \A y \in {a, b} : x >= y
  OBVIOUS
<1>2. Max({a, b}) \in {a, b} /\ \A y \in {a, b} : Max({a, b}) >= y
  BY <1>1 DEF Max
<1>3. QED
  BY <1>2

(* The place of the i-th element of the k-th chunk.                         *)
PlaceIn(k, i) == (k - 1) * StageSize + i

LEMMA ChunkCount ==
  ASSUME NEW n \in Nat, NEW k \in Nat \ {0}
  PROVE  k <= (n + StageSize - 1) \div StageSize <=> (k - 1) * StageSize < n
<1>1. StageSize \in Nat \ {0}
  BY FleetAssumption
<1> DEFINE q == (n + StageSize - 1) \div StageSize
           r == (n + StageSize - 1) % StageSize
<1>2. q \in Int /\ r \in 0..(StageSize - 1) /\ n + StageSize - 1 = q * StageSize + r
  BY <1>1
<1> HIDE DEF q, r
<1>3. CASE k <= q
  <2>1. k * StageSize <= q * StageSize
    BY <1>1, <1>2, <1>3
  <2>2. QED
    BY <1>1, <1>2, <1>3, <2>1 DEF q
<1>4. CASE k > q
  <2>1. (k - 1) * StageSize >= q * StageSize
    BY <1>1, <1>2, <1>4
  <2>2. QED
    BY <1>1, <1>2, <1>4, <2>1 DEF q
<1>5. QED
  BY <1>2, <1>3, <1>4
LEMMA PlaceInInjective ==
  ASSUME NEW k \in Nat \ {0}, NEW l \in Nat \ {0},
         NEW i \in 1..StageSize, NEW j \in 1..StageSize, PlaceIn(k, i) = PlaceIn(l, j)
  PROVE  k = l /\ i = j
<1>1. StageSize \in Nat \ {0}
  BY FleetAssumption
<1>2. ASSUME NEW a \in Nat \ {0}, NEW b \in Nat \ {0}, a < b,
             NEW x \in 1..StageSize, NEW y \in 1..StageSize
      PROVE  PlaceIn(a, x) < PlaceIn(b, y)
  <2>1. a * StageSize <= (b - 1) * StageSize
    BY <1>1, <1>2
  <2>2. QED
    BY <1>1, <1>2, <2>1 DEF PlaceIn
<1>3. PlaceIn(k, i) \in Int /\ PlaceIn(l, j) \in Int
  BY <1>1 DEF PlaceIn
<1>4. k = l
  BY <1>2, <1>3
<1>5. QED
  BY <1>1, <1>4 DEF PlaceIn

LEMMA FunctionIsSeq ==
  ASSUME NEW n \in Nat, NEW T, NEW f, f = [i \in 1..n |-> f[i]], \A i \in 1..n : f[i] \in T
  PROVE  f \in Seq(T) /\ Len(f) = n
OBVIOUS

(* The chunks of s are its segments of StageSize elements; the last one may *)
(* be shorter.                                                              *)
LEMMA ChunkProperties ==
  ASSUME NEW S, NEW s \in Seq(S)
  PROVE  /\ chunk(s) \in Seq(Seq(S))
         /\ \A k \in DOMAIN chunk(s) :
              /\ k \in Nat \ {0} /\ chunk(s)[k] \in Seq(S)
              /\ Len(chunk(s)[k]) \in 1..StageSize
              /\ \A i \in 1..Len(chunk(s)[k]) :
                   PlaceIn(k, i) \in 1..Len(s) /\ chunk(s)[k][i] = s[PlaceIn(k, i)]
         /\ \A n \in 1..Len(s) : \E k \in DOMAIN chunk(s), i \in 1..StageSize :
              i \in 1..Len(chunk(s)[k]) /\ PlaceIn(k, i) = n
<1>1. StageSize \in Nat \ {0} /\ Len(s) \in Nat
  BY FleetAssumption, LenProperties
<1> DEFINE count == (Len(s) + StageSize - 1) \div StageSize
           last(k) == Min({k * StageSize, Len(s)})
<1>2. count \in Nat
  BY <1>1
<1>3. /\ DOMAIN chunk(s) = 1..count
      /\ \A k \in 1..count :
           chunk(s)[k] = SubSeq(s, (k - 1) * StageSize + 1, last(k))
  BY DEF chunk
<1> HIDE DEF count
<1>4. ASSUME NEW k \in 1..count
      PROVE  /\ last(k) \in Int /\ last(k) >= (k - 1) * StageSize + 1
             /\ last(k) <= Len(s) /\ last(k) - (k - 1) * StageSize <= StageSize
             /\ last(k) = IF k * StageSize <= Len(s) THEN k * StageSize ELSE Len(s)
             /\ (k - 1) * StageSize \in Nat /\ k * StageSize = (k - 1) * StageSize + StageSize
  <2>1. (k - 1) * StageSize \in Nat /\ k * StageSize = (k - 1) * StageSize + StageSize
    BY <1>1, <1>2, <1>4
  <2>2. (k - 1) * StageSize < Len(s)
    BY <1>1, <1>2, <1>4, ChunkCount DEF count
  <2>3. last(k) = IF k * StageSize <= Len(s) THEN k * StageSize ELSE Len(s)
    BY <1>1, <2>1, SmallerOfTwo
  <2>4. QED
    BY <1>1, <2>1, <2>2, <2>3
<1> HIDE DEF last
<1>5. ASSUME NEW k \in 1..count
      PROVE  /\ chunk(s)[k] \in Seq(S)
             /\ Len(chunk(s)[k]) = last(k) - (k - 1) * StageSize
             /\ \A i \in 1..Len(chunk(s)[k]) :
                  PlaceIn(k, i) \in 1..Len(s) /\ chunk(s)[k][i] = s[PlaceIn(k, i)]
  <2> DEFINE a == (k - 1) * StageSize + 1
  <2>1. a \in Nat /\ a >= 1 /\ last(k) \in Int /\ a <= last(k) /\ last(k) <= Len(s)
    BY <1>4
  <2>2. \A i \in a..last(k) : s[i] \in S
    BY <1>1, <2>1, ElementOfSeq
  <2>3. /\ SubSeq(s, a, last(k)) \in Seq(S)
        /\ Len(SubSeq(s, a, last(k))) = last(k) - a + 1
        /\ \A i \in 1..(last(k) - a + 1) : SubSeq(s, a, last(k))[i] = s[a + i - 1]
    BY <2>1, <2>2, SubSeqProperties
  <2>4. \A i \in 1..(last(k) - a + 1) : a + i - 1 = PlaceIn(k, i) /\ PlaceIn(k, i) \in 1..Len(s)
    BY <1>1, <1>4, <2>1 DEF PlaceIn
  <2>5. chunk(s)[k] = SubSeq(s, a, last(k))
    BY <1>3
  <2>6. last(k) - a + 1 = last(k) - (k - 1) * StageSize
    BY <1>4
  <2> HIDE DEF a
  <2>7. QED
    BY <2>3, <2>4, <2>5, <2>6
<1>6. chunk(s) \in Seq(Seq(S))
  <2>1. chunk(s) = [k \in 1..count |-> chunk(s)[k]]
    BY <1>3 DEF chunk, count
  <2>2. QED
    BY <1>2, <1>5, <2>1, FunctionIsSeq
<1>7. ASSUME NEW k \in 1..count
      PROVE  Len(chunk(s)[k]) \in 1..StageSize
  <2> DEFINE before == (k - 1) * StageSize
  <2>1. /\ before \in Nat /\ last(k) \in Int /\ last(k) >= before + 1
        /\ last(k) - before <= StageSize /\ Len(chunk(s)[k]) = last(k) - before
    BY <1>4, <1>5
  <2> HIDE DEF before
  <2>2. QED
    BY <1>1, <2>1
<1>8. ASSUME NEW n \in 1..Len(s)
      PROVE  \E k \in 1..count, i \in 1..StageSize :
               i \in 1..Len(chunk(s)[k]) /\ PlaceIn(k, i) = n
  <2> DEFINE k == (n - 1) \div StageSize + 1
             i == ((n - 1) % StageSize) + 1
  <2>1. k \in Nat \ {0} /\ i \in 1..StageSize /\ PlaceIn(k, i) = n
    BY <1>1 DEF PlaceIn
  <2> HIDE DEF k, i
  <2>2. k \in 1..count
    <3>1. (k - 1) * StageSize < Len(s)
      BY <1>1, <2>1 DEF PlaceIn
    <3>2. QED
      BY <1>1, <1>2, <2>1, <3>1, ChunkCount DEF count
  <2>3. i \in 1..Len(chunk(s)[k])
    BY <1>1, <1>4, <1>5, <2>1, <2>2 DEF PlaceIn
  <2>4. QED
    BY <2>1, <2>2, <2>3
<1>9. \A k \in DOMAIN chunk(s) : k \in 1..count /\ k \in Nat \ {0}
  BY <1>2, <1>3
<1>10. \A n \in 1..Len(s) : \E k \in DOMAIN chunk(s), i \in 1..StageSize :
         i \in 1..Len(chunk(s)[k]) /\ PlaceIn(k, i) = n
  BY <1>3, <1>8
<1>11. QED
  BY <1>5, <1>6, <1>7, <1>9, <1>10

(* The chunks of a sequence without repetitions are a partition.            *)
LEMMA ChunksPartition ==
  ASSUME NEW S, NEW s \in Seq(S), IsInjective(s), Range(s) = S
  PROVE  StagesPartition(chunk(s), S)
<1> DEFINE c == chunk(s)
<1>1. /\ DOMAIN s = 1..Len(s)
      /\ \A k \in DOMAIN c : DOMAIN c[k] = 1..Len(c[k])
  BY ChunkProperties, LenProperties
<1>2. \A k \in DOMAIN c : \A i \in DOMAIN c[k] :
        /\ k \in Nat \ {0} /\ i \in 1..StageSize
        /\ PlaceIn(k, i) \in 1..Len(s) /\ c[k][i] = s[PlaceIn(k, i)] /\ c[k][i] \in S
  <2>1. TAKE k \in DOMAIN c
  <2>2. TAKE i \in DOMAIN c[k]
  <2>3. k \in Nat \ {0} /\ c[k] \in Seq(S) /\ Len(c[k]) \in 1..StageSize /\ i \in 1..Len(c[k])
    BY <1>1, ChunkProperties
  <2>4. PlaceIn(k, i) \in 1..Len(s) /\ c[k][i] = s[PlaceIn(k, i)]
    <3>1. \A j \in 1..Len(c[k]) : PlaceIn(k, j) \in 1..Len(s) /\ c[k][j] = s[PlaceIn(k, j)]
      BY ChunkProperties
    <3>2. QED
      BY <2>3, <3>1
  <2>5. i \in 1..StageSize /\ c[k][i] \in S
    BY <2>3, FleetAssumption
  <2>6. QED
    BY <2>3, <2>4, <2>5
<1>3. ASSUME NEW k \in DOMAIN c, NEW l \in DOMAIN c, NEW i \in DOMAIN c[k], NEW j \in DOMAIN c[l],
             c[k][i] = c[l][j]
      PROVE  k = l /\ i = j
  <2>1. s[PlaceIn(k, i)] = s[PlaceIn(l, j)]
    BY <1>2, <1>3
  <2>2. PlaceIn(k, i) = PlaceIn(l, j)
    BY <1>1, <1>2, <2>1 DEF IsInjective
  <2>3. QED
    BY <1>2, <2>2, PlaceInInjective
<1>4. S = UNION {Range(c[k]) : k \in DOMAIN c}
  <2>1. \A h \in S : \E k \in DOMAIN c : \E i \in DOMAIN c[k] : c[k][i] = h
    <3>1. TAKE h \in S
    <3>2. PICK n \in 1..Len(s) : s[n] = h
      BY <1>1 DEF Range
    <3>3. PICK k \in DOMAIN c, i \in 1..StageSize : i \in 1..Len(c[k]) /\ PlaceIn(k, i) = n
      BY ChunkProperties
    <3>4. QED
      BY <1>1, <1>2, <3>2, <3>3
  <2>2. QED
    BY <1>2, <2>1 DEF Range
<1>5. ASSUME NEW k \in DOMAIN c
      PROVE  /\ Len(c[k]) \in 1..StageSize /\ IsInjective(c[k])
             /\ \A l \in 1..(k - 1) : Range(c[l]) \cap Range(c[k]) = {}
  <2>1. Len(c[k]) \in 1..StageSize
    BY ChunkProperties
  <2>2. IsInjective(c[k])
    BY <1>3 DEF IsInjective
  <2>3. ASSUME NEW l \in 1..(k - 1) PROVE Range(c[l]) \cap Range(c[k]) = {}
    <3>1. k \in Nat /\ DOMAIN c = 1..Len(c) /\ Len(c) \in Nat
      BY ChunkProperties, LenProperties
    <3>2. l \in DOMAIN c /\ l # k
      BY <2>3, <3>1
    <3>3. QED
      BY <1>3, <3>2 DEF Range
  <2>4. QED
    BY <2>1, <2>2, <2>3
<1> HIDE DEF c
<1>6. QED
  BY <1>4, <1>5 DEF StagesPartition, c
(* Two partitions of disjoint sets, one after the other.                    *)
StagesOf(stages, S) == stages \in Seq(Seq(S)) /\ StagesPartition(stages, S)

LEMMA ConcatPartition ==
  ASSUME NEW T, NEW U, T \cap U = {}, NEW a, NEW b, StagesOf(a, T), StagesOf(b, U)
  PROVE  /\ StagesOf(a \o b, T \cup U)
         /\ \A k \in 1..Len(a) : (a \o b)[k] = a[k]
         /\ DOMAIN (a \o b) = 1..(Len(a) + Len(b))
<1> USE DEF StagesOf
<1> DEFINE V == T \cup U
           c == a \o b
<1>1. a \in Seq(Seq(V)) /\ b \in Seq(Seq(V))
  <2>1. Seq(T) \subseteq Seq(V) /\ Seq(U) \subseteq Seq(V)
    BY SeqMonotonic
  <2>2. QED
    BY <2>1, SeqMonotonic
<1> HIDE DEF V
<1>2. /\ c \in Seq(Seq(V)) /\ Len(c) = Len(a) + Len(b)
      /\ \A i \in 1..(Len(a) + Len(b)) : c[i] = IF i <= Len(a) THEN a[i] ELSE b[i - Len(a)]
  BY <1>1, ConcatProperties
<1>3. /\ Len(a) \in Nat /\ Len(b) \in Nat
      /\ DOMAIN a = 1..Len(a) /\ DOMAIN b = 1..Len(b) /\ DOMAIN c = 1..(Len(a) + Len(b))
  BY <1>1, <1>2, LenProperties
<1> HIDE DEF c
<1>4. \A k \in 1..Len(a) : k \in DOMAIN c /\ c[k] = a[k]
  BY <1>2, <1>3
<1>5. \A k \in 1..Len(b) : k + Len(a) \in DOMAIN c /\ c[k + Len(a)] = b[k]
  <2>1. TAKE k \in 1..Len(b)
  <2>2. /\ k + Len(a) \in 1..(Len(a) + Len(b)) /\ ~(k + Len(a) <= Len(a))
        /\ (k + Len(a)) - Len(a) = k
    BY <1>3
  <2>3. QED
    BY <1>2, <1>3, <2>2
<1>6. \A k \in DOMAIN c : \/ k \in 1..Len(a)
                          \/ k - Len(a) \in 1..Len(b) /\ c[k] = b[k - Len(a)]
  BY <1>2, <1>3
<1>7. /\ T = UNION {Range(a[k]) : k \in 1..Len(a)}
      /\ U = UNION {Range(b[k]) : k \in 1..Len(b)}
  BY <1>3 DEF StagesPartition
<1>8. V = UNION {Range(c[k]) : k \in DOMAIN c}
  <2>1. ASSUME NEW h \in V PROVE \E k \in DOMAIN c : h \in Range(c[k])
    <3>1. CASE h \in T
      BY <1>4, <1>7, <3>1
    <3>2. CASE h \in U
      BY <1>5, <1>7, <3>2
    <3>3. QED
      BY <2>1, <3>1, <3>2 DEF V
  <2>2. ASSUME NEW k \in DOMAIN c PROVE Range(c[k]) \subseteq V
    BY <1>4, <1>6, <1>7 DEF V
  <2>3. QED
    BY <2>1, <2>2
<1>9. ASSUME NEW k \in DOMAIN c
      PROVE  /\ Len(c[k]) \in 1..StageSize /\ IsInjective(c[k])
             /\ \A l \in 1..(k - 1) : Range(c[l]) \cap Range(c[k]) = {}
  <2>1. CASE k \in 1..Len(a)
    <3>1. \A l \in 1..(k - 1) : c[l] = a[l]
      BY <1>3, <1>4, <2>1
    <3>2. QED
      BY <1>3, <1>4, <2>1, <3>1 DEF StagesPartition
  <2>2. CASE k - Len(a) \in 1..Len(b) /\ c[k] = b[k - Len(a)]
    <3>1. Len(c[k]) \in 1..StageSize /\ IsInjective(c[k])
      BY <1>3, <2>2 DEF StagesPartition
    <3>2. ASSUME NEW l \in 1..(k - 1) PROVE Range(c[l]) \cap Range(c[k]) = {}
      <4>1. CASE l \in 1..Len(a)
        <5>1. Range(c[l]) \subseteq T
          BY <1>4, <1>7, <4>1
        <5>2. Range(c[k]) \subseteq U
          BY <1>7, <2>2
        <5>3. QED
          BY <5>1, <5>2
      <4>2. CASE l \notin 1..Len(a)
        <5>1. l \in DOMAIN c /\ l \in Int /\ k \in Int
          BY <1>3, <3>2
        <5>2. l - Len(a) \in 1..Len(b) /\ c[l] = b[l - Len(a)]
          BY <1>6, <4>2, <5>1
        <5>3. l - Len(a) \in 1..((k - Len(a)) - 1)
          BY <1>3, <3>2, <5>1, <5>2
        <5>4. QED
          BY <1>3, <2>2, <5>2, <5>3 DEF StagesPartition
      <4>3. QED
        BY <4>1, <4>2
    <3>3. QED
      BY <3>1, <3>2
  <2>3. QED
    BY <1>6, <2>1, <2>2
<1>10. StagesPartition(c, V)
  BY <1>8, <1>9 DEF StagesPartition
<1>11. QED
  BY <1>2, <1>3, <1>4, <1>10 DEF c, V

-----------------------------------------------------------------------------
(* The stages of a plan                                                     *)

FleetOK ==
  /\ host \in [Hosts -> HostRow]
  /\ seen \in [Hosts -> Hosts] /\ \A g, h \in Hosts : seen[g] = seen[h] => g = h

LEMMA FleetTypes ==
  ASSUME FleetOK, NEW h \in Hosts
  PROVE  /\ seen[h] \in Int /\ GroupOf(h) \in Groups /\ GroupOf(h) \in Int
         /\ host[h].meta.priority \in Int /\ host[h].meta \in Meta
<1>1. host[h].meta \in Meta /\ seen[h] \in Hosts
  BY DEF FleetOK, HostRow
<1>2. NHosts \in Nat /\ NGroups \in Nat
  BY FleetAssumption
<1>3. seen[h] \in Int
  BY <1>1, <1>2 DEF Hosts
<1>4. GroupOf(h) \in Groups /\ host[h].meta.priority \in Int
  BY <1>1 DEF Meta, GroupOf
<1>5. GroupOf(h) \in Int
  BY <1>2, <1>4 DEF Groups
<1>6. QED
  BY <1>1, <1>3, <1>4, <1>5

LEMMA HostsFinite ==
  ASSUME NEW S \in SUBSET Hosts
  PROVE  IsFiniteSet(S) /\ Cardinality(S) \in Nat
<1>1. IsFiniteSet(Hosts)
  BY FleetAssumption, FS_Interval DEF Hosts
<1>2. QED
  BY <1>1, FS_Subset, FS_CardinalityType

LEMMA OrdersAreTotal ==
  ASSUME FleetOK, NEW S \in SUBSET Hosts
  PROVE  TotalOrder(Precedence, S) /\ TotalOrder(GroupOrder, S)
<1>1. \A g, h \in S : /\ <<g, h>> \in Precedence <=> Precedes(g, h)
                      /\ <<g, h>> \in GroupOrder <=>
                           \/ GroupOf(g) < GroupOf(h)
                           \/ GroupOf(g) = GroupOf(h) /\ Precedes(g, h)
  BY DEF Precedence, GroupOrder
<1>2. \A h \in S : ~Precedes(h, h)
  BY FleetTypes DEF Precedes
<1>3. \A f, g, h \in S : Precedes(f, g) /\ Precedes(g, h) => Precedes(f, h)
  BY FleetTypes DEF Precedes
<1>4. \A g, h \in S : g # h => Precedes(g, h) \/ Precedes(h, g)
  BY FleetTypes DEF Precedes, FleetOK
<1>5. \A h \in S : GroupOf(h) \in Int
  BY FleetTypes
<1>6. TotalOrder(Precedence, S)
  BY <1>1, <1>2, <1>3, <1>4 DEF TotalOrder
<1>7. TotalOrder(GroupOrder, S)
  BY <1>1, <1>2, <1>3, <1>4, <1>5 DEF TotalOrder
<1>8. QED
  BY <1>6, <1>7
-----------------------------------------------------------------------------
(* Induction over an interval, for a set of numbers                         *)

Less == {pair \in Nat \X Nat : pair[1] < pair[2]}

LEMMA LessIsWellFounded == IsWellFoundedOn(Less, Nat)
BY NatLessThanWellFounded DEF OpToRel, Less

LEMMA IntervalInduction ==
  ASSUME NEW n \in Nat, NEW T, 0 \in T, \A i \in 0..(n - 1) : i \in T => i + 1 \in T
  PROVE  0..n \subseteq T
<1> DEFINE Missing == {i \in 0..n : i \notin T}
<1>1. SUFFICES ASSUME Missing # {} PROVE FALSE
  OBVIOUS
<1>2. Missing \subseteq Nat
  OBVIOUS
<1>3. PICK i \in Missing : \A j \in Missing : <<j, i>> \notin Less
  BY <1>1, <1>2, LessIsWellFounded, WFMin
<1>4. i # 0 /\ i - 1 \in 0..(n - 1)
  OBVIOUS
<1>5. i - 1 \in T
  <2>1. <<i - 1, i>> \in Less
    BY <1>4 DEF Less
  <2>2. i - 1 \in 0..n
    BY <1>4
  <2>3. QED
    BY <1>3, <2>1, <2>2
<1>6. i - 1 + 1 \in T /\ i - 1 + 1 = i
  BY <1>4, <1>5
<1>7. QED
  BY <1>6

-----------------------------------------------------------------------------
(* The safeguards                                                           *)

Considered(before, h) == before \cup {x \in {h} : HasRoom(before, x)}

(* f[i] is what the first i hosts of s leave accepted.                      *)
AcceptedUpTo(f, s, n) ==
  f = [i \in 0..n |-> IF i = 0 THEN {} ELSE Considered(f[i - 1], s[i])]

LEMMA AcceptedExists ==
  ASSUME NEW s, NEW n \in Nat
  PROVE  \E f : AcceptedUpTo(f, s, n)
<1> DEFINE T == {m \in 0..n : \E f : AcceptedUpTo(f, s, m)}
<1>1. 0 \in T
  <2>1. AcceptedUpTo([i \in 0..0 |-> {}], s, 0)
    BY DEF AcceptedUpTo
  <2>2. QED
    BY <2>1
<1>2. ASSUME NEW m \in 0..(n - 1), m \in T PROVE m + 1 \in T
  <2>1. PICK f : AcceptedUpTo(f, s, m)
    BY <1>2
  <2> DEFINE g == [i \in 0..(m + 1) |-> IF i <= m THEN f[i] ELSE Considered(f[m], s[m + 1])]
  <2>2. DOMAIN f = 0..m /\ \A i \in 0..m : f[i] = IF i = 0 THEN {} ELSE Considered(f[i - 1], s[i])
    BY <2>1 DEF AcceptedUpTo
  <2>3. \A i \in 0..(m + 1) : g[i] = IF i = 0 THEN {} ELSE Considered(g[i - 1], s[i])
    <3>1. TAKE i \in 0..(m + 1)
    <3>2. CASE i = 0
      BY <2>2, <3>2
    <3>3. CASE i \in 1..m
      BY <2>2, <3>3
    <3>4. CASE i = m + 1
      BY <3>4
    <3>5. QED
      BY <3>1, <3>2, <3>3, <3>4
  <2>4. g = [i \in 0..(m + 1) |-> IF i = 0 THEN {} ELSE Considered(g[i - 1], s[i])]
    BY <2>3
  <2> HIDE DEF g
  <2>5. AcceptedUpTo(g, s, m + 1)
    BY <2>4 DEF AcceptedUpTo
  <2>6. QED
    BY <2>5
<1>3. 0..n \subseteq T
  <2> HIDE DEF T
  <2>1. QED
    BY <1>1, <1>2, IntervalInduction
<1>4. QED
  BY <1>3

LEMMA AcceptedByFold ==
  ASSUME NEW s, Len(s) \in Nat
  PROVE  \E f : AcceptedUpTo(f, s, Len(s)) /\ applyFleetBlastRadiusSafeguards(s) = f[Len(s)]
<1> DEFINE f == CHOOSE f : AcceptedUpTo(f, s, Len(s))
<1>1. AcceptedUpTo(f, s, Len(s))
  BY AcceptedExists
<1>2. applyFleetBlastRadiusSafeguards(s) = f[Len(s)]
  BY DEF applyFleetBlastRadiusSafeguards, AcceptedUpTo, Considered
<1>3. QED
  BY <1>1, <1>2

LEMMA LimitsType ==
  /\ AllowedTotal \in Nat \ {0}
  /\ MaxPerGroup \in Nat \ {0} /\ EditLimit \in Nat \ {0} /\ StageSize \in Nat \ {0}
<1>1. /\ MaxHosts \in Nat \ {0} /\ MaxPercent \in Nat /\ MaxPerGroup \in Nat \ {0}
      /\ EditLimit \in Nat \ {0} /\ StageSize \in Nat \ {0}
  BY FleetAssumption
<1> DEFINE e == Cardinality({h \in Live : host[h].enabled})
<1>2. e \in Nat
  BY HostsFinite DEF Live
<1> HIDE DEF e
<1>3. Max({1, e}) \in Nat
  BY <1>2, GreaterOfTwo
<1> DEFINE m == Max({1, e})
<1> HIDE DEF m
<1>4. (m * MaxPercent) \div 100 \in Nat
  <2>1. m * MaxPercent \in Nat
    BY <1>1, <1>3 DEF m
  <2>2. QED
    BY <2>1
<1> DEFINE q == (m * MaxPercent) \div 100
<1>5. AllowedByPercent = Max({1, q})
  BY DEF AllowedByPercent, m, e
<1> HIDE DEF q
<1>6. AllowedByPercent \in Nat \ {0}
  BY <1>4, <1>5, GreaterOfTwo DEF q
<1>7. QED
  BY <1>1, <1>6, SmallerOfTwo DEF AllowedTotal

(* What the fold has accepted of the first i hosts of s: within the caps,   *)
(* and for a host left out a cap was used up by hosts before it.            *)
Fits(A, s, i) ==
  /\ A \subseteq {s[j] : j \in 1..i}
  /\ Cardinality(A) <= AllowedTotal
  /\ \A g \in Groups : Cardinality(OfGroup(A, g)) <= MaxPerGroup
  /\ \A j \in 1..i : s[j] \notin A =>
       \/ Cardinality(OfGroup(A, GroupOf(s[j]))) = MaxPerGroup
       \/ Cardinality(A) = AllowedTotal /\ A \subseteq {s[k] : k \in 1..(j - 1)}

LEMMA FitsInitially ==
  ASSUME NEW s PROVE Fits({}, s, 0)
<1>1. \A g : OfGroup({}, g) = {}
  BY DEF OfGroup
<1>2. QED
  BY <1>1, FS_EmptySet, LimitsType DEF Fits

LEMMA FitsPreserved ==
  ASSUME FleetOK, NEW s \in Seq(Hosts), IsInjective(s),
         NEW i \in 0..(Len(s) - 1), NEW A, Fits(A, s, i)
  PROVE  Fits(Considered(A, s[i + 1]), s, i + 1)
<1> DEFINE h == s[i + 1]
           B == Considered(A, h)
<1>1. /\ Len(s) \in Nat /\ DOMAIN s = 1..Len(s) /\ i + 1 \in 1..Len(s) /\ i \in Nat
      /\ \A j \in 1..Len(s) : s[j] \in Hosts
  BY LenProperties, ElementOfSeq
<1>2. h \in Hosts /\ GroupOf(h) \in Groups
  BY <1>1, FleetTypes
<1>3. A \subseteq Hosts /\ h \notin A
  <2>1. A \subseteq {s[j] : j \in 1..i}
    BY DEF Fits
  <2>2. \A j \in 1..i : j \in 1..Len(s) /\ s[j] \in Hosts /\ s[j] # s[i + 1]
    BY <1>1 DEF IsInjective
  <2>3. QED
    BY <2>1, <2>2
<1>4. IsFiniteSet(A) /\ Cardinality(A) \in Nat
  BY <1>3, HostsFinite
<1>5. \A g : IsFiniteSet(OfGroup(A, g)) /\ Cardinality(OfGroup(A, g)) \in Nat
  BY <1>3, HostsFinite DEF OfGroup
<1>6. A \subseteq {s[j] : j \in 1..(i + 1)}
  BY <1>1 DEF Fits
<1>7. CASE HasRoom(A, h)
  <2>1. B = A \cup {h}
    BY <1>7 DEF Considered
  <2>2. Cardinality(B) = Cardinality(A) + 1
    BY <1>3, <1>4, <2>1, FS_AddElement
  <2>3. OfGroup(B, GroupOf(h)) = OfGroup(A, GroupOf(h)) \cup {h} /\ h \notin OfGroup(A, GroupOf(h))
    BY <1>3, <2>1 DEF OfGroup
  <2>4. Cardinality(OfGroup(B, GroupOf(h))) = Cardinality(OfGroup(A, GroupOf(h))) + 1
    BY <1>5, <2>3, FS_AddElement
  <2>5. \A g : g # GroupOf(h) => OfGroup(B, g) = OfGroup(A, g)
    BY <2>1 DEF OfGroup
  <2>6. /\ Cardinality(A) < AllowedTotal
        /\ Cardinality(OfGroup(A, GroupOf(h))) < MaxPerGroup
    BY <1>7 DEF HasRoom
  <2>7. Cardinality(B) <= AllowedTotal
    BY <1>4, <2>2, <2>6, LimitsType
  <2>8. \A g \in Groups : Cardinality(OfGroup(B, g)) <= MaxPerGroup
    BY <1>5, <2>4, <2>5, <2>6, LimitsType DEF Fits
  <2>9. B \subseteq {s[j] : j \in 1..(i + 1)}
    BY <1>1, <1>6, <2>1
  <2>10. ASSUME NEW j \in 1..(i + 1), s[j] \notin B
         PROVE  Cardinality(OfGroup(B, GroupOf(s[j]))) = MaxPerGroup
    <3>1. j \in 1..i /\ s[j] \notin A
      BY <1>1, <2>1, <2>10
    <3>2. Cardinality(OfGroup(A, GroupOf(s[j]))) = MaxPerGroup
      BY <1>4, <2>6, <3>1, LimitsType DEF Fits
    <3>3. GroupOf(s[j]) # GroupOf(h)
      BY <2>6, <3>2, LimitsType
    <3>4. QED
      BY <2>5, <3>2, <3>3
  <2>11. QED
    BY <2>7, <2>8, <2>9, <2>10 DEF Fits
<1>8. CASE ~HasRoom(A, h)
  <2>1. B = A
    BY <1>8 DEF Considered
  <2>2. \/ Cardinality(OfGroup(A, GroupOf(h))) = MaxPerGroup
        \/ Cardinality(A) = AllowedTotal
    BY <1>2, <1>4, <1>5, <1>8, LimitsType DEF HasRoom, Fits
  <2>3. A \subseteq {s[k] : k \in 1..((i + 1) - 1)}
    BY <1>1 DEF Fits
  <2>4. ASSUME NEW j \in 1..(i + 1), s[j] \notin A
        PROVE  \/ Cardinality(OfGroup(A, GroupOf(s[j]))) = MaxPerGroup
               \/ Cardinality(A) = AllowedTotal /\ A \subseteq {s[k] : k \in 1..(j - 1)}
    <3>1. CASE j = i + 1
      BY <2>2, <2>3, <3>1
    <3>2. CASE j \in 1..i
      BY <2>4, <3>2 DEF Fits
    <3>3. QED
      BY <1>1, <3>1, <3>2
  <2>5. QED
    BY <1>6, <2>1, <2>4 DEF Fits
<1>9. QED
  BY <1>7, <1>8

LEMMA SafeguardsFit ==
  ASSUME FleetOK, NEW s \in Seq(Hosts), IsInjective(s)
  PROVE  Fits(applyFleetBlastRadiusSafeguards(s), s, Len(s))
<1>1. Len(s) \in Nat
  BY LenProperties
<1>2. PICK f : AcceptedUpTo(f, s, Len(s)) /\ applyFleetBlastRadiusSafeguards(s) = f[Len(s)]
  BY <1>1, AcceptedByFold
<1>3. \A i \in 0..Len(s) : f[i] = IF i = 0 THEN {} ELSE Considered(f[i - 1], s[i])
  BY <1>2 DEF AcceptedUpTo
<1> DEFINE T == {i \in 0..Len(s) : Fits(f[i], s, i)}
<1>4. 0 \in T
  BY <1>1, <1>3, FitsInitially
<1>5. ASSUME NEW i \in 0..(Len(s) - 1), i \in T PROVE i + 1 \in T
  <2>1. f[i + 1] = Considered(f[i], s[i + 1])
    <3>1. i + 1 \in 0..Len(s) /\ i + 1 # 0 /\ (i + 1) - 1 = i
      BY <1>1
    <3>2. QED
      BY <1>3, <3>1
  <2>2. Fits(f[i + 1], s, i + 1)
    BY <1>5, <2>1, FitsPreserved
  <2>3. QED
    BY <1>1, <2>2
<1>6. 0..Len(s) \subseteq T
  <2> HIDE DEF T
  <2>1. QED
    BY <1>1, <1>4, <1>5, IntervalInduction
<1>7. QED
  BY <1>1, <1>2, <1>6
LEMMA CandidatesSorted ==
  ASSUME FleetOK, NEW S \in SUBSET Hosts
  PROVE  LET s == sortFleetHostsForRollout(S)
         IN /\ s \in Seq(S) /\ s \in Seq(Hosts) /\ Len(s) \in Nat /\ DOMAIN s = 1..Len(s)
            /\ IsInjective(s) /\ Range(s) = S
            /\ \A i, j \in 1..Len(s) : i < j => Precedes(s[i], s[j])
<1> DEFINE s == sortFleetHostsForRollout(S)
<1>1. /\ s \in Seq(S) /\ IsInjective(s) /\ Range(s) = S
      /\ \A i, j \in DOMAIN s : i < j => <<s[i], s[j]>> \in Precedence
  BY HostsFinite, OrdersAreTotal, SortedProperties DEF sortFleetHostsForRollout
<1> HIDE DEF s
<1>2. s \in Seq(Hosts) /\ Len(s) \in Nat /\ DOMAIN s = 1..Len(s)
  BY <1>1, SeqMonotonic, LenProperties
<1>3. \A i, j \in 1..Len(s) : i < j => Precedes(s[i], s[j])
  BY <1>1, <1>2 DEF Precedence
<1>4. QED
  BY <1>1, <1>2, <1>3 DEF s

(* The hosts a plan accepts are of the selection and within the caps, and   *)
(* none of the selection is left out without a reason.                      *)
LEMMA AcceptedFits ==
  ASSUME FleetOK, NEW sel
  PROVE  Accepted(sel) \subseteq Candidates(sel) /\ WithinLimits(Accepted(sel), sel)
<1> DEFINE s == sortFleetHostsForRollout(Candidates(sel))
           A == Accepted(sel)
<1>1. Candidates(sel) \in SUBSET Hosts
  BY DEF Candidates, Live
<1>2. /\ s \in Seq(Hosts) /\ Len(s) \in Nat /\ DOMAIN s = 1..Len(s)
      /\ IsInjective(s) /\ Range(s) = Candidates(sel)
      /\ \A i, j \in 1..Len(s) : i < j => Precedes(s[i], s[j])
  BY <1>1, CandidatesSorted
<1>3. A = applyFleetBlastRadiusSafeguards(s)
  BY DEF Accepted
<1> HIDE DEF s, A
<1>4. Fits(A, s, Len(s))
  BY <1>2, <1>3, SafeguardsFit
<1>5. Range(s) = {s[j] : j \in 1..Len(s)}
  BY <1>2 DEF Range
<1>6. A \subseteq Candidates(sel)
  BY <1>2, <1>4, <1>5 DEF Fits
<1>7. ASSUME NEW r \in Candidates(sel) \ A
      PROVE  \/ Cardinality(OfGroup(A, GroupOf(r))) = MaxPerGroup
             \/ Cardinality(A) = AllowedTotal /\ \A h \in A : Precedes(h, r)
  <2>1. PICK j \in 1..Len(s) : r = s[j]
    BY <1>2, <1>5
  <2>2. \A k \in 1..(j - 1) : Precedes(s[k], s[j])
    BY <1>2
  <2>3. QED
    BY <1>4, <1>7, <2>1, <2>2 DEF Fits
<1>8. WithinLimits(A, sel)
  BY <1>4, <1>7 DEF Fits, WithinLimits
<1>9. QED
  BY <1>6, <1>8 DEF A

-----------------------------------------------------------------------------
(* The stages of a plan                                                     *)

LEMMA TwoWaves ==
  ASSUME NEW S, NEW T, T \subseteq S, NEW a, NEW b, StagesOf(a, T), StagesOf(b, S \ T)
  PROVE  /\ StagesOf(a \o b, S)
         /\ \A k \in 1..Len(a) : (a \o b)[k] = a[k]
         /\ DOMAIN (a \o b) = 1..(Len(a) + Len(b))
<1>1. T \cap (S \ T) = {} /\ T \cup (S \ T) = S
  OBVIOUS
<1>2. QED
  BY <1>1, ConcatPartition

LEMMA SortedStages ==
  ASSUME FleetOK, NEW S \in SUBSET Hosts, NEW strategy
  PROVE  StagesOf(chunk(Sorted(S, WaveOrder(strategy))), S)
<1> DEFINE s == Sorted(S, WaveOrder(strategy))
<1>1. TotalOrder(WaveOrder(strategy), S) /\ IsFiniteSet(S)
  BY OrdersAreTotal, HostsFinite DEF WaveOrder
<1>2. s \in Seq(S) /\ IsInjective(s) /\ Range(s) = S
  BY <1>1, SortedProperties
<1> HIDE DEF s
<1>3. StagesOf(chunk(s), S)
  BY <1>2, ChunkProperties, ChunksPartition DEF StagesOf
<1>4. QED
  BY <1>3 DEF s

(* The stages of a plan hold its hosts, each of them once, and the first of *)
(* every group before any second.                                           *)
LEMMA StagesSound ==
  ASSUME FleetOK, NEW A \in SUBSET Hosts, NEW strategy
  PROVE  LET stages == buildFleetRolloutStages(A, strategy)
         IN /\ StagesOf(stages, A)
            /\ strategy = "group_canary" => CanariesFirst(stages, A)
<1> DEFINE first == FirstWave(A, strategy)
           a == chunk(Sorted(first, WaveOrder(strategy)))
           b == chunk(Sorted(A \ first, WaveOrder(strategy)))
           stages == buildFleetRolloutStages(A, strategy)
<1>1. first \in SUBSET Hosts /\ first \subseteq A /\ A \ first \in SUBSET Hosts
  BY DEF FirstWave, CanaryWave
<1>2. stages = a \o b
  BY DEF buildFleetRolloutStages
<1>3. strategy = "group_canary" =>
        first = {h \in A : \A g \in A \ {h} : GroupOf(g) = GroupOf(h) => Precedes(h, g)}
  BY DEF FirstWave, CanaryWave
<1> HIDE DEF first, stages
<1>4. StagesOf(a, first)
  BY <1>1, SortedStages
<1>5. StagesOf(b, A \ first)
  BY <1>1, SortedStages
<1> HIDE DEF a, b
<1>6. /\ StagesOf(stages, A)
      /\ \A k \in 1..Len(a) : stages[k] = a[k]
      /\ DOMAIN stages = 1..(Len(a) + Len(b))
  BY <1>1, <1>2, <1>4, <1>5, TwoWaves
<1>7. Len(a) \in Nat /\ DOMAIN a = 1..Len(a) /\ Len(b) \in Nat
  BY <1>4, <1>5, LenProperties DEF StagesOf
<1>8. first = UNION {Range(a[k]) : k \in 1..Len(a)}
  BY <1>4, <1>7 DEF StagesPartition, StagesOf
<1>9. ASSUME NEW k \in DOMAIN stages
      PROVE  \/ Range(stages[k]) \subseteq first
             \/ first \subseteq UNION {Range(stages[l]) : l \in 1..(k - 1)}
  <2>1. CASE k \in 1..Len(a)
    BY <1>6, <1>8, <2>1
  <2>2. CASE k > Len(a)
    <3>1. 1..Len(a) \subseteq 1..(k - 1)
      BY <1>6, <1>7, <2>2
    <3>2. \A l \in 1..Len(a) : Range(a[l]) = Range(stages[l]) /\ l \in 1..(k - 1)
      BY <1>6, <3>1
    <3>3. QED
      BY <1>8, <3>2
  <2>3. QED
    BY <1>6, <1>7, <2>1, <2>2
<1>10. strategy = "group_canary" => CanariesFirst(stages, A)
  BY <1>3, <1>9 DEF CanariesFirst
<1>11. QED
  BY <1>6, <1>10 DEF stages

LEMMA PlanSoundness == FleetOK => PlanIsSound
<1>1. SUFFICES ASSUME FleetOK PROVE PlanIsSound
  OBVIOUS
<1>2. ASSUME NEW sel \in Selectors
      PROVE LET accepted == Accepted(sel)
                stages == [strategy \in Strategies |-> buildFleetRolloutStages(accepted, strategy)]
            IN /\ WithinLimits(accepted, sel)
               /\ \A strategy \in Strategies : StagesPartition(stages[strategy], accepted)
               /\ CanariesFirst(stages["group_canary"], accepted)
  <2> DEFINE accepted == Accepted(sel)
             stages == [strategy \in Strategies |-> buildFleetRolloutStages(accepted, strategy)]
  <2>1. WithinLimits(accepted, sel) /\ accepted \in SUBSET Hosts
    BY <1>1, AcceptedFits DEF Candidates, Live
  <2> HIDE DEF accepted
  <2>2. \A strategy \in Strategies : StagesPartition(buildFleetRolloutStages(accepted, strategy), accepted)
    BY <1>1, <2>1, StagesSound DEF StagesOf
  <2>3. CanariesFirst(buildFleetRolloutStages(accepted, "group_canary"), accepted)
    BY <1>1, <2>1, StagesSound DEF StagesOf
  <2>4. "group_canary" \in Strategies
    BY DEF Strategies
  <2>5. QED
    BY <2>1, <2>2, <2>3, <2>4 DEF accepted
<1>3. QED
  BY <1>2 DEF PlanIsSound
-----------------------------------------------------------------------------
(* Types                                                                    *)

LEMMA AcceptedHosts ==
  ASSUME FleetOK, NEW sel
  PROVE  Accepted(sel) \in SUBSET Hosts /\ Accepted(sel) \subseteq Live
BY AcceptedFits DEF Candidates, Live

LEMMA StageType ==
  ASSUME FleetOK, NEW sel, NEW strategy, NEW k \in DOMAIN Stages(sel, strategy)
  PROVE  LET stage == Stages(sel, strategy)[k]
         IN stage \in Seq(Accepted(sel)) /\ stage \in Seq(Hosts) /\ stage # <<>>
<1> DEFINE stages == Stages(sel, strategy)
           stage == stages[k]
<1>1. StagesOf(stages, Accepted(sel))
  BY AcceptedHosts, StagesSound DEF Stages
<1> HIDE DEF stages
<1>2. stages \in Seq(Seq(Accepted(sel))) /\ Len(stage) \in 1..StageSize
  BY <1>1 DEF StagesOf, StagesPartition, stages
<1>3. stage \in Seq(Accepted(sel))
  BY <1>2, ElementOfSeq, LenProperties DEF stages
<1>4. stage \in Seq(Hosts)
  BY <1>3, AcceptedHosts, SeqMonotonic
<1>5. stage # <<>>
  BY <1>2, EmptySeq
<1>6. QED
  BY <1>3, <1>4, <1>5 DEF stages

LEMMA MergedType ==
  ASSUME NEW meta \in Meta, NEW p \in Patches
  PROVE  MergedMeta(meta, p) \in Meta /\ p.enabled \in BOOLEAN \cup {Keep}
<1>1. p \in Patch
  BY FleetAssumption
<1>2. QED
  <2> DEFINE d == applyFleetPolicyDelta(meta, p)
  <2>1. /\ p.group \in Groups \cup {Keep} /\ p.paused \in BOOLEAN \cup {Keep}
        /\ p.priority \in -100..100 \cup {Keep} /\ p.profile \in Profiles \cup {Keep}
        /\ p.tags \in (SUBSET Tags) \cup {Keep} /\ p.add \in SUBSET Tags
        /\ p.enabled \in BOOLEAN \cup {Keep}
    BY <1>1 DEF Patch
  <2>2. /\ Chosen(p.group, meta.group) \in Groups
        /\ Chosen(p.paused, meta.paused) \in BOOLEAN
        /\ Chosen(p.priority, meta.priority) \in -100..100
        /\ Chosen(p.profile, meta.profile) \in Profiles
    BY <2>1 DEF Chosen, Meta
  <2>3. (IF p.tags # Keep THEN p.tags ELSE (meta.tags \cup p.add) \ p.remove) \in SUBSET Tags
    BY <2>1 DEF Meta
  <2> DEFINE group == Chosen(p.group, meta.group)
             tags == IF p.tags # Keep THEN p.tags ELSE (meta.tags \cup p.add) \ p.remove
             paused == Chosen(p.paused, meta.paused)
             priority == Chosen(p.priority, meta.priority)
             profile == Chosen(p.profile, meta.profile)
  <2>4. d = [meta EXCEPT !.group = group, !.tags = tags, !.paused = paused, !.priority = priority]
    BY DEF applyFleetPolicyDelta
  <2>5. group \in Groups /\ tags \in SUBSET Tags /\ paused \in BOOLEAN
        /\ priority \in -100..100 /\ profile \in Profiles
    BY <2>2, <2>3
  <2> HIDE DEF group, tags, paused, priority, profile, d
  <2>6. d \in Meta
    BY <2>4, <2>5 DEF Meta
  <2>7. d.profile = meta.profile
    BY <2>4 DEF Meta
  <2>8. MergedMeta(meta, p) = [d EXCEPT !.profile = profile]
    BY <2>7 DEF MergedMeta, d, profile
  <2>9. MergedMeta(meta, p) \in Meta
    BY <2>5, <2>6, <2>8 DEF Meta
  <2>10. QED
    BY <2>1, <2>9

LEMMA InitialTypes == Init => TypeOK
<1>1. SUFFICES ASSUME Init PROVE TypeOK
  OBVIOUS
<1>2. host \in [Hosts -> HostRow]
  BY <1>1, FleetAssumption DEF Init, HostRow
<1>3. seen \in [Hosts -> Hosts] /\ \A g, h \in Hosts : seen[g] = seen[h] => g = h
  BY <1>1 DEF Init
<1>4. roll \in [Rollouts -> RollState] /\ edit \in [Editors -> EditState]
  BY <1>1 DEF Init, IdleRoll, RollState, IdleEdit, EditState
<1>5. reached \in [Selectors -> SUBSET Hosts] /\ calls \in 0..MaxCalls
  BY <1>1, FleetAssumption DEF Init
<1>6. QED
  BY <1>2, <1>3, <1>4, <1>5 DEF TypeOK

LEMMA TypesOfFleet == TypeOK => FleetOK
BY DEF TypeOK, FleetOK

LEMMA BeginType == ASSUME TypeOK, Begin PROVE calls' \in 0..MaxCalls
BY FleetAssumption DEF TypeOK, Begin

LEMMA MovedType ==
  ASSUME TypeOK, Moved
  PROVE  roll' \in [Rollouts -> RollState] /\ reached' \in [Selectors -> SUBSET Hosts]
<1>1. \A c \in Rollouts : [roll[c] EXCEPT !.current = FALSE] \in RollState
  BY DEF TypeOK, RollState
<1>2. roll' \in [Rollouts -> RollState]
  BY <1>1 DEF Moved
<1>3. reached' \in [Selectors -> SUBSET Hosts]
  BY DEF Moved, NothingReached
<1>4. QED
  BY <1>2, <1>3

LEMMA TailType ==
  ASSUME NEW S, NEW s \in Seq(S), s # <<>>
  PROVE  Head(s) \in S /\ Tail(s) \in Seq(S)
BY HeadTailProperties

(* What a bulk edit starts with: some hosts in order, and what is to be     *)
(* written of each.                                                         *)
BulkWrites(e, hit, p) ==
  LET sorted == sortFleetHostsForRollout(hit)
  IN edit' = [edit EXCEPT ![e] =
       [todo |-> [i \in DOMAIN sorted |->
                    [host |-> sorted[i], meta |-> MergedMeta(host[sorted[i]].meta, p),
                     enabled |-> Keep]],
        patch |-> p, stale |-> {}]]

LEMMA BulkEditWrites ==
  ASSUME FleetOK, NEW e, BeginBulkEdit(e)
  PROVE  \E hit \in SUBSET Hosts, p \in Patches : BulkWrites(e, hit, p) /\ p.enabled = Keep
<1> DEFINE sorted(sel) == sortFleetHostsForRollout(Candidates(sel))
           first(sel) == {sorted(sel)[i] : i \in 1..Min({EditLimit, Len(sorted(sel))})}
           hit(sel, p) == {h \in first(sel) : MergedMeta(host[h].meta, p) # host[h].meta}
<1>1. PICK sel \in Selectors, p \in Patches :
        BulkWrites(e, hit(sel, p), p) /\ p.enabled = Keep
  BY Zenon DEF BeginBulkEdit, BulkWrites
<1>2. hit(sel, p) \in SUBSET Hosts
  <2>1. /\ sorted(sel) \in Seq(Hosts) /\ Len(sorted(sel)) \in Nat
    BY CandidatesSorted DEF Candidates, Live
  <2> HIDE DEF sorted
  <2>2. EditLimit \in Int
    BY LimitsType
  <2>3. 1..Min({EditLimit, Len(sorted(sel))}) \subseteq 1..Len(sorted(sel))
    BY <2>1, <2>2, SmallerOfTwo
  <2>4. first(sel) \subseteq Hosts
    BY <2>1, <2>3, ElementOfSeq
  <2>5. QED
    BY <2>4
<1>3. QED
  BY <1>1, <1>2

LEMMA TypesPreserved == TypeOK /\ [Next]_vars => TypeOK'
<1>1. SUFFICES ASSUME TypeOK, [Next]_vars PROVE TypeOK'
  OBVIOUS
<1> USE <1>1
<1>2. FleetOK
  BY TypesOfFleet
<1>3. ASSUME NEW c \in Rollouts, BeginStage(c) PROVE TypeOK'
  <2>1. PICK sel \in Selectors, strategy \in Strategies : \E k \in DOMAIN Stages(sel, strategy) :
          roll' = [roll EXCEPT ![c] =
                    [todo |-> Stages(sel, strategy)[k], sel |-> sel, current |-> TRUE]]
    BY <1>3 DEF BeginStage
  <2> PICK k \in DOMAIN Stages(sel, strategy) :
          roll' = [roll EXCEPT ![c] =
                    [todo |-> Stages(sel, strategy)[k], sel |-> sel, current |-> TRUE]]
    BY <2>1
  <2>2. Stages(sel, strategy)[k] \in Seq(Hosts)
    BY <1>2, StageType
  <2>3. roll' \in [Rollouts -> RollState]
    BY <2>1, <2>2 DEF TypeOK, RollState
  <2>4. QED
    BY <1>3, <2>3, BeginType DEF TypeOK, BeginStage
<1>4. ASSUME NEW c \in Rollouts, QueueHost(c) PROVE TypeOK'
  <2>1. roll[c].todo \in Seq(Hosts) /\ roll[c].todo # <<>> /\ roll[c] \in RollState
    BY <1>4 DEF TypeOK, QueueHost, RollState
  <2>2. Head(roll[c].todo) \in Hosts /\ Tail(roll[c].todo) \in Seq(Hosts)
    BY <2>1, TailType
  <2>3. roll' \in [Rollouts -> RollState]
    <3>1. IdleRoll \in RollState /\ [roll[c] EXCEPT !.todo = Tail(roll[c].todo)] \in RollState
      <4>1. IdleRoll \in RollState
        BY DEF RollState, IdleRoll
      <4> DEFINE rest == Tail(roll[c].todo)
      <4>2. rest \in Seq(Hosts)
        BY <2>2
      <4> HIDE DEF rest
      <4>3. [roll[c] EXCEPT !.todo = rest] \in RollState
        BY <2>1, <4>2 DEF RollState
      <4>4. QED
        BY <4>1, <4>3 DEF rest
    <3>2. roll' = [roll EXCEPT ![c] = IF Len(roll[c].todo) = 1 THEN IdleRoll
                                      ELSE [roll[c] EXCEPT !.todo = Tail(roll[c].todo)]]
      BY <1>4 DEF QueueHost
    <3>3. QED
      BY <3>1, <3>2 DEF TypeOK
  <2>4. reached' \in [Selectors -> SUBSET Hosts]
    BY <1>4, <2>1, <2>2 DEF TypeOK, QueueHost, RollState
  <2>5. QED
    BY <1>4, <2>3, <2>4 DEF TypeOK, QueueHost
<1>5. ASSUME NEW e \in Editors, BeginBulkEdit(e) PROVE TypeOK'
  <2>1. PICK hit \in SUBSET Hosts, p \in Patches : BulkWrites(e, hit, p)
    BY <1>2, <1>5, BulkEditWrites
  <2> DEFINE sorted == sortFleetHostsForRollout(hit)
             todo == [i \in DOMAIN sorted |->
                        [host |-> sorted[i], meta |-> MergedMeta(host[sorted[i]].meta, p),
                         enabled |-> Keep]]
  <2>2. sorted \in Seq(Hosts) /\ DOMAIN sorted = 1..Len(sorted) /\ Len(sorted) \in Nat
    BY <1>2, CandidatesSorted
  <2> HIDE DEF sorted
  <2>3. \A i \in 1..Len(sorted) : sorted[i] \in Hosts /\ host[sorted[i]].meta \in Meta
    BY <1>2, <2>2, ElementOfSeq, FleetTypes
  <2>4. todo \in Seq(EditWrite)
    <3>1. \A i \in 1..Len(sorted) : todo[i] \in EditWrite
      BY <2>2, <2>3, MergedType DEF EditWrite
    <3>2. QED
      BY <2>2, <3>1, FunctionIsSeq
  <2>5. edit' = [edit EXCEPT ![e] = [todo |-> todo, patch |-> p, stale |-> {}]]
    BY <2>1 DEF sorted, BulkWrites
  <2> HIDE DEF todo
  <2>6. edit' \in [Editors -> EditState]
    BY <2>4, <2>5 DEF TypeOK, EditState
  <2>7. QED
    BY <1>5, <2>6, BeginType DEF TypeOK, BeginBulkEdit
<1>6. ASSUME NEW e \in Editors, BeginPut(e) PROVE TypeOK'
  <2>1. PICK h \in Live, p \in Patches :
          edit' = [edit EXCEPT ![e] =
            [todo |-> <<[host |-> h, enabled |-> p.enabled,
                         meta |-> IF NamesMeta(p) THEN MergedMeta(host[h].meta, p) ELSE Keep]>>,
             patch |-> p, stale |-> {}]]
    BY <1>6 DEF BeginPut
  <2> DEFINE w == [host |-> h, enabled |-> p.enabled,
                   meta |-> IF NamesMeta(p) THEN MergedMeta(host[h].meta, p) ELSE Keep]
  <2>2. h \in Hosts /\ host[h].meta \in Meta
    BY <1>2, FleetTypes DEF Live
  <2>3. w \in EditWrite
    BY <2>2, MergedType DEF EditWrite
  <2>4. edit' = [edit EXCEPT ![e] = [todo |-> <<w>>, patch |-> p, stale |-> {}]]
    BY <2>1
  <2> HIDE DEF w
  <2>5. edit' \in [Editors -> EditState]
    BY <2>3, <2>4 DEF TypeOK, EditState
  <2>6. QED
    BY <1>6, <2>5, BeginType DEF TypeOK, BeginPut
<1>7. ASSUME NEW e \in Editors, WriteEdit(e) PROVE TypeOK'
  <2> DEFINE w == Head(edit[e].todo)
  <2>1. edit[e] \in EditState /\ edit[e].todo \in Seq(EditWrite) /\ edit[e].todo # <<>>
    BY <1>7 DEF TypeOK, WriteEdit, EditState
  <2>2. w \in EditWrite /\ Tail(edit[e].todo) \in Seq(EditWrite)
    BY <2>1, TailType
  <2>3. /\ w.host \in Hosts /\ w.meta \in Meta \cup {Keep} /\ w.enabled \in BOOLEAN \cup {Keep}
    BY <2>2 DEF EditWrite
  <2>4. CASE host[w.host].live
    <3>1. /\ host' = [host EXCEPT ![w.host].meta = Chosen(w.meta, host[w.host].meta),
                                  ![w.host].enabled = Chosen(w.enabled, @)]
          /\ edit' = [f \in Editors |->
               IF f # e THEN [edit[f] EXCEPT !.stale = IF edit[f].todo = <<>> THEN @ ELSE @ \cup {w.host}]
               ELSE IF Len(edit[e].todo) = 1 THEN IdleEdit
               ELSE [edit[e] EXCEPT !.todo = Tail(@)]]
          /\ Moved /\ UNCHANGED <<seen, calls>>
      BY <1>7, <2>4 DEF WriteEdit
    <3> HIDE DEF w
    <3>2. host' \in [Hosts -> HostRow]
      BY <2>3, <3>1 DEF TypeOK, HostRow, Chosen
    <3>3. edit' \in [Editors -> EditState]
      <4>1. /\ IdleEdit \in EditState
            /\ [edit[e] EXCEPT !.todo = Tail(edit[e].todo)] \in EditState
        <5>1. IdleEdit \in EditState
          BY DEF EditState, IdleEdit
        <5> DEFINE rest == Tail(edit[e].todo)
        <5>2. rest \in Seq(EditWrite)
          BY <2>2
        <5> HIDE DEF rest
        <5>3. [edit[e] EXCEPT !.todo = rest] \in EditState
          BY <2>1, <5>2 DEF EditState
        <5>4. QED
          BY <5>1, <5>3 DEF rest
      <4>2. ASSUME NEW f \in Editors
            PROVE  [edit[f] EXCEPT !.stale = IF edit[f].todo = <<>> THEN @ ELSE @ \cup {w.host}]
                     \in EditState
        <5> DEFINE stale == IF edit[f].todo = <<>> THEN edit[f].stale
                            ELSE edit[f].stale \cup {w.host}
        <5>1. edit[f] \in EditState /\ stale \in SUBSET Hosts
          BY <2>3 DEF TypeOK, EditState
        <5> HIDE DEF stale
        <5>2. [edit[f] EXCEPT !.stale = stale] \in EditState
          BY <5>1 DEF EditState
        <5>3. QED
          BY <5>2 DEF stale
      <4>3. QED
        BY <3>1, <4>1, <4>2
    <3>4. QED
      BY <3>1, <3>2, <3>3, MovedType DEF TypeOK
  <2>5. CASE ~host[w.host].live
    <3>1. edit' = [edit EXCEPT ![e] = IdleEdit] /\ UNCHANGED <<host, seen, roll, reached, calls>>
      BY <1>7, <2>5 DEF WriteEdit
    <3>2. edit' \in [Editors -> EditState]
      BY <3>1 DEF TypeOK, EditState, IdleEdit
    <3>3. QED
      BY <3>1, <3>2 DEF TypeOK
  <2>6. QED
    BY <2>4, <2>5
<1>8. ASSUME NEW h \in Hosts, Delete(h) PROVE TypeOK'
  <2>1. host' \in [Hosts -> HostRow]
    <3>1. host[h] \in HostRow /\ [host[h] EXCEPT !.live = FALSE] \in HostRow
      BY DEF TypeOK, HostRow
    <3>2. host' = [host EXCEPT ![h] = [host[h] EXCEPT !.live = FALSE]]
      BY <1>8 DEF Delete, TypeOK
    <3>3. QED
      BY <3>1, <3>2 DEF TypeOK
  <2>2. QED
    BY <1>8, <2>1, MovedType, BeginType DEF TypeOK, Delete
<1>9. ASSUME NEW h \in Hosts, Contact(h) PROVE TypeOK'
  <2>1. seen' = [g \in Hosts |-> IF g = h THEN 1
                                ELSE IF seen[g] < seen[h] THEN seen[g] + 1 ELSE seen[g]]
    BY <1>9 DEF Contact
  <2>2. /\ NHosts \in Nat /\ seen[h] \in 1..NHosts /\ seen[h] # 1
        /\ \A g \in Hosts : seen[g] \in 1..NHosts
        /\ \A f, g \in Hosts : seen[f] = seen[g] => f = g
    BY <1>9, FleetAssumption DEF Contact, TypeOK, Hosts
  <2>3. \A g \in Hosts : seen'[g] \in 1..NHosts
    BY <2>1, <2>2
  <2>4. \A f, g \in Hosts : seen'[f] = seen'[g] => f = g
    BY <2>1, <2>2
  <2>5. seen' \in [Hosts -> Hosts]
    BY <2>1, <2>3 DEF Hosts
  <2>6. roll' \in [Rollouts -> RollState] /\ reached' \in [Selectors -> SUBSET Hosts]
    BY <1>9, MovedType DEF Contact, TypeOK
  <2>7. QED
    BY <1>9, <2>4, <2>5, <2>6, BeginType DEF TypeOK, Contact
<1>10. CASE UNCHANGED vars
  BY <1>10 DEF TypeOK, vars
<1>11. QED
  BY <1>3, <1>4, <1>5, <1>6, <1>7, <1>8, <1>9, <1>10 DEF Next
(* Every variable has its type.                                             *)
THEOREM TypeCorrect == Spec => []TypeOK
<1>1. QED
  BY InitialTypes, TypesPreserved, PTL DEF Spec

(* Whatever the hosts' policies and priorities, and whatever was edited,    *)
(* deleted or seen meanwhile, a plan (planFleetRemediation) takes the hosts *)
(* it promises to and in the order it promises.                             *)
THEOREM PlanAlwaysSound == Spec => []PlanIsSound
<1>1. TypeOK => PlanIsSound
  BY TypesOfFleet, PlanSoundness
<1>2. QED
  BY <1>1, TypeCorrect, PTL

-----------------------------------------------------------------------------
(* The blast radius                                                         *)

Current(c) == roll[c].current /\ roll[c].todo # <<>>

(* Of one selector, every host reached and every host still to be reached   *)
(* by a call whose plan stands are hosts the plan accepts now: two requests *)
(* cannot add up to more than one plan.                                     *)
RadiusInv ==
  /\ \A c \in Rollouts : Current(c) => roll[c].sel \in Selectors
  /\ \A sel \in Selectors :
       /\ reached[sel] \subseteq Accepted(sel)
       /\ \A c \in Rollouts :
            Current(c) /\ roll[c].sel = sel => roll[c].todo \in Seq(Accepted(sel))

LEMMA LimitsOfPart ==
  ASSUME FleetOK, NEW sel, NEW S \in SUBSET Accepted(sel)
  PROVE  /\ Cardinality(S) <= AllowedTotal
         /\ \A g \in Groups : Cardinality(OfGroup(S, g)) <= MaxPerGroup
<1> DEFINE A == Accepted(sel)
<1>1. /\ A \in SUBSET Hosts /\ Cardinality(A) <= AllowedTotal
      /\ \A g \in Groups : Cardinality(OfGroup(A, g)) <= MaxPerGroup
  BY AcceptedHosts, AcceptedFits DEF WithinLimits
<1> HIDE DEF A
<1>2. S \subseteq A
  BY DEF A
<1>3. /\ IsFiniteSet(A) /\ Cardinality(A) \in Nat /\ Cardinality(S) \in Nat
      /\ Cardinality(S) <= Cardinality(A)
  BY <1>1, <1>2, HostsFinite, FS_Subset
<1>4. ASSUME NEW g \in Groups PROVE Cardinality(OfGroup(S, g)) <= MaxPerGroup
  <2>1. OfGroup(S, g) \subseteq OfGroup(A, g) /\ OfGroup(A, g) \in SUBSET Hosts
    BY <1>1, <1>2 DEF OfGroup
  <2>2. /\ IsFiniteSet(OfGroup(A, g)) /\ Cardinality(OfGroup(A, g)) \in Nat
        /\ Cardinality(OfGroup(S, g)) \in Nat
        /\ Cardinality(OfGroup(S, g)) <= Cardinality(OfGroup(A, g))
    BY <2>1, HostsFinite, FS_Subset
  <2>3. QED
    BY <1>1, <2>2, LimitsType
<1>5. QED
  BY <1>1, <1>3, <1>4, LimitsType

LEMMA RadiusFromInv == FleetOK /\ RadiusInv => RolloutWithinRadius
BY LimitsOfPart DEF RadiusInv, RolloutWithinRadius

(* A plan depends on the rows of the hosts, and on the order of contact     *)
(* only between hosts of equal priority.                                    *)
PlansStand ==
  /\ host' = host
  /\ \A g, h \in Live : <<g, h>> \in Precedence' <=> <<g, h>> \in Precedence

LEMMA SortStands ==
  ASSUME NEW S, NEW q, NEW r, \A g, h \in S : <<g, h>> \in q <=> <<g, h>> \in r
  PROVE  Sorted(S, q) = Sorted(S, r)
<1>1. \A h \in S : Earlier(h, S, q) = Earlier(h, S, r)
  BY DEF Earlier
<1> DEFINE place(order) == [h \in S |-> Cardinality(Earlier(h, S, order)) + 1]
           sorted(p) == [i \in 1..Cardinality(S) |-> CHOOSE h \in S : p[h] = i]
<1>2. place(q) = place(r)
  BY <1>1
<1>3. Sorted(S, q) = sorted(place(q)) /\ Sorted(S, r) = sorted(place(r))
  BY DEF Sorted
<1> HIDE DEF place, sorted
<1>4. QED
  BY <1>2, <1>3

LEMMA SafeguardsStand ==
  ASSUME host' = host, NEW CONSTANT s
  PROVE  applyFleetBlastRadiusSafeguards(s)' = applyFleetBlastRadiusSafeguards(s)
BY DEF applyFleetBlastRadiusSafeguards, HasRoom, AllowedTotal, AllowedByPercent, Live,
       OfGroup, GroupOf

LEMMA AcceptedStands ==
  ASSUME PlansStand, NEW CONSTANT sel
  PROVE  Accepted(sel)' = Accepted(sel)
<1>1. Candidates(sel)' = Candidates(sel) /\ Candidates(sel) \subseteq Live
  BY DEF PlansStand, Candidates, hostMatchesFleetSelector, Live
<1>2. sortFleetHostsForRollout(Candidates(sel))' = sortFleetHostsForRollout(Candidates(sel))
  <2>1. \A g, h \in Candidates(sel) : <<g, h>> \in Precedence' <=> <<g, h>> \in Precedence
    BY <1>1 DEF PlansStand
  <2>2. Sorted(Candidates(sel), Precedence') = Sorted(Candidates(sel), Precedence)
    BY <2>1, SortStands
  <2>3. QED
    BY <1>1, <2>2 DEF sortFleetHostsForRollout
<1>3. QED
  BY <1>2, SafeguardsStand DEF Accepted, PlansStand
LEMMA RadiusInvInitially == Init /\ TypeOK => RadiusInv
BY DEF Init, RadiusInv, IdleRoll, Current

LEMMA RadiusInvAfterMove ==
  ASSUME TypeOK, Moved PROVE RadiusInv'
<1>1. \A c \in Rollouts : ~Current(c)'
  BY DEF Moved, TypeOK, RollState, Current
<1>2. \A sel \in Selectors : reached'[sel] = {}
  BY DEF Moved, NothingReached
<1>3. QED
  BY <1>1, <1>2 DEF RadiusInv

LEMMA RadiusInvStands ==
  ASSUME RadiusInv, PlansStand, UNCHANGED <<roll, reached>>
  PROVE  RadiusInv'
BY AcceptedStands DEF RadiusInv, Current

LEMMA UnchangedStands == ASSUME UNCHANGED <<host, seen>> PROVE PlansStand
BY DEF PlansStand, Precedence, Precedes

LEMMA RadiusPreserved == TypeOK /\ RadiusInv /\ [Next]_vars => RadiusInv'
<1>1. SUFFICES ASSUME TypeOK, RadiusInv, [Next]_vars PROVE RadiusInv'
  OBVIOUS
<1> USE <1>1
<1>2. FleetOK
  BY TypesOfFleet
<1>3. ASSUME NEW c \in Rollouts, BeginStage(c) PROVE RadiusInv'
  <2>1. PlansStand
    BY <1>3, UnchangedStands DEF BeginStage
  <2>2. PICK sel \in Selectors, strategy \in Strategies : \E k \in DOMAIN Stages(sel, strategy) :
          roll' = [roll EXCEPT ![c] =
                    [todo |-> Stages(sel, strategy)[k], sel |-> sel, current |-> TRUE]]
    BY <1>3 DEF BeginStage
  <2> PICK k \in DOMAIN Stages(sel, strategy) :
          roll' = [roll EXCEPT ![c] =
                    [todo |-> Stages(sel, strategy)[k], sel |-> sel, current |-> TRUE]]
    BY <2>2
  <2> DEFINE stage == Stages(sel, strategy)[k]
  <2>3. stage \in Seq(Accepted(sel))
    BY <1>2, StageType
  <2> HIDE DEF stage
  <2>4. roll' = [roll EXCEPT ![c] = [todo |-> stage, sel |-> sel, current |-> TRUE]]
    BY DEF stage
  <2>5. /\ roll'[c].sel = sel /\ roll'[c].todo = stage
        /\ \A d \in Rollouts \ {c} : roll'[d] = roll[d]
    BY <2>4 DEF TypeOK
  <2>6. reached' = reached
    BY <1>3 DEF BeginStage
  <2>7. \A q : Accepted(q)' = Accepted(q)
    BY <2>1, AcceptedStands
  <2>8. \A q \in Selectors : reached'[q] \subseteq Accepted(q)'
    BY <2>6, <2>7 DEF RadiusInv
  <2>9. ASSUME NEW d \in Rollouts, Current(d)'
        PROVE  /\ roll'[d].sel \in Selectors
               /\ \A q \in Selectors : roll'[d].sel = q => roll'[d].todo \in Seq(Accepted(q))
    <3>1. CASE d = c
      BY <2>3, <2>5, <3>1
    <3>2. CASE d # c
      <4>1. roll'[d] = roll[d] /\ Current(d)
        BY <2>5, <2>9, <3>2 DEF Current
      <4>2. QED
        BY <4>1 DEF RadiusInv
    <3>3. QED
      BY <3>1, <3>2
  <2>10. \A q \in Selectors : \A d \in Rollouts :
           Current(d)' /\ roll'[d].sel = q => roll'[d].todo \in Seq(Accepted(q)')
    BY <2>7, <2>9
  <2>11. \A d \in Rollouts : Current(d)' => roll'[d].sel \in Selectors
    BY <2>9
  <2>12. QED
    BY <2>8, <2>10, <2>11 DEF RadiusInv
<1>4. ASSUME NEW c \in Rollouts, QueueHost(c) PROVE RadiusInv'
  <2> DEFINE h == Head(roll[c].todo)
             rest == Tail(roll[c].todo)
             sel == roll[c].sel
  <2>1. PlansStand
    BY <1>4, UnchangedStands DEF QueueHost
  <2>2. \A q : Accepted(q)' = Accepted(q)
    BY <2>1, AcceptedStands
  <2>3. roll[c].todo # <<>>
    BY <1>4 DEF QueueHost
  <2>4. roll[c].current => /\ sel \in Selectors
                           /\ h \in Accepted(sel) /\ rest \in Seq(Accepted(sel))
    BY <2>3, TailType DEF RadiusInv, Current
  <2>5. \/ roll[c].current /\ reached' = [reached EXCEPT ![sel] = reached[sel] \cup {h}]
        \/ reached' = reached
    BY <1>4 DEF QueueHost
  <2>6. roll' = [roll EXCEPT ![c] = IF Len(roll[c].todo) = 1 THEN IdleRoll
                                    ELSE [roll[c] EXCEPT !.todo = rest]]
    BY <1>4 DEF QueueHost
  <2>7. /\ roll'[c] = IdleRoll \/ roll'[c] = [roll[c] EXCEPT !.todo = rest]
        /\ \A d \in Rollouts \ {c} : roll'[d] = roll[d]
    BY <2>6 DEF TypeOK
  <2> HIDE DEF h, rest
  <2>8. ASSUME NEW q \in Selectors PROVE reached'[q] \subseteq Accepted(q)'
    <3>1. \/ reached'[q] = reached[q]
          \/ roll[c].current /\ q = sel /\ reached'[q] = reached[q] \cup {h}
      BY <2>5 DEF TypeOK
    <3>2. QED
      BY <2>2, <2>4, <3>1 DEF RadiusInv
  <2>9. ASSUME NEW d \in Rollouts, Current(d)'
        PROVE  /\ roll'[d].sel \in Selectors
               /\ \A q \in Selectors : roll'[d].sel = q => roll'[d].todo \in Seq(Accepted(q))
    <3>1. CASE d = c
      <4>1. roll'[c] = [roll[c] EXCEPT !.todo = rest]
        BY <2>7, <2>9, <3>1 DEF IdleRoll, Current
      <4>2. roll'[c].sel = sel /\ roll'[c].current = roll[c].current /\ roll'[c].todo = rest
        BY <4>1 DEF TypeOK, RollState
      <4>3. roll[c].current
        BY <2>9, <3>1, <4>2 DEF Current
      <4>4. QED
        BY <2>4, <3>1, <4>2, <4>3
    <3>2. CASE d # c
      <4>1. roll'[d] = roll[d] /\ Current(d)
        BY <2>7, <2>9, <3>2 DEF Current
      <4>2. QED
        BY <4>1 DEF RadiusInv
    <3>3. QED
      BY <3>1, <3>2
  <2>10. \A q \in Selectors : \A d \in Rollouts :
           Current(d)' /\ roll'[d].sel = q => roll'[d].todo \in Seq(Accepted(q)')
    BY <2>2, <2>9
  <2>11. \A d \in Rollouts : Current(d)' => roll'[d].sel \in Selectors
    BY <2>9
  <2>12. QED
    BY <2>8, <2>10, <2>11 DEF RadiusInv
<1>5. ASSUME NEW e \in Editors, BeginBulkEdit(e) \/ BeginPut(e) PROVE RadiusInv'
  <2>1. UNCHANGED <<host, seen, roll, reached>>
    BY <1>5 DEF BeginBulkEdit, BeginPut
  <2>2. QED
    BY <2>1, UnchangedStands, RadiusInvStands
<1>6. ASSUME NEW e \in Editors, WriteEdit(e) PROVE RadiusInv'
  <2>1. Moved \/ UNCHANGED <<host, seen, roll, reached>>
    BY <1>6, Zenon DEF WriteEdit
  <2>2. QED
    BY <2>1, UnchangedStands, RadiusInvStands, RadiusInvAfterMove
<1>7. ASSUME NEW h \in Hosts, Delete(h) PROVE RadiusInv'
  BY <1>7, RadiusInvAfterMove DEF Delete
<1>8. ASSUME NEW h \in Hosts, Contact(h) PROVE RadiusInv'
  <2>1. CASE Moved
    BY <2>1, RadiusInvAfterMove
  <2>2. CASE ~Moved
    <3>1. /\ \A g \in Live \ {h} : host[g].meta.priority # host[h].meta.priority
          /\ UNCHANGED <<host, roll, reached>> /\ host[h].live
          /\ seen' = [g \in Hosts |-> IF g = h THEN 1
                                     ELSE IF seen[g] < seen[h] THEN seen[g] + 1 ELSE seen[g]]
      BY <1>8, <2>2 DEF Contact
    <3>2. Live \subseteq Hosts /\ h \in Live
      BY <3>1 DEF Live
    <3>3. \A g \in Hosts : seen[g] \in Int
      BY <1>2, FleetTypes
    <3>4. ASSUME NEW f \in Live, NEW g \in Live,
                 host[f].meta.priority = host[g].meta.priority
          PROVE  seen'[f] < seen'[g] <=> seen[f] < seen[g]
      <4>1. f \in Hosts /\ g \in Hosts /\ (seen[f] = seen[h] => f = h) /\ (seen[g] = seen[h] => g = h)
        BY <1>2, <3>2 DEF FleetOK
      <4>2. f = h <=> g = h
        BY <3>1, <3>4
      <4>3. CASE f = h
        <5>1. f = g
          BY <4>2, <4>3
        <5>2. seen[f] \in Int /\ seen'[f] \in Int
          BY <3>1, <3>3, <4>1, <4>3
        <5>3. QED
          BY <5>1, <5>2
      <4>4. CASE f # h
        <5>1. /\ seen'[f] = IF seen[f] < seen[h] THEN seen[f] + 1 ELSE seen[f]
              /\ seen'[g] = IF seen[g] < seen[h] THEN seen[g] + 1 ELSE seen[g]
              /\ seen[f] # seen[h] /\ seen[g] # seen[h]
          BY <3>1, <4>1, <4>2, <4>4
        <5>2. QED
          BY <3>3, <4>1, <5>1
      <4>5. QED
        BY <4>3, <4>4
    <3>5. \A f, g \in Live : <<f, g>> \in Precedence' <=> <<f, g>> \in Precedence
      BY <3>1, <3>2, <3>4 DEF Precedence, Precedes
    <3>6. PlansStand
      BY <3>1, <3>5 DEF PlansStand
    <3>7. QED
      BY <3>1, <3>6, RadiusInvStands
  <2>3. QED
    BY <2>1, <2>2
<1>9. CASE UNCHANGED vars
  BY <1>9, UnchangedStands, RadiusInvStands DEF vars
<1>10. QED
  BY <1>3, <1>4, <1>5, <1>6, <1>7, <1>8, <1>9 DEF Next

(* Whatever stages of whatever plans are executed, by however many          *)
(* operators, the hosts they reach for a selector stay within the caps of   *)
(* one plan until the fleet, its policies or its order change.              *)
THEOREM RolloutStaysWithinRadius == Spec => []RolloutWithinRadius
<1>1. Init => TypeOK /\ RadiusInv
  BY InitialTypes, RadiusInvInitially
<1>2. TypeOK /\ RadiusInv /\ [Next]_vars => (TypeOK /\ RadiusInv)'
  BY TypesPreserved, RadiusPreserved
<1>3. TypeOK /\ RadiusInv => RolloutWithinRadius
  BY TypesOfFleet, RadiusFromInv
<1>4. QED
  BY <1>1, <1>2, <1>3, PTL DEF Spec
-----------------------------------------------------------------------------
(* The edits                                                                *)

(* What an edit has still to write: of each host one document, the one the  *)
(* host has now with the patch applied, unless the host was written since.  *)
EditOK(e) ==
  LET todo == edit[e].todo  p == edit[e].patch
  IN /\ \A i, j \in DOMAIN todo : todo[i].host = todo[j].host => i = j
     /\ \A i \in DOMAIN todo : todo[i].enabled = p.enabled
     /\ \A i \in DOMAIN todo :
          todo[i].host \notin edit[e].stale /\ todo[i].meta # Keep =>
            todo[i].meta = MergedMeta(host[todo[i].host].meta, p)

EditInv == \A e \in Editors : EditOK(e)

LEMMA IdleEditOK == ASSUME NEW e, edit[e].todo = <<>> PROVE EditOK(e)
BY DEF EditOK

LEMMA EditInvInitially == Init => EditInv
BY IdleEditOK DEF Init, EditInv, IdleEdit

LEMMA WritesType ==
  ASSUME TypeOK, NEW e \in Editors
  PROVE  /\ edit[e].todo \in Seq(EditWrite) /\ DOMAIN edit[e].todo = 1..Len(edit[e].todo)
         /\ Len(edit[e].todo) \in Nat
         /\ \A i \in DOMAIN edit[e].todo :
              /\ edit[e].todo[i].host \in Hosts
              /\ edit[e].todo[i].meta \in Meta \cup {Keep}
              /\ edit[e].todo[i].enabled \in BOOLEAN \cup {Keep}
<1> DEFINE todo == edit[e].todo
<1>1. todo \in Seq(EditWrite)
  BY DEF TypeOK, EditState
<1> HIDE DEF todo
<1>2. DOMAIN todo = 1..Len(todo) /\ Len(todo) \in Nat /\ \A i \in 1..Len(todo) : todo[i] \in EditWrite
  BY <1>1, LenProperties, ElementOfSeq
<1>3. QED
  BY <1>1, <1>2 DEF EditWrite, todo

(* An edit that is not at its own step stays right when the documents of    *)
(* its hosts are as they were, but for hosts it is told of.                 *)
LEMMA EditStays ==
  ASSUME TypeOK, NEW e \in Editors, EditOK(e),
         edit'[e].todo = edit[e].todo, edit'[e].patch = edit[e].patch,
         edit[e].todo # <<>> =>
           /\ edit[e].stale \subseteq edit'[e].stale
           /\ \A h \in Hosts \ edit'[e].stale : host'[h].meta = host[h].meta
  PROVE  EditOK(e)'
<1>1. CASE edit[e].todo = <<>>
  BY <1>1 DEF EditOK
<1>2. CASE edit[e].todo # <<>>
  <2>1. \A i \in DOMAIN edit[e].todo :
          edit[e].todo[i].host \notin edit'[e].stale /\ edit[e].todo[i].meta # Keep =>
            edit[e].todo[i].meta = MergedMeta(host'[edit[e].todo[i].host].meta, edit[e].patch)
    <3>1. TAKE i \in DOMAIN edit[e].todo
    <3> DEFINE w == edit[e].todo[i]
    <3>2. HAVE w.host \notin edit'[e].stale /\ w.meta # Keep
    <3>3. w.host \in Hosts /\ w.host \notin edit[e].stale
      BY <1>2, <3>2, WritesType
    <3>4. host'[w.host].meta = host[w.host].meta
      BY <1>2, <3>2, <3>3
    <3>5. w.meta = MergedMeta(host[w.host].meta, edit[e].patch)
      BY <3>2, <3>3 DEF EditOK
    <3>6. QED
      BY <3>4, <3>5
  <2>2. QED
    BY <2>1 DEF EditOK
<1>3. QED
  BY <1>1, <1>2

LEMMA EditPreserved == TypeOK /\ EditInv /\ [Next]_vars => EditInv'
<1>1. SUFFICES ASSUME TypeOK, EditInv, [Next]_vars, NEW f \in Editors PROVE EditOK(f)'
  BY DEF EditInv
<1> USE <1>1
<1>2. FleetOK /\ EditOK(f)
  BY TypesOfFleet DEF EditInv
<1>3. CASE UNCHANGED <<host, edit>>
  BY <1>2, <1>3, EditStays
<1>4. ASSUME NEW e \in Editors, BeginBulkEdit(e) PROVE EditOK(f)'
  <2>1. host' = host
    BY <1>4 DEF BeginBulkEdit
  <2>2. PICK hit \in SUBSET Hosts, p \in Patches : BulkWrites(e, hit, p) /\ p.enabled = Keep
    BY <1>2, <1>4, BulkEditWrites
  <2> DEFINE sorted == sortFleetHostsForRollout(hit)
             write(i) == [host |-> sorted[i], meta |-> MergedMeta(host[sorted[i]].meta, p),
                          enabled |-> Keep]
             todo == [i \in DOMAIN sorted |-> write(i)]
  <2>3. edit' = [edit EXCEPT ![e] = [todo |-> todo, patch |-> p, stale |-> {}]]
    BY <2>2 DEF BulkWrites
  <2>4. IsInjective(sorted)
    BY <1>2, CandidatesSorted
  <2> HIDE DEF sorted
  <2>5. /\ DOMAIN todo = DOMAIN sorted
        /\ \A i \in DOMAIN sorted :
             /\ todo[i].host = sorted[i] /\ todo[i].enabled = Keep
             /\ todo[i].meta = MergedMeta(host[sorted[i]].meta, p)
    OBVIOUS
  <2>6. \A i, j \in DOMAIN todo : todo[i].host = todo[j].host => i = j
    BY <2>4, <2>5 DEF IsInjective
  <2> HIDE DEF todo
  <2>7. CASE f = e
    <3>1. edit'[f].todo = todo /\ edit'[f].patch = p
      BY <2>3, <2>7 DEF TypeOK
    <3>2. QED
      BY <2>1, <2>2, <2>5, <2>6, <3>1 DEF EditOK
  <2>8. CASE f # e
    <3>1. edit'[f] = edit[f]
      BY <2>3, <2>8 DEF TypeOK
    <3>2. QED
      BY <1>2, <2>1, <3>1, EditStays
  <2>9. QED
    BY <2>7, <2>8
<1>5. ASSUME NEW e \in Editors, BeginPut(e) PROVE EditOK(f)'
  <2>1. host' = host
    BY <1>5 DEF BeginPut
  <2>2. PICK h \in Live, p \in Patches :
          edit' = [edit EXCEPT ![e] =
            [todo |-> <<[host |-> h, enabled |-> p.enabled,
                         meta |-> IF NamesMeta(p) THEN MergedMeta(host[h].meta, p) ELSE Keep]>>,
             patch |-> p, stale |-> {}]]
    BY <1>5 DEF BeginPut
  <2> DEFINE w == [host |-> h, enabled |-> p.enabled,
                   meta |-> IF NamesMeta(p) THEN MergedMeta(host[h].meta, p) ELSE Keep]
  <2>3. edit' = [edit EXCEPT ![e] = [todo |-> <<w>>, patch |-> p, stale |-> {}]]
    BY <2>2
  <2>4. /\ w.host = h /\ w.enabled = p.enabled
        /\ w.meta # Keep => w.meta = MergedMeta(host[h].meta, p)
    OBVIOUS
  <2> HIDE DEF w
  <2>5. CASE f = e
    <3>1. edit'[f].todo = <<w>> /\ edit'[f].patch = p
      BY <2>3, <2>5 DEF TypeOK
    <3>2. DOMAIN <<w>> = {1} /\ <<w>>[1] = w
      OBVIOUS
    <3>3. QED
      BY <2>1, <2>4, <3>1, <3>2 DEF EditOK
  <2>6. CASE f # e
    <3>1. edit'[f] = edit[f]
      BY <2>3, <2>6 DEF TypeOK
    <3>2. QED
      BY <1>2, <2>1, <3>1, EditStays
  <2>7. QED
    BY <2>5, <2>6
<1>6. ASSUME NEW e \in Editors, WriteEdit(e) PROVE EditOK(f)'
  <2> DEFINE todo == edit[e].todo
             h == Head(todo).host
  <2>1. todo # <<>> /\ todo \in Seq(EditWrite) /\ DOMAIN todo = 1..Len(todo) /\ Len(todo) \in Nat
    BY <1>6, WritesType DEF WriteEdit
  <2>2. /\ Head(todo) = todo[1] /\ 1 \in DOMAIN todo /\ h \in Hosts
        /\ Len(Tail(todo)) = Len(todo) - 1 /\ DOMAIN Tail(todo) = 1..(Len(todo) - 1)
        /\ \A i \in 1..(Len(todo) - 1) : Tail(todo)[i] = todo[i + 1]
    BY <2>1, WritesType, HeadTailProperties
  <2>3. CASE host[h].live
    <3>1. /\ host' = [host EXCEPT ![h].meta = Chosen(Head(todo).meta, host[h].meta),
                                  ![h].enabled = Chosen(Head(todo).enabled, @)]
          /\ edit' = [g \in Editors |->
               IF g # e THEN [edit[g] EXCEPT !.stale = IF edit[g].todo = <<>> THEN @ ELSE @ \cup {h}]
               ELSE IF Len(todo) = 1 THEN IdleEdit
               ELSE [edit[e] EXCEPT !.todo = Tail(@)]]
      BY <1>6, <2>3 DEF WriteEdit
    <3>2. \A g \in Hosts \ {h} : host'[g] = host[g]
      BY <2>2, <3>1 DEF TypeOK
    <3> HIDE DEF h
    <3>3. CASE f # e
      <4>1. edit'[f] = [edit[f] EXCEPT !.stale = IF edit[f].todo = <<>> THEN @ ELSE @ \cup {h}]
        BY <3>1, <3>3
      <4>2. /\ edit'[f].todo = edit[f].todo /\ edit'[f].patch = edit[f].patch
            /\ edit[f].todo # <<>> => edit'[f].stale = edit[f].stale \cup {h}
        BY <4>1 DEF TypeOK, EditState
      <4>3. QED
        BY <1>2, <3>2, <4>2, EditStays
    <3>4. CASE f = e /\ Len(todo) = 1
      <4>1. edit'[f].todo = <<>>
        BY <3>1, <3>4 DEF IdleEdit
      <4>2. QED
        BY <4>1 DEF EditOK
    <3>5. CASE f = e /\ Len(todo) # 1
      <4>1. edit'[f] = [edit[f] EXCEPT !.todo = Tail(todo)]
        BY <3>1, <3>5
      <4>2. /\ edit'[f].todo = Tail(todo) /\ edit'[f].patch = edit[f].patch
            /\ edit'[f].stale = edit[f].stale
        BY <4>1 DEF TypeOK, EditState
      <4>3. \A i, j \in DOMAIN todo : todo[i].host = todo[j].host => i = j
        BY <1>2, <3>5 DEF EditOK
      <4> DEFINE rest == Tail(todo)
      <4>4. DOMAIN rest = 1..(Len(todo) - 1)
            /\ \A i \in DOMAIN rest : i + 1 \in DOMAIN todo /\ i + 1 # 1 /\ rest[i] = todo[i + 1]
        BY <2>1, <2>2
      <4> HIDE DEF rest
      <4>5. \A i, j \in DOMAIN rest : rest[i].host = rest[j].host => i = j
        BY <4>3, <4>4
      <4>6. \A i \in DOMAIN rest : rest[i].host # h /\ rest[i].host \in Hosts
        BY <2>1, <2>2, <4>3, <4>4, WritesType DEF h
      <4>7. \A i \in DOMAIN rest : rest[i].enabled = edit[f].patch.enabled
        BY <1>2, <3>5, <4>4 DEF EditOK
      <4>8. \A i \in DOMAIN rest :
              rest[i].host \notin edit[f].stale /\ rest[i].meta # Keep =>
                rest[i].meta = MergedMeta(host[rest[i].host].meta, edit[f].patch)
        BY <1>2, <3>5, <4>4 DEF EditOK
      <4>9. \A i \in DOMAIN rest :
              rest[i].host \notin edit[f].stale /\ rest[i].meta # Keep =>
                rest[i].meta = MergedMeta(host'[rest[i].host].meta, edit[f].patch)
        BY <3>2, <4>6, <4>8
      <4>10. edit'[f].todo = rest
        BY <4>2 DEF rest
      <4>11. QED
        BY <4>2, <4>5, <4>7, <4>9, <4>10 DEF EditOK
    <3>6. QED
      BY <3>3, <3>4, <3>5
  <2>4. CASE ~host[h].live
    <3>1. edit' = [edit EXCEPT ![e] = IdleEdit] /\ host' = host
      BY <1>6, <2>4 DEF WriteEdit
    <3>2. CASE f = e
      <4>1. edit'[f].todo = <<>>
        BY <3>1, <3>2 DEF IdleEdit, TypeOK
      <4>2. QED
        BY <4>1 DEF EditOK
    <3>3. CASE f # e
      <4>1. edit'[f] = edit[f]
        BY <3>1, <3>3 DEF TypeOK
      <4>2. QED
        BY <1>2, <3>1, <4>1, EditStays
    <3>4. QED
      BY <3>2, <3>3
  <2>5. QED
    BY <2>3, <2>4
<1>7. ASSUME NEW h \in Hosts, Delete(h) PROVE EditOK(f)'
  <2>1. edit' = edit /\ host' = [host EXCEPT ![h].live = FALSE]
    BY <1>7 DEF Delete
  <2>2. \A g \in Hosts : host'[g].meta = host[g].meta
    BY <2>1 DEF TypeOK, HostRow
  <2>3. QED
    BY <1>2, <2>1, <2>2, EditStays
<1>8. QED
  BY <1>3, <1>4, <1>5, <1>6, <1>7
  DEF Next, vars, BeginStage, QueueHost, Contact
(* The step that changes a host and the writes of an edit is the edit's own.*)
LEMMA OwnWrite ==
  ASSUME TypeOK, [Next]_vars, NEW e \in Editors,
         edit[e].todo # <<>>, edit'[e].todo # edit[e].todo, host' # host
  PROVE  /\ WriteEdit(e)
         /\ LET w == Head(edit[e].todo)
            IN /\ host'[w.host].meta = Chosen(w.meta, host[w.host].meta)
               /\ host'[w.host].enabled = Chosen(w.enabled, host[w.host].enabled)
<1>1. WriteEdit(e)
  <2>1. ASSUME NEW f \in Editors, WriteEdit(f), f # e PROVE FALSE
    <3> DEFINE h == Head(edit[f].todo).host
    <3>1. edit' = [g \in Editors |->
            IF g # f THEN [edit[g] EXCEPT !.stale = IF edit[g].todo = <<>> THEN @ ELSE @ \cup {h}]
            ELSE IF Len(edit[f].todo) = 1 THEN IdleEdit
            ELSE [edit[f] EXCEPT !.todo = Tail(@)]]
      BY <2>1, Zenon DEF WriteEdit
    <3> HIDE DEF h
    <3>2. edit'[e] = [edit[e] EXCEPT !.stale = IF edit[e].todo = <<>> THEN @ ELSE @ \cup {h}]
      BY <2>1, <3>1
    <3>3. QED
      BY <3>2 DEF TypeOK, EditState
  <2>2. QED
    BY <2>1 DEF Next, vars, BeginStage, QueueHost, BeginBulkEdit, BeginPut, Delete, Contact
<1> DEFINE w == Head(edit[e].todo)
<1>2. host' = [host EXCEPT ![w.host].meta = Chosen(w.meta, host[w.host].meta),
                           ![w.host].enabled = Chosen(w.enabled, @)]
  BY <1>1 DEF WriteEdit
<1>3. w.host \in Hosts
  <2>1. edit[e].todo \in Seq(EditWrite)
    BY WritesType
  <2>2. w \in EditWrite
    BY <2>1, TailType
  <2>3. QED
    BY <2>2 DEF EditWrite
<1> HIDE DEF w
<1>4. /\ host'[w.host].meta = Chosen(w.meta, host[w.host].meta)
      /\ host'[w.host].enabled = Chosen(w.enabled, host[w.host].enabled)
  BY <1>2, <1>3 DEF TypeOK, HostRow
<1>5. QED
  BY <1>1, <1>4 DEF w

LEMMA MergeKeepsTheRest ==
  ASSUME NEW meta \in Meta, NEW p
  PROVE  LET new == MergedMeta(meta, p)
         IN /\ p.group = Keep => new.group = meta.group
            /\ p.paused = Keep => new.paused = meta.paused
            /\ p.priority = Keep => new.priority = meta.priority
            /\ p.profile = Keep => new.profile = meta.profile
            /\ p.tags = Keep => new.tags \ (p.add \cup p.remove) = meta.tags \ (p.add \cup p.remove)
BY DEF MergedMeta, applyFleetPolicyDelta, Chosen, Meta

LEMMA WriteKeepsTheRest ==
  ASSUME TypeOK, EditInv, [Next]_vars, NEW e \in Editors,
         edit[e].todo # <<>>, edit'[e].todo # edit[e].todo, host' # host,
         Head(edit[e].todo).host \notin edit[e].stale
  PROVE  KeepsTheRest(e)
<1> DEFINE w == Head(edit[e].todo)
           p == edit[e].patch
           old == host[w.host].meta
           new == host'[w.host].meta
<1>1. w = edit[e].todo[1] /\ 1 \in DOMAIN edit[e].todo
  BY WritesType, HeadTailProperties
<1>2. w.host \in Hosts /\ old \in Meta
  BY <1>1, WritesType, TypesOfFleet, FleetTypes
<1>3. /\ w.enabled = p.enabled
      /\ w.meta # Keep => w.meta = MergedMeta(old, p)
  BY <1>1 DEF EditInv, EditOK
<1>4. /\ new = Chosen(w.meta, old)
      /\ host'[w.host].enabled = Chosen(w.enabled, host[w.host].enabled)
  BY OwnWrite
<1>5. p.enabled = Keep => host'[w.host].enabled = host[w.host].enabled
  BY <1>3, <1>4 DEF Chosen
<1>6. new = old \/ new = MergedMeta(old, p)
  BY <1>3, <1>4 DEF Chosen
<1> HIDE DEF w, p, old, new
<1>7. /\ p.group = Keep => new.group = old.group
      /\ p.paused = Keep => new.paused = old.paused
      /\ p.priority = Keep => new.priority = old.priority
      /\ p.profile = Keep => new.profile = old.profile
      /\ p.tags = Keep => new.tags \ (p.add \cup p.remove) = old.tags \ (p.add \cup p.remove)
  BY <1>2, <1>6, MergeKeepsTheRest
<1>8. QED
  BY <1>5, <1>7 DEF KeepsTheRest, w, p, old, new

(* An edit (PUT ops/fleet-policy, PUT hosts/[hostId]) changes what its      *)
(* patch names and nothing else of the document, unless another edit wrote  *)
(* the document after it was read.                                          *)
THEOREM EditsKeep == Spec => EditsKeepTheRest
<1> DEFINE Kept == \A e \in Editors :
             /\ edit[e].todo # <<>> /\ edit'[e].todo # edit[e].todo
             /\ Head(edit[e].todo).host \notin edit[e].stale
             /\ host' # host
             => KeepsTheRest(e)
<1>1. TypeOK /\ EditInv /\ [Next]_vars => Kept
  BY WriteKeepsTheRest
<1> HIDE DEF Kept
<1>2. Spec => [][Kept]_vars
  BY <1>1, InitialTypes, EditInvInitially, TypesPreserved, EditPreserved, PTL DEF Spec
<1>3. QED
  BY <1>2 DEF Kept, EditsKeepTheRest
=============================================================================
