--------------------------- MODULE ZoneData_proofs ---------------------------
(***************************************************************************)
(* Theorems about zones, for any bounds: the records of a zone file, the   *)
(* versions of a zone, its signatures and its transfer.  The lemmas about  *)
(* sequences, numbers and folds are in DnsData_proofs.                     *)
(***************************************************************************)
EXTENDS DnsData_proofs, ZoneFileReader, ZoneVersions, Dnssec, InboundTransfer

-----------------------------------------------------------------------------
(* Zone files.  What the reader holds for a line is what the lines before   *)
(* it say, and each file that is being included has what held for its       *)
(* $INCLUDE.                                                                *)

Deepens(h, i) == {j \in 1..i - 1 : h[j].kind = "$INCLUDE"}
Rises(h, i)   == {j \in 1..i - 1 : h[j].kind = "end"}

LEMMA LinesCounted ==
  ASSUME NEW h, NEW i \in Nat
  PROVE  /\ IsFiniteSet(Deepens(h, i)) /\ Cardinality(Deepens(h, i)) \in Nat
         /\ IsFiniteSet(Rises(h, i)) /\ Cardinality(Rises(h, i)) \in Nat
<1>1. IsFiniteSet(1..i - 1)
  BY FS_Interval
<1>2. Deepens(h, i) \subseteq 1..i - 1 /\ Rises(h, i) \subseteq 1..i - 1
  BY DEF Deepens, Rises
<1>3. IsFiniteSet(Deepens(h, i)) /\ IsFiniteSet(Rises(h, i))
  BY <1>1, <1>2, FS_Subset
<1>4. QED  BY <1>3, FS_CardinalityType

LEMMA DepthType ==
  ASSUME NEW h, NEW i \in Nat
  PROVE  Depth(h, i) \in Int
<1>1. Depth(h, i) = Cardinality(Deepens(h, i)) - Cardinality(Rises(h, i))
  BY DEF Depth, Deepens, Rises
<1>2. QED  BY <1>1, LinesCounted

LEMMA DepthAtFirst == ASSUME NEW h PROVE Depth(h, 1) = 0
<1>1. Deepens(h, 1) = {} /\ Rises(h, 1) = {}
  BY DEF Deepens, Rises
<1>2. Cardinality({}) = 0
  BY FS_EmptySet
<1>3. Depth(h, 1) = Cardinality(Deepens(h, 1)) - Cardinality(Rises(h, 1))
  BY DEF Depth, Deepens, Rises
<1>4. QED  BY <1>1, <1>2, <1>3

LEMMA DepthOfNext ==
  ASSUME NEW h, NEW i \in Nat \ {0}
  PROVE  /\ h[i].kind = "$INCLUDE" => Depth(h, i + 1) = Depth(h, i) + 1
         /\ h[i].kind = "end" => Depth(h, i + 1) = Depth(h, i) - 1
         /\ h[i].kind \notin {"$INCLUDE", "end"} => Depth(h, i + 1) = Depth(h, i)
<1>1. 1..(i + 1) - 1 = (1..i - 1) \cup {i} /\ i \notin 1..i - 1
  OBVIOUS
<1>2. /\ Deepens(h, i + 1) = Deepens(h, i) \cup {j \in {i} : h[j].kind = "$INCLUDE"}
      /\ Rises(h, i + 1) = Rises(h, i) \cup {j \in {i} : h[j].kind = "end"}
  BY <1>1 DEF Deepens, Rises
<1>3. i \notin Deepens(h, i) /\ i \notin Rises(h, i)
  BY <1>1 DEF Deepens, Rises
<1>4. /\ IsFiniteSet(Deepens(h, i)) /\ Cardinality(Deepens(h, i)) \in Nat
      /\ IsFiniteSet(Rises(h, i)) /\ Cardinality(Rises(h, i)) \in Nat
  BY LinesCounted
<1>5. /\ Cardinality(Deepens(h, i) \cup {i}) = Cardinality(Deepens(h, i)) + 1
      /\ Cardinality(Rises(h, i) \cup {i}) = Cardinality(Rises(h, i)) + 1
  BY <1>3, <1>4, FS_AddElement
<1>6. /\ Depth(h, i) = Cardinality(Deepens(h, i)) - Cardinality(Rises(h, i))
      /\ Depth(h, i + 1) = Cardinality(Deepens(h, i + 1)) - Cardinality(Rises(h, i + 1))
  BY DEF Depth, Deepens, Rises
<1>7. CASE h[i].kind = "$INCLUDE"
  <2>1. Deepens(h, i + 1) = Deepens(h, i) \cup {i} /\ Rises(h, i + 1) = Rises(h, i)
    BY <1>2, <1>7
  <2> DEFINE a == Cardinality(Deepens(h, i))
  <2> DEFINE b == Cardinality(Rises(h, i))
  <2>4. Cardinality(Deepens(h, i + 1)) = a + 1 /\ Cardinality(Rises(h, i + 1)) = b
    BY <2>1, <1>5
  <2>5. Depth(h, i) = a - b /\ Depth(h, i + 1) = (a + 1) - (b) /\ a \in Nat /\ b \in Nat
    BY <2>4, <1>4, <1>6
  <2> HIDE DEF a, b
  <2>2. Depth(h, i + 1) = Depth(h, i) + 1
    BY <2>5
  <2>3. QED  BY <2>2, <1>7
<1>8. CASE h[i].kind = "end"
  <2>1. Deepens(h, i + 1) = Deepens(h, i) /\ Rises(h, i + 1) = Rises(h, i) \cup {i}
    BY <1>2, <1>8
  <2> DEFINE a == Cardinality(Deepens(h, i))
  <2> DEFINE b == Cardinality(Rises(h, i))
  <2>4. Cardinality(Deepens(h, i + 1)) = a /\ Cardinality(Rises(h, i + 1)) = b + 1
    BY <2>1, <1>5
  <2>5. Depth(h, i) = a - b /\ Depth(h, i + 1) = (a) - (b + 1) /\ a \in Nat /\ b \in Nat
    BY <2>4, <1>4, <1>6
  <2> HIDE DEF a, b
  <2>2. Depth(h, i + 1) = Depth(h, i) - 1
    BY <2>5
  <2>3. QED  BY <2>2, <1>8
<1>9. CASE h[i].kind \notin {"$INCLUDE", "end"}
  <2>1. Deepens(h, i + 1) = Deepens(h, i) /\ Rises(h, i + 1) = Rises(h, i)
    BY <1>2, <1>9
  <2>2. QED  BY <2>1, <1>6, <1>9
<1>10. QED  BY <1>7, <1>8, <1>9

\* Of two sequences of lines, the lines before line i are the same.
SameLines(g, h, i) == \A j \in 1..i - 1 : g[j] = h[j]

LEMMA SameDepths ==
  ASSUME NEW g, NEW h, NEW i \in Nat, SameLines(g, h, i)
  PROVE  \A k \in 1..i : Depth(g, k) = Depth(h, k)
<1>1. ASSUME NEW k \in 1..i PROVE Depth(g, k) = Depth(h, k)
  <2>1. \A j \in 1..k - 1 : g[j] = h[j]
    BY DEF SameLines
  <2>2. /\ {j \in 1..k - 1 : g[j].kind = "$INCLUDE"} = {j \in 1..k - 1 : h[j].kind = "$INCLUDE"}
        /\ {j \in 1..k - 1 : g[j].kind = "end"} = {j \in 1..k - 1 : h[j].kind = "end"}
    BY <2>1
  <2>3. QED  BY <2>2 DEF Depth
<1>2. QED  BY <1>1

LEMMA SameBefore ==
  ASSUME NEW g, NEW h, NEW i \in Nat, SameLines(g, h, i)
  PROVE  \A k \in 1..i : Reaching(g, k) = Reaching(h, k)
<1>1. ASSUME NEW k \in 1..i PROVE Reaching(g, k) = Reaching(h, k)
  <2>1. \A m \in 1..k : Depth(g, m) = Depth(h, m)
    BY SameDepths
  <2>2. \A j \in 1..k - 1 : j \in 1..k /\ \A m \in j..k : m \in 1..k
    OBVIOUS
  <2>3. ASSUME NEW j \in 1..k - 1
        PROVE  (\A m \in j..k : Depth(g, m) >= Depth(g, j)) <=> (\A m \in j..k : Depth(h, m) >= Depth(h, j))
    BY <2>1, <2>2
  <2>4. QED  BY <2>3 DEF Reaching
<1>2. QED  BY <1>1

LEMMA SameNaming ==
  ASSUME NEW g, NEW h, NEW i \in Nat, SameLines(g, h, i)
  PROVE  \A k \in 1..i : Naming(g, k) = Naming(h, k)
<1>1. ASSUME NEW k \in 1..i PROVE Naming(g, k) = Naming(h, k)
  <2>1. Reaching(g, k) = Reaching(h, k) /\ \A m \in 1..k : Depth(g, m) = Depth(h, m)
    BY SameBefore, SameDepths
  <2>2. \A j \in Reaching(h, k) : j \in 1..k - 1 /\ g[j] = h[j] /\ j \in 1..k
    BY DEF Reaching, SameLines
  <2>3. ASSUME NEW j \in Reaching(h, k)
        PROVE  (\A m \in j + 1..k : Depth(g, m) > Depth(g, j)) <=> (\A m \in j + 1..k : Depth(h, m) > Depth(h, j))
    <3>1. \A m \in j + 1..k : m \in 1..k
      BY <2>2
    <3>2. QED  BY <2>1, <2>2, <3>1
  <2>4. QED  BY <2>1, <2>2, <2>3 DEF Naming
<1>2. QED  BY <1>1

LEMMA BeforeOrdinary ==
  ASSUME NEW h, NEW p \in Nat \ {0}, h[p].kind # "end"
  PROVE  Reaching(h, p + 1) = Reaching(h, p) \cup {p}
<1>1. Depth(h, p + 1) \in Int /\ Depth(h, p) \in Int /\ Depth(h, p + 1) >= Depth(h, p)
  BY DepthOfNext, DepthType
<1>2. \A j \in 1..p : Depth(h, j) \in Int
  BY DepthType
<1>3. ASSUME NEW j \in 1..p
      PROVE  (\A k \in j..p + 1 : Depth(h, k) >= Depth(h, j)) <=> (\A k \in j..p : Depth(h, k) >= Depth(h, j))
  <2>1. j..p + 1 = (j..p) \cup {p + 1} /\ p \in j..p
    OBVIOUS
  <2>2. QED  BY <2>1, <1>1, <1>2
<1>4. \A k \in p..p : Depth(h, k) >= Depth(h, p)
  BY <1>1
<1>5. 1..(p + 1) - 1 = (1..p - 1) \cup {p} /\ \A j \in 1..p - 1 : j \in 1..p
  OBVIOUS
<1>6. p \in 1..p
  OBVIOUS
<1>7. QED  BY <1>3, <1>4, <1>5, <1>6 DEF Reaching

\* Line o includes the file that is open at depth d before line i.
Includes(h, o, d, i) ==
    /\ o \in 1..i - 1
    /\ h[o].kind = "$INCLUDE"
    /\ Depth(h, o) = d - 1
    /\ \A k \in o + 1..i : Depth(h, k) >= d

LEMMA AfterIncluded ==
  ASSUME NEW h, NEW p \in Nat \ {0}, NEW o, NEW d \in Int, Includes(h, o, d, p),
         h[p].kind = "end", Depth(h, p) = d
  PROVE  /\ Reaching(h, p + 1) = Reaching(h, o) \cup {o}
         /\ Naming(h, p + 1) = Naming(h, o)
<1>1. /\ o \in 1..p - 1 /\ Depth(h, o) = d - 1 /\ h[o].kind = "$INCLUDE"
      /\ \A k \in o + 1..p : Depth(h, k) >= d
  BY DEF Includes
<1>2. Depth(h, p + 1) = d - 1
  BY DepthOfNext
<1>3. \A k \in 1..p + 1 : Depth(h, k) \in Int
  BY DepthType
<1>4. \A k \in o..p + 1 : Depth(h, k) >= d - 1
  <2>1. \A k \in o..p + 1 : k = o \/ k \in o + 1..p \/ k = p + 1
    BY <1>1
  <2>2. QED  BY <2>1, <1>1, <1>2, <1>3
<1>5. ASSUME NEW j \in 1..o - 1
      PROVE  /\ (\A k \in j..p + 1 : Depth(h, k) >= Depth(h, j)) <=> (\A k \in j..o : Depth(h, k) >= Depth(h, j))
             /\ (\A k \in j + 1..p + 1 : Depth(h, k) > Depth(h, j)) <=> (\A k \in j + 1..o : Depth(h, k) > Depth(h, j))
  <2>1. /\ j..p + 1 = (j..o) \cup (o..p + 1) /\ o \in j..o /\ j \in 1..p + 1
        /\ j + 1..p + 1 = (j + 1..o) \cup (o..p + 1) /\ o \in j + 1..o
        /\ \A k \in o..p + 1 : k \in 1..p + 1
    BY <1>1
  <2>2. \A k \in o..p + 1 : Depth(h, o) >= Depth(h, j) => Depth(h, k) >= Depth(h, j)
    BY <1>1, <1>3, <1>4, <2>1
  <2>3. \A k \in o..p + 1 : Depth(h, o) > Depth(h, j) => Depth(h, k) > Depth(h, j)
    BY <1>1, <1>3, <1>4, <2>1
  <2>4. QED  BY <2>1, <2>2, <2>3
<1>6. ASSUME NEW j \in o + 1..p PROVE ~(\A k \in j..p + 1 : Depth(h, k) >= Depth(h, j))
  <2>1. p + 1 \in j..p + 1 /\ Depth(h, j) >= d /\ Depth(h, j) \in Int
    BY <1>1, <1>3
  <2>2. QED  BY <2>1, <1>2
<1>7. 1..(p + 1) - 1 = (1..o - 1) \cup {o} \cup (o + 1..p)
  BY <1>1
<1>8. Reaching(h, p + 1) = Reaching(h, o) \cup {o}
  <2>1. \A k \in o..p + 1 : Depth(h, k) >= Depth(h, o)
    BY <1>1, <1>4
  <2>2. QED  BY <2>1, <1>5, <1>6, <1>7 DEF Reaching
<1>9. Naming(h, p + 1) = Naming(h, o)
  <2>1. o \notin Naming(h, p + 1)
    <3>1. p + 1 \in o + 1..p + 1 /\ ~(Depth(h, p + 1) > Depth(h, o))
      BY <1>1, <1>2
    <3>2. QED  BY <3>1, <1>1 DEF Naming
  <2>2. \A j \in Reaching(h, o) : j \in 1..o - 1
    BY DEF Reaching
  <2>3. \A j \in Reaching(h, o) : j \in Naming(h, p + 1) <=> j \in Naming(h, o)
    BY <2>2, <1>5, <1>8 DEF Naming
  <2>4. Naming(h, p + 1) \subseteq Reaching(h, o) \cup {o} /\ Naming(h, o) \subseteq Reaching(h, o)
    BY <1>8 DEF Naming
  <2>5. QED  BY <2>1, <2>3, <2>4
<1>10. QED  BY <1>8, <1>9

LEMMA NamingOrdinary ==
  ASSUME NEW h, NEW p \in Nat \ {0}, h[p].kind # "end"
  PROVE  Naming(h, p + 1) = Naming(h, p) \cup
             {j \in {p} : h[j].kind = "$ORIGIN" \/ (h[j].kind = "$INCLUDE" /\ h[j].name # << >>)}
<1>1. Reaching(h, p + 1) = Reaching(h, p) \cup {p}
  BY BeforeOrdinary
<1>2. \A k \in 1..p + 1 : Depth(h, k) \in Int
  BY DepthType
<1>3. Depth(h, p + 1) >= Depth(h, p) /\ (h[p].kind = "$INCLUDE" => Depth(h, p + 1) > Depth(h, p))
  BY <1>2, DepthOfNext, DepthType
<1>4. ASSUME NEW j \in Reaching(h, p)
      PROVE  (\A k \in j + 1..p + 1 : Depth(h, k) > Depth(h, j)) <=> (\A k \in j + 1..p : Depth(h, k) > Depth(h, j))
  <2>1. j \in 1..p - 1
    BY DEF Reaching
  <2>2. j + 1..p + 1 = (j + 1..p) \cup {p + 1} /\ p \in j + 1..p /\ j \in 1..p + 1 /\ p \in 1..p + 1 /\ p + 1 \in 1..p + 1
    BY <2>1
  <2>3. Depth(h, p) \in Int /\ Depth(h, p + 1) \in Int /\ Depth(h, j) \in Int
    BY <1>2, <2>2
  <2>4. Depth(h, p) > Depth(h, j) => Depth(h, p + 1) > Depth(h, j)
    BY <1>3, <2>3
  <2>5. QED  BY <2>2, <2>4
<1>5. p + 1..p + 1 = {p + 1}
  OBVIOUS
<1>6. (\A k \in p + 1..p + 1 : Depth(h, k) > Depth(h, p)) <=> Depth(h, p + 1) > Depth(h, p)
  BY <1>5
<1>7. \A j \in Reaching(h, p) : j \in Naming(h, p + 1) <=> j \in Naming(h, p)
  BY <1>1, <1>4 DEF Naming
<1>8. p \in Naming(h, p + 1) <=> (h[p].kind = "$ORIGIN" \/ (h[p].kind = "$INCLUDE" /\ h[p].name # << >>))
  BY <1>1, <1>3, <1>6 DEF Naming
<1>9. Naming(h, p + 1) \subseteq Reaching(h, p) \cup {p} /\ Naming(h, p) \subseteq Reaching(h, p)
  BY <1>1 DEF Naming
<1>10. QED  BY <1>7, <1>8, <1>9

LEMMA LatestIs ==
  ASSUME NEW n \in Nat, NEW S \in SUBSET (1..n)
  PROVE  /\ S = {} => Latest(S) = 0
         /\ S # {} => Latest(S) \in S /\ \A k \in S : k <= Latest(S)
<1>1. ASSUME S # {} PROVE \E j \in S : \A k \in S : k <= j
  <2> DEFINE T == {n - k : k \in S}
  <2>1. T \in SUBSET Nat /\ T # {}
    <3>1. \A k \in S : n - k \in Nat
      OBVIOUS
    <3>2. QED  BY <3>1, <1>1
  <2>2. Min(T) \in T /\ \A y \in T : Min(T) <= y
    BY <2>1, MinFacts
  <2>3. PICK j \in S : Min(T) = n - j
    BY <2>2
  <2>4. \A k \in S : n - j <= n - k
    BY <2>2, <2>3
  <2>5. QED  BY <2>4
<1>2. QED  BY <1>1 DEF Latest

LEMMA LatestOfMore ==
  ASSUME NEW p \in Nat \ {0}, NEW S \in SUBSET (1..(p - 1))
  PROVE  Latest(S \cup {p}) = p
<1>1. S \cup {p} \in SUBSET (1..p) /\ S \cup {p} # {} /\ p \in Nat
  OBVIOUS
<1>2. Latest(S \cup {p}) \in S \cup {p} /\ p <= Latest(S \cup {p})
  BY <1>1, LatestIs
<1>3. \A k \in S : k \in Int /\ ~(p <= k)
  OBVIOUS
<1>4. QED  BY <1>2, <1>3

LEMMA NamingBounds ==
  ASSUME NEW h, NEW i \in Nat
  PROVE  /\ Naming(h, i) \in SUBSET (1..(i - 1))
         /\ Naming(h, i) = {} => Latest(Naming(h, i)) = 0
         /\ Naming(h, i) # {} => Latest(Naming(h, i)) \in 1..(i - 1) /\ Latest(Naming(h, i)) \in Naming(h, i)
         /\ Latest(Naming(h, i)) # 0 => Latest(Naming(h, i)) \in Naming(h, i) /\ Latest(Naming(h, i)) \in 1..(i - 1)
<1>1. Naming(h, i) \in SUBSET (1..(i - 1))
  BY DEF Naming, Reaching
<1>2. CASE i = 0
  <2>1. Naming(h, i) = {}
    BY <1>1, <1>2
  <2>2. QED  BY <1>1, <2>1 DEF Latest
<1>3. CASE i # 0
  <2>1. i - 1 \in Nat
    BY <1>3
  <2>2. QED  BY <1>1, <2>1, LatestIs
<1>4. QED  BY <1>2, <1>3

LEMMA OriginFromBefore ==
  ASSUME NEW h, NEW first, NEW f, NEW g, NEW i \in Nat, \A j \in 1..(i - 1) : f[j] = g[j]
  PROVE  OriginFrom(h, first, f, i) = OriginFrom(h, first, g, i)
<1> DEFINE j == Latest(Naming(h, i))
<1>1. j = 0 \/ j \in 1..(i - 1)
  BY NamingBounds
<1>2. j # 0 => f[j] = g[j]
  BY <1>1
<1>3. CASE j = 0
  <2>1. OriginFrom(h, first, f, i) = first /\ OriginFrom(h, first, g, i) = first
    BY <1>3 DEF OriginFrom
  <2>2. QED  BY <2>1
<1>4. CASE j # 0
  <2>1. f[j] = g[j]
    BY <1>2, <1>4
  <2>2. QED  BY <1>4, <2>1 DEF OriginFrom
<1>5. QED  BY <1>3, <1>4

AreOrigins(h, first, f, n) == f = [i \in 1..n |-> OriginFrom(h, first, f, i)]

LEMMA OriginsExist ==
  ASSUME NEW h, NEW first, NEW n \in Nat
  PROVE  \E f : AreOrigins(h, first, f, n)
<1> DEFINE N == {m \in Nat : \E f : AreOrigins(h, first, f, m)}
<1>1. 0 \in N
  <2> DEFINE f == [i \in 1..0 |-> first]
  <2>1. 1..0 = {}
    OBVIOUS
  <2>2. f = [i \in 1..0 |-> OriginFrom(h, first, f, i)]
    BY <2>1
  <2> HIDE DEF f
  <2>3. AreOrigins(h, first, f, 0)
    BY <2>2 DEF AreOrigins
  <2>4. QED  BY <2>3
<1>2. ASSUME NEW m \in N PROVE m + 1 \in N
  <2>1. PICK f : AreOrigins(h, first, f, m)
    OBVIOUS
  <2> DEFINE g == [i \in 1..m + 1 |-> OriginFrom(h, first, f, i)]
  <2>2. \A i \in 1..m : g[i] = f[i]
    <3>1. \A i \in 1..m : f[i] = OriginFrom(h, first, f, i) /\ i \in 1..m + 1
      BY <2>1 DEF AreOrigins
    <3>2. QED  BY <3>1
  <2>3. ASSUME NEW i \in 1..m + 1 PROVE OriginFrom(h, first, f, i) = OriginFrom(h, first, g, i)
    <3>1. \A k \in 1..(i - 1) : k \in 1..m
      OBVIOUS
    <3>2. \A k \in 1..(i - 1) : f[k] = g[k]
      BY <3>1, <2>2
    <3>3. i \in Nat
      OBVIOUS
    <3> HIDE DEF g
    <3>4. QED  BY <3>2, <3>3, OriginFromBefore
  <2>4. AreOrigins(h, first, g, m + 1)
    <3>1. g = [i \in 1..m + 1 |-> OriginFrom(h, first, g, i)]
      BY <2>3
    <3> HIDE DEF g
    <3>2. QED  BY <3>1 DEF AreOrigins
  <2>5. m + 1 \in Nat
    OBVIOUS
  <2> HIDE DEF g
  <2>6. QED  BY <2>4, <2>5
<1>3. N \in SUBSET Nat
  OBVIOUS
<1> HIDE DEF N
<1>4. N = Nat
  BY <1>1, <1>2, <1>3, SetInduction
<1>5. n \in N
  BY <1>4
<1>6. QED  BY <1>5 DEF N

LEMMA OriginOf ==
  ASSUME NEW h, Len(h) \in Nat, NEW first
  PROVE  \A i \in 1..Len(h) + 1 : Origins(h, first)[i] = OriginFrom(h, first, Origins(h, first), i)
<1>1. Len(h) + 1 \in Nat
  OBVIOUS
<1>2. \E f : AreOrigins(h, first, f, Len(h) + 1)
  BY <1>1, OriginsExist
<1>3. \E f : f = [i \in 1..Len(h) + 1 |-> OriginFrom(h, first, f, i)]
  BY <1>2 DEF AreOrigins
<1>4. Origins(h, first) = CHOOSE f : f = [i \in 1..Len(h) + 1 |-> OriginFrom(h, first, f, i)]
  BY DEF Origins
<1>5. Origins(h, first) = [i \in 1..Len(h) + 1 |-> OriginFrom(h, first, Origins(h, first), i)]
  BY <1>3, <1>4
<1> DEFINE f == Origins(h, first)
<1>6. f = [i \in 1..Len(h) + 1 |-> OriginFrom(h, first, f, i)]
  BY <1>5
<1> HIDE DEF f
<1>7. \A i \in 1..Len(h) + 1 : f[i] = OriginFrom(h, first, f, i)
  BY <1>6
<1>8. QED  BY <1>7 DEF f

LEMMA SameOrigins ==
  ASSUME NEW g, NEW h, Len(g) \in Nat, Len(h) \in Nat, NEW first,
         NEW i \in Nat, i <= Len(g) + 1, i <= Len(h) + 1, SameLines(g, h, i)
  PROVE  \A k \in 1..i : Origins(g, first)[k] = Origins(h, first)[k]
<1> DEFINE a == Origins(g, first)
           b == Origins(h, first)
           N == {m \in Nat : \A k \in 1..m : k <= i => a[k] = b[k]}
<1>1. \A k \in 1..i : a[k] = OriginFrom(g, first, a, k) /\ b[k] = OriginFrom(h, first, b, k)
  <2>1. \A k \in 1..i : k \in 1..Len(g) + 1 /\ k \in 1..Len(h) + 1
    OBVIOUS
  <2>2. QED  BY <2>1, OriginOf
<1> HIDE DEF a, b
<1>2. ASSUME NEW k \in 1..i, NEW f PROVE OriginFrom(g, first, f, k) = OriginFrom(h, first, f, k)
  <2>1. Naming(g, k) = Naming(h, k)
    BY SameNaming
  <2>2. Latest(Naming(h, k)) # 0 => Latest(Naming(h, k)) \in 1..(k - 1)
    BY NamingBounds
  <2>3. Latest(Naming(h, k)) # 0 => g[Latest(Naming(h, k))] = h[Latest(Naming(h, k))]
    BY <2>2 DEF SameLines
  <2>4. CASE Latest(Naming(h, k)) = 0
    BY <2>1, <2>4 DEF OriginFrom
  <2>5. CASE Latest(Naming(h, k)) # 0
    BY <2>1, <2>3, <2>5 DEF OriginFrom
  <2>6. QED  BY <2>4, <2>5
<1>3. 0 \in N
  OBVIOUS
<1>4. ASSUME NEW m \in N PROVE m + 1 \in N
  <2>1. m \in Nat /\ \A k \in 1..m : k <= i => a[k] = b[k]
    OBVIOUS
  <2>2. m + 1 \in Nat /\ \A k \in 1..m + 1 : k \in 1..m \/ k = m + 1
    BY <2>1
  <2>3. ASSUME m + 1 <= i PROVE a[m + 1] = b[m + 1]
    <3>1. \A k \in 1..((m + 1) - 1) : k \in 1..m /\ k <= i
      BY <2>1, <2>3
    <3>2. \A k \in 1..((m + 1) - 1) : a[k] = b[k]
      BY <2>1, <3>1
    <3>3. OriginFrom(h, first, a, m + 1) = OriginFrom(h, first, b, m + 1)
      BY <2>2, <3>2, OriginFromBefore
    <3>4. m + 1 \in 1..i
      BY <2>1, <2>3
    <3>5. QED  BY <1>1, <1>2, <3>3, <3>4
  <2>4. QED  BY <2>1, <2>2, <2>3
<1>5. N \in SUBSET Nat
  OBVIOUS
<1>6. N = Nat
  <2> HIDE DEF N
  <2>1. QED  BY <1>3, <1>4, <1>5, SetInduction
<1>7. i \in N
  BY <1>6
<1>8. \A k \in 1..i : a[k] = b[k]
  <2>1. \A k \in 1..i : k <= i => a[k] = b[k]
    BY <1>7
  <2>2. \A k \in 1..i : k <= i
    OBVIOUS
  <2>3. QED  BY <2>1, <2>2
<1>9. QED  BY <1>8 DEF a, b

\* Two transactions have records of the same lines before line i.
SameRecords(R, S, i) == \A j \in 1..i - 1 : (\E r \in R : r.line = j) <=> (\E r \in S : r.line = j)

LEMMA EarlierBounds ==
  ASSUME NEW h, NEW R, NEW i \in Nat \ {0}
  PROVE  /\ Owned(h, i) \in SUBSET (1..(i - 1))
         /\ TtlDirectives(h, i) \in SUBSET (1..(i - 1))
         /\ SoasTaken(h, R, i) \in SUBSET (1..(i - 1))
         /\ TtlsTaken(h, R, i) \in SUBSET (1..(i - 1))
  BY DEF Owned, TtlDirectives, SoasTaken, TtlsTaken, Reaching

LEMMA LatestEarlier ==
  ASSUME NEW i \in Nat \ {0}, NEW S \in SUBSET (1..(i - 1))
  PROVE  /\ Latest(S) = 0 <=> S = {}
         /\ S # {} => Latest(S) \in S /\ Latest(S) \in 1..(i - 1)
<1>1. i - 1 \in Nat
  OBVIOUS
<1>2. (S = {} => Latest(S) = 0) /\ (S # {} => Latest(S) \in S)
  BY <1>1, LatestIs
<1>3. \A j \in S : j \in 1..(i - 1) /\ j # 0
  OBVIOUS
<1>4. QED  BY <1>2, <1>3

LEMMA SameEarlier ==
  ASSUME NEW g, NEW h, Len(g) \in Nat, Len(h) \in Nat, NEW R, NEW S,
         NEW i \in Nat, i <= Len(g) + 1, i <= Len(h) + 1, SameLines(g, h, i), SameRecords(R, S, i)
  PROVE  \A k \in 1..i : /\ Owned(g, k) = Owned(h, k)
                         /\ TtlDirectives(g, k) = TtlDirectives(h, k)
                         /\ SoasTaken(g, R, k) = SoasTaken(h, S, k)
                         /\ TtlsTaken(g, R, k) = TtlsTaken(h, S, k)
<1>1. ASSUME NEW k \in 1..i
      PROVE  /\ Owned(g, k) = Owned(h, k)
             /\ TtlDirectives(g, k) = TtlDirectives(h, k)
             /\ SoasTaken(g, R, k) = SoasTaken(h, S, k)
             /\ TtlsTaken(g, R, k) = TtlsTaken(h, S, k)
  <2>1. Reaching(g, k) = Reaching(h, k)
    BY SameBefore
  <2>2. \A j \in Reaching(h, k) : j \in 1..k - 1
    BY DEF Reaching
  <2>3. \A j \in 1..k - 1 : j \in 1..i - 1 /\ j \in 1..Len(g) /\ j \in 1..Len(h)
    OBVIOUS
  <2>4. \A j \in Reaching(h, k) : g[j] = h[j]
    BY <2>2, <2>3 DEF SameLines
  <2>5. \A j \in Reaching(h, k) : j \in LinesTaken(g, R) <=> j \in LinesTaken(h, S)
    <3>1. ASSUME NEW j \in Reaching(h, k)
          PROVE  /\ j \in LinesTaken(g, R) <=> (h[j].kind = "$GENERATE" \/ \E r \in R : r.line = j)
                 /\ j \in LinesTaken(h, S) <=> (h[j].kind = "$GENERATE" \/ \E r \in S : r.line = j)
      BY <2>2, <2>3, <2>4 DEF LinesTaken
    <3>2. QED  BY <3>1, <2>2, <2>3 DEF SameRecords
  <2>6. Owned(g, k) = Owned(h, k) /\ TtlDirectives(g, k) = TtlDirectives(h, k)
    BY <2>1, <2>4 DEF Owned, TtlDirectives
  <2>7. SoasTaken(g, R, k) = SoasTaken(h, S, k) /\ TtlsTaken(g, R, k) = TtlsTaken(h, S, k)
    BY <2>1, <2>4, <2>5 DEF SoasTaken, TtlsTaken
  <2>8. QED  BY <2>6, <2>7
<1>2. QED  BY <1>1

LEMMA SameTtl ==
  ASSUME NEW g, NEW h, Len(g) \in Nat, Len(h) \in Nat, NEW R, NEW S,
         NEW i \in Nat, i <= Len(g) + 1, i <= Len(h) + 1, SameLines(g, h, i), SameRecords(R, S, i)
  PROVE  \A k \in 1..i - 1 : TtlAt(g, R, k) = TtlAt(h, S, k)
<1>1. ASSUME NEW k \in 1..i - 1 PROVE TtlAt(g, R, k) = TtlAt(h, S, k)
  <2>1. k \in 1..i /\ k \in Nat \ {0}
    OBVIOUS
  <2>2. /\ TtlDirectives(g, k) = TtlDirectives(h, k)
        /\ SoasTaken(g, R, k) = SoasTaken(h, S, k)
        /\ TtlsTaken(g, R, k) = TtlsTaken(h, S, k)
    BY <2>1, SameEarlier
  <2> DEFINE t == Latest(TtlDirectives(h, k))
             s == Latest(TtlsTaken(h, S, k))
  <2>3. (t # 0 => t \in 1..(k - 1)) /\ (s # 0 => s \in 1..(k - 1))
    BY <2>1, EarlierBounds, LatestEarlier
  <2>4. g[k] = h[k] /\ (t # 0 => g[t] = h[t]) /\ (s # 0 => g[s] = h[s])
    <3> HIDE DEF t, s
    <3>1. \A j \in 1..(k - 1) : j \in 1..i - 1
      OBVIOUS
    <3>2. QED  BY <2>3, <3>1 DEF SameLines
  <2>5. QED  BY <2>2, <2>4 DEF TtlAt
<1>2. QED  BY <1>1

LEMMA SameOwners ==
  ASSUME NEW g, NEW h, Len(g) \in Nat, Len(h) \in Nat, NEW first,
         NEW i \in Nat, i <= Len(g) + 1, i <= Len(h) + 1, SameLines(g, h, i)
  PROVE  \A k \in 1..i - 1 : OwnersAt(g, first, k) = OwnersAt(h, first, k)
<1>1. ASSUME NEW k \in 1..i - 1 PROVE OwnersAt(g, first, k) = OwnersAt(h, first, k)
  <2>1. k + 1 \in 1..i /\ k + 1 \in Nat \ {0} /\ (k + 1) - 1 = k
    OBVIOUS
  <2>2. Owned(g, k + 1) = Owned(h, k + 1)
    <3>1. SameRecords({}, {}, i)
      BY DEF SameRecords
    <3>2. QED  BY <2>1, <3>1, SameEarlier
  <2> DEFINE j == Latest(Owned(h, k + 1))
  <2>3. j # 0 => j \in 1..k
    BY <2>1, EarlierBounds, LatestEarlier
  <2>4. j # 0 => g[j] = h[j] /\ Origins(g, first)[j] = Origins(h, first)[j]
    <3> HIDE DEF j
    <3>1. \A m \in 1..k : m \in 1..i /\ m \in 1..i - 1
      OBVIOUS
    <3>2. \A m \in 1..i : Origins(g, first)[m] = Origins(h, first)[m]
      BY SameOrigins
    <3>3. QED  BY <2>3, <3>1, <3>2 DEF SameLines
  <2>5. QED  BY <2>2, <2>4 DEF OwnersAt
<1>2. QED  BY <1>1

\* What the reader has for line i: the origin, the default TTL, the last TTL,
\* and the last owner, which may be one of a $GENERATE that was out of the zone.
DefaultAt(h, R, i) ==
    IF TtlDirectives(h, i) # {} THEN h[Latest(TtlDirectives(h, i))].ttl
    ELSE IF SoasTaken(h, R, i) # {} THEN Minimum ELSE Unknown
LastTtlAt(h, R, i) ==
    IF TtlsTaken(h, R, i) # {} THEN h[Latest(TtlsTaken(h, R, i))].ttl ELSE Unknown
OwnerIs(line, origin, apex, owner) ==
    /\ line.kind = "record" => owner = <<AsName(line.name[1], origin)>>
    /\ line.kind = "$GENERATE" =>
         \/ owner = <<GenerateOwner(line.name[1], "2", origin)>>
         \/ apex # << >> /\ \E n : owner = <<n>> /\ ~IsInside(n, apex[1])
OwnerHolds(h, first, apex, owner, i) ==
    LET j == Latest(Owned(h, i))
    IN  /\ j = 0 => owner = first
        /\ j # 0 => OwnerIs(h[j], Origins(h, first)[j], apex, owner)
HoldsAt(f, h, R, first, apex, i) ==
    /\ f = [origin |-> f.origin, lastName |-> f.lastName, lastTtl |-> f.lastTtl, defaultTtl |-> f.defaultTtl]
    /\ f.origin = Origins(h, first)[i]
    /\ f.defaultTtl = DefaultAt(h, R, i)
    /\ f.lastTtl = LastTtlAt(h, R, i)
    /\ OwnerHolds(h, first, apex, f.lastName, i)

LEMMA StillHolds ==
  ASSUME NEW g, NEW h, Len(g) \in Nat, Len(h) \in Nat, NEW R, NEW S,
         NEW i \in Nat, i <= Len(g) + 1, i <= Len(h) + 1, SameLines(g, h, i), SameRecords(R, S, i),
         NEW first, NEW y, NEW z, z = << >> \/ y = z, NEW f, NEW k \in 1..i,
         HoldsAt(f, h, S, first, z, k)
  PROVE  HoldsAt(f, g, R, first, y, k)
<1>1. /\ Owned(g, k) = Owned(h, k)
      /\ TtlDirectives(g, k) = TtlDirectives(h, k)
      /\ SoasTaken(g, R, k) = SoasTaken(h, S, k)
      /\ TtlsTaken(g, R, k) = TtlsTaken(h, S, k)
  BY SameEarlier
<1>2. \A m \in 1..i : Origins(g, first)[m] = Origins(h, first)[m]
  BY SameOrigins
<1>3. k \in Nat \ {0} /\ \A m \in 1..(k - 1) : m \in 1..i - 1 /\ m \in 1..i
  OBVIOUS
<1>4. /\ TtlDirectives(h, k) # {} => Latest(TtlDirectives(h, k)) \in 1..(k - 1)
      /\ TtlsTaken(h, S, k) # {} => Latest(TtlsTaken(h, S, k)) \in 1..(k - 1)
      /\ Latest(Owned(h, k)) # 0 => Latest(Owned(h, k)) \in 1..(k - 1)
  BY <1>3, EarlierBounds, LatestEarlier
<1>5. \A m \in 1..(k - 1) : g[m] = h[m]
  BY <1>3 DEF SameLines
<1>6. DefaultAt(g, R, k) = DefaultAt(h, S, k) /\ LastTtlAt(g, R, k) = LastTtlAt(h, S, k)
  BY <1>1, <1>4, <1>5 DEF DefaultAt, LastTtlAt
<1>7. OwnerHolds(g, first, y, f.lastName, k)
  <2>1. OwnerHolds(h, first, z, f.lastName, k)
    BY DEF HoldsAt
  <2> DEFINE j == Latest(Owned(h, k))
  <2>2. CASE j = 0
    BY <2>1, <2>2, <1>1 DEF OwnerHolds
  <2>3. CASE j # 0
    <3>1. g[j] = h[j] /\ Origins(g, first)[j] = Origins(h, first)[j]
      BY <2>3, <1>2, <1>3, <1>4, <1>5
    <3>2. OwnerIs(h[j], Origins(h, first)[j], z, f.lastName)
      BY <2>1, <2>3 DEF OwnerHolds
    <3>3. OwnerIs(h[j], Origins(h, first)[j], y, f.lastName)
      BY <3>2 DEF OwnerIs
    <3>4. QED  BY <2>3, <3>1, <3>3, <1>1 DEF OwnerHolds
  <2>4. QED  BY <2>2, <2>3
<1>8. QED  BY <1>2, <1>6, <1>7 DEF HoldsAt

\* What a line leaves to the next.
LEMMA EarlierOrdinary ==
  ASSUME NEW h, NEW R, NEW p \in Nat \ {0}, h[p].kind # "end"
  PROVE  /\ Owned(h, p + 1) = Owned(h, p) \cup
                {j \in {p} : h[j].kind \in {"record", "$GENERATE"} /\ h[j].name # << >>}
         /\ TtlDirectives(h, p + 1) = TtlDirectives(h, p) \cup {j \in {p} : h[j].kind = "$TTL"}
         /\ SoasTaken(h, R, p + 1) = SoasTaken(h, R, p) \cup
                {j \in {p} : j \in LinesTaken(h, R) /\ h[j].kind = "record" /\ h[j].type = "SOA"}
         /\ TtlsTaken(h, R, p + 1) = TtlsTaken(h, R, p) \cup
                {j \in {p} : j \in LinesTaken(h, R) /\ h[j].kind \in {"record", "$GENERATE"} /\ h[j].ttl # Unknown}
<1>1. Reaching(h, p + 1) = Reaching(h, p) \cup {p}
  BY BeforeOrdinary
<1>2. QED  BY <1>1 DEF Owned, TtlDirectives, SoasTaken, TtlsTaken

LEMMA EarlierIncluded ==
  ASSUME NEW h, NEW R, NEW p \in Nat \ {0}, NEW o, NEW d \in Int, Includes(h, o, d, p),
         h[p].kind = "end", Depth(h, p) = d
  PROVE  /\ Owned(h, p + 1) = Owned(h, o)
         /\ TtlDirectives(h, p + 1) = TtlDirectives(h, o)
         /\ SoasTaken(h, R, p + 1) = SoasTaken(h, R, o)
         /\ TtlsTaken(h, R, p + 1) = TtlsTaken(h, R, o)
<1>1. Reaching(h, p + 1) = Reaching(h, o) \cup {o}
  BY AfterIncluded
<1>2. h[o].kind = "$INCLUDE"
  BY DEF Includes
<1>3. QED  BY <1>1, <1>2 DEF Owned, TtlDirectives, SoasTaken, TtlsTaken

LEMMA OriginOfNext ==
  ASSUME NEW h, Len(h) \in Nat, NEW first, NEW p \in Nat \ {0}, p <= Len(h), h[p].kind # "end"
  PROVE  /\ h[p].kind = "$ORIGIN" => Origins(h, first)[p + 1] = h[p].name
         /\ h[p].kind = "$INCLUDE" /\ h[p].name # << >> =>
               Origins(h, first)[p + 1] = <<NameFrom(h[p].name[1], Origins(h, first)[p])>>
         /\ h[p].kind \notin {"$ORIGIN", "$INCLUDE"} \/ (h[p].kind = "$INCLUDE" /\ h[p].name = << >>) =>
               Origins(h, first)[p + 1] = Origins(h, first)[p]
<1> DEFINE f == Origins(h, first)
<1>1. p \in 1..Len(h) + 1 /\ p + 1 \in 1..Len(h) + 1
  OBVIOUS
<1>2. f[p] = OriginFrom(h, first, f, p) /\ f[p + 1] = OriginFrom(h, first, f, p + 1)
  BY <1>1, OriginOf
<1> HIDE DEF f
<1>3. Naming(h, p + 1) = Naming(h, p) \cup
          {j \in {p} : h[j].kind = "$ORIGIN" \/ (h[j].kind = "$INCLUDE" /\ h[j].name # << >>)}
  BY NamingOrdinary
<1>4. Naming(h, p) \in SUBSET (1..(p - 1))
  BY NamingBounds
<1>5. CASE h[p].kind = "$ORIGIN" \/ (h[p].kind = "$INCLUDE" /\ h[p].name # << >>)
  <2>1. Naming(h, p + 1) = Naming(h, p) \cup {p}
    BY <1>3, <1>5
  <2>2. Latest(Naming(h, p + 1)) = p
    BY <2>1, <1>4, LatestOfMore
  <2>3. OriginFrom(h, first, f, p + 1) =
            IF h[p].kind = "$ORIGIN" THEN h[p].name ELSE <<NameFrom(h[p].name[1], f[p])>>
    <3>1. p # 0
      OBVIOUS
    <3>2. QED  BY <2>2, <3>1 DEF OriginFrom
  <2>4. QED  BY <2>3, <1>2, <1>5 DEF f
<1>6. CASE ~(h[p].kind = "$ORIGIN" \/ (h[p].kind = "$INCLUDE" /\ h[p].name # << >>))
  <2>1. Naming(h, p + 1) = Naming(h, p)
    BY <1>3, <1>6
  <2>2. OriginFrom(h, first, f, p + 1) = OriginFrom(h, first, f, p)
    BY <2>1 DEF OriginFrom
  <2>3. QED  BY <2>2, <1>2, <1>6 DEF f
<1>7. QED  BY <1>5, <1>6

LEMMA OriginKept ==
  ASSUME NEW h, Len(h) \in Nat, NEW first, NEW p \in Nat \ {0}, p <= Len(h), h[p].kind = "record"
  PROVE  Origins(h, first)[p + 1] = Origins(h, first)[p]
  BY OriginOfNext

LEMMA DefaultOfNext ==
  ASSUME NEW h \in Seq(FileLines), NEW R, NEW p \in 1..Len(h), h[p].kind # "end"
  PROVE  /\ h[p].kind = "$TTL" => DefaultAt(h, R, p + 1) = h[p].ttl
         /\ h[p].kind = "record" /\ h[p].type = "SOA" /\ p \in LinesTaken(h, R) =>
               DefaultAt(h, R, p + 1) = IF DefaultAt(h, R, p) = Unknown THEN Minimum ELSE DefaultAt(h, R, p)
         /\ h[p].kind # "$TTL" /\ ~(h[p].kind = "record" /\ h[p].type = "SOA" /\ p \in LinesTaken(h, R)) =>
               DefaultAt(h, R, p + 1) = DefaultAt(h, R, p)
<1>1. p \in Nat \ {0}
  BY LenProperties
<1>2. /\ TtlDirectives(h, p + 1) = TtlDirectives(h, p) \cup {j \in {p} : h[j].kind = "$TTL"}
      /\ SoasTaken(h, R, p + 1) = SoasTaken(h, R, p) \cup
             {j \in {p} : j \in LinesTaken(h, R) /\ h[j].kind = "record" /\ h[j].type = "SOA"}
  BY <1>1, EarlierOrdinary
<1>3. /\ TtlDirectives(h, p) \in SUBSET (1..(p - 1))
      /\ TtlDirectives(h, p) # {} => Latest(TtlDirectives(h, p)) \in TtlDirectives(h, p)
  BY <1>1, EarlierBounds, LatestEarlier
<1>4. CASE h[p].kind = "$TTL"
  <2>1. TtlDirectives(h, p + 1) = TtlDirectives(h, p) \cup {p}
    BY <1>2, <1>4
  <2>2. Latest(TtlDirectives(h, p + 1)) = p
    BY <2>1, <1>1, <1>3, LatestOfMore
  <2>3. DefaultAt(h, R, p + 1) = h[p].ttl
    BY <2>1, <2>2 DEF DefaultAt
  <2>4. QED  BY <2>3, <1>4
<1>5. CASE h[p].kind # "$TTL"
  <2>1. TtlDirectives(h, p + 1) = TtlDirectives(h, p)
    BY <1>2, <1>5
  <2>2. TtlDirectives(h, p) # {} => DefaultAt(h, R, p) # Unknown
    <3>1. ASSUME TtlDirectives(h, p) # {} PROVE h[Latest(TtlDirectives(h, p))].ttl # Unknown
      <4> DEFINE t == Latest(TtlDirectives(h, p))
      <4>1. t \in TtlDirectives(h, p) /\ t \in 1..(p - 1)
        BY <3>1, <1>3
      <4> HIDE DEF t
      <4>2. h[t].kind = "$TTL" /\ t \in 1..Len(h)
        <5>1. Len(h) \in Nat
          BY LenProperties
        <5>2. QED  BY <5>1, <4>1 DEF TtlDirectives
      <4>3. h[t] \in FileLines
        BY <4>2, ElementOfSeq
      <4>4. QED  BY <4>2, <4>3, ReaderAssumption DEF t
    <3>2. QED  BY <3>1 DEF DefaultAt
  <2>3. CASE h[p].kind = "record" /\ h[p].type = "SOA" /\ p \in LinesTaken(h, R)
    <3>1. SoasTaken(h, R, p + 1) # {}
      BY <1>2, <2>3
    <3>2. CASE TtlDirectives(h, p) # {}
      BY <3>2, <2>1, <2>2, <2>3 DEF DefaultAt
    <3>3. CASE TtlDirectives(h, p) = {}
      <4>1. DefaultAt(h, R, p + 1) = Minimum
        BY <3>1, <3>3, <2>1 DEF DefaultAt
      <4>2. DefaultAt(h, R, p) \in {Minimum, Unknown}
        BY <3>3 DEF DefaultAt
      <4>3. QED  BY <4>1, <4>2, <2>3, <1>5
    <3>4. QED  BY <3>2, <3>3
  <2>4. CASE ~(h[p].kind = "record" /\ h[p].type = "SOA" /\ p \in LinesTaken(h, R))
    <3>1. SoasTaken(h, R, p + 1) = SoasTaken(h, R, p)
      BY <1>2, <2>4
    <3>2. DefaultAt(h, R, p + 1) = DefaultAt(h, R, p)
      BY <3>1, <2>1 DEF DefaultAt
    <3>3. QED  BY <3>2, <2>4, <1>5
  <2>5. QED  BY <2>3, <2>4
<1>6. QED  BY <1>4, <1>5

LEMMA LastTtlOfNext ==
  ASSUME NEW h, NEW R, NEW p \in Nat \ {0}, h[p].kind # "end"
  PROVE  LastTtlAt(h, R, p + 1) =
            IF p \in LinesTaken(h, R) /\ h[p].kind \in {"record", "$GENERATE"} /\ h[p].ttl # Unknown
            THEN h[p].ttl ELSE LastTtlAt(h, R, p)
<1>1. TtlsTaken(h, R, p + 1) = TtlsTaken(h, R, p) \cup
          {j \in {p} : j \in LinesTaken(h, R) /\ h[j].kind \in {"record", "$GENERATE"} /\ h[j].ttl # Unknown}
  BY EarlierOrdinary
<1>2. TtlsTaken(h, R, p) \in SUBSET (1..(p - 1))
  BY EarlierBounds
<1>3. CASE p \in LinesTaken(h, R) /\ h[p].kind \in {"record", "$GENERATE"} /\ h[p].ttl # Unknown
  <2>1. TtlsTaken(h, R, p + 1) = TtlsTaken(h, R, p) \cup {p}
    BY <1>1, <1>3
  <2>2. Latest(TtlsTaken(h, R, p + 1)) = p
    BY <2>1, <1>2, LatestOfMore
  <2>3. QED  BY <2>1, <2>2, <1>3 DEF LastTtlAt
<1>4. CASE ~(p \in LinesTaken(h, R) /\ h[p].kind \in {"record", "$GENERATE"} /\ h[p].ttl # Unknown)
  <2>1. TtlsTaken(h, R, p + 1) = TtlsTaken(h, R, p)
    BY <1>1, <1>4
  <2>2. QED  BY <2>1, <1>4 DEF LastTtlAt
<1>5. QED  BY <1>3, <1>4

LEMMA OwnerOfNext ==
  ASSUME NEW h, NEW first, NEW apex, NEW owner, NEW p \in Nat \ {0}, h[p].kind # "end"
  PROVE  IF h[p].kind \in {"record", "$GENERATE"} /\ h[p].name # << >>
         THEN /\ Latest(Owned(h, p + 1)) = p
              /\ OwnerHolds(h, first, apex, owner, p + 1) <=> OwnerIs(h[p], Origins(h, first)[p], apex, owner)
         ELSE /\ Owned(h, p + 1) = Owned(h, p)
              /\ OwnerHolds(h, first, apex, owner, p + 1) <=> OwnerHolds(h, first, apex, owner, p)
<1>1. Owned(h, p + 1) = Owned(h, p) \cup
          {j \in {p} : h[j].kind \in {"record", "$GENERATE"} /\ h[j].name # << >>}
  BY EarlierOrdinary
<1>2. Owned(h, p) \in SUBSET (1..(p - 1))
  BY EarlierBounds
<1>3. CASE h[p].kind \in {"record", "$GENERATE"} /\ h[p].name # << >>
  <2>1. Owned(h, p + 1) = Owned(h, p) \cup {p}
    BY <1>1, <1>3
  <2>2. Latest(Owned(h, p + 1)) = p
    BY <2>1, <1>2, LatestOfMore
  <2>3. p # 0
    OBVIOUS
  <2>4. QED  BY <2>2, <2>3, <1>3 DEF OwnerHolds
<1>4. CASE ~(h[p].kind \in {"record", "$GENERATE"} /\ h[p].name # << >>)
  <2>1. Owned(h, p + 1) = Owned(h, p)
    BY <1>1, <1>4
  <2>2. QED  BY <2>1, <1>4 DEF OwnerHolds
<1>5. QED  BY <1>3, <1>4

LEMMA OwnerNamed ==
  ASSUME NEW h, NEW first, NEW apex, NEW owner, NEW p \in Nat \ {0}, h[p].kind # "end",
         h[p].kind \in {"record", "$GENERATE"}, h[p].name # << >>
  PROVE  /\ Latest(Owned(h, p + 1)) = p
         /\ OwnerHolds(h, first, apex, owner, p + 1) <=> OwnerIs(h[p], Origins(h, first)[p], apex, owner)
  BY OwnerOfNext

\* At the end of an included file, what held for its $INCLUDE holds again.
LEMMA HoldsAgain ==
  ASSUME NEW h, Len(h) \in Nat, NEW R, NEW first, NEW apex, NEW f, NEW p \in Nat \ {0}, p <= Len(h),
         NEW o, NEW d \in Int, Includes(h, o, d, p), h[p].kind = "end", Depth(h, p) = d,
         HoldsAt(f, h, R, first, apex, o)
  PROVE  HoldsAt(f, h, R, first, apex, p + 1)
<1>1. /\ Owned(h, p + 1) = Owned(h, o)
      /\ TtlDirectives(h, p + 1) = TtlDirectives(h, o)
      /\ SoasTaken(h, R, p + 1) = SoasTaken(h, R, o)
      /\ TtlsTaken(h, R, p + 1) = TtlsTaken(h, R, o)
  BY EarlierIncluded
<1>2. Origins(h, first)[p + 1] = Origins(h, first)[o]
  <2> DEFINE a == Origins(h, first)
  <2>1. o \in 1..Len(h) + 1 /\ p + 1 \in 1..Len(h) + 1
    BY DEF Includes
  <2>2. a[o] = OriginFrom(h, first, a, o) /\ a[p + 1] = OriginFrom(h, first, a, p + 1)
    BY <2>1, OriginOf
  <2> HIDE DEF a
  <2>3. Naming(h, p + 1) = Naming(h, o)
    BY AfterIncluded
  <2>4. OriginFrom(h, first, a, p + 1) = OriginFrom(h, first, a, o)
    BY <2>3 DEF OriginFrom
  <2>5. QED  BY <2>2, <2>4 DEF a
<1>3. DefaultAt(h, R, p + 1) = DefaultAt(h, R, o) /\ LastTtlAt(h, R, p + 1) = LastTtlAt(h, R, o)
  BY <1>1 DEF DefaultAt, LastTtlAt
<1>4. OwnerHolds(h, first, apex, f.lastName, p + 1)
  BY <1>1 DEF HoldsAt, OwnerHolds
<1>5. QED  BY <1>2, <1>3, <1>4 DEF HoldsAt

RecordRight(r, h, R, first, apex) ==
    /\ r.line \in 1..Len(h)
    /\ r.ttl = TtlAt(h, R, r.line)
    /\ r.name \in OwnersAt(h, first, r.line)
    /\ apex # << >> /\ IsInside(r.name, apex[1])

\* The files that include this one, down to depth n, have what held for their
\* $INCLUDE.
Stacked(s, n, h, R, first, apex, i) ==
    \A d \in 1..n : \E o : Includes(h, o, d, i) /\ HoldsAt(s[d], h, R, first, apex, o)

ReadingOn ==
    /\ \E S : savedState \in Seq(S)
    /\ openFiles = Len(savedState)
    /\ Depth(fileOf, Len(fileOf) + 1) = Len(savedState)
    /\ Stacked(savedState, Len(savedState), fileOf, added, callersOrigin, zoneOrigin, Len(fileOf) + 1)
    /\ HoldsAt(file, fileOf, added, callersOrigin, zoneOrigin, Len(fileOf) + 1)

ReaderInv ==
    /\ fileOf \in Seq(FileLines)
    /\ \A r \in added : RecordRight(r, fileOf, added, callersOrigin, zoneOrigin)
    /\ reading = "idle" => fileOf = << >> /\ added = {} /\ savedState = << >> /\ openFiles = 0
    /\ reading = "lines" => ReadingOn
    /\ reading = "read" => openFiles = 0

\* The next line, before it has had its effect on the reader.
Entered(line, R, apex) ==
    /\ Len(fileOf) \in Nat /\ Len(fileOf') = Len(fileOf) + 1
    /\ fileOf' \in Seq(FileLines) /\ fileOf'[Len(fileOf')] = line
    /\ \E S : savedState \in Seq(S)
    /\ openFiles = Len(savedState)
    /\ Depth(fileOf', Len(fileOf')) = Len(savedState)
    /\ Stacked(savedState, Len(savedState), fileOf', R, callersOrigin, apex, Len(fileOf'))
    /\ HoldsAt(file, fileOf', R, callersOrigin, apex, Len(fileOf'))
    /\ \A r \in added : RecordRight(r, fileOf', R, callersOrigin, apex) /\ r.line \in 1..Len(fileOf)

LEMMA LineEnters ==
  ASSUME ReaderInv, reading = "lines", NEW line \in FileLines, fileOf' = Append(fileOf, line),
         NEW R, SameRecords(R, added, Len(fileOf) + 1),
         NEW apex, zoneOrigin = << >> \/ apex = zoneOrigin
  PROVE  Entered(line, R, apex)
<1> DEFINE h == fileOf
           g == Append(fileOf, line)
           p == Len(fileOf) + 1
<1>1. h \in Seq(FileLines) /\ ReadingOn /\ Len(h) \in Nat
  BY LenProperties DEF ReaderInv
<1>2. g \in Seq(FileLines) /\ Len(g) = p /\ g[p] = line /\ \A j \in 1..Len(h) : g[j] = h[j]
  BY <1>1, AppendProperties
<1>3. p \in Nat /\ Len(g) \in Nat /\ p <= Len(g) + 1 /\ p <= Len(h) + 1 /\ p \in 1..p
  BY <1>1, <1>2
<1>4. SameLines(g, h, p)
  <2>1. p - 1 = Len(h)
    BY <1>1
  <2>2. QED  BY <2>1, <1>2 DEF SameLines
<1>5. SameRecords(R, added, p)
  OBVIOUS
<1>6. Depth(g, p) = Len(savedState)
  <2>1. Depth(g, p) = Depth(h, p)
    BY <1>3, <1>4, SameDepths
  <2>2. QED  BY <2>1, <1>1 DEF ReadingOn
<1> DEFINE s == savedState
           z == zoneOrigin
           a == added
           first == callersOrigin
<1>7. HoldsAt(file, h, a, first, z, p) /\ Stacked(s, Len(s), h, a, first, z, p)
  BY <1>1 DEF ReadingOn
<1>8. \A r \in a : RecordRight(r, h, a, first, z)
  BY DEF ReaderInv
<1>9. z = << >> \/ apex = z
  OBVIOUS
<1>10. Len(h) \in Nat /\ p - 1 = Len(h)
  BY <1>1
<1> HIDE DEF h, g, p, s, z, a, first
<1>11. ASSUME NEW f, NEW k \in 1..p, HoldsAt(f, h, a, first, z, k)
       PROVE  HoldsAt(f, g, R, first, apex, k)
  BY <1>1, <1>3, <1>4, <1>5, <1>9, <1>11, StillHolds DEF a
<1>12. ASSUME NEW d \in 1..Len(s)
       PROVE  \E o : Includes(g, o, d, p) /\ HoldsAt(s[d], g, R, first, apex, o)
  <2>1. PICK o : Includes(h, o, d, p) /\ HoldsAt(s[d], h, a, first, z, o)
    BY <1>7 DEF Stacked
  <2>2. o \in 1..p - 1 /\ o \in 1..p /\ \A k \in o + 1..p : k \in 1..p
    BY <2>1, <1>3 DEF Includes
  <2>3. g[o] = h[o] /\ \A k \in 1..p : Depth(g, k) = Depth(h, k)
    BY <2>2, <1>3, <1>4, SameDepths DEF SameLines
  <2>4. Includes(g, o, d, p)
    BY <2>1, <2>2, <2>3 DEF Includes
  <2>5. QED  BY <2>1, <2>2, <2>4, <1>11
<1>13. ASSUME NEW r \in a PROVE RecordRight(r, g, R, first, apex)
  <2>1. RecordRight(r, h, a, first, z)
    BY <1>8
  <2>2. r.line \in 1..p - 1 /\ r.line \in 1..Len(g)
    BY <2>1, <1>1, <1>2, <1>10, <1>3 DEF RecordRight
  <2>3. TtlAt(g, R, r.line) = TtlAt(h, a, r.line)
    BY <2>2, <1>1, <1>3, <1>4, <1>5, SameTtl DEF a
  <2>4. OwnersAt(g, first, r.line) = OwnersAt(h, first, r.line)
    BY <2>2, <1>1, <1>3, <1>4, SameOwners
  <2>5. QED  BY <2>1, <2>2, <2>3, <2>4, <1>9 DEF RecordRight
<1>14. Stacked(s, Len(s), g, R, first, apex, p)
  BY <1>12 DEF Stacked
<1>15. HoldsAt(file, g, R, first, apex, p)
  BY <1>3, <1>7, <1>11
<1>16. fileOf' = g
  BY DEF g
<1>17. (\E S : savedState \in Seq(S)) /\ openFiles = Len(savedState)
  BY <1>1 DEF ReadingOn
<1>18. \A r \in added : RecordRight(r, g, R, first, apex) /\ r.line \in 1..Len(fileOf)
  BY <1>8, <1>13 DEF a, h, RecordRight
<1>19. QED
  BY <1>1, <1>2, <1>6, <1>14, <1>15, <1>16, <1>17, <1>18 DEF Entered, h, p, s, first

LEMMA StackedOn ==
  ASSUME NEW h, NEW R, NEW first, NEW apex, NEW s, NEW p \in Nat \ {0}, NEW n \in Nat, NEW m \in Nat, m <= n,
         Stacked(s, n, h, R, first, apex, p), Depth(h, p + 1) >= m
  PROVE  Stacked(s, m, h, R, first, apex, p + 1)
<1>1. ASSUME NEW d \in 1..m
      PROVE  \E o : Includes(h, o, d, p + 1) /\ HoldsAt(s[d], h, R, first, apex, o)
  <2>1. d \in 1..n
    OBVIOUS
  <2>2. PICK o : Includes(h, o, d, p) /\ HoldsAt(s[d], h, R, first, apex, o)
    BY <2>1 DEF Stacked
  <2>3. Depth(h, p + 1) \in Int
    BY DepthType
  <2>4. Depth(h, p + 1) >= d
    BY <2>3
  <2>5. o \in 1..(p + 1) - 1 /\ \A k \in o + 1..p + 1 : k \in o + 1..p \/ k = p + 1
    BY <2>2 DEF Includes
  <2>6. Includes(h, o, d, p + 1)
    BY <2>2, <2>4, <2>5 DEF Includes
  <2>7. QED  BY <2>2, <2>6
<1>2. QED  BY <1>1 DEF Stacked

\* A line that leaves the files open as they are.
LEMMA ReadingGoesOn ==
  ASSUME NEW line \in FileLines, Entered(line, added', zoneOrigin'),
         line.kind \notin {"$INCLUDE", "end"},
         UNCHANGED <<callersOrigin, savedState, openFiles>>,
         reading' \notin {"idle", "read"},
         \A r \in added' \ added : RecordRight(r, fileOf', added', callersOrigin, zoneOrigin'),
         HoldsAt(file', fileOf', added', callersOrigin, zoneOrigin', Len(fileOf') + 1)
  PROVE  ReaderInv'
<1> DEFINE h == fileOf'
           p == Len(fileOf')
<1>1. p \in Nat \ {0} /\ p = Len(fileOf) + 1 /\ h \in Seq(FileLines) /\ h[p] = line
  BY DEF Entered
<1>2. Depth(h, p + 1) = Depth(h, p) /\ Depth(h, p) = Len(savedState)
  <2>1. Depth(h, p) = Len(savedState)
    BY DEF Entered
  <2> HIDE DEF h, p
  <2>2. Depth(h, p + 1) = Depth(h, p)
    BY <1>1, DepthOfNext
  <2>3. QED  BY <2>1, <2>2
<1>3. PICK S : savedState \in Seq(S)
  BY DEF Entered
<1>4. Len(savedState) \in Nat
  BY <1>3, LenProperties
<1>5. Stacked(savedState, Len(savedState), h, added', callersOrigin, zoneOrigin', p)
  BY DEF Entered
<1>6. Stacked(savedState, Len(savedState), h, added', callersOrigin, zoneOrigin', p + 1)
  <2>1. Depth(h, p + 1) >= Len(savedState)
    BY <1>2, <1>4
  <2> DEFINE R == added'
             apex == zoneOrigin'
             n == Len(savedState)
  <2>2. Stacked(savedState, n, h, R, callersOrigin, apex, p) /\ Depth(h, p + 1) >= n /\ n \in Nat /\ n <= n
    BY <1>4, <1>5, <2>1
  <2> HIDE DEF h, p, R, apex, n
  <2>3. Stacked(savedState, n, h, R, callersOrigin, apex, p + 1)
    BY <2>2, <1>1, StackedOn
  <2>4. QED  BY <2>3 DEF R, apex, n
<1>7. ReadingOn'
  <2>1. openFiles = Len(savedState)
    BY DEF Entered
  <2>2. QED  BY <1>2, <1>3, <1>6, <2>1 DEF ReadingOn
<1>8. \A r \in added' : RecordRight(r, fileOf', added', callersOrigin, zoneOrigin')
  BY DEF Entered
<1>9. QED  BY <1>1, <1>7, <1>8 DEF ReaderInv

LEMMA LineFails ==
  ASSUME NEW line \in FileLines, Entered(line, added, zoneOrigin),
         NEW why \in {"UnknownOrigin", "AttributeError", "SyntaxError", "ValueError", "CNAMEAndOtherData"},
         ReadFails(why), UNCHANGED callersOrigin
  PROVE  ReaderInv'
<1>1. reading' \notin {"idle", "lines", "read"} /\ UNCHANGED <<added, zoneOrigin>>
  BY DEF ReadFails
<1>2. fileOf' \in Seq(FileLines) /\ \A r \in added : RecordRight(r, fileOf', added, callersOrigin, zoneOrigin)
  BY DEF Entered
<1>3. QED  BY <1>1, <1>2 DEF ReaderInv

LEMMA FirstOfThree ==
  ASSUME NEW a, NEW b, NEW c
  PROVE  FirstKnown(<<a, b, c>>) = IF a # Unknown THEN a ELSE IF b # Unknown THEN b ELSE c
<1> DEFINE ttls == <<a, b, c>>
           Is(i) == i \in DOMAIN ttls /\ ttls[i] # Unknown /\ \A j \in 1..i - 1 : ttls[j] = Unknown
<1>1. DOMAIN ttls = {1, 2, 3} /\ ttls[1] = a /\ ttls[2] = b /\ ttls[3] = c
  OBVIOUS
<1>2. 1..1 - 1 = {} /\ 1..2 - 1 = {1} /\ 1..3 - 1 = {1, 2}
  OBVIOUS
<1> HIDE DEF ttls
<1>3. /\ Is(1) <=> a # Unknown
      /\ Is(2) <=> b # Unknown /\ a = Unknown
      /\ Is(3) <=> c # Unknown /\ a = Unknown /\ b = Unknown
      /\ \A i : Is(i) => i \in {1, 2, 3}
  BY <1>1, <1>2
<1>4. FirstKnown(ttls) = IF \E i \in DOMAIN ttls : ttls[i] # Unknown THEN ttls[CHOOSE i : Is(i)] ELSE Unknown
  BY DEF FirstKnown
<1> HIDE DEF Is
<1>5. CASE \E i \in DOMAIN ttls : ttls[i] # Unknown
  <2>1. Is(CHOOSE i : Is(i))
    BY <1>1, <1>3, <1>5
  <2>2. QED  BY <2>1, <1>1, <1>3, <1>4, <1>5 DEF ttls
<1>6. CASE ~\E i \in DOMAIN ttls : ttls[i] # Unknown
  BY <1>1, <1>4, <1>6 DEF ttls
<1>7. QED  BY <1>5, <1>6

LEMMA FirstOfFour ==
  ASSUME NEW a, NEW b, NEW c, NEW d
  PROVE  FirstKnown(<<a, b, c, d>>) =
            IF a # Unknown THEN a ELSE IF b # Unknown THEN b ELSE IF c # Unknown THEN c ELSE d
<1> DEFINE ttls == <<a, b, c, d>>
           Is(i) == i \in DOMAIN ttls /\ ttls[i] # Unknown /\ \A j \in 1..i - 1 : ttls[j] = Unknown
<1>1. DOMAIN ttls = {1, 2, 3, 4} /\ ttls[1] = a /\ ttls[2] = b /\ ttls[3] = c /\ ttls[4] = d
  OBVIOUS
<1>2. 1..1 - 1 = {} /\ 1..2 - 1 = {1} /\ 1..3 - 1 = {1, 2} /\ 1..4 - 1 = {1, 2, 3}
  OBVIOUS
<1> HIDE DEF ttls
<1>3. /\ Is(1) <=> a # Unknown
      /\ Is(2) <=> b # Unknown /\ a = Unknown
      /\ Is(3) <=> c # Unknown /\ a = Unknown /\ b = Unknown
      /\ Is(4) <=> d # Unknown /\ a = Unknown /\ b = Unknown /\ c = Unknown
      /\ \A i : Is(i) => i \in {1, 2, 3, 4}
  BY <1>1, <1>2
<1>4. FirstKnown(ttls) = IF \E i \in DOMAIN ttls : ttls[i] # Unknown THEN ttls[CHOOSE i : Is(i)] ELSE Unknown
  BY DEF FirstKnown
<1> HIDE DEF Is
<1>5. CASE \E i \in DOMAIN ttls : ttls[i] # Unknown
  <2>1. Is(CHOOSE i : Is(i))
    BY <1>1, <1>3, <1>5
  <2>2. QED  BY <2>1, <1>1, <1>3, <1>4, <1>5 DEF ttls
<1>6. CASE ~\E i \in DOMAIN ttls : ttls[i] # Unknown
  BY <1>1, <1>4, <1>6 DEF ttls
<1>7. QED  BY <1>5, <1>6

LEMMA TtlFits ==
  ASSUME NEW h \in Seq(FileLines), NEW R, NEW p \in 1..Len(h)
  PROVE  LET ttl == FirstKnown(<<h[p].ttl, DefaultAt(h, R, p), LastTtlAt(h, R, p)>>)
         IN  TtlAt(h, R, p) = IF ttl # Unknown THEN ttl ELSE Minimum
<1> DEFINE T == TtlDirectives(h, p)
           S == SoasTaken(h, R, p)
           L == TtlsTaken(h, R, p)
<1>1. p \in Nat \ {0} /\ Len(h) \in Nat
  BY LenProperties
<1>2. /\ T \in SUBSET (1..(p - 1)) /\ L \in SUBSET (1..(p - 1))
      /\ Latest(T) = 0 <=> T = {}
      /\ Latest(L) = 0 <=> L = {}
      /\ T # {} => Latest(T) \in T
      /\ L # {} => Latest(L) \in L
  BY <1>1, EarlierBounds, LatestEarlier
<1>3. T # {} => h[Latest(T)].ttl # Unknown
  <2>1. ASSUME NEW t \in T PROVE h[t].ttl # Unknown
    <3>1. h[t].kind = "$TTL"
      BY DEF TtlDirectives
    <3>2. t \in 1..Len(h)
      BY <1>1, <1>2
    <3>3. h[t] \in FileLines
      BY <3>2, ElementOfSeq
    <3>4. QED  BY <3>1, <3>3, ReaderAssumption
  <2> HIDE DEF T
  <2>2. QED  BY <2>1, <1>2
<1>4. L # {} => h[Latest(L)].ttl # Unknown
  <2>1. \A t \in L : h[t].ttl # Unknown
    BY DEF TtlsTaken
  <2> HIDE DEF L
  <2>2. QED  BY <2>1, <1>2
<1>5. Minimum # Unknown
  BY ReaderAssumption
<1> HIDE DEF T, S, L
<1>6. DefaultAt(h, R, p) = IF T # {} THEN h[Latest(T)].ttl ELSE IF S # {} THEN Minimum ELSE Unknown
  BY DEF DefaultAt, T, S
<1>7. LastTtlAt(h, R, p) = IF L # {} THEN h[Latest(L)].ttl ELSE Unknown
  BY DEF LastTtlAt, L
<1>8. TtlAt(h, R, p) = IF h[p].ttl # Unknown THEN h[p].ttl
                       ELSE IF T # {} THEN h[Latest(T)].ttl
                       ELSE IF L = {} \/ S # {} THEN Minimum ELSE h[Latest(L)].ttl
  <2>1. Latest(T) # 0 <=> T # {}
    BY <1>2
  <2>2. TtlAt(h, R, p) = IF h[p].ttl # Unknown THEN h[p].ttl
                         ELSE IF Latest(T) # 0 THEN h[Latest(T)].ttl
                         ELSE IF Latest(L) = 0 \/ S # {} THEN Minimum ELSE h[Latest(L)].ttl
    BY DEF TtlAt, T, S, L
  <2>3. QED  BY <2>1, <2>2, <1>2
<1> DEFINE a == h[p].ttl
           b == DefaultAt(h, R, p)
           c == LastTtlAt(h, R, p)
<1>9. FirstKnown(<<a, b, c>>) = IF a # Unknown THEN a ELSE IF b # Unknown THEN b ELSE c
  BY FirstOfThree
<1>10. QED  BY <1>3, <1>4, <1>5, <1>6, <1>7, <1>8, <1>9

\* A field of the reader's state is given a value.
LEMMA StateChanges ==
  ASSUME NEW f, f = [origin |-> f.origin, lastName |-> f.lastName, lastTtl |-> f.lastTtl, defaultTtl |-> f.defaultTtl],
         NEW x
  PROVE  /\ [f EXCEPT !.origin = x] = [origin |-> x, lastName |-> f.lastName, lastTtl |-> f.lastTtl, defaultTtl |-> f.defaultTtl]
         /\ [f EXCEPT !.lastName = x] = [origin |-> f.origin, lastName |-> x, lastTtl |-> f.lastTtl, defaultTtl |-> f.defaultTtl]
         /\ [f EXCEPT !.lastTtl = x] = [origin |-> f.origin, lastName |-> f.lastName, lastTtl |-> x, defaultTtl |-> f.defaultTtl]
         /\ [f EXCEPT !.defaultTtl = x] = [origin |-> f.origin, lastName |-> f.lastName, lastTtl |-> f.lastTtl, defaultTtl |-> x]
  OBVIOUS

\* The state has these four values.
StateOf(f, origin, owner, lastTtl, defaultTtl) ==
    f = [origin |-> origin, lastName |-> owner, lastTtl |-> lastTtl, defaultTtl |-> defaultTtl]

LEMMA HoldsWhen ==
  ASSUME NEW f, NEW h, NEW R, NEW first, NEW apex, NEW i, NEW owner,
         StateOf(f, Origins(h, first)[i], owner, LastTtlAt(h, R, i), DefaultAt(h, R, i)),
         OwnerHolds(h, first, apex, owner, i)
  PROVE  HoldsAt(f, h, R, first, apex, i)
<1>1. /\ f.origin = Origins(h, first)[i] /\ f.lastName = owner
      /\ f.lastTtl = LastTtlAt(h, R, i) /\ f.defaultTtl = DefaultAt(h, R, i)
  BY DEF StateOf
<1>2. QED  BY <1>1 DEF HoldsAt, StateOf

LEMMA SameRecordsIf ==
  ASSUME NEW n \in Nat, NEW R, NEW N, \A r \in N : r.line = n
  PROVE  SameRecords(R \cup N, R, n) /\ SameRecords(R, R, n)
<1>1. \A j \in 1..n - 1 : j # n
  OBVIOUS
<1>2. QED  BY <1>1 DEF SameRecords

LEMMA RecordOwner ==
  ASSUME NEW h, NEW first, NEW R, NEW apex, NEW p \in Nat \ {0}, NEW f, HoldsAt(f, h, R, first, apex, p),
         h[p].kind = "record",
         NEW owner, owner = IF h[p].name = << >> THEN f.lastName ELSE <<AsName(h[p].name[1], f.origin)>>
  PROVE  /\ OwnerHolds(h, first, apex, owner, p + 1)
         /\ owner # << >> /\ apex # << >> /\ IsInside(owner[1], apex[1]) => owner[1] \in OwnersAt(h, first, p)
<1>1. OwnerHolds(h, first, apex, f.lastName, p) /\ f.origin = Origins(h, first)[p]
  BY DEF HoldsAt
<1>2. CASE h[p].name # << >>
  <2>1. /\ Latest(Owned(h, p + 1)) = p
        /\ OwnerHolds(h, first, apex, owner, p + 1) <=> OwnerIs(h[p], Origins(h, first)[p], apex, owner)
    BY <1>2, OwnerOfNext
  <2>2. owner = <<AsName(h[p].name[1], Origins(h, first)[p])>>
    BY <1>1, <1>2
  <2>3. OwnerIs(h[p], Origins(h, first)[p], apex, owner)
    BY <2>2 DEF OwnerIs
  <2>4. OwnersAt(h, first, p) = {AsName(h[p].name[1], Origins(h, first)[p])}
    <3>1. p # 0
      OBVIOUS
    <3>2. QED  BY <2>1, <3>1 DEF OwnersAt
  <2>5. QED  BY <2>1, <2>2, <2>3, <2>4
<1>3. CASE h[p].name = << >>
  <2>1. /\ Owned(h, p + 1) = Owned(h, p)
        /\ OwnerHolds(h, first, apex, owner, p + 1) <=> OwnerHolds(h, first, apex, owner, p)
    BY <1>3, OwnerOfNext
  <2>2. owner = f.lastName
    BY <1>3
  <2>3. OwnerHolds(h, first, apex, owner, p + 1)
    BY <1>1, <2>1, <2>2
  <2>4. ASSUME owner # << >>, apex # << >>, IsInside(owner[1], apex[1]) PROVE owner[1] \in OwnersAt(h, first, p)
    <3> DEFINE j == Latest(Owned(h, p))
    <3>1. j # 0 => j \in Owned(h, p) /\ j \in 1..(p - 1)
      BY EarlierBounds, LatestEarlier
    <3>2. j # p
      BY <3>1
    <3>3. j # 0 => h[j].kind \in {"record", "$GENERATE"}
      <4>1. \A k \in Owned(h, p) : h[k].kind \in {"record", "$GENERATE"}
        BY DEF Owned
      <4> HIDE DEF j
      <4>2. QED  BY <3>1, <4>1
    <3>4. OwnersAt(h, first, p) =
              IF j = 0 THEN {first[1]}
              ELSE IF h[j].kind = "record" THEN {AsName(h[j].name[1], Origins(h, first)[j])}
              ELSE {GenerateOwner(h[j].name[1], number, Origins(h, first)[j]) : number \in {"2"}}
      BY <2>1, <3>2 DEF OwnersAt
    <3>5. /\ j = 0 => owner = first
          /\ j # 0 => OwnerIs(h[j], Origins(h, first)[j], apex, owner)
      BY <1>1, <2>2 DEF OwnerHolds
    <3> HIDE DEF j
    <3>6. CASE j = 0
      BY <3>4, <3>5, <3>6
    <3>7. CASE j # 0 /\ h[j].kind = "record"
      <4>1. owner = <<AsName(h[j].name[1], Origins(h, first)[j])>>
        BY <3>5, <3>7 DEF OwnerIs
      <4>2. QED  BY <4>1, <3>4, <3>7
    <3>8. CASE j # 0 /\ h[j].kind = "$GENERATE"
      <4>1. \/ owner = <<GenerateOwner(h[j].name[1], "2", Origins(h, first)[j])>>
            \/ \E n : owner = <<n>> /\ ~IsInside(n, apex[1])
        BY <3>5, <3>8 DEF OwnerIs
      <4>2. owner = <<GenerateOwner(h[j].name[1], "2", Origins(h, first)[j])>>
        <5>1. ASSUME NEW n, owner = <<n>> PROVE IsInside(n, apex[1])
          BY <5>1, <2>4
        <5>2. QED  BY <4>1, <5>1
      <4>3. owner[1] = GenerateOwner(h[j].name[1], "2", Origins(h, first)[j])
        BY <4>2
      <4>4. OwnersAt(h, first, p) = {GenerateOwner(h[j].name[1], number, Origins(h, first)[j]) : number \in {"2"}}
        BY <3>4, <3>8
      <4>5. QED  BY <4>3, <4>4
    <3>9. QED  BY <3>3, <3>6, <3>7, <3>8
  <2>5. QED  BY <2>3, <2>4
<1>4. QED  BY <1>2, <1>3

\* The line that has entered, in short.
LEMMA EnteredFacts ==
  ASSUME NEW line \in FileLines, NEW R, NEW apex, Entered(line, R, apex)
  PROVE  /\ Len(fileOf') \in Nat \ {0} /\ Len(fileOf') \in 1..Len(fileOf')
         /\ fileOf' \in Seq(FileLines) /\ fileOf'[Len(fileOf')] = line
         /\ HoldsAt(file, fileOf', R, callersOrigin, apex, Len(fileOf'))
         /\ StateOf(file, Origins(fileOf', callersOrigin)[Len(fileOf')], file.lastName,
                    LastTtlAt(fileOf', R, Len(fileOf')), DefaultAt(fileOf', R, Len(fileOf')))
         /\ ~\E r \in added : r.line = Len(fileOf')
<1>1. /\ Len(fileOf) \in Nat /\ Len(fileOf') = Len(fileOf) + 1
      /\ fileOf' \in Seq(FileLines) /\ fileOf'[Len(fileOf')] = line
      /\ HoldsAt(file, fileOf', R, callersOrigin, apex, Len(fileOf'))
      /\ \A r \in added : r.line \in 1..Len(fileOf)
  BY DEF Entered
<1>2. Len(fileOf') \in Nat \ {0} /\ Len(fileOf') \in 1..Len(fileOf') /\ Len(fileOf') \notin 1..Len(fileOf)
  BY <1>1
<1>3. ~\E r \in added : r.line = Len(fileOf')
  BY <1>1, <1>2
<1>4. StateOf(file, Origins(fileOf', callersOrigin)[Len(fileOf')], file.lastName,
              LastTtlAt(fileOf', R, Len(fileOf')), DefaultAt(fileOf', R, Len(fileOf')))
  BY <1>1 DEF HoldsAt, StateOf
<1>5. QED  BY <1>1, <1>2, <1>3, <1>4

LEMMA RecordOutside ==
  ASSUME NEW line \in FileLines, line.kind = "record", Entered(line, added, zoneOrigin),
         NEW owner, owner = IF line.name = << >> THEN file.lastName ELSE <<AsName(line.name[1], file.origin)>>,
         file' = [file EXCEPT !.lastName = owner],
         UNCHANGED <<callersOrigin, reading, zoneOrigin, savedState, openFiles, added>>, reading = "lines"
  PROVE  ReaderInv'
<1> DEFINE h == fileOf'
           p == Len(fileOf')
           first == callersOrigin
           apex == zoneOrigin
           R == added
<1>1. /\ p \in Nat \ {0} /\ p \in 1..p /\ h \in Seq(FileLines) /\ h[p] = line
      /\ HoldsAt(file, h, R, first, apex, p)
      /\ StateOf(file, Origins(h, first)[p], file.lastName, LastTtlAt(h, R, p), DefaultAt(h, R, p))
      /\ ~\E r \in R : r.line = p
  BY EnteredFacts
<1>2. p = Len(h) /\ p <= Len(h) /\ Len(h) \in Nat
  BY <1>1
<1> HIDE DEF h, p, first, apex, R
<1>3. p \notin LinesTaken(h, R)
  BY <1>1 DEF LinesTaken
<1>4. OwnerHolds(h, first, apex, owner, p + 1)
  BY <1>1, RecordOwner
<1>5. Origins(h, first)[p + 1] = Origins(h, first)[p]
  <2>1. h[p].kind # "end" /\ h[p].kind \notin {"$ORIGIN", "$INCLUDE"} /\ p \in Nat \ {0}
    BY <1>1
  <2>2. p <= Len(h) /\ Len(h) \in Nat
    BY <1>2
  <2>3. QED  BY <2>1, <2>2, OriginOfNext
<1>6. DefaultAt(h, R, p + 1) = DefaultAt(h, R, p)
  BY <1>1, <1>2, <1>3, DefaultOfNext
<1>7. LastTtlAt(h, R, p + 1) = LastTtlAt(h, R, p)
  BY <1>1, <1>3, LastTtlOfNext
<1>8. StateOf(file', Origins(h, first)[p + 1], owner, LastTtlAt(h, R, p + 1), DefaultAt(h, R, p + 1))
  BY <1>1, <1>5, <1>6, <1>7 DEF StateOf
<1>9. HoldsAt(file', h, R, first, apex, p + 1)
  BY <1>4, <1>8, HoldsWhen
<1>10. added' \ added = {}
  OBVIOUS
<1>11. QED
  BY <1>9, <1>10, ReadingGoesOn DEF h, p, first, apex, R

RecordsAdded(names, ttl, type, line) == {[name |-> n, ttl |-> ttl, type |-> type, line |-> line] : n \in names}

\* A record of the zone is taken, and this is the state then.
TakesRecord(line, owner, lastTtl, least, defaultTtl, ttl) ==
    /\ owner = IF line.name = << >> THEN file.lastName ELSE <<AsName(line.name[1], file.origin)>>
    /\ owner # << >> /\ zoneOrigin # << >> /\ IsInside(owner[1], zoneOrigin[1])
    /\ lastTtl = IF line.ttl = Unknown THEN file.lastTtl ELSE line.ttl
    /\ least = IF line.type = "SOA" /\ file.defaultTtl = Unknown THEN Minimum ELSE Unknown
    /\ defaultTtl = IF line.type = "SOA" /\ file.defaultTtl = Unknown THEN Minimum ELSE file.defaultTtl
    /\ ttl # Unknown /\ ttl = FirstKnown(<<line.ttl, file.defaultTtl, lastTtl, least>>)
    /\ StateOf(file', file.origin, owner, lastTtl, defaultTtl)
    /\ added' = added \cup RecordsAdded({owner[1]}, ttl, line.type, Len(fileOf'))
    /\ UNCHANGED <<callersOrigin, reading, zoneOrigin, savedState, openFiles>>

LEMMA RecordTaken ==
  ASSUME NEW line \in FileLines, line.kind = "record", Entered(line, added', zoneOrigin), reading = "lines",
         NEW owner, NEW lastTtl, NEW least, NEW defaultTtl, NEW ttl,
         TakesRecord(line, owner, lastTtl, least, defaultTtl, ttl)
  PROVE  ReaderInv'
<1> USE DEF TakesRecord
<1> DEFINE h == fileOf'
           p == Len(fileOf')
           first == callersOrigin
           apex == zoneOrigin
           R == added'
           new == [name |-> owner[1], ttl |-> ttl, type |-> line.type, line |-> p]
<1>1. /\ p \in Nat \ {0} /\ p \in 1..p /\ h \in Seq(FileLines) /\ h[p] = line
      /\ HoldsAt(file, h, R, first, apex, p)
      /\ StateOf(file, Origins(h, first)[p], file.lastName, LastTtlAt(h, R, p), DefaultAt(h, R, p))
  BY EnteredFacts
<1>2. p = Len(h) /\ p <= Len(h) /\ Len(h) \in Nat
  BY <1>1
<1>3. R = added \cup {new} /\ new.line = p /\ new.ttl = ttl /\ new.name = owner[1]
  BY DEF RecordsAdded
<1> HIDE DEF h, p, first, apex, R, new
<1>4. p \in LinesTaken(h, R)
  BY <1>3 DEF LinesTaken
<1>5. OwnerHolds(h, first, apex, owner, p + 1) /\ owner[1] \in OwnersAt(h, first, p)
  <2>1. h[p].kind = "record" /\ owner = IF h[p].name = << >> THEN file.lastName ELSE <<AsName(h[p].name[1], file.origin)>>
    BY <1>1
  <2>2. /\ OwnerHolds(h, first, apex, owner, p + 1)
        /\ owner # << >> /\ apex # << >> /\ IsInside(owner[1], apex[1]) => owner[1] \in OwnersAt(h, first, p)
    BY <1>1, <2>1, RecordOwner
  <2>3. QED  BY <2>2 DEF apex
<1>6. Origins(h, first)[p + 1] = Origins(h, first)[p]
  <2>1. h[p].kind = "record" /\ p \in Nat \ {0}
    BY <1>1
  <2>2. p <= Len(h) /\ Len(h) \in Nat
    BY <1>2
  <2> HIDE DEF TakesRecord
  <2>3. QED  BY <2>1, <2>2, OriginKept
<1>7. file.origin = Origins(h, first)[p] /\ file.defaultTtl = DefaultAt(h, R, p) /\ file.lastTtl = LastTtlAt(h, R, p)
  BY <1>1 DEF HoldsAt
<1>8. DefaultAt(h, R, p + 1) = defaultTtl
  <2>1. CASE line.type = "SOA"
    <3>1. DefaultAt(h, R, p + 1) = IF DefaultAt(h, R, p) = Unknown THEN Minimum ELSE DefaultAt(h, R, p)
      BY <1>1, <1>2, <1>4, <2>1, DefaultOfNext
    <3>2. QED  BY <3>1, <2>1, <1>7
  <2>2. CASE line.type # "SOA"
    <3>1. DefaultAt(h, R, p + 1) = DefaultAt(h, R, p)
      BY <1>1, <1>2, <2>2, DefaultOfNext
    <3>2. QED  BY <3>1, <2>2, <1>7
  <2>3. QED  BY <2>1, <2>2
<1>9. LastTtlAt(h, R, p + 1) = lastTtl
  <2>1. LastTtlAt(h, R, p + 1) = IF p \in LinesTaken(h, R) /\ h[p].kind \in {"record", "$GENERATE"} /\ h[p].ttl # Unknown
                                 THEN h[p].ttl ELSE LastTtlAt(h, R, p)
    BY <1>1, LastTtlOfNext
  <2>2. QED  BY <2>1, <1>1, <1>4, <1>7
<1>10. StateOf(file', Origins(h, first)[p + 1], owner, LastTtlAt(h, R, p + 1), DefaultAt(h, R, p + 1))
  BY <1>6, <1>7, <1>8, <1>9
<1>11. HoldsAt(file', h, R, first, apex, p + 1)
  BY <1>5, <1>10, HoldsWhen
<1>12. ttl = TtlAt(h, R, p)
  <2> DEFINE a == line.ttl
             b == file.defaultTtl
             c == file.lastTtl
  <2>1. ttl = IF a # Unknown THEN a ELSE IF b # Unknown THEN b
              ELSE IF lastTtl # Unknown THEN lastTtl ELSE least
    BY FirstOfFour
  <2>2. FirstKnown(<<a, b, c>>) = IF a # Unknown THEN a ELSE IF b # Unknown THEN b ELSE c
    BY FirstOfThree
  <2>3. TtlAt(h, R, p) = IF FirstKnown(<<a, b, c>>) # Unknown THEN FirstKnown(<<a, b, c>>) ELSE Minimum
    <3>1. p \in 1..Len(h)
      BY <1>1, <1>2
    <3>2. QED  BY <3>1, <1>1, <1>7, TtlFits
  <2>4. QED  BY <2>1, <2>2, <2>3
<1>13. RecordRight(new, h, R, first, apex)
  BY <1>1, <1>2, <1>3, <1>5, <1>12 DEF RecordRight, apex
<1>14. \A r \in added' \ added : RecordRight(r, h, R, first, apex)
  BY <1>3, <1>13 DEF R
<1>15. QED
  BY <1>11, <1>14, ReadingGoesOn DEF h, p, first, apex, R

LEMMA GenerateTaken ==
  ASSUME NEW line \in FileLines, line.kind = "$GENERATE", Entered(line, added', zoneOrigin),
         zoneOrigin # << >>, NEW number \in {"1", "2"},
         number = "1" => ~IsInside(GenerateOwner(line.name[1], "1", file.origin), zoneOrigin[1]),
         NEW names, \A n \in names : /\ IsInside(n, zoneOrigin[1])
                                     /\ \E i \in {"1", "2"} : n = GenerateOwner(line.name[1], i, file.origin),
         NEW ttl, ttl # Unknown, ttl = FirstKnown(<<line.ttl, file.defaultTtl, file.lastTtl>>),
         StateOf(file', file.origin, <<GenerateOwner(line.name[1], number, file.origin)>>,
                 IF line.ttl = Unknown THEN file.lastTtl ELSE line.ttl, file.defaultTtl),
         added' = added \cup RecordsAdded(names, ttl, line.type, Len(fileOf')),
         UNCHANGED <<callersOrigin, reading, zoneOrigin, savedState, openFiles>>, reading = "lines"
  PROVE  ReaderInv'
<1> DEFINE h == fileOf'
           p == Len(fileOf')
           first == callersOrigin
           apex == zoneOrigin
           R == added'
           owner(i) == GenerateOwner(line.name[1], i, file.origin)
           new(n) == [name |-> n, ttl |-> ttl, type |-> line.type, line |-> p]
           lastTtl == IF line.ttl = Unknown THEN file.lastTtl ELSE line.ttl
<1>1. /\ p \in Nat \ {0} /\ p \in 1..p /\ h \in Seq(FileLines) /\ h[p] = line
      /\ HoldsAt(file, h, R, first, apex, p)
      /\ StateOf(file, Origins(h, first)[p], file.lastName, LastTtlAt(h, R, p), DefaultAt(h, R, p))
  BY EnteredFacts
<1>2. p = Len(h) /\ p <= Len(h) /\ Len(h) \in Nat
  BY <1>1
<1>3. R = added \cup {new(n) : n \in names} /\ StateOf(file', file.origin, <<owner(number)>>, lastTtl, file.defaultTtl)
  BY DEF RecordsAdded
<1> HIDE DEF h, p, first, apex, R
<1>4. p \in LinesTaken(h, R)
  BY <1>1, <1>2 DEF LinesTaken
<1>5. h[p].kind = "$GENERATE" /\ h[p].kind # "end" /\ h[p].kind \notin {"$ORIGIN", "$INCLUDE"} /\ h[p].name # << >>
  BY <1>1, ReaderAssumption
<1>6. file.origin = Origins(h, first)[p] /\ file.defaultTtl = DefaultAt(h, R, p) /\ file.lastTtl = LastTtlAt(h, R, p)
  BY <1>1 DEF HoldsAt
<1>7. /\ Latest(Owned(h, p + 1)) = p
      /\ OwnerHolds(h, first, apex, <<owner(number)>>, p + 1) <=>
             OwnerIs(h[p], Origins(h, first)[p], apex, <<owner(number)>>)
  <2> DEFINE w == <<owner(number)>>
  <2>1. h[p].kind \in {"record", "$GENERATE"} /\ h[p].name # << >> /\ p \in Nat \ {0} /\ h[p].kind # "end"
    BY <1>1, <1>5
  <2> HIDE DEF w, owner, new, lastTtl
  <2>2. /\ Latest(Owned(h, p + 1)) = p
        /\ OwnerHolds(h, first, apex, w, p + 1) <=> OwnerIs(h[p], Origins(h, first)[p], apex, w)
    BY <2>1, OwnerNamed
  <2>3. QED  BY <2>2 DEF w
<1>8. OwnerIs(h[p], Origins(h, first)[p], apex, <<owner(number)>>)
  <2>1. CASE number = "2"
    BY <2>1, <1>1, <1>5, <1>6 DEF OwnerIs
  <2>2. CASE number = "1"
    <3>1. apex # << >> /\ ~IsInside(owner("1"), apex[1])
      BY <2>2 DEF apex
    <3> HIDE DEF owner
    <3>2. QED  BY <2>2, <3>1, <1>5 DEF OwnerIs
  <2>3. QED  BY <2>1, <2>2
<1>9. OwnersAt(h, first, p) = {owner(i) : i \in {"1", "2"}}
  <2>1. p # 0
    BY <1>1
  <2>2. OwnersAt(h, first, p) = {GenerateOwner(h[p].name[1], i, Origins(h, first)[p]) : i \in {"1", "2"}}
    BY <1>5, <1>7, <2>1 DEF OwnersAt
  <2>3. QED  BY <2>2, <1>1, <1>6
<1>10. Origins(h, first)[p + 1] = Origins(h, first)[p]
  <2>1. p <= Len(h) /\ Len(h) \in Nat /\ p \in Nat \ {0}
    BY <1>1, <1>2
  <2>2. QED  BY <2>1, <1>5, OriginOfNext
<1>11. DefaultAt(h, R, p + 1) = DefaultAt(h, R, p)
  <2>1. p \in 1..Len(h) /\ h[p].kind \notin {"$TTL", "record", "end"}
    BY <1>1, <1>2, <1>5
  <2>2. QED  BY <2>1, <1>1, DefaultOfNext
<1>12. LastTtlAt(h, R, p + 1) = lastTtl
  <2>1. LastTtlAt(h, R, p + 1) = IF p \in LinesTaken(h, R) /\ h[p].kind \in {"record", "$GENERATE"} /\ h[p].ttl # Unknown
                                 THEN h[p].ttl ELSE LastTtlAt(h, R, p)
    BY <1>1, <1>5, LastTtlOfNext
  <2>2. QED  BY <2>1, <1>1, <1>4, <1>5, <1>6
<1>13. HoldsAt(file', h, R, first, apex, p + 1)
  <2>1. StateOf(file', Origins(h, first)[p + 1], <<owner(number)>>, LastTtlAt(h, R, p + 1), DefaultAt(h, R, p + 1))
    BY <1>3, <1>6, <1>10, <1>11, <1>12
  <2>2. OwnerHolds(h, first, apex, <<owner(number)>>, p + 1)
    BY <1>7, <1>8
  <2> HIDE DEF owner
  <2>3. QED  BY <2>1, <2>2, HoldsWhen
<1>14. ttl = TtlAt(h, R, p)
  <2>1. p \in 1..Len(h)
    BY <1>1, <1>2
  <2>2. FirstKnown(<<h[p].ttl, DefaultAt(h, R, p), LastTtlAt(h, R, p)>>) = ttl
    BY <1>1, <1>6
  <2>3. QED  BY <2>1, <2>2, <1>1, TtlFits
<1>15. ASSUME NEW r \in added' \ added PROVE RecordRight(r, h, R, first, apex)
  <2>1. PICK n \in names : r = new(n)
    BY <1>3, <1>15 DEF R
  <2>2. r.line = p /\ r.ttl = ttl /\ r.name = n
    BY <2>1
  <2>3. n \in OwnersAt(h, first, p)
    BY <1>9
  <2>4. apex # << >> /\ IsInside(n, apex[1])
    BY DEF apex
  <2>5. p \in 1..Len(h)
    BY <1>1, <1>2
  <2>6. QED  BY <2>2, <2>3, <2>4, <2>5, <1>14 DEF RecordRight
<1>16. line.kind \notin {"$INCLUDE", "end"} /\ Entered(line, added', zoneOrigin') /\ UNCHANGED zoneOrigin
  OBVIOUS
<1> HIDE DEF owner, new, lastTtl
<1>17. QED
  BY <1>13, <1>15, <1>16, ReadingGoesOn DEF h, p, first, apex, R

\* $TTL and $ORIGIN.
LEMMA DirectiveRead ==
  ASSUME NEW line \in FileLines, Entered(line, added, zoneOrigin'),
         \/ line.kind = "$TTL" /\ file' = [file EXCEPT !.defaultTtl = line.ttl]
         \/ line.kind = "$ORIGIN" /\ file' = [file EXCEPT !.origin = line.name],
         UNCHANGED <<callersOrigin, reading, savedState, openFiles, added>>, reading = "lines"
  PROVE  ReaderInv'
<1> DEFINE h == fileOf'
           p == Len(fileOf')
           first == callersOrigin
           apex == zoneOrigin'
           R == added
<1>1. /\ p \in Nat \ {0} /\ p \in 1..p /\ h \in Seq(FileLines) /\ h[p] = line
      /\ HoldsAt(file, h, R, first, apex, p)
      /\ StateOf(file, Origins(h, first)[p], file.lastName, LastTtlAt(h, R, p), DefaultAt(h, R, p))
  BY EnteredFacts
<1>2. p = Len(h) /\ p <= Len(h) /\ Len(h) \in Nat
  BY <1>1
<1> HIDE DEF h, p, first, apex, R
<1>3. h[p].kind \in {"$TTL", "$ORIGIN"} /\ h[p].kind # "end"
  BY <1>1
<1>4. OwnerHolds(h, first, apex, file.lastName, p + 1)
  <2>1. OwnerHolds(h, first, apex, file.lastName, p)
    BY <1>1 DEF HoldsAt
  <2>2. ~(h[p].kind \in {"record", "$GENERATE"} /\ h[p].name # << >>)
    BY <1>3
  <2>3. QED  BY <2>1, <2>2, <1>1, <1>3, OwnerOfNext
<1>5. LastTtlAt(h, R, p + 1) = LastTtlAt(h, R, p)
  BY <1>1, <1>3, LastTtlOfNext
<1>6. Origins(h, first)[p + 1] = IF h[p].kind = "$ORIGIN" THEN h[p].name ELSE Origins(h, first)[p]
  <2>1. p <= Len(h) /\ Len(h) \in Nat /\ p \in Nat \ {0}
    BY <1>1, <1>2
  <2>2. h[p].kind # "$ORIGIN" => h[p].kind \notin {"$ORIGIN", "$INCLUDE"}
    BY <1>3
  <2>3. QED  BY <2>1, <2>2, <1>3, OriginOfNext
<1>7. DefaultAt(h, R, p + 1) = IF h[p].kind = "$TTL" THEN h[p].ttl ELSE DefaultAt(h, R, p)
  <2>1. p \in 1..Len(h) /\ h[p].kind # "record"
    BY <1>1, <1>2, <1>3
  <2>2. QED  BY <2>1, <1>1, <1>3, DefaultOfNext
<1>8. StateOf(file', Origins(h, first)[p + 1], file.lastName, LastTtlAt(h, R, p + 1), DefaultAt(h, R, p + 1))
  BY <1>1, <1>5, <1>6, <1>7 DEF StateOf
<1>9. HoldsAt(file', h, R, first, apex, p + 1)
  BY <1>4, <1>8, HoldsWhen
<1>10. line.kind \notin {"$INCLUDE", "end"} /\ added' = added /\ reading' = "lines"
  OBVIOUS
<1>11. QED
  BY <1>9, <1>10, ReadingGoesOn DEF h, p, first, apex, R

LEMMA IncludeRead ==
  ASSUME NEW line \in FileLines, line.kind = "$INCLUDE", Entered(line, added, zoneOrigin), IncludeLine(line),
         UNCHANGED callersOrigin, reading = "lines"
  PROVE  ReaderInv'
<1> DEFINE h == fileOf'
           p == Len(fileOf')
           first == callersOrigin
           apex == zoneOrigin
           R == added
           s == savedState
           n == Len(savedState)
           t == Append(savedState, file)
<1>1. /\ p \in Nat \ {0} /\ p \in 1..p /\ h \in Seq(FileLines) /\ h[p] = line
      /\ HoldsAt(file, h, R, first, apex, p)
      /\ StateOf(file, Origins(h, first)[p], file.lastName, LastTtlAt(h, R, p), DefaultAt(h, R, p))
  BY EnteredFacts
<1>2. p = Len(h) /\ p <= Len(h) /\ Len(h) \in Nat
  BY <1>1
<1>3. PICK S : savedState \in Seq(S)
  BY DEF Entered
<1>4. /\ n \in Nat
      /\ t \in Seq(S \cup {file}) /\ Len(t) = n + 1 /\ t[n + 1] = file
      /\ \A d \in 1..n : t[d] = s[d]
  <2>1. savedState \in Seq(S \cup {file}) /\ file \in S \cup {file}
    <3>1. savedState \in [1..Len(savedState) -> S] /\ Len(savedState) \in Nat
      BY <1>3, LenProperties
    <3>2. savedState \in [1..Len(savedState) -> S \cup {file}]
      BY <3>1
    <3>3. QED  BY <3>1, <3>2, SeqDef
  <2>2. QED  BY <2>1, LenProperties, AppendProperties
<1>5. openFiles = n /\ Depth(h, p) = n /\ Stacked(s, n, h, R, first, apex, p)
  BY DEF Entered
<1>6. /\ savedState' = t /\ openFiles' = openFiles + 1
      /\ UNCHANGED <<reading, zoneOrigin, added, callersOrigin>>
      /\ file' = IF line.name = << >> THEN file ELSE [file EXCEPT !.origin = <<NameFrom(line.name[1], @)>>]
  BY DEF IncludeLine
<1> HIDE DEF h, p, first, apex, R, s, n, t
<1>7. h[p].kind = "$INCLUDE" /\ h[p].kind # "end"
  BY <1>1
<1>8. Depth(h, p + 1) = n + 1
  BY <1>1, <1>5, <1>7, DepthOfNext
<1>9. HoldsAt(file', h, R, first, apex, p + 1)
  <2>1. OwnerHolds(h, first, apex, file.lastName, p + 1)
    <3>1. OwnerHolds(h, first, apex, file.lastName, p)
      BY <1>1 DEF HoldsAt
    <3>2. ~(h[p].kind \in {"record", "$GENERATE"} /\ h[p].name # << >>)
      BY <1>7
    <3>3. QED  BY <3>1, <3>2, <1>1, <1>7, OwnerOfNext
  <2>2. LastTtlAt(h, R, p + 1) = LastTtlAt(h, R, p)
    BY <1>1, <1>7, LastTtlOfNext
  <2>3. Origins(h, first)[p + 1] = IF line.name = << >> THEN Origins(h, first)[p]
                                   ELSE <<NameFrom(line.name[1], Origins(h, first)[p])>>
    <3>1. p <= Len(h) /\ Len(h) \in Nat /\ p \in Nat \ {0}
      BY <1>1, <1>2
    <3>2. /\ (h[p].kind = "$INCLUDE" /\ h[p].name # << >>) =>
               Origins(h, first)[p + 1] = <<NameFrom(h[p].name[1], Origins(h, first)[p])>>
          /\ (h[p].kind = "$INCLUDE" /\ h[p].name = << >>) =>
               Origins(h, first)[p + 1] = Origins(h, first)[p]
      BY <3>1, <1>7, OriginOfNext
    <3>3. QED  BY <3>2, <1>1, <1>7
  <2>4. DefaultAt(h, R, p + 1) = DefaultAt(h, R, p)
    <3>1. p \in 1..Len(h) /\ h[p].kind \notin {"record", "$TTL"}
      BY <1>1, <1>2, <1>7
    <3>2. QED  BY <3>1, <1>1, <1>7, DefaultOfNext
  <2>5. StateOf(file', Origins(h, first)[p + 1], file.lastName, LastTtlAt(h, R, p + 1), DefaultAt(h, R, p + 1))
    BY <1>1, <1>6, <2>2, <2>3, <2>4 DEF StateOf
  <2>6. QED  BY <2>1, <2>5, HoldsWhen
<1>10. Stacked(t, n + 1, h, R, first, apex, p + 1)
  <2>1. Stacked(s, n, h, R, first, apex, p + 1)
    <3>1. Depth(h, p + 1) >= n
      BY <1>4, <1>8
    <3>2. n <= n
      BY <1>4
    <3>3. QED  BY <3>1, <3>2, <1>1, <1>4, <1>5, StackedOn
  <2>2. Includes(h, p, n + 1, p + 1)
    <3>1. p \in 1..(p + 1) - 1 /\ p + 1..p + 1 = {p + 1} /\ n = (n + 1) - 1 /\ n + 1 >= n + 1
      BY <1>1, <1>4
    <3>2. \A k \in p + 1..p + 1 : Depth(h, k) >= n + 1
      BY <3>1, <1>8
    <3>3. QED  BY <3>1, <3>2, <1>5, <1>7 DEF Includes
  <2>3. \A d \in 1..n + 1 : d \in 1..n \/ d = n + 1
    BY <1>4
  <2>4. QED  BY <2>1, <2>2, <2>3, <1>1, <1>4 DEF Stacked
<1>11. /\ \E T : savedState' \in Seq(T)
       /\ openFiles' = Len(savedState')
       /\ Depth(fileOf', Len(fileOf') + 1) = Len(savedState')
       /\ Stacked(savedState', Len(savedState'), fileOf', added', callersOrigin', zoneOrigin', Len(fileOf') + 1)
       /\ HoldsAt(file', fileOf', added', callersOrigin', zoneOrigin', Len(fileOf') + 1)
  BY <1>4, <1>5, <1>6, <1>8, <1>9, <1>10 DEF h, p, first, apex, R
<1>12. \A r \in added : RecordRight(r, fileOf', added, callersOrigin, zoneOrigin)
  BY DEF Entered
<1>13. QED
  BY <1>1, <1>6, <1>11, <1>12 DEF ReaderInv, ReadingOn, h

LEMMA FrontIs ==
  ASSUME NEW S, NEW s \in Seq(S), s # << >>
  PROVE  /\ Len(s) \in Nat \ {0} /\ Last(s) = s[Len(s)]
         /\ Front(s) \in Seq(S) /\ Len(Front(s)) = Len(s) - 1
         /\ \A d \in 1..Len(s) - 1 : Front(s)[d] = s[d]
<1>1. Len(s) \in Nat \ {0} /\ \A i \in 1..Len(s) : s[i] \in S
  BY EmptySeq, LenProperties, ElementOfSeq
<1>2. 1 \in Int /\ Len(s) - 1 \in Int /\ \A i \in 1..Len(s) - 1 : i \in 1..Len(s)
  BY <1>1
<1>3. /\ SubSeq(s, 1, Len(s) - 1) \in Seq(S)
      /\ Len(SubSeq(s, 1, Len(s) - 1)) = IF 1 <= Len(s) - 1 THEN (Len(s) - 1) - 1 + 1 ELSE 0
      /\ \A i \in 1..(Len(s) - 1) - 1 + 1 : SubSeq(s, 1, Len(s) - 1)[i] = s[1 + i - 1]
  <2> DEFINE n == Len(s) - 1
  <2>1. n \in Int /\ \A i \in 1..n : s[i] \in S
    BY <1>1, <1>2
  <2> HIDE DEF n
  <2>2. /\ SubSeq(s, 1, n) \in Seq(S)
        /\ Len(SubSeq(s, 1, n)) = IF 1 <= n THEN n - 1 + 1 ELSE 0
        /\ \A i \in 1..n - 1 + 1 : SubSeq(s, 1, n)[i] = s[1 + i - 1]
    BY <2>1, <1>2, SubSeqProperties
  <2>3. QED  BY <2>2 DEF n
<1> DEFINE t == SubSeq(s, 1, Len(s) - 1)
           n == Len(s)
<1>4. /\ n \in Nat \ {0} /\ t \in Seq(S)
      /\ Len(t) = IF 1 <= n - 1 THEN (n - 1) - 1 + 1 ELSE 0
      /\ \A i \in 1..(n - 1) - 1 + 1 : t[i] = s[1 + i - 1]
  BY <1>1, <1>3
<1>5. Front(s) = t /\ Last(s) = s[n]
  BY DEF Front, Last
<1> HIDE DEF t, n
<1>6. Len(t) = n - 1
  BY <1>4
<1>7. \A d \in 1..n - 1 : t[d] = s[d]
  <2>1. \A d \in 1..n - 1 : d \in 1..(n - 1) - 1 + 1 /\ 1 + d - 1 = d
    BY <1>4
  <2>2. QED  BY <2>1, <1>4
<1>8. QED  BY <1>4, <1>5, <1>6, <1>7 DEF n

LEMMA FileEndKeeps ==
  ASSUME NEW line \in FileLines, line.kind = "end", Entered(line, added, zoneOrigin), FileEnds,
         UNCHANGED callersOrigin, reading = "lines"
  PROVE  ReaderInv'
<1> DEFINE h == fileOf'
           p == Len(fileOf')
           first == callersOrigin
           apex == zoneOrigin
           R == added
           s == savedState
           n == Len(savedState)
<1>1. p \in Nat \ {0} /\ h \in Seq(FileLines) /\ h[p] = line /\ Len(h) \in Nat /\ p <= Len(h)
  BY EnteredFacts
<1>2. openFiles = n /\ Depth(h, p) = n /\ Stacked(s, n, h, R, first, apex, p)
  BY DEF Entered
<1>3. \A r \in added : RecordRight(r, fileOf', added, callersOrigin, zoneOrigin)
  BY DEF Entered
<1>4. PICK S : savedState \in Seq(S)
  BY DEF Entered
<1>5. CASE savedState = << >>
  <2>1. reading' = "read" /\ UNCHANGED <<zoneOrigin, file, savedState, openFiles, added>>
    BY <1>5 DEF FileEnds
  <2>2. openFiles = 0
    BY <1>2, <1>5
  <2>3. QED  BY <1>1, <1>3, <2>1, <2>2 DEF ReaderInv
<1>6. CASE savedState # << >>
  <2> DEFINE t == Front(savedState)
             m == n - 1
  <2>1. /\ n \in Nat \ {0} /\ Last(savedState) = s[n]
        /\ t \in Seq(S) /\ Len(t) = m /\ \A d \in 1..m : t[d] = s[d]
    BY <1>4, <1>6, FrontIs
  <2>2. /\ file' = s[n] /\ savedState' = t /\ openFiles' = openFiles - 1
        /\ UNCHANGED <<reading, zoneOrigin, added, callersOrigin>>
    BY <1>6, <2>1 DEF FileEnds, Restored
  <2> HIDE DEF h, p, first, apex, R, s, n, t
  <2>3. h[p].kind = "end" /\ Depth(h, p + 1) = m /\ m \in Nat /\ m <= n /\ Depth(h, p + 1) >= m /\ n \in Nat /\ n \in 1..n
    <3>1. Depth(h, p + 1) = Depth(h, p) - 1 /\ h[p].kind = "end"
      BY <1>1, DepthOfNext
    <3>2. QED  BY <3>1, <1>2, <2>1
  <2>4. Stacked(s, m, h, R, first, apex, p + 1)
    BY <1>1, <1>2, <2>3, StackedOn
  <2>5. Stacked(t, m, h, R, first, apex, p + 1)
    BY <2>1, <2>4 DEF Stacked
  <2>6. PICK o : Includes(h, o, n, p) /\ HoldsAt(s[n], h, R, first, apex, o)
    BY <1>2, <2>3 DEF Stacked
  <2>7. HoldsAt(file', h, R, first, apex, p + 1)
    <3>1. n \in Int
      BY <2>3
    <3>2. QED  BY <1>1, <1>2, <2>2, <2>3, <2>6, <3>1, HoldsAgain
  <2>8. /\ \E T : savedState' \in Seq(T)
        /\ openFiles' = Len(savedState')
        /\ Depth(fileOf', Len(fileOf') + 1) = Len(savedState')
        /\ Stacked(savedState', Len(savedState'), fileOf', added', callersOrigin', zoneOrigin', Len(fileOf') + 1)
        /\ HoldsAt(file', fileOf', added', callersOrigin', zoneOrigin', Len(fileOf') + 1)
    BY <1>2, <2>1, <2>2, <2>3, <2>5, <2>7 DEF h, p, first, apex, R
  <2>9. QED
    BY <1>1, <1>3, <2>2, <2>8 DEF ReaderInv, ReadingOn, h
<1>7. QED  BY <1>5, <1>6

LEMMA ReaderStarts == ReaderInit => ReaderInv
<1>1. << >> \in Seq(FileLines)
  BY EmptySeq
<1>2. QED  BY <1>1 DEF ReaderInit, ReaderInv

LEMMA FromTextKeeps == ASSUME ReaderInv, FromText PROVE ReaderInv'
<1> DEFINE h == << >>
           apex == zoneOrigin'
<1>1. /\ fileOf = h /\ added = {} /\ savedState = << >> /\ openFiles = 0
      /\ reading' = "lines" /\ callersOrigin' = apex /\ file' = StartOf(apex)
      /\ UNCHANGED <<savedState, openFiles, added, fileOf>>
  BY DEF ReaderInv, FromText
<1>2. Len(h) = 0 /\ Len(h) + 1 = 1 /\ h \in Seq(FileLines)
  BY EmptySeq
<1> HIDE DEF h, apex
<1>3. Naming(h, 1) = {} /\ Owned(h, 1) = {} /\ TtlDirectives(h, 1) = {} /\ SoasTaken(h, {}, 1) = {} /\ TtlsTaken(h, {}, 1) = {}
  <2>1. Reaching(h, 1) = {}
    BY DEF Reaching
  <2>2. QED  BY <2>1 DEF Naming, Owned, TtlDirectives, SoasTaken, TtlsTaken
<1>4. Origins(h, apex)[1] = apex
  <2> DEFINE f == Origins(h, apex)
  <2>1. Len(h) \in Nat /\ 1 \in 1..Len(h) + 1
    BY <1>2
  <2>2. f[1] = OriginFrom(h, apex, f, 1)
    BY <2>1, OriginOf
  <2> HIDE DEF f
  <2>3. OriginFrom(h, apex, f, 1) = apex
    BY <1>3 DEF OriginFrom, Latest
  <2>4. QED  BY <2>2, <2>3 DEF f
<1>5. DefaultAt(h, {}, 1) = Unknown /\ LastTtlAt(h, {}, 1) = Unknown
  BY <1>3 DEF DefaultAt, LastTtlAt
<1>6. OwnerHolds(h, apex, apex, apex, 1)
  BY <1>3 DEF OwnerHolds, Latest
<1>7. StateOf(file', apex, apex, Unknown, Unknown)
  BY <1>1 DEF StartOf, StateOf
<1>8. HoldsAt(file', h, {}, apex, apex, 1)
  BY <1>4, <1>5, <1>6, <1>7, HoldsWhen
<1>9. /\ savedState' = << >> /\ Len(savedState') = 0 /\ savedState' \in Seq({})
      /\ openFiles' = Len(savedState')
  BY <1>1, EmptySeq
<1>10. Depth(h, 1) = 0
  BY DepthAtFirst
<1>11. Stacked(savedState', Len(savedState'), h, {}, apex, apex, 1)
  BY <1>9 DEF Stacked
<1>12. ReadingOn'
  <2>1. fileOf' = h /\ added' = {} /\ callersOrigin' = apex /\ zoneOrigin' = apex /\ Len(fileOf') + 1 = 1
    BY <1>1, <1>2 DEF apex
  <2>2. QED  BY <2>1, <1>8, <1>9, <1>10, <1>11 DEF ReadingOn
<1>13. QED  BY <1>1, <1>2, <1>12 DEF ReaderInv

LEMMA RrLineKeeps ==
  ASSUME ReaderInv, reading = "lines", NEW line \in FileLines, fileOf' = Append(fileOf, line),
         line.kind = "record", RrLine(line), UNCHANGED callersOrigin
  PROVE  ReaderInv'
<1> DEFINE owner   == IF line.name = << >> THEN file.lastName ELSE <<AsName(line.name[1], file.origin)>>
           named   == [file EXCEPT !.lastName = owner]
           lasting == IF line.ttl = Unknown THEN named ELSE [named EXCEPT !.lastTtl = line.ttl]
           ofSoa   == line.type = "SOA" /\ file.defaultTtl = Unknown
           least   == IF ofSoa THEN Minimum ELSE Unknown
           ttl     == FirstKnown(<<line.ttl, file.defaultTtl, lasting.lastTtl, least>>)
           last    == IF line.ttl = Unknown THEN file.lastTtl ELSE line.ttl
           default == IF ofSoa THEN Minimum ELSE file.defaultTtl
           final   == IF ofSoa THEN [lasting EXCEPT !.defaultTtl = Minimum] ELSE lasting
<1>1. Len(fileOf) \in Nat
  BY LenProperties DEF ReaderInv
<1>2. SameRecords(added, added, Len(fileOf) + 1)
  BY DEF SameRecords
<1>3. Entered(line, added, zoneOrigin)
  BY <1>2, LineEnters
<1>4. \/ \E why \in {"UnknownOrigin", "AttributeError", "SyntaxError", "ValueError", "CNAMEAndOtherData"} : ReadFails(why)
      \/ file' = named /\ UNCHANGED <<reading, zoneOrigin, savedState, openFiles, added>>
      \/ /\ owner # << >> /\ zoneOrigin # << >> /\ IsInside(owner[1], zoneOrigin[1]) /\ ttl # Unknown
         /\ file' = final
         /\ AddRecords({owner[1]}, ttl, line.type)
  BY DEF RrLine
<1>5. CASE \E why \in {"UnknownOrigin", "AttributeError", "SyntaxError", "ValueError", "CNAMEAndOtherData"} : ReadFails(why)
  BY <1>3, <1>5, LineFails
<1>6. CASE file' = named /\ UNCHANGED <<reading, zoneOrigin, savedState, openFiles, added>>
  <2>1. UNCHANGED <<callersOrigin, reading, zoneOrigin, savedState, openFiles, added>> /\ file' = [file EXCEPT !.lastName = owner]
    BY <1>6
  <2> DEFINE w == owner
  <2>2. w = IF line.name = << >> THEN file.lastName ELSE <<AsName(line.name[1], file.origin)>>
    OBVIOUS
  <2>3. file' = [file EXCEPT !.lastName = w]
    BY <2>1
  <2> HIDE DEF w, owner, named, lasting, ofSoa, least, ttl, last, default, final
  <2>4. QED  BY <1>3, <2>1, <2>2, <2>3, RecordOutside
<1>7. CASE /\ owner # << >> /\ zoneOrigin # << >> /\ IsInside(owner[1], zoneOrigin[1]) /\ ttl # Unknown
           /\ file' = final
           /\ AddRecords({owner[1]}, ttl, line.type)
  <2>1. file = [origin |-> file.origin, lastName |-> file.lastName, lastTtl |-> file.lastTtl, defaultTtl |-> file.defaultTtl]
    BY <1>3 DEF Entered, HoldsAt
  <2>2. named = [origin |-> file.origin, lastName |-> owner, lastTtl |-> file.lastTtl, defaultTtl |-> file.defaultTtl]
    <3> HIDE DEF owner
    <3>1. QED  BY <2>1, StateChanges
  <2>3. lasting = [origin |-> file.origin, lastName |-> owner, lastTtl |-> last, defaultTtl |-> file.defaultTtl]
    <3> HIDE DEF owner, named
    <3>1. QED  BY <2>2
  <2>4. lasting.lastTtl = last
    <3> HIDE DEF owner, lasting, last
    <3>1. QED  BY <2>3
  <2>5. StateOf(final, file.origin, owner, last, default)
    <3> HIDE DEF owner, lasting, last, ofSoa
    <3>1. QED  BY <2>3 DEF StateOf
  <2>6. ttl = FirstKnown(<<line.ttl, file.defaultTtl, last, least>>)
    <3> HIDE DEF lasting, last, least, owner
    <3>1. QED  BY <2>4
  <2> DEFINE new == RecordsAdded({owner[1]}, ttl, line.type, Len(fileOf'))
  <2>7. added' = added \cup new /\ UNCHANGED <<reading, zoneOrigin, savedState, openFiles>>
    <3> HIDE DEF owner, ttl
    <3>1. QED  BY <1>7 DEF AddRecords, RecordsAdded
  <2>8. Len(fileOf') = Len(fileOf) + 1
    BY <1>3 DEF Entered
  <2>9. SameRecords(added', added, Len(fileOf) + 1)
    <3>1. \A r \in new : r.line = Len(fileOf) + 1
      <4> HIDE DEF owner, ttl
      <4>1. QED  BY <2>8 DEF RecordsAdded
    <3>2. Len(fileOf) + 1 \in Nat
      BY <1>1
    <3> HIDE DEF new
    <3>3. QED  BY <3>1, <3>2, <2>7, SameRecordsIf
  <2>10. Entered(line, added', zoneOrigin)
    BY <2>9, LineEnters
  <2>11. /\ owner = IF line.name = << >> THEN file.lastName ELSE <<AsName(line.name[1], file.origin)>>
         /\ last = IF line.ttl = Unknown THEN file.lastTtl ELSE line.ttl
         /\ least = IF line.type = "SOA" /\ file.defaultTtl = Unknown THEN Minimum ELSE Unknown
         /\ default = IF line.type = "SOA" /\ file.defaultTtl = Unknown THEN Minimum ELSE file.defaultTtl
         /\ added' = added \cup RecordsAdded({owner[1]}, ttl, line.type, Len(fileOf'))
    BY <2>7
  <2>12. StateOf(file', file.origin, owner, last, default)
    <3> HIDE DEF owner, last, default, final
    <3>1. QED  BY <2>5, <1>7
  <2> HIDE DEF owner, named, lasting, ofSoa, least, ttl, last, default, final, new
  <2>13. TakesRecord(line, owner, last, least, default, ttl)
    BY <1>7, <2>6, <2>7, <2>11, <2>12 DEF TakesRecord
  <2>14. QED
    BY <2>10, <2>13, RecordTaken
<1>8. QED  BY <1>4, <1>5, <1>6, <1>7

LEMMA GenerateKeeps ==
  ASSUME ReaderInv, reading = "lines", NEW line \in FileLines, fileOf' = Append(fileOf, line),
         line.kind = "$GENERATE", GenerateLine(line), UNCHANGED callersOrigin
  PROVE  ReaderInv'
<1> DEFINE owner(i)  == GenerateOwner(line.name[1], i, file.origin)
           inside(i) == IsInside(owner(i), zoneOrigin[1])
           names     == {owner(i) : i \in {k \in {"1", "2"} : inside("1") /\ inside(k)}}
           lasting   == IF line.ttl = Unknown THEN file ELSE [file EXCEPT !.lastTtl = line.ttl]
           ttl       == FirstKnown(<<line.ttl, file.defaultTtl, file.lastTtl>>)
           last      == IF line.ttl = Unknown THEN file.lastTtl ELSE line.ttl
           number    == IF inside("1") THEN "2" ELSE "1"
           final     == [lasting EXCEPT !.lastName = <<owner(number)>>]
           new       == RecordsAdded(names, ttl, line.type, Len(fileOf'))
<1>1. Len(fileOf) \in Nat
  BY LenProperties DEF ReaderInv
<1>2. SameRecords(added, added, Len(fileOf) + 1)
  BY DEF SameRecords
<1>3. Entered(line, added, zoneOrigin)
  BY <1>2, LineEnters
<1>4. \/ \E why \in {"UnknownOrigin", "AttributeError", "SyntaxError", "ValueError", "CNAMEAndOtherData"} : ReadFails(why)
      \/ /\ zoneOrigin # << >> /\ ttl # Unknown
         /\ file' = final
         /\ AddRecords(names, ttl, line.type)
  BY DEF GenerateLine
<1>5. CASE \E why \in {"UnknownOrigin", "AttributeError", "SyntaxError", "ValueError", "CNAMEAndOtherData"} : ReadFails(why)
  BY <1>3, <1>5, LineFails
<1>6. CASE /\ zoneOrigin # << >> /\ ttl # Unknown
           /\ file' = final
           /\ AddRecords(names, ttl, line.type)
  <2>1. file = [origin |-> file.origin, lastName |-> file.lastName, lastTtl |-> file.lastTtl, defaultTtl |-> file.defaultTtl]
    BY <1>3 DEF Entered, HoldsAt
  <2>2. lasting = [origin |-> file.origin, lastName |-> file.lastName, lastTtl |-> last, defaultTtl |-> file.defaultTtl]
    BY <2>1, StateChanges
  <2>3. StateOf(final, file.origin, <<owner(number)>>, last, file.defaultTtl)
    <3> HIDE DEF owner, lasting, last, number
    <3>1. QED  BY <2>2 DEF StateOf
  <2>4. /\ number \in {"1", "2"}
        /\ number = "1" => ~inside("1")
    OBVIOUS
  <2>5. \A n \in names : IsInside(n, zoneOrigin[1]) /\ \E i \in {"1", "2"} : n = owner(i)
    <3> HIDE DEF owner
    <3>1. QED  OBVIOUS
  <2>6. added' = added \cup new /\ UNCHANGED <<reading, zoneOrigin, savedState, openFiles>>
    <3> HIDE DEF names, ttl
    <3>1. QED  BY <1>6 DEF AddRecords, RecordsAdded
  <2>7. Len(fileOf') = Len(fileOf) + 1
    BY <1>3 DEF Entered
  <2>8. SameRecords(added', added, Len(fileOf) + 1)
    <3>1. \A r \in new : r.line = Len(fileOf) + 1
      <4> HIDE DEF names, ttl
      <4>1. QED  BY <2>7 DEF RecordsAdded
    <3>2. Len(fileOf) + 1 \in Nat
      BY <1>1
    <3> HIDE DEF new
    <3>3. QED  BY <3>1, <3>2, <2>6, SameRecordsIf
  <2>9. Entered(line, added', zoneOrigin)
    BY <2>8, LineEnters
  <2>10. /\ number = "1" => ~IsInside(GenerateOwner(line.name[1], "1", file.origin), zoneOrigin[1])
         /\ \A n \in names : /\ IsInside(n, zoneOrigin[1])
                             /\ \E i \in {"1", "2"} : n = GenerateOwner(line.name[1], i, file.origin)
    <3> HIDE DEF names, number
    <3>1. QED  BY <2>4, <2>5
  <2>11. /\ ttl = FirstKnown(<<line.ttl, file.defaultTtl, file.lastTtl>>)
         /\ added' = added \cup RecordsAdded(names, ttl, line.type, Len(fileOf'))
    BY <2>6
  <2>12. StateOf(file', file.origin, <<GenerateOwner(line.name[1], number, file.origin)>>,
                 IF line.ttl = Unknown THEN file.lastTtl ELSE line.ttl, file.defaultTtl)
    <3> HIDE DEF number, final
    <3>1. QED  BY <2>3, <1>6
  <2> HIDE DEF owner, inside, names, lasting, ttl, last, number, final, new
  <2>13. QED
    BY <1>6, <2>4, <2>6, <2>9, <2>10, <2>11, <2>12, GenerateTaken
<1>7. QED  BY <1>4, <1>5, <1>6

LEMMA ReaderStep == ASSUME ReaderInv, [ReaderNext]_readerVars PROVE ReaderInv'
<1>1. CASE FromText
  BY <1>1, FromTextKeeps
<1>2. CASE ReadLine
  <2>1. PICK line \in FileLines :
          /\ reading = "lines" /\ fileOf' = Append(fileOf, line) /\ UNCHANGED callersOrigin
          /\ CASE line.kind = "record"    -> RrLine(line)
               [] line.kind = "$GENERATE" -> GenerateLine(line)
               [] line.kind = "$ORIGIN"   -> OriginLine(line)
               [] line.kind = "$INCLUDE"  -> IncludeLine(line)
               [] line.kind = "$TTL"      ->
                    /\ file' = [file EXCEPT !.defaultTtl = line.ttl]
                    /\ UNCHANGED <<reading, zoneOrigin, savedState, openFiles, rdatasets, added>>
               [] line.kind = "end"       -> FileEnds
               [] line.kind = "malformed" -> ReadFails("SyntaxError")
    BY <1>2 DEF ReadLine
  <2>2. line.kind \in {"record", "$TTL", "$ORIGIN", "$INCLUDE", "$GENERATE", "end", "malformed"}
    BY ReaderAssumption
  <2>3. SameRecords(added, added, Len(fileOf) + 1)
    BY DEF SameRecords
  <2>4. Entered(line, added, zoneOrigin)
    BY <2>1, <2>3, LineEnters
  <2>5. CASE line.kind = "record"
    BY <2>1, <2>5, RrLineKeeps
  <2>6. CASE line.kind = "$GENERATE"
    BY <2>1, <2>6, GenerateKeeps
  <2>7. CASE line.kind = "$ORIGIN"
    <3>1. OriginLine(line)
      BY <2>1, <2>7
    <3>2. /\ file' = [file EXCEPT !.origin = line.name]
          /\ UNCHANGED <<callersOrigin, reading, savedState, openFiles, added>>
          /\ zoneOrigin = << >> \/ zoneOrigin' = zoneOrigin
      BY <2>1, <3>1 DEF OriginLine
    <3>3. Entered(line, added, zoneOrigin')
      BY <2>1, <2>3, <3>2, LineEnters
    <3>4. QED  BY <2>1, <2>7, <3>2, <3>3, DirectiveRead
  <2>8. CASE line.kind = "$INCLUDE"
    BY <2>1, <2>4, <2>8, IncludeRead
  <2>9. CASE line.kind = "$TTL"
    <3>1. /\ file' = [file EXCEPT !.defaultTtl = line.ttl]
          /\ UNCHANGED <<callersOrigin, reading, savedState, openFiles, added>> /\ zoneOrigin' = zoneOrigin
      BY <2>1, <2>9
    <3>2. Entered(line, added, zoneOrigin')
      BY <2>4, <3>1
    <3>3. QED  BY <2>1, <2>9, <3>1, <3>2, DirectiveRead
  <2>10. CASE line.kind = "end"
    BY <2>1, <2>4, <2>10, FileEndKeeps
  <2>11. CASE line.kind = "malformed"
    BY <2>1, <2>4, <2>11, LineFails
  <2>12. QED  BY <2>2, <2>5, <2>6, <2>7, <2>8, <2>9, <2>10, <2>11
<1>3. CASE UNCHANGED readerVars
  BY <1>3 DEF ReaderInv, ReadingOn, readerVars
<1>4. QED  BY <1>1, <1>2, <1>3 DEF ReaderNext

\* What the transaction has of a name and a type is what it was given: of a
\* singleton the last record, of others all, with the lowest TTL.
SameRdataset(a, r) == a.name = r.name /\ a.type = r.type
JoinedRight(r) ==
    /\ r = [name |-> r.name, ttl |-> r.ttl, type |-> r.type, line |-> r.line] /\ r.ttl \in Nat
    /\ \E a \in added : SameRdataset(a, r) /\ a.line = r.line
    /\ \E a \in added : SameRdataset(a, r) /\ a.ttl = r.ttl
    /\ \A a \in added : SameRdataset(a, r) => r.ttl <= a.ttl /\ (r.type \in Singletons => a.line <= r.line)
GivenRight(a) ==
    /\ a.ttl \in Nat /\ a.line \in Nat /\ a.line <= Len(fileOf)
    /\ \E r \in rdatasets : SameRdataset(a, r) /\ (a.type \in Singletons \/ r.line = a.line)
    /\ a.type = "SOA" => zoneOrigin # << >> /\ a.name = zoneOrigin[1]
JoinedInv == (\A r \in rdatasets : JoinedRight(r)) /\ (\A a \in added : GivenRight(a))

LEMMA NothingJoins ==
  ASSUME JoinedInv, UNCHANGED <<rdatasets, added>>, Len(fileOf) \in Nat, Len(fileOf') \in Nat,
         Len(fileOf) <= Len(fileOf'), zoneOrigin = << >> \/ zoneOrigin' = zoneOrigin
  PROVE  JoinedInv'
<1>1. ASSUME NEW r \in rdatasets PROVE JoinedRight(r)'
  BY DEF JoinedInv, JoinedRight
<1>2. ASSUME NEW a \in added PROVE GivenRight(a)'
  <2>1. GivenRight(a)
    BY DEF JoinedInv
  <2>2. QED  BY <2>1 DEF GivenRight
<1>3. QED  BY <1>1, <1>2 DEF JoinedInv

\* The TTL of the rdataset that a record joins.
LEMMA LowestFacts ==
  ASSUME JoinedInv, NEW n, NEW type, NEW ttl \in Nat
  PROVE  LET low == LowestTtl(n, type, ttl)
         IN  /\ low \in Nat /\ low <= ttl
             /\ \A r \in RdatasetOf(n, type) : low <= r.ttl
             /\ low = ttl \/ \E r \in RdatasetOf(n, type) : r.ttl = low
<1> DEFINE S == {ttl} \cup {r.ttl : r \in RdatasetOf(n, type)}
<1>1. S \in SUBSET Nat /\ S # {}
  BY DEF JoinedInv, JoinedRight, RdatasetOf
<1>2. Min(S) \in S /\ \A y \in S : Min(S) <= y
  <2> HIDE DEF S
  <2>1. QED  BY <1>1, MinFacts
<1>3. QED  BY <1>1, <1>2 DEF LowestTtl

LEMMA TtlChanges ==
  ASSUME NEW q, q = [name |-> q.name, ttl |-> q.ttl, type |-> q.type, line |-> q.line], NEW low
  PROVE  LET r == [q EXCEPT !.ttl = low]
         IN  /\ r = [name |-> r.name, ttl |-> r.ttl, type |-> r.type, line |-> r.line]
             /\ r.name = q.name /\ r.type = q.type /\ r.line = q.line /\ r.ttl = low
  OBVIOUS

LEMMA RecordsJoin ==
  ASSUME JoinedInv, NEW names, NEW ttl, NEW type, AddRecords(names, ttl, type),
         Len(fileOf) \in Nat, Len(fileOf') = Len(fileOf) + 1, names # {} => ttl \in Nat,
         type = "SOA" => zoneOrigin # << >> /\ \A n \in names : n = zoneOrigin[1]
  PROVE  JoinedInv'
<1> DEFINE p == Len(fileOf')
           new == {[name |-> n, ttl |-> ttl, type |-> type, line |-> p] : n \in names}
           others == {r \in rdatasets : r.name \notin names \/ r.type # type}
           joined == new \cup (IF type \in Singletons THEN {} ELSE rdatasets \ others)
           Low(n) == LowestTtl(n, type, ttl)
           Joins(q) == [q EXCEPT !.ttl = Low(q.name)]
<1>1. /\ added' = added \cup new /\ rdatasets' = others \cup {Joins(q) : q \in joined}
      /\ zoneOrigin' = zoneOrigin
  BY DEF AddRecords
<1>2. p \in Nat /\ Len(fileOf) < p
  OBVIOUS
<1>3. ASSUME NEW n \in names
      PROVE  /\ Low(n) \in Nat /\ Low(n) <= ttl /\ ttl \in Nat
             /\ \A r \in rdatasets : r.name = n /\ r.type = type => Low(n) <= r.ttl
             /\ Low(n) = ttl \/ \E r \in rdatasets : r.name = n /\ r.type = type /\ r.ttl = Low(n)
  BY <1>3, LowestFacts DEF RdatasetOf
<1> HIDE DEF p, Low
<1>4. ASSUME NEW n \in names
      PROVE  \E a \in new : a.name = n /\ a.type = type /\ a.ttl = ttl /\ a.line = p
  <2> DEFINE a == [name |-> n, ttl |-> ttl, type |-> type, line |-> p]
  <2>1. a \in new
    OBVIOUS
  <2>2. a.name = n /\ a.type = type /\ a.ttl = ttl /\ a.line = p
    OBVIOUS
  <2> HIDE DEF a, new
  <2>3. QED  BY <2>1, <2>2
<1>5. ASSUME NEW a \in new
      PROVE  /\ a.name \in names /\ a.type = type /\ a.ttl = ttl /\ a.line = p
             /\ a = [name |-> a.name, ttl |-> a.ttl, type |-> a.type, line |-> a.line]
  OBVIOUS
<1>6. ASSUME NEW q \in joined
      PROVE  /\ q.name \in names /\ q.type = type
             /\ q = [name |-> q.name, ttl |-> q.ttl, type |-> q.type, line |-> q.line]
             /\ q \in new \/ (q \in rdatasets /\ type \notin Singletons)
  <2> HIDE DEF new
  <2>1. CASE q \in new
    BY <1>5, <2>1
  <2>2. CASE q \notin new
    <3>1. q \in rdatasets \ others /\ type \notin Singletons
      BY <2>2
    <3>2. JoinedRight(q)
      BY <3>1 DEF JoinedInv
    <3>3. QED  BY <3>1, <3>2 DEF JoinedRight
  <2>3. QED  BY <2>1, <2>2
<1>7. ASSUME NEW q \in joined
      PROVE  LET r == Joins(q)
             IN  /\ r = [name |-> r.name, ttl |-> r.ttl, type |-> r.type, line |-> r.line]
                 /\ r.name = q.name /\ r.type = type /\ r.line = q.line /\ r.ttl = Low(q.name)
  <2>1. q = [name |-> q.name, ttl |-> q.ttl, type |-> q.type, line |-> q.line] /\ q.type = type
    BY <1>6
  <2> DEFINE low == Low(q.name)
  <2> HIDE DEF low, joined
  <2>2. LET r == [q EXCEPT !.ttl = low]
        IN  /\ r = [name |-> r.name, ttl |-> r.ttl, type |-> r.type, line |-> r.line]
            /\ r.name = q.name /\ r.type = q.type /\ r.line = q.line /\ r.ttl = low
    BY <2>1, TtlChanges
  <2>3. QED  BY <2>1, <2>2 DEF low
<1>8. ASSUME NEW r \in rdatasets, r \notin others
      PROVE  r.name \in names /\ r.type = type /\ (type \notin Singletons => r \in joined)
  <2>1. r.name \in names /\ r.type = type
    BY <1>8
  <2>2. type \notin Singletons => r \in joined
    <3> HIDE DEF new, others
    <3>1. QED  BY <1>8
  <2>3. QED  BY <2>1, <2>2
<1>9. others \subseteq rdatasets /\ \A r \in others : r.name \notin names \/ r.type # type
  OBVIOUS
<1>10. new \subseteq joined
  OBVIOUS
<1> HIDE DEF new, others, joined, Joins
<1>11. ASSUME NEW a \in added
       PROVE  /\ GivenRight(a)
              /\ \E r \in rdatasets : SameRdataset(a, r) /\ JoinedRight(r) /\ (a.type \in Singletons \/ r.line = a.line)
  BY DEF JoinedInv, GivenRight
<1>12. ASSUME NEW r \in others PROVE JoinedRight(r)'
  <2>1. r \in rdatasets /\ JoinedRight(r) /\ (r.name \notin names \/ r.type # type)
    BY <1>9 DEF JoinedInv
  <2>2. \A a \in new : ~SameRdataset(a, r)
    BY <1>5, <2>1 DEF SameRdataset
  <2>3. QED  BY <1>1, <2>1, <2>2 DEF JoinedRight
<1>13. ASSUME NEW q \in joined, NEW r, r = Joins(q) PROVE JoinedRight(r)'
  <2> DEFINE n == q.name
  <2>1. /\ n \in names /\ q.type = type
        /\ q \in new \/ (q \in rdatasets /\ type \notin Singletons)
        /\ r = [name |-> r.name, ttl |-> r.ttl, type |-> r.type, line |-> r.line]
        /\ r.name = n /\ r.type = type /\ r.line = q.line /\ r.ttl = Low(n)
    BY <1>6, <1>7, <1>13
  <2> HIDE DEF n
  <2>2. /\ Low(n) \in Nat /\ Low(n) <= ttl /\ ttl \in Nat
        /\ \A x \in rdatasets : x.name = n /\ x.type = type => Low(n) <= x.ttl
        /\ Low(n) = ttl \/ \E x \in rdatasets : x.name = n /\ x.type = type /\ x.ttl = Low(n)
    BY <1>3, <2>1
  <2>3. PICK b \in new : b.name = n /\ b.type = type /\ b.ttl = ttl /\ b.line = p
    BY <1>4, <2>1
  <2>4. \E a \in added' : SameRdataset(a, r) /\ a.line = r.line
    <3>1. CASE q \in new
      BY <1>1, <2>1, <3>1 DEF SameRdataset, n
    <3>2. CASE q \notin new
      <4>1. JoinedRight(q)
        BY <2>1, <3>2 DEF JoinedInv
      <4>2. PICK a \in added : SameRdataset(a, q) /\ a.line = q.line
        BY <4>1 DEF JoinedRight
      <4>3. QED  BY <1>1, <2>1, <4>2 DEF SameRdataset, n
    <3>3. QED  BY <3>1, <3>2
  <2>5. \E a \in added' : SameRdataset(a, r) /\ a.ttl = r.ttl
    <3>1. CASE Low(n) = ttl
      BY <1>1, <2>1, <2>3, <3>1 DEF SameRdataset
    <3>2. CASE Low(n) # ttl
      <4>1. PICK x \in rdatasets : x.name = n /\ x.type = type /\ x.ttl = Low(n)
        BY <2>2, <3>2
      <4>2. PICK a \in added : SameRdataset(a, x) /\ a.ttl = x.ttl
        BY <4>1 DEF JoinedInv, JoinedRight
      <4>3. QED  BY <1>1, <2>1, <4>1, <4>2 DEF SameRdataset
    <3>3. QED  BY <3>1, <3>2
  <2>6. ASSUME NEW a \in added', SameRdataset(a, r)
        PROVE  r.ttl <= a.ttl /\ (r.type \in Singletons => a.line <= r.line)
    <3>1. r.type \in Singletons => r.line = p
      BY <1>5, <2>1
    <3>2. CASE a \in new
      <4>1. a.ttl = ttl /\ a.line = p
        BY <1>5, <3>2
      <4>2. QED  BY <1>2, <2>1, <2>2, <3>1, <4>1
    <3>3. CASE a \notin new
      <4>1. a \in added
        BY <1>1, <3>3
      <4>2. PICK x \in rdatasets : SameRdataset(a, x) /\ JoinedRight(x)
        BY <1>11, <4>1
      <4>3. x.ttl \in Nat /\ x.ttl <= a.ttl /\ Low(n) <= x.ttl
        BY <2>1, <2>2, <2>6, <4>1, <4>2 DEF JoinedRight, SameRdataset
      <4>4. a.ttl \in Nat /\ a.line \in Nat /\ a.line <= Len(fileOf)
        BY <1>11, <4>1 DEF GivenRight
      <4>5. QED  BY <1>2, <2>1, <2>2, <3>1, <4>3, <4>4
    <3>4. QED  BY <3>2, <3>3
  <2>7. QED  BY <2>1, <2>2, <2>4, <2>5, <2>6 DEF JoinedRight
<1>14. ASSUME NEW r \in rdatasets' PROVE JoinedRight(r)'
  <2>1. r \in others \/ \E q \in joined : r = Joins(q)
    BY <1>1
  <2>2. QED  BY <1>12, <1>13, <2>1
<1>15. ASSUME NEW a \in added PROVE GivenRight(a)'
  <2>1. GivenRight(a)
    BY <1>11
  <2>2. PICK r \in rdatasets : SameRdataset(a, r) /\ (a.type \in Singletons \/ r.line = a.line)
    BY <1>11
  <2>3. \E x \in rdatasets' : SameRdataset(a, x) /\ (a.type \in Singletons \/ x.line = a.line)
    <3>1. CASE r \in others
      BY <1>1, <2>2, <3>1
    <3>2. CASE r \notin others /\ type \notin Singletons
      <4>1. r \in joined
        BY <1>8, <3>2
      <4>2. Joins(r) \in rdatasets' /\ Joins(r).name = r.name /\ Joins(r).type = type /\ Joins(r).line = r.line
        BY <1>1, <1>7, <4>1
      <4>3. r.type = type
        BY <1>8, <3>2
      <4>4. QED  BY <2>2, <4>2, <4>3 DEF SameRdataset
    <3>3. CASE r \notin others /\ type \in Singletons
      <4>1. r.name \in names /\ r.type = type
        BY <1>8, <3>3
      <4>2. PICK b \in new : b.name = r.name /\ b.type = type
        BY <1>4, <4>1
      <4>3. Joins(b) \in rdatasets' /\ Joins(b).name = b.name /\ Joins(b).type = type
        BY <1>1, <1>7, <1>10, <4>2
      <4>4. QED  BY <2>2, <3>3, <4>1, <4>2, <4>3 DEF SameRdataset
    <3>4. QED  BY <3>1, <3>2, <3>3
  <2>4. QED  BY <1>1, <1>2, <2>1, <2>3 DEF GivenRight, p
<1>16. ASSUME NEW a \in new PROVE GivenRight(a)'
  <2>1. a.name \in names /\ a.type = type /\ a.ttl = ttl /\ a.line = p /\ ttl \in Nat
    BY <1>3, <1>5
  <2>2. Joins(a) \in rdatasets' /\ Joins(a).name = a.name /\ Joins(a).type = type /\ Joins(a).line = a.line
    BY <1>1, <1>7, <1>10
  <2>3. QED  BY <1>1, <1>2, <2>1, <2>2 DEF GivenRight, SameRdataset, p
<1>17. QED  BY <1>1, <1>14, <1>15, <1>16 DEF JoinedInv

\* The TTLs that the lines give are numbers.
LEMMA TtlIsNumber ==
  ASSUME NEW h \in Seq(FileLines), NEW R, NEW first, NEW apex, NEW r, RecordRight(r, h, R, first, apex)
  PROVE  r.ttl \in Nat
<1> DEFINE i == r.line
           t == Latest(TtlDirectives(h, i))
           s == Latest(TtlsTaken(h, R, i))
<1>1. i \in 1..Len(h) /\ r.ttl = TtlAt(h, R, i) /\ Len(h) \in Nat
  BY LenProperties DEF RecordRight
<1>2. i \in Nat \ {0} /\ \A k \in 1..i : h[k] \in FileLines
  <2>1. \A k \in 1..i : k \in 1..Len(h)
    BY <1>1
  <2>2. QED  BY <1>1, <2>1, ElementOfSeq
<1> HIDE DEF i
<1>3. /\ t # 0 => t \in TtlDirectives(h, i) /\ t \in 1..i
      /\ s # 0 => s \in TtlsTaken(h, R, i) /\ s \in 1..i
  <2>1. TtlDirectives(h, i) \in SUBSET (1..(i - 1)) /\ TtlsTaken(h, R, i) \in SUBSET (1..(i - 1))
    BY <1>2, EarlierBounds
  <2>2. /\ t # 0 => t \in TtlDirectives(h, i) /\ t \in 1..(i - 1)
        /\ s # 0 => s \in TtlsTaken(h, R, i) /\ s \in 1..(i - 1)
    BY <1>2, <2>1, LatestEarlier
  <2>3. 1..(i - 1) \subseteq 1..i
    BY <1>2
  <2> HIDE DEF t, s
  <2>4. QED  BY <2>2, <2>3
<1> HIDE DEF t, s
<1>4. /\ t # 0 => h[t].kind = "$TTL" /\ h[t] \in FileLines
      /\ s # 0 => h[s].ttl # Unknown /\ h[s] \in FileLines
  BY <1>2, <1>3 DEF TtlDirectives, TtlsTaken
<1>5. \A l \in FileLines : l.ttl \in Nat \cup {Unknown} /\ (l.kind = "$TTL" => l.ttl # Unknown)
  BY ReaderAssumption
<1>6. Minimum \in Nat /\ (h[i].ttl # Unknown => h[i].ttl \in Nat)
  BY <1>2, <1>5, ReaderAssumption
<1>7. (t # 0 => h[t].ttl \in Nat) /\ (s # 0 => h[s].ttl \in Nat)
  BY <1>4, <1>5
<1>8. TtlAt(h, R, i) \in Nat
  BY <1>6, <1>7 DEF TtlAt, t, s
<1>9. QED  BY <1>1, <1>8

\* Records are given to the transaction with TTLs that are numbers, an SOA record
\* with the name of the origin.
LEMMA RecordsGiven ==
  ASSUME JoinedInv, ReaderInv', Len(fileOf) \in Nat, Len(fileOf') = Len(fileOf) + 1,
         NEW names, NEW ttl, NEW type, AddRecords(names, ttl, type),
         type = "SOA" => zoneOrigin # << >> /\ \A n \in names : n = zoneOrigin[1]
  PROVE  JoinedInv'
<1>1. ASSUME NEW n \in names PROVE ttl \in Nat
  <2> DEFINE a == [name |-> n, ttl |-> ttl, type |-> type, line |-> Len(fileOf')]
  <2>1. a \in added' /\ a.ttl = ttl
    BY DEF AddRecords
  <2> HIDE DEF a
  <2>2. fileOf' \in Seq(FileLines) /\ RecordRight(a, fileOf', added', callersOrigin', zoneOrigin')
    BY <2>1 DEF ReaderInv
  <2>3. a.ttl \in Nat
    BY <2>2, TtlIsNumber
  <2>4. QED  BY <2>1, <2>3
<1>2. QED  BY <1>1, RecordsJoin

AddsRecords(line) ==
    \E names, ttl : /\ AddRecords(names, ttl, line.type)
                    /\ line.type = "SOA" => zoneOrigin # << >> /\ \A n \in names : n = zoneOrigin[1]

LEMMA LineJoins ==
  ASSUME JoinedInv, ReaderInv', Len(fileOf) \in Nat, Len(fileOf') = Len(fileOf) + 1,
         NEW line \in FileLines, RrLine(line) \/ (line.kind = "$GENERATE" /\ GenerateLine(line))
  PROVE  JoinedInv'
<1>1. CASE UNCHANGED <<rdatasets, added>> /\ zoneOrigin' = zoneOrigin
  BY <1>1, NothingJoins
<1>2. ASSUME RrLine(line), ~(UNCHANGED <<rdatasets, added>> /\ zoneOrigin' = zoneOrigin)
      PROVE  AddsRecords(line)
  <2> DEFINE owner == IF line.name = << >> THEN file.lastName ELSE <<AsName(line.name[1], file.origin)>>
  <2>1. /\ zoneOrigin # << >> /\ \E ttl : AddRecords({owner[1]}, ttl, line.type)
        /\ line.type = "SOA" => owner = zoneOrigin
    BY <1>2 DEF RrLine, ReadFails
  <2> HIDE DEF owner
  <2>2. QED  BY <2>1 DEF AddsRecords
<1>3. ASSUME line.kind = "$GENERATE", GenerateLine(line), ~(UNCHANGED <<rdatasets, added>> /\ zoneOrigin' = zoneOrigin)
      PROVE  AddsRecords(line)
  <2>1. \E names, ttl : AddRecords(names, ttl, line.type)
    BY <1>3 DEF GenerateLine, ReadFails
  <2>2. line.type # "SOA"
    BY <1>3, ReaderAssumption
  <2>3. QED  BY <2>1, <2>2 DEF AddsRecords
<1>4. ASSUME ~(UNCHANGED <<rdatasets, added>> /\ zoneOrigin' = zoneOrigin) PROVE JoinedInv'
  <2>1. PICK names, ttl : /\ AddRecords(names, ttl, line.type)
                          /\ line.type = "SOA" => zoneOrigin # << >> /\ \A n \in names : n = zoneOrigin[1]
    <3>1. AddsRecords(line)
      BY <1>2, <1>3, <1>4
    <3>2. QED  BY <3>1 DEF AddsRecords
  <2> DEFINE type == line.type
  <2>2. /\ AddRecords(names, ttl, type)
        /\ type = "SOA" => zoneOrigin # << >> /\ \A n \in names : n = zoneOrigin[1]
    BY <2>1
  <2> HIDE DEF type
  <2>3. QED  BY <2>2, RecordsGiven
<1>5. QED  BY <1>1, <1>4

LEMMA JoinedStarts == ReaderInit => JoinedInv
  BY DEF ReaderInit, JoinedInv

LEMMA JoinedStep == ASSUME ReaderInv, JoinedInv, ReaderInv', [ReaderNext]_readerVars PROVE JoinedInv'
<1>1. fileOf \in Seq(FileLines) /\ Len(fileOf) \in Nat
  BY LenProperties DEF ReaderInv
<1>2. CASE FromText
  <2>1. added = {} /\ UNCHANGED <<rdatasets, added, fileOf>>
    BY <1>2 DEF FromText, ReaderInv
  <2>2. rdatasets = {}
    BY <2>1 DEF JoinedInv, JoinedRight
  <2>3. QED  BY <2>1, <2>2 DEF JoinedInv
<1>3. CASE ReadLine
  <2>1. PICK line \in FileLines :
          /\ fileOf' = Append(fileOf, line)
          /\ CASE line.kind = "record"    -> RrLine(line)
               [] line.kind = "$GENERATE" -> GenerateLine(line)
               [] line.kind = "$ORIGIN"   -> OriginLine(line)
               [] line.kind = "$INCLUDE"  -> IncludeLine(line)
               [] line.kind = "$TTL"      ->
                    /\ file' = [file EXCEPT !.defaultTtl = line.ttl]
                    /\ UNCHANGED <<reading, zoneOrigin, savedState, openFiles, rdatasets, added>>
               [] line.kind = "end"       -> FileEnds
               [] line.kind = "malformed" -> ReadFails("SyntaxError")
    BY <1>3 DEF ReadLine
  <2>2. line.kind \in {"record", "$TTL", "$ORIGIN", "$INCLUDE", "$GENERATE", "end", "malformed"}
    BY ReaderAssumption
  <2>3. Len(fileOf') = Len(fileOf) + 1
    BY <1>1, <2>1, AppendProperties
  <2>4. CASE line.kind \in {"record", "$GENERATE"}
    <3>1. RrLine(line) \/ (line.kind = "$GENERATE" /\ GenerateLine(line))
      BY <2>1, <2>4
    <3>2. QED  BY <1>1, <2>3, <3>1, LineJoins
  <2>5. CASE line.kind \notin {"record", "$GENERATE"}
    <3>1. CASE line.kind = "$ORIGIN"
      <4>1. OriginLine(line)
        BY <2>1, <3>1
      <4>2. UNCHANGED <<rdatasets, added>> /\ (zoneOrigin = << >> \/ zoneOrigin' = zoneOrigin)
        BY <4>1 DEF OriginLine
      <4>3. QED  BY <1>1, <2>3, <4>2, NothingJoins
    <3>2. CASE line.kind # "$ORIGIN"
      <4>1. UNCHANGED <<rdatasets, added>> /\ zoneOrigin' = zoneOrigin
        BY <2>1, <2>2, <2>5, <3>2 DEF IncludeLine, FileEnds, ReadFails
      <4>2. QED  BY <1>1, <2>3, <4>1, NothingJoins
    <3>3. QED  BY <3>1, <3>2
  <2>6. QED  BY <2>4, <2>5
<1>4. CASE UNCHANGED readerVars
  BY <1>4, <1>1, NothingJoins DEF readerVars
<1>5. QED  BY <1>2, <1>3, <1>4 DEF ReaderNext

LEMMA LeastIs ==
  ASSUME NEW S \in SUBSET Nat, NEW m \in S, \A y \in S : m <= y
  PROVE  Min(S) = m
<1>1. S # {} /\ m \in Nat
  OBVIOUS
<1> DEFINE g == Min(S)
<1>2. g \in S /\ \A y \in S : g <= y
  BY <1>1, MinFacts
<1> HIDE DEF g
<1>3. g \in Nat /\ g <= m /\ m <= g
  BY <1>2
<1>4. QED  BY <1>1, <1>3 DEF g

LEMMA ReaderMeans == ASSUME ReaderInv, JoinedInv PROVE ZoneReadRight
<1>1. ASSUME NEW a \in added
      PROVE  /\ a.ttl = TtlAt(fileOf, added, a.line)
             /\ a.name \in OwnersAt(fileOf, callersOrigin, a.line)
             /\ IsInside(a.name, zoneOrigin[1])
             /\ a.type = "SOA" => a.name = zoneOrigin[1]
             /\ \E r \in RdatasetOf(a.name, a.type) : a.type \in Singletons \/ r.line = a.line
  <2>1. RecordRight(a, fileOf, added, callersOrigin, zoneOrigin) /\ GivenRight(a)
    BY DEF ReaderInv, JoinedInv
  <2>2. \E r \in RdatasetOf(a.name, a.type) : a.type \in Singletons \/ r.line = a.line
    BY <2>1 DEF GivenRight, SameRdataset, RdatasetOf
  <2>3. QED  BY <2>1, <2>2 DEF RecordRight, GivenRight
<1>2. ASSUME NEW r \in rdatasets
      PROVE  LET given == {a \in added : a.name = r.name /\ a.type = r.type}
             IN  /\ r.line \in {a.line : a \in given} /\ r.ttl = Min({a.ttl : a \in given})
                 /\ r.type \in Singletons => r.line = Max({a.line : a \in given})
  <2> DEFINE given == {a \in added : a.name = r.name /\ a.type = r.type}
             ttls == {a.ttl : a \in given}
             lines == {a.line : a \in given}
  <2>1. JoinedRight(r) /\ \A a \in given : a \in added /\ GivenRight(a) /\ SameRdataset(a, r)
    BY DEF JoinedInv, SameRdataset
  <2>2. ttls \in SUBSET Nat /\ lines \in SUBSET Nat
    BY <2>1 DEF GivenRight
  <2>3. r.line \in lines /\ r.ttl \in ttls
    BY <2>1 DEF JoinedRight, SameRdataset
  <2>4. (\A y \in ttls : r.ttl <= y) /\ (r.type \in Singletons => \A y \in lines : y <= r.line)
    BY <2>1 DEF JoinedRight
  <2> HIDE DEF ttls, lines
  <2>5. r.ttl = Min(ttls) /\ (r.type \in Singletons => r.line = Max(lines))
    BY <2>2, <2>3, <2>4, LeastIs, MaxIs
  <2>6. QED  BY <2>3, <2>5 DEF ttls, lines
<1>3. (reading = "lines" => openFiles = Len(savedState)) /\ (reading = "read" => openFiles = 0)
  BY DEF ReaderInv, ReadingOn
<1>4. QED  BY <1>1, <1>2, <1>3 DEF ZoneReadRight

\* dns.zonefile.Reader: every record that the transaction is given has the owner
\* and the TTL which the lines that hold for it give it, whatever lines the files
\* have and however deep one includes another; only records of the zone are taken,
\* an SOA at its origin, and each rdataset has the lowest TTL of its records.
THEOREM ZonesAreReadRight == ReaderSpec => []ZoneReadRight
<1>1. ReaderInit => ReaderInv /\ JoinedInv
  BY ReaderStarts, JoinedStarts
<1>2. ReaderInv /\ JoinedInv /\ [ReaderNext]_readerVars => ReaderInv' /\ JoinedInv'
  BY ReaderStep, JoinedStep
<1>3. ReaderInv /\ JoinedInv => ZoneReadRight
  BY ReaderMeans
<1>4. QED  BY <1>1, <1>2, <1>3, PTL DEF ReaderSpec

-----------------------------------------------------------------------------
(* ZoneVersions.  The versions are consecutive, hold every one that is read *)
(* and the newest; nodes of an earlier version are never written; and what  *)
(* the nodes hold is a zone.                                                *)

VersionRecords == [id : 1..LastVersion, nodes : [Owners -> 0..LastVersion]]
WorkRecords == [nodes : [Owners -> 0..LastVersion], changed : SUBSET Owners]
Consecutive(vs) == \A i \in 1..Len(vs) : vs[i].id = vs[1].id + (i - 1)
Ids(vs) == {v.id : v \in ToSet(vs)}

\* What pruning leaves: the newest version, all that are read, and no gap.
WellPruned(r, vs, pins) ==
    /\ r \in Seq(VersionRecords) /\ Len(r) > 0 /\ Consecutive(r)
    /\ r[Len(r)] = vs[Len(vs)]
    /\ ToSet(r) \subseteq ToSet(vs) /\ pins \subseteq Ids(r)

LEMMA PrunedFacts ==
  ASSUME NEW vs \in Seq(VersionRecords), Len(vs) > 0, Consecutive(vs),
         NEW pins, pins \subseteq Ids(vs), NEW most
  PROVE  WellPruned(Pruned(vs, pins, most), vs, pins)
<1>1. Len(vs) \in Nat \ {0} /\ DOMAIN vs = 1..Len(vs)
  BY LenProperties
<1>2. \A i \in 1..Len(vs) : vs[i] \in VersionRecords /\ vs[i].id \in Nat
  <2>1. \A i \in 1..Len(vs) : vs[i] \in VersionRecords
    BY <1>1, ElementOfSeq
  <2>2. QED  BY <2>1, ZoneAssumption DEF VersionRecords
<1> DEFINE K == {vs[Len(vs)].id} \cup pins
           least == Min(K)
           D == {i \in DOMAIN vs : vs[i].id >= least \/ Len(vs) - i + 1 <= most}
           m == Min(D)
<1>3. K \in SUBSET Nat /\ K # {}
  BY <1>1, <1>2 DEF Ids, ToSet
<1>4. least \in K /\ \A y \in K : least <= y
  BY <1>3, MinFacts
<1>5. \A i \in 1..Len(vs) : vs[i].id \in K => i \in D
  BY <1>1, <1>2, <1>3, <1>4
<1>6. D \in SUBSET Nat /\ D # {} /\ D \subseteq 1..Len(vs)
  <2>1. vs[Len(vs)].id \in K /\ Len(vs) \in 1..Len(vs)
    BY <1>1
  <2>2. Len(vs) \in D
    BY <1>5, <2>1
  <2>3. D \subseteq DOMAIN vs
    OBVIOUS
  <2> HIDE DEF D
  <2>4. QED  BY <1>1, <2>2, <2>3
<1>7. m \in D /\ \A y \in D : m <= y
  BY <1>6, MinFacts
<1> DEFINE r == SubSeq(vs, m, Len(vs))
<1>8. Pruned(vs, pins, most) = r
  BY DEF Pruned
<1> HIDE DEF K, least, D, m
<1>9. m \in 1..Len(vs) /\ m \in Nat \ {0} /\ m <= Len(vs) + 1 /\ Len(vs) <= Len(vs)
  BY <1>1, <1>6, <1>7
<1>10. /\ r \in Seq(VersionRecords) /\ Len(r) = Len(vs) - m + 1 /\ DOMAIN r = 1..(Len(vs) - m + 1)
       /\ \A i \in 1..(Len(vs) - m + 1) : r[i] = vs[m + i - 1]
  BY <1>1, <1>9, SubSeqFacts
<1> HIDE DEF r
<1>11. ASSUME NEW i \in m..Len(vs) PROVE i - m + 1 \in 1..Len(r) /\ r[i - m + 1] = vs[i]
  <2>1. i - m + 1 \in 1..(Len(vs) - m + 1) /\ m + (i - m + 1) - 1 = i
    BY <1>1, <1>9
  <2>2. QED  BY <1>10, <2>1
<1>12. Len(r) > 0 /\ Len(r) \in Nat
  BY <1>1, <1>9, <1>10
<1>13. Consecutive(r)
  <2>1. ASSUME NEW i \in 1..Len(r) PROVE r[i].id = r[1].id + (i - 1)
    <3>1. i \in 1..(Len(vs) - m + 1) /\ 1 \in 1..(Len(vs) - m + 1)
      BY <1>1, <1>9, <1>10
    <3>2. r[i] = vs[m + i - 1] /\ r[1] = vs[m + 1 - 1]
      BY <1>10, <3>1
    <3>3. m + i - 1 \in 1..Len(vs) /\ m + 1 - 1 = m
      BY <1>1, <1>9, <3>1
    <3>4. vs[m + i - 1].id = vs[1].id + ((m + i - 1) - 1) /\ vs[m].id = vs[1].id + (m - 1)
      BY <1>9, <3>3 DEF Consecutive
    <3>5. vs[1].id \in Nat
      BY <1>1, <1>2
    <3>6. vs[1].id + ((m + i - 1) - 1) = vs[1].id + (m - 1) + (i - 1)
      <4> DEFINE first == vs[1].id
      <4>1. m \in Nat /\ i \in Nat /\ first \in Nat
        BY <1>1, <1>9, <3>1, <3>5
      <4> HIDE DEF first
      <4>2. first + ((m + i - 1) - 1) = first + (m - 1) + (i - 1)
        BY <4>1
      <4>3. QED  BY <4>2 DEF first
    <3>7. r[i].id = vs[1].id + ((m + i - 1) - 1)
      BY <3>2, <3>4
    <3>8. r[1].id = vs[1].id + (m - 1)
      BY <3>2, <3>3, <3>4
    <3>9. QED  BY <3>6, <3>7, <3>8
  <2>2. QED  BY <2>1 DEF Consecutive
<1>14. r[Len(r)] = vs[Len(vs)]
  <2>1. Len(vs) \in m..Len(vs) /\ Len(vs) - m + 1 = Len(r)
    BY <1>1, <1>9, <1>10
  <2>2. QED  BY <1>11, <2>1
<1>15. ToSet(r) \subseteq ToSet(vs)
  <2>1. ASSUME NEW i \in 1..(Len(vs) - m + 1) PROVE r[i] \in ToSet(vs)
    <3>1. m + i - 1 \in 1..Len(vs)
      BY <1>1, <1>9
    <3>2. QED  BY <1>1, <1>10, <3>1 DEF ToSet
  <2>2. QED  BY <1>10, <2>1 DEF ToSet
<1>16. pins \subseteq Ids(r)
  <2>1. ASSUME NEW p \in pins PROVE p \in Ids(r)
    <3>1. PICK k \in 1..Len(vs) : vs[k].id = p
      BY <1>1 DEF Ids, ToSet
    <3>2. k \in D
      BY <1>5, <3>1 DEF K
    <3>3. k \in m..Len(vs)
      BY <1>7, <1>9, <3>1, <3>2
    <3>4. r[k - m + 1] = vs[k] /\ k - m + 1 \in DOMAIN r
      BY <1>10, <1>11, <3>3
    <3>5. QED  BY <3>1, <3>4 DEF Ids, ToSet
  <2>2. QED  BY <2>1
<1>17. QED  BY <1>8, <1>10, <1>12, <1>13, <1>14, <1>15, <1>16 DEF WellPruned

\* The records of an owner's node: no CNAME beside other data, one record of a
\* type that has but one, and an SOA at the origin only.
Mixable(o, R) ==
    /\ \A r, s \in R : {Kind(r.type), Kind(s.type)} # {"cname", "regular"}
    /\ \A r, s \in R : Singleton(r.type) /\ s.type = r.type => r = s
    /\ \A r \in R : r.type = "SOA" => o = Origin

NodesOk(nodes, newest) ==
    \A o \in Owners :
      /\ nodes[o] <= newest
      /\ nodes[o] # 0 => nodeRecords[nodes[o]][o] # {} /\ Mixable(o, nodeRecords[nodes[o]][o])

ZoneInv ==
    /\ versions \in Seq(VersionRecords) /\ Len(versions) > 0 /\ Consecutive(versions)
    /\ readVersion \in [Threads -> Nat] /\ Pins(readVersion) \subseteq Ids(versions)
    /\ DOMAIN nodeRecords = 1..LastVersion
    /\ \A i \in 1..LastVersion : DOMAIN nodeRecords[i] = Owners
    /\ \A v \in ToSet(versions) : NodesOk(v.nodes, v.id)
    /\ work \in WorkRecords /\ NodesOk(work.nodes, WorkId)
    /\ work.changed # {} => WorkId <= LastVersion

\* The one who may write is the one who has the write transaction.
OneWriter ==
    /\ DOMAIN doing = Threads
    /\ \A t \in Threads : doing[t] \in {"setting_up", "writing"} => writeTxn = t

LEMMA NewestFacts ==
  ASSUME ZoneInv
  PROVE  /\ Len(versions) \in Nat \ {0} /\ DOMAIN versions = 1..Len(versions)
         /\ Newest \in VersionRecords /\ Newest \in ToSet(versions)
         /\ WorkId = Newest.id + 1 /\ Newest.id \in Nat /\ WorkId \in Nat \ {0}
         /\ \A v \in ToSet(versions) : v \in VersionRecords /\ v.id <= Newest.id
<1>1. versions \in Seq(VersionRecords) /\ Len(versions) > 0 /\ Consecutive(versions)
  BY DEF ZoneInv
<1>2. Len(versions) \in Nat \ {0} /\ DOMAIN versions = 1..Len(versions)
  BY <1>1, LenProperties
<1>3. \A i \in 1..Len(versions) : versions[i] \in VersionRecords
  BY <1>1, <1>2, ElementOfSeq
<1>4. \A v \in VersionRecords : v.id \in Nat
  BY ZoneAssumption DEF VersionRecords
<1>5. Newest \in VersionRecords /\ Newest \in ToSet(versions)
  BY <1>2, <1>3 DEF Newest, ToSet
<1>6. ASSUME NEW v \in ToSet(versions) PROVE v \in VersionRecords /\ v.id <= Newest.id
  <2>1. PICK i \in 1..Len(versions) : v = versions[i]
    BY <1>2 DEF ToSet
  <2>2. versions[i].id = versions[1].id + (i - 1) /\ Newest.id = versions[1].id + (Len(versions) - 1)
    BY <1>1, <1>2 DEF Consecutive, Newest
  <2>3. versions[1].id \in Nat
    BY <1>2, <1>3, <1>4
  <2>4. QED  BY <1>2, <1>3, <2>1, <2>2, <2>3
<1>7. QED  BY <1>2, <1>4, <1>5, <1>6 DEF WorkId

LEMMA ZoneStarts == ZoneInit => ZoneInv /\ OneWriter
<1> SUFFICES ASSUME ZoneInit PROVE ZoneInv /\ OneWriter
  OBVIOUS
<1> DEFINE first == [id |-> 1, nodes |-> NoNodes]
<1>1. first \in VersionRecords /\ NoNodes \in [Owners -> 0..LastVersion] /\ NoWork \in WorkRecords
  BY ZoneAssumption DEF VersionRecords, WorkRecords, NoNodes, NoWork
<1>2. versions = <<first>> /\ work = NoWork
  BY DEF ZoneInit
<1>3. versions \in Seq(VersionRecords) /\ Len(versions) = 1 /\ versions[1] = first /\ DOMAIN versions = 1..1
  BY <1>1, <1>2
<1>4. Consecutive(versions) /\ ToSet(versions) = {first}
  BY <1>3 DEF Consecutive, ToSet
<1>5. WorkId = 2
  BY <1>3 DEF WorkId, Newest
<1>6. NodesOk(first.nodes, first.id) /\ NodesOk(work.nodes, WorkId)
  BY <1>2, <1>5 DEF NodesOk, NoNodes, NoWork
<1>7. readVersion \in [Threads -> Nat] /\ Pins(readVersion) = {}
  BY DEF ZoneInit, Pins
<1>8. DOMAIN nodeRecords = 1..LastVersion /\ \A i \in 1..LastVersion : DOMAIN nodeRecords[i] = Owners
  BY DEF ZoneInit
<1>9. work.changed = {}
  BY <1>2 DEF NoWork
<1>10. ZoneInv
  BY <1>1, <1>2, <1>3, <1>4, <1>6, <1>7, <1>8, <1>9 DEF ZoneInv
<1>11. OneWriter
  BY DEF ZoneInit, OneWriter
<1>12. QED  BY <1>10, <1>11

-----------------------------------------------------------------------------
(* What an operation of a transaction does to the version being written. *)

LEMMA MixableParts ==
  ASSUME NEW o, NEW R, Mixable(o, R), NEW Q \in SUBSET R PROVE Mixable(o, Q)
  BY DEF Mixable

LEMMA RecordsMixable == ASSUME ZoneInv, NEW o \in Owners PROVE Mixable(o, RecordsAt(work.nodes, o))
<1>1. CASE work.nodes[o] = 0
  BY <1>1 DEF RecordsAt, Mixable
<1>2. CASE work.nodes[o] # 0
  BY <1>2 DEF ZoneInv, NodesOk, RecordsAt
<1>3. QED  BY <1>1, <1>2

Rewritten(o) == \E R : R # {} /\ Mixable(o, R) /\ MaybeCow(o, R)

LEMMA PutRewrites ==
  ASSUME ZoneInv, NEW o \in Owners, NEW type, NEW rdataset, rdataset # {},
         \A r \in rdataset : r.type = type,
         Singleton(type) => \A r, s \in rdataset : r = s,
         type = "SOA" => o = Origin,
         PutRdataset(o, type, rdataset)
  PROVE  Rewritten(o)
<1> DEFINE others == {r \in RecordsAt(work.nodes, o) \ Existing(o, type) :
                        {Kind(r.type), Kind(type)} # {"cname", "regular"}}
<1>1. Mixable(o, others)
  BY RecordsMixable, MixableParts
<1>2. \A r \in others : r.type # type
  BY DEF Existing, OfType
<1>3. \A r \in others : {Kind(r.type), Kind(type)} # {"cname", "regular"}
  OBVIOUS
<1>4. MaybeCow(o, others \cup rdataset)
  BY DEF PutRdataset
<1> HIDE DEF others
<1>5. {Kind(type), Kind(type)} # {"cname", "regular"}
  OBVIOUS
<1>6. ASSUME NEW r \in others \cup rdataset, NEW s \in others \cup rdataset
      PROVE  {Kind(r.type), Kind(s.type)} # {"cname", "regular"}
  <2>1. CASE r \in others /\ s \in others
    BY <1>1, <2>1 DEF Mixable
  <2>2. CASE r \in others /\ s \in rdataset
    BY <1>3, <2>2
  <2>3. CASE r \in rdataset /\ s \in others
    <3>1. {Kind(s.type), Kind(type)} # {"cname", "regular"} /\ r.type = type
      BY <1>3, <2>3
    <3>2. QED  BY <3>1
  <2>4. CASE r \in rdataset /\ s \in rdataset
    BY <1>5, <2>4
  <2>5. QED  BY <2>1, <2>2, <2>3, <2>4
<1>7. \A r, s \in others \cup rdataset : Singleton(r.type) /\ s.type = r.type => r = s
  BY <1>1, <1>2 DEF Mixable
<1>8. \A r \in others \cup rdataset : r.type = "SOA" => o = Origin
  BY <1>1 DEF Mixable
<1>9. Mixable(o, others \cup rdataset)
  BY <1>6, <1>7, <1>8 DEF Mixable
<1>10. QED  BY <1>4, <1>9 DEF Rewritten

LEMMA DeleteRewrites ==
  ASSUME ZoneInv, NEW o \in Owners, NEW type, DeleteRdataset(o, type)
  PROVE  Rewritten(o) \/ DeleteNode(o)
<1> DEFINE others == RecordsAt(work.nodes, o) \ Existing(o, type)
<1>1. Mixable(o, others)
  BY RecordsMixable, MixableParts
<1>2. others = {} => DeleteNode(o)
  BY DEF DeleteRdataset
<1>3. others # {} => MaybeCow(o, others)
  BY DEF DeleteRdataset
<1> HIDE DEF others
<1>4. QED  BY <1>1, <1>2, <1>3 DEF Rewritten

LEMMA RdatasetFacts ==
  ASSUME NEW type, NEW d
  PROVE  /\ Rdataset(type, {d}) # {}
         /\ \A r \in Rdataset(type, {d}) : r.type = type
         /\ \A r, s \in Rdataset(type, {d}) : r = s
<1> DEFINE x == [type |-> type, data |-> d]
<1>1. Rdataset(type, {d}) = {x}
  BY DEF Rdataset
<1>2. x.type = type
  OBVIOUS
<1> HIDE DEF x
<1>3. QED  BY <1>1, <1>2

LEMMA OperationRewrites ==
  ASSUME ZoneInv, TxnOperation PROVE \E o \in Owners : Rewritten(o) \/ DeleteNode(o)
<1>1. ASSUME NEW v, UpdateSerial(v) PROVE Rewritten(Origin)
  <2>1. PICK d : PutRdataset(Origin, "SOA", Rdataset("SOA", {d}))
    BY <1>1 DEF UpdateSerial
  <2> DEFINE rds == Rdataset("SOA", {d})
  <2>2. rds # {} /\ (\A r \in rds : r.type = "SOA") /\ \A r, s \in rds : r = s
    BY RdatasetFacts
  <2> HIDE DEF rds
  <2>3. PutRdataset(Origin, "SOA", rds)
    BY <2>1 DEF rds
  <2>4. QED  BY <2>2, <2>3, PutRewrites, ZoneAssumption
<1>2. ASSUME NEW o \in Owners, NEW exact, TxnDeleteName(o, exact) PROVE DeleteNode(o)
  BY <1>2 DEF TxnDeleteName
<1>3. ASSUME NEW o \in Owners, NEW type, TxnDeleteType(o, type) PROVE Rewritten(o) \/ DeleteNode(o)
  BY <1>3, DeleteRewrites DEF TxnDeleteType
<1>4. ASSUME NEW o \in Owners, NEW type, NEW d, NEW flag, TxnAdd(o, type, Rdataset(type, {d}), flag)
      PROVE  Rewritten(o)
  <2> DEFINE rds == IF flag \/ Singleton(type) THEN Rdataset(type, {d})
                    ELSE Existing(o, type) \cup Rdataset(type, {d})
  <2>1. PutRdataset(o, type, rds) /\ (type = "SOA" => o = Origin)
    BY <1>4 DEF TxnAdd
  <2>2. \A r \in Existing(o, type) : r.type = type
    BY DEF Existing, OfType
  <2>3. rds # {} /\ (\A r \in rds : r.type = type) /\ (Singleton(type) => \A r, s \in rds : r = s)
    <3> DEFINE new == Rdataset(type, {d})
    <3>1. new # {} /\ (\A r \in new : r.type = type) /\ \A r, s \in new : r = s
      BY RdatasetFacts
    <3> HIDE DEF new
    <3>2. rds = IF flag \/ Singleton(type) THEN new ELSE Existing(o, type) \cup new
      BY DEF new
    <3> HIDE DEF rds
    <3>3. QED  BY <2>2, <3>1, <3>2
  <2> HIDE DEF rds
  <2>4. QED  BY <2>1, <2>3, PutRewrites
<1>5. ASSUME NEW o \in Owners, NEW type, NEW gone, NEW exact, TxnDelete(o, type, gone, exact)
      PROVE  Rewritten(o) \/ DeleteNode(o)
  <2> DEFINE left == Existing(o, type) \ gone
  <2>1. CASE left = {}
    <3>1. DeleteRdataset(o, type)
      BY <1>5, <2>1 DEF TxnDelete
    <3>2. QED  BY <3>1, DeleteRewrites
  <2>2. CASE left # {}
    <3>1. PutRdataset(o, type, left)
      BY <1>5, <2>2 DEF TxnDelete
    <3>2. left \subseteq RecordsAt(work.nodes, o) /\ \A r \in left : r.type = type
      BY DEF Existing, OfType
    <3> HIDE DEF left
    <3>3. Mixable(o, left)
      BY <3>2, RecordsMixable, MixableParts
    <3>4. (Singleton(type) => \A r, s \in left : r = s) /\ (type = "SOA" => o = Origin)
      BY <2>2, <3>2, <3>3 DEF Mixable
    <3>5. QED  BY <2>2, <3>1, <3>2, <3>4, PutRewrites
  <2>3. QED  BY <2>1, <2>2
<1>6. QED
  BY <1>1, <1>2, <1>3, <1>4, <1>5, ZoneAssumption DEF TxnOperation

\* Only nodes of the version being written are written.
LEMMA ChangeKeeps ==
  ASSUME ZoneInv, NEW t \in Threads, Change(t)
  PROVE  ZoneInv' /\ \A v \in ToSet(versions) : Contents(v) = Contents(v)'
<1>1. /\ WorkId \in 1..LastVersion /\ UNCHANGED <<versions, readVersion>>
      /\ \A v \in ToSet(versions) : v \in VersionRecords /\ v.id < WorkId
      /\ UNCHANGED WorkId
  <2>1. WorkId <= LastVersion /\ UNCHANGED <<versions, readVersion>>
    BY DEF Change
  <2>2. \A v \in ToSet(versions) : v.id \in Nat
    BY NewestFacts, ZoneAssumption DEF VersionRecords
  <2>3. QED  BY <2>1, <2>2, NewestFacts, ZoneAssumption DEF WorkId, Newest
<1>2. PICK o \in Owners : Rewritten(o) \/ DeleteNode(o)
  BY OperationRewrites DEF Change
<1>3. /\ work \in WorkRecords /\ NodesOk(work.nodes, WorkId)
      /\ DOMAIN nodeRecords = 1..LastVersion
      /\ \A i \in 1..LastVersion : DOMAIN nodeRecords[i] = Owners
      /\ \A v \in ToSet(versions) : NodesOk(v.nodes, v.id)
  BY DEF ZoneInv
<1>4. CASE DeleteNode(o)
  <2>1. work' \in WorkRecords /\ UNCHANGED nodeRecords
    BY <1>3, <1>4, ZoneAssumption DEF DeleteNode, WorkRecords
  <2>2. \A p \in Owners : work'.nodes[p] \in {0, work.nodes[p]}
    BY <1>3, <1>4 DEF DeleteNode, WorkRecords
  <2>3. NodesOk(work.nodes, WorkId)'
    BY <1>1, <1>3, <2>1, <2>2 DEF NodesOk
  <2>4. (\A v \in ToSet(versions) : NodesOk(v.nodes, v.id))'
    BY <1>1, <1>3, <2>1 DEF NodesOk
  <2>5. ZoneInv'
    BY <1>1, <1>3, <2>1, <2>3, <2>4 DEF ZoneInv, Pins
  <2>6. QED  BY <2>1, <2>5 DEF Contents, RecordsAt
<1>5. CASE Rewritten(o)
  <2>1. PICK R : R # {} /\ Mixable(o, R) /\ MaybeCow(o, R)
    BY <1>5 DEF Rewritten
  <2>2. /\ nodeRecords' = [nodeRecords EXCEPT ![WorkId][o] = R]
        /\ work' = [nodes |-> [work.nodes EXCEPT ![o] = WorkId], changed |-> work.changed \cup {o}]
    BY <2>1 DEF MaybeCow
  <2>3. /\ DOMAIN nodeRecords' = 1..LastVersion
        /\ \A i \in 1..LastVersion : DOMAIN nodeRecords'[i] = Owners
    BY <1>1, <1>3, <2>2
  <2>4. /\ nodeRecords'[WorkId][o] = R
        /\ \A i \in 1..LastVersion, p \in Owners :
             i # WorkId \/ p # o => nodeRecords'[i][p] = nodeRecords[i][p]
    BY <1>1, <1>3, <2>2
  <2>5. work' \in WorkRecords
    BY <1>1, <1>3, <2>2, ZoneAssumption DEF WorkRecords
  <2>6. \A p \in Owners : work'.nodes[p] = IF p = o THEN WorkId ELSE work.nodes[p]
    BY <1>3, <2>2 DEF WorkRecords
  <2>7. \A p \in Owners : work.nodes[p] \in 0..LastVersion
    BY <1>3 DEF WorkRecords
  <2>8. NodesOk(work.nodes, WorkId)'
    <3>1. ASSUME NEW p \in Owners
          PROVE  /\ work'.nodes[p] <= WorkId
                 /\ work'.nodes[p] # 0 => nodeRecords'[work'.nodes[p]][p] # {}
                                          /\ Mixable(p, nodeRecords'[work'.nodes[p]][p])
      <4>1. CASE p = o
        BY <1>1, <2>1, <2>4, <2>6, <4>1
      <4>2. CASE p # o
        <5>1. work'.nodes[p] = work.nodes[p]
          BY <2>6, <4>2
        <5>2. work.nodes[p] # 0 => nodeRecords'[work.nodes[p]][p] = nodeRecords[work.nodes[p]][p]
          BY <2>4, <2>7, <4>2, ZoneAssumption
        <5>3. QED  BY <1>3, <5>1, <5>2 DEF NodesOk
      <4>3. QED  BY <4>1, <4>2
    <3>2. QED  BY <1>1, <3>1 DEF NodesOk
  <2>9. ASSUME NEW v \in ToSet(versions), NEW p \in Owners, v.nodes[p] # 0
        PROVE  nodeRecords'[v.nodes[p]][p] = nodeRecords[v.nodes[p]][p]
    <3>1. v.nodes[p] \in 0..LastVersion /\ v.id \in Nat /\ v.nodes[p] <= v.id
      BY <1>1, <1>3, ZoneAssumption DEF NodesOk, VersionRecords
    <3>2. v.nodes[p] \in 1..LastVersion /\ v.nodes[p] # WorkId
      BY <1>1, <2>9, <3>1, ZoneAssumption
    <3>3. QED  BY <2>4, <3>2
  <2>10. (\A v \in ToSet(versions) : NodesOk(v.nodes, v.id))'
    <3>1. ASSUME NEW v \in ToSet(versions), NEW p \in Owners
          PROVE  /\ v.nodes[p] <= v.id
                 /\ v.nodes[p] # 0 => nodeRecords'[v.nodes[p]][p] # {}
                                      /\ Mixable(p, nodeRecords'[v.nodes[p]][p])
      BY <1>3, <2>9 DEF NodesOk
    <3>2. QED  BY <1>1, <3>1 DEF NodesOk
  <2>11. ZoneInv'
    BY <1>1, <1>3, <2>3, <2>5, <2>8, <2>10 DEF ZoneInv, Pins
  <2>12. \A v \in ToSet(versions) : Contents(v) = Contents(v)'
    <3>1. ASSUME NEW v \in ToSet(versions), NEW p \in Owners
          PROVE  RecordsAt(v.nodes, p) = RecordsAt(v.nodes, p)'
      BY <2>9 DEF RecordsAt
    <3>2. QED  BY <3>1 DEF Contents
  <2>13. QED  BY <2>11, <2>12
<1>6. QED  BY <1>2, <1>4, <1>5

-----------------------------------------------------------------------------
(* The steps of threads. *)

\* Versions that are pruned in a step keep the invariant, given the rest.
LEMMA PruneKeeps ==
  ASSUME ZoneInv, WellPruned(versions', versions, Pins(readVersion')),
         readVersion' \in [Threads -> Nat],
         UNCHANGED <<nodeRecords, work>>
  PROVE  ZoneInv'
<1>1. /\ versions' \in Seq(VersionRecords) /\ Len(versions') > 0 /\ Consecutive(versions')
      /\ Newest' = Newest /\ ToSet(versions') \subseteq ToSet(versions)
      /\ Pins(readVersion') \subseteq Ids(versions')
  BY DEF WellPruned, Newest
<1>2. WorkId' = WorkId
  BY <1>1 DEF WorkId
<1>3. (\A v \in ToSet(versions) : NodesOk(v.nodes, v.id))' /\ NodesOk(work.nodes, WorkId)'
  <2>1. \A nodes, newest : NodesOk(nodes, newest)' <=> NodesOk(nodes, newest)
    BY DEF NodesOk
  <2>2. \A v \in ToSet(versions) : NodesOk(v.nodes, v.id)
    BY DEF ZoneInv
  <2>3. \A v \in ToSet(versions') : NodesOk(v.nodes, v.id)
    BY <1>1, <2>2
  <2>4. (\A v \in ToSet(versions) : NodesOk(v.nodes, v.id))'
    BY <2>3 DEF NodesOk
  <2>5. QED  BY <1>2, <2>4 DEF ZoneInv, NodesOk
<1>4. QED  BY <1>1, <1>2, <1>3 DEF ZoneInv, Pins

LEMMA ReadersKeep ==
  ASSUME ZoneInv, (\E t \in Threads : Reader(t) \/ EndRead(t)) \/ \E n \in MaxVersions : SetMaxVersions(n)
  PROVE  ZoneInv' /\ UNCHANGED nodeRecords
<1>1. /\ versions \in Seq(VersionRecords) /\ Len(versions) > 0 /\ Consecutive(versions)
      /\ readVersion \in [Threads -> Nat] /\ Pins(readVersion) \subseteq Ids(versions)
  BY DEF ZoneInv
<1>2. ASSUME NEW t \in Threads, Reader(t) PROVE ZoneInv' /\ UNCHANGED nodeRecords
  <2>1. PICK v \in ToSet(versions) : readVersion' = [readVersion EXCEPT ![t] = v.id]
    BY <1>2 DEF Reader
  <2>2. v.id \in Nat
    BY NewestFacts, ZoneAssumption DEF VersionRecords
  <2>3. readVersion' \in [Threads -> Nat] /\ Pins(readVersion') \subseteq Pins(readVersion) \cup {v.id}
    BY <1>1, <2>1, <2>2 DEF Pins
  <2>4. WellPruned(versions, versions, Pins(readVersion'))
    BY <1>1, <2>3 DEF WellPruned, Ids
  <2>5. UNCHANGED <<versions, nodeRecords, work>>
    BY <1>2 DEF Reader
  <2>6. QED  BY <2>3, <2>4, <2>5, PruneKeeps
<1>3. ASSUME NEW t \in Threads, EndRead(t) PROVE ZoneInv' /\ UNCHANGED nodeRecords
  <2>1. readVersion' = [readVersion EXCEPT ![t] = 0] /\ UNCHANGED <<nodeRecords, work>>
        /\ versions' = Pruned(versions, Pins(readVersion'), maxVersions)
    BY <1>3 DEF EndRead
  <2>2. readVersion' \in [Threads -> Nat] /\ Pins(readVersion') \subseteq Pins(readVersion)
    BY <1>1, <2>1 DEF Pins
  <2>3. QED  BY <1>1, <2>1, <2>2, PrunedFacts, PruneKeeps
<1>4. CASE \E n \in MaxVersions : SetMaxVersions(n)
  <2>1. PICK n \in MaxVersions : SetMaxVersions(n)
    BY <1>4
  <2>2. versions' = Pruned(versions, Pins(readVersion), n) /\ UNCHANGED <<readVersion, nodeRecords, work>>
    BY <2>1 DEF SetMaxVersions
  <2>3. QED  BY <1>1, <2>2, PrunedFacts, PruneKeeps
<1>5. QED  BY <1>2, <1>3, <1>4

\* No work, and a fresh copy of the newest version, are always in order.
LEMMA WorkBegins ==
  ASSUME ZoneInv, UNCHANGED <<versions, readVersion, nodeRecords>>,
         NEW nodes, nodes = NoNodes \/ nodes = Newest.nodes,
         work' = [nodes |-> nodes, changed |-> {}]
  PROVE  ZoneInv'
<1>1. NoNodes \in [Owners -> 0..LastVersion] /\ Newest.nodes \in [Owners -> 0..LastVersion]
  BY NewestFacts, ZoneAssumption DEF NoNodes, VersionRecords
<1>2. work' \in WorkRecords /\ work'.nodes = nodes /\ work'.changed = {}
  BY <1>1 DEF WorkRecords
<1>3. WorkId' = WorkId /\ WorkId = Newest.id + 1 /\ Newest.id \in Nat
  BY NewestFacts DEF WorkId, Newest
<1>4. NodesOk(NoNodes, WorkId)
  BY <1>3 DEF NodesOk, NoNodes
<1>5. NodesOk(Newest.nodes, WorkId)
  <2>1. NodesOk(Newest.nodes, Newest.id)
    BY NewestFacts DEF ZoneInv
  <2>2. \A o \in Owners : Newest.nodes[o] \in Nat
    BY <1>1, ZoneAssumption
  <2>3. QED  BY <1>3, <2>1, <2>2 DEF NodesOk
<1>6. NodesOk(nodes, WorkId)
  BY <1>4, <1>5
<1>7. NodesOk(work.nodes, WorkId)'
  BY <1>2, <1>3, <1>6 DEF NodesOk
<1>8. (\A v \in ToSet(versions) : NodesOk(v.nodes, v.id))'
  BY DEF ZoneInv, NodesOk
<1>9. QED  BY <1>2, <1>7, <1>8 DEF ZoneInv, Pins

LEMMA AppendFacts ==
  ASSUME ZoneInv, work.changed # {}
  PROVE  LET vs == Append(versions, [id |-> WorkId, nodes |-> work.nodes])
         IN  /\ vs \in Seq(VersionRecords) /\ Len(vs) > 0 /\ Consecutive(vs)
             /\ vs[Len(vs)] = [id |-> WorkId, nodes |-> work.nodes]
             /\ ToSet(vs) = ToSet(versions) \cup {[id |-> WorkId, nodes |-> work.nodes]}
             /\ Ids(versions) \subseteq Ids(vs)
<1> DEFINE new == [id |-> WorkId, nodes |-> work.nodes]
           vs == Append(versions, new)
<1>1. versions \in Seq(VersionRecords) /\ Consecutive(versions) /\ Len(versions) \in Nat \ {0}
      /\ DOMAIN versions = 1..Len(versions)
  BY NewestFacts DEF ZoneInv
<1>2. new \in VersionRecords /\ new.id = WorkId
  <2>1. WorkId \in 1..LastVersion /\ work.nodes \in [Owners -> 0..LastVersion]
    BY NewestFacts, ZoneAssumption DEF ZoneInv, WorkRecords
  <2>2. QED  BY <2>1 DEF VersionRecords
<1> HIDE DEF new
<1>3. /\ vs \in Seq(VersionRecords) /\ Len(vs) = Len(versions) + 1
      /\ \A i \in 1..Len(versions) : vs[i] = versions[i]
      /\ vs[Len(versions) + 1] = new
  BY <1>1, <1>2, AppendProperties
<1>4. DOMAIN vs = 1..(Len(versions) + 1)
  BY <1>3, LenProperties
<1> HIDE DEF vs
<1>5. Consecutive(vs)
  <2>1. versions[1].id \in Nat /\ 1 \in 1..Len(versions) /\ Len(versions) \in 1..Len(versions)
    <3>1. 1 \in 1..Len(versions) /\ Len(versions) \in 1..Len(versions)
      BY <1>1
    <3>2. versions[1] \in VersionRecords
      BY <1>1, <3>1, ElementOfSeq
    <3>3. QED  BY <3>1, <3>2, ZoneAssumption DEF VersionRecords
  <2>2. WorkId = versions[1].id + (Len(versions) + 1 - 1)
    <3>1. Newest.id = versions[1].id + (Len(versions) - 1)
      BY <1>1, <2>1 DEF Consecutive, Newest
    <3>2. QED  BY <1>1, <2>1, <3>1 DEF WorkId
  <2>3. ASSUME NEW i \in 1..(Len(versions) + 1) PROVE vs[i].id = vs[1].id + (i - 1)
    <3>1. CASE i \in 1..Len(versions)
      BY <1>1, <1>3, <2>1, <3>1 DEF Consecutive
    <3>2. CASE i = Len(versions) + 1
      BY <1>2, <1>3, <2>1, <2>2, <3>2
    <3>3. QED  BY <1>1, <3>1, <3>2
  <2>4. QED  BY <1>3, <2>3 DEF Consecutive
<1>6. ToSet(vs) = ToSet(versions) \cup {new}
  <2>1. \A i \in 1..(Len(versions) + 1) : i \in 1..Len(versions) \/ i = Len(versions) + 1
    BY <1>1
  <2>2. \A i \in 1..Len(versions) : i \in 1..(Len(versions) + 1)
    BY <1>1
  <2>3. Len(versions) + 1 \in 1..(Len(versions) + 1)
    BY <1>1
  <2>4. QED  BY <1>1, <1>3, <1>4, <2>1, <2>2, <2>3 DEF ToSet
<1>7. Ids(versions) \subseteq Ids(vs)
  BY <1>6 DEF Ids
<1>8. Len(vs) > 0 /\ vs[Len(vs)] = new
  BY <1>1, <1>3
<1>9. QED  BY <1>3, <1>5, <1>6, <1>7, <1>8 DEF vs, new

LEMMA CommitKeeps ==
  ASSUME ZoneInv, NEW t \in Threads, Commit(t) PROVE ZoneInv' /\ UNCHANGED nodeRecords
<1>1. /\ UNCHANGED <<nodeRecords, readVersion>> /\ work' = [nodes |-> NoNodes, changed |-> {}]
      /\ work.changed = {} => UNCHANGED versions
      /\ work.changed # {} =>
           versions' = Pruned(Append(versions, [id |-> WorkId, nodes |-> work.nodes]), Pins(readVersion), maxVersions)
  BY DEF Commit, NoWork
<1>2. CASE work.changed = {}
  BY <1>1, <1>2, WorkBegins
<1>3. CASE work.changed # {}
  <2> DEFINE new == [id |-> WorkId, nodes |-> work.nodes]
             vs == Append(versions, new)
  <2>1. /\ vs \in Seq(VersionRecords) /\ Len(vs) > 0 /\ Consecutive(vs) /\ vs[Len(vs)] = new
        /\ ToSet(vs) = ToSet(versions) \cup {new} /\ Ids(versions) \subseteq Ids(vs)
    BY <1>3, AppendFacts
  <2>2. versions' = Pruned(vs, Pins(readVersion), maxVersions)
    BY <1>1, <1>3
  <2>3. new.id = WorkId /\ new.nodes = work.nodes
    OBVIOUS
  <2> HIDE DEF new, vs
  <2>4. Pins(readVersion) \subseteq Ids(vs) /\ readVersion \in [Threads -> Nat]
    BY <2>1 DEF ZoneInv
  <2>5. WellPruned(versions', vs, Pins(readVersion))
    BY <2>1, <2>2, <2>4, PrunedFacts
  <2>6. /\ versions' \in Seq(VersionRecords) /\ Len(versions') > 0 /\ Consecutive(versions')
        /\ Newest' = new /\ ToSet(versions') \subseteq ToSet(versions) \cup {new}
        /\ Pins(readVersion) \subseteq Ids(versions')
    BY <2>1, <2>5 DEF WellPruned, Newest
  <2>7. \A v \in ToSet(versions') : NodesOk(v.nodes, v.id)
    <3>1. NodesOk(new.nodes, new.id)
      BY <2>3 DEF ZoneInv
    <3>2. QED  BY <2>6, <3>1 DEF ZoneInv
  <2>8. (\A v \in ToSet(versions) : NodesOk(v.nodes, v.id))'
    BY <1>1, <2>7 DEF NodesOk
  <2>9. WorkId' = WorkId + 1 /\ WorkId \in Nat
    BY <2>3, <2>6, NewestFacts DEF WorkId
  <2>10. work' \in WorkRecords /\ work'.changed = {} /\ NodesOk(work.nodes, WorkId)'
    <3>1. work'.nodes = NoNodes /\ work'.changed = {} /\ NoNodes \in [Owners -> 0..LastVersion]
      BY <1>1, ZoneAssumption DEF NoNodes
    <3>2. \A o \in Owners : NoNodes[o] = 0
      BY DEF NoNodes
    <3>3. QED  BY <1>1, <2>9, <3>1, <3>2 DEF NodesOk, WorkRecords
  <2>11. Pins(readVersion)' \subseteq Ids(versions)' /\ readVersion' \in [Threads -> Nat]
    BY <1>1, <2>4, <2>6 DEF Pins
  <2>12. QED
    BY <1>1, <2>6, <2>8, <2>10, <2>11 DEF ZoneInv
<1>4. QED  BY <1>1, <1>2, <1>3

LEMMA ZoneStep ==
  ASSUME ZoneInv, [ZoneNext]_zoneVars
  PROVE  ZoneInv' /\ \A v \in ToSet(versions) : Contents(v) = Contents(v)'
<1>1. UNCHANGED nodeRecords => \A v \in ToSet(versions) : Contents(v) = Contents(v)'
  BY DEF Contents, RecordsAt
<1>2. CASE UNCHANGED zoneVars \/ \E t \in Threads : Writer(t)
  <2>1. UNCHANGED <<versions, nodeRecords, readVersion, work>>
    BY <1>2 DEF zoneVars, Writer
  <2>2. WellPruned(versions', versions, Pins(readVersion')) /\ readVersion' \in [Threads -> Nat]
    BY <2>1 DEF ZoneInv, WellPruned, Pins
  <2>3. QED  BY <1>1, <2>1, <2>2, PruneKeeps
<1>3. ASSUME NEW t \in Threads, SetupVersion(t)
      PROVE  ZoneInv' /\ \A v \in ToSet(versions) : Contents(v) = Contents(v)'
  <2>1. UNCHANGED <<versions, nodeRecords, readVersion>>
    BY <1>3 DEF SetupVersion
  <2>2. PICK nodes \in {NoNodes, Newest.nodes} : work' = [nodes |-> nodes, changed |-> {}]
    BY <1>3 DEF SetupVersion
  <2>3. QED  BY <1>1, <2>1, <2>2, WorkBegins
<1>4. ASSUME NEW t \in Threads, Rollback(t)
      PROVE  ZoneInv' /\ \A v \in ToSet(versions) : Contents(v) = Contents(v)'
  BY <1>1, <1>4, WorkBegins DEF Rollback, NoWork
<1>5. ASSUME NEW t \in Threads, Commit(t)
      PROVE  ZoneInv' /\ \A v \in ToSet(versions) : Contents(v) = Contents(v)'
  BY <1>1, <1>5, CommitKeeps
<1>6. ASSUME NEW t \in Threads, Reader(t) \/ EndRead(t)
      PROVE  ZoneInv' /\ \A v \in ToSet(versions) : Contents(v) = Contents(v)'
  BY <1>1, <1>6, ReadersKeep
<1>7. ASSUME \E n \in MaxVersions : SetMaxVersions(n)
      PROVE  ZoneInv' /\ \A v \in ToSet(versions) : Contents(v) = Contents(v)'
  BY <1>1, <1>7, ReadersKeep
<1>8. QED
  BY <1>2, <1>3, <1>4, <1>5, <1>6, <1>7, ChangeKeeps DEF ZoneNext

LEMMA ZoneMeans == ZoneInv => ZoneVersionsSound
<1> SUFFICES ASSUME ZoneInv PROVE ZoneVersionsSound
  OBVIOUS
<1>1. ASSUME NEW i \in 2..Len(versions) PROVE versions[i].id = versions[i - 1].id + 1
  <2>1. i \in 1..Len(versions) /\ i - 1 \in 1..Len(versions) /\ 1 \in 1..Len(versions)
    BY <1>1, NewestFacts
  <2>2. versions[1].id \in Nat
    <3>1. versions[1] \in VersionRecords
      BY <2>1, NewestFacts, ElementOfSeq DEF ZoneInv
    <3>2. QED  BY <3>1, ZoneAssumption DEF VersionRecords
  <2>3. versions[i].id = versions[1].id + (i - 1) /\ versions[i - 1].id = versions[1].id + (i - 1 - 1)
    BY <2>1 DEF ZoneInv, Consecutive
  <2>4. QED  BY <2>1, <2>2, <2>3
<1>2. ASSUME NEW v \in ToSet(versions) \cup {work}, NEW o \in Owners,
             NEW R, R = RecordsAt(v.nodes, o), NEW types, types = {r.type : r \in R}
      PROVE  /\ v.nodes[o] # 0 => R # {}
             /\ {"cname", "regular"} \cap {Kind(c) : c \in types} # {"cname", "regular"}
             /\ \A c \in types : Singleton(c) => Cardinality(OfType(R, c)) = 1
             /\ "SOA" \in types => o = Origin
  <2>1. \E newest : NodesOk(v.nodes, newest)
    BY <1>2 DEF ZoneInv
  <2>2. (v.nodes[o] # 0 => R # {}) /\ Mixable(o, R)
    BY <1>2, <2>1 DEF NodesOk, RecordsAt, Mixable
  <2>3. {"cname", "regular"} \cap {Kind(c) : c \in types} # {"cname", "regular"}
    <3>1. SUFFICES ASSUME "cname" \in {Kind(c) : c \in types}, "regular" \in {Kind(c) : c \in types}
                   PROVE  FALSE
      OBVIOUS
    <3>2. PICK r \in R, s \in R : Kind(r.type) = "cname" /\ Kind(s.type) = "regular"
      BY <1>2, <3>1
    <3>3. {Kind(r.type), Kind(s.type)} # {"cname", "regular"}
      BY <2>2 DEF Mixable
    <3>4. QED  BY <3>2, <3>3
  <2>4. ASSUME NEW c \in types, Singleton(c) PROVE Cardinality(OfType(R, c)) = 1
    <3>1. PICK r \in R : r.type = c
      BY <1>2
    <3>2. OfType(R, c) = {r}
      BY <2>2, <2>4, <3>1 DEF OfType, Mixable
    <3>3. QED  BY <3>2, FS_Singleton
  <2>5. "SOA" \in types => o = Origin
    BY <1>2, <2>2 DEF Mixable
  <2>6. QED  BY <2>2, <2>3, <2>4, <2>5
<1>3. Pins(readVersion) \subseteq {v.id : v \in ToSet(versions)}
  BY DEF ZoneInv, Ids
<1>4. QED  BY <1>1, <1>2, <1>3 DEF ZoneVersionsSound

\* Whatever writers do, and prune, the version a reader has stays and reads the
\* same, the versions follow one another, and each of them is a zone.
THEOREM ReadersSeeOneZone == ZoneSpec => VersionsSound
<1>1. ZoneInit => ZoneInv
  BY ZoneStarts
<1>2. ZoneInv /\ [ZoneNext]_zoneVars =>
        ZoneInv' /\ \A v \in ToSet(versions) : v \in ToSet(versions') => Contents(v) = Contents(v)'
  BY ZoneStep
<1>3. ZoneInv => ZoneVersionsSound
  BY ZoneMeans
<1>4. QED
  BY <1>1, <1>2, <1>3, PTL DEF ZoneSpec, VersionsSound, VersionsFrozen

LEMMA WriterStep ==
  ASSUME OneWriter, [ZoneNext]_zoneVars PROVE OneWriter'
<1>1. ASSUME NEW t \in Threads, EndWrite(t), doing[t] = "writing" PROVE OneWriter'
  <2>1. \A u \in Threads : doing'[u] \in {"nothing", "woken"} \/ (doing'[u] = doing[u] /\ u # t)
    BY <1>1 DEF EndWrite, OneWriter
  <2>2. DOMAIN doing' = Threads
    BY <1>1 DEF EndWrite, OneWriter
  <2>3. \A u \in Threads : doing'[u] \notin {"setting_up", "writing"}
    BY <1>1, <2>1 DEF OneWriter
  <2>4. QED  BY <2>2, <2>3 DEF OneWriter
<1>2. CASE UNCHANGED zoneVars \/ \E n \in MaxVersions : SetMaxVersions(n)
  BY <1>2 DEF zoneVars, SetMaxVersions, OneWriter
<1>3. ASSUME NEW t \in Threads, Reader(t) \/ EndRead(t) \/ SetupVersion(t) \/ Change(t) PROVE OneWriter'
  BY <1>3 DEF Reader, EndRead, SetupVersion, Change, OneWriter
<1>4. ASSUME NEW t \in Threads, Writer(t) PROVE OneWriter'
  BY <1>4, ZoneAssumption DEF Writer, OneWriter
<1>5. ASSUME NEW t \in Threads, Commit(t) \/ Rollback(t) PROVE OneWriter'
  BY <1>1, <1>5 DEF Commit, Rollback
<1>6. QED
  BY <1>2, <1>3, <1>4, <1>5 DEF ZoneNext

\* Of the threads that ask for a write transaction one has it at a time.
THEOREM WritersAreAlone == ZoneSpec => []OneWriter
<1>1. ZoneInit => OneWriter
  BY ZoneStarts
<1>2. OneWriter /\ [ZoneNext]_zoneVars => OneWriter'
  BY WriterStep
<1>3. QED  BY <1>1, <1>2, PTL DEF ZoneSpec

-----------------------------------------------------------------------------
(* Dnssec.  What is in the zone, and what the resolver was given of it, was *)
(* made by signing with the key that it says.                               *)

LEMMA DecidedFacts ==
  ASSUME NEW D \in SUBSET Nat, NEW f, DOMAIN f = D
  PROVE  /\ Decided(f) # "no" => \E i \in D : f[i] = Decided(f)
         /\ Decided(f) = "no" => \A i \in D : f[i] = "no"
<1>1. CASE \A i \in D : f[i] = "no"
  BY <1>1 DEF Decided
<1>2. CASE ~\A i \in D : f[i] = "no"
  <2> DEFINE E == {i \in D : f[i] # "no"}
             c == CHOOSE i \in D : f[i] # "no" /\ \A j \in D : j < i => f[j] = "no"
  <2>1. E \in SUBSET Nat /\ E # {}
    BY <1>2
  <2>2. PICK m \in E : \A k \in E : ~(<<k, m>> \in OpToRel(<, Nat))
    BY <2>1, NatLessThanWellFounded, WFMin
  <2>3. \A j \in D : j < m => f[j] = "no"
    BY <2>1, <2>2 DEF OpToRel
  <2>4. c \in D /\ f[c] # "no"
    BY <2>2, <2>3
  <2>5. Decided(f) = f[c]
    BY <1>2 DEF Decided
  <2> HIDE DEF c
  <2>6. QED  BY <2>4, <2>5
<1>3. QED  BY <1>1, <1>2

\* An RRSIG of the zone is what a key of it has signed.
SignedBy(sig, s) ==
    /\ sig.by = s.key.id /\ sig.algorithm = s.key.algorithm /\ sig.tag = s.key.tag
    /\ sig.algorithm \in KnownHash
    /\ sig.inception = s.at /\ sig.expiration = s.at + SignatureLifetime
    /\ sig.labels = Len(SignedOwner) /\ sig.over = SignatureData(SignedOwner, s.data, sig)

DnssecInv ==
    /\ secTime \in Nat
    /\ \A s \in signings : s.key \in Range(ZoneKeys) /\ s.at \in Nat
    /\ rrsigs \in Seq(Range(rrsigs))
    /\ \A sig \in Range(rrsigs) : \E s \in signings : SignedBy(sig, s)
    /\ DOMAIN fetched = {"keys", "owner", "data", "sigs"}
    /\ fetched.keys \subseteq Range(ZoneKeys) /\ fetched.owner \in {SignedOwner} \cup ExpandedOwners
    /\ fetched.sigs \in Seq(Range(fetched.sigs))
    /\ \A sig \in Range(fetched.sigs) : \E s \in signings : SignedBy(sig, s)

LEMMA DnssecStarts == DnssecInit => DnssecInv
<1> SUFFICES ASSUME DnssecInit PROVE DnssecInv
  OBVIOUS
<1>1. << >> \in Seq(Range(<< >>)) /\ Range(<< >>) = {}
  BY DEF Range
<1>2. /\ DOMAIN fetched = {"keys", "owner", "data", "sigs"}
      /\ fetched.keys = {} /\ fetched.owner = SignedOwner /\ fetched.sigs = << >>
  BY DEF DnssecInit
<1>3. QED  BY <1>1, <1>2 DEF DnssecInit, DnssecInv

LEMMA RangeOfAppend ==
  ASSUME NEW s, s \in Seq(Range(s)), NEW e
  PROVE  Append(s, e) \in Seq(Range(Append(s, e))) /\ Range(Append(s, e)) = Range(s) \cup {e}
<1> DEFINE T == Range(s) \cup {e}
           t == Append(s, e)
<1>1. Len(s) \in Nat /\ DOMAIN s = 1..Len(s)
  BY LenProperties
<1>2. s \in Seq(T)
  <2>1. \A i \in 1..Len(s) : s[i] \in T
    BY <1>1 DEF Range
  <2>2. QED  BY <1>1, <2>1
<1>3. /\ t \in Seq(T) /\ Len(t) = Len(s) + 1 /\ t[Len(s) + 1] = e
      /\ \A i \in 1..Len(s) : t[i] = s[i]
  BY <1>2, AppendProperties
<1>4. DOMAIN t = 1..(Len(s) + 1)
  BY <1>3, LenProperties
<1> HIDE DEF t
<1>5. /\ \A i \in 1..(Len(s) + 1) : i \in 1..Len(s) \/ i = Len(s) + 1
      /\ \A i \in 1..Len(s) : i \in 1..(Len(s) + 1)
      /\ Len(s) + 1 \in 1..(Len(s) + 1)
  BY <1>1
<1>6. Range(t) = T
  BY <1>1, <1>3, <1>4, <1>5 DEF Range
<1>7. QED  BY <1>3, <1>6 DEF t

LEMMA SignKeeps ==
  ASSUME DnssecInv, NEW key \in Range(ZoneKeys), NEW denies, Sign(key, denies) PROVE DnssecInv'
<1> DEFINE sig == Rrsig(key)
           s == [key |-> key, data |-> signedData, at |-> secTime]
<1>1. rrsigs' = Append(rrsigs, sig) /\ signings' = signings \cup {s} /\ UNCHANGED <<secTime, fetched>>
      /\ key.algorithm \in KnownHash
  BY DEF Sign
<1>2. SignedBy(sig, s)
  <2> DEFINE template == [algorithm |-> key.algorithm, labels |-> Len(SignedOwner), inception |-> secTime,
                          expiration |-> secTime + SignatureLifetime, tag |-> key.tag,
                          by |-> key.id, over |-> NoData]
             over == SignatureData(SignedOwner, signedData, template)
  <2>1. sig = [template EXCEPT !.over = over]
    BY DEF Rrsig
  <2>2. /\ template.algorithm = key.algorithm /\ template.labels = Len(SignedOwner)
        /\ template.inception = secTime /\ template.expiration = secTime + SignatureLifetime
        /\ template.tag = key.tag
    OBVIOUS
  <2> HIDE DEF over
  <2>3. /\ sig.algorithm = key.algorithm /\ sig.labels = Len(SignedOwner) /\ sig.inception = secTime
        /\ sig.expiration = secTime + SignatureLifetime /\ sig.tag = key.tag /\ sig.by = key.id
        /\ sig.over = over
    BY <2>1
  <2> HIDE DEF sig, template
  <2>4. over = SignatureData(SignedOwner, signedData, sig)
    BY <2>2, <2>3 DEF SignatureData, over
  <2>5. s.key = key /\ s.data = signedData /\ s.at = secTime
    OBVIOUS
  <2> HIDE DEF s
  <2>6. QED  BY <1>1, <2>3, <2>4, <2>5 DEF SignedBy
<1>3. s.key = key /\ s.at = secTime
  OBVIOUS
<1> HIDE DEF sig, s
<1>4. rrsigs' \in Seq(Range(rrsigs')) /\ Range(rrsigs') = Range(rrsigs) \cup {sig}
  BY <1>1, RangeOfAppend DEF DnssecInv
<1>5. \A x \in Range(rrsigs') : \E y \in signings' : SignedBy(x, y)
  BY <1>1, <1>2, <1>4 DEF DnssecInv
<1>6. \A y \in signings' : y.key \in Range(ZoneKeys) /\ y.at \in Nat
  BY <1>1, <1>3 DEF DnssecInv
<1>7. \A x \in Range(fetched'.sigs) : \E y \in signings' : SignedBy(x, y)
  BY <1>1 DEF DnssecInv
<1>8. /\ secTime' \in Nat /\ DOMAIN fetched' = {"keys", "owner", "data", "sigs"}
      /\ fetched'.keys \subseteq Range(ZoneKeys) /\ fetched'.owner \in {SignedOwner} \cup ExpandedOwners
      /\ fetched'.sigs \in Seq(Range(fetched'.sigs))
  BY <1>1 DEF DnssecInv
<1>9. QED  BY <1>4, <1>5, <1>6, <1>7, <1>8 DEF DnssecInv, SignedBy

LEMMA DnssecStep ==
  ASSUME DnssecInv, [DnssecNext]_dnssecVars PROVE DnssecInv'
<1>1. ASSUME NEW keys \in SUBSET Range(ZoneKeys), FetchKeys(keys) PROVE DnssecInv'
  <2>1. /\ DOMAIN fetched' = {"keys", "owner", "data", "sigs"} /\ fetched'.keys = keys
        /\ fetched'.owner = fetched.owner /\ fetched'.sigs = fetched.sigs
    BY <1>1 DEF FetchKeys, DnssecInv
  <2>2. UNCHANGED <<secTime, rrsigs, signings>>
    BY <1>1 DEF FetchKeys
  <2>3. QED  BY <2>1, <2>2 DEF DnssecInv
<1>2. ASSUME NEW owner \in {SignedOwner} \cup ExpandedOwners, FetchRRset(owner) PROVE DnssecInv'
  <2>1. /\ DOMAIN fetched' = {"keys", "owner", "data", "sigs"} /\ fetched'.keys = fetched.keys
        /\ fetched'.owner = owner /\ fetched'.sigs = rrsigs
    BY <1>2 DEF FetchRRset, DnssecInv
  <2>2. UNCHANGED <<secTime, rrsigs, signings>>
    BY <1>2 DEF FetchRRset
  <2>3. QED  BY <2>1, <2>2 DEF DnssecInv
<1>3. CASE UNCHANGED dnssecVars \/ ChangeData \/ SecTimePasses
  <2>1. secTime' \in Nat /\ UNCHANGED <<rrsigs, signings, fetched>>
    BY <1>3 DEF dnssecVars, ChangeData, SecTimePasses, DnssecInv
  <2>2. QED  BY <2>1 DEF DnssecInv
<1>4. QED
  BY <1>1, <1>2, <1>3, SignKeeps DEF DnssecNext

\* What is signed for an owner and what is looked for are the same only where
\* the owner is the same.
LEMMA OwnersTold ==
  ASSUME NEW owner \in {SignedOwner} \cup ExpandedOwners, NEW sig, sig.labels = Len(SignedOwner),
         NEW data, NEW signed,
         SignatureData(owner, data, sig) # NoData,
         SignatureData(SignedOwner, signed, sig) = SignatureData(owner, data, sig)
  PROVE  owner = SignedOwner /\ signed = data
<1>1. /\ owner \in Seq(STRING) /\ SignedOwner \in Seq(STRING)
      /\ Len(owner) \in Nat /\ Len(SignedOwner) \in Nat
  BY DnssecAssumption, LenProperties
<1> DEFINE fixed == <<sig.algorithm, sig.labels, sig.inception, sig.expiration, sig.tag>>
           n == Len(SignedOwner)
           tail == SubSeq(owner, Len(owner) - n + 1, Len(owner))
           host == IF n < Len(owner) THEN <<"*">> \o tail ELSE owner
<1>2. ~(Len(owner) < n)
  BY DEF SignatureData
<1>3. SignatureData(owner, data, sig) = [name |-> host, rdatas |-> data, fixed |-> fixed]
  BY <1>2 DEF SignatureData
<1>4. SignatureData(SignedOwner, signed, sig) = [name |-> SignedOwner, rdatas |-> signed, fixed |-> fixed]
  BY <1>1 DEF SignatureData
<1> HIDE DEF fixed, host
<1>5. host = SignedOwner /\ data = signed
  BY <1>3, <1>4
<1>6. CASE n < Len(owner)
  <2>1. /\ Len(owner) - n + 1 \in Nat \ {0} /\ Len(owner) - n + 1 <= Len(owner) + 1
        /\ Len(owner) <= Len(owner)
    BY <1>1, <1>6
  <2> DEFINE asterisk == "*"
             S == STRING \cup {asterisk}
  <2>2. tail \in Seq(S) /\ Len(tail) = Len(owner) - (Len(owner) - n + 1) + 1
    <3>1. owner \in Seq(S)
      BY <1>1
    <3>2. QED  BY <1>1, <2>1, <3>1, SubSeqFacts
  <2> HIDE DEF tail
  <2>4. Len(<<asterisk>> \o tail) = 1 + Len(tail)
    <3>1. asterisk \in S
      OBVIOUS
    <3> HIDE DEF asterisk, S
    <3>2. <<asterisk>> \in Seq(S) /\ Len(<<asterisk>>) = 1
      BY <3>1
    <3>3. QED  BY <2>2, <3>2, ConcatFacts
  <2>5. Len(host) = 1 + n
    BY <1>1, <1>6, <2>2, <2>4 DEF host
  <2>6. QED  BY <1>1, <1>5, <2>5
<1>7. CASE ~(n < Len(owner))
  BY <1>5, <1>7 DEF host
<1>8. QED  BY <1>5, <1>6, <1>7

\* For the owner itself, something is signed, and the data is part of it.
LEMMA SameOwnerData ==
  ASSUME NEW sig, sig.labels = Len(SignedOwner), NEW d
  PROVE  /\ SignatureData(SignedOwner, d, sig).rdatas = d
         /\ SignatureData(SignedOwner, d, sig) # NoData
<1> DEFINE fixed == <<sig.algorithm, sig.labels, sig.inception, sig.expiration, sig.tag>>
<1>1. Len(SignedOwner) \in Nat
  BY DnssecAssumption, LenProperties
<1>2. SignatureData(SignedOwner, d, sig) = [name |-> SignedOwner, rdatas |-> d, fixed |-> fixed]
  BY <1>1 DEF SignatureData
<1>3. fixed # << >>
  OBVIOUS
<1> HIDE DEF fixed
<1>4. QED  BY <1>2, <1>3 DEF NoData

LEMMA DnssecMeans == DnssecInv => ValidatedIsSigned
<1> SUFFICES ASSUME DnssecInv, NEW denied
             PROVE  /\ Validated(denied) = "valid" => Vouched(denied) # {} /\ fetched.owner = SignedOwner
                    /\ Vouched(denied) # {} /\ fetched.owner = SignedOwner => Validated(denied) # "no"
                    /\ Validated(denied) = "error" => \E k \in fetched.keys : k.malformed
  BY DEF ValidatedIsSigned
<1> DEFINE sigs == fetched.sigs
           Allowed(sig) == {i \in CandidateKeys(sig) : ZoneKeys[i].algorithm \notin denied}
           data(sig) == SignatureData(fetched.owner, fetched.data, sig)
           Verdicts(sig) == [i \in Allowed(sig) |-> Verified(sig, data(sig), ZoneKeys[i])]
           InTime(sig) == /\ secTime <= sig.expiration /\ sig.inception <= secTime
                          /\ data(sig) # NoData /\ sig.algorithm \in KnownHash
           Outcomes == [i \in DOMAIN sigs |-> Outcome(sigs[i], denied)]
<1>1. /\ DOMAIN ZoneKeys \in SUBSET Nat /\ \A i \in DOMAIN ZoneKeys : ZoneKeys[i] \in Range(ZoneKeys)
      /\ DOMAIN sigs \in SUBSET Nat /\ \A i \in DOMAIN sigs : sigs[i] \in Range(sigs)
  BY DnssecAssumption, LenProperties DEF DnssecInv, Range
<1>2. ASSUME NEW sig \in Range(sigs)
      PROVE  /\ \E s \in signings : SignedBy(sig, s)
             /\ \A s \in signings : s.at \in Nat /\ s.key \in Range(ZoneKeys)
             /\ secTime \in Nat /\ SignatureLifetime \in Nat
  BY DnssecAssumption DEF DnssecInv
<1>0. \A k, l \in Range(ZoneKeys) : k.id = l.id => k = l
  BY DnssecAssumption
<1>3. ASSUME NEW sig \in Range(sigs)
      PROVE  /\ InTime(sig) => Outcome(sig, denied) = Decided(Verdicts(sig))
             /\ ~InTime(sig) => Outcome(sig, denied) = "no"
  <2>1. PICK s \in signings : SignedBy(sig, s)
    BY <1>2
  <2>2. sig.expiration \in Nat /\ sig.inception \in Nat /\ secTime \in Nat
    BY <1>2, <2>1 DEF SignedBy
  <2>3. InTime(sig) <=> ~(\/ secTime > sig.expiration \/ secTime < sig.inception \/ data(sig) = NoData
                          \/ sig.algorithm \notin KnownHash)
    BY <2>2
  <2>4. QED  BY <2>3 DEF Outcome
<1>4. ASSUME NEW sig \in Range(sigs)
      PROVE  /\ Decided(Verdicts(sig)) # "no" =>
                  \E i \in Allowed(sig) : Verified(sig, data(sig), ZoneKeys[i]) = Decided(Verdicts(sig))
             /\ Decided(Verdicts(sig)) = "no" =>
                  \A i \in Allowed(sig) : Verified(sig, data(sig), ZoneKeys[i]) = "no"
  <2> DEFINE D == Allowed(sig)
             f == Verdicts(sig)
  <2>1. D \in SUBSET Nat /\ DOMAIN f = D /\ \A i \in D : f[i] = Verified(sig, data(sig), ZoneKeys[i])
    BY <1>1 DEF CandidateKeys
  <2> HIDE DEF D, f
  <2>2. (Decided(f) # "no" => \E i \in D : f[i] = Decided(f)) /\ (Decided(f) = "no" => \A i \in D : f[i] = "no")
    BY <2>1, DecidedFacts
  <2>3. (Decided(f) # "no" => \E i \in D : Verified(sig, data(sig), ZoneKeys[i]) = Decided(f))
        /\ (Decided(f) = "no" => \A i \in D : Verified(sig, data(sig), ZoneKeys[i]) = "no")
    BY <2>1, <2>2
  <2>4. QED  BY <2>3 DEF D, f
<1>5. /\ Validated(denied) # "no" => \E i \in DOMAIN sigs : Outcome(sigs[i], denied) = Validated(denied)
      /\ Validated(denied) = "no" => \A i \in DOMAIN sigs : Outcome(sigs[i], denied) = "no"
  <2> DEFINE D == DOMAIN sigs
             f == Outcomes
  <2>1. D \in SUBSET Nat /\ DOMAIN f = D /\ \A i \in D : f[i] = Outcome(sigs[i], denied)
    BY <1>1
  <2>2. Validated(denied) = Decided(f)
    BY DEF Validated
  <2> HIDE DEF D, f
  <2>3. (Decided(f) # "no" => \E i \in D : f[i] = Decided(f)) /\ (Decided(f) = "no" => \A i \in D : f[i] = "no")
    BY <2>1, DecidedFacts
  <2>4. (Validated(denied) # "no" => \E i \in D : Outcome(sigs[i], denied) = Validated(denied))
        /\ (Validated(denied) = "no" => \A i \in D : Outcome(sigs[i], denied) = "no")
    BY <2>1, <2>2, <2>3
  <2>5. QED  BY <2>4 DEF D
<1> HIDE DEF sigs, Allowed, data, Verdicts, InTime, Outcomes
\* What a signature that decides says.
<1>6. ASSUME NEW verdict, verdict # "no", Validated(denied) = verdict
      PROVE  \E sig \in Range(sigs), j \in DOMAIN ZoneKeys :
               /\ InTime(sig) /\ j \in Allowed(sig)
               /\ Verified(sig, data(sig), ZoneKeys[j]) = verdict
  <2>1. PICK i \in DOMAIN sigs : Outcome(sigs[i], denied) = verdict
    BY <1>5, <1>6
  <2>2. sigs[i] \in Range(sigs)
    BY <1>1
  <2>3. InTime(sigs[i]) /\ Decided(Verdicts(sigs[i])) = verdict
    BY <1>3, <1>6, <2>1, <2>2
  <2>4. PICK j \in Allowed(sigs[i]) : Verified(sigs[i], data(sigs[i]), ZoneKeys[j]) = verdict
    BY <1>4, <1>6, <2>2, <2>3
  <2>5. j \in DOMAIN ZoneKeys
    BY <2>4 DEF Allowed, CandidateKeys
  <2>6. QED  BY <2>2, <2>3, <2>4, <2>5
<1>7. ASSUME Validated(denied) = "valid"
      PROVE  Vouched(denied) # {} /\ fetched.owner = SignedOwner
  <2>1. "valid" # "no"
    OBVIOUS
  <2>2. PICK sig \in Range(sigs), j \in DOMAIN ZoneKeys :
          InTime(sig) /\ j \in Allowed(sig) /\ Verified(sig, data(sig), ZoneKeys[j]) = "valid"
    BY <1>6, <1>7, <2>1
  <2>3. PICK s \in signings : SignedBy(sig, s)
    BY <1>2
  <2>4. /\ ZoneKeys[j] \in fetched.keys /\ ZoneKeys[j].algorithm \notin denied
        /\ ZoneKeys[j] \in Range(ZoneKeys)
    BY <1>1, <2>2 DEF Allowed, CandidateKeys, HasTag
  <2>5. sig.by = ZoneKeys[j].id /\ sig.over = data(sig)
    BY <2>2 DEF Verified
  <2>6. s.key = ZoneKeys[j]
    <3>1. sig.by = s.key.id /\ s.key \in Range(ZoneKeys)
      BY <1>2, <2>3 DEF SignedBy
    <3>2. QED  BY <1>0, <2>4, <2>5, <3>1
  <2>7. fetched.owner = SignedOwner /\ s.data = fetched.data
    <3>1. /\ fetched.owner \in {SignedOwner} \cup ExpandedOwners /\ sig.labels = Len(SignedOwner)
          /\ SignatureData(fetched.owner, fetched.data, sig) # NoData
          /\ SignatureData(SignedOwner, s.data, sig) = SignatureData(fetched.owner, fetched.data, sig)
      BY <2>2, <2>3, <2>5 DEF SignedBy, InTime, data, DnssecInv
    <3>2. QED  BY <3>1, OwnersTold
  <2>8. s.at <= secTime /\ secTime <= s.at + SignatureLifetime /\ sig.inception = s.at
    BY <2>2, <2>3 DEF SignedBy, InTime
  <2>9. sig.over.rdatas = s.data
    BY <2>3, <2>7, SameOwnerData DEF SignedBy
  <2>10. s \in Vouched(denied)
    BY <2>2, <2>3, <2>4, <2>5, <2>6, <2>7, <2>8, <2>9 DEF Vouched, sigs
  <2>11. QED  BY <2>7, <2>10
<1>8. ASSUME Vouched(denied) # {}, fetched.owner = SignedOwner PROVE Validated(denied) # "no"
  <2>1. PICK s \in Vouched(denied) : TRUE
    BY <1>8
  <2>2. /\ s \in signings /\ s.key \in fetched.keys /\ s.key.algorithm \notin denied
        /\ s.data = fetched.data /\ s.at <= secTime /\ secTime <= s.at + SignatureLifetime
    BY <2>1 DEF Vouched
  <2>3. PICK sig \in Range(sigs) : sig.by = s.key.id /\ sig.inception = s.at /\ sig.over.rdatas = s.data
    BY <2>1 DEF Vouched, sigs
  <2>4. PICK x \in signings : SignedBy(sig, x)
    BY <1>2
  <2>5. x.key = s.key /\ s.key \in Range(ZoneKeys)
    <3>1. sig.by = x.key.id /\ x.key \in Range(ZoneKeys) /\ s.key \in Range(ZoneKeys)
      BY <1>2, <2>2, <2>4 DEF SignedBy
    <3>2. QED  BY <1>0, <2>3, <3>1
  <2>6. sig.over.rdatas = x.data /\ SignatureData(SignedOwner, x.data, sig) # NoData
    BY <2>4, SameOwnerData DEF SignedBy
  <2>7. data(sig) = sig.over /\ data(sig) # NoData
    BY <1>8, <2>2, <2>3, <2>4, <2>6 DEF SignedBy, data
  <2>8. InTime(sig)
    BY <2>2, <2>3, <2>4, <2>7 DEF SignedBy, InTime
  <2>9. PICK j \in DOMAIN ZoneKeys : ZoneKeys[j] = s.key
    BY <2>5 DEF Range
  <2>10. j \in Allowed(sig)
    BY <2>2, <2>4, <2>5, <2>9 DEF Allowed, CandidateKeys, HasTag, SignedBy
  <2>11. Verified(sig, data(sig), ZoneKeys[j]) # "no"
    BY <2>3, <2>5, <2>7, <2>9, DnssecAssumption DEF Verified
  <2>12. Outcome(sig, denied) # "no"
    BY <1>3, <1>4, <2>8, <2>10, <2>11
  <2>13. PICK i \in DOMAIN sigs : sigs[i] = sig
    BY DEF Range
  <2>14. QED  BY <1>5, <2>12, <2>13
<1>9. ASSUME Validated(denied) = "error" PROVE \E k \in fetched.keys : k.malformed
  <2>1. "error" # "no"
    OBVIOUS
  <2>2. PICK sig \in Range(sigs), j \in DOMAIN ZoneKeys :
          InTime(sig) /\ j \in Allowed(sig) /\ Verified(sig, data(sig), ZoneKeys[j]) = "error"
    BY <1>6, <1>9, <2>1
  <2>3. ZoneKeys[j] \in fetched.keys /\ ZoneKeys[j] \in Range(ZoneKeys)
    BY <1>1, <2>2 DEF Allowed, CandidateKeys, HasTag
  <2>4. ZoneKeys[j].malformed
    BY <2>2, <2>3, DnssecAssumption DEF Verified
  <2>5. QED  BY <2>3, <2>4
<1>10. QED  BY <1>7, <1>8, <1>9

\* Whatever keys, data and signatures of different times the resolver holds,
\* it takes the data for valid exactly when a key that it holds and allows has
\* signed just that; a key that cannot be read is the exception.
THEOREM ValidMeansSigned == DnssecSpec => []ValidatedIsSigned
<1>1. DnssecInv /\ [DnssecNext]_dnssecVars => DnssecInv'
  BY DnssecStep
<1>2. QED  BY DnssecStarts, <1>1, DnssecMeans, PTL DEF DnssecSpec

-----------------------------------------------------------------------------
(* InboundTransfer.  A row of records and what it makes of a zone are       *)
(* compared as the row grows by one; the invariant says how far an answer   *)
(* has come.                                                                *)

SoasOf(rrs) == {i \in DOMAIN rrs : IsSoa(rrs[i])}
Count(rrs) == SoasUpTo(rrs, Len(rrs))
Nth(rrs, k) == rrs[CHOOSE i \in SoasOf(rrs) : SoasUpTo(rrs, i) = k].soa
LastAt(rrs, r, i) == rrs[i] = Record(r) /\ \A j \in i + 1..Len(rrs) : rrs[j] # Record(r)

\* The SOAs of a row can be counted, and each record in it has a last place.
Counted(rrs) ==
    /\ Count(rrs) \in Nat
    /\ \A i \in SoasOf(rrs) : SoasUpTo(rrs, i) \in 1..Count(rrs)
    /\ \A i, j \in SoasOf(rrs) : SoasUpTo(rrs, i) = SoasUpTo(rrs, j) => i = j
    /\ \A k \in 1..Count(rrs) : \E i \in SoasOf(rrs) : SoasUpTo(rrs, i) = k
    /\ \A r \in Mentioned(rrs) : \E i \in DOMAIN rrs : LastAt(rrs, r, i)

LEMMA SendableFacts ==
  /\ \A n \in Serials : Soa(n) \in Sendable /\ IsSoa(Soa(n)) /\ Soa(n).soa = n
  /\ \A r : ~IsSoa(Record(r)) /\ Record(r).record = r
  /\ \A x \in Sendable : IsSoa(x) => x.soa \in Serials /\ x = Soa(x.soa)
  /\ \A x \in Sendable : ~IsSoa(x) => x.record \in ZoneRecords /\ x = Record(x.record)
<1>1. \A n : Soa(n).soa = n
  BY DEF Soa
<1>2. \A r : Record(r).soa = NoSoa /\ Record(r).record = r
  BY DEF Record
<1>3. \A n \in Serials : n # NoSoa
  BY TransferAssumption
<1>4. \A x \in Sendable : (\E n \in Serials : x = Soa(n)) \/ (\E r \in ZoneRecords : x = Record(r))
  BY DEF Sendable
<1>5. \A n \in Serials : Soa(n) \in Sendable
  BY DEF Sendable
<1>6. QED  BY <1>1, <1>2, <1>3, <1>4, <1>5 DEF IsSoa

LEMMA SoasFinite ==
  ASSUME NEW rrs, NEW i \in Nat
  PROVE  /\ IsFiniteSet({j \in 1..i : IsSoa(rrs[j])}) /\ SoasUpTo(rrs, i) \in Nat /\ SoasUpTo(rrs, i) <= i
<1> DEFINE J == {j \in 1..i : IsSoa(rrs[j])}
<1>1. IsFiniteSet(1..i) /\ Cardinality(1..i) = i
  <2>1. /\ 1 \in Int /\ i \in Int
    OBVIOUS
  <2>2. /\ IsFiniteSet(1..i) /\ Cardinality(1..i) = IF 1 > i THEN 0 ELSE i - 1 + 1
    BY <2>1, FS_Interval
  <2>3. QED  BY <2>2
<1>2. J \subseteq 1..i
  OBVIOUS
<1> HIDE DEF J
<1>3. IsFiniteSet(J) /\ Cardinality(J) <= Cardinality(1..i) /\ Cardinality(J) \in Nat
  BY <1>1, <1>2, FS_Subset, FS_CardinalityType
<1>4. QED  BY <1>1, <1>3 DEF SoasUpTo, J

LEMMA LastIsOne ==
  ASSUME NEW rrs, NEW r, NEW i \in DOMAIN rrs, NEW j \in DOMAIN rrs, DOMAIN rrs = 1..Len(rrs), Len(rrs) \in Nat,
         LastAt(rrs, r, i), LastAt(rrs, r, j)
  PROVE  i = j
<1>1. CASE i < j
  BY <1>1 DEF LastAt
<1>2. CASE j < i
  BY <1>2 DEF LastAt
<1>3. QED  BY <1>1, <1>2

\* One more record, and what it changes of these counts.
Extended(q, rrs, x) ==
    /\ q \in Seq(Sendable) /\ Len(q) = Len(rrs) + 1 /\ DOMAIN q = 1..(Len(rrs) + 1)
    /\ q[Len(rrs) + 1] = x /\ \A i \in 1..Len(rrs) : q[i] = rrs[i]
    /\ Len(rrs) \in Nat /\ DOMAIN rrs = 1..Len(rrs)

LEMMA AppendExtends ==
  ASSUME NEW rrs \in Seq(Sendable), NEW x \in Sendable PROVE Extended(Append(rrs, x), rrs, x)
<1> DEFINE q == Append(rrs, x)
<1>1. Len(rrs) \in Nat /\ DOMAIN rrs = 1..Len(rrs)
  BY LenProperties
<1>2. q \in Seq(Sendable) /\ Len(q) = Len(rrs) + 1 /\ q[Len(rrs) + 1] = x /\ \A i \in 1..Len(rrs) : q[i] = rrs[i]
  BY AppendProperties
<1>3. DOMAIN q = 1..(Len(rrs) + 1)
  BY <1>2, LenProperties
<1> HIDE DEF q
<1>4. QED  BY <1>1, <1>2, <1>3 DEF Extended, q

LEMMA CountOfExtended ==
  ASSUME NEW rrs \in Seq(Sendable), NEW x \in Sendable, NEW q, Extended(q, rrs, x)
  PROVE  /\ \A i \in 1..Len(rrs) : SoasUpTo(q, i) = SoasUpTo(rrs, i)
         /\ Count(q) = Count(rrs) + IF IsSoa(x) THEN 1 ELSE 0
         /\ SoasUpTo(q, Len(rrs) + 1) = Count(q)
         /\ SoasOf(q) = SoasOf(rrs) \cup IF IsSoa(x) THEN {Len(rrs) + 1} ELSE {}
<1>1. /\ Len(q) = Len(rrs) + 1 /\ DOMAIN q = 1..(Len(rrs) + 1) /\ q[Len(rrs) + 1] = x
      /\ \A i \in 1..Len(rrs) : q[i] = rrs[i]
      /\ Len(rrs) \in Nat /\ DOMAIN rrs = 1..Len(rrs)
  BY DEF Extended
<1> DEFINE n == Len(rrs)
<1>2. /\ \A i \in 1..(n + 1) : i \in 1..n \/ i = n + 1
      /\ \A i \in 1..n : i \in 1..(n + 1) /\ i # n + 1
      /\ n + 1 \in 1..(n + 1)
  BY <1>1
<1>3. ASSUME NEW i \in 1..n PROVE SoasUpTo(q, i) = SoasUpTo(rrs, i)
  <2>1. \A j \in 1..i : j \in 1..n
    BY <1>1
  <2>2. {j \in 1..i : IsSoa(q[j])} = {j \in 1..i : IsSoa(rrs[j])}
    BY <1>1, <2>1
  <2>3. QED  BY <2>2 DEF SoasUpTo
<1>4. SoasOf(q) = SoasOf(rrs) \cup IF IsSoa(x) THEN {n + 1} ELSE {}
  BY <1>1, <1>2 DEF SoasOf
<1> DEFINE J == {j \in 1..n : IsSoa(rrs[j])}
           K == {j \in 1..(n + 1) : IsSoa(q[j])}
<1>5. K = J \cup (IF IsSoa(x) THEN {n + 1} ELSE {}) /\ n + 1 \notin J
  BY <1>1, <1>2
<1>6. IsFiniteSet(J) /\ Cardinality(J) = Count(rrs) /\ Cardinality(K) = Count(q)
  BY <1>1, SoasFinite DEF Count, SoasUpTo
<1> HIDE DEF J, K
<1>7. Count(q) = Count(rrs) + IF IsSoa(x) THEN 1 ELSE 0
  <2>1. CASE IsSoa(x)
    <3>1. K = J \cup {n + 1}
      BY <1>5, <2>1
    <3>2. Cardinality(K) = Cardinality(J) + 1
      BY <1>5, <1>6, <3>1, FS_AddElement
    <3>3. QED  BY <1>6, <2>1, <3>2
  <2>2. CASE ~IsSoa(x)
    <3>1. K = J
      BY <1>5, <2>2
    <3>2. Count(rrs) \in Nat
      BY <1>1, SoasFinite DEF Count
    <3>3. QED  BY <1>6, <2>2, <3>1, <3>2
  <2>3. QED  BY <2>1, <2>2
<1>8. SoasUpTo(q, n + 1) = Count(q)
  BY <1>1 DEF Count
<1>9. QED  BY <1>3, <1>4, <1>7, <1>8

LEMMA MentionedInExtended ==
  ASSUME NEW rrs \in Seq(Sendable), NEW x \in Sendable, NEW q, Extended(q, rrs, x)
  PROVE  Mentioned(q) = Mentioned(rrs) \cup IF IsSoa(x) THEN {} ELSE {x.record}
<1>1. /\ DOMAIN q = 1..(Len(rrs) + 1) /\ q[Len(rrs) + 1] = x
      /\ \A i \in 1..Len(rrs) : q[i] = rrs[i]
      /\ Len(rrs) \in Nat /\ DOMAIN rrs = 1..Len(rrs)
  BY DEF Extended
<1> DEFINE n == Len(rrs)
           M(s) == {s[i] : i \in {j \in DOMAIN s : ~IsSoa(s[j])}}
<1>2. /\ \A i \in 1..(n + 1) : i \in 1..n \/ i = n + 1
      /\ \A i \in 1..n : i \in 1..(n + 1)
      /\ n + 1 \in 1..(n + 1)
  BY <1>1
<1>3. M(q) = M(rrs) \cup IF IsSoa(x) THEN {} ELSE {x}
  BY <1>1, <1>2
<1>4. Mentioned(q) = {rr.record : rr \in M(q)} /\ Mentioned(rrs) = {rr.record : rr \in M(rrs)}
  BY DEF Mentioned
<1> HIDE DEF M
<1>5. QED  BY <1>3, <1>4

LEMMA LastInExtended ==
  ASSUME NEW rrs \in Seq(Sendable), NEW x \in Sendable, NEW q, Extended(q, rrs, x), NEW r
  PROVE  /\ x = Record(r) => LastAt(q, r, Len(rrs) + 1)
         /\ \A i \in DOMAIN rrs : x # Record(r) /\ LastAt(rrs, r, i) => LastAt(q, r, i)
<1>1. /\ Len(q) = Len(rrs) + 1 /\ q[Len(rrs) + 1] = x
      /\ \A i \in 1..Len(rrs) : q[i] = rrs[i]
      /\ Len(rrs) \in Nat /\ DOMAIN rrs = 1..Len(rrs)
  BY DEF Extended
<1>2. \A j : j \notin (Len(rrs) + 1) + 1..Len(rrs) + 1
  BY <1>1
<1>3. ASSUME NEW i \in DOMAIN rrs, x # Record(r), LastAt(rrs, r, i) PROVE LastAt(q, r, i)
  <2>1. ASSUME NEW j \in i + 1..Len(q) PROVE q[j] # Record(r)
    <3>1. j = Len(rrs) + 1 \/ (j \in i + 1..Len(rrs) /\ j \in 1..Len(rrs))
      BY <1>1
    <3>2. QED  BY <1>1, <1>3, <3>1 DEF LastAt
  <2>2. QED  BY <1>1, <1>3, <2>1 DEF LastAt
<1>4. QED  BY <1>1, <1>2, <1>3 DEF LastAt

LEMMA ExtendedIsCounted ==
  ASSUME NEW rrs \in Seq(Sendable), Counted(rrs), NEW x \in Sendable, NEW q, Extended(q, rrs, x)
  PROVE  /\ Counted(q)
         /\ \A k \in 1..Count(rrs) : Nth(q, k) = Nth(rrs, k)
         /\ IsSoa(x) => Nth(q, Count(q)) = x.soa
<1>1. /\ Len(q) = Len(rrs) + 1 /\ DOMAIN q = 1..(Len(rrs) + 1) /\ q[Len(rrs) + 1] = x
      /\ \A i \in 1..Len(rrs) : q[i] = rrs[i]
      /\ Len(rrs) \in Nat /\ DOMAIN rrs = 1..Len(rrs)
  BY DEF Extended
<1>2. /\ \A i \in 1..Len(rrs) : SoasUpTo(q, i) = SoasUpTo(rrs, i)
      /\ Count(q) = Count(rrs) + IF IsSoa(x) THEN 1 ELSE 0
      /\ SoasUpTo(q, Len(rrs) + 1) = Count(q)
      /\ SoasOf(q) = SoasOf(rrs) \cup IF IsSoa(x) THEN {Len(rrs) + 1} ELSE {}
  BY CountOfExtended
<1>3. /\ Count(rrs) \in Nat /\ SoasOf(rrs) \subseteq 1..Len(rrs)
      /\ \A i \in SoasOf(rrs) : SoasUpTo(rrs, i) \in 1..Count(rrs)
      /\ \A i, j \in SoasOf(rrs) : SoasUpTo(rrs, i) = SoasUpTo(rrs, j) => i = j
      /\ \A k \in 1..Count(rrs) : \E i \in SoasOf(rrs) : SoasUpTo(rrs, i) = k
  BY <1>1 DEF Counted, SoasOf
<1>4. \A i \in SoasOf(rrs) : i \in SoasOf(q) /\ SoasUpTo(q, i) = SoasUpTo(rrs, i) /\ q[i] = rrs[i]
  BY <1>1, <1>2, <1>3
<1>5. IsSoa(x) => /\ Len(rrs) + 1 \in SoasOf(q) /\ SoasUpTo(q, Len(rrs) + 1) = Count(rrs) + 1
                  /\ Count(q) = Count(rrs) + 1
  BY <1>2
<1>6. \A i \in SoasOf(q) : i \in SoasOf(rrs) \/ (IsSoa(x) /\ i = Len(rrs) + 1)
  BY <1>2
<1>7. \A i \in SoasOf(q) : SoasUpTo(q, i) \in 1..Count(q)
  BY <1>2, <1>3, <1>4, <1>5, <1>6
<1>8. \A i, j \in SoasOf(q) : SoasUpTo(q, i) = SoasUpTo(q, j) => i = j
  BY <1>3, <1>4, <1>5, <1>6
<1>9. ASSUME NEW k \in 1..Count(q) PROVE \E i \in SoasOf(q) : SoasUpTo(q, i) = k
  <2>1. k \in 1..Count(rrs) \/ (IsSoa(x) /\ k = Count(rrs) + 1)
    BY <1>2, <1>3
  <2>2. QED  BY <1>3, <1>4, <1>5, <2>1
<1>10. ASSUME NEW r \in Mentioned(q) PROVE \E i \in DOMAIN q : LastAt(q, r, i)
  <2>1. CASE x = Record(r)
    <3>1. Len(rrs) + 1 \in DOMAIN q
      BY <1>1
    <3>2. QED  BY <2>1, <3>1, LastInExtended
  <2>2. CASE x # Record(r)
    <3>1. r \in Mentioned(rrs)
      <4>1. Mentioned(q) = Mentioned(rrs) \cup IF IsSoa(x) THEN {} ELSE {x.record}
        BY MentionedInExtended
      <4>2. ~IsSoa(x) => x = Record(x.record)
        BY SendableFacts
      <4>3. QED  BY <2>2, <4>1, <4>2
    <3>2. PICK i \in DOMAIN rrs : LastAt(rrs, r, i)
      BY <3>1 DEF Counted
    <3>3. i \in DOMAIN q
      BY <1>1
    <3>4. QED  BY <2>2, <3>2, <3>3, LastInExtended
  <2>3. QED  BY <2>1, <2>2
<1>11. Counted(q)
  <2>1. Count(q) \in Nat
    BY <1>2, <1>3
  <2>2. QED  BY <1>7, <1>8, <1>9, <1>10, <2>1 DEF Counted
<1>12. ASSUME NEW k \in 1..Count(rrs) PROVE Nth(q, k) = Nth(rrs, k)
  <2>1. PICK i \in SoasOf(rrs) : SoasUpTo(rrs, i) = k
    BY <1>3
  <2>2. (CHOOSE j \in SoasOf(rrs) : SoasUpTo(rrs, j) = k) = i
    BY <1>3, <2>1
  <2>3. (CHOOSE j \in SoasOf(q) : SoasUpTo(q, j) = k) = i
    BY <1>4, <1>8, <2>1
  <2>4. QED  BY <1>4, <2>1, <2>2, <2>3 DEF Nth
<1>13. ASSUME IsSoa(x) PROVE Nth(q, Count(q)) = x.soa
  <2>1. (CHOOSE j \in SoasOf(q) : SoasUpTo(q, j) = Count(q)) = Len(rrs) + 1
    BY <1>2, <1>5, <1>8, <1>13
  <2>2. QED  BY <1>1, <2>1 DEF Nth
<1>14. QED  BY <1>11, <1>12, <1>13

\* What a row of records makes of a zone.
After(rrs, from) == {r \in ZoneRecords : IF r \in Mentioned(rrs) THEN LastAdded(rrs, r) ELSE r \in from}

LEMMA LastAddedIs ==
  ASSUME NEW rrs, DOMAIN rrs = 1..Len(rrs), Len(rrs) \in Nat, NEW r, NEW i \in DOMAIN rrs, LastAt(rrs, r, i)
  PROVE  LastAdded(rrs, r) <=> SoasUpTo(rrs, i) % 2 = 1
<1> DEFINE last == CHOOSE j \in DOMAIN rrs : LastAt(rrs, r, j)
<1>1. last \in DOMAIN rrs /\ LastAt(rrs, r, last)
  OBVIOUS
<1>2. last = i
  <2> HIDE DEF last
  <2>1. QED  BY <1>1, LastIsOne
<1>3. last = CHOOSE j \in DOMAIN rrs : rrs[j] = Record(r) /\ \A k \in j + 1..Len(rrs) : rrs[k] # Record(r)
  BY DEF LastAt
<1>4. LastAdded(rrs, r) <=> SoasUpTo(rrs, last) % 2 = 1
  BY <1>3 DEF LastAdded
<1> HIDE DEF last
<1>5. QED  BY <1>2, <1>4

LEMMA AfterExtended ==
  ASSUME NEW rrs \in Seq(Sendable), Counted(rrs), NEW x \in Sendable, NEW q, Extended(q, rrs, x), NEW from
  PROVE  /\ IsSoa(x) => After(q, from) = After(rrs, from)
         /\ ~IsSoa(x) /\ Count(rrs) % 2 = 1 => After(q, from) = After(rrs, from) \cup {x.record}
         /\ ~IsSoa(x) /\ Count(rrs) % 2 # 1 => After(q, from) = After(rrs, from) \ {x.record}
<1>1. /\ Len(q) = Len(rrs) + 1 /\ DOMAIN q = 1..(Len(rrs) + 1) /\ q[Len(rrs) + 1] = x
      /\ Len(rrs) \in Nat /\ DOMAIN rrs = 1..Len(rrs)
  BY DEF Extended
<1>2. /\ Len(rrs) + 1 \in DOMAIN q /\ DOMAIN rrs \subseteq DOMAIN q /\ DOMAIN q = 1..Len(q) /\ Len(q) \in Nat
      /\ \A i \in DOMAIN rrs : i \in 1..Len(rrs)
  BY <1>1
<1>3. /\ \A i \in 1..Len(rrs) : SoasUpTo(q, i) = SoasUpTo(rrs, i)
      /\ Count(q) = Count(rrs) + IF IsSoa(x) THEN 1 ELSE 0
      /\ SoasUpTo(q, Len(rrs) + 1) = Count(q)
  BY CountOfExtended
<1>4. Mentioned(q) = Mentioned(rrs) \cup IF IsSoa(x) THEN {} ELSE {x.record}
  BY MentionedInExtended
<1>5. ~IsSoa(x) => x = Record(x.record) /\ x.record \in ZoneRecords
  BY SendableFacts
<1>6. IsSoa(x) => \A r : x # Record(r)
  BY SendableFacts
<1>7. \A r : Record(r).record = r
  BY SendableFacts
<1>8. ASSUME NEW r \in Mentioned(rrs), x # Record(r) PROVE LastAdded(q, r) <=> LastAdded(rrs, r)
  <2>1. PICK i \in DOMAIN rrs : LastAt(rrs, r, i)
    BY DEF Counted
  <2>2. LastAt(q, r, i) /\ i \in DOMAIN q
    BY <1>2, <1>8, <2>1, LastInExtended
  <2>3. LastAdded(rrs, r) <=> SoasUpTo(rrs, i) % 2 = 1
    BY <1>1, <2>1, LastAddedIs
  <2>4. LastAdded(q, r) <=> SoasUpTo(q, i) % 2 = 1
    BY <1>2, <2>2, LastAddedIs
  <2>5. QED  BY <1>2, <1>3, <2>3, <2>4
<1>9. ASSUME ~IsSoa(x) PROVE LastAdded(q, x.record) <=> Count(rrs) % 2 = 1
  <2>1. LastAt(q, x.record, Len(rrs) + 1)
    BY <1>5, <1>9, LastInExtended
  <2>2. LastAdded(q, x.record) <=> SoasUpTo(q, Len(rrs) + 1) % 2 = 1
    BY <1>2, <2>1, LastAddedIs
  <2>3. Count(rrs) \in Nat
    BY DEF Counted
  <2>4. SoasUpTo(q, Len(rrs) + 1) = Count(rrs)
    BY <1>3, <1>9, <2>3
  <2>5. QED  BY <2>2, <2>4
<1> DEFINE Becomes(s, r) == IF r \in Mentioned(s) THEN LastAdded(s, r) ELSE r \in from
<1>10. ASSUME NEW r, x # Record(r) PROVE Becomes(q, r) <=> Becomes(rrs, r)
  <2>1. r \in Mentioned(q) <=> r \in Mentioned(rrs)
    BY <1>4, <1>5, <1>10
  <2>2. CASE r \in Mentioned(rrs)
    BY <1>8, <1>10, <2>1, <2>2
  <2>3. CASE r \notin Mentioned(rrs)
    BY <2>1, <2>3
  <2>4. QED  BY <2>2, <2>3
<1>11. ASSUME ~IsSoa(x) PROVE Becomes(q, x.record) <=> Count(rrs) % 2 = 1
  BY <1>4, <1>9, <1>11
<1>12. /\ \A r : r \in After(q, from) <=> r \in ZoneRecords /\ Becomes(q, r)
       /\ \A r : r \in After(rrs, from) <=> r \in ZoneRecords /\ Becomes(rrs, r)
  BY DEF After
<1> HIDE DEF Becomes
<1>13. ASSUME IsSoa(x) PROVE After(q, from) = After(rrs, from)
  <2>1. \A r : r \in After(q, from) <=> r \in After(rrs, from)
    BY <1>6, <1>10, <1>12, <1>13
  <2>2. After(q, from) \subseteq ZoneRecords /\ After(rrs, from) \subseteq ZoneRecords
    BY <1>12
  <2>3. QED  BY <2>1, <2>2
<1>14. ASSUME ~IsSoa(x), NEW r, r # x.record PROVE r \in After(q, from) <=> r \in After(rrs, from)
  BY <1>5, <1>7, <1>10, <1>12, <1>14
<1>15. ASSUME ~IsSoa(x) PROVE x.record \in After(q, from) <=> Count(rrs) % 2 = 1
  BY <1>5, <1>11, <1>12, <1>15
<1>16. ASSUME ~IsSoa(x), Count(rrs) % 2 = 1 PROVE After(q, from) = After(rrs, from) \cup {x.record}
  BY <1>14, <1>15, <1>16
<1>17. ASSUME ~IsSoa(x), Count(rrs) % 2 # 1 PROVE After(q, from) = After(rrs, from) \ {x.record}
  BY <1>14, <1>15, <1>17
<1>18. QED  BY <1>13, <1>16, <1>17

(* all there is of it.                                                      *)

\* What the transaction began with.
Base == IF inbound.rdtype = "AXFR" THEN {} ELSE held.records

\* Of m deletion sets, each but the first is from the serial that the addition
\* set before it leads to, which is not yet the newest.
Sets(rrs, deletes, from, newest, m) ==
    /\ m \in 1..Len(rrs) /\ Count(rrs) = IF deletes THEN 2 * m ELSE 2 * m + 1
    /\ Len(rrs) > 1 /\ IsSoa(rrs[2]) /\ Nth(rrs, 2) = from
    /\ \A k \in 2..m : Nth(rrs, 2 * k) = Nth(rrs, 2 * k - 1) /\ Nth(rrs, 2 * k) # newest

Waiting ==
    /\ inbound.soa = NoSoa /\ received = << >> /\ zone = held
    /\ ~inbound.done /\ ~inbound.expectingSoa /\ ~inbound.deleteMode
    /\ inbound.serial = held.serial

\* One SOA so far, as of an AXFR or of an answer that may become either.
OneSoa ==
    /\ Count(received) = 1 /\ ~inbound.deleteMode
    /\ inbound.rdtype = "IXFR" => Len(received) = 1 /\ inbound.serial = held.serial

InSets ==
    /\ inbound.rdtype = "IXFR"
    /\ \E m \in 1..Len(received) :
         /\ Sets(received, inbound.deleteMode, held.serial, inbound.soa, m)
         /\ ~inbound.deleteMode => inbound.serial = Nth(received, 2 * m + 1)

UnderWay ==
    /\ inbound.soa \in Serials /\ ~inbound.done /\ zone = held
    /\ Len(received) > 0 /\ received[1] = Soa(inbound.soa)
    /\ Count(received) > 0 /\ Nth(received, 1) = inbound.soa
    /\ \E s \in Serials \cup {NoSoa} : txn = <<[serial |-> s, records |-> After(received, Base)]>>
    /\ IF inbound.rdtype = "AXFR" THEN OneSoa /\ ~inbound.expectingSoa
       ELSE IF inbound.expectingSoa THEN OneSoa ELSE InSets

Finished == Transferred(received) \/ (zone = held /\ received = <<Soa(held.serial)>>)
AllThere == inbound.done /\ inbound.soa \in Serials /\ Finished

Inbounds == [rdtype : {"AXFR", "IXFR"}, serial : Serials \cup {NoSoa}, isUdp : BOOLEAN,
             soa : Serials \cup {NoSoa}, done : BOOLEAN, expectingSoa : BOOLEAN, deleteMode : BOOLEAN]

Zones == [serial : Serials \cup {NoSoa}, records : SUBSET ZoneRecords]

ZoneIsWhole == zone = held \/ \E k \in DOMAIN received : Transferred(SubSeq(received, 1, k))

TransferInv ==
    /\ held \in Zones /\ inbound \in Inbounds
    /\ received \in Seq(Sendable) /\ Counted(received)
    /\ transfer = "idle" => received = << >>
    /\ ZoneIsWhole
    /\ transfer = "running" => Waiting \/ UnderWay \/ AllThere
    /\ transfer = "done" => Finished
    /\ transfer # "running" => txn = << >>

LEMMA Halves ==
  ASSUME NEW m \in Nat
  PROVE  (2 * m) % 2 = 0 /\ (2 * m + 1) % 2 = 1 /\ (2 * m) \div 2 = m
OBVIOUS

LEMMA NothingCounted ==
  /\ << >> \in Seq(Sendable) /\ Counted(<< >>) /\ Count(<< >>) = 0
  /\ \A from : from \subseteq ZoneRecords => After(<< >>, from) = from
<1>1. Len(<< >>) = 0 /\ DOMAIN << >> = 1..0 /\ << >> \in Seq(Sendable)
  OBVIOUS
<1>2. 1..0 = {}
  OBVIOUS
<1>3. Count(<< >>) = 0
  <2>1. {j \in 1..0 : IsSoa(<< >>[j])} = {}
    BY <1>2
  <2>2. QED  BY <1>1, <2>1, FS_EmptySet DEF Count, SoasUpTo
<1>4. SoasOf(<< >>) = {} /\ Mentioned(<< >>) = {}
  BY <1>1, <1>2 DEF SoasOf, Mentioned
<1>5. Counted(<< >>)
  BY <1>3, <1>4 DEF Counted
<1>6. \A from : from \subseteq ZoneRecords => After(<< >>, from) = from
  BY <1>4 DEF After
<1>7. QED  BY <1>1, <1>3, <1>5, <1>6

LEMMA OneCounted ==
  ASSUME NEW n \in Serials
  PROVE  /\ <<Soa(n)>> \in Seq(Sendable) /\ Counted(<<Soa(n)>>) /\ Count(<<Soa(n)>>) = 1
         /\ Nth(<<Soa(n)>>, 1) = n
         /\ \A from : from \subseteq ZoneRecords => After(<<Soa(n)>>, from) = from
<1> DEFINE q == <<Soa(n)>>
<1>1. Soa(n) \in Sendable /\ IsSoa(Soa(n)) /\ Soa(n).soa = n
  BY SendableFacts
<1>2. << >> \in Seq(Sendable) /\ Counted(<< >>) /\ Count(<< >>) = 0
  BY NothingCounted
<1>3. q = Append(<< >>, Soa(n))
  OBVIOUS
<1>4. Extended(Append(<< >>, Soa(n)), << >>, Soa(n))
  BY <1>1, <1>2, AppendExtends
<1> HIDE DEF q
<1>5. q \in Seq(Sendable) /\ Extended(q, << >>, Soa(n))
  BY <1>3, <1>4 DEF Extended
<1>6. Count(q) = Count(<< >>) + IF IsSoa(Soa(n)) THEN 1 ELSE 0
  BY <1>1, <1>2, <1>5, CountOfExtended
<1>7. Count(q) = 1
  BY <1>1, <1>2, <1>6
<1>8. Counted(q) /\ (IsSoa(Soa(n)) => Nth(q, Count(q)) = Soa(n).soa)
  BY <1>1, <1>2, <1>5, ExtendedIsCounted
<1>9. ASSUME NEW from PROVE After(q, from) = After(<< >>, from)
  <2> DEFINE e == << >>
              x == Soa(n)
  <2>1. e \in Seq(Sendable) /\ Counted(e) /\ Extended(q, e, x) /\ x \in Sendable /\ IsSoa(x)
    BY <1>1, <1>2, <1>5
  <2> HIDE DEF e, x
  <2>2. After(q, from) = After(e, from)
    BY <2>1, AfterExtended
  <2>3. QED  BY <2>2 DEF e
<1>10. QED  BY <1>1, <1>5, <1>7, <1>8, <1>9, NothingCounted DEF q

LEMMA CountWithinLength ==
  ASSUME NEW rrs \in Seq(Sendable)
  PROVE  Len(rrs) \in Nat /\ Count(rrs) \in Nat /\ Count(rrs) <= Len(rrs) /\ DOMAIN rrs = 1..Len(rrs)
<1>1. Len(rrs) \in Nat /\ DOMAIN rrs = 1..Len(rrs)
  BY LenProperties
<1>2. QED  BY <1>1, SoasFinite DEF Count

LEMMA WholeIxfr ==
  ASSUME NEW q \in Seq(Sendable), NEW from, NEW m \in Nat, m > 1, Count(q) = 2 * m,
         q[Len(q)] = q[1], IsSoa(q[1]), IsSoa(q[2]), Nth(q, 2) = from,
         \A k \in 2..m : Nth(q, 2 * k) = Nth(q, 2 * k - 1),
         \A k \in 2..m - 1 : Nth(q, 2 * k) # Nth(q, 1)
  PROVE  CompleteIxfr(q, from)
<1>1. Len(q) \in Nat /\ Count(q) <= Len(q) /\ DOMAIN q = 1..Len(q)
  BY CountWithinLength
<1>2. Cardinality(SoasOf(q)) = 2 * m
  BY <1>1 DEF SoasOf, Count, SoasUpTo
<1>3. (2 * m) % 2 = 0 /\ (2 * m) \div 2 = m /\ 2 * m > 3
  BY Halves
<1>4. Len(q) > 3
  BY <1>1, <1>3
<1> DEFINE soas == {i \in DOMAIN q : IsSoa(q[i])}
           nth(k) == q[CHOOSE i \in soas : SoasUpTo(q, i) = k].soa
           n == Cardinality(soas)
<1>5. n = 2 * m /\ \A k : nth(k) = Nth(q, k)
  BY <1>2 DEF Nth, SoasOf
<1>6. CompleteIxfr(q, from) <=>
        /\ Len(q) > 3 /\ q[Len(q)] = q[1] /\ n % 2 = 0 /\ n > 3
        /\ IsSoa(q[1]) /\ IsSoa(q[2]) /\ nth(2) = from
        /\ \A k \in 2..n \div 2 : nth(2 * k) = nth(2 * k - 1)
        /\ \A k \in 2..n \div 2 - 1 : nth(2 * k) # nth(1)
  BY DEF CompleteIxfr
<1> HIDE DEF n, nth
<1>7. n % 2 = 0 /\ n > 3 /\ n \div 2 = m
  BY <1>3, <1>5
<1>8. /\ \A k \in 2..n \div 2 : nth(2 * k) = nth(2 * k - 1)
      /\ \A k \in 2..n \div 2 - 1 : nth(2 * k) # nth(1)
  BY <1>5, <1>7
<1>9. nth(2) = from
  BY <1>5
<1>10. QED  BY <1>4, <1>6, <1>7, <1>8, <1>9

LEMMA PrefixOfExtended ==
  ASSUME NEW rrs \in Seq(Sendable), NEW x \in Sendable, NEW q, Extended(q, rrs, x)
  PROVE  /\ \A k \in DOMAIN rrs : k \in DOMAIN q /\ SubSeq(q, 1, k) = SubSeq(rrs, 1, k)
         /\ Len(q) \in DOMAIN q /\ SubSeq(q, 1, Len(q)) = q
<1>1. /\ q \in Seq(Sendable) /\ Len(q) = Len(rrs) + 1 /\ DOMAIN q = 1..(Len(rrs) + 1)
      /\ \A i \in 1..Len(rrs) : q[i] = rrs[i]
      /\ Len(rrs) \in Nat /\ DOMAIN rrs = 1..Len(rrs)
  BY DEF Extended
<1>2. ASSUME NEW k \in DOMAIN rrs PROVE k \in DOMAIN q /\ SubSeq(q, 1, k) = SubSeq(rrs, 1, k)
  <2>1. k \in 1..Len(rrs) /\ k \in 1..(Len(rrs) + 1)
    BY <1>1
  <2>2. /\ SubSeq(q, 1, k) \in Seq(Sendable) /\ Len(SubSeq(q, 1, k)) = k
        /\ \A i \in 1..k : SubSeq(q, 1, k)[i] = q[i]
    BY <1>1, <2>1
  <2>3. /\ SubSeq(rrs, 1, k) \in Seq(Sendable) /\ Len(SubSeq(rrs, 1, k)) = k
        /\ \A i \in 1..k : SubSeq(rrs, 1, k)[i] = rrs[i]
    BY <1>1, <2>1
  <2>4. \A i \in 1..k : i \in 1..Len(rrs)
    BY <2>1
  <2>5. QED  BY <1>1, <2>1, <2>2, <2>3, <2>4, SeqEqual
<1>3. Len(q) \in DOMAIN q
  BY <1>1
<1>4. SubSeq(q, 1, Len(q)) = q
  BY <1>1
<1>5. QED  BY <1>2, <1>3, <1>4

\* What the steps change of an Inbound.
LEMMA Prepared ==
  ASSUME NEW mode, NEW rdtype \in {"AXFR", "IXFR"}, NEW serial \in Serials \cup {NoSoa}
  PROVE  /\ NewInbound(mode, rdtype, serial) \in Inbounds
         /\ NewInbound(mode, rdtype, serial).rdtype = rdtype
         /\ NewInbound(mode, rdtype, serial).serial = serial
         /\ NewInbound(mode, rdtype, serial).soa = NoSoa
         /\ ~NewInbound(mode, rdtype, serial).done
         /\ ~NewInbound(mode, rdtype, serial).expectingSoa
         /\ ~NewInbound(mode, rdtype, serial).deleteMode
BY DEF NewInbound, Inbounds

LEMMA TransferBegins == TransferInit => TransferInv
<1> SUFFICES ASSUME TransferInit PROVE TransferInv
  OBVIOUS
<1>1. held = NoZone /\ zone = held /\ inbound = NewInbound("NEVER", "AXFR", NoSoa)
      /\ transfer = "idle" /\ txn = << >> /\ received = << >>
  BY DEF TransferInit
<1>2. held \in Zones
  BY <1>1 DEF NoZone, Zones
<1>3. inbound \in Inbounds
  BY <1>1, Prepared
<1>4. received \in Seq(Sendable) /\ Counted(received)
  BY <1>1, NothingCounted
<1>5. QED  BY <1>1, <1>2, <1>3, <1>4 DEF TransferInv, ZoneIsWhole

\* A transfer that fails leaves the zone as it is.
LEMMA FailingStep ==
  ASSUME TransferInv, UNCHANGED <<held, zone, received, inbound>>, transfer' \in {"failed", "UseTCP"}, txn' = << >>
  PROVE  TransferInv'
<1>1. /\ held \in Zones /\ inbound \in Inbounds /\ received \in Seq(Sendable) /\ Counted(received)
      /\ ZoneIsWhole
  BY DEF TransferInv
<1>2. ZoneIsWhole'
  BY <1>1 DEF ZoneIsWhole, Transferred
<1>3. transfer' # "idle" /\ transfer' # "running" /\ transfer' # "done"
  OBVIOUS
<1>4. Counted(received)'
  BY <1>1
<1>5. QED  BY <1>1, <1>2, <1>3, <1>4 DEF TransferInv

\* Nothing that the invariant speaks of changes while the transfer goes on, or
\* it ends where all records are there.
LEMMA QuietStep ==
  ASSUME TransferInv, UNCHANGED <<held, zone, received, inbound>>,
         \/ UNCHANGED <<transfer, txn>>
         \/ transfer = "running" /\ inbound.done /\ transfer' = "done" /\ txn' = << >>
  PROVE  TransferInv'
<1>1. /\ held \in Zones /\ inbound \in Inbounds /\ received \in Seq(Sendable) /\ Counted(received)
      /\ ZoneIsWhole
      /\ transfer = "idle" => received = << >>
      /\ transfer = "running" => Waiting \/ UnderWay \/ AllThere
      /\ transfer = "done" => Finished
      /\ transfer # "running" => txn = << >>
  BY DEF TransferInv
<1>2. ZoneIsWhole'
  BY <1>1 DEF ZoneIsWhole, Transferred
<1>3. Transferred(received)' <=> Transferred(received)
  BY DEF Transferred
<1>4. (Finished' <=> Finished) /\ (Waiting' <=> Waiting) /\ (AllThere' <=> AllThere)
  BY <1>3 DEF Finished, Waiting, AllThere
<1>5. CASE UNCHANGED <<transfer, txn>>
  <2>1. UnderWay' <=> UnderWay
    BY <1>5 DEF UnderWay, OneSoa, InSets, Base
  <2>2. QED  BY <1>1, <1>2, <1>4, <1>5, <2>1 DEF TransferInv
<1>6. CASE transfer = "running" /\ inbound.done /\ transfer' = "done" /\ txn' = << >>
  <2>1. Finished'
    BY <1>1, <1>4, <1>6 DEF Waiting, UnderWay, AllThere
  <2>2. QED  BY <1>1, <1>2, <1>6, <2>1 DEF TransferInv
<1>7. QED  BY <1>5, <1>6

LEMMA InboundXfrStep == ASSUME TransferInv, InboundXfr PROVE TransferInv'
<1>1. /\ transfer = "idle" /\ transfer' = "running" /\ held' \in HeldZones /\ zone' = held'
      /\ UNCHANGED <<txn, inMessage, received>>
  BY DEF InboundXfr
<1>2. received = << >> /\ received \in Seq(Sendable) /\ Counted(received)
  BY <1>1 DEF TransferInv
<1>3. held' \in Zones /\ held'.serial \in Serials \cup {NoSoa}
  BY <1>1, TransferAssumption DEF Zones
<1>4. PICK rdtype \in {"AXFR", "IXFR"} : inbound' = NewInbound(udpMode', rdtype, held'.serial)
  BY DEF InboundXfr
<1>5. /\ inbound' \in Inbounds /\ inbound'.soa = NoSoa /\ inbound'.serial = held'.serial
      /\ ~inbound'.done /\ ~inbound'.expectingSoa /\ ~inbound'.deleteMode
  BY <1>3, <1>4, Prepared
<1>6. Waiting'
  BY <1>1, <1>2, <1>5 DEF Waiting
<1>7. Counted(received)'
  BY <1>1, <1>2
<1>8. QED  BY <1>1, <1>2, <1>3, <1>5, <1>6, <1>7 DEF TransferInv, ZoneIsWhole

LEMMA UseTcpStep == ASSUME TransferInv, UseTcp PROVE TransferInv'
<1>1. /\ transfer = "running" /\ Len(received) = 1 /\ ~inbound.done
      /\ txn' = << >> /\ UNCHANGED <<held, zone>>
  BY DEF UseTcp, Leave
<1>2. CASE udpMode = "ONLY"
  BY <1>1, <1>2, FailingStep DEF UseTcp
<1>3. CASE udpMode # "ONLY"
  <2>1. inbound' = NewInbound("NEVER", "IXFR", held.serial) /\ received' = << >> /\ transfer' = "running"
    BY <1>1, <1>3 DEF UseTcp
  <2>2. zone = held /\ held \in Zones
    BY <1>1 DEF TransferInv, Waiting, UnderWay, AllThere
  <2>3. held.serial \in Serials \cup {NoSoa}
    BY <2>2 DEF Zones
  <2>4. /\ inbound' \in Inbounds /\ inbound'.soa = NoSoa /\ inbound'.serial = held.serial
        /\ ~inbound'.done /\ ~inbound'.expectingSoa /\ ~inbound'.deleteMode
    BY <2>1, <2>3, Prepared
  <2>5. Waiting'
    BY <1>1, <2>1, <2>2, <2>4 DEF Waiting
  <2>6. received' \in Seq(Sendable) /\ Counted(received)'
    BY <2>1, NothingCounted
  <2>7. QED  BY <1>1, <2>1, <2>2, <2>4, <2>5, <2>6 DEF TransferInv, ZoneIsWhole
<1>4. QED  BY <1>2, <1>3

LEMMA FirstSoaStep == ASSUME TransferInv, FirstSoa PROVE TransferInv'
<1>1. transfer = "running" /\ UNCHANGED <<held, zone>> /\ inbound.soa = NoSoa
  BY DEF FirstSoa, MayReceive
<1>2. inbound \in Inbounds /\ held \in Zones
  BY DEF TransferInv
<1>3. zone = held /\ inbound.serial = held.serial /\ ~inbound.deleteMode /\ ~inbound.expectingSoa /\ ~inbound.done
  BY <1>1, TransferAssumption DEF TransferInv, Waiting, UnderWay, AllThere
<1>4. PICK n \in Serials :
        /\ received' = <<Soa(n)>>
        /\ IF inbound.rdtype = "IXFR" /\ SerialLess(n, inbound.serial)
           THEN transfer' = "failed" /\ Leave /\ UNCHANGED inbound
           ELSE /\ txn' = <<Begun>>
                /\ inbound' = [inbound EXCEPT !.soa = n,
                                  !.done = (inbound.rdtype = "IXFR" /\ n = inbound.serial),
                                  !.expectingSoa = (inbound.rdtype = "IXFR" /\ n # inbound.serial)]
                /\ UNCHANGED transfer
  BY DEF FirstSoa
<1>5. received' \in Seq(Sendable) /\ Counted(received)'
  BY <1>4, OneCounted
<1>6. held' \in Zones /\ zone' = held'
  BY <1>1, <1>2, <1>3
<1>7. CASE inbound.rdtype = "IXFR" /\ SerialLess(n, inbound.serial)
  <2>1. transfer' = "failed" /\ txn' = << >> /\ inbound' = inbound
    BY <1>4, <1>7 DEF Leave
  <2>2. QED  BY <1>2, <1>5, <1>6, <2>1 DEF TransferInv, ZoneIsWhole
<1>8. CASE ~(inbound.rdtype = "IXFR" /\ SerialLess(n, inbound.serial))
  <2>1. /\ txn' = <<Begun>> /\ transfer' = "running"
        /\ inbound' = [inbound EXCEPT !.soa = n,
                          !.done = (inbound.rdtype = "IXFR" /\ n = inbound.serial),
                          !.expectingSoa = (inbound.rdtype = "IXFR" /\ n # inbound.serial)]
    BY <1>1, <1>4, <1>8
  <2>2. /\ inbound' \in Inbounds /\ inbound'.soa = n /\ inbound'.rdtype = inbound.rdtype
        /\ inbound'.serial = held.serial /\ ~inbound'.deleteMode
        /\ (inbound'.done <=> inbound.rdtype = "IXFR" /\ n = held.serial)
        /\ (inbound'.expectingSoa <=> inbound.rdtype = "IXFR" /\ n # held.serial)
    BY <1>2, <1>3, <2>1 DEF Inbounds
  <2>3. CASE inbound'.done
    <3>1. received' = <<Soa(held'.serial)>>
      BY <1>1, <1>4, <2>2, <2>3
    <3>2. AllThere'
      BY <1>6, <2>2, <2>3, <3>1 DEF AllThere, Finished
    <3>3. QED  BY <1>5, <1>6, <2>1, <2>2, <3>2 DEF TransferInv, ZoneIsWhole
  <2>4. CASE ~inbound'.done
    <3>1. Count(received') = 1 /\ Nth(received', 1) = n /\ Len(received') = 1 /\ received'[1] = Soa(n)
      BY <1>4, OneCounted
    <3>2. Base' \subseteq ZoneRecords /\ \E s \in Serials \cup {NoSoa} : Begun = [serial |-> s, records |-> Base']
      <4>1. CASE inbound.rdtype = "AXFR"
        BY <2>2, <4>1 DEF Begun, Base, NoZone
      <4>2. CASE inbound.rdtype # "AXFR"
        <5>1. Base' = held.records /\ Begun = held
          BY <1>1, <1>3, <2>2, <4>2 DEF Begun, Base
        <5>2. held.serial \in Serials \cup {NoSoa} /\ held.records \subseteq ZoneRecords
              /\ held = [serial |-> held.serial, records |-> held.records]
          BY <1>2 DEF Zones
        <5>3. QED  BY <5>1, <5>2
      <4>3. QED  BY <4>1, <4>2
    <3>3. After(received', Base') = Base'
      BY <1>4, <3>2, OneCounted
    <3>4. \E s \in Serials \cup {NoSoa} : txn' = <<[serial |-> s, records |-> After(received', Base')]>>
      BY <2>1, <3>2, <3>3
    <3>5. OneSoa'
      BY <1>1, <2>2, <3>1 DEF OneSoa
    <3>6. inbound'.rdtype = "AXFR" => ~inbound'.expectingSoa
      BY <2>2
    <3>7. inbound'.rdtype # "AXFR" => inbound'.expectingSoa
      BY <1>2, <2>2, <2>4 DEF Inbounds
    <3>8. UnderWay'
      BY <1>6, <2>2, <2>4, <3>1, <3>4, <3>5, <3>6, <3>7 DEF UnderWay
    <3>9. QED  BY <1>5, <1>6, <2>1, <2>2, <3>8 DEF TransferInv, ZoneIsWhole
  <2>5. QED  BY <2>3, <2>4
<1>9. QED  BY <1>7, <1>8

LEMMA Doubles ==
  ASSUME NEW m \in Nat, NEW c \in Nat, 2 * m <= c
  PROVE  \A k \in 2..m : 2 * k \in 1..c /\ 2 * k - 1 \in 1..c
OBVIOUS

\* Taking one more record, the transaction goes on or fails.
LEMMA OneMore ==
  ASSUME TransferInv, NEW x \in Sendable, received' = Append(received, x)
  PROVE  /\ received' \in Seq(Sendable) /\ Counted(received') /\ Extended(received', received, x)
         /\ Count(received') = Count(received) + IF IsSoa(x) THEN 1 ELSE 0
         /\ Count(received) \in Nat /\ Len(received) \in Nat /\ Count(received) <= Len(received)
         /\ Len(received') = Len(received) + 1 /\ received'[Len(received) + 1] = x
         /\ \A i \in 1..Len(received) : received'[i] = received[i]
         /\ \A k \in 1..Count(received) : Nth(received', k) = Nth(received, k)
         /\ IsSoa(x) => Nth(received', Count(received) + 1) = x.soa
<1>1. received \in Seq(Sendable) /\ Counted(received)
  BY DEF TransferInv
<1>2. Extended(received', received, x)
  BY <1>1, AppendExtends
<1>3. /\ received' \in Seq(Sendable) /\ Len(received') = Len(received) + 1 /\ received'[Len(received) + 1] = x
      /\ \A i \in 1..Len(received) : received'[i] = received[i]
  BY <1>2 DEF Extended
<1>4. Count(received) \in Nat /\ Len(received) \in Nat /\ Count(received) <= Len(received)
  BY <1>1, CountWithinLength
<1>5. Count(received') = Count(received) + IF IsSoa(x) THEN 1 ELSE 0
  BY <1>1, <1>2, CountOfExtended
<1>6. /\ Counted(received')
      /\ \A k \in 1..Count(received) : Nth(received', k) = Nth(received, k)
      /\ IsSoa(x) => Nth(received', Count(received')) = x.soa
  BY <1>1, <1>2, ExtendedIsCounted
<1>7. IsSoa(x) => Count(received') = Count(received) + 1
  BY <1>5
<1>8. QED  BY <1>2, <1>3, <1>4, <1>5, <1>6, <1>7

LEMMA RefusedRecord ==
  ASSUME TransferInv, NEW x \in Sendable, received' = Append(received, x),
         transfer' = "failed", txn' = << >>, UNCHANGED <<held, zone, inbound>>
  PROVE  TransferInv'
<1>1. received \in Seq(Sendable) /\ held \in Zones /\ inbound \in Inbounds /\ ZoneIsWhole
  BY DEF TransferInv
<1>2. received' \in Seq(Sendable) /\ Counted(received') /\ Extended(received', received, x)
  BY OneMore
<1>3. \A k \in DOMAIN received : k \in DOMAIN received' /\ SubSeq(received', 1, k) = SubSeq(received, 1, k)
  BY <1>1, <1>2, PrefixOfExtended
<1>4. ZoneIsWhole'
  BY <1>1, <1>3 DEF ZoneIsWhole, Transferred
<1>5. QED  BY <1>1, <1>2, <1>4 DEF TransferInv

LEMMA InTransfer ==
  ASSUME TransferInv, transfer = "running", inbound.soa # NoSoa, ~inbound.done
  PROVE  UnderWay
BY DEF TransferInv, Waiting, AllThere

\* The last SOA of all commits what the transaction has made.
LEMMA LastSoa ==
  ASSUME TransferInv, UnderWay, received' = Append(received, Soa(inbound.soa)), inbound' \in Inbounds,
         inbound'.soa = inbound.soa, inbound'.done, transfer' = "running", held' = held,
         zone' = [txn[1] EXCEPT !.serial = inbound.soa],
         \/ inbound.rdtype = "AXFR"
         \/ InSets /\ ~inbound.deleteMode /\ inbound.serial = inbound.soa
  PROVE  TransferInv'
<1> DEFINE n == inbound.soa
<1>0. PICK q : q = received'
  OBVIOUS
<1>1. /\ n \in Serials /\ Len(received) > 0 /\ received[1] = Soa(n) /\ Count(received) > 0
      /\ Nth(received, 1) = n
  BY DEF UnderWay
<1>2. Soa(n) \in Sendable /\ IsSoa(Soa(n)) /\ Soa(n).soa = n
  BY <1>1, SendableFacts
<1>3. received \in Seq(Sendable) /\ Counted(received) /\ held \in Zones
  BY DEF TransferInv
<1>4. /\ q \in Seq(Sendable) /\ Counted(q) /\ Extended(q, received, Soa(n))
      /\ Count(q) = Count(received) + 1
      /\ Count(received) \in Nat /\ Len(received) \in Nat /\ Count(received) <= Len(received)
      /\ Len(q) = Len(received) + 1 /\ q[Len(received) + 1] = Soa(n)
      /\ \A i \in 1..Len(received) : q[i] = received[i]
      /\ \A k \in 1..Count(received) : Nth(q, k) = Nth(received, k)
      /\ Nth(q, Count(received) + 1) = n
  BY <1>0, <1>2, OneMore
<1>5. q[1] = Soa(n) /\ IsSoa(q[1]) /\ q[Len(q)] = q[1] /\ Len(q) > 1
  BY <1>1, <1>2, <1>4
<1>6. PICK s \in Serials \cup {NoSoa} : txn = <<[serial |-> s, records |-> After(received, Base)]>>
  BY DEF UnderWay
<1>7. After(q, Base) = After(received, Base)
  BY <1>2, <1>3, <1>4, AfterExtended
<1>8. zone' = [serial |-> n, records |-> After(q, Base)]
  BY <1>6, <1>7
<1>9. zone' = AfterTransfer(q, Base)
  BY <1>2, <1>5, <1>8 DEF AfterTransfer, After
<1>10. \/ CompleteAxfr(q) /\ Base = {}
       \/ CompleteIxfr(q, held.serial) /\ Base = held.records
  <2>1. CASE inbound.rdtype = "AXFR"
    <3>1. Count(received) = 1
      BY <2>1 DEF UnderWay, OneSoa
    <3>2. Count(q) = 2
      BY <1>4, <3>1
    <3>3. CompleteAxfr(q)
      BY <1>5, <3>2 DEF CompleteAxfr, Count
    <3>4. QED  BY <2>1, <3>3 DEF Base
  <2>2. CASE InSets /\ ~inbound.deleteMode /\ inbound.serial = n
    <3>1. Base = held.records
      BY <2>2 DEF InSets, Base
    <3>2. PICK m \in 1..Len(received) : /\ Sets(received, inbound.deleteMode, held.serial, n, m)
                                        /\ inbound.serial = Nth(received, 2 * m + 1)
      BY <2>2 DEF InSets
    <3>3. /\ Count(received) = 2 * m + 1 /\ Len(received) > 1 /\ IsSoa(received[2]) /\ Nth(received, 2) = held.serial
          /\ \A k \in 2..m : Nth(received, 2 * k) = Nth(received, 2 * k - 1) /\ Nth(received, 2 * k) # n
      BY <2>2, <3>2 DEF Sets
    <3>4. m \in Nat /\ m >= 1 /\ m + 1 \in Nat /\ Count(q) = 2 * (m + 1)
      BY <1>4, <3>3
    <3>5. IsSoa(q[2]) /\ Nth(q, 2) = held.serial /\ Nth(q, 1) = n
      <4>1. 2 \in 1..Count(received) /\ 1 \in 1..Count(received) /\ 2 \in 1..Len(received)
        BY <1>4, <3>3, <3>4
      <4>2. QED  BY <1>1, <1>4, <3>3, <4>1
    <3>6. \A k \in 2..m : Nth(q, 2 * k) = Nth(q, 2 * k - 1) /\ Nth(q, 2 * k) # n
      <4>1. \A k \in 2..m : 2 * k \in 1..Count(received) /\ 2 * k - 1 \in 1..Count(received)
        <5>1. 2 * m <= Count(received)
          BY <3>3, <3>4
        <5>2. QED  BY <1>4, <3>4, <5>1, Doubles
      <4>2. QED  BY <1>4, <3>3, <4>1
    <3>7. Nth(q, 2 * (m + 1)) = n /\ Nth(q, 2 * (m + 1) - 1) = n
      <4>1. 2 * (m + 1) = Count(received) + 1 /\ 2 * (m + 1) - 1 = 2 * m + 1 /\ 2 * m + 1 \in 1..Count(received)
        BY <3>3, <3>4
      <4>2. QED  BY <1>4, <2>2, <3>2, <4>1
    <3>8. \A k \in 2..m + 1 : k \in 2..m \/ k = m + 1
      BY <3>4
    <3>9. \A k \in 2..m + 1 : Nth(q, 2 * k) = Nth(q, 2 * k - 1)
      BY <3>6, <3>7, <3>8
    <3>10. \A k \in 2..(m + 1) - 1 : Nth(q, 2 * k) # Nth(q, 1)
      BY <3>4, <3>5, <3>6
    <3>11. CompleteIxfr(q, held.serial)
      <4> DEFINE M == m + 1
      <4>1. /\ M \in Nat /\ M > 1 /\ Count(q) = 2 * M
            /\ \A k \in 2..M : Nth(q, 2 * k) = Nth(q, 2 * k - 1)
            /\ \A k \in 2..M - 1 : Nth(q, 2 * k) # Nth(q, 1)
        BY <3>4, <3>9, <3>10
      <4> HIDE DEF M
      <4>2. QED  BY <1>4, <1>5, <3>5, <4>1, WholeIxfr
    <3>12. QED  BY <3>1, <3>11
  <2>3. QED  BY <2>1, <2>2
<1>11. Transferred(q)'
  <2>1. \/ CompleteAxfr(q) /\ zone' = AfterTransfer(q, {})
        \/ CompleteIxfr(q, held.serial) /\ zone' = AfterTransfer(q, held.records)
    BY <1>9, <1>10
  <2>2. QED  BY <2>1 DEF Transferred
<1>12. Len(q) \in DOMAIN q /\ SubSeq(q, 1, Len(q)) = q
  BY <1>2, <1>3, <1>4, PrefixOfExtended
<1>13. ZoneIsWhole'
  BY <1>0, <1>11, <1>12 DEF ZoneIsWhole
<1>14. AllThere'
  BY <1>0, <1>1, <1>11 DEF AllThere, Finished
<1>15. QED  BY <1>0, <1>3, <1>4, <1>13, <1>14 DEF TransferInv

\* An SOA within the answer begins a deletion set or an addition set.
LEMMA AnotherSoa ==
  ASSUME TransferInv, UnderWay, NEW n \in Serials, received' = Append(received, Soa(n)), inbound' \in Inbounds,
         inbound.rdtype = "IXFR", inbound'.rdtype = "IXFR", inbound'.soa = inbound.soa, ~inbound'.done,
         ~inbound'.expectingSoa, inbound'.deleteMode = ~inbound.deleteMode,
         inbound'.serial = IF inbound.deleteMode THEN n ELSE inbound.serial,
         transfer' = "running", UNCHANGED <<held, zone>>,
         IF inbound.deleteMode THEN txn' = <<[txn[1] EXCEPT !.serial = n]>>
         ELSE txn' = txn /\ n = inbound.serial /\ n # inbound.soa
  PROVE  TransferInv'
<1>0. PICK q : q = received'
  OBVIOUS
<1>1. /\ inbound.soa \in Serials /\ Len(received) > 0 /\ received[1] = Soa(inbound.soa) /\ Count(received) > 0
      /\ Nth(received, 1) = inbound.soa /\ zone = held
  BY DEF UnderWay
<1>2. Soa(n) \in Sendable /\ IsSoa(Soa(n)) /\ Soa(n).soa = n
  BY SendableFacts
<1>3. received \in Seq(Sendable) /\ Counted(received) /\ held \in Zones /\ inbound \in Inbounds
  BY DEF TransferInv
<1>4. /\ q \in Seq(Sendable) /\ Counted(q) /\ Extended(q, received, Soa(n))
      /\ Count(q) = Count(received) + 1
      /\ Count(received) \in Nat /\ Len(received) \in Nat /\ Count(received) <= Len(received)
      /\ Len(q) = Len(received) + 1 /\ q[Len(received) + 1] = Soa(n)
      /\ \A i \in 1..Len(received) : q[i] = received[i]
      /\ \A k \in 1..Count(received) : Nth(q, k) = Nth(received, k)
      /\ Nth(q, Count(received) + 1) = n
  BY <1>0, <1>2, OneMore
<1>5. q[1] = Soa(inbound'.soa) /\ Count(q) > 0 /\ Len(q) > 0 /\ Nth(q, 1) = inbound'.soa
  BY <1>1, <1>4
<1>6. PICK s \in Serials \cup {NoSoa} : txn = <<[serial |-> s, records |-> After(received, Base)]>>
  BY DEF UnderWay
<1>7. After(q, Base) = After(received, Base) /\ Base' = Base
  BY <1>2, <1>3, <1>4, AfterExtended DEF Base
<1>8. \E t \in Serials \cup {NoSoa} : txn' = <<[serial |-> t, records |-> After(q, Base')]>>
  BY <1>6, <1>7
<1>9. InSets'
  <2>1. CASE inbound.expectingSoa
    <3>1. Len(received) = 1 /\ Count(received) = 1 /\ inbound.serial = held.serial /\ ~inbound.deleteMode
      BY <2>1 DEF UnderWay, OneSoa
    <3>2. Count(q) = 2 /\ Len(q) = 2 /\ IsSoa(q[2]) /\ Nth(q, 2) = held.serial
      BY <1>2, <1>4, <3>1
    <3>3. Sets(q, TRUE, held.serial, inbound.soa, 1) /\ 1 \in 1..Len(q)
      BY <3>2 DEF Sets
    <3>4. QED  BY <1>0, <3>1, <3>3 DEF InSets
  <2>2. CASE ~inbound.expectingSoa
    <3>1. PICK m \in 1..Len(received) : /\ Sets(received, inbound.deleteMode, held.serial, inbound.soa, m)
                                        /\ ~inbound.deleteMode => inbound.serial = Nth(received, 2 * m + 1)
      BY <2>2 DEF UnderWay, InSets
    <3>2. /\ Count(received) = (IF inbound.deleteMode THEN 2 * m ELSE 2 * m + 1)
          /\ Len(received) > 1 /\ IsSoa(received[2]) /\ Nth(received, 2) = held.serial
          /\ \A k \in 2..m : Nth(received, 2 * k) = Nth(received, 2 * k - 1) /\ Nth(received, 2 * k) # inbound.soa
      BY <3>1 DEF Sets
    <3>3. m \in Nat /\ m >= 1 /\ m \in 1..Len(q) /\ m + 1 \in 1..Len(q) /\ 2 * m <= Count(received)
      BY <1>4, <3>2
    <3>4. Len(q) > 1 /\ IsSoa(q[2]) /\ Nth(q, 2) = held.serial
      <4>1. 2 \in 1..Count(received) /\ 2 \in 1..Len(received)
        BY <1>4, <3>2, <3>3
      <4>2. q[2] = received[2] /\ Nth(q, 2) = Nth(received, 2)
        BY <1>4, <4>1
      <4>3. Len(q) > 1
        BY <1>4, <4>1
      <4>4. QED  BY <3>2, <4>2, <4>3
    <3>5. \A k \in 2..m : Nth(q, 2 * k) = Nth(q, 2 * k - 1) /\ Nth(q, 2 * k) # inbound.soa
      <4>1. \A k \in 2..m : 2 * k \in 1..Count(received) /\ 2 * k - 1 \in 1..Count(received)
        BY <1>4, <3>3, Doubles
      <4>2. QED  BY <1>4, <3>2, <4>1
    <3>6. CASE inbound.deleteMode
      <4>1. Count(q) = 2 * m + 1 /\ Nth(q, 2 * m + 1) = n
        BY <1>4, <3>2, <3>6
      <4>2. Sets(q, FALSE, held.serial, inbound.soa, m)
        BY <3>3, <3>4, <3>5, <4>1 DEF Sets
      <4>3. QED  BY <1>0, <3>3, <3>6, <4>1, <4>2 DEF InSets
    <3>7. CASE ~inbound.deleteMode
      <4> DEFINE M == m + 1
      <4>0. Count(received) = 2 * m + 1 /\ m \in Int
        BY <3>2, <3>3, <3>7
      <4>1. Count(received) = 2 * m + 1 /\ 2 * M = Count(received) + 1 /\ 2 * M - 1 = 2 * m + 1
        <5>1. 2 * (m + 1) = 2 * m + 1 + 1 /\ 2 * (m + 1) - 1 = 2 * m + 1
          BY <4>0
        <5>2. QED  BY <4>0, <5>1
      <4>2. Count(q) = 2 * M /\ Nth(q, 2 * M) = n /\ Nth(q, 2 * M - 1) = n
        BY <1>4, <3>1, <3>3, <3>7, <4>1
      <4>3. \A k \in 2..M : k \in 2..m \/ k = M
        BY <3>3
      <4>4. \A k \in 2..M : Nth(q, 2 * k) = Nth(q, 2 * k - 1) /\ Nth(q, 2 * k) # inbound.soa
        BY <3>5, <3>7, <4>2, <4>3
      <4>5. Sets(q, TRUE, held.serial, inbound.soa, M)
        BY <3>3, <3>4, <4>2, <4>4 DEF Sets
      <4>6. QED  BY <1>0, <3>3, <3>7, <4>5 DEF InSets
    <3>8. QED  BY <3>6, <3>7
  <2>3. QED  BY <2>1, <2>2
<1>10. UnderWay'
  BY <1>0, <1>1, <1>5, <1>8, <1>9 DEF UnderWay
<1>11. QED  BY <1>0, <1>1, <1>3, <1>4, <1>10 DEF TransferInv, ZoneIsWhole

LEMMA OriginSoaStep ==
  ASSUME TransferInv, transfer = "running", transfer' = "running", UNCHANGED held,
         inbound.soa # NoSoa, ~inbound.done, NEW n \in Serials, received' = Append(received, Soa(n)),
         SoaFits(n), OriginSoa(n)
  PROVE  TransferInv'
<1>1. UnderWay /\ inbound \in Inbounds
  BY InTransfer DEF TransferInv
<1>2. inbound.rdtype \in {"AXFR", "IXFR"} /\ inbound.deleteMode \in BOOLEAN /\ inbound.expectingSoa \in BOOLEAN
      /\ inbound.serial \in Serials \cup {NoSoa} /\ inbound.soa \in Serials /\ zone = held
  BY <1>1 DEF Inbounds, UnderWay
<1> DEFINE deletes == inbound.rdtype = "IXFR" /\ ~inbound.deleteMode
           ends == n = inbound.soa /\ (inbound.rdtype = "AXFR" \/ deletes)
<1>3. /\ inbound' = [inbound EXCEPT !.deleteMode = deletes, !.expectingSoa = FALSE, !.done = ends,
                        !.serial = IF ends \/ deletes THEN @ ELSE n]
      /\ ends => zone' = [txn[1] EXCEPT !.serial = n] /\ txn' = << >>
      /\ ~ends => txn' = (IF deletes THEN txn ELSE <<[txn[1] EXCEPT !.serial = n]>>) /\ zone' = zone
  BY DEF OriginSoa
<1>4. /\ ends => ~inbound.expectingSoa /\ (deletes => n = inbound.serial)
      /\ ~ends => inbound.rdtype # "AXFR" /\ (deletes => n = inbound.serial)
  BY DEF SoaFits
<1>5. (ends \in BOOLEAN) /\ (deletes \in BOOLEAN)
  OBVIOUS
<1>6. inbound.expectingSoa => inbound.rdtype = "IXFR" /\ ~inbound.deleteMode
  BY <1>1, <1>2 DEF UnderWay, OneSoa
<1>7. CASE ends
  <2>1. inbound' \in Inbounds /\ inbound'.soa = inbound.soa /\ inbound'.done
    BY <1>1, <1>3, <1>5, <1>7 DEF Inbounds
  <2>2. n = inbound.soa /\ zone' = [txn[1] EXCEPT !.serial = inbound.soa] /\ held' = held
    BY <1>3, <1>7
  <2>3. ~inbound.expectingSoa
    BY <1>4, <1>7
  <2>4. \/ inbound.rdtype = "AXFR"
        \/ InSets /\ ~inbound.deleteMode /\ inbound.serial = inbound.soa
    BY <1>1, <1>2, <1>4, <1>7, <2>2, <2>3 DEF UnderWay
  <2>5. QED  BY <1>1, <2>1, <2>2, <2>4, LastSoa
<1>8. CASE ~ends
  <2>1. inbound.rdtype = "IXFR" /\ (~inbound.deleteMode => n = inbound.serial)
    BY <1>2, <1>4, <1>8
  <2>2. deletes <=> ~inbound.deleteMode
    BY <2>1
  <2>3. /\ inbound' \in Inbounds /\ inbound'.rdtype = "IXFR" /\ inbound'.soa = inbound.soa /\ ~inbound'.done
        /\ ~inbound'.expectingSoa /\ (inbound'.deleteMode <=> ~inbound.deleteMode)
        /\ inbound'.serial = IF inbound.deleteMode THEN n ELSE inbound.serial
    <3>1. CASE inbound.deleteMode
      <4>1. inbound' = [inbound EXCEPT !.deleteMode = FALSE, !.expectingSoa = FALSE, !.done = FALSE, !.serial = n]
        BY <1>3, <1>8, <2>2, <3>1
      <4>2. QED  BY <1>1, <2>1, <3>1, <4>1 DEF Inbounds
    <3>2. CASE ~inbound.deleteMode
      <4>1. inbound' = [inbound EXCEPT !.deleteMode = TRUE, !.expectingSoa = FALSE, !.done = FALSE,
                           !.serial = inbound.serial]
        BY <1>3, <1>8, <2>2, <3>2
      <4>2. QED  BY <1>1, <2>1, <3>2, <4>1 DEF Inbounds
    <3>3. QED  BY <3>1, <3>2
  <2>4. inbound'.deleteMode = ~inbound.deleteMode
    BY <1>1, <2>3 DEF Inbounds
  <2>5. /\ inbound.deleteMode => txn' = <<[txn[1] EXCEPT !.serial = n]>>
        /\ ~inbound.deleteMode => txn' = txn /\ n = inbound.serial /\ n # inbound.soa
    BY <1>3, <1>8, <2>1, <2>2
  <2>6. UNCHANGED <<held, zone>>
    BY <1>3, <1>8
  <2>7. QED  BY <1>1, <2>1, <2>3, <2>4, <2>5, <2>6, AnotherSoa
<1>9. QED  BY <1>7, <1>8

LEMMA WithRecord ==
  ASSUME NEW s, NEW R, NEW r
  PROVE  LET z == [serial |-> s, records |-> R] IN
         /\ [z EXCEPT !.records = @ \cup {r}] = [serial |-> s, records |-> R \cup {r}]
         /\ [z EXCEPT !.records = @ \ {r}] = [serial |-> s, records |-> R \ {r}]
OBVIOUS

LEMMA FreshZone ==
  ASSUME NEW r
  PROVE  [NoZone EXCEPT !.records = @ \cup {r}] = [serial |-> NoSoa, records |-> {r}]
<1> DEFINE z == [NoZone EXCEPT !.records = @ \cup {r}]
           y == [serial |-> NoSoa, records |-> {r}]
<1>1. DOMAIN z = {"serial", "records"} /\ DOMAIN y = {"serial", "records"}
  BY DEF NoZone
<1>2. z.serial = NoSoa /\ z.records = {r} /\ y.serial = NoSoa /\ y.records = {r}
  BY DEF NoZone
<1>3. z = [x \in {"serial", "records"} |-> z[x]] /\ y = [x \in {"serial", "records"} |-> y[x]]
  BY DEF NoZone
<1> HIDE DEF z, y
<1>4. z = y
  BY <1>1, <1>2, <1>3
<1>5. QED  BY <1>4 DEF z, y

LEMMA DataRecordStep ==
  ASSUME TransferInv, transfer = "running", transfer' = "running", UNCHANGED held,
         inbound.soa # NoSoa, ~inbound.done, NEW r \in ZoneRecords, received' = Append(received, Record(r)),
         DataRecord(r)
  PROVE  TransferInv'
<1>0. PICK q : q = received'
  OBVIOUS
<1>1. UnderWay /\ inbound \in Inbounds /\ held \in Zones /\ received \in Seq(Sendable) /\ Counted(received)
  BY InTransfer DEF TransferInv
<1>2. inbound.rdtype \in {"AXFR", "IXFR"} /\ inbound.deleteMode \in BOOLEAN /\ inbound.expectingSoa \in BOOLEAN
      /\ inbound.soa \in Serials /\ zone = held
  BY <1>1 DEF Inbounds, UnderWay
<1>3. /\ Len(received) > 0 /\ received[1] = Soa(inbound.soa) /\ Count(received) > 0
      /\ Nth(received, 1) = inbound.soa
  BY <1>1 DEF UnderWay
<1>4. Record(r) \in Sendable /\ ~IsSoa(Record(r)) /\ Record(r).record = r
  BY SendableFacts DEF Sendable
<1>5. /\ q \in Seq(Sendable) /\ Counted(q) /\ Extended(q, received, Record(r))
      /\ Count(q) = Count(received)
      /\ Count(received) \in Nat /\ Len(received) \in Nat /\ Count(received) <= Len(received)
      /\ Len(q) = Len(received) + 1
      /\ \A i \in 1..Len(received) : q[i] = received[i]
      /\ \A k \in 1..Count(received) : Nth(q, k) = Nth(received, k)
  BY <1>0, <1>4, OneMore
<1>6. q[1] = Soa(inbound.soa) /\ Count(q) > 0 /\ Len(q) > 0 /\ Nth(q, 1) = inbound.soa
  BY <1>3, <1>5
<1>7. /\ \A from : Count(received) % 2 = 1 => After(q, from) = After(received, from) \cup {r}
      /\ \A from : Count(received) % 2 # 1 => After(q, from) = After(received, from) \ {r}
  BY <1>1, <1>4, <1>5, AfterExtended
<1>8. PICK s \in Serials \cup {NoSoa} : txn = <<[serial |-> s, records |-> After(received, Base)]>>
  BY <1>1 DEF UnderWay
<1>9. zone' = zone /\ zone' = held'
  BY <1>2 DEF DataRecord
<1>10. UnderWay' /\ inbound' \in Inbounds
  <2>1. CASE inbound.expectingSoa
    <3>1. inbound.rdtype = "IXFR" /\ Len(received) = 1 /\ Count(received) = 1
      BY <1>1, <1>2, <2>1 DEF UnderWay, OneSoa
    <3>2. inbound' = [inbound EXCEPT !.rdtype = "AXFR", !.expectingSoa = FALSE, !.deleteMode = FALSE]
          /\ txn' = <<[NoZone EXCEPT !.records = @ \cup {r}]>>
      BY <2>1 DEF DataRecord
    <3>3. /\ inbound' \in Inbounds /\ inbound'.soa = inbound.soa /\ ~inbound'.done /\ inbound'.rdtype = "AXFR"
          /\ ~inbound'.expectingSoa /\ ~inbound'.deleteMode
      BY <1>1, <3>2, InTransfer DEF Inbounds
    <3>4. After(received, {}) = {}
      <4>1. received = <<Soa(inbound.soa)>>
        BY <1>1, <1>3, <3>1
      <4>2. \A from : from \subseteq ZoneRecords => After(<<Soa(inbound.soa)>>, from) = from
        BY <1>2, OneCounted
      <4>3. {} \subseteq ZoneRecords
        OBVIOUS
      <4>4. After(<<Soa(inbound.soa)>>, {}) = {}
        BY <4>2, <4>3
      <4>5. QED  BY <4>1, <4>4
    <3>5. After(q, {}) = {r}
      BY <1>7, <3>1, <3>4
    <3>6. txn' = <<[serial |-> NoSoa, records |-> After(q, Base')]>>
      <4>1. Base' = {}
        BY <3>3 DEF Base
      <4>2. QED  BY <3>2, <3>5, <4>1, FreshZone
    <3>7. OneSoa'
      BY <1>0, <1>5, <3>1, <3>3 DEF OneSoa
    <3>8. QED  BY <1>0, <1>2, <1>6, <1>9, <3>3, <3>6, <3>7 DEF UnderWay
  <2>2. CASE ~inbound.expectingSoa
    <3>1. inbound' = inbound
          /\ txn' = <<[txn[1] EXCEPT !.records = IF inbound.deleteMode THEN @ \ {r} ELSE @ \cup {r}]>>
      BY <2>2 DEF DataRecord
    <3>2. Base' = Base
      BY <3>1 DEF Base
    <3> DEFINE R == After(received, Base)
    <3>a. txn[1] = [serial |-> s, records |-> R]
      BY <1>8
    <3>b. inbound.deleteMode => txn' = <<[serial |-> s, records |-> R \ {r}]>>
      <4>1. inbound.deleteMode => txn' = <<[txn[1] EXCEPT !.records = @ \ {r}]>>
        BY <3>1
      <4> HIDE DEF R
      <4>2. QED  BY <3>a, <4>1, WithRecord
    <3>c. ~inbound.deleteMode => txn' = <<[serial |-> s, records |-> R \cup {r}]>>
      <4>1. ~inbound.deleteMode => txn' = <<[txn[1] EXCEPT !.records = @ \cup {r}]>>
        BY <3>1
      <4> HIDE DEF R
      <4>2. QED  BY <3>a, <4>1, WithRecord
    <3>3. CASE inbound.rdtype = "AXFR"
      <4>1. Count(received) = 1 /\ ~inbound.deleteMode
        BY <1>1, <3>3 DEF UnderWay, OneSoa
      <4>2. After(q, Base) = After(received, Base) \cup {r}
        BY <1>7, <4>1
      <4>3. txn' = <<[serial |-> s, records |-> After(q, Base')]>>
        BY <3>c, <3>2, <4>1, <4>2
      <4>4. OneSoa'
        BY <1>0, <1>5, <3>1, <3>3, <4>1 DEF OneSoa
      <4>5. QED  BY <1>0, <1>1, <1>2, <1>6, <1>9, <2>2, <3>1, <3>3, <4>3, <4>4 DEF UnderWay
    <3>4. CASE inbound.rdtype = "IXFR"
      <4>1. PICK m \in 1..Len(received) : /\ Sets(received, inbound.deleteMode, held.serial, inbound.soa, m)
                                          /\ ~inbound.deleteMode => inbound.serial = Nth(received, 2 * m + 1)
        BY <1>1, <2>2, <3>4 DEF UnderWay, InSets
      <4>2. /\ Count(received) = (IF inbound.deleteMode THEN 2 * m ELSE 2 * m + 1)
            /\ Len(received) > 1 /\ IsSoa(received[2]) /\ Nth(received, 2) = held.serial
            /\ \A k \in 2..m : Nth(received, 2 * k) = Nth(received, 2 * k - 1) /\ Nth(received, 2 * k) # inbound.soa
        BY <4>1 DEF Sets
      <4>3. m \in Nat /\ m >= 1 /\ m \in 1..Len(q) /\ 2 * m <= Count(received)
        BY <1>5, <4>2
      <4>4. inbound.deleteMode <=> Count(received) % 2 # 1
        <5>1. (2 * m) % 2 = 0 /\ (2 * m + 1) % 2 = 1
          BY <4>3, Halves
        <5>2. CASE inbound.deleteMode
          BY <4>2, <5>1, <5>2
        <5>3. CASE ~inbound.deleteMode
          BY <4>2, <5>1, <5>3
        <5>4. QED  BY <5>2, <5>3
      <4>5. txn' = <<[serial |-> s, records |-> After(q, Base')]>>
        <5>1. CASE inbound.deleteMode
          <6>1. After(q, Base) = After(received, Base) \ {r}
            BY <1>7, <4>4, <5>1
          <6>2. QED  BY <3>b, <3>2, <5>1, <6>1
        <5>2. CASE ~inbound.deleteMode
          <6>1. After(q, Base) = After(received, Base) \cup {r}
            BY <1>7, <4>4, <5>2
          <6>2. QED  BY <3>c, <3>2, <5>2, <6>1
        <5>3. QED  BY <5>1, <5>2
      <4>6. 2 \in 1..Count(received) /\ 2 \in 1..Len(received)
        BY <1>5, <4>2, <4>3
      <4>7. IsSoa(q[2]) /\ Nth(q, 2) = held.serial /\ Len(q) > 1
        <5>1. q[2] = received[2] /\ Nth(q, 2) = Nth(received, 2)
          BY <1>5, <4>6
        <5>2. Len(q) > 1
          BY <1>5, <4>6
        <5>3. QED  BY <4>2, <5>1, <5>2
      <4>8. \A k \in 2..m : Nth(q, 2 * k) = Nth(q, 2 * k - 1) /\ Nth(q, 2 * k) # inbound.soa
        <5>1. \A k \in 2..m : 2 * k \in 1..Count(received) /\ 2 * k - 1 \in 1..Count(received)
          BY <1>5, <4>3, Doubles
        <5>2. QED  BY <1>5, <4>2, <5>1
      <4>9. Sets(q, inbound.deleteMode, held.serial, inbound.soa, m)
        BY <1>5, <4>2, <4>3, <4>7, <4>8 DEF Sets
      <4>10. ~inbound.deleteMode => inbound.serial = Nth(q, 2 * m + 1)
        <5>1. ~inbound.deleteMode => 2 * m + 1 \in 1..Count(received)
          BY <4>2, <4>3
        <5>2. QED  BY <1>5, <4>1, <5>1
      <4>11. InSets'
        BY <1>0, <3>1, <3>4, <4>3, <4>9, <4>10 DEF InSets
      <4>12. QED  BY <1>0, <1>1, <1>2, <1>6, <1>9, <2>2, <3>1, <3>4, <4>5, <4>11 DEF UnderWay
    <3>5. QED  BY <1>2, <3>3, <3>4
  <2>3. QED  BY <2>1, <2>2
<1>11. QED  BY <1>0, <1>1, <1>5, <1>9, <1>10 DEF TransferInv, ZoneIsWhole

LEMMA NextRecordStep == ASSUME TransferInv, NextRecord PROVE TransferInv'
<1>1. transfer = "running" /\ inbound.soa # NoSoa /\ UNCHANGED held
  BY DEF NextRecord, MayReceive
<1>2. PICK x \in Sendable :
        /\ received' = Append(received, x)
        /\ IF inbound.done \/ (IF IsSoa(x) THEN ~SoaFits(x.soa) ELSE ~RecordFits(x.record))
           THEN transfer' = "failed" /\ Leave /\ UNCHANGED <<zone, inbound>>
           ELSE /\ UNCHANGED transfer
                /\ IF IsSoa(x) THEN OriginSoa(x.soa) ELSE DataRecord(x.record)
  BY DEF NextRecord
<1>3. CASE transfer' = "failed" /\ Leave /\ UNCHANGED <<zone, inbound>>
  BY <1>1, <1>2, <1>3, RefusedRecord DEF Leave
<1>4. CASE ~inbound.done /\ IsSoa(x) /\ SoaFits(x.soa) /\ UNCHANGED transfer /\ OriginSoa(x.soa)
  <2>1. x.soa \in Serials /\ x = Soa(x.soa)
    BY <1>4, SendableFacts
  <2>2. PICK n \in Serials : n = x.soa /\ x = Soa(n)
    BY <2>1
  <2>3. SoaFits(n) /\ OriginSoa(n) /\ received' = Append(received, Soa(n))
    BY <1>2, <1>4, <2>2
  <2>4. QED  BY <1>1, <1>4, <2>3, OriginSoaStep
<1>5. CASE ~inbound.done /\ ~IsSoa(x) /\ UNCHANGED transfer /\ DataRecord(x.record)
  <2>1. x.record \in ZoneRecords /\ x = Record(x.record)
    BY <1>5, SendableFacts
  <2>2. PICK r \in ZoneRecords : r = x.record /\ x = Record(r)
    BY <2>1
  <2>3. DataRecord(r) /\ received' = Append(received, Record(r))
    BY <1>2, <1>5, <2>2
  <2>4. QED  BY <1>1, <1>5, <2>3, DataRecordStep
<1>6. QED  BY <1>2, <1>3, <1>4, <1>5

LEMMA TransferStep == ASSUME TransferInv, [TransferNext]_transferVars PROVE TransferInv'
<1>1. CASE InboundXfr
  BY <1>1, InboundXfrStep
<1>2. CASE Broken
  BY <1>2, FailingStep DEF Broken, Fails, Leave
<1>3. CASE MessageOver
  BY <1>3, FailingStep, QuietStep DEF MessageOver, Fails, Leave
<1>4. CASE UseTcp
  BY <1>4, UseTcpStep
<1>5. CASE FirstSoa
  BY <1>5, FirstSoaStep
<1>6. CASE NextRecord
  BY <1>6, NextRecordStep
<1>7. CASE UNCHANGED transferVars
  BY <1>7, QuietStep DEF transferVars
<1>8. QED  BY <1>1, <1>2, <1>3, <1>4, <1>5, <1>6, <1>7 DEF TransferNext

\* Whatever the server sends and wherever the answer breaks off, the zone
\* stays what it was or becomes exactly what a whole AXFR or IXFR makes of it,
\* and inbound_xfr() returns only then, with no transaction left open.
THEOREM TransfersAreWhole == TransferSpec => []TransferAllOrNothing
<1>1. TransferInv => TransferAllOrNothing
  BY DEF TransferInv, TransferAllOrNothing, ZoneIsWhole, Finished
<1>2. QED  BY <1>1, TransferBegins, TransferStep, PTL DEF TransferSpec
=============================================================================
