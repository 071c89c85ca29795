--------------------------- MODULE DnsData_proofs ---------------------------
(***************************************************************************)
(* Theorems about what the name service is told, for any bounds: names and *)
(* tables of names, dynamic updates, the search for the zone of a name,    *)
(* and messages written to the wire and read back; and the lemmas about    *)
(* sequences, numbers and folds that these, NameService_proofs and         *)
(* ZoneData_proofs need.                                                   *)
(***************************************************************************)
EXTENDS NameTable, UpdateMessage, ZoneLookup, DnsMessage,
    FiniteSetTheorems, SequenceTheorems, WellFoundedInduction, TLAPS

-----------------------------------------------------------------------------
(* Sequences and numbers. *)

LEMMA EmptyRange == \A m, n \in Int : n < m => m..n = {}
  OBVIOUS

LEMMA TailFacts ==
  ASSUME NEW S, NEW s \in Seq(S), s # << >>
  PROVE  /\ Len(s) \in Nat \ {0} /\ DOMAIN s = 1..Len(s) /\ Head(s) = s[1] /\ s[1] \in S
         /\ Tail(s) \in Seq(S) /\ Len(Tail(s)) = Len(s) - 1 /\ DOMAIN Tail(s) = 1..(Len(s) - 1)
         /\ \A i \in 1..(Len(s) - 1) : Tail(s)[i] = s[i + 1]
<1>1. Len(s) \in Nat \ {0} /\ DOMAIN s = 1..Len(s)
  BY EmptySeq, LenProperties
<1>2. /\ Head(s) \in S /\ Tail(s) \in Seq(S) /\ Len(Tail(s)) = Len(s) - 1
      /\ \A i \in 1..Len(Tail(s)) : Tail(s)[i] = s[i + 1]
  BY HeadTailProperties
<1>3. DOMAIN Tail(s) = 1..(Len(s) - 1)
  BY <1>2, LenProperties
<1>4. Head(s) = s[1] /\ s[1] \in S
  BY <1>1, ElementOfSeq
<1>5. QED  BY <1>1, <1>2, <1>3, <1>4

LEMMA SubSeqFacts ==
  ASSUME NEW S, NEW s \in Seq(S), NEW m \in Nat \ {0}, NEW n \in Nat, m <= n + 1, n <= Len(s)
  PROVE  /\ SubSeq(s, m, n) \in Seq(S) /\ Len(SubSeq(s, m, n)) = n - m + 1
         /\ DOMAIN SubSeq(s, m, n) = 1..(n - m + 1)
         /\ \A i \in 1..(n - m + 1) : SubSeq(s, m, n)[i] = s[m + i - 1]
<1>1. Len(s) \in Nat /\ \A i \in 1..Len(s) : s[i] \in S
  BY LenProperties, ElementOfSeq
<1>2. \A i \in m..n : s[i] \in S
  BY <1>1
<1>3. m \in Int /\ n \in Int
  OBVIOUS
<1>4. /\ SubSeq(s, m, n) \in Seq(S)
      /\ Len(SubSeq(s, m, n)) = IF m <= n THEN n - m + 1 ELSE 0
      /\ \A i \in 1..(n - m + 1) : SubSeq(s, m, n)[i] = s[m + i - 1]
  BY <1>2, <1>3, SubSeqProperties
<1>5. Len(SubSeq(s, m, n)) = n - m + 1
  BY <1>4
<1>6. DOMAIN SubSeq(s, m, n) = 1..(n - m + 1)
  BY <1>4, <1>5, LenProperties
<1>7. QED  BY <1>4, <1>5, <1>6

LEMMA ConcatFacts ==
  ASSUME NEW S, NEW s \in Seq(S), NEW t \in Seq(S)
  PROVE  /\ s \o t \in Seq(S) /\ Len(s \o t) = Len(s) + Len(t)
         /\ Len(s) \in Nat /\ Len(t) \in Nat
         /\ DOMAIN (s \o t) = 1..(Len(s) + Len(t))
         /\ \A i \in 1..(Len(s) + Len(t)) :
               (s \o t)[i] = IF i <= Len(s) THEN s[i] ELSE t[i - Len(s)]
<1>1. /\ s \o t \in Seq(S) /\ Len(s \o t) = Len(s) + Len(t)
      /\ \A i \in 1..(Len(s) + Len(t)) :
            (s \o t)[i] = IF i <= Len(s) THEN s[i] ELSE t[i - Len(s)]
  BY ConcatProperties
<1>2. Len(s) \in Nat /\ Len(t) \in Nat /\ DOMAIN (s \o t) = 1..(Len(s) + Len(t))
  BY <1>1, LenProperties
<1>3. QED  BY <1>1, <1>2

\* Induction over the naturals, as a fact about sets.
LEMMA SetInduction ==
    ASSUME NEW S \in SUBSET Nat, 0 \in S, \A n \in S : n + 1 \in S
    PROVE  S = Nat
<1>1. SUFFICES ASSUME Nat \ S # {} PROVE FALSE
  OBVIOUS
<1>2. PICK m \in Nat \ S : \A k \in Nat \ S : ~(<<k, m>> \in OpToRel(<, Nat))
  BY <1>1, NatLessThanWellFounded, WFMin
<1>3. m # 0 /\ m - 1 \in Nat /\ m - 1 < m /\ (m - 1) + 1 = m
  OBVIOUS
<1>4. <<m - 1, m>> \in OpToRel(<, Nat)
  BY <1>3 DEF OpToRel
<1>5. m - 1 \in S
  BY <1>2, <1>3, <1>4
<1>6. QED  BY <1>3, <1>5

LEMMA MinFacts ==
  ASSUME NEW S \in SUBSET Nat, S # {}
  PROVE  Min(S) \in S /\ \A y \in S : Min(S) <= y
<1>1. PICK m \in S : \A k \in S : ~(<<k, m>> \in OpToRel(<, Nat))
  BY NatLessThanWellFounded, WFMin
<1>2. \A k \in S : m <= k
  <2>1. ASSUME NEW k \in S PROVE m <= k
    <3>1. k \in Nat /\ m \in Nat /\ ~(k < m)
      BY <1>1 DEF OpToRel
    <3>2. QED  BY <3>1
  <2>2. QED  BY <2>1
<1>3. QED  BY <1>2 DEF Min


-----------------------------------------------------------------------------
(* NameTable.  Two names are compared from their ends; where they part, or  *)
(* one of them ends, decides.                                               *)

Labels == [rank : Nat, capital : BOOLEAN]

\* What the constants say of a name, and holds of the suffixes of one.
NameOK(n) ==
    /\ n \in Seq(Labels)
    /\ \A i \in 1..Len(n) : n[i].rank = 0 => n[i] = RootLabel /\ i = Len(n)

\* The last v labels are the same, and the next ones are not.
Parts(a, b, v) ==
    /\ v \in Nat /\ v <= Len(a) /\ v <= Len(b)
    /\ \A j \in 0..(v - 1) : RankFrom(a, j) = RankFrom(b, j)
    /\ v < Len(a) /\ v < Len(b) => RankFrom(a, v) # RankFrom(b, v)

\* The recursion of fullcompare().
IsWalk(w, a, b, shorter) ==
    w = [k \in 0..shorter |-> IF k = shorter THEN k
                              ELSE IF RankFrom(a, k) = RankFrom(b, k) THEN w[k + 1] ELSE k]
Walk(a, b, shorter) == CHOOSE w : IsWalk(w, a, b, shorter)

LEMMA WalkExists ==
  ASSUME NEW a, NEW b, NEW shorter \in Nat
  PROVE  \E w : IsWalk(w, a, b, shorter)
<1> DEFINE D == {k \in 0..(shorter - 1) : RankFrom(a, k) # RankFrom(b, k)} \cup {shorter}
           From(k) == {d \in D : k <= d}
           w == [k \in 0..shorter |-> Min(From(k))]
<1>1. (\A d \in D : d \in Nat /\ d <= shorter) /\ shorter \in D /\ \A k \in 0..(shorter - 1) : k \in D <=> RankFrom(a, k) # RankFrom(b, k)
  OBVIOUS
<1> HIDE DEF D
<1>2. ASSUME NEW k \in 0..shorter
      PROVE  Min(From(k)) \in From(k) /\ \A y \in From(k) : Min(From(k)) <= y
  <2>1. From(k) \in SUBSET Nat /\ From(k) # {}
    <3>1. shorter \in From(k)
      BY <1>1
    <3>2. QED  BY <1>1, <3>1
  <2> HIDE DEF From
  <2>2. QED  BY <2>1, MinFacts
<1> DEFINE m(k) == Min(From(k))
<1>3. ASSUME NEW k \in 0..shorter, k = shorter \/ RankFrom(a, k) # RankFrom(b, k) PROVE m(k) = k
  <2>1. k \in From(k)
    BY <1>1, <1>3
  <2>2. m(k) \in D /\ k <= m(k) /\ m(k) <= k
    BY <1>2, <2>1
  <2> DEFINE v == m(k)
  <2>3. v \in D /\ k <= v /\ v <= k
    BY <2>2
  <2> HIDE DEF v
  <2>4. v \in Nat /\ k \in Nat
    BY <1>1, <2>3
  <2>5. v = k
    BY <2>3, <2>4
  <2>6. QED  BY <2>5 DEF v
<1>4. ASSUME NEW k \in 0..shorter, k # shorter, RankFrom(a, k) = RankFrom(b, k) PROVE m(k) = m(k + 1)
  <2>1. k \notin D /\ k + 1 \in 0..shorter
    BY <1>1, <1>4
  <2>2. ASSUME NEW d \in D PROVE k <= d <=> k + 1 <= d
    <3>1. d \in Nat /\ d # k
      BY <1>1, <2>1
    <3>2. QED  BY <3>1
  <2>3. From(k) = From(k + 1)
    BY <2>2
  <2> HIDE DEF From
  <2>4. QED  BY <2>3
<1>5. w = [k \in 0..shorter |-> IF k = shorter THEN k
                              ELSE IF RankFrom(a, k) = RankFrom(b, k) THEN w[k + 1] ELSE k]
  <2>1. \A k \in 0..shorter : k # shorter => k + 1 \in 0..shorter
    OBVIOUS
  <2> HIDE DEF From
  <2>2. \A k \in 0..shorter : m(k) = IF k = shorter THEN k
                              ELSE IF RankFrom(a, k) = RankFrom(b, k) THEN w[k + 1] ELSE k
    BY <1>3, <1>4, <2>1
  <2> HIDE DEF m
  <2>3. w = [k \in 0..shorter |-> m(k)]
    BY DEF m
  <2> HIDE DEF w
  <2>4. QED  BY <2>2, <2>3
<1>6. QED  BY <1>5 DEF IsWalk

PartsWithin(a, b, shorter, v) ==
    /\ v \in 0..shorter /\ \A j \in 0..(v - 1) : RankFrom(a, j) = RankFrom(b, j)
    /\ v < shorter => RankFrom(a, v) # RankFrom(b, v)

LEMMA WalkEnds ==
  ASSUME NEW a, NEW b, NEW shorter \in Nat, NEW w, IsWalk(w, a, b, shorter)
  PROVE  PartsWithin(a, b, shorter, w[0])
<1> DEFINE Right(k) == /\ w[k] \in k..shorter /\ \A j \in k..(w[k] - 1) : RankFrom(a, j) = RankFrom(b, j)
                       /\ w[k] < shorter => RankFrom(a, w[k]) # RankFrom(b, w[k])
           S == {n \in Nat : n <= shorter => Right(shorter - n)}
<1>1. \A k \in 0..shorter : w[k] = IF k = shorter THEN k
                                   ELSE IF RankFrom(a, k) = RankFrom(b, k) THEN w[k + 1] ELSE k
  BY DEF IsWalk
<1>2. 0 \in S
  <2>1. w[shorter] = shorter
    BY <1>1
  <2>2. QED  BY <2>1
<1>3. ASSUME NEW n \in S PROVE n + 1 \in S
  <2>1. SUFFICES ASSUME n + 1 <= shorter PROVE Right(shorter - (n + 1))
    OBVIOUS
  <2> DEFINE k == shorter - (n + 1)
  <2>2. k \in 0..shorter /\ k # shorter /\ k + 1 = shorter - n /\ k + 1 \in 0..shorter /\ k \in Nat
    BY <2>1
  <2>3. Right(k + 1)
    <3>1. Right(shorter - n)
      BY <2>1
    <3> HIDE DEF Right, k
    <3>2. QED  BY <2>2, <3>1
  <2> HIDE DEF k
  <2>4. CASE RankFrom(a, k) = RankFrom(b, k)
    <3>1. w[k] = w[k + 1]
      BY <1>1, <2>2, <2>4
    <3>2. w[k] \in (k + 1)..shorter /\ \A j \in (k + 1)..(w[k] - 1) : RankFrom(a, j) = RankFrom(b, j)
      BY <2>3, <3>1
    <3>3. \A j \in k..(w[k] - 1) : j = k \/ j \in (k + 1)..(w[k] - 1)
      BY <2>2, <3>2
    <3>4. w[k] \in k..shorter
      BY <2>2, <3>2
    <3>5. w[k] < shorter => RankFrom(a, w[k]) # RankFrom(b, w[k])
      BY <2>3, <3>1
    <3>6. Right(k)
      BY <2>4, <3>2, <3>3, <3>4, <3>5
    <3>7. QED  BY <3>6 DEF k
  <2>5. CASE RankFrom(a, k) # RankFrom(b, k)
    <3>1. w[k] = k
      BY <1>1, <2>2, <2>5
    <3>2. Right(k)
      BY <2>2, <2>5, <3>1
    <3>3. QED  BY <3>2 DEF k
  <2>6. QED  BY <2>4, <2>5
<1>4. S = Nat
  <2>1. S \in SUBSET Nat
    OBVIOUS
  <2> HIDE DEF S
  <2>2. QED  BY <1>2, <1>3, <2>1, SetInduction
<1>5. Right(0)
  <2>1. shorter \in S /\ shorter - shorter = 0 /\ shorter <= shorter
    <3> HIDE DEF S
    <3>1. QED  BY <1>4
  <2> HIDE DEF Right
  <2>2. QED  BY <2>1
<1>6. QED  BY <1>5 DEF PartsWithin

LEMMA SharedLabels ==
  ASSUME NEW a, NEW b, Shorter(a, b) \in Nat
  PROVE  \E w : IsWalk(w, a, b, Shorter(a, b)) /\ CommonLabels(a, b) = w[0]
<1> DEFINE w == CHOOSE w : IsWalk(w, a, b, Shorter(a, b))
<1>1. IsWalk(w, a, b, Shorter(a, b))
  BY WalkExists
<1>2. CommonLabels(a, b) = w[0]
  BY DEF CommonLabels, IsWalk
<1> HIDE DEF w
<1>3. QED  BY <1>1, <1>2

\* How fullcompare() sees two names that part after v labels.
ComparedAt(a, b, v) ==
    /\ FullCompare(a, b).order =
          IF IsAbsolute(a) /\ ~IsAbsolute(b) THEN 1 ELSE IF ~IsAbsolute(a) /\ IsAbsolute(b) THEN -1
          ELSE IF v < Len(a) /\ v < Len(b) THEN SignOf(RankFrom(a, v) - RankFrom(b, v))
          ELSE SignOf(Len(a) - Len(b))
    /\ IsSubdomain(a, b) <=> (IsAbsolute(a) <=> IsAbsolute(b)) /\ v = Len(b)
    /\ IsSuperdomain(a, b) <=> (IsAbsolute(a) <=> IsAbsolute(b)) /\ v = Len(a)

LEMMA Compares ==
  ASSUME NEW a, NEW b, NameOK(a), NameOK(b)
  PROVE  \E v : Parts(a, b, v) /\ ComparedAt(a, b, v)
<1>1. Len(a) \in Nat /\ Len(b) \in Nat
  BY DEF NameOK
<1>2. /\ Shorter(a, b) \in Nat /\ Shorter(a, b) <= Len(a) /\ Shorter(a, b) <= Len(b)
      /\ Shorter(a, b) = Len(a) \/ Shorter(a, b) = Len(b)
  <2> DEFINE S == {Len(a), Len(b)}
  <2>1. S \in SUBSET Nat /\ S # {} /\ Len(a) \in S /\ Len(b) \in S
    BY <1>1
  <2>2. \A x \in S : x = Len(a) \/ x = Len(b)
    OBVIOUS
  <2>3. Shorter(a, b) = Min(S)
    BY DEF Shorter
  <2> HIDE DEF S
  <2>4. Min(S) \in S /\ \A y \in S : Min(S) <= y
    BY <2>1, MinFacts
  <2>5. QED  BY <1>1, <2>1, <2>2, <2>3, <2>4
<1> DEFINE v == CommonLabels(a, b)
<1>3. /\ v \in 0..Shorter(a, b) /\ \A j \in 0..(v - 1) : RankFrom(a, j) = RankFrom(b, j)
      /\ v < Shorter(a, b) => RankFrom(a, v) # RankFrom(b, v)
  <2>1. PICK w : IsWalk(w, a, b, Shorter(a, b)) /\ v = w[0]
    BY <1>2, SharedLabels
  <2> HIDE DEF v
  <2>2. PartsWithin(a, b, Shorter(a, b), v)
    BY <1>2, <2>1, WalkEnds
  <2>3. QED  BY <2>2 DEF PartsWithin
<1> HIDE DEF v
<1>4. Parts(a, b, v)
  BY <1>1, <1>2, <1>3 DEF Parts
<1> DEFINE r == FullCompare(a, b)
<1>5. CASE ~(IsAbsolute(a) <=> IsAbsolute(b))
  <2>1. IsAbsolute(a) # IsAbsolute(b)
    BY <1>5 DEF IsAbsolute
  <2>2. r = [relation |-> "NONE", order |-> IF IsAbsolute(a) THEN 1 ELSE -1, nlabels |-> 0]
    BY <2>1 DEF FullCompare
  <2> HIDE DEF r
  <2>3. r.relation = "NONE" /\ r.order = IF IsAbsolute(a) THEN 1 ELSE -1
    BY <2>2
  <2>4. ComparedAt(a, b, v)
    BY <1>5, <2>3 DEF ComparedAt, IsSubdomain, IsSuperdomain, r
  <2>5. QED  BY <1>4, <2>4
<1>6. CASE (IsAbsolute(a) <=> IsAbsolute(b)) /\ v < Shorter(a, b)
  <2>1. IsAbsolute(a) = IsAbsolute(b)
    BY <1>6 DEF IsAbsolute
  <2>2. r = [relation |-> IF v > 0 THEN "COMMONANCESTOR" ELSE "NONE",
             order |-> SignOf(RankFrom(a, v) - RankFrom(b, v)), nlabels |-> v]
    BY <1>6, <2>1 DEF FullCompare, v
  <2> HIDE DEF r
  <2>3. r.relation \in {"COMMONANCESTOR", "NONE"} /\ r.order = SignOf(RankFrom(a, v) - RankFrom(b, v))
    BY <2>2
  <2>4. v < Len(a) /\ v < Len(b) /\ v # Len(a) /\ v # Len(b)
    BY <1>1, <1>2, <1>3, <1>6
  <2>5. ComparedAt(a, b, v)
    BY <1>6, <2>3, <2>4 DEF ComparedAt, IsSubdomain, IsSuperdomain, r
  <2>6. QED  BY <1>4, <2>5
<1>7. CASE (IsAbsolute(a) <=> IsAbsolute(b)) /\ ~(v < Shorter(a, b))
  <2> DEFINE ldiff == Len(a) - Len(b)
  <2>1. IsAbsolute(a) = IsAbsolute(b)
    BY <1>7 DEF IsAbsolute
  <2>2. r = [relation |-> IF ldiff < 0 THEN "SUPERDOMAIN" ELSE IF ldiff > 0 THEN "SUBDOMAIN" ELSE "EQUAL",
             order |-> SignOf(ldiff), nlabels |-> v]
    BY <1>7, <2>1 DEF FullCompare, v
  <2> HIDE DEF r
  <2>3. /\ r.relation = IF ldiff < 0 THEN "SUPERDOMAIN" ELSE IF ldiff > 0 THEN "SUBDOMAIN" ELSE "EQUAL"
        /\ r.order = SignOf(ldiff)
    BY <2>2
  <2>4. /\ ~(v < Len(a) /\ v < Len(b))
        /\ ldiff \in Int
        /\ v = Len(b) <=> ~(ldiff < 0)
        /\ v = Len(a) <=> ~(ldiff > 0)
    BY <1>1, <1>2, <1>3, <1>7
  <2>5. ComparedAt(a, b, v)
    <3>1. r.order = SignOf(Len(a) - Len(b))
      BY <2>3
    <3> HIDE DEF ldiff
    <3>2. /\ r.relation \in {"SUBDOMAIN", "EQUAL"} <=> v = Len(b)
          /\ r.relation \in {"SUPERDOMAIN", "EQUAL"} <=> v = Len(a)
      BY <2>3, <2>4
    <3>3. QED  BY <1>7, <2>4, <3>1, <3>2 DEF ComparedAt, IsSubdomain, IsSuperdomain, r
  <2>6. QED  BY <1>4, <2>5
<1>8. QED  BY <1>5, <1>6, <1>7

\* Where two names part, from either of them.
LEMMA PartsOnce ==
  ASSUME NEW a, NEW b, NEW v, NEW w, Parts(a, b, v), Parts(a, b, w) \/ Parts(b, a, w),
         Len(a) \in Nat, Len(b) \in Nat
  PROVE  v = w
<1>1. /\ v \in Nat /\ w \in Nat /\ w <= Len(a) /\ w <= Len(b) /\ v <= Len(a) /\ v <= Len(b)
      /\ \A j \in 0..(v - 1) : RankFrom(a, j) = RankFrom(b, j)
      /\ \A j \in 0..(w - 1) : RankFrom(a, j) = RankFrom(b, j)
      /\ v < Len(a) /\ v < Len(b) => RankFrom(a, v) # RankFrom(b, v)
      /\ w < Len(a) /\ w < Len(b) => RankFrom(a, w) # RankFrom(b, w)
  BY DEF Parts
<1>2. CASE v < w
  <2>1. v \in 0..(w - 1) /\ v < Len(a) /\ v < Len(b)
    BY <1>1, <1>2
  <2>2. QED  BY <1>1, <2>1
<1>3. CASE w < v
  <2>1. w \in 0..(v - 1) /\ w < Len(a) /\ w < Len(b)
    BY <1>1, <1>3
  <2>2. QED  BY <1>1, <2>1
<1>4. QED  BY <1>1, <1>2, <1>3

\* a is b's end, but for the case.
Ends(a, b) == Len(a) <= Len(b) /\ \A j \in 0..(Len(a) - 1) : RankFrom(a, j) = RankFrom(b, j)

LEMMA NameFacts ==
  ASSUME NEW n, NameOK(n)
  PROVE  /\ n \in Seq(Labels) /\ Len(n) \in Nat /\ DOMAIN n = 1..Len(n)
         /\ \A i \in 1..Len(n) : n[i].rank \in Nat /\ n[i].capital \in BOOLEAN /\ n[i] \in Labels
         /\ \A k \in 0..(Len(n) - 1) : Len(n) - k \in 1..Len(n) /\ RankFrom(n, k) \in Nat
         /\ n = EmptyName <=> Len(n) = 0
<1>1. n \in Seq(Labels) /\ Len(n) \in Nat /\ DOMAIN n = 1..Len(n)
  BY LenProperties DEF NameOK
<1>2. \A i \in 1..Len(n) : n[i] \in Labels
  BY <1>1, ElementOfSeq
<1>3. \A i \in 1..Len(n) : n[i].rank \in Nat /\ n[i].capital \in BOOLEAN
  BY <1>2 DEF Labels
<1>4. \A k \in 0..(Len(n) - 1) : Len(n) - k \in 1..Len(n)
  BY <1>1
<1>5. \A k \in 0..(Len(n) - 1) : RankFrom(n, k) \in Nat
  BY <1>3, <1>4 DEF RankFrom
<1>6. n = EmptyName <=> Len(n) = 0
  BY <1>1, EmptySeq DEF EmptyName
<1>7. QED  BY <1>1, <1>2, <1>3, <1>4, <1>5, <1>6

\* A name is absolute when its last label has the rank of the root.
LEMMA AbsoluteByRank ==
  ASSUME NEW n, NameOK(n)
  PROVE  IsAbsolute(n) <=> Len(n) > 0 /\ RankFrom(n, 0) = 0
<1>1. Len(n) \in Nat /\ (n = EmptyName <=> Len(n) = 0)
  BY NameFacts
<1>2. CASE Len(n) = 0
  BY <1>1, <1>2 DEF IsAbsolute
<1>3. CASE Len(n) > 0
  <2>1. Len(n) \in 1..Len(n) /\ Len(n) - 0 = Len(n)
    BY <1>1, <1>3
  <2>2. n[Len(n)].rank = 0 => n[Len(n)] = RootLabel
    BY <2>1 DEF NameOK
  <2>3. RootLabel.rank = 0
    BY DEF RootLabel
  <2>4. Last(n) = RootLabel <=> RankFrom(n, 0) = 0
    BY <2>1, <2>2, <2>3 DEF Last, RankFrom
  <2>5. QED  BY <1>1, <1>3, <2>4 DEF IsAbsolute
<1>4. QED  BY <1>1, <1>2, <1>3

LEMMA EndsAbsolute ==
  ASSUME NEW a, NEW b, NameOK(a), NameOK(b), Ends(a, b), Len(a) > 0
  PROVE  IsAbsolute(a) <=> IsAbsolute(b)
<1>1. Len(a) \in Nat /\ Len(b) \in Nat
  BY NameFacts
<1>2. 0 \in 0..(Len(a) - 1) /\ Len(b) > 0
  BY <1>1 DEF Ends
<1>3. RankFrom(a, 0) = RankFrom(b, 0)
  BY <1>2 DEF Ends
<1>4. QED  BY <1>2, <1>3, AbsoluteByRank

\* is_subdomain() and is_superdomain() by the labels.
LEMMA SubdomainMeans ==
  ASSUME NEW a, NEW b, NameOK(a), NameOK(b)
  PROVE  /\ IsSubdomain(a, b) <=> Ends(b, a) /\ (IsAbsolute(a) <=> IsAbsolute(b))
         /\ IsSuperdomain(a, b) <=> Ends(a, b) /\ (IsAbsolute(a) <=> IsAbsolute(b))
<1>1. PICK v : Parts(a, b, v) /\ ComparedAt(a, b, v)
  BY Compares
<1>2. Len(a) \in Nat /\ Len(b) \in Nat
  BY NameFacts
<1>3. v = Len(b) <=> Ends(b, a)
  <2>1. ASSUME v = Len(b) PROVE Ends(b, a)
    BY <1>1, <1>2, <2>1 DEF Ends, Parts
  <2>2. ASSUME Ends(b, a) PROVE Parts(a, b, Len(b))
    BY <1>2, <2>2 DEF Ends, Parts
  <2>3. QED  BY <1>1, <1>2, <2>1, <2>2, PartsOnce
<1>4. v = Len(a) <=> Ends(a, b)
  <2>1. ASSUME v = Len(a) PROVE Ends(a, b)
    BY <1>1, <1>2, <2>1 DEF Ends, Parts
  <2>2. ASSUME Ends(a, b) PROVE Parts(a, b, Len(a))
    BY <1>2, <2>2 DEF Ends, Parts
  <2>3. QED  BY <1>1, <1>2, <2>1, <2>2, PartsOnce
<1>5. QED  BY <1>1, <1>3, <1>4 DEF ComparedAt

\* Names are the same whose labels are.
LEMMA SameNameMeans ==
  ASSUME NEW a, NEW b, NameOK(a), NameOK(b)
  PROVE  SameName(a, b) <=> Len(a) = Len(b) /\ Ends(a, b)
<1>1. PICK v : Parts(a, b, v) /\ ComparedAt(a, b, v)
  BY Compares
<1>2. Len(a) \in Nat /\ Len(b) \in Nat
  BY NameFacts
<1>3. /\ v \in Nat /\ v <= Len(a) /\ v <= Len(b) /\ \A j \in 0..(v - 1) : RankFrom(a, j) = RankFrom(b, j)
      /\ v < Len(a) /\ v < Len(b) => RankFrom(a, v) # RankFrom(b, v)
  BY <1>1 DEF Parts
<1>4. ASSUME SameName(a, b) PROVE Len(a) = Len(b) /\ Ends(a, b)
  <2>1. ~(v < Len(a) /\ v < Len(b))
    <3>1. ASSUME v < Len(a) /\ v < Len(b) PROVE FALSE
      <4>1. v \in 0..(Len(a) - 1) /\ v \in 0..(Len(b) - 1)
        BY <1>2, <1>3, <3>1
      <4>2. RankFrom(a, v) \in Nat /\ RankFrom(b, v) \in Nat /\ RankFrom(a, v) # RankFrom(b, v)
        BY <1>3, <3>1, <4>1, NameFacts
      <4>3. SignOf(RankFrom(a, v) - RankFrom(b, v)) # 0
        BY <4>2 DEF SignOf
      <4>4. QED  BY <1>1, <1>4, <3>1, <4>3 DEF ComparedAt, SameName
    <3>2. QED  BY <3>1
  <2>2. SignOf(Len(a) - Len(b)) = 0
    BY <1>1, <1>4, <2>1 DEF ComparedAt, SameName
  <2>3. Len(a) = Len(b)
    BY <1>2, <2>2 DEF SignOf
  <2>4. v = Len(a)
    BY <1>2, <1>3, <2>1, <2>3
  <2>5. QED  BY <1>3, <2>3, <2>4 DEF Ends
<1>5. ASSUME Len(a) = Len(b), Ends(a, b) PROVE SameName(a, b)
  <2>1. Parts(a, b, Len(a))
    BY <1>2, <1>5 DEF Ends, Parts
  <2>2. v = Len(a)
    BY <1>1, <1>2, <2>1, PartsOnce
  <2>3. SignOf(Len(a) - Len(b)) = 0
    BY <1>2, <1>5 DEF SignOf
  <2>4. IsAbsolute(a) <=> IsAbsolute(b)
    <3>1. CASE Len(a) = 0
      <4>1. ~(Len(a) > 0) /\ ~(Len(b) > 0)
        BY <1>5, <3>1
      <4>2. QED  BY <4>1, AbsoluteByRank
    <3>2. CASE Len(a) > 0
      BY <1>5, <3>2, EndsAbsolute
    <3>3. QED  BY <1>2, <3>1, <3>2
  <2>5. QED  BY <1>1, <1>2, <1>5, <2>2, <2>3, <2>4 DEF ComparedAt, SameName
<1>6. QED  BY <1>4, <1>5

LEMMA PrefixMeans ==
  ASSUME NEW S, NEW s \in Seq(S), NEW t \in Seq(S)
  PROVE  IsPrefix(s, t) <=> Len(s) <= Len(t) /\ \A i \in 1..Len(s) : s[i] = t[i]
<1>1. Len(s) \in Nat /\ Len(t) \in Nat
  BY LenProperties
<1>2. SUFFICES ASSUME Len(s) <= Len(t)
               PROVE  SubSeq(s, 1, Len(s)) = SubSeq(t, 1, Len(s)) <=> \A i \in 1..Len(s) : s[i] = t[i]
  BY DEF IsPrefix
<1> DEFINE n == Len(s)
           p == SubSeq(s, 1, n)
           q == SubSeq(t, 1, n)
<1>3. /\ p \in Seq(S) /\ Len(p) = n - 1 + 1 /\ \A i \in 1..(n - 1 + 1) : p[i] = s[1 + i - 1]
      /\ q \in Seq(S) /\ Len(q) = n - 1 + 1 /\ \A i \in 1..(n - 1 + 1) : q[i] = t[1 + i - 1]
  <2>1. 1 \in Nat \ {0} /\ n \in Nat /\ 1 <= n + 1 /\ n <= Len(s) /\ n <= Len(t)
    BY <1>1, <1>2
  <2> HIDE DEF n
  <2>2. QED  BY <2>1, SubSeqFacts
<1> HIDE DEF p, q
<1>4. n - 1 + 1 = n /\ \A i \in 1..n : 1 + i - 1 = i
  BY <1>1
<1>5. Len(p) = n /\ Len(q) = n /\ \A i \in 1..n : p[i] = s[i] /\ q[i] = t[i]
  BY <1>3, <1>4
<1>6. p = q <=> \A i \in 1..n : p[i] = q[i]
  BY <1>3, <1>5, SeqEqual
<1>7. QED  BY <1>5, <1>6 DEF p, q

LEMMA CapitalSet ==
  ASSUME NEW r, NEW u, NEW w
  PROVE  [[rank |-> r, capital |-> u] EXCEPT !.capital = w] = [rank |-> r, capital |-> w]
<1>1. QED  BY SMT

LEMMA CanonicalFacts ==
  ASSUME NEW n, NameOK(n)
  PROVE  /\ Canonicalize(n) \in Seq(Labels) /\ Len(Canonicalize(n)) = Len(n)
         /\ \A i \in 1..Len(n) : Canonicalize(n)[i] = [rank |-> n[i].rank, capital |-> FALSE]
<1>1. Len(n) \in Nat /\ DOMAIN n = 1..Len(n) /\ \A i \in 1..Len(n) : n[i] \in Labels
  BY NameFacts
<1> DEFINE c == Canonicalize(n)
<1>2. c = [i \in 1..Len(n) |-> [n[i] EXCEPT !.capital = FALSE]]
  BY <1>1 DEF Canonicalize
<1>3. ASSUME NEW i \in 1..Len(n)
      PROVE  /\ [n[i] EXCEPT !.capital = FALSE] = [rank |-> n[i].rank, capital |-> FALSE]
             /\ [rank |-> n[i].rank, capital |-> FALSE] \in Labels
  <2> DEFINE l == n[i]
  <2>1. l \in Labels
    BY <1>1
  <2> HIDE DEF l
  <2>2. [l EXCEPT !.capital = FALSE] = [rank |-> l.rank, capital |-> FALSE]
    <3>1. PICK r \in Nat, u \in BOOLEAN : l = [rank |-> r, capital |-> u]
      BY <2>1 DEF Labels
    <3> DEFINE m == [l EXCEPT !.capital = FALSE]
    <3>2. m = [[rank |-> r, capital |-> u] EXCEPT !.capital = FALSE]
      BY <3>1
    <3>3. m = [rank |-> r, capital |-> FALSE]
      BY <3>2, CapitalSet, Zenon
    <3>4. l.rank = r
      BY <3>1
    <3> HIDE DEF m
    <3>5. m = [rank |-> l.rank, capital |-> FALSE]
      BY <3>3, <3>4
    <3>6. QED  BY <3>5 DEF m
  <2>3. [rank |-> l.rank, capital |-> FALSE] \in Labels
    BY <2>1 DEF Labels
  <2>4. QED  BY <2>2, <2>3 DEF l
<1>4. c = [i \in 1..Len(n) |-> [rank |-> n[i].rank, capital |-> FALSE]]
  BY <1>2, <1>3
<1> HIDE DEF c
<1>5. c \in [1..Len(n) -> Labels]
  BY <1>3, <1>4
<1>6. c \in Seq(Labels) /\ Len(c) = Len(n)
  BY <1>1, <1>5
<1>7. QED  BY <1>4, <1>6 DEF c

LEMMA ReverseFacts ==
  ASSUME NEW S, NEW s \in Seq(S)
  PROVE  /\ Reverse(s) \in Seq(S) /\ Len(Reverse(s)) = Len(s)
         /\ \A j \in 0..(Len(s) - 1) : Reverse(s)[j + 1] = s[Len(s) - j]
<1>1. Len(s) \in Nat /\ \A i \in 1..Len(s) : s[i] \in S
  BY LenProperties, ElementOfSeq
<1> DEFINE r == Reverse(s)
<1>2. r = [i \in 1..Len(s) |-> s[(Len(s) - i) + 1]]
  BY DEF Reverse
<1> HIDE DEF r
<1>3. \A i \in 1..Len(s) : (Len(s) - i) + 1 \in 1..Len(s)
  BY <1>1
<1>4. r \in [1..Len(s) -> S]
  BY <1>1, <1>2, <1>3
<1>5. r \in Seq(S) /\ Len(r) = Len(s)
  BY <1>1, <1>4
<1>6. \A j \in 0..(Len(s) - 1) : j + 1 \in 1..Len(s) /\ (Len(s) - (j + 1)) + 1 = Len(s) - j
  BY <1>1
<1>7. \A j \in 0..(Len(s) - 1) : r[j + 1] = s[Len(s) - j]
  BY <1>2, <1>6
<1>8. QED  BY <1>5, <1>7 DEF r

\* Comparing labels from the end is comparing suffixes, with the case left out.
LEMMA SuffixMeans ==
  ASSUME NEW a, NEW b, NameOK(a), NameOK(b)
  PROVE  IsSuffix(Canonicalize(a), Canonicalize(b)) <=> Ends(a, b)
<1> DEFINE c == Canonicalize(a)
           d == Canonicalize(b)
           r == Reverse(c)
           t == Reverse(d)
<1>1. Len(a) \in Nat /\ Len(b) \in Nat
  BY NameFacts
<1>2. /\ c \in Seq(Labels) /\ Len(c) = Len(a)
      /\ \A i \in 1..Len(a) : c[i] = [rank |-> a[i].rank, capital |-> FALSE]
      /\ d \in Seq(Labels) /\ Len(d) = Len(b)
      /\ \A i \in 1..Len(b) : d[i] = [rank |-> b[i].rank, capital |-> FALSE]
  BY CanonicalFacts
<1> HIDE DEF c, d
<1>3. /\ r \in Seq(Labels) /\ Len(r) = Len(a) /\ \A j \in 0..(Len(a) - 1) : r[j + 1] = c[Len(a) - j]
      /\ t \in Seq(Labels) /\ Len(t) = Len(b) /\ \A j \in 0..(Len(b) - 1) : t[j + 1] = d[Len(b) - j]
  BY <1>2, ReverseFacts
<1> HIDE DEF r, t
<1>4. IsSuffix(c, d) <=> Len(a) <= Len(b) /\ \A i \in 1..Len(a) : r[i] = t[i]
  <2>1. IsSuffix(c, d) <=> IsPrefix(r, t)
    BY DEF IsSuffix, r, t
  <2>2. IsPrefix(r, t) <=> Len(r) <= Len(t) /\ \A i \in 1..Len(r) : r[i] = t[i]
    BY <1>3, PrefixMeans
  <2>3. QED  BY <1>3, <2>1, <2>2
<1>5. ASSUME Len(a) <= Len(b), NEW j \in 0..(Len(a) - 1)
      PROVE  r[j + 1] = t[j + 1] <=> RankFrom(a, j) = RankFrom(b, j)
  <2>1. Len(a) - j \in 1..Len(a) /\ Len(b) - j \in 1..Len(b) /\ j \in 0..(Len(b) - 1)
    BY <1>1, <1>5
  <2>2. r[j + 1] = [rank |-> RankFrom(a, j), capital |-> FALSE]
        /\ t[j + 1] = [rank |-> RankFrom(b, j), capital |-> FALSE]
    BY <1>2, <1>3, <2>1 DEF RankFrom
  <2>3. \A x, y : [rank |-> x, capital |-> FALSE] = [rank |-> y, capital |-> FALSE] <=> x = y
    <3>1. ASSUME NEW x, NEW y, [rank |-> x, capital |-> FALSE] = [rank |-> y, capital |-> FALSE] PROVE x = y
      BY <3>1
    <3>2. QED  BY <3>1
  <2>4. QED  BY <2>2, <2>3
<1>6. ASSUME Len(a) <= Len(b)
      PROVE  (\A i \in 1..Len(a) : r[i] = t[i]) <=> \A j \in 0..(Len(a) - 1) : RankFrom(a, j) = RankFrom(b, j)
  <2>1. /\ \A j \in 0..(Len(a) - 1) : j + 1 \in 1..Len(a)
        /\ \A i \in 1..Len(a) : i - 1 \in 0..(Len(a) - 1) /\ (i - 1) + 1 = i
    BY <1>1
  <2>2. ASSUME \A i \in 1..Len(a) : r[i] = t[i], NEW j \in 0..(Len(a) - 1)
        PROVE  RankFrom(a, j) = RankFrom(b, j)
    BY <1>5, <1>6, <2>1, <2>2
  <2>3. ASSUME \A j \in 0..(Len(a) - 1) : RankFrom(a, j) = RankFrom(b, j), NEW i \in 1..Len(a)
        PROVE  r[i] = t[i]
    <3>1. i - 1 \in 0..(Len(a) - 1) /\ (i - 1) + 1 = i
      BY <2>1
    <3>2. r[(i - 1) + 1] = t[(i - 1) + 1]
      BY <1>5, <1>6, <2>3, <3>1
    <3>3. QED  BY <3>1, <3>2
  <2>4. QED  BY <2>2, <2>3
<1>7. QED  BY <1>4, <1>6 DEF Ends, c, d

LEMMA AboveMeans ==
  ASSUME NEW a, NEW b, NameOK(a), NameOK(b)
  PROVE  AtOrAbove(a, b) <=> Ends(a, b) /\ (IsAbsolute(a) <=> IsAbsolute(b))
<1>1. Len(a) \in Nat /\ (a = EmptyName <=> Len(a) = 0)
  BY NameFacts
<1>2. AtOrAbove(a, b) <=> Ends(a, b) /\ (a = EmptyName => ~IsAbsolute(b))
  BY SuffixMeans DEF AtOrAbove
<1>3. CASE a = EmptyName
  <2>1. ~IsAbsolute(a)
    BY <1>3 DEF IsAbsolute
  <2>2. QED  BY <1>2, <1>3, <2>1
<1>4. CASE a # EmptyName
  <2>1. Len(a) > 0
    BY <1>1, <1>4
  <2>2. QED  BY <1>2, <1>4, <2>1, EndsAbsolute
<1>5. QED  BY <1>3, <1>4

\* The order: a relative name comes before an absolute one, and of two of a kind
\* the one whose label is smaller where they part, or which ends there.
Before(a, b, v) == IF v < Len(a) /\ v < Len(b) THEN RankFrom(a, v) < RankFrom(b, v) ELSE Len(a) < Len(b)

LEMMA OrderMeans ==
  ASSUME NEW a, NEW b, NameOK(a), NameOK(b), NEW v, Parts(a, b, v)
  PROVE  LET order == FullCompare(a, b).order
         IN  /\ order \in {-1, 0, 1}
             /\ order < 0 <=> \/ ~IsAbsolute(a) /\ IsAbsolute(b)
                              \/ (IsAbsolute(a) <=> IsAbsolute(b)) /\ Before(a, b, v)
             /\ order > 0 <=> \/ IsAbsolute(a) /\ ~IsAbsolute(b)
                              \/ (IsAbsolute(a) <=> IsAbsolute(b)) /\ Before(b, a, v)
<1> DEFINE order == FullCompare(a, b).order
<1>1. Len(a) \in Nat /\ Len(b) \in Nat /\ v \in Nat
  BY NameFacts DEF Parts
<1>2. ComparedAt(a, b, v)
  <2>1. PICK w : Parts(a, b, w) /\ ComparedAt(a, b, w)
    BY Compares
  <2>2. v = w
    BY <1>1, <2>1, PartsOnce
  <2>3. QED  BY <2>1, <2>2
<1>3. order = IF IsAbsolute(a) /\ ~IsAbsolute(b) THEN 1 ELSE IF ~IsAbsolute(a) /\ IsAbsolute(b) THEN -1
              ELSE IF v < Len(a) /\ v < Len(b) THEN SignOf(RankFrom(a, v) - RankFrom(b, v))
              ELSE SignOf(Len(a) - Len(b))
  BY <1>2 DEF ComparedAt
<1> HIDE DEF order
<1>4. ASSUME NEW x \in Nat, NEW y \in Nat
      PROVE  SignOf(x - y) \in {-1, 0, 1} /\ (SignOf(x - y) < 0 <=> x < y) /\ (SignOf(x - y) > 0 <=> y < x)
  BY DEF SignOf
<1>5. CASE ~(IsAbsolute(a) <=> IsAbsolute(b))
  <2>1. CASE IsAbsolute(a) /\ ~IsAbsolute(b)
    <3>1. order = 1
      BY <1>3, <2>1
    <3>2. QED  BY <2>1, <3>1 DEF order
  <2>2. CASE ~IsAbsolute(a) /\ IsAbsolute(b)
    <3>1. order = -1
      BY <1>3, <2>2
    <3>2. QED  BY <2>2, <3>1 DEF order
  <2>3. QED  BY <1>5, <2>1, <2>2
<1>6. CASE (IsAbsolute(a) <=> IsAbsolute(b)) /\ v < Len(a) /\ v < Len(b)
  <2>1. v \in 0..(Len(a) - 1) /\ v \in 0..(Len(b) - 1)
    BY <1>1, <1>6
  <2>2. RankFrom(a, v) \in Nat /\ RankFrom(b, v) \in Nat
    BY <2>1, NameFacts
  <2>3. order = SignOf(RankFrom(a, v) - RankFrom(b, v))
    BY <1>3, <1>6
  <2>4. (Before(a, b, v) <=> RankFrom(a, v) < RankFrom(b, v)) /\ (Before(b, a, v) <=> RankFrom(b, v) < RankFrom(a, v))
    BY <1>6 DEF Before
  <2>5. order \in {-1, 0, 1} /\ (order < 0 <=> Before(a, b, v)) /\ (order > 0 <=> Before(b, a, v))
    BY <1>4, <2>2, <2>3, <2>4
  <2>6. QED  BY <1>6, <2>5 DEF order
<1>7. CASE (IsAbsolute(a) <=> IsAbsolute(b)) /\ ~(v < Len(a) /\ v < Len(b))
  <2>1. order = SignOf(Len(a) - Len(b))
    BY <1>3, <1>7
  <2>2. (Before(a, b, v) <=> Len(a) < Len(b)) /\ (Before(b, a, v) <=> Len(b) < Len(a))
    BY <1>7 DEF Before
  <2>3. order \in {-1, 0, 1} /\ (order < 0 <=> Before(a, b, v)) /\ (order > 0 <=> Before(b, a, v))
    BY <1>1, <1>4, <2>1, <2>2
  <2>4. QED  BY <1>7, <2>3 DEF order
<1>8. QED  BY <1>5, <1>6, <1>7

LEMMA OrderTurns ==
  ASSUME NEW a, NEW b, NameOK(a), NameOK(b)
  PROVE  FullCompare(a, b).order = -FullCompare(b, a).order
<1> DEFINE x == FullCompare(a, b).order
           y == FullCompare(b, a).order
<1>1. PICK v : Parts(a, b, v)
  BY Compares
<1>2. Parts(b, a, v)
  BY <1>1 DEF Parts
<1>3. x \in {-1, 0, 1} /\ y \in {-1, 0, 1} /\ (x < 0 <=> y > 0) /\ (x > 0 <=> y < 0)
  BY <1>1, <1>2, OrderMeans
<1> HIDE DEF x, y
<1>4. x = -y
  BY <1>3
<1>5. QED  BY <1>4 DEF x, y

LEMMA AboveIsBefore ==
  ASSUME NEW a, NEW b, NameOK(a), NameOK(b), AtOrAbove(b, a)
  PROVE  FullCompare(a, b).order >= 0
<1>1. Len(a) \in Nat /\ Len(b) \in Nat
  BY NameFacts
<1>2. Ends(b, a) /\ (IsAbsolute(a) <=> IsAbsolute(b))
  BY AboveMeans
<1>3. Parts(a, b, Len(b)) /\ ~Before(a, b, Len(b))
  BY <1>1, <1>2 DEF Ends, Parts, Before
<1> DEFINE x == FullCompare(a, b).order
<1>4. x \in {-1, 0, 1} /\ ~(x < 0)
  BY <1>2, <1>3, OrderMeans
<1> HIDE DEF x
<1>5. x >= 0
  BY <1>4
<1>6. QED  BY <1>5 DEF x

\* Of three names that part at v, w and x.
LEMMA BeforeChains ==
  ASSUME NEW a, NEW b, NEW c, NameOK(a), NameOK(b), NameOK(c),
         NEW v, NEW w, NEW x, Parts(a, b, v), Parts(b, c, w), Parts(a, c, x),
         Before(a, b, v), ~Before(c, b, w)
  PROVE  Before(a, c, x)
<1>1. /\ Len(a) \in Nat /\ Len(b) \in Nat /\ Len(c) \in Nat
      /\ \A k \in 0..(Len(a) - 1) : RankFrom(a, k) \in Nat
      /\ \A k \in 0..(Len(b) - 1) : RankFrom(b, k) \in Nat
      /\ \A k \in 0..(Len(c) - 1) : RankFrom(c, k) \in Nat
  BY NameFacts
<1>2. /\ v \in Nat /\ v <= Len(a) /\ v <= Len(b) /\ w \in Nat /\ w <= Len(b) /\ w <= Len(c)
      /\ \A j \in 0..(v - 1) : RankFrom(a, j) = RankFrom(b, j)
      /\ \A j \in 0..(w - 1) : RankFrom(b, j) = RankFrom(c, j)
      /\ v < Len(a) /\ v < Len(b) => RankFrom(a, v) # RankFrom(b, v)
      /\ w < Len(b) /\ w < Len(c) => RankFrom(b, w) # RankFrom(c, w)
  BY DEF Parts
<1>3. ASSUME Parts(a, c, v), Before(a, c, v) PROVE Before(a, c, x)
  BY <1>1, <1>3, PartsOnce
<1>4. ASSUME Parts(a, c, w), Before(a, c, w) PROVE Before(a, c, x)
  BY <1>1, <1>4, PartsOnce
<1>5. CASE v < w
  <2>1. /\ v \in 0..(w - 1) /\ v < Len(b) /\ v < Len(c) /\ RankFrom(b, v) = RankFrom(c, v)
        /\ \A j \in 0..(v - 1) : j \in 0..(w - 1)
    BY <1>1, <1>2, <1>5
  <2>2. \A j \in 0..(v - 1) : RankFrom(a, j) = RankFrom(c, j)
    BY <1>2, <2>1
  <2>3. Parts(a, c, v)
    BY <1>2, <2>1, <2>2 DEF Parts
  <2>4. CASE v < Len(a)
    <3>1. RankFrom(a, v) < RankFrom(b, v)
      BY <2>1, <2>4 DEF Before
    <3>2. QED  BY <1>3, <2>1, <2>3, <2>4, <3>1 DEF Before
  <2>5. CASE ~(v < Len(a))
    <3>1. Len(a) < Len(c)
      BY <1>1, <1>2, <2>1, <2>5
    <3>2. QED  BY <1>3, <2>3, <2>5, <3>1 DEF Before
  <2>6. QED  BY <2>4, <2>5
<1>6. CASE w < v
  <2>1. /\ w \in 0..(v - 1) /\ w < Len(a) /\ w < Len(b) /\ RankFrom(a, w) = RankFrom(b, w)
        /\ \A j \in 0..(w - 1) : j \in 0..(v - 1)
    BY <1>1, <1>2, <1>6
  <2>2. \A j \in 0..(w - 1) : RankFrom(a, j) = RankFrom(c, j)
    BY <1>2, <2>1
  <2>3. Parts(a, c, w)
    BY <1>2, <2>1, <2>2 DEF Parts
  <2>4. w < Len(c)
    BY <1>1, <1>2, <2>1 DEF Before
  <2>5. RankFrom(b, w) \in Nat /\ RankFrom(c, w) \in Nat
    <3>1. w \in 0..(Len(b) - 1) /\ w \in 0..(Len(c) - 1)
      BY <1>1, <1>2, <2>1, <2>4
    <3>2. QED  BY <1>1, <3>1
  <2>6. RankFrom(b, w) < RankFrom(c, w)
    <3>1. ~(RankFrom(c, w) < RankFrom(b, w)) /\ RankFrom(b, w) # RankFrom(c, w)
      BY <1>2, <2>1, <2>4 DEF Before
    <3>2. QED  BY <2>5, <3>1
  <2>7. QED  BY <1>4, <2>1, <2>3, <2>4, <2>6 DEF Before
<1>7. CASE v = w
  <2>1. \A j \in 0..(v - 1) : RankFrom(a, j) = RankFrom(c, j)
    BY <1>2, <1>7
  <2>2. v < Len(b) /\ v < Len(c)
    <3>1. v < Len(b)
      BY <1>1, <1>2 DEF Before
    <3>2. QED  BY <1>1, <1>2, <1>7, <3>1 DEF Before
  <2>3. RankFrom(b, v) \in Nat /\ RankFrom(c, v) \in Nat
    <3>1. v \in 0..(Len(b) - 1) /\ v \in 0..(Len(c) - 1)
      BY <1>1, <1>2, <2>2
    <3>2. QED  BY <1>1, <3>1
  <2>4. RankFrom(b, v) < RankFrom(c, v)
    <3>1. ~(RankFrom(c, v) < RankFrom(b, v)) /\ RankFrom(b, v) # RankFrom(c, v)
      BY <1>2, <1>7, <2>2 DEF Before
    <3>2. QED  BY <2>3, <3>1
  <2>5. CASE v < Len(a)
    <3>1. RankFrom(a, v) < RankFrom(b, v)
      BY <2>2, <2>5 DEF Before
    <3>2. RankFrom(a, v) \in Nat
      <4>1. v \in 0..(Len(a) - 1)
        BY <1>1, <1>2, <2>5
      <4>2. QED  BY <1>1, <4>1
    <3>3. RankFrom(a, v) < RankFrom(c, v)
      BY <2>3, <2>4, <3>1, <3>2
    <3>4. RankFrom(a, v) # RankFrom(c, v)
      BY <2>3, <3>2, <3>3
    <3>5. Parts(a, c, v)
      BY <1>2, <1>7, <2>1, <3>4 DEF Parts
    <3>6. QED  BY <1>3, <2>2, <2>5, <3>3, <3>5 DEF Before
  <2>6. CASE ~(v < Len(a))
    <3>1. Parts(a, c, v)
      BY <1>2, <1>7, <2>1, <2>6 DEF Parts
    <3>2. Len(a) < Len(c)
      BY <1>1, <1>2, <2>2, <2>6
    <3>3. QED  BY <1>3, <2>6, <3>1, <3>2 DEF Before
  <2>7. QED  BY <2>5, <2>6
<1>8. QED  BY <1>2, <1>5, <1>6, <1>7

LEMMA OrderChains ==
  ASSUME NEW a, NEW b, NEW c, NameOK(a), NameOK(b), NameOK(c),
         FullCompare(a, b).order < 0, FullCompare(b, c).order <= 0
  PROVE  FullCompare(a, c).order < 0
<1>1. PICK v, w, x : Parts(a, b, v) /\ Parts(b, c, w) /\ Parts(a, c, x)
  <2>1. (\E v : Parts(a, b, v)) /\ (\E w : Parts(b, c, w)) /\ \E x : Parts(a, c, x)
    BY Compares
  <2>2. QED  BY <2>1
<1>2. ~(FullCompare(b, c).order > 0)
  BY <1>1, OrderMeans
<1>3. /\ \/ ~IsAbsolute(a) /\ IsAbsolute(b)
         \/ (IsAbsolute(a) <=> IsAbsolute(b)) /\ Before(a, b, v)
      /\ ~(IsAbsolute(b) /\ ~IsAbsolute(c))
      /\ (IsAbsolute(b) <=> IsAbsolute(c)) => ~Before(c, b, w)
  BY <1>1, <1>2, OrderMeans
<1>4. \/ ~IsAbsolute(a) /\ IsAbsolute(c)
      \/ (IsAbsolute(a) <=> IsAbsolute(c)) /\ Before(a, c, x)
  <2>1. CASE ~IsAbsolute(a) /\ IsAbsolute(c)
    BY <2>1
  <2>2. CASE ~(~IsAbsolute(a) /\ IsAbsolute(c))
    <3>1. /\ IsAbsolute(a) <=> IsAbsolute(b)
          /\ IsAbsolute(b) <=> IsAbsolute(c)
      BY <1>3, <2>2
    <3>2. Before(a, c, x)
      BY <1>1, <1>3, <3>1, BeforeChains
    <3>3. QED  BY <3>1, <3>2
  <2>3. QED  BY <2>1, <2>2
<1>5. QED  BY <1>1, <1>4, OrderMeans

-----------------------------------------------------------------------------
(* Names are taken apart and put together. *)

LEMMA TableNameOK ==
  ASSUME NEW n \in TableNames
  PROVE  NameOK(n)
<1>1. n \in Seq(Labels)
  BY NameTableAssumption DEF Labels
<1>2. DOMAIN n = 1..Len(n)
  BY <1>1, LenProperties
<1>3. QED  BY <1>1, <1>2, NameTableAssumption DEF NameOK

LEMMA Rejoined ==
  ASSUME NEW S, NEW s \in Seq(S), NEW k \in 0..Len(s)
  PROVE  SubSeq(s, 1, k) \o SubSeq(s, k + 1, Len(s)) = s
<1> DEFINE n == Len(s)
           p == SubSeq(s, 1, k)
           q == SubSeq(s, k + 1, n)
           u == p \o q
<1>1. n \in Nat /\ k \in Nat /\ k <= n /\ k + 1 \in Nat \ {0} /\ k + 1 <= n + 1 /\ 1 <= k + 1 /\ 1 \in Nat \ {0}
      /\ n <= Len(s) /\ k <= Len(s)
  BY LenProperties
<1>2. p \in Seq(S) /\ Len(p) = k - 1 + 1 /\ \A i \in 1..(k - 1 + 1) : p[i] = s[1 + i - 1]
  <2> HIDE DEF n
  <2>1. QED  BY <1>1, SubSeqFacts
<1>3. q \in Seq(S) /\ Len(q) = n - (k + 1) + 1 /\ \A i \in 1..(n - (k + 1) + 1) : q[i] = s[(k + 1) + i - 1]
  <2> DEFINE m == k + 1
  <2>1. m \in Nat \ {0} /\ m <= n + 1
    BY <1>1
  <2> HIDE DEF m, n
  <2>2. /\ SubSeq(s, m, n) \in Seq(S) /\ Len(SubSeq(s, m, n)) = n - m + 1
        /\ \A i \in 1..(n - m + 1) : SubSeq(s, m, n)[i] = s[m + i - 1]
    BY <1>1, <2>1, SubSeqFacts
  <2>3. QED  BY <2>2 DEF m
<1> HIDE DEF p, q
<1>4. Len(p) = k /\ Len(q) = n - k /\ \A i \in 1..k : p[i] = s[i]
  <2>1. k - 1 + 1 = k /\ n - (k + 1) + 1 = n - k /\ \A i \in 1..k : 1 + i - 1 = i
    BY <1>1
  <2>2. QED  BY <1>2, <1>3, <2>1
<1>5. ASSUME NEW i \in 1..(n - k) PROVE q[i] = s[k + i]
  <2>1. i \in 1..(n - (k + 1) + 1) /\ (k + 1) + i - 1 = k + i
    BY <1>1
  <2>2. QED  BY <1>3, <2>1
<1>6. /\ u \in Seq(S) /\ Len(u) = Len(p) + Len(q)
      /\ \A i \in 1..(Len(p) + Len(q)) : u[i] = IF i <= Len(p) THEN p[i] ELSE q[i - Len(p)]
  BY <1>2, <1>3, ConcatFacts
<1> HIDE DEF u
<1>7. Len(p) + Len(q) = n
  BY <1>1, <1>4
<1>8. ASSUME NEW i \in 1..n PROVE u[i] = s[i]
  <2>1. u[i] = IF i <= k THEN p[i] ELSE q[i - k]
    BY <1>4, <1>6, <1>7
  <2>2. CASE i <= k
    <3>1. i \in 1..k
      BY <1>1, <2>2
    <3>2. QED  BY <1>4, <2>1, <2>2, <3>1
  <2>3. CASE ~(i <= k)
    <3>1. i - k \in 1..(n - k) /\ k + (i - k) = i
      BY <1>1, <2>3
    <3>2. q[i - k] = s[k + (i - k)]
      BY <1>5, <3>1
    <3>3. QED  BY <2>1, <2>3, <3>1, <3>2
  <2>4. QED  BY <2>2, <2>3
<1>9. u = s
  <2>1. Len(u) = Len(s)
    BY <1>6, <1>7
  <2>2. \A i \in 1..Len(u) : u[i] = s[i]
    BY <1>8, <2>1
  <2>3. QED  BY <1>6, <2>1, <2>2, SeqEqual
<1>10. QED  BY <1>9 DEF u, p, q

\* The labels before the last one or more are a relative name.
LEMMA FrontIsRelative ==
  ASSUME NEW n, NameOK(n), NEW k \in 0..(Len(n) - 1)
  PROVE  LET p == SubSeq(n, 1, k)
         IN  /\ p \in Seq(Labels) /\ Len(p) = k /\ NameOK(p) /\ ~IsAbsolute(p)
             /\ \A i \in 1..k : p[i] = n[i] /\ n[i].rank # 0
<1> DEFINE p == SubSeq(n, 1, k)
<1>1. n \in Seq(Labels) /\ Len(n) \in Nat /\ k \in Nat /\ k <= Len(n) /\ 1 <= k + 1 /\ 1 \in Nat \ {0}
  BY NameFacts
<1>2. p \in Seq(Labels) /\ Len(p) = k - 1 + 1 /\ \A i \in 1..(k - 1 + 1) : p[i] = n[1 + i - 1]
  BY <1>1, SubSeqFacts
<1> HIDE DEF p
<1>3. Len(p) = k /\ \A i \in 1..k : p[i] = n[i]
  <2>1. k - 1 + 1 = k /\ \A i \in 1..k : 1 + i - 1 = i
    BY <1>1
  <2>2. QED  BY <1>2, <2>1
<1>4. \A i \in 1..k : i \in 1..Len(n) /\ i # Len(n)
  BY <1>1
<1>5. \A i \in 1..k : n[i].rank # 0
  BY <1>4 DEF NameOK
<1>6. NameOK(p)
  BY <1>2, <1>3, <1>5 DEF NameOK
<1>7. ~IsAbsolute(p)
  <2>1. CASE k = 0
    <3>1. ~(Len(p) > 0)
      BY <1>3, <2>1
    <3>2. QED  BY <1>6, <3>1, AbsoluteByRank
  <2>2. CASE k # 0
    <3>1. k \in 1..k /\ Len(p) - 0 = k
      BY <1>1, <1>3, <2>2
    <3>2. RankFrom(p, 0) # 0
      BY <1>3, <1>5, <3>1 DEF RankFrom
    <3>3. QED  BY <1>6, <3>2, AbsoluteByRank
  <2>3. QED  BY <2>1, <2>2
<1>8. QED  BY <1>2, <1>3, <1>5, <1>6, <1>7 DEF p

\* The last labels of a name are a name that it ends with.
LEMMA BackIsName ==
  ASSUME NEW n, NameOK(n), NEW d \in 0..Len(n)
  PROVE  LET q == SubSeq(n, Len(n) - d + 1, Len(n))
         IN  q \in Seq(Labels) /\ Len(q) = d /\ NameOK(q) /\ Ends(q, n)
<1> DEFINE k == Len(n) - d
           m == k + 1
           l == Len(n)
           q == SubSeq(n, m, l)
<1>1. n \in Seq(Labels) /\ l \in Nat /\ k \in Nat /\ m \in Nat \ {0} /\ m <= l + 1 /\ l <= Len(n)
      /\ l - m + 1 = d /\ d \in Nat /\ d <= l
  BY NameFacts
<1>2. q \in Seq(Labels) /\ Len(q) = d /\ \A i \in 1..d : q[i] = n[m + i - 1]
  <2> HIDE DEF m, l
  <2>1. q \in Seq(Labels) /\ Len(q) = l - m + 1 /\ \A i \in 1..(l - m + 1) : q[i] = n[m + i - 1]
    BY <1>1, SubSeqFacts
  <2>2. QED  BY <1>1, <2>1
<1> HIDE DEF q
<1>3. ASSUME NEW i \in 1..d, q[i].rank = 0 PROVE q[i] = RootLabel /\ i = d
  <2>1. m + i - 1 \in 1..Len(n) /\ (m + i - 1 = Len(n) => i = d)
    BY <1>1
  <2>2. q[i] = n[m + i - 1]
    BY <1>2
  <2>3. n[m + i - 1] = RootLabel /\ m + i - 1 = Len(n)
    BY <1>3, <2>1, <2>2 DEF NameOK
  <2>4. QED  BY <2>1, <2>2, <2>3
<1>4. NameOK(q)
  BY <1>2, <1>3 DEF NameOK
<1>5. ASSUME NEW j \in 0..(d - 1) PROVE RankFrom(q, j) = RankFrom(n, j)
  <2>1. d - j \in 1..d /\ m + (d - j) - 1 = Len(n) - j
    BY <1>1
  <2>2. q[d - j] = n[m + (d - j) - 1]
    BY <1>2, <2>1
  <2>3. QED  BY <1>2, <2>1, <2>2 DEF RankFrom
<1>6. Ends(q, n)
  BY <1>1, <1>2, <1>5 DEF Ends
<1>7. QED  BY <1>2, <1>4, <1>6 DEF q

LEMMA SplitRejoins ==
  ASSUME NEW n, NameOK(n), NEW depth \in 0..Len(n)
  PROVE  Concatenate(SplitAt(n, depth)[1], SplitAt(n, depth)[2]) = Yields(n)
<1>1. n \in Seq(Labels) /\ Len(n) \in Nat /\ depth \in Nat
  BY NameFacts
<1>2. CASE depth = 0
  <2>1. SplitAt(n, depth)[1] = n /\ SplitAt(n, depth)[2] = EmptyName
    BY <1>2 DEF SplitAt
  <2>2. Len(EmptyName) = 0 /\ n \o EmptyName = n
    BY <1>1, ConcatEmptySeq, EmptySeq DEF EmptyName
  <2>3. Concatenate(n, EmptyName) = Yields(n)
    BY <2>2 DEF Concatenate
  <2>4. QED  BY <2>1, <2>3
<1>3. CASE depth # 0
  <2> DEFINE k == Len(n) - depth
             p == SubSeq(n, 1, k)
             q == SubSeq(n, k + 1, Len(n))
  <2>1. SplitAt(n, depth)[1] = p /\ SplitAt(n, depth)[2] = q
    BY <1>3 DEF SplitAt
  <2>2. k \in 0..(Len(n) - 1) /\ k \in 0..Len(n)
    BY <1>1, <1>3
  <2> HIDE DEF k
  <2>3. ~IsAbsolute(p) /\ p \o q = n
    BY <1>1, <2>2, FrontIsRelative, Rejoined
  <2> HIDE DEF p, q
  <2>4. Concatenate(p, q) = Yields(n)
    BY <2>3 DEF Concatenate
  <2>5. QED  BY <2>1, <2>4
<1>4. QED  BY <1>2, <1>3

LEMMA ParentRejoins ==
  ASSUME NEW n, NameOK(n), ParentOf(n).error = "none"
  PROVE  <<n[1]>> \o ParentOf(n).is = n
<1>1. n \notin {EmptyName, <<RootLabel>>}
  BY DEF ParentOf, Raises
<1>2. ParentOf(n).is = Tail(n)
  BY <1>1 DEF ParentOf, Yields
<1>3. n \in Seq(Labels) /\ n # << >>
  BY <1>1, NameFacts DEF EmptyName
<1> DEFINE t == Tail(n)
<1>4. /\ Len(n) \in Nat \ {0} /\ n[1] \in Labels /\ t \in Seq(Labels) /\ Len(t) = Len(n) - 1
      /\ \A i \in 1..(Len(n) - 1) : t[i] = n[i + 1]
  BY <1>3, TailFacts, Zenon
<1> DEFINE h == <<n[1]>>
           u == h \o t
<1>5. h \in Seq(Labels) /\ Len(h) = 1 /\ h[1] = n[1]
  BY <1>4
<1> HIDE DEF t, h
<1>6. /\ u \in Seq(Labels) /\ Len(u) = Len(h) + Len(t)
      /\ \A i \in 1..(Len(h) + Len(t)) : u[i] = IF i <= Len(h) THEN h[i] ELSE t[i - Len(h)]
  BY <1>4, <1>5, ConcatFacts, Zenon
<1> HIDE DEF u
<1>7. Len(h) + Len(t) = Len(n)
  BY <1>4, <1>5
<1>8. ASSUME NEW i \in 1..Len(n) PROVE u[i] = n[i]
  <2>1. u[i] = IF i <= 1 THEN h[i] ELSE t[i - 1]
    BY <1>5, <1>6, <1>7
  <2>2. CASE i = 1
    BY <1>5, <2>1, <2>2
  <2>3. CASE i # 1
    <3>1. i - 1 \in 1..(Len(n) - 1) /\ (i - 1) + 1 = i /\ ~(i <= 1)
      BY <1>4, <2>3
    <3>2. t[i - 1] = n[(i - 1) + 1]
      BY <1>4, <3>1
    <3>3. QED  BY <2>1, <3>1, <3>2
  <2>4. QED  BY <2>2, <2>3
<1>9. u = n
  <2>1. Len(u) = Len(n) /\ \A i \in 1..Len(u) : u[i] = n[i]
    BY <1>6, <1>7, <1>8
  <2>2. QED  BY <1>3, <1>6, <2>1, SeqEqual
<1>10. QED  BY <1>2, <1>9 DEF u, h, t

LEMMA UnrelatedStays ==
  ASSUME NEW n, NEW m, NameOK(n), NameOK(m), ~(m # EmptyName /\ AtOrAbove(m, n))
  PROVE  ChooseRelativity(n, m, TRUE) = Yields(n)
<1>1. CASE m = EmptyName
  BY <1>1 DEF ChooseRelativity
<1>2. CASE m # EmptyName
  <2>1. ~IsSubdomain(n, m)
    BY <1>2, AboveMeans, SubdomainMeans
  <2>2. Relativize(n, m) = Yields(n)
    BY <2>1 DEF Relativize
  <2>3. ChooseRelativity(n, m, TRUE) = Relativize(n, m)
    BY <1>2 DEF ChooseRelativity
  <2>4. QED  BY <2>2, <2>3
<1>3. QED  BY <1>1, <1>2

\* A name that is made relative to one of its ancestors comes back out of it,
\* with the ancestor's case.
LEMMA RelatedComesBack ==
  ASSUME NEW n, NEW m, NameOK(n), NameOK(m), m # EmptyName, AtOrAbove(m, n)
  PROVE  LET short == ChooseRelativity(n, m, TRUE).is
         IN  SameName(ChooseRelativity(short, m, FALSE).is, n) /\ ~IsAbsolute(short)
<1> DEFINE k == Len(n) - Len(m)
           p == SubSeq(n, 1, k)
           u == p \o m
<1>1. /\ Len(n) \in Nat /\ Len(m) \in Nat /\ n \in Seq(Labels) /\ m \in Seq(Labels) /\ Len(m) # 0
      /\ Len(m) <= Len(n) /\ \A j \in 0..(Len(m) - 1) : RankFrom(m, j) = RankFrom(n, j)
  BY NameFacts, AboveMeans DEF Ends
<1>2. k \in 0..(Len(n) - 1) /\ k + Len(m) = Len(n) /\ k \in Nat
  BY <1>1
<1>3. IsSubdomain(n, m)
  BY AboveMeans, SubdomainMeans
<1>4. ChooseRelativity(n, m, TRUE).is = p
  <2>1. Relativize(n, m) = Yields(p)
    BY <1>1, <1>3 DEF Relativize
  <2> DEFINE r == ChooseRelativity(n, m, TRUE)
  <2>2. r = Yields(p)
    BY <2>1 DEF ChooseRelativity
  <2> HIDE DEF p, r
  <2>3. r.is = p
    BY <2>2 DEF Yields
  <2>4. QED  BY <2>3 DEF r
<1> HIDE DEF k
<1>5. /\ p \in Seq(Labels) /\ Len(p) = k /\ NameOK(p) /\ ~IsAbsolute(p)
      /\ \A i \in 1..k : p[i] = n[i] /\ n[i].rank # 0
  BY <1>2, FrontIsRelative
<1> HIDE DEF p
<1>6. ChooseRelativity(p, m, FALSE).is = u
  <2>1. Concatenate(p, m) = Yields(u)
    BY <1>5 DEF Concatenate
  <2>2. Derelativize(p, m) = Yields(u)
    BY <1>5, <2>1 DEF Derelativize
  <2> DEFINE r == ChooseRelativity(p, m, FALSE)
  <2>3. r = Yields(u)
    BY <2>2 DEF ChooseRelativity
  <2> HIDE DEF u, r
  <2>4. r.is = u
    BY <2>3 DEF Yields
  <2>5. QED  BY <2>4 DEF r
<1>7. /\ u \in Seq(Labels) /\ Len(u) = Len(p) + Len(m)
      /\ \A i \in 1..(Len(p) + Len(m)) : u[i] = IF i <= Len(p) THEN p[i] ELSE m[i - Len(p)]
  <2>1. p \in Seq(Labels) /\ m \in Seq(Labels)
    BY <1>1, <1>5
  <2>2. QED  BY <2>1, ConcatFacts
<1> HIDE DEF u
<1>8. Len(u) = Len(n) /\ \A i \in 1..Len(n) : u[i] = IF i <= k THEN p[i] ELSE m[i - k]
  BY <1>2, <1>5, <1>7
<1>9. ASSUME NEW i \in 1..Len(n) PROVE i <= k => i \in 1..k
  BY <1>2
<1>10. ASSUME NEW i \in 1..Len(n), ~(i <= k) PROVE i - k \in 1..Len(m) /\ (i - k = Len(m) => i = Len(n))
  BY <1>1, <1>2, <1>10
<1>11. ASSUME NEW i \in 1..Len(u), u[i].rank = 0 PROVE u[i] = RootLabel /\ i = Len(u)
  <2>1. ~(i <= k)
    BY <1>5, <1>8, <1>9, <1>11
  <2>2. i - k \in 1..Len(m) /\ u[i] = m[i - k] /\ (i - k = Len(m) => i = Len(n))
    BY <1>8, <1>10, <2>1
  <2>3. m[i - k] = RootLabel /\ i - k = Len(m)
    BY <1>11, <2>2 DEF NameOK
  <2>4. QED  BY <1>8, <2>2, <2>3
<1>12. NameOK(u)
  BY <1>7, <1>11 DEF NameOK
<1>13. ASSUME NEW j \in 0..(Len(u) - 1) PROVE RankFrom(u, j) = RankFrom(n, j)
  <2> DEFINE i == Len(n) - j
  <2>1. i \in 1..Len(n) /\ Len(u) - j = i
    BY <1>1, <1>8
  <2>2. CASE i <= k
    <3>1. u[i] = n[i]
      BY <1>5, <1>8, <1>9, <2>1, <2>2
    <3>2. QED  BY <2>1, <3>1 DEF RankFrom
  <2>3. CASE ~(i <= k)
    <3>1. u[i] = m[i - k]
      BY <1>8, <2>1, <2>3
    <3>2. i - k = Len(m) - j /\ j \in 0..(Len(m) - 1)
      BY <1>1, <1>2, <1>8, <2>3
    <3>3. RankFrom(m, j) = RankFrom(n, j)
      BY <1>1, <3>2
    <3>4. QED  BY <2>1, <3>1, <3>2, <3>3 DEF RankFrom
  <2>4. QED  BY <2>2, <2>3
<1>14. Ends(u, n)
  BY <1>1, <1>8, <1>13 DEF Ends
<1>15. SameName(u, n)
  BY <1>8, <1>12, <1>14, SameNameMeans
<1>16. QED  BY <1>4, <1>5, <1>6, <1>15

\* Of a relative name the empty origin leaves nothing.
LEMMA EmptyOrigin ==
  ASSUME NEW n, NameOK(n)
  PROVE  Relativize(n, EmptyName) = Yields(IF IsAbsolute(n) THEN n ELSE EmptyName)
<1>1. EmptyName \in Seq(Labels) /\ Len(EmptyName) = 0 /\ NameOK(EmptyName) /\ n \in Seq(Labels) /\ Len(n) \in Nat
  <2>1. EmptyName \in Seq(Labels) /\ Len(EmptyName) = 0
    BY EmptySeq DEF EmptyName
  <2>2. QED  BY <2>1, NameFacts DEF NameOK
<1>2. Ends(EmptyName, n) /\ ~IsAbsolute(EmptyName)
  BY <1>1 DEF Ends, IsAbsolute
<1>3. IsSubdomain(n, EmptyName) <=> ~IsAbsolute(n)
  <2>1. AtOrAbove(EmptyName, n) <=> ~IsAbsolute(n)
    BY <1>1, <1>2, AboveMeans
  <2>2. QED  BY <1>1, <2>1, AboveMeans, SubdomainMeans
<1>4. SubSeq(n, 1, 0) = EmptyName
  BY <1>1, SubSeqProperties DEF EmptyName
<1>5. QED  BY <1>1, <1>3, <1>4 DEF Relativize

LEMMA NamesAlwaysAgree == NamesAgree
<1> SUFFICES ASSUME NEW n \in TableNames, NEW m \in TableNames
             PROVE  LET order == FullCompare(n, m).order
                        above == m # EmptyName /\ AtOrAbove(m, n)
                    IN  /\ (IsSubdomain(n, m) <=> AtOrAbove(m, n)) /\ (IsSuperdomain(m, n) <=> AtOrAbove(m, n))
                        /\ order = -FullCompare(m, n).order
                        /\ AtOrAbove(m, n) => order >= 0
                        /\ \A k \in TableNames :
                             order < 0 /\ FullCompare(m, k).order <= 0 => FullCompare(n, k).order < 0
                        /\ \A depth \in 0..Len(n) :
                             Concatenate(SplitAt(n, depth)[1], SplitAt(n, depth)[2]) = Yields(n)
                        /\ ParentOf(n).error = "none" => <<n[1]>> \o ParentOf(n).is = n
                        /\ ~above => ChooseRelativity(n, m, TRUE) = Yields(n)
                        /\ Relativize(n, EmptyName) = Yields(IF IsAbsolute(n) THEN n ELSE EmptyName)
                        /\ above =>
                             LET short == ChooseRelativity(n, m, TRUE).is
                             IN  /\ SameName(ChooseRelativity(short, m, FALSE).is, n)
                                 /\ ~IsAbsolute(short)
  BY DEF NamesAgree
<1>1. NameOK(n) /\ NameOK(m) /\ \A k \in TableNames : NameOK(k)
  BY TableNameOK
<1>2. (IsSubdomain(n, m) <=> AtOrAbove(m, n)) /\ (IsSuperdomain(m, n) <=> AtOrAbove(m, n))
  BY <1>1, AboveMeans, SubdomainMeans
<1>3. FullCompare(n, m).order = -FullCompare(m, n).order
  BY <1>1, OrderTurns
<1>4. AtOrAbove(m, n) => FullCompare(n, m).order >= 0
  BY <1>1, AboveIsBefore
<1>5. ASSUME NEW k \in TableNames, FullCompare(n, m).order < 0, FullCompare(m, k).order <= 0
      PROVE  FullCompare(n, k).order < 0
  BY <1>1, <1>5, OrderChains
<1>6. \A depth \in 0..Len(n) : Concatenate(SplitAt(n, depth)[1], SplitAt(n, depth)[2]) = Yields(n)
  BY <1>1, SplitRejoins
<1>7. ParentOf(n).error = "none" => <<n[1]>> \o ParentOf(n).is = n
  BY <1>1, ParentRejoins
<1>8. ~(m # EmptyName /\ AtOrAbove(m, n)) => ChooseRelativity(n, m, TRUE) = Yields(n)
  BY <1>1, UnrelatedStays
<1>9. m # EmptyName /\ AtOrAbove(m, n) =>
        /\ SameName(ChooseRelativity(ChooseRelativity(n, m, TRUE).is, m, FALSE).is, n)
        /\ ~IsAbsolute(ChooseRelativity(n, m, TRUE).is)
  BY <1>1, RelatedComesBack
<1>10. Relativize(n, EmptyName) = Yields(IF IsAbsolute(n) THEN n ELSE EmptyName)
  BY <1>1, EmptyOrigin
<1>11. QED  BY <1>2, <1>3, <1>4, <1>5, <1>6, <1>7, <1>8, <1>9, <1>10, Zenon

-----------------------------------------------------------------------------
(* The NameDict. *)

\* A fold over a finite set, which the library's operators define by recursion,
\* exists whatever is folded.
IsFold(g, S, base, pick, step) ==
    g = [T \in SUBSET S |-> IF T = {} THEN base ELSE step[<<g[T \ {pick[T]}], pick[T]>>]]

LEMMA FoldExists ==
    ASSUME NEW S, IsFiniteSet(S), NEW X, NEW base \in X, NEW pick,
           \A T \in SUBSET S : T # {} => pick[T] \in T,
           NEW step \in [X \X S -> X]
    PROVE  \E g \in [SUBSET S -> X] : IsFold(g, S, base, pick, step)
<1> DEFINE Sub(n) == {T \in SUBSET S : Cardinality(T) <= n}
           Val(g, T) == IF T = {} THEN base ELSE step[<<g[T \ {pick[T]}], pick[T]>>]
           Upto(n, g) == g \in [Sub(n) -> X] /\ \A T \in Sub(n) : g[T] = Val(g, T)
           N == {n \in Nat : \E g : Upto(n, g)}
<1>0. \A T \in SUBSET S : IsFiniteSet(T) /\ Cardinality(T) \in Nat
  BY FS_Subset, FS_CardinalityType
<1>1. 0 \in N
  <2>1. \A T \in Sub(0) : T = {}
    BY <1>0, FS_EmptySet
  <2> DEFINE g == [T \in Sub(0) |-> base]
  <2>2. \A T \in Sub(0) : g[T] = base /\ Val(g, T) = base
    BY <2>1
  <2>3. g \in [Sub(0) -> X]
    OBVIOUS
  <2>4. Upto(0, g)
    <3> HIDE DEF Val, g
    <3>1. QED  BY <2>2, <2>3
  <2>5. QED  BY <2>4
<1>2. ASSUME NEW n \in N PROVE n + 1 \in N
  <2>1. PICK g : Upto(n, g)
    OBVIOUS
  <2> DEFINE h == [T \in Sub(n + 1) |-> Val(g, T)]
  <2>2. ASSUME NEW T \in Sub(n + 1), T # {} PROVE T \ {pick[T]} \in Sub(n) /\ pick[T] \in S
    <3>1. pick[T] \in T
      BY <2>2
    <3>2. Cardinality(T \ {pick[T]}) = Cardinality(T) - 1
      BY <1>0, <3>1, FS_RemoveElement
    <3>3. Cardinality(T) \in Nat /\ Cardinality(T) <= n + 1 /\ n \in Nat
      BY <1>0
    <3>4. T \ {pick[T]} \in SUBSET S /\ Cardinality(T \ {pick[T]}) <= n
      BY <3>2, <3>3
    <3>5. QED  BY <3>1, <3>4
  <2>3. h \in [Sub(n + 1) -> X]
    <3>1. ASSUME NEW T \in Sub(n + 1) PROVE Val(g, T) \in X
      <4>1. CASE T = {}
        BY <4>1
      <4>2. CASE T # {}
        <5>1. g[T \ {pick[T]}] \in X /\ pick[T] \in S
          <6> HIDE DEF Sub, Val
          <6>1. QED  BY <2>1, <2>2, <4>2
        <5>2. QED  BY <4>2, <5>1
      <4>3. QED  BY <4>1, <4>2
    <3> HIDE DEF Val, Sub
    <3>2. QED  BY <3>1
  <2>4. \A T \in Sub(n) : T \in Sub(n + 1) /\ h[T] = g[T]
    <3>1. \A T \in Sub(n) : T \in Sub(n + 1)
      BY <1>0
    <3> HIDE DEF Val, Sub
    <3>2. QED  BY <2>1, <3>1
  <2>5. ASSUME NEW T \in Sub(n + 1) PROVE h[T] = Val(h, T)
    <3>1. h[T] = Val(g, T)
      <4> HIDE DEF Val, Sub
      <4>1. QED  OBVIOUS
    <3>2. T # {} => h[T \ {pick[T]}] = g[T \ {pick[T]}]
      <4> HIDE DEF h, Sub
      <4>1. QED  BY <2>2, <2>4
    <3> HIDE DEF h
    <3>3. QED  BY <3>1, <3>2
  <2>6. Upto(n + 1, h)
    <3> HIDE DEF h, Val, Sub
    <3>1. QED  BY <2>3, <2>5
  <2>7. n + 1 \in Nat
    OBVIOUS
  <2>8. QED
    <3> HIDE DEF Upto, h
    <3>1. QED  BY <2>6, <2>7
<1>3. N = Nat
  <2>1. N \in SUBSET Nat
    OBVIOUS
  <2> HIDE DEF N
  <2>2. QED  BY <1>1, <1>2, <2>1, SetInduction
<1>4. PICK g : Upto(Cardinality(S), g)
  <2>1. Cardinality(S) \in N
    <3> HIDE DEF N
    <3>1. QED  BY <1>0, <1>3
  <2>2. QED  BY <2>1
<1>5. Sub(Cardinality(S)) = SUBSET S
  BY FS_Subset
<1>6. g \in [SUBSET S -> X] /\ \A T \in SUBSET S : g[T] = Val(g, T)
  <2> HIDE DEF Sub, Val
  <2>1. QED  BY <1>4, <1>5
<1>7. IsFold(g, S, base, pick, step)
  BY <1>6 DEF IsFold
<1>8. QED  BY <1>6, <1>7

\* The key that __update_max_depth() takes next, of those left.
NextKey(s) == CHOOSE k \in s : TRUE

\* h counts each subset of keys.
Counts(h, keys) ==
    /\ h[{}] = <<0, 0>>
    /\ \A s \in SUBSET keys : s # {} => NextKey(s) \in s /\ h[s] = CountDepth(h[s \ {NextKey(s)}], NextKey(s))
    /\ Recount(keys) = h[keys]

Depths == Nat \X Int

LEMMA CountFacts ==
  ASSUME NEW key, NEW counted \in Depths, Len(key) \in Nat
  PROVE  /\ CountDepth(counted, key) \in Depths
         /\ counted[1] <= CountDepth(counted, key)[1] /\ Len(key) <= CountDepth(counted, key)[1]
<1>1. counted[1] \in Nat /\ counted[2] \in Int
  BY DEF Depths
<1> DEFINE c == CountDepth(counted, key)
<1>2. c = IF Len(key) = counted[1] THEN <<counted[1], counted[2] + 1>>
          ELSE IF Len(key) > counted[1] THEN <<Len(key), 1>> ELSE counted
  BY <1>1 DEF CountDepth
<1> HIDE DEF c
<1>3. CASE Len(key) = counted[1]
  <2>1. c = <<counted[1], counted[2] + 1>>
    BY <1>2, <1>3
  <2>2. c \in Depths /\ c[1] = counted[1]
    BY <1>1, <2>1 DEF Depths
  <2>3. QED  BY <1>1, <1>3, <2>2 DEF c
<1>4. CASE Len(key) > counted[1]
  <2>1. c = <<Len(key), 1>>
    BY <1>1, <1>2, <1>4
  <2>2. c \in Depths /\ c[1] = Len(key)
    BY <2>1 DEF Depths
  <2>3. QED  BY <1>1, <1>4, <2>2 DEF c
<1>5. CASE ~(Len(key) >= counted[1])
  <2>1. c = counted
    BY <1>1, <1>2, <1>5
  <2>2. QED  BY <1>1, <1>5, <2>1 DEF c
<1>6. QED  BY <1>1, <1>3, <1>4, <1>5

\* The recursion of FoldSet.
IsCount(h, keys) ==
    h = [s \in SUBSET keys |-> IF s = {} THEN <<0, 0>> ELSE CountDepth(h[s \ {NextKey(s)}], NextKey(s))]

LEMMA CountExists ==
  ASSUME NEW keys, IsFiniteSet(keys), \A k \in keys : Len(k) \in Nat
  PROVE  \E h : IsCount(h, keys)
<1> DEFINE pick == [s \in SUBSET keys |-> NextKey(s)]
           step == [p \in Depths \X keys |-> CountDepth(p[1], p[2])]
<1>1. \A s \in SUBSET keys : s # {} => pick[s] \in s /\ pick[s] = NextKey(s)
  BY DEF NextKey
<1>2. \A x \in Depths, k \in keys : step[<<x, k>>] = CountDepth(x, k)
  OBVIOUS
<1>3. step \in [Depths \X keys -> Depths]
  <2>1. ASSUME NEW x \in Depths, NEW k \in keys PROVE CountDepth(x, k) \in Depths
    BY CountFacts
  <2>2. QED  BY <2>1
<1>4. <<0, 0>> \in Depths
  BY DEF Depths
<1> HIDE DEF pick, step
<1>5. PICK h \in [SUBSET keys -> Depths] : IsFold(h, keys, <<0, 0>>, pick, step)
  BY <1>1, <1>3, <1>4, FoldExists
<1>6. ASSUME NEW s \in SUBSET keys, s # {}
      PROVE  step[<<h[s \ {pick[s]}], pick[s]>>] = CountDepth(h[s \ {NextKey(s)}], NextKey(s))
  <2>1. pick[s] \in keys /\ pick[s] = NextKey(s) /\ s \ {pick[s]} \in SUBSET keys
    BY <1>1, <1>6
  <2>2. h[s \ {pick[s]}] \in Depths
    BY <2>1
  <2>3. QED  BY <1>2, <2>1, <2>2
<1>7. \A s \in SUBSET keys : h[s] = IF s = {} THEN <<0, 0>> ELSE CountDepth(h[s \ {NextKey(s)}], NextKey(s))
  <2>1. \A s \in SUBSET keys : h[s] = IF s = {} THEN <<0, 0>> ELSE step[<<h[s \ {pick[s]}], pick[s]>>]
    BY <1>5 DEF IsFold
  <2>2. QED  BY <1>6, <2>1
<1>8. IsCount(h, keys)
  BY <1>7 DEF IsCount
<1>9. QED  BY <1>8

LEMMA CountRule ==
  ASSUME NEW keys, IsFiniteSet(keys), \A k \in keys : Len(k) \in Nat
  PROVE  \E h : Counts(h, keys)
<1> DEFINE h == CHOOSE h : IsCount(h, keys)
<1>1. IsCount(h, keys)
  BY CountExists
<1>2. \A s \in SUBSET keys : s # {} => NextKey(s) \in s
  BY DEF NextKey
<1>3. Recount(keys) = h[keys]
  BY DEF Recount, FoldSet, MapThenFoldSet, IsCount, NextKey
<1> HIDE DEF h
<1>4. Counts(h, keys)
  BY <1>1, <1>2, <1>3 DEF IsCount, Counts
<1>5. QED  BY <1>4

\* What is true of the empty set, and of a set when it is true of the set without
\* its next key, is true of every subset of a finite set.
LEMMA KeysInduction ==
    ASSUME NEW S, IsFiniteSet(S), NEW A, {} \in A,
           \A s \in SUBSET S : s # {} /\ s \ {NextKey(s)} \in A => s \in A
    PROVE  S \in A
<1> DEFINE N == {n \in Nat : \A s \in SUBSET S : Cardinality(s) <= n => s \in A}
<1>0. \A s \in SUBSET S : IsFiniteSet(s) /\ Cardinality(s) \in Nat
  BY FS_Subset, FS_CardinalityType
<1>1. 0 \in N
  <2>1. ASSUME NEW s \in SUBSET S, Cardinality(s) <= 0 PROVE s = {}
    BY <1>0, <2>1, FS_EmptySet
  <2>2. QED  BY <2>1
<1>2. ASSUME NEW n \in N PROVE n + 1 \in N
  <2>1. SUFFICES ASSUME NEW s \in SUBSET S, Cardinality(s) <= n + 1, s # {} PROVE s \in A
    OBVIOUS
  <2>2. NextKey(s) \in s
    BY <2>1 DEF NextKey
  <2>3. Cardinality(s \ {NextKey(s)}) = Cardinality(s) - 1
    BY <1>0, <2>2, FS_RemoveElement
  <2>4. s \ {NextKey(s)} \in SUBSET S /\ Cardinality(s \ {NextKey(s)}) <= n
    BY <1>0, <2>1, <2>3
  <2>5. s \ {NextKey(s)} \in A
    BY <2>4
  <2>6. QED  BY <2>1, <2>5
<1>3. N = Nat
  <2>1. N \in SUBSET Nat
    OBVIOUS
  <2> HIDE DEF N
  <2>2. QED  BY <1>1, <1>2, <2>1, SetInduction
<1>4. Cardinality(S) \in N /\ S \in SUBSET S /\ Cardinality(S) <= Cardinality(S)
  <2> HIDE DEF N
  <2>1. QED  BY <1>0, <1>3
<1>5. QED  BY <1>4

\* Counted again, no key is deeper than the depth that is kept.
LEMMA RecountBounds ==
  ASSUME NEW keys, IsFiniteSet(keys), \A k \in keys : Len(k) \in Nat
  PROVE  Recount(keys) \in Depths /\ \A k \in keys : Len(k) <= Recount(keys)[1]
<1>1. PICK h : Counts(h, keys)
  BY CountRule
<1> DEFINE A == {s \in SUBSET keys : h[s] \in Depths /\ \A k \in s : Len(k) <= h[s][1]}
<1>2. {} \in A
  <2>1. h[{}] = <<0, 0>> /\ <<0, 0>> \in Depths
    BY <1>1 DEF Counts, Depths
  <2>2. h[{}] \in Depths /\ {} \in SUBSET keys
    BY <2>1
  <2>3. QED  BY <2>2
<1>3. ASSUME NEW s \in SUBSET keys, s # {}, s \ {NextKey(s)} \in A PROVE s \in A
  <2> DEFINE k == NextKey(s)
             c == h[s \ {k}]
  <2>1. /\ k \in s /\ k \in keys /\ h[s] = CountDepth(c, k) /\ c \in Depths
        /\ \A l \in s \ {k} : Len(l) <= c[1]
    BY <1>1, <1>3 DEF Counts
  <2> HIDE DEF k, c
  <2>2. /\ CountDepth(c, k) \in Depths /\ c[1] <= CountDepth(c, k)[1] /\ Len(k) <= CountDepth(c, k)[1]
    BY <2>1, CountFacts
  <2>3. h[s] \in Depths /\ c[1] <= h[s][1] /\ Len(k) <= h[s][1]
    BY <2>1, <2>2
  <2>4. h[s][1] \in Nat /\ c[1] \in Nat
    BY <2>1, <2>3 DEF Depths
  <2>5. ASSUME NEW l \in s PROVE Len(l) <= h[s][1]
    <3>1. CASE l = k
      BY <2>3, <3>1
    <3>2. CASE l # k
      <4>1. Len(l) <= c[1] /\ Len(l) \in Nat
        BY <2>1, <3>2
      <4>2. QED  BY <2>3, <2>4, <4>1
    <3>3. QED  BY <3>1, <3>2
  <2>6. QED  BY <2>3, <2>5
<1>4. keys \in A
  <2> HIDE DEF A
  <2>1. QED  BY <1>2, <1>3, KeysInduction
<1>5. QED  BY <1>1, <1>4 DEF Counts

LEMMA MaxFacts ==
  ASSUME NEW S \in SUBSET Nat, S # {}, NEW bound \in Nat, \A y \in S : y <= bound
  PROVE  Max(S) \in S /\ \A y \in S : y <= Max(S)
<1> DEFINE T == {bound - y : y \in S}
<1>1. T \in SUBSET Nat /\ T # {}
  <2>1. \A y \in S : bound - y \in Nat
    OBVIOUS
  <2>2. QED  BY <2>1
<1>2. \A y \in S : bound - y \in T
  OBVIOUS
<1>3. PICK x \in S : Min(T) = bound - x
  <2>1. Min(T) \in T
    <3> HIDE DEF T
    <3>1. QED  BY <1>1, MinFacts
  <2>2. QED  BY <2>1
<1>4. ASSUME NEW y \in S PROVE x >= y
  <2>1. bound - x <= bound - y
    <3> HIDE DEF T
    <3>1. QED  BY <1>1, <1>2, <1>3, MinFacts
  <2>2. QED  BY <2>1
<1>5. \E z \in S : \A y \in S : z >= y
  BY <1>4
<1>6. Max(S) \in S /\ \A y \in S : Max(S) >= y
  BY <1>5 DEF Max
<1>7. \A y \in S : y \in Nat
  OBVIOUS
<1>8. QED  BY <1>6, <1>7

LEMMA MaxIs ==
  ASSUME NEW S \in SUBSET Nat, NEW m \in S, \A y \in S : y <= m
  PROVE  Max(S) = m
<1>1. m \in Nat /\ S # {}
  OBVIOUS
<1> DEFINE g == Max(S)
<1>2. g \in S /\ \A y \in S : y <= g
  BY <1>1, MaxFacts
<1> HIDE DEF g
<1>3. g \in Nat /\ g <= m /\ m <= g
  BY <1>2
<1>4. QED  BY <1>1, <1>3 DEF g

\* The keys that are ends of the name that is sought: those at or above it, and
\* the empty key.
KeysAbove == {k \in store : IsSuffix(Canonicalize(k), Canonicalize(sought))}
MatchSound ==
    /\ match.error = "none" =>
         /\ KeyOf(match.is) # {} /\ KeyOf(match.is) \subseteq KeysAbove
         /\ Len(match.is) = Max({Len(k) : k \in KeysAbove})
         /\ \A k \in KeyOf(match.is) : Len(k) = Len(match.is)
         /\ \A k \in KeysAbove : Len(k) <= Len(match.is)
    /\ match.error # "none" /\ sought # EmptyName =>
         /\ KeyOf(EmptyName) = {}
         /\ \A k \in store : ~IsSuffix(Canonicalize(k), Canonicalize(sought))

\* No key is deeper than the depth that is kept: the depths that are not tried
\* hold none.
DepthsCover == \A k \in store : Len(k) <= depths[1]

TableInv ==
    /\ store \subseteq TableNames /\ IsFiniteSet(store)
    /\ depths \in Depths
    /\ DepthsCover
    /\ MatchSound

LEMMA KeyFacts ==
  ASSUME TableInv, NEW k \in store
  PROVE  NameOK(k) /\ Len(k) \in Nat /\ Len(k) <= depths[1] /\ depths[1] \in Nat
<1>1. k \in TableNames /\ depths[1] \in Nat
  BY DEF TableInv, Depths
<1>2. QED  BY <1>1, TableNameOK, NameFacts DEF TableInv, DepthsCover

LEMMA TableStarts == TableInit => TableInv
<1> SUFFICES ASSUME TableInit PROVE TableInv
  OBVIOUS
<1>1. store = {} /\ depths = <<0, 0>> /\ sought = EmptyName /\ match = Raises("KeyError")
  BY DEF TableInit
<1>2. match.error = "KeyError"
  BY <1>1 DEF Raises
<1>3. MatchSound
  BY <1>1, <1>2 DEF MatchSound
<1>4. depths \in Depths /\ IsFiniteSet(store)
  BY <1>1, FS_EmptySet DEF Depths
<1>5. QED  BY <1>1, <1>3, <1>4 DEF TableInv, DepthsCover

LEMMA NothingSought == Unsought => MatchSound'
<1>1. SUFFICES ASSUME Unsought PROVE MatchSound'
  OBVIOUS
<1>2. sought' = EmptyName /\ match'.error = "KeyError"
  BY <1>1 DEF Unsought, Raises
<1>3. QED  BY <1>2 DEF MatchSound

LEMMA SetKeeps ==
  ASSUME TableInv, NEW n \in TableNames, SetItem(n)
  PROVE  TableInv'
<1>1. /\ store' = IF KeyOf(n) = {} THEN store \cup {n} ELSE store
      /\ depths' = CountDepth(depths, n) /\ Unsought
  BY DEF SetItem
<1>2. store \subseteq TableNames /\ IsFiniteSet(store) /\ depths \in Depths /\ Len(n) \in Nat
  BY TableNameOK, NameFacts DEF TableInv
<1>3. store' \subseteq store \cup {n}
  BY <1>1
<1>4. store' \subseteq TableNames /\ IsFiniteSet(store')
  BY <1>2, <1>3, FS_AddElement, FS_Subset
<1>5. depths' \in Depths /\ depths[1] <= depths'[1] /\ Len(n) <= depths'[1]
  BY <1>1, <1>2, CountFacts
<1>6. depths'[1] \in Nat
  BY <1>5 DEF Depths
<1>7. ASSUME NEW k \in store' PROVE Len(k) <= depths'[1]
  <2>1. CASE k = n
    BY <1>5, <2>1
  <2>2. CASE k # n
    <3>1. k \in store
      BY <1>3, <2>2
    <3>2. Len(k) \in Nat /\ Len(k) <= depths[1] /\ depths[1] \in Nat
      BY <3>1, KeyFacts
    <3>3. QED  BY <1>5, <1>6, <3>2
  <2>3. QED  BY <2>1, <2>2
<1>8. MatchSound'
  BY <1>1, NothingSought
<1>9. QED  BY <1>4, <1>5, <1>7, <1>8 DEF TableInv, DepthsCover

LEMMA DelKeeps ==
  ASSUME TableInv, NEW n \in TableNames, DelItem(n)
  PROVE  TableInv'
<1>1. store' = store \ KeyOf(n) /\ depths' = Deleted(store', n) /\ Unsought
  BY DEF DelItem
<1>2. store \subseteq TableNames /\ IsFiniteSet(store) /\ depths \in Depths
  BY DEF TableInv
<1>3. store' \subseteq store /\ store' \subseteq TableNames /\ IsFiniteSet(store')
  BY <1>1, <1>2, FS_Subset
<1>4. \A k \in store' : Len(k) \in Nat /\ Len(k) <= depths[1]
  BY <1>3, KeyFacts
<1>5. depths[1] \in Nat /\ depths[2] \in Int
  BY <1>2 DEF Depths
<1>6. depths' \in Depths /\ \A k \in store' : Len(k) <= depths'[1]
  <2>1. CASE Uncounted(n) = 0
    <3>1. depths' = Recount(store')
      BY <1>1, <2>1 DEF Deleted
    <3>2. QED  BY <1>3, <1>4, <3>1, RecountBounds
  <2>2. CASE Uncounted(n) # 0
    <3>1. depths' = <<depths[1], Uncounted(n)>> /\ Uncounted(n) \in Int
      BY <1>1, <1>5, <2>2 DEF Deleted, Uncounted
    <3>2. depths' \in Depths /\ depths'[1] = depths[1]
      BY <1>5, <3>1 DEF Depths
    <3>3. QED  BY <1>4, <3>2
  <2>3. QED  BY <2>1, <2>2
<1>7. MatchSound'
  BY <1>1, NothingSought
<1>8. QED  BY <1>3, <1>6, <1>7 DEF TableInv, DepthsCover

LEMMA EndsChain ==
  ASSUME NEW a, NEW b, NEW c, Len(a) \in Nat, Len(b) \in Nat, Len(c) \in Nat, Ends(a, b), Ends(b, c)
  PROVE  Ends(a, c)
<1>1. \A j \in 0..(Len(a) - 1) : j \in 0..(Len(b) - 1)
  BY DEF Ends
<1>2. \A j \in 0..(Len(a) - 1) : RankFrom(a, j) = RankFrom(c, j)
  BY <1>1 DEF Ends
<1>3. QED  BY <1>2 DEF Ends

\* Two ends of the same length are the same name.
LEMMA EndsMeet ==
  ASSUME NEW a, NEW b, NEW c, NameOK(a), NameOK(b), NameOK(c), Ends(a, c), Ends(b, c), Len(a) = Len(b)
  PROVE  SameName(a, b)
<1>1. Len(a) \in Nat /\ Len(b) \in Nat /\ Len(c) \in Nat
  BY NameFacts
<1>2. Ends(a, b)
  BY <1>1 DEF Ends
<1>3. QED  BY <1>2, SameNameMeans

LEMMA MatchKeeps ==
  ASSUME TableInv, NEW n \in TableNames, DeepestMatch(n)
  PROVE  TableInv'
<1> DEFINE Rest(i) == SplitAt(n, i)[2]
           deepest == Min({Len(n), depths[1]})
           found == {i \in 1..deepest : KeyOf(Rest(i)) # {}}
           Sought(k) == IsSuffix(Canonicalize(k), Canonicalize(n))
           above == {k \in store : Sought(k)}
<1>1. /\ sought' = n /\ store' = store /\ depths' = depths
      /\ match' = CASE found # {} -> Yields(Rest(Max(found)))
                    [] found = {} /\ KeyOf(EmptyName) # {} -> Yields(EmptyName)
                    [] OTHER -> Raises("KeyError")
  BY DEF DeepestMatch
<1>2. NameOK(n) /\ Len(n) \in Nat /\ depths[1] \in Nat
  BY TableNameOK, NameFacts DEF TableInv, Depths
<1>3. deepest \in Nat /\ deepest <= Len(n) /\ deepest <= depths[1] /\ (deepest = Len(n) \/ deepest = depths[1])
  <2>1. {Len(n), depths[1]} \in SUBSET Nat /\ {Len(n), depths[1]} # {}
    BY <1>2
  <2>2. deepest \in {Len(n), depths[1]} /\ \A y \in {Len(n), depths[1]} : deepest <= y
    BY <2>1, MinFacts
  <2> HIDE DEF deepest
  <2>3. QED  BY <1>2, <2>2
<1> HIDE DEF deepest
<1>4. ASSUME NEW i \in 1..Len(n) PROVE NameOK(Rest(i)) /\ Len(Rest(i)) = i /\ Ends(Rest(i), n)
  <2>1. i # 0 /\ i \in 0..Len(n)
    BY <1>2
  <2>2. Rest(i) = SubSeq(n, Len(n) - i + 1, Len(n))
    BY <2>1 DEF SplitAt
  <2>3. QED  BY <1>2, <2>1, <2>2, BackIsName
<1> HIDE DEF Rest
<1>5. ASSUME NEW k \in store PROVE Sought(k) <=> Ends(k, n)
  BY <1>2, KeyFacts, SuffixMeans
<1> HIDE DEF Sought
<1>6. EmptyName \in Seq(Labels) /\ NameOK(EmptyName) /\ Len(EmptyName) = 0 /\ Ends(EmptyName, n)
  <2>1. EmptyName \in Seq(Labels) /\ Len(EmptyName) = 0
    BY EmptySeq DEF EmptyName
  <2>2. QED  BY <1>2, <2>1 DEF NameOK, Ends
\* A key at or above the name is found at its depth, or empty.
<1>7. ASSUME NEW k \in above PROVE (Len(k) \in found \/ Len(k) = 0) /\ Len(k) \in Nat
  <2>1. k \in store /\ NameOK(k) /\ Len(k) \in Nat /\ Len(k) <= depths[1] /\ Ends(k, n) /\ Len(k) <= Len(n)
    BY <1>5, KeyFacts DEF Ends
  <2>2. CASE Len(k) # 0
    <3>1. Len(k) \in 1..deepest /\ Len(k) \in 1..Len(n)
      BY <1>2, <1>3, <2>1, <2>2
    <3>2. NameOK(Rest(Len(k))) /\ Len(Rest(Len(k))) = Len(k) /\ Ends(Rest(Len(k)), n)
      BY <1>4, <3>1
    <3>3. SameName(k, Rest(Len(k)))
      BY <1>2, <2>1, <3>2, EndsMeet
    <3>4. k \in KeyOf(Rest(Len(k)))
      BY <2>1, <3>3 DEF KeyOf
    <3>5. QED  BY <2>1, <3>1, <3>4
  <2>3. QED  BY <2>1, <2>2
\* The keys of an end of the name are at or above it.
<1>8. ASSUME NEW s, NameOK(s), Ends(s, n), NEW k \in KeyOf(s) PROVE k \in above /\ Len(k) = Len(s)
  <2>1. k \in store /\ SameName(k, s)
    BY DEF KeyOf
  <2>2. NameOK(k) /\ Len(k) \in Nat /\ Len(s) \in Nat
    BY <1>8, <2>1, KeyFacts, NameFacts
  <2>3. Len(k) = Len(s) /\ Ends(k, s)
    BY <1>8, <2>1, <2>2, SameNameMeans
  <2>4. Ends(k, n)
    BY <1>2, <1>8, <2>2, <2>3, EndsChain
  <2>5. QED  BY <1>5, <2>1, <2>3, <2>4
\* The deepest of the ends that are keys is what is found.
<1>9. ASSUME NEW s, NameOK(s), Ends(s, n), KeyOf(s) # {}, match' = Yields(s),
             \A k \in above : Len(k) <= Len(s)
      PROVE  MatchSound'
  <2>1. match'.error = "none" /\ match'.is = s
    BY <1>9 DEF Yields
  <2>2. Len(s) \in Nat /\ KeyOf(s) \subseteq above
    BY <1>8, <1>9, NameFacts
  <2>3. {Len(k) : k \in above} \in SUBSET Nat
    BY <1>7
  <2>4. PICK k \in KeyOf(s) : TRUE
    BY <1>9
  <2>5. k \in above /\ Len(k) = Len(s)
    BY <1>8, <1>9
  <2>6. Len(s) \in {Len(l) : l \in above}
    BY <2>5
  <2>7. \A y \in {Len(l) : l \in above} : y <= Len(s)
    BY <1>9
  <2>8. Len(s) = Max({Len(l) : l \in above})
    BY <2>3, <2>6, <2>7, MaxIs
  <2>9. KeysAbove' = above /\ KeyOf(s)' = KeyOf(s)
    BY <1>1 DEF KeysAbove, Sought, KeyOf
  <2>10. KeyOf(match.is)' = KeyOf(s)' /\ \A l \in KeyOf(s) : Len(l) = Len(s)
    BY <1>8, <1>9, <2>1 DEF KeyOf
  <2> HIDE DEF above
  <2>11. QED  BY <1>9, <2>1, <2>2, <2>8, <2>9, <2>10 DEF MatchSound
<1>10. MatchSound'
  <2>1. CASE found # {}
    <3> DEFINE d == Max(found)
    <3>1. found \in SUBSET Nat /\ \A y \in found : y <= Len(n)
      BY <1>2, <1>3
    <3>2. d \in found /\ \A y \in found : y <= d
      <4> HIDE DEF found
      <4>1. QED  BY <1>2, <2>1, <3>1, MaxFacts
    <3>3. match' = Yields(Rest(d))
      BY <1>1, <2>1
    <3> HIDE DEF d
    <3>4. d \in 1..Len(n) /\ KeyOf(Rest(d)) # {}
      BY <1>2, <1>3, <3>2
    <3>5. NameOK(Rest(d)) /\ Len(Rest(d)) = d /\ Ends(Rest(d), n)
      BY <1>4, <3>4
    <3>6. ASSUME NEW k \in above PROVE Len(k) <= d
      <4> HIDE DEF found, above
      <4>1. Len(k) \in found \/ Len(k) = 0
        BY <1>7
      <4>2. QED  BY <3>2, <3>4, <4>1
    <3>7. \A k \in above : Len(k) <= Len(Rest(d))
      <4> HIDE DEF above
      <4>1. QED  BY <3>5, <3>6
    <3> HIDE DEF found, above
    <3>8. QED  BY <1>9, <3>3, <3>4, <3>5, <3>7
  <2>2. CASE found = {} /\ KeyOf(EmptyName) # {}
    <3>1. match' = Yields(EmptyName)
      BY <1>1, <2>2
    <3> HIDE DEF found, above
    <3>2. \A k \in above : Len(k) <= Len(EmptyName)
      BY <1>6, <1>7, <2>2
    <3>3. QED  BY <1>6, <1>9, <2>2, <3>1, <3>2
  <2>3. CASE found = {} /\ KeyOf(EmptyName) = {}
    <3>1. match' = Raises("KeyError")
      BY <1>1, <2>3
    <3>2. match'.error = "KeyError"
      BY <3>1 DEF Raises
    <3>3. ASSUME NEW k \in store PROVE ~Sought(k)
      <4>1. SUFFICES ASSUME Sought(k) PROVE FALSE
        OBVIOUS
      <4>2. k \in above
        BY <4>1
      <4>3. Len(k) = 0
        <5> HIDE DEF found, above
        <5>1. QED  BY <1>7, <2>3, <4>2
      <4>4. NameOK(k) /\ Ends(k, n)
        BY <1>5, <4>1, KeyFacts
      <4>5. SameName(k, EmptyName)
        BY <1>2, <1>6, <4>3, <4>4, EndsMeet
      <4>6. QED  BY <2>3, <4>5 DEF KeyOf
    <3>4. KeyOf(EmptyName)' = {}
      BY <1>1, <2>3 DEF KeyOf
    <3>5. QED  BY <1>1, <3>2, <3>3, <3>4 DEF MatchSound, Sought
  <2>4. QED  BY <2>1, <2>2, <2>3
<1>11. QED  BY <1>1, <1>10 DEF TableInv, DepthsCover

LEMMA TableStutters ==
  ASSUME TableInv, UNCHANGED tableVars
  PROVE  TableInv'
<1>1. store' = store /\ depths' = depths /\ sought' = sought /\ match' = match
  BY DEF tableVars
<1>2. MatchSound' <=> MatchSound
  BY <1>1 DEF MatchSound, KeysAbove, KeyOf
<1>3. QED  BY <1>1, <1>2 DEF TableInv, DepthsCover

\* Of the ends of a name, those but the empty one are at or above it.
LEMMA MatchMeans ==
  ASSUME TableInv
  PROVE  LET keys  == {k \in store : AtOrAbove(k, sought)}
             found == KeyOf(match.is)
         IN  /\ match.error = "none" /\ keys # {} =>
                  found # {} /\ found \subseteq keys /\ Len(match.is) = Max({Len(k) : k \in keys})
             /\ match.error = "none" /\ keys = {} => found = {EmptyName} /\ IsAbsolute(sought)
             /\ match.error # "none" /\ sought # EmptyName => keys = {} /\ KeyOf(EmptyName) = {}
<1> DEFINE keys == {k \in store : AtOrAbove(k, sought)}
           found == KeyOf(match.is)
<1>1. MatchSound /\ \A k \in store : Len(k) \in Nat /\ (k = EmptyName <=> Len(k) = 0)
  BY KeyFacts, NameFacts DEF TableInv
<1>2. /\ keys = {k \in KeysAbove : k = EmptyName => ~IsAbsolute(sought)}
      /\ keys \subseteq store /\ KeysAbove \subseteq store
  BY DEF AtOrAbove, KeysAbove
<1> HIDE DEF keys, found
<1>3. ASSUME match.error = "none"
      PROVE  /\ found # {} /\ found \subseteq KeysAbove
             /\ \A k \in found : Len(k) = Len(match.is)
             /\ \A k \in KeysAbove : Len(k) <= Len(match.is)
  BY <1>1, <1>3 DEF MatchSound, found
<1>4. ASSUME match.error = "none", keys # {}
      PROVE  found # {} /\ found \subseteq keys /\ Len(match.is) = Max({Len(k) : k \in keys})
  <2>1. PICK f \in found : TRUE
    BY <1>3, <1>4
  <2>2. f \in KeysAbove /\ Len(f) = Len(match.is) /\ Len(f) \in Nat
    BY <1>1, <1>2, <1>3, <1>4
  <2>3. ASSUME NEW k \in found PROVE k \in keys
    <3>1. k \in KeysAbove /\ k \in store /\ Len(k) = Len(match.is)
      BY <1>2, <1>3, <1>4
    <3>2. PICK a \in keys : TRUE
      BY <1>4
    <3>3. a \in KeysAbove /\ a \in store /\ (a = EmptyName => ~IsAbsolute(sought)) /\ Len(a) <= Len(match.is)
      BY <1>2, <1>3, <1>4
    <3>4. k = EmptyName => a = EmptyName
      BY <1>1, <3>1, <3>3
    <3>5. QED  BY <1>2, <3>1, <3>3, <3>4
  <2>4. f \in keys /\ {Len(k) : k \in keys} \in SUBSET Nat
    BY <1>1, <1>2, <2>3
  <2>5. Len(f) \in {Len(k) : k \in keys} /\ \A y \in {Len(k) : k \in keys} : y <= Len(f)
    BY <1>2, <1>3, <1>4, <2>2, <2>4
  <2>6. Max({Len(k) : k \in keys}) = Len(f)
    BY <2>4, <2>5, MaxIs
  <2>7. QED  BY <1>3, <1>4, <2>2, <2>3, <2>6
<1>5. ASSUME match.error = "none", keys = {} PROVE found = {EmptyName} /\ IsAbsolute(sought)
  <2>1. \A k \in KeysAbove : k = EmptyName /\ IsAbsolute(sought)
    BY <1>2, <1>5
  <2>2. QED  BY <1>3, <1>5, <2>1
<1>6. ASSUME match.error # "none", sought # EmptyName PROVE keys = {} /\ KeyOf(EmptyName) = {}
  <2>1. KeysAbove = {} /\ KeyOf(EmptyName) = {}
    BY <1>1, <1>6 DEF MatchSound, KeysAbove
  <2>2. QED  BY <1>2, <2>1
<1>7. QED  BY <1>4, <1>5, <1>6 DEF keys, found

\* Comparing, taking apart and putting together agree for every two names; and
\* get_deepest_match() finds the longest key at or above a name, the empty key
\* where there is none, and nothing only when that is no key either, after any
\* items set and deleted.
THEOREM NamesAreFound == NameTableSpec => []NamesSound
<1>1. TableInv /\ [NameTableNext]_tableVars => TableInv'
  <2>1. SUFFICES ASSUME TableInv, [NameTableNext]_tableVars PROVE TableInv'
    OBVIOUS
  <2>2. CASE UNCHANGED tableVars
    BY <2>1, <2>2, TableStutters
  <2>3. CASE NameTableNext
    <3>1. PICK n \in TableNames : SetItem(n) \/ DelItem(n) \/ DeepestMatch(n)
      BY <2>3 DEF NameTableNext
    <3>2. QED  BY <2>1, <3>1, SetKeeps, DelKeeps, MatchKeeps
  <2>4. QED  BY <2>1, <2>2, <2>3
<1>2. TableInv => NamesSound
  BY NamesAlwaysAgree, MatchMeans DEF NamesSound
<1>3. QED  BY TableStarts, <1>1, <1>2, PTL DEF NameTableSpec

-----------------------------------------------------------------------------
(* UpdateMessage.  Every entry holds one record at most, and is one record  *)
(* on the wire; a section grows by appending entries.                       *)

LEMMA SectionGrows ==
  ASSUME NEW S, NEW s \in Seq(S), NEW x \in S
  PROVE  /\ Append(s, x) \in Seq(S) /\ Len(s) \in Nat /\ Len(Append(s, x)) = Len(s) + 1
         /\ DOMAIN Append(s, x) = DOMAIN s \cup {Len(s) + 1} /\ DOMAIN s = 1..Len(s)
         /\ \A i \in DOMAIN s : Append(s, x)[i] = s[i] /\ i # Len(s) + 1
         /\ Append(s, x)[Len(s) + 1] = x
<1>1. DOMAIN s = 1..Len(s) /\ Len(s) \in Nat
  BY LenProperties
<1>2. /\ Append(s, x) \in Seq(S) /\ Len(Append(s, x)) = Len(s) + 1
      /\ \A i \in 1..Len(s) : Append(s, x)[i] = s[i]
      /\ Append(s, x)[Len(s) + 1] = x
  BY AppendProperties
<1>3. DOMAIN Append(s, x) = 1..(Len(s) + 1)
  BY <1>2, LenProperties
<1>4. 1..(Len(s) + 1) = 1..Len(s) \cup {Len(s) + 1} /\ Len(s) + 1 \notin 1..Len(s)
  BY <1>1
<1>5. QED  BY <1>1, <1>2, <1>3, <1>4

\* The recursion of FlattenSeq.
IsFlatten(f, s) == f = [i \in 1..Len(s) |-> IF i = 1 THEN s[i] ELSE f[i - 1] \o s[i]]

LEMMA FlattenOnes ==
  ASSUME NEW X, NEW s \in Seq(X)
  PROVE  FlattenSeq([i \in DOMAIN s |-> <<s[i]>>]) = s
<1> DEFINE n == Len(s)
           q == [i \in DOMAIN s |-> <<s[i]>>]
<1>1. n \in Nat /\ DOMAIN s = 1..n /\ \A i \in 1..n : s[i] \in X
  BY LenProperties, ElementOfSeq
<1>2. q \in Seq(Seq(X)) /\ Len(q) = n /\ \A i \in 1..n : q[i] = <<s[i]>>
  <2>1. q = [i \in 1..n |-> <<s[i]>>]
    BY <1>1
  <2> HIDE DEF q
  <2>2. \A i \in 1..n : <<s[i]>> \in Seq(X)
    BY <1>1
  <2>3. q \in [1..n -> Seq(X)]
    BY <2>1, <2>2
  <2>4. QED  BY <1>1, <2>1, <2>3
<1> HIDE DEF q
<1>3. CASE n = 0
  <2>1. FlattenSeq(q) = q
    BY <1>2, <1>3 DEF FlattenSeq
  <2>2. q = << >> /\ s = << >>
    BY <1>2, <1>3, EmptySeq
  <2>3. QED  BY <2>1, <2>2 DEF q
<1>4. CASE n # 0
  <2> DEFINE w == [i \in 1..n |-> [j \in 1..i |-> s[j]]]
             f == CHOOSE f : IsFlatten(f, q)
  <2>0. 1 \in 1..n /\ n \in 1..n
    BY <1>1, <1>4
  <2>1. ASSUME NEW i \in 1..n
        PROVE  w[i] = [j \in 1..i |-> s[j]] /\ w[i] \in Seq(X) /\ Len(w[i]) = i /\ \A j \in 1..i : w[i][j] = s[j]
    <3>1. w[i] = [j \in 1..i |-> s[j]]
      OBVIOUS
    <3>2. i \in Nat /\ \A j \in 1..i : s[j] \in X
      BY <1>1
    <3> HIDE DEF w
    <3>3. w[i] \in [1..i -> X]
      BY <3>1, <3>2
    <3>4. w[i] \in Seq(X) /\ Len(w[i]) = i
      BY <3>2, <3>3
    <3>5. QED  BY <3>1, <3>4
  <2>2. w = [i \in 1..n |-> w[i]]
    OBVIOUS
  <2> HIDE DEF w
  <2>3. ASSUME NEW i \in 1..n PROVE w[i] = IF i = 1 THEN q[i] ELSE w[i - 1] \o q[i]
    <3>1. CASE i = 1
      <4>1. \A j \in 1..n : w[j] \in Seq(X) /\ Len(w[j]) = j /\ \A k \in 1..j : w[j][k] = s[k]
        BY <2>1
      <4> DEFINE p == w[1]
      <4>2. p \in Seq(X) /\ Len(p) = 1 /\ \A k \in 1..1 : p[k] = s[k]
        BY <2>0, <4>1
      <4> HIDE DEF p
      <4>3. p = <<s[1]>>
        BY <4>2
      <4>4. QED  BY <1>2, <2>0, <3>1, <4>3 DEF p
    <3>2. CASE i # 1
      <4>1. i - 1 \in 1..n /\ i \in Nat
        BY <1>1, <3>2
      <4> DEFINE p == w[i - 1]
                 c == p \o <<s[i]>>
      <4>2. p \in Seq(X) /\ Len(p) = i - 1 /\ \A j \in 1..(i - 1) : p[j] = s[j]
        BY <2>1, <4>1
      <4>3. c = Append(p, s[i]) /\ s[i] \in X
        BY <1>1, <4>2
      <4> HIDE DEF p, c
      <4>4. /\ Append(p, s[i]) \in Seq(X) /\ Len(Append(p, s[i])) = Len(p) + 1
            /\ \A j \in 1..Len(p) : Append(p, s[i])[j] = p[j]
            /\ Append(p, s[i])[Len(p) + 1] = s[i]
        BY <4>2, <4>3, AppendProperties
      <4>5. c \in Seq(X) /\ Len(c) = i /\ (\A j \in 1..(i - 1) : c[j] = s[j]) /\ c[i] = s[i]
        BY <4>1, <4>2, <4>3, <4>4
      <4>6. \A j \in 1..i : c[j] = w[i][j]
        <5>1. ASSUME NEW j \in 1..i PROVE c[j] = s[j]
          <6>1. j = i \/ j \in 1..(i - 1)
            BY <4>1
          <6>2. QED  BY <4>5, <6>1
        <5>2. QED  BY <2>1, <5>1
      <4>7. c = w[i]
        <5>1. w[i] \in Seq(X) /\ Len(w[i]) = i
          BY <2>1
        <5>2. QED  BY <4>5, <4>6, <5>1, SeqEqual
      <4>8. QED  BY <1>2, <3>2, <4>7 DEF c, p
    <3>3. QED  BY <3>1, <3>2
  <2>4. IsFlatten(w, q)
    BY <1>2, <2>2, <2>3 DEF IsFlatten
  <2>5. IsFlatten(f, q)
    BY <2>4
  <2>6. FlattenSeq(q) = f[Len(q)]
    BY <1>2, <1>4 DEF FlattenSeq, IsFlatten
  <2> HIDE DEF f
  <2>7. \A i \in 1..n : f[i] = IF i = 1 THEN q[i] ELSE f[i - 1] \o q[i]
    BY <1>2, <2>5 DEF IsFlatten
  <2> DEFINE N == {k \in Nat : k + 1 <= n => f[k + 1] = w[k + 1]}
  <2>8. 0 \in N
    BY <2>0, <2>3, <2>7
  <2>9. ASSUME NEW k \in N PROVE k + 1 \in N
    <3>1. SUFFICES ASSUME (k + 1) + 1 <= n PROVE f[(k + 1) + 1] = w[(k + 1) + 1]
      OBVIOUS
    <3> DEFINE i == (k + 1) + 1
    <3>2. i \in 1..n /\ i # 1 /\ i - 1 = k + 1 /\ f[k + 1] = w[k + 1]
      BY <1>1, <3>1
    <3> HIDE DEF i
    <3>3. f[i] = w[i]
      BY <2>3, <2>7, <3>2
    <3>4. QED  BY <3>3 DEF i
  <2>10. N = Nat
    <3>1. N \in SUBSET Nat
      OBVIOUS
    <3> HIDE DEF N
    <3>2. QED  BY <2>8, <2>9, <3>1, SetInduction
  <2>11. f[n] = w[n]
    <3>1. n - 1 \in Nat /\ (n - 1) + 1 = n
      BY <1>1, <1>4
    <3>2. n - 1 \in N
      <4> HIDE DEF N
      <4>1. QED  BY <2>10, <3>1
    <3>3. QED  BY <1>1, <3>1, <3>2
  <2>12. w[n] = s
    <3>1. w[n] \in Seq(X) /\ Len(w[n]) = n /\ \A j \in 1..n : w[n][j] = s[j]
      BY <2>0, <2>1
    <3>2. QED  BY <3>1, SeqEqual
  <2>13. QED  BY <1>2, <2>6, <2>11, <2>12 DEF q
<1>5. QED  BY <1>3, <1>4

OneRecord == {<< >>} \cup {<<d>> : d \in UpdateData}
SectionEntries ==
    [name : UpdateNames, rdclass : {"IN", "ANY", "NONE"}, rdtype : UpdateTypes \cup {"ANY"},
     deleting : {"no", "ANY", "NONE"}, rds : OneRecord]

\* What the calls put into the update section, and into the prerequisites.
UpdateEntries ==
    {e \in SectionEntries : /\ e.deleting = "ANY" => e.rds = << >>
                            /\ e.deleting # "ANY" => e.rdclass = "IN" /\ e.rdtype # "ANY" /\ e.rds # << >>}
PrerequisiteEntries ==
    {e \in SectionEntries : /\ e.deleting = "no"
                            /\ e.rdclass = "IN" => e.rdtype # "ANY" /\ e.rds # << >>
                            /\ e.rdclass # "IN" => e.rds = << >>}

\* An entry as it is read back.
SentAs(e) == ReadUpdate(RecordOf(e, e.rds))
SentBack(written) == [i \in DOMAIN written |-> SentAs(written[i])]

LEMMA WireIsOneRecord ==
  ASSUME NEW e \in SectionEntries
  PROVE  WireOf(e) = <<RecordOf(e, e.rds)>>
<1>1. e.rds \in OneRecord
  BY DEF SectionEntries
<1>2. CASE e.rds = << >>
  BY <1>2 DEF WireOf
<1>3. CASE e.rds # << >>
  <2>1. PICK d \in UpdateData : e.rds = <<d>>
    BY <1>1, <1>3 DEF OneRecord
  <2>2. DOMAIN e.rds = {1} /\ <<e.rds[1]>> = e.rds
    BY <2>1
  <2> DEFINE w == [i \in DOMAIN e.rds |-> RecordOf(e, <<e.rds[i]>>)]
             r == RecordOf(e, e.rds)
  <2>3. WireOf(e) = w
    BY <1>3 DEF WireOf
  <2>4. w = [i \in {1} |-> r]
    BY <2>2
  <2> HIDE DEF w, r
  <2>5. [i \in {1} |-> r] = <<r>>
    OBVIOUS
  <2>6. QED  BY <2>3, <2>4, <2>5 DEF r
<1>4. QED  BY <1>2, <1>3

LEMMA SectionIsWritten ==
  ASSUME NEW s \in Seq(SectionEntries)
  PROVE  Written(s) = [i \in DOMAIN s |-> RecordOf(s[i], s[i].rds)]
<1> DEFINE R == {RecordOf(e, e.rds) : e \in SectionEntries}
           r == [i \in DOMAIN s |-> RecordOf(s[i], s[i].rds)]
<1>1. DOMAIN s = 1..Len(s) /\ Len(s) \in Nat /\ \A i \in DOMAIN s : s[i] \in SectionEntries
  BY LenProperties, ElementOfSeq
<1>2. \A i \in DOMAIN s : r[i] \in R /\ WireOf(s[i]) = <<r[i]>>
  BY <1>1, WireIsOneRecord
<1>3. r \in [1..Len(s) -> R]
  BY <1>1, <1>2
<1>4. r \in Seq(R) /\ DOMAIN r = DOMAIN s
  BY <1>1, <1>3
<1> HIDE DEF r, R
<1>5. FlattenSeq([i \in DOMAIN r |-> <<r[i]>>]) = r
  BY <1>4, FlattenOnes
<1>6. [i \in DOMAIN r |-> <<r[i]>>] = [i \in DOMAIN s |-> WireOf(s[i])]
  BY <1>2, <1>4
<1>7. QED  BY <1>5, <1>6 DEF Written, r

LEMMA SectionComesBack ==
  ASSUME NEW s \in Seq(SectionEntries)
  PROVE  ReadBack(Written(s)) = SentBack(s)
<1> DEFINE r == [i \in DOMAIN s |-> RecordOf(s[i], s[i].rds)]
<1>1. Written(s) = r
  BY SectionIsWritten
<1>2. DOMAIN r = DOMAIN s /\ \A i \in DOMAIN s : r[i] = RecordOf(s[i], s[i].rds)
  OBVIOUS
<1> HIDE DEF r
<1>3. \A i \in DOMAIN s : ReadUpdate(r[i]) = SentAs(s[i])
  BY <1>2 DEF SentAs
<1>4. [i \in DOMAIN r |-> ReadUpdate(r[i])] = [i \in DOMAIN s |-> SentAs(s[i])]
  BY <1>2, <1>3
<1>5. QED  BY <1>1, <1>4 DEF ReadBack, SentBack

LEMMA SentUpdate ==
  ASSUME NEW e \in UpdateEntries
  PROVE  /\ SentAs(e) = Entry(e.name, "IN", e.rdtype, e.deleting, e.rds)
         /\ Dataless(RecordOf(e, e.rds), "update") <=> RecordOf(e, e.rds).data = << >>
<1> DEFINE r == RecordOf(e, e.rds)
<1>1. /\ e.deleting \in {"no", "ANY", "NONE"}
      /\ e.deleting = "ANY" => e.rds = << >>
      /\ e.deleting # "ANY" => e.rdclass = "IN" /\ e.rds # << >>
  BY DEF UpdateEntries, SectionEntries
<1>2. r.name = e.name /\ r.type = e.rdtype /\ r.data = e.rds
      /\ r.class = IF e.deleting # "no" THEN e.deleting ELSE e.rdclass
  BY DEF RecordOf
<1> HIDE DEF r
<1>3. r.class = IF e.deleting # "no" THEN e.deleting ELSE "IN"
  BY <1>1, <1>2
<1>4. Meta(r) <=> e.deleting # "no"
  <2>1. r.class \in {"ANY", "NONE"} <=> e.deleting # "no"
    BY <1>1, <1>3
  <2>2. QED  BY <2>1, Zenon DEF Meta
<1>5. Dataless(r, "update") <=> e.rds = << >>
  BY <1>1, <1>3, <1>4 DEF Dataless
<1>6. ReadUpdate(r) = Entry(e.name, "IN", e.rdtype, e.deleting, e.rds)
  <2>1. CASE e.deleting = "no"
    BY <1>2, <1>3, <1>4, <2>1 DEF ReadUpdate
  <2>2. CASE e.deleting # "no"
    BY <1>2, <1>3, <1>4, <2>2 DEF ReadUpdate
  <2>3. QED  BY <2>1, <2>2
<1>7. QED  BY <1>2, <1>5, <1>6 DEF SentAs, r

LEMMA SentPrerequisite ==
  ASSUME NEW e \in PrerequisiteEntries
  PROVE  /\ SentAs(e) = Entry(e.name, "IN", e.rdtype, IF e.rdclass = "IN" THEN "no" ELSE e.rdclass, e.rds)
         /\ Dataless(RecordOf(e, e.rds), "prerequisite") <=> RecordOf(e, e.rds).data = << >>
<1> DEFINE r == RecordOf(e, e.rds)
<1>1. /\ e.rdclass \in {"IN", "ANY", "NONE"} /\ e.deleting = "no"
      /\ e.rdclass # "IN" => e.rds = << >>
      /\ e.rdclass = "IN" => e.rds # << >>
  BY DEF PrerequisiteEntries, SectionEntries
<1>2. r.name = e.name /\ r.type = e.rdtype /\ r.data = e.rds /\ r.class = e.rdclass
  BY <1>1 DEF RecordOf, PrerequisiteEntries
<1> HIDE DEF r
<1>3. Meta(r) <=> e.rdclass # "IN"
  <2>1. r.class \in {"ANY", "NONE"} <=> e.rdclass # "IN"
    BY <1>1, <1>2
  <2>2. QED  BY <2>1, Zenon DEF Meta
<1>4. Dataless(r, "prerequisite") <=> e.rds = << >>
  BY <1>1, <1>2, <1>3 DEF Dataless, PrerequisiteEntries
<1>5. ReadUpdate(r) = Entry(e.name, "IN", e.rdtype, IF e.rdclass = "IN" THEN "no" ELSE e.rdclass, e.rds)
  <2>1. CASE e.rdclass = "IN"
    BY <1>2, <1>3, <2>1 DEF ReadUpdate
  <2>2. CASE e.rdclass # "IN"
    BY <1>2, <1>3, <2>2 DEF ReadUpdate
  <2>3. QED  BY <2>1, <2>2
<1>6. QED  BY <1>2, <1>4, <1>5 DEF SentAs, r

\* The reader takes what the calls put into a message.
LEMMA NoFormError ==
  /\ \A s \in Seq(UpdateEntries) : ~FormError(Written(s), "update")
  /\ \A s \in Seq(PrerequisiteEntries) : ~FormError(Written(s), "prerequisite")
<1>1. UpdateEntries \subseteq SectionEntries /\ PrerequisiteEntries \subseteq SectionEntries
  BY DEF UpdateEntries, PrerequisiteEntries
<1>2. ASSUME NEW s \in Seq(UpdateEntries) PROVE ~FormError(Written(s), "update")
  <2>1. s \in Seq(SectionEntries) /\ \A i \in DOMAIN s : s[i] \in UpdateEntries
    BY <1>1, LenProperties, ElementOfSeq, SeqDef
  <2> DEFINE r == Written(s)
  <2>2. DOMAIN r = DOMAIN s /\ \A i \in DOMAIN s : r[i] = RecordOf(s[i], s[i].rds)
    BY <2>1, SectionIsWritten
  <2> HIDE DEF r
  <2>3. \A i \in DOMAIN r : Dataless(r[i], "update") <=> r[i].data = << >>
    BY <2>1, <2>2, SentUpdate
  <2>4. QED  BY <2>3 DEF FormError, r
<1>3. ASSUME NEW s \in Seq(PrerequisiteEntries) PROVE ~FormError(Written(s), "prerequisite")
  <2>1. s \in Seq(SectionEntries) /\ \A i \in DOMAIN s : s[i] \in PrerequisiteEntries
    BY <1>1, LenProperties, ElementOfSeq, SeqDef
  <2> DEFINE r == Written(s)
  <2>2. DOMAIN r = DOMAIN s /\ \A i \in DOMAIN s : r[i] = RecordOf(s[i], s[i].rds)
    BY <2>1, SectionIsWritten
  <2> HIDE DEF r
  <2>3. \A i \in DOMAIN r : Dataless(r[i], "prerequisite") <=> r[i].data = << >>
    BY <2>1, <2>2, SentPrerequisite
  <2>4. QED  BY <2>3 DEF FormError, r
<1>4. QED  BY <1>2, <1>3

\* The recursion of _add_rr() for each record, over the positions of the records.
IsAdding(g, written, n, t, data, x) ==
    g = [T \in SUBSET DOMAIN data |->
           IF T = {} THEN written ELSE Append(g[T \ {Max(T)}], Entry(n, "IN", t, x, <<data[Max(T)]>>))]

LEMMA AddRRsIs ==
  ASSUME NEW written, NEW n, NEW t, NEW data, NEW x
  PROVE  AddRRs(written, n, t, data, x) = (CHOOSE g : IsAdding(g, written, n, t, data, x))[DOMAIN data]
BY DEF AddRRs, UniqueRRset, FoldLeft, MapThenFoldSet, IsAdding

LEMMA AddingExists ==
  ASSUME NEW E, NEW written \in Seq(E), NEW n, NEW t, NEW x, NEW D, NEW data \in Seq(D),
         \A d \in D : Entry(n, "IN", t, x, <<d>>) \in E
  PROVE  \E g : IsAdding(g, written, n, t, data, x)
<1> DEFINE S == DOMAIN data
           New(i) == Entry(n, "IN", t, x, <<data[i]>>)
           pick == [T \in SUBSET S |-> Max(T)]
           step == [p \in Seq(E) \X S |-> Append(p[1], New(p[2]))]
<1>1. S = 1..Len(data) /\ Len(data) \in Nat /\ \A i \in S : data[i] \in D
  BY LenProperties, ElementOfSeq
<1>2. IsFiniteSet(S) /\ \A i \in S : New(i) \in E
  BY <1>1, FS_Interval
<1> HIDE DEF New
<1>3. \A T \in SUBSET S : T # {} => pick[T] \in T /\ pick[T] = Max(T)
  <2>1. ASSUME NEW T \in SUBSET S, T # {} PROVE Max(T) \in T
    <3>1. T \in SUBSET Nat /\ \A y \in T : y <= Len(data)
      BY <1>1
    <3>2. QED  BY <1>1, <2>1, <3>1, MaxFacts
  <2>2. QED  BY <2>1
<1>4. \A s \in Seq(E), i \in S : step[<<s, i>>] = Append(s, New(i))
  OBVIOUS
<1>5. step \in [Seq(E) \X S -> Seq(E)]
  <2>1. ASSUME NEW s \in Seq(E), NEW i \in S PROVE Append(s, New(i)) \in Seq(E)
    BY <1>2, AppendProperties
  <2>2. QED  BY <2>1
<1> HIDE DEF pick, step, S
<1>6. PICK g \in [SUBSET S -> Seq(E)] : IsFold(g, S, written, pick, step)
  BY <1>2, <1>3, <1>5, FoldExists
<1>7. ASSUME NEW T \in SUBSET S, T # {}
      PROVE  step[<<g[T \ {pick[T]}], pick[T]>>] = Append(g[T \ {Max(T)}], New(Max(T)))
  <2>1. pick[T] \in S /\ pick[T] = Max(T) /\ T \ {pick[T]} \in SUBSET S
    BY <1>3, <1>7
  <2>2. g[T \ {pick[T]}] \in Seq(E)
    BY <2>1
  <2>3. QED  BY <1>4, <2>1, <2>2
<1>8. g = [T \in SUBSET S |-> IF T = {} THEN written ELSE Append(g[T \ {Max(T)}], New(Max(T)))]
  <2>1. g = [T \in SUBSET S |-> IF T = {} THEN written ELSE step[<<g[T \ {pick[T]}], pick[T]>>]]
    BY <1>6 DEF IsFold
  <2>2. QED  BY <1>7, <2>1
<1>9. IsAdding(g, written, n, t, data, x)
  BY <1>8 DEF IsAdding, S, New
<1>10. QED  BY <1>9

\* h[k] is the section with k of the records.
Adds(h, written, n, t, data, x) ==
    /\ h[0] = written
    /\ \A k \in 1..Len(data) : h[k] = Append(h[k - 1], Entry(n, "IN", t, x, <<data[k]>>))
    /\ AddRRs(written, n, t, data, x) = h[Len(data)]

\* What a recursion over sets of positions makes of the first k.
LEMMA Firsts ==
  ASSUME NEW l \in Nat, NEW k \in 1..l
  PROVE  1..k \in SUBSET (1..l) /\ 1..k # {} /\ Max(1..k) = k /\ (1..k) \ {k} = 1..(k - 1)
<1>1. k \in Nat /\ k >= 1 /\ k <= l
  OBVIOUS
<1>2. 1..k \in SUBSET (1..l) /\ k \in 1..k /\ 1..k \in SUBSET Nat /\ \A y \in 1..k : y <= k
  BY <1>1
<1> DEFINE m == Max(1..k)
<1>3. m \in 1..k /\ \A y \in 1..k : y <= m
  BY <1>1, <1>2, MaxFacts
<1> HIDE DEF m
<1>4. m = k
  BY <1>1, <1>2, <1>3
<1>5. (1..k) \ {k} = 1..(k - 1)
  BY <1>1
<1>6. 1..k # {}
  BY <1>2
<1>7. QED  BY <1>2, <1>4, <1>5, <1>6 DEF m

LEMMA AddRRsRule ==
  ASSUME NEW E, NEW written \in Seq(E), NEW n, NEW t, NEW x, NEW D, NEW data \in Seq(D),
         \A d \in D : Entry(n, "IN", t, x, <<d>>) \in E
  PROVE  \E h : Adds(h, written, n, t, data, x)
<1> DEFINE g == CHOOSE g : IsAdding(g, written, n, t, data, x)
           h == [k \in 0..Len(data) |-> g[1..k]]
           New(k) == Entry(n, "IN", t, x, <<data[k]>>)
<1>1. IsAdding(g, written, n, t, data, x)
  BY AddingExists
<1>2. AddRRs(written, n, t, data, x) = g[DOMAIN data]
  BY AddRRsIs
<1> HIDE DEF g
<1>3. DOMAIN data = 1..Len(data) /\ Len(data) \in Nat
  BY LenProperties
<1>4. \A T \in SUBSET DOMAIN data : g[T] = IF T = {} THEN written ELSE Append(g[T \ {Max(T)}], New(Max(T)))
  BY <1>1 DEF IsAdding
<1> HIDE DEF New
<1>5. 0 \in 0..Len(data) /\ Len(data) \in 0..Len(data) /\ 1..0 = {}
  BY <1>3
<1>6. h[0] = written
  BY <1>4, <1>5
<1>7. ASSUME NEW k \in 1..Len(data) PROVE h[k] = Append(h[k - 1], New(k))
  <2>1. k \in 0..Len(data) /\ k - 1 \in 0..Len(data)
    BY <1>3
  <2>2. 1..k \in SUBSET DOMAIN data /\ 1..k # {} /\ Max(1..k) = k /\ (1..k) \ {k} = 1..(k - 1)
    BY <1>3, Firsts
  <2>3. g[1..k] = Append(g[1..(k - 1)], New(k))
    BY <1>4, <2>2
  <2>4. QED  BY <2>1, <2>3
<1>8. AddRRs(written, n, t, data, x) = h[Len(data)]
  BY <1>2, <1>3, <1>5
<1> HIDE DEF h
<1>9. Adds(h, written, n, t, data, x)
  BY <1>6, <1>7, <1>8 DEF Adds, New
<1>10. QED  BY <1>9

\* What an entry adds to a section, seen from the other side.
LEMMA BackAppended ==
  ASSUME NEW E, NEW s \in Seq(E), NEW e \in E, NEW B, \A f \in E : SentAs(f) \in B
  PROVE  /\ SentBack(s) \in Seq(B)
         /\ SentBack(Append(s, e)) = Append(SentBack(s), SentAs(e))
<1> DEFINE n == Len(s)
           b == SentBack(s)
           a == Append(s, e)
           c == SentBack(a)
<1>1. n \in Nat /\ DOMAIN s = 1..n /\ \A i \in 1..n : s[i] \in E
  BY LenProperties, ElementOfSeq
<1>2. b = [i \in 1..n |-> SentAs(s[i])]
  BY <1>1 DEF SentBack
<1>3. /\ a \in Seq(E) /\ Len(a) = n + 1 /\ DOMAIN a = DOMAIN s \cup {n + 1}
      /\ \A i \in DOMAIN s : a[i] = s[i]
      /\ a[n + 1] = e
  BY SectionGrows
<1> HIDE DEF a
<1>4. DOMAIN a = 1..(n + 1) /\ \A i \in 1..(n + 1) : a[i] \in E
  BY <1>3, LenProperties, ElementOfSeq
<1>5. c = [i \in 1..(n + 1) |-> SentAs(a[i])]
  BY <1>4 DEF SentBack
<1> HIDE DEF b, c
<1>6. b \in [1..n -> B] /\ c \in [1..(n + 1) -> B]
  BY <1>1, <1>2, <1>4, <1>5
<1>7. b \in Seq(B) /\ Len(b) = n /\ c \in Seq(B) /\ Len(c) = n + 1
  BY <1>1, <1>6
<1> DEFINE d == Append(b, SentAs(e))
<1>8. /\ d \in Seq(B) /\ Len(d) = n + 1 /\ d[n + 1] = SentAs(e)
      /\ \A i \in 1..n : d[i] = b[i]
  BY <1>7, AppendProperties
<1> HIDE DEF d
<1>9. ASSUME NEW i \in 1..(n + 1) PROVE c[i] = d[i]
  <2>1. CASE i = n + 1
    BY <1>3, <1>5, <1>8, <2>1
  <2>2. CASE i # n + 1
    <3>1. i \in 1..n
      BY <1>1, <2>2
    <3>2. c[i] = SentAs(s[i]) /\ d[i] = SentAs(s[i])
      BY <1>1, <1>2, <1>3, <1>5, <1>8, <3>1
    <3>3. QED  BY <3>2
  <2>3. QED  BY <2>1, <2>2
<1>10. c = d
  BY <1>7, <1>8, <1>9, SeqEqual
<1>11. QED  BY <1>7, <1>10 DEF b, c, d, a

\* What the server makes of the zone.
Result(s) == FoldLeft(Applied, ZoneBefore, s)
UpdateZones == SUBSET [name : UpdateNames, type : UpdateTypes, data : UpdateData]
SentUpdates == {SentAs(e) : e \in UpdateEntries}

LEMMA SentUpdateFields ==
  ASSUME NEW e \in SentUpdates
  PROVE  /\ e.deleting \in {"ANY", "NONE", "no"} /\ e.name \in UpdateNames
         /\ e.deleting = "no" => e.rdtype \in UpdateTypes /\ \E d \in UpdateData : e.rds = <<d>>
<1>1. PICK u \in UpdateEntries : e = SentAs(u)
  BY DEF SentUpdates
<1>2. e = Entry(u.name, "IN", u.rdtype, u.deleting, u.rds)
  BY <1>1, SentUpdate
<1>3. e.deleting = u.deleting /\ e.name = u.name /\ e.rdtype = u.rdtype /\ e.rds = u.rds
  BY <1>2 DEF Entry
<1>4. /\ u.deleting \in {"ANY", "NONE", "no"} /\ u.name \in UpdateNames
      /\ u.rdtype \in UpdateTypes \cup {"ANY"} /\ u.rds \in OneRecord
      /\ u.deleting # "ANY" => u.rdtype # "ANY" /\ u.rds # << >>
  BY DEF UpdateEntries, SectionEntries
<1>5. u.rds # << >> => \E d \in UpdateData : u.rds = <<d>>
  BY <1>4 DEF OneRecord
<1>6. QED  BY <1>3, <1>4, <1>5

LEMMA OfOne ==
  ASSUME NEW n, NEW t, NEW d
  PROVE  Of(n, t, <<d>>) = {[name |-> n, type |-> t, data |-> d]}
<1>1. Range(<<d>>) = {d}
  BY DEF Range
<1>2. QED  BY <1>1 DEF Of

\* The three cases of Applied.
LEMMA AppliedCases ==
  ASSUME NEW contents, NEW e
  PROVE  /\ e.deleting = "ANY" => Applied(contents, e) = contents \ RecordsOf(contents, e.name, TypesOf(e))
         /\ e.deleting = "NONE" => Applied(contents, e) = contents \ Of(e.name, e.rdtype, e.rds)
         /\ e.deleting = "no" => Applied(contents, e) = contents \cup Of(e.name, e.rdtype, e.rds)
BY DEF Applied

LEMMA AppliedStays ==
  ASSUME NEW contents \in UpdateZones, NEW e \in SentUpdates
  PROVE  Applied(contents, e) \in UpdateZones
<1>1. /\ e.deleting \in {"ANY", "NONE", "no"} /\ e.name \in UpdateNames
      /\ e.deleting = "no" => e.rdtype \in UpdateTypes /\ \E d \in UpdateData : e.rds = <<d>>
  BY SentUpdateFields
<1>2. CASE e.deleting # "no"
  <2>1. Applied(contents, e) \subseteq contents
    BY <1>1, <1>2, AppliedCases
  <2>2. QED  BY <2>1 DEF UpdateZones
<1>3. CASE e.deleting = "no"
  <2>1. PICK d \in UpdateData : e.rds = <<d>>
    BY <1>1, <1>3
  <2>2. Applied(contents, e) = contents \cup {[name |-> e.name, type |-> e.rdtype, data |-> d]}
    BY <1>3, <2>1, AppliedCases, OfOne
  <2>3. QED  BY <1>1, <1>3, <2>2 DEF UpdateZones
<1>4. QED  BY <1>2, <1>3

IsApplying(g, s) ==
    g = [T \in SUBSET DOMAIN s |-> IF T = {} THEN ZoneBefore ELSE Applied(g[T \ {Max(T)}], s[Max(T)])]

LEMMA ResultIs ==
  ASSUME NEW s
  PROVE  Result(s) = (CHOOSE g : IsApplying(g, s))[DOMAIN s]
BY DEF Result, FoldLeft, MapThenFoldSet, IsApplying

LEMMA ApplyingExists ==
  ASSUME NEW s \in Seq(SentUpdates)
  PROVE  \E g : IsApplying(g, s)
<1> DEFINE S == DOMAIN s
           pick == [T \in SUBSET S |-> Max(T)]
           step == [p \in UpdateZones \X S |-> Applied(p[1], s[p[2]])]
<1>1. S = 1..Len(s) /\ Len(s) \in Nat /\ \A i \in S : s[i] \in SentUpdates
  BY LenProperties, ElementOfSeq
<1>2. IsFiniteSet(S) /\ ZoneBefore \in UpdateZones
  BY <1>1, FS_Interval, UpdateAssumption DEF UpdateZones
<1>3. \A T \in SUBSET S : T # {} => pick[T] \in T /\ pick[T] = Max(T)
  <2>1. ASSUME NEW T \in SUBSET S, T # {} PROVE Max(T) \in T
    <3>1. T \in SUBSET Nat /\ \A y \in T : y <= Len(s)
      BY <1>1
    <3>2. QED  BY <1>1, <2>1, <3>1, MaxFacts
  <2>2. QED  BY <2>1
<1>4. \A z \in UpdateZones, i \in S : step[<<z, i>>] = Applied(z, s[i])
  OBVIOUS
<1>5. step \in [UpdateZones \X S -> UpdateZones]
  <2>1. ASSUME NEW z \in UpdateZones, NEW i \in S PROVE Applied(z, s[i]) \in UpdateZones
    BY <1>1, AppliedStays
  <2>2. QED  BY <2>1
<1> HIDE DEF pick, step, S
<1>6. PICK g \in [SUBSET S -> UpdateZones] : IsFold(g, S, ZoneBefore, pick, step)
  BY <1>2, <1>3, <1>5, FoldExists
<1>7. ASSUME NEW T \in SUBSET S, T # {}
      PROVE  step[<<g[T \ {pick[T]}], pick[T]>>] = Applied(g[T \ {Max(T)}], s[Max(T)])
  <2>1. pick[T] \in S /\ pick[T] = Max(T) /\ T \ {pick[T]} \in SUBSET S
    BY <1>3, <1>7
  <2>2. g[T \ {pick[T]}] \in UpdateZones
    BY <2>1
  <2>3. QED  BY <1>4, <2>1, <2>2
<1>8. g = [T \in SUBSET S |-> IF T = {} THEN ZoneBefore ELSE Applied(g[T \ {Max(T)}], s[Max(T)])]
  <2>1. g = [T \in SUBSET S |-> IF T = {} THEN ZoneBefore ELSE step[<<g[T \ {pick[T]}], pick[T]>>]]
    BY <1>6 DEF IsFold
  <2>2. QED  BY <1>7, <2>1
<1>9. IsApplying(g, s)
  BY <1>8 DEF IsApplying, S
<1>10. QED  BY <1>9

\* f[k] is the zone after k entries.
Applies(f, s) ==
    /\ f[0] = ZoneBefore
    /\ \A k \in 1..Len(s) : f[k] = Applied(f[k - 1], s[k])
    /\ Result(s) = f[Len(s)]

LEMMA ResultRule ==
  ASSUME NEW s \in Seq(SentUpdates)
  PROVE  \E f : Applies(f, s)
<1> DEFINE g == CHOOSE g : IsApplying(g, s)
           f == [k \in 0..Len(s) |-> g[1..k]]
<1>1. IsApplying(g, s)
  BY ApplyingExists
<1>2. Result(s) = g[DOMAIN s]
  BY ResultIs
<1> HIDE DEF g
<1>3. DOMAIN s = 1..Len(s) /\ Len(s) \in Nat
  BY LenProperties
<1>4. \A T \in SUBSET DOMAIN s : g[T] = IF T = {} THEN ZoneBefore ELSE Applied(g[T \ {Max(T)}], s[Max(T)])
  BY <1>1 DEF IsApplying
<1>5. 0 \in 0..Len(s) /\ Len(s) \in 0..Len(s) /\ 1..0 = {}
  BY <1>3
<1>6. f[0] = ZoneBefore
  BY <1>4, <1>5
<1>7. ASSUME NEW k \in 1..Len(s) PROVE f[k] = Applied(f[k - 1], s[k])
  <2>1. k \in 0..Len(s) /\ k - 1 \in 0..Len(s)
    BY <1>3
  <2>2. 1..k \in SUBSET DOMAIN s /\ 1..k # {} /\ Max(1..k) = k /\ (1..k) \ {k} = 1..(k - 1)
    BY <1>3, Firsts
  <2>3. g[1..k] = Applied(g[1..(k - 1)], s[k])
    BY <1>4, <2>2
  <2>4. QED  BY <2>1, <2>3
<1>8. Result(s) = f[Len(s)]
  BY <1>2, <1>3, <1>5
<1> HIDE DEF f
<1>9. Applies(f, s)
  BY <1>6, <1>7, <1>8 DEF Applies
<1>10. QED  BY <1>9

LEMMA ResultOfNothing == Result(<< >>) = ZoneBefore
<1>1. << >> \in Seq(SentUpdates) /\ Len(<< >>) = 0
  BY EmptySeq
<1>2. PICK f : Applies(f, << >>)
  BY <1>1, ResultRule
<1>3. QED  BY <1>1, <1>2 DEF Applies

LEMMA ResultOfMore ==
  ASSUME NEW s \in Seq(SentUpdates), NEW e \in SentUpdates
  PROVE  Result(Append(s, e)) = Applied(Result(s), e)
<1> DEFINE a == Append(s, e)
           n == Len(s)
<1>1. /\ n \in Nat /\ a \in Seq(SentUpdates) /\ Len(a) = n + 1
      /\ \A i \in 1..n : a[i] = s[i]
      /\ a[n + 1] = e
  BY LenProperties, AppendProperties
<1> HIDE DEF a
<1>2. PICK f : Applies(f, s)
  BY ResultRule
<1>3. PICK g : Applies(g, a)
  BY <1>1, ResultRule
<1> DEFINE N == {k \in Nat : k <= n => g[k] = f[k]}
<1>4. 0 \in N
  BY <1>2, <1>3 DEF Applies
<1>5. ASSUME NEW k \in N PROVE k + 1 \in N
  <2>1. SUFFICES ASSUME k + 1 <= n PROVE g[k + 1] = f[k + 1]
    OBVIOUS
  <2> DEFINE i == k + 1
  <2>2. i \in 1..n /\ i \in 1..(n + 1) /\ i - 1 = k /\ g[k] = f[k]
    BY <1>1, <2>1
  <2> HIDE DEF i
  <2>3. f[i] = Applied(f[i - 1], s[i]) /\ g[i] = Applied(g[i - 1], a[i]) /\ a[i] = s[i]
    BY <1>1, <1>2, <1>3, <2>2 DEF Applies
  <2>4. g[i] = f[i]
    BY <2>2, <2>3
  <2>5. QED  BY <2>4 DEF i
<1>6. N = Nat
  <2>1. N \in SUBSET Nat
    OBVIOUS
  <2> HIDE DEF N
  <2>2. QED  BY <1>4, <1>5, <2>1, SetInduction
<1>7. g[n] = f[n]
  BY <1>1, <1>6
<1>8. n + 1 \in 1..(n + 1) /\ (n + 1) - 1 = n
  BY <1>1
<1>9. g[n + 1] = Applied(g[n], e)
  BY <1>1, <1>3, <1>8 DEF Applies
<1>10. QED  BY <1>1, <1>2, <1>3, <1>7, <1>9 DEF Applies, a

\* s is an update section that makes z of the zone.
UpdateMakes(s, z) == s \in Seq(UpdateEntries) /\ z = Result(SentBack(s))

LEMMA OneChange ==
  ASSUME NEW s, NEW z, UpdateMakes(s, z), NEW e \in UpdateEntries
  PROVE  UpdateMakes(Append(s, e), Applied(z, SentAs(e)))
<1>1. s \in Seq(UpdateEntries) /\ z = Result(SentBack(s)) /\ Append(s, e) \in Seq(UpdateEntries)
  BY AppendProperties DEF UpdateMakes
<1>2. SentAs(e) \in SentUpdates /\ \A f \in UpdateEntries : SentAs(f) \in SentUpdates
  BY DEF SentUpdates
<1>3. SentBack(s) \in Seq(SentUpdates) /\ SentBack(Append(s, e)) = Append(SentBack(s), SentAs(e))
  BY <1>1, <1>2, BackAppended
<1>4. Result(Append(SentBack(s), SentAs(e))) = Applied(Result(SentBack(s)), SentAs(e))
  BY <1>2, <1>3, ResultOfMore
<1>5. QED  BY <1>1, <1>3, <1>4 DEF UpdateMakes

LEMMA EntryFields ==
  ASSUME NEW n, NEW c, NEW t, NEW x, NEW rds
  PROVE  LET e == Entry(n, c, t, x, rds)
         IN  e.name = n /\ e.rdclass = c /\ e.rdtype = t /\ e.deleting = x /\ e.rds = rds
BY DEF Entry

LEMMA EntryInSection ==
  ASSUME NEW n \in UpdateNames, NEW c \in {"IN", "ANY", "NONE"}, NEW t \in UpdateTypes \cup {"ANY"},
         NEW x \in {"no", "ANY", "NONE"}, NEW rds \in OneRecord
  PROVE  Entry(n, c, t, x, rds) \in SectionEntries
BY DEF Entry, SectionEntries

LEMMA NoRecordOrOne ==
  << >> \in OneRecord /\ \A d \in UpdateData : <<d>> \in OneRecord /\ <<d>> # << >>
BY DEF OneRecord

\* A name, or one of its types, is deleted.
LEMMA DeletesTypes ==
  ASSUME NEW s, NEW z, UpdateMakes(s, z), NEW n \in UpdateNames, NEW t \in UpdateTypes
  PROVE  /\ UpdateMakes(Append(s, Entry(n, "ANY", "ANY", "ANY", << >>)), z \ RecordsOf(z, n, UpdateTypes))
         /\ UpdateMakes(Append(s, Entry(n, "IN", t, "ANY", << >>)), z \ RecordsOf(z, n, {t}))
<1>1. "ANY" \notin UpdateTypes /\ t # "ANY"
  BY UpdateAssumption
<1>2. ASSUME NEW c \in {"IN", "ANY"}, NEW u \in UpdateTypes \cup {"ANY"}
      PROVE  UpdateMakes(Append(s, Entry(n, c, u, "ANY", << >>)),
                         z \ RecordsOf(z, n, IF u = "ANY" THEN UpdateTypes ELSE {u}))
  <2> DEFINE e == Entry(n, c, u, "ANY", << >>)
             f == SentAs(e)
  <2>1. e \in SectionEntries
    BY EntryInSection, NoRecordOrOne
  <2>2. e.name = n /\ e.rdtype = u /\ e.deleting = "ANY" /\ e.rds = << >>
    BY EntryFields
  <2> HIDE DEF e
  <2>3. e \in UpdateEntries
    BY <2>1, <2>2 DEF UpdateEntries
  <2>4. f = Entry(n, "IN", u, "ANY", << >>)
    BY <2>2, <2>3, SentUpdate
  <2> HIDE DEF f
  <2>5. f.name = n /\ f.rdtype = u /\ f.deleting = "ANY"
    BY <2>4, EntryFields
  <2>6. TypesOf(f) = IF u = "ANY" THEN UpdateTypes ELSE {u}
    BY <2>5 DEF TypesOf
  <2>7. Applied(z, f) = z \ RecordsOf(z, n, IF u = "ANY" THEN UpdateTypes ELSE {u})
    BY <2>5, <2>6, AppliedCases
  <2>8. UpdateMakes(Append(s, e), Applied(z, f))
    BY <2>3, OneChange DEF f
  <2>9. QED  BY <2>7, <2>8 DEF e
<1>3. UpdateMakes(Append(s, Entry(n, "ANY", "ANY", "ANY", << >>)), z \ RecordsOf(z, n, UpdateTypes))
  BY <1>2
<1>4. UpdateMakes(Append(s, Entry(n, "IN", t, "ANY", << >>)), z \ RecordsOf(z, n, {t}))
  BY <1>1, <1>2
<1>5. QED  BY <1>3, <1>4

\* The first k of the records.
FirstOf(n, t, data, k) == {[name |-> n, type |-> t, data |-> data[i]] : i \in 1..k}

FirstOnes(n, t, data) ==
    /\ FirstOf(n, t, data, 0) = {} /\ FirstOf(n, t, data, Len(data)) = Of(n, t, data)
    /\ \A k \in 1..Len(data) :
         FirstOf(n, t, data, k) = FirstOf(n, t, data, k - 1) \cup {[name |-> n, type |-> t, data |-> data[k]]}

LEMMA FirstFacts ==
  ASSUME NEW n, NEW t, NEW D, NEW data \in Seq(D)
  PROVE  FirstOnes(n, t, data)
<1>1. DOMAIN data = 1..Len(data) /\ Len(data) \in Nat /\ 1..0 = {}
  BY LenProperties
<1> DEFINE R(i) == [name |-> n, type |-> t, data |-> data[i]]
<1>2. FirstOf(n, t, data, 0) = {}
  BY <1>1 DEF FirstOf
<1>3. FirstOf(n, t, data, Len(data)) = Of(n, t, data)
  BY <1>1 DEF FirstOf, Of, Range
<1>4. ASSUME NEW k \in 1..Len(data)
      PROVE  FirstOf(n, t, data, k) = FirstOf(n, t, data, k - 1) \cup {R(k)}
  <2>1. 1..k = 1..(k - 1) \cup {k}
    BY <1>1
  <2>2. \A j : FirstOf(n, t, data, j) = {R(i) : i \in 1..j}
    BY DEF FirstOf
  <2> HIDE DEF R
  <2>3. QED  BY <2>1, <2>2
<1>5. QED  BY <1>2, <1>3, <1>4 DEF FirstOnes

\* Records are added or deleted.
LEMMA ChangesRecords ==
  ASSUME NEW s, NEW z, UpdateMakes(s, z), NEW n \in UpdateNames, NEW t \in UpdateTypes,
         NEW data \in Seq(UpdateData), NEW x \in {"no", "NONE"}
  PROVE  UpdateMakes(AddRRs(s, n, t, data, x),
                     IF x = "no" THEN z \cup Of(n, t, data) ELSE z \ Of(n, t, data))
<1> DEFINE First(k) == FirstOf(n, t, data, k)
           SoFar(k) == IF x = "no" THEN z \cup First(k) ELSE z \ First(k)
           New(d) == Entry(n, "IN", t, x, <<d>>)
<1>1. t # "ANY" /\ Len(data) \in Nat /\ \A i \in 1..Len(data) : data[i] \in UpdateData
  BY UpdateAssumption, LenProperties, ElementOfSeq
<1>2. ASSUME NEW d \in UpdateData PROVE New(d) \in UpdateEntries
  <2>1. New(d) \in SectionEntries /\ <<d>> # << >>
    BY EntryInSection, NoRecordOrOne
  <2>2. New(d).rdclass = "IN" /\ New(d).rdtype = t /\ New(d).deleting = x /\ New(d).rds = <<d>>
    BY EntryFields
  <2> HIDE DEF New
  <2>3. QED  BY <1>1, <2>1, <2>2 DEF UpdateEntries
<1>3. PICK h : Adds(h, s, n, t, data, x)
  <2>1. s \in Seq(UpdateEntries)
    BY DEF UpdateMakes
  <2>2. QED  BY <1>2, <2>1, AddRRsRule
<1>4. /\ First(0) = {} /\ First(Len(data)) = Of(n, t, data)
      /\ \A k \in 1..Len(data) : First(k) = First(k - 1) \cup {[name |-> n, type |-> t, data |-> data[k]]}
  <2>1. FirstOnes(n, t, data)
    BY FirstFacts
  <2>2. QED  BY <2>1 DEF FirstOnes
<1> HIDE DEF First
<1> DEFINE N == {k \in Nat : k <= Len(data) => UpdateMakes(h[k], SoFar(k))}
<1>5. 0 \in N
  <2>1. h[0] = s /\ SoFar(0) = z
    BY <1>3, <1>4 DEF Adds
  <2>2. QED  BY <2>1
<1>6. ASSUME NEW k \in N PROVE k + 1 \in N
  <2>1. SUFFICES ASSUME k + 1 <= Len(data) PROVE UpdateMakes(h[k + 1], SoFar(k + 1))
    OBVIOUS
  <2> DEFINE i == k + 1
             d == data[i]
             e == New(d)
             f == SentAs(e)
  <2>2. i \in 1..Len(data) /\ i - 1 = k /\ UpdateMakes(h[k], SoFar(k))
    BY <1>1, <2>1
  <2> HIDE DEF i
  <2>3. d \in UpdateData
    BY <1>1, <2>2
  <2>4. h[i] = Append(h[k], e)
    BY <1>3, <2>2 DEF Adds
  <2> HIDE DEF d
  <2>5. e \in UpdateEntries /\ e.name = n /\ e.rdtype = t /\ e.deleting = x /\ e.rds = <<d>>
    BY <1>2, <2>3, EntryFields
  <2> HIDE DEF e, New
  <2>6. f = Entry(n, "IN", t, x, <<d>>)
    BY <2>5, SentUpdate
  <2> HIDE DEF f
  <2>7. f.name = n /\ f.rdtype = t /\ f.deleting = x /\ f.rds = <<d>>
    BY <2>6, EntryFields
  <2> DEFINE r == [name |-> n, type |-> t, data |-> d]
             w == SoFar(k)
  <2>8. Applied(w, f) = IF x = "no" THEN w \cup {r} ELSE w \ {r}
    <3>1. Of(n, t, <<d>>) = {r}
      BY OfOne
    <3> HIDE DEF r, w
    <3>2. QED  BY <2>7, <3>1, AppliedCases
  <2>9. First(i) = First(k) \cup {r}
    BY <1>4, <2>2 DEF d
  <2> HIDE DEF r
  <2>10. Applied(w, f) = SoFar(i)
    BY <2>8, <2>9
  <2> HIDE DEF w
  <2>11. UpdateMakes(Append(h[k], e), Applied(w, f))
    BY <2>2, <2>5, OneChange DEF w, f
  <2> HIDE DEF SoFar
  <2>12. UpdateMakes(h[i], SoFar(i))
    BY <2>4, <2>10, <2>11
  <2>13. QED  BY <2>12 DEF i
<1>7. N = Nat
  <2>1. N \in SUBSET Nat
    OBVIOUS
  <2> HIDE DEF N
  <2>2. QED  BY <1>5, <1>6, <2>1, SetInduction
<1>8. UpdateMakes(h[Len(data)], SoFar(Len(data)))
  <2> HIDE DEF SoFar
  <2>1. Len(data) \in N
    BY <1>1, <1>7
  <2>2. QED  BY <1>1, <2>1
<1>9. QED  BY <1>3, <1>4, <1>8 DEF Adds

-----------------------------------------------------------------------------
(* What the prerequisites ask, and what the calls demand. *)

SentPrerequisites == {SentAs(e) : e \in PrerequisiteEntries}
Ask(e) ==
    [kind |-> IF e.deleting = "ANY" THEN "some" ELSE IF e.deleting = "NONE" THEN "none" ELSE "these",
     name |-> e.name, types |-> TypesOf(e)]
AsksOf(b) == {Ask(b[i]) : i \in DOMAIN b}
Demands(ds) == {[kind |-> d.kind, name |-> d.name, types |-> d.types] : d \in ds}
AllIn(ds, n, types) ==
    UNION {d.records : d \in {q \in ds : q.kind = "these" /\ q.name = n /\ q.types = types}}

\* s is a section of prerequisites that asks what ds demands.
AsksFor(s, ds) ==
    /\ s \in Seq(PrerequisiteEntries)
    /\ AsksOf(SentBack(s)) = Demands(ds)
    /\ \A n \in UpdateNames, t \in UpdateTypes : Given(SentBack(s), n, t) = AllIn(ds, n, {t})

LEMMA AskedMore ==
  ASSUME NEW B, NEW b \in Seq(B), NEW e \in B
  PROVE  AsksOf(Append(b, e)) = AsksOf(b) \cup {Ask(e)}
<1> DEFINE a == Append(b, e)
           l == Len(b) + 1
<1>1. DOMAIN a = DOMAIN b \cup {l} /\ a[l] = e /\ \A i \in DOMAIN b : a[i] = b[i] /\ i # l
  BY SectionGrows
<1> HIDE DEF a, l
<1>2. AsksOf(a) = AsksOf(b) \cup {Ask(e)}
  BY <1>1 DEF AsksOf
<1>3. QED  BY <1>2 DEF a

GivenBy(e, n, t) == IF e.name = n /\ e.rdtype = t /\ e.deleting = "no" THEN Of(n, t, e.rds) ELSE {}

LEMMA GivenMore ==
  ASSUME NEW B, NEW b \in Seq(B), NEW e \in B, NEW n, NEW t
  PROVE  Given(Append(b, e), n, t) = Given(b, n, t) \cup GivenBy(e, n, t)
<1> DEFINE a == Append(b, e)
           l == Len(b) + 1
           Its(s) == {k \in DOMAIN s : s[k].name = n /\ s[k].rdtype = t /\ s[k].deleting = "no"}
           new == IF e.name = n /\ e.rdtype = t /\ e.deleting = "no" THEN {l} ELSE {}
<1>1. DOMAIN a = DOMAIN b \cup {l} /\ a[l] = e /\ \A i \in DOMAIN b : a[i] = b[i] /\ i # l
  BY SectionGrows
<1> HIDE DEF a, l
<1>2. Its(a) = Its(b) \cup new /\ \A i \in Its(b) : a[i] = b[i]
  BY <1>1
<1>3. /\ Given(a, n, t) = UNION {Of(n, t, a[i].rds) : i \in Its(a)}
      /\ Given(b, n, t) = UNION {Of(n, t, b[i].rds) : i \in Its(b)}
  BY DEF Given
<1>4. UNION {Of(n, t, a[i].rds) : i \in new} = GivenBy(e, n, t)
  BY <1>1 DEF GivenBy
<1> HIDE DEF Its, new
<1>5. UNION {Of(n, t, a[i].rds) : i \in Its(a)}
        = (UNION {Of(n, t, b[i].rds) : i \in Its(b)}) \cup UNION {Of(n, t, a[i].rds) : i \in new}
  BY <1>2
<1>6. QED  BY <1>3, <1>4, <1>5 DEF a

LEMMA DemandedMore ==
  ASSUME NEW ds, NEW kind, NEW n, NEW types, NEW records
  PROVE  Demands(ds \cup Demand(kind, n, types, records))
           = Demands(ds) \cup {[kind |-> kind, name |-> n, types |-> types]}
<1> DEFINE d == [kind |-> kind, name |-> n, types |-> types, records |-> records]
<1>1. Demand(kind, n, types, records) = {d}
  BY DEF Demand
<1>2. d.kind = kind /\ d.name = n /\ d.types = types
  OBVIOUS
<1> HIDE DEF d
<1>3. Demands(ds \cup {d}) = Demands(ds) \cup {[kind |-> kind, name |-> n, types |-> types]}
  BY <1>2 DEF Demands
<1>4. QED  BY <1>1, <1>3

LEMMA AllInMore ==
  ASSUME NEW ds, NEW kind, NEW n, NEW types, NEW records, NEW m, NEW u
  PROVE  AllIn(ds \cup Demand(kind, n, types, records), m, u)
           = AllIn(ds, m, u) \cup (IF kind = "these" /\ n = m /\ types = u THEN records ELSE {})
<1> DEFINE d == [kind |-> kind, name |-> n, types |-> types, records |-> records]
           es == ds \cup {d}
           Its(qs) == {q \in qs : q.kind = "these" /\ q.name = m /\ q.types = u}
           new == IF kind = "these" /\ n = m /\ types = u THEN {d} ELSE {}
<1>1. Demand(kind, n, types, records) = {d}
  BY DEF Demand
<1>2. d.kind = kind /\ d.name = n /\ d.types = types /\ d.records = records
  OBVIOUS
<1> HIDE DEF d
<1>3. Its(es) = Its(ds) \cup new
  BY <1>2
<1>4. /\ AllIn(es, m, u) = UNION {q.records : q \in Its(es)}
      /\ AllIn(ds, m, u) = UNION {q.records : q \in Its(ds)}
  BY DEF AllIn
<1>5. UNION {q.records : q \in new} = IF kind = "these" /\ n = m /\ types = u THEN records ELSE {}
  BY <1>2
<1> HIDE DEF Its, new, es
<1>6. UNION {q.records : q \in Its(es)}
        = (UNION {q.records : q \in Its(ds)}) \cup UNION {q.records : q \in new}
  BY <1>3
<1>7. QED  BY <1>1, <1>4, <1>5, <1>6 DEF es

LEMMA SentPrerequisiteFields ==
  ASSUME NEW e \in PrerequisiteEntries
  PROVE  LET f == SentAs(e)
         IN  /\ f.name = e.name /\ f.rdtype = e.rdtype /\ f.rds = e.rds
             /\ f.deleting = IF e.rdclass = "IN" THEN "no" ELSE e.rdclass
             /\ TypesOf(f) = IF e.rdtype = "ANY" THEN UpdateTypes ELSE {e.rdtype}
<1> DEFINE f == SentAs(e)
           x == IF e.rdclass = "IN" THEN "no" ELSE e.rdclass
<1>1. f = Entry(e.name, "IN", e.rdtype, x, e.rds)
  BY SentPrerequisite
<1> HIDE DEF f, x
<1>2. f.name = e.name /\ f.rdtype = e.rdtype /\ f.rds = e.rds /\ f.deleting = x
  BY <1>1, EntryFields
<1>3. TypesOf(f) = IF e.rdtype = "ANY" THEN UpdateTypes ELSE {e.rdtype}
  BY <1>2 DEF TypesOf
<1>4. QED  BY <1>2, <1>3 DEF f, x

\* present() or absent(), with a name or one of its types.
LEMMA AsksForTypes ==
  ASSUME NEW s, NEW ds, AsksFor(s, ds), NEW n \in UpdateNames, NEW t \in UpdateTypes \cup {"ANY"},
         NEW c \in {"ANY", "NONE"}
  PROVE  AsksFor(Append(s, Entry(n, c, t, "no", << >>)),
                 ds \cup Demand(IF c = "ANY" THEN "some" ELSE "none", n,
                                IF t = "ANY" THEN UpdateTypes ELSE {t}, {}))
<1> DEFINE e == Entry(n, c, t, "no", << >>)
           f == SentAs(e)
           kind == IF c = "ANY" THEN "some" ELSE "none"
           types == IF t = "ANY" THEN UpdateTypes ELSE {t}
           es == ds \cup Demand(kind, n, types, {})
<1>1. e \in SectionEntries
  BY EntryInSection, NoRecordOrOne
<1>2. e.name = n /\ e.rdclass = c /\ e.rdtype = t /\ e.deleting = "no" /\ e.rds = << >>
  BY EntryFields
<1> HIDE DEF e
<1>3. e \in PrerequisiteEntries
  BY <1>1, <1>2 DEF PrerequisiteEntries
<1>4. f.name = n /\ f.rdtype = t /\ f.deleting = c /\ TypesOf(f) = types
  <2>1. /\ f.name = e.name /\ f.rdtype = e.rdtype
        /\ f.deleting = IF e.rdclass = "IN" THEN "no" ELSE e.rdclass
        /\ TypesOf(f) = IF e.rdtype = "ANY" THEN UpdateTypes ELSE {e.rdtype}
    BY <1>3, SentPrerequisiteFields
  <2> HIDE DEF f
  <2>2. QED  BY <1>2, <2>1
<1>5. s \in Seq(PrerequisiteEntries) /\ f \in SentPrerequisites
      /\ \A g \in PrerequisiteEntries : SentAs(g) \in SentPrerequisites
  BY <1>3 DEF AsksFor, SentPrerequisites
<1>6. /\ SentBack(s) \in Seq(SentPrerequisites) /\ SentBack(Append(s, e)) = Append(SentBack(s), f)
      /\ Append(s, e) \in Seq(PrerequisiteEntries)
  <2>1. SentBack(s) \in Seq(SentPrerequisites) /\ SentBack(Append(s, e)) = Append(SentBack(s), SentAs(e))
    BY <1>3, <1>5, BackAppended
  <2>2. Append(s, e) \in Seq(PrerequisiteEntries)
    BY <1>3, <1>5, AppendProperties
  <2>3. QED  BY <2>1, <2>2
<1> HIDE DEF f, types
<1>7. Ask(f) = [kind |-> kind, name |-> n, types |-> types]
  BY <1>4 DEF Ask
<1> DEFINE b == SentBack(s)
           a == Append(b, f)
<1>8. b \in Seq(SentPrerequisites) /\ f.deleting # "no" /\ kind # "these"
  BY <1>4, <1>6
<1>9. /\ AsksOf(a) = AsksOf(b) \cup {Ask(f)}
      /\ Demands(es) = Demands(ds) \cup {[kind |-> kind, name |-> n, types |-> types]}
  <2> HIDE DEF b, kind
  <2>1. QED  BY <1>5, <1>8, AskedMore, DemandedMore
<1> HIDE DEF b, kind
<1>10. ASSUME NEW m \in UpdateNames, NEW u \in UpdateTypes PROVE Given(a, m, u) = AllIn(es, m, {u})
  <2>1. Given(a, m, u) = Given(b, m, u) \cup GivenBy(f, m, u)
    BY <1>5, <1>8, GivenMore
  <2>2. GivenBy(f, m, u) = {}
    BY <1>8 DEF GivenBy
  <2>3. AllIn(es, m, {u}) = AllIn(ds, m, {u})
    <3> DEFINE v == {u}
               none == {}
    <3> HIDE DEF v, none
    <3>1. AllIn(ds \cup Demand(kind, n, types, none), m, v)
            = AllIn(ds, m, v) \cup (IF kind = "these" /\ n = m /\ types = v THEN none ELSE {})
      BY AllInMore
    <3>2. AllIn(ds \cup Demand(kind, n, types, none), m, v) = AllIn(ds, m, v)
      BY <1>8, <3>1
    <3>3. QED  BY <3>2 DEF v, none
  <2>4. Given(b, m, u) = AllIn(ds, m, {u})
    BY DEF AsksFor, b
  <2>5. QED  BY <2>1, <2>2, <2>3, <2>4
<1> HIDE DEF a, es
<1>11. AsksOf(a) = Demands(es)
  BY <1>7, <1>9 DEF AsksFor, b
<1>12. AsksFor(Append(s, e), es)
  BY <1>6, <1>10, <1>11 DEF AsksFor, a, b
<1>13. QED  BY <1>12 DEF e, es, kind, types

\* s is a section of prerequisites that asks what asks says, and gives the
\* records rs of one RRset besides those of ds.
AsksWith(s, asks, ds, n, t, rs) ==
    /\ s \in Seq(PrerequisiteEntries)
    /\ AsksOf(SentBack(s)) = asks
    /\ \A m \in UpdateNames, u \in UpdateTypes :
         Given(SentBack(s), m, u) = AllIn(ds, m, {u}) \cup (IF m = n /\ u = t THEN rs ELSE {})

TheseOf(n, t) == [kind |-> "these", name |-> n, types |-> {t}]

LEMMA AsksOneMore ==
  ASSUME NEW s, NEW asks, NEW ds, NEW n \in UpdateNames, NEW t \in UpdateTypes, NEW rs,
         AsksWith(s, asks, ds, n, t, rs), NEW d \in UpdateData
  PROVE  AsksWith(Append(s, Entry(n, "IN", t, "no", <<d>>)), asks \cup {TheseOf(n, t)}, ds, n, t,
                  rs \cup {[name |-> n, type |-> t, data |-> d]})
<1> DEFINE e == Entry(n, "IN", t, "no", <<d>>)
           f == SentAs(e)
           r == [name |-> n, type |-> t, data |-> d]
<1>0. t # "ANY"
  BY UpdateAssumption
<1>1. e \in SectionEntries /\ <<d>> # << >>
  BY EntryInSection, NoRecordOrOne
<1>2. e.name = n /\ e.rdclass = "IN" /\ e.rdtype = t /\ e.deleting = "no" /\ e.rds = <<d>>
  BY EntryFields
<1> HIDE DEF e
<1>3. e \in PrerequisiteEntries
  BY <1>0, <1>1, <1>2 DEF PrerequisiteEntries
<1>4. f.name = n /\ f.rdtype = t /\ f.deleting = "no" /\ f.rds = <<d>> /\ TypesOf(f) = {t}
  <2>1. /\ f.name = e.name /\ f.rdtype = e.rdtype /\ f.rds = e.rds
        /\ f.deleting = IF e.rdclass = "IN" THEN "no" ELSE e.rdclass
        /\ TypesOf(f) = IF e.rdtype = "ANY" THEN UpdateTypes ELSE {e.rdtype}
    BY <1>3, SentPrerequisiteFields
  <2> HIDE DEF f
  <2>2. QED  BY <1>0, <1>2, <2>1
<1>5. s \in Seq(PrerequisiteEntries) /\ f \in SentPrerequisites
      /\ \A g \in PrerequisiteEntries : SentAs(g) \in SentPrerequisites
  BY <1>3 DEF AsksWith, SentPrerequisites
<1>6. /\ SentBack(s) \in Seq(SentPrerequisites) /\ SentBack(Append(s, e)) = Append(SentBack(s), f)
      /\ Append(s, e) \in Seq(PrerequisiteEntries)
  <2>1. SentBack(s) \in Seq(SentPrerequisites) /\ SentBack(Append(s, e)) = Append(SentBack(s), SentAs(e))
    BY <1>3, <1>5, BackAppended
  <2>2. Append(s, e) \in Seq(PrerequisiteEntries)
    BY <1>3, <1>5, AppendProperties
  <2>3. QED  BY <2>1, <2>2
<1> HIDE DEF f
<1>7. Ask(f) = TheseOf(n, t)
  BY <1>4 DEF Ask, TheseOf
<1> DEFINE b == SentBack(s)
           a == Append(b, f)
<1>8. b \in Seq(SentPrerequisites)
  BY <1>6
<1>9. AsksOf(a) = AsksOf(b) \cup {Ask(f)}
  <2> HIDE DEF b
  <2>1. QED  BY <1>5, <1>8, AskedMore
<1> HIDE DEF b
<1>10. Of(n, t, <<d>>) = {r}
  BY OfOne
<1> HIDE DEF r
<1>11. ASSUME NEW m \in UpdateNames, NEW u \in UpdateTypes
       PROVE  Given(a, m, u) = AllIn(ds, m, {u}) \cup (IF m = n /\ u = t THEN rs \cup {r} ELSE {})
  <2>1. Given(a, m, u) = Given(b, m, u) \cup GivenBy(f, m, u)
    BY <1>5, <1>8, GivenMore
  <2>2. GivenBy(f, m, u) = IF m = n /\ u = t THEN {r} ELSE {}
    BY <1>4, <1>10 DEF GivenBy
  <2>3. Given(b, m, u) = AllIn(ds, m, {u}) \cup (IF m = n /\ u = t THEN rs ELSE {})
    BY DEF AsksWith, b
  <2>4. CASE m = n /\ u = t
    BY <2>1, <2>2, <2>3, <2>4
  <2>5. CASE ~(m = n /\ u = t)
    BY <2>1, <2>2, <2>3, <2>5
  <2>6. QED  BY <2>4, <2>5
<1> HIDE DEF a
<1>12. AsksOf(a) = asks \cup {TheseOf(n, t)}
  BY <1>7, <1>9 DEF AsksWith, b
<1>13. AsksWith(Append(s, e), asks \cup {TheseOf(n, t)}, ds, n, t, rs \cup {r})
  BY <1>6, <1>11, <1>12 DEF AsksWith, a, b
<1>14. QED  BY <1>13 DEF e, r

\* present(), with records.
LEMMA AsksForRecords ==
  ASSUME NEW s, NEW ds, AsksFor(s, ds), NEW n \in UpdateNames, NEW t \in UpdateTypes,
         NEW data \in Seq(UpdateData), Len(data) # 0
  PROVE  AsksFor(AddRRs(s, n, t, data, "no"), ds \cup Demand("these", n, {t}, Of(n, t, data)))
<1> DEFINE First(k) == FirstOf(n, t, data, k)
           Asks(k) == IF k = 0 THEN Demands(ds) ELSE Demands(ds) \cup {TheseOf(n, t)}
           New(d) == Entry(n, "IN", t, "no", <<d>>)
<1>1. t # "ANY" /\ Len(data) \in Nat /\ \A i \in 1..Len(data) : data[i] \in UpdateData
  BY UpdateAssumption, LenProperties, ElementOfSeq
<1>2. ASSUME NEW d \in UpdateData PROVE New(d) \in PrerequisiteEntries
  <2>1. New(d) \in SectionEntries /\ <<d>> # << >>
    BY EntryInSection, NoRecordOrOne
  <2>2. New(d).rdclass = "IN" /\ New(d).rdtype = t /\ New(d).deleting = "no" /\ New(d).rds = <<d>>
    BY EntryFields
  <2> HIDE DEF New
  <2>3. QED  BY <1>1, <2>1, <2>2 DEF PrerequisiteEntries
<1>3. PICK h : Adds(h, s, n, t, data, "no")
  <2>1. s \in Seq(PrerequisiteEntries)
    BY DEF AsksFor
  <2>2. QED  BY <1>2, <2>1, AddRRsRule
<1>4. /\ First(0) = {} /\ First(Len(data)) = Of(n, t, data)
      /\ \A k \in 1..Len(data) : First(k) = First(k - 1) \cup {[name |-> n, type |-> t, data |-> data[k]]}
  <2>1. FirstOnes(n, t, data)
    BY FirstFacts
  <2>2. QED  BY <2>1 DEF FirstOnes
<1> HIDE DEF First
<1> DEFINE N == {k \in Nat : k <= Len(data) => AsksWith(h[k], Asks(k), ds, n, t, First(k))}
<1>5. 0 \in N
  <2>1. h[0] = s /\ Asks(0) = Demands(ds)
    BY <1>3 DEF Adds
  <2>2. AsksWith(s, Demands(ds), ds, n, t, {})
    BY DEF AsksFor, AsksWith
  <2>3. QED  BY <1>4, <2>1, <2>2
<1>6. ASSUME NEW k \in N PROVE k + 1 \in N
  <2>1. SUFFICES ASSUME k + 1 <= Len(data) PROVE AsksWith(h[k + 1], Asks(k + 1), ds, n, t, First(k + 1))
    OBVIOUS
  <2> DEFINE i == k + 1
             d == data[i]
             r == [name |-> n, type |-> t, data |-> d]
  <2>2. i \in 1..Len(data) /\ i - 1 = k /\ i # 0 /\ AsksWith(h[k], Asks(k), ds, n, t, First(k))
    BY <1>1, <2>1
  <2> HIDE DEF i
  <2>3. d \in UpdateData /\ First(i) = First(k) \cup {r} /\ h[i] = Append(h[k], New(d))
    BY <1>1, <1>3, <1>4, <2>2 DEF Adds
  <2>4. Asks(i) = Asks(k) \cup {TheseOf(n, t)}
    BY <2>2
  <2> HIDE DEF Asks, d
  <2>5. AsksWith(Append(h[k], New(d)), Asks(k) \cup {TheseOf(n, t)}, ds, n, t, First(k) \cup {r})
    BY <2>2, <2>3, AsksOneMore
  <2> HIDE DEF r, New
  <2>6. QED  BY <2>3, <2>4, <2>5 DEF i
<1>7. N = Nat
  <2>1. N \in SUBSET Nat
    OBVIOUS
  <2> HIDE DEF N
  <2>2. QED  BY <1>5, <1>6, <2>1, SetInduction
<1> DEFINE a == AddRRs(s, n, t, data, "no")
           these == Of(n, t, data)
           types == {t}
           es == ds \cup Demand("these", n, types, these)
<1>8. AsksWith(a, Asks(Len(data)), ds, n, t, these)
  <2> HIDE DEF Asks
  <2>1. Len(data) \in N
    BY <1>1, <1>7
  <2>2. QED  BY <1>1, <1>3, <1>4, <2>1 DEF Adds
<1>9. Asks(Len(data)) = Demands(es)
  <2>1. Demands(es) = Demands(ds) \cup {[kind |-> "these", name |-> n, types |-> types]}
    <3> HIDE DEF types, these
    <3>1. QED  BY DemandedMore
  <2>2. QED  BY <2>1 DEF TheseOf
<1> HIDE DEF Asks
<1>10. ASSUME NEW m \in UpdateNames, NEW u \in UpdateTypes
       PROVE  AllIn(es, m, {u}) = AllIn(ds, m, {u}) \cup (IF m = n /\ u = t THEN these ELSE {})
  <2> DEFINE v == {u}
             kind == "these"
  <2>1. n = m /\ types = v <=> m = n /\ u = t
    OBVIOUS
  <2> HIDE DEF v, types, these, kind
  <2>2. AllIn(ds \cup Demand(kind, n, types, these), m, v)
          = AllIn(ds, m, v) \cup (IF kind = "these" /\ n = m /\ types = v THEN these ELSE {})
    BY AllInMore
  <2>3. kind = "these"
    BY DEF kind
  <2>4. AllIn(ds \cup Demand(kind, n, types, these), m, v)
          = AllIn(ds, m, v) \cup (IF m = n /\ u = t THEN these ELSE {})
    BY <2>1, <2>2, <2>3
  <2>5. QED  BY <2>3, <2>4 DEF v
<1> HIDE DEF a, es
<1> HIDE DEF these
<1>11. AsksFor(a, es)
  <2>1. a \in Seq(PrerequisiteEntries) /\ AsksOf(SentBack(a)) = Demands(es)
    BY <1>8, <1>9 DEF AsksWith
  <2>2. ASSUME NEW m \in UpdateNames, NEW u \in UpdateTypes
        PROVE  Given(SentBack(a), m, u) = AllIn(es, m, {u})
    <3>1. Given(SentBack(a), m, u) = AllIn(ds, m, {u}) \cup (IF m = n /\ u = t THEN these ELSE {})
      BY <1>8 DEF AsksWith
    <3>2. AllIn(es, m, {u}) = AllIn(ds, m, {u}) \cup (IF m = n /\ u = t THEN these ELSE {})
      BY <1>10
    <3>3. QED  BY <3>1, <3>2, Zenon
  <2>3. QED  BY <2>1, <2>2 DEF AsksFor
<1>12. QED  BY <1>11 DEF a, es, these

\* A prerequisite met by the zone, given the records demanded of an RRset.
AskMet(q, ds, contents) ==
    LET there == RecordsOf(contents, q.name, q.types)
    IN  CASE q.kind = "some"  -> there # {}
          [] q.kind = "none"  -> there = {}
          [] q.kind = "these" -> there = AllIn(ds, q.name, q.types)

LEMMA DemandedIsAsked ==
  ASSUME NEW contents
  PROVE  Demanded(contents) <=> \A q \in Demands(demands) : AskMet(q, demands, contents)
<1> DEFINE Of3(d) == [kind |-> d.kind, name |-> d.name, types |-> d.types]
           Here(d) == LET there == RecordsOf(contents, d.name, d.types)
                      IN  CASE d.kind = "some"  -> there # {}
                            [] d.kind = "none"  -> there = {}
                            [] d.kind = "these" -> there = AllOf(d.name, d.types)
<1>1. \A n, ts : AllOf(n, ts) = AllIn(demands, n, ts)
  BY DEF AllOf, AllIn
<1>2. ASSUME NEW d PROVE AskMet(Of3(d), demands, contents) <=> Here(d)
  <2>1. Of3(d).kind = d.kind /\ Of3(d).name = d.name /\ Of3(d).types = d.types
    OBVIOUS
  <2> HIDE DEF Of3
  <2>2. QED  BY <1>1, <2>1 DEF AskMet
<1>3. Demanded(contents) <=> \A d \in demands : Here(d)
  BY DEF Demanded
<1>4. Demands(demands) = {Of3(d) : d \in demands}
  BY DEF Demands
<1> HIDE DEF Of3, Here
<1>5. QED  BY <1>2, <1>3, <1>4

\* An entry of b as it arrives, and what it asks.
AsksItsOwn(b, e, ds, contents) ==
    LET there == RecordsOf(contents, e.name, TypesOf(e))
    IN  /\ e.deleting \in {"ANY", "NONE", "no"}
        /\ e.deleting = "ANY" => (AskMet(Ask(e), ds, contents) <=> there # {})
        /\ e.deleting = "NONE" => (AskMet(Ask(e), ds, contents) <=> there = {})
        /\ e.deleting = "no" => (AskMet(Ask(e), ds, contents) <=> there = Given(b, e.name, e.rdtype))

LEMMA EntryAsks ==
  ASSUME NEW s, NEW ds, AsksFor(s, ds), NEW contents, NEW i \in DOMAIN SentBack(s)
  PROVE  AsksItsOwn(SentBack(s), SentBack(s)[i], ds, contents)
<1> DEFINE b == SentBack(s)
           f == b[i]
           there == RecordsOf(contents, f.name, TypesOf(f))
<1>1. i \in DOMAIN s /\ s[i] \in PrerequisiteEntries /\ f = SentAs(s[i])
  <2>1. s \in Seq(PrerequisiteEntries) /\ DOMAIN SentBack(s) = DOMAIN s /\ f = SentAs(s[i])
    BY DEF AsksFor, SentBack
  <2>2. QED  BY <2>1, LenProperties, ElementOfSeq
<1> DEFINE e == s[i]
<1> HIDE DEF e
<1>2. /\ e.name \in UpdateNames /\ e.rdclass \in {"IN", "ANY", "NONE"} /\ e.rdtype \in UpdateTypes \cup {"ANY"}
      /\ e.rdclass = "IN" => e.rdtype # "ANY"
  BY <1>1 DEF e, PrerequisiteEntries, SectionEntries
<1>3. /\ f.name = e.name /\ f.rdtype = e.rdtype /\ f.rds = e.rds
      /\ f.deleting = IF e.rdclass = "IN" THEN "no" ELSE e.rdclass
      /\ TypesOf(f) = IF e.rdtype = "ANY" THEN UpdateTypes ELSE {e.rdtype}
  <2> DEFINE g == SentAs(e)
  <2>1. /\ g.name = e.name /\ g.rdtype = e.rdtype /\ g.rds = e.rds
        /\ g.deleting = IF e.rdclass = "IN" THEN "no" ELSE e.rdclass
        /\ TypesOf(g) = IF e.rdtype = "ANY" THEN UpdateTypes ELSE {e.rdtype}
    BY <1>1, SentPrerequisiteFields DEF e
  <2>2. f = g
    BY <1>1 DEF e
  <2> HIDE DEF f, g
  <2>3. QED  BY <2>1, <2>2
<1> HIDE DEF f
<1>4. /\ f.deleting \in {"ANY", "NONE", "no"} /\ f.name \in UpdateNames
      /\ f.deleting = "no" => f.rdtype \in UpdateTypes /\ TypesOf(f) = {f.rdtype}
  BY <1>2, <1>3
<1>5. /\ Ask(f).name = f.name /\ Ask(f).types = TypesOf(f)
      /\ Ask(f).kind = IF f.deleting = "ANY" THEN "some" ELSE IF f.deleting = "NONE" THEN "none" ELSE "these"
  BY DEF Ask
<1> HIDE DEF b
<1>6. f.deleting = "no" => Given(b, f.name, f.rdtype) = AllIn(ds, f.name, TypesOf(f))
  BY <1>4 DEF AsksFor, b
<1> DEFINE q == Ask(f)
<1>7. f.deleting = "ANY" => (AskMet(q, ds, contents) <=> there # {})
  <2>1. f.deleting = "ANY" => q.kind = "some" /\ q.name = f.name /\ q.types = TypesOf(f)
    BY <1>5
  <2> HIDE DEF q
  <2>2. QED  BY <2>1 DEF AskMet
<1>8. f.deleting = "NONE" => (AskMet(q, ds, contents) <=> there = {})
  <2>1. f.deleting = "NONE" => q.kind = "none" /\ q.name = f.name /\ q.types = TypesOf(f)
    BY <1>5
  <2> HIDE DEF q
  <2>2. QED  BY <2>1 DEF AskMet
<1>9. f.deleting = "no" => (AskMet(q, ds, contents) <=> there = Given(b, f.name, f.rdtype))
  <2>1. f.deleting = "no" => q.kind = "these" /\ q.name = f.name /\ q.types = TypesOf(f)
    BY <1>5
  <2> HIDE DEF q
  <2>2. QED  BY <1>6, <2>1 DEF AskMet
<1> HIDE DEF q
<1>10. AsksItsOwn(b, f, ds, contents)
  BY <1>4, <1>7, <1>8, <1>9 DEF AsksItsOwn, q
<1>11. QED  BY <1>10 DEF f, b

\* What the prerequisites ask of the zone is what the calls demand of it.
LEMMA MetAsDemanded ==
  ASSUME AsksFor(prerequisite, demands), NEW contents
  PROVE  Met(SentBack(prerequisite), contents) <=> Demanded(contents)
<1> DEFINE b == SentBack(prerequisite)
           Here(e) == LET there == RecordsOf(contents, e.name, TypesOf(e))
                      IN  CASE e.deleting = "ANY"  -> there # {}
                            [] e.deleting = "NONE" -> there = {}
                            [] e.deleting = "no"   -> there = Given(b, e.name, e.rdtype)
<1>1. Met(b, contents) <=> \A i \in DOMAIN b : Here(b[i])
  BY DEF Met
<1>2. ASSUME NEW i \in DOMAIN b PROVE Here(b[i]) <=> AskMet(Ask(b[i]), demands, contents)
  <2> DEFINE f == b[i]
             there == RecordsOf(contents, f.name, TypesOf(f))
             asked == AskMet(Ask(f), demands, contents)
  <2>0. AsksItsOwn(b, f, demands, contents)
    BY EntryAsks
  <2> HIDE DEF f, b
  <2>1. /\ f.deleting \in {"ANY", "NONE", "no"}
        /\ f.deleting = "ANY" => (asked <=> there # {})
        /\ f.deleting = "NONE" => (asked <=> there = {})
        /\ f.deleting = "no" => (asked <=> there = Given(b, f.name, f.rdtype))
    BY <2>0 DEF AsksItsOwn
  <2>2. /\ f.deleting = "ANY" => (Here(f) <=> there # {})
        /\ f.deleting = "NONE" => (Here(f) <=> there = {})
        /\ f.deleting = "no" => (Here(f) <=> there = Given(b, f.name, f.rdtype))
    OBVIOUS
  <2> HIDE DEF Here, asked, there
  <2>3. Here(f) <=> asked
    BY <2>1, <2>2
  <2>4. QED  BY <2>3 DEF f, asked
<1> HIDE DEF Here
<1>3. AsksOf(b) = Demands(demands) /\ AsksOf(b) = {Ask(b[i]) : i \in DOMAIN b}
  BY DEF AsksFor, AsksOf
<1> HIDE DEF b
<1>4. Met(b, contents) <=> \A q \in Demands(demands) : AskMet(q, demands, contents)
  BY <1>1, <1>2, <1>3
<1>5. QED  BY <1>4, DemandedIsAsked DEF b

\* The records of a call: all of some set, once each.
DataOfCalls == {SetToSeq(some) : some \in (SUBSET UpdateData) \ {{}}}

LEMMA DataFacts ==
  ASSUME NEW data \in DataOfCalls
  PROVE  data \in Seq(UpdateData) /\ Len(data) # 0
<1>1. PICK some \in (SUBSET UpdateData) \ {{}} : data = SetToSeq(some)
  BY DEF DataOfCalls
<1> DEFINE n == Cardinality(some)
<1>2. IsFiniteSet(some)
  BY <1>1, UpdateAssumption, FS_Subset
<1>3. n \in Nat /\ ExistsBijection(1..n, some) /\ n # 0
  BY <1>1, <1>2, FS_CardinalityType, FS_EmptySet
<1>4. \E f \in [1..n -> some] : IsInjective(f)
  BY <1>3 DEF ExistsBijection, Bijection, Injection
<1>5. data \in [1..n -> some]
  BY <1>1, <1>4 DEF SetToSeq
<1> HIDE DEF n
<1>6. data \in [1..n -> UpdateData]
  BY <1>1, <1>5
<1>7. data \in Seq(UpdateData) /\ Len(data) = n
  BY <1>3, <1>6
<1>8. QED  BY <1>3, <1>7

\* The sections make of the zone, and ask of it, what the calls do; what
\* arrives is what was sent.
ArrivedAs(a, p, u) == a.is => ~a.error /\ a.prerequisite = SentBack(p) /\ a.update = SentBack(u)
UpdateInv ==
    /\ UpdateMakes(update, zoneAfter)
    /\ AsksFor(prerequisite, demands)
    /\ ArrivedAs(arrived, prerequisite, update)

LEMMA UpdateStarts == UpdateInit => UpdateInv
<1> SUFFICES ASSUME UpdateInit PROVE UpdateInv
  OBVIOUS
<1>1. /\ prerequisite = << >> /\ update = << >> /\ zoneAfter = ZoneBefore
      /\ demands = {} /\ arrived = NotArrived
  BY DEF UpdateInit
<1>2. DOMAIN << >> = {} /\ << >> \in Seq(UpdateEntries) /\ << >> \in Seq(PrerequisiteEntries)
  BY EmptySeq
<1>3. SentBack(<< >>) = << >>
  <2> DEFINE b == SentBack(<< >>)
             F(i) == SentAs(<< >>[i])
  <2>0. 1..0 = {} /\ 0 \in Nat
    OBVIOUS
  <2>1. b = [i \in 1..0 |-> F(i)]
    BY <1>2, <2>0 DEF SentBack
  <2> HIDE DEF b, F
  <2>2. b \in [1..0 -> PrerequisiteEntries]
    BY <2>0, <2>1
  <2>3. b \in Seq(PrerequisiteEntries) /\ Len(b) = 0
    BY <2>0, <2>2
  <2>4. QED  BY <2>3, EmptySeq DEF b
<1>4. UpdateMakes(<< >>, ZoneBefore)
  BY <1>2, <1>3, ResultOfNothing DEF UpdateMakes
<1>5. AsksFor(<< >>, {})
  <2>1. AsksOf(<< >>) = {} /\ Demands({}) = {}
    BY <1>2 DEF AsksOf, Demands
  <2>2. \A n, t : Given(<< >>, n, t) = {} /\ AllIn({}, n, {t}) = {}
    BY <1>2 DEF Given, AllIn
  <2>3. QED  BY <1>2, <1>3, <2>1, <2>2 DEF AsksFor
<1>6. ~NotArrived.is
  BY DEF NotArrived
<1>7. QED  BY <1>1, <1>4, <1>5, <1>6 DEF UpdateInv, ArrivedAs

\* A call that changes the zone.
LEMMA ChangeKeepsUpdate ==
  ASSUME UpdateInv, NEW written, NEW contents, Changes(written, contents), UpdateMakes(written, contents)
  PROVE  UpdateInv'
<1>1. /\ ~arrived.is /\ arrived' = arrived /\ update' = written /\ zoneAfter' = contents
      /\ prerequisite' = prerequisite /\ demands' = demands
  BY DEF Changes, Call
<1>2. UpdateMakes(update', zoneAfter') /\ AsksFor(prerequisite', demands')
  BY <1>1 DEF UpdateInv
<1>3. QED  BY <1>1, <1>2 DEF UpdateInv, ArrivedAs

\* A call that adds a prerequisite.
LEMMA RequirementKeepsUpdate ==
  ASSUME UpdateInv, NEW written, NEW demand, Requires(written, demand), AsksFor(written, demands \cup demand)
  PROVE  UpdateInv'
<1>1. /\ ~arrived.is /\ arrived' = arrived /\ prerequisite' = written /\ demands' = demands \cup demand
      /\ update' = update /\ zoneAfter' = zoneAfter
  BY DEF Requires, Call
<1>2. UpdateMakes(update', zoneAfter') /\ AsksFor(prerequisite', demands')
  BY <1>1 DEF UpdateInv
<1>3. QED  BY <1>1, <1>2 DEF UpdateInv, ArrivedAs

LEMMA AddKeepsUpdate ==
  ASSUME UpdateInv, NEW n \in UpdateNames, NEW t \in UpdateTypes, NEW data \in Seq(UpdateData), Add(n, t, data)
  PROVE  UpdateInv'
<1> DEFINE written == AddRRs(update, n, t, data, "no")
           contents == zoneAfter \cup Of(n, t, data)
<1>1. UpdateMakes(written, contents)
  <2>1. UpdateMakes(update, zoneAfter) /\ "no" \in {"no", "NONE"}
    BY DEF UpdateInv
  <2>2. UpdateMakes(AddRRs(update, n, t, data, "no"),
                    IF "no" = "no" THEN zoneAfter \cup Of(n, t, data) ELSE zoneAfter \ Of(n, t, data))
    BY <2>1, ChangesRecords
  <2>3. QED  BY <2>2
<1>2. Changes(written, contents)
  BY DEF Add
<1> HIDE DEF written, contents
<1>3. QED  BY <1>1, <1>2, ChangeKeepsUpdate

LEMMA ReplaceKeepsUpdate ==
  ASSUME UpdateInv, NEW n \in UpdateNames, NEW t \in UpdateTypes, NEW data \in Seq(UpdateData), Replace(n, t, data)
  PROVE  UpdateInv'
<1> DEFINE s == DeleteType(update, n, t)
           z == zoneAfter \ RecordsOf(zoneAfter, n, {t})
           written == AddRRs(s, n, t, data, "no")
           contents == z \cup Of(n, t, data)
<1>1. UpdateMakes(s, z)
  <2>1. UpdateMakes(update, zoneAfter)
    BY DEF UpdateInv
  <2>2. UpdateMakes(Append(update, Entry(n, "IN", t, "ANY", << >>)), z)
    BY <2>1, DeletesTypes
  <2>3. QED  BY <2>2 DEF DeleteType, UniqueRRset
<1>2. Changes(written, contents)
  BY DEF Replace
<1> HIDE DEF s, z
<1>3. UpdateMakes(written, contents)
  <2>1. "no" \in {"no", "NONE"}
    OBVIOUS
  <2>2. UpdateMakes(AddRRs(s, n, t, data, "no"),
                    IF "no" = "no" THEN z \cup Of(n, t, data) ELSE z \ Of(n, t, data))
    BY <1>1, <2>1, ChangesRecords
  <2>3. QED  BY <2>2
<1> HIDE DEF written, contents
<1>4. QED  BY <1>2, <1>3, ChangeKeepsUpdate

LEMMA DeleteKeepsUpdate ==
  ASSUME UpdateInv, NEW n \in UpdateNames, NEW t \in UpdateTypes, NEW data \in Seq(UpdateData), Delete(n, t, data)
  PROVE  UpdateInv'
<1>0. UpdateMakes(update, zoneAfter)
  BY DEF UpdateInv
<1>1. CASE Changes(UniqueRRset(update, Entry(n, "ANY", "ANY", "ANY", << >>)),
                   zoneAfter \ RecordsOf(zoneAfter, n, UpdateTypes))
  <2> DEFINE written == UniqueRRset(update, Entry(n, "ANY", "ANY", "ANY", << >>))
             contents == zoneAfter \ RecordsOf(zoneAfter, n, UpdateTypes)
  <2>1. UpdateMakes(written, contents)
    BY <1>0, DeletesTypes DEF UniqueRRset
  <2>2. Changes(written, contents)
    BY <1>1
  <2> HIDE DEF written, contents
  <2>3. QED  BY <2>1, <2>2, ChangeKeepsUpdate
<1>2. CASE Changes(DeleteType(update, n, t), zoneAfter \ RecordsOf(zoneAfter, n, {t}))
  <2> DEFINE written == DeleteType(update, n, t)
             contents == zoneAfter \ RecordsOf(zoneAfter, n, {t})
  <2>1. UpdateMakes(written, contents)
    BY <1>0, DeletesTypes DEF DeleteType, UniqueRRset
  <2>2. Changes(written, contents)
    BY <1>2
  <2> HIDE DEF written, contents
  <2>3. QED  BY <2>1, <2>2, ChangeKeepsUpdate
<1>3. CASE Changes(AddRRs(update, n, t, data, "NONE"), zoneAfter \ Of(n, t, data))
  <2> DEFINE written == AddRRs(update, n, t, data, "NONE")
             contents == zoneAfter \ Of(n, t, data)
  <2>1. UpdateMakes(written, contents)
    <3>1. "NONE" \in {"no", "NONE"}
      OBVIOUS
    <3>2. UpdateMakes(AddRRs(update, n, t, data, "NONE"),
                      IF "NONE" = "no" THEN zoneAfter \cup Of(n, t, data) ELSE zoneAfter \ Of(n, t, data))
      BY <1>0, <3>1, ChangesRecords
    <3>3. QED  BY <3>2
  <2>2. Changes(written, contents)
    BY <1>3
  <2> HIDE DEF written, contents
  <2>3. QED  BY <2>1, <2>2, ChangeKeepsUpdate
<1>4. QED  BY <1>1, <1>2, <1>3 DEF Delete

\* present() and absent() with a name or one of its types.
LEMMA TypesKeepUpdate ==
  ASSUME UpdateInv, NEW n \in UpdateNames, NEW t \in UpdateTypes \cup {"ANY"}, NEW c \in {"ANY", "NONE"},
         Requires(UniqueRRset(prerequisite, Entry(n, c, t, "no", << >>)),
                  Demand(IF c = "ANY" THEN "some" ELSE "none", n, IF t = "ANY" THEN UpdateTypes ELSE {t}, {}))
  PROVE  UpdateInv'
<1> DEFINE written == UniqueRRset(prerequisite, Entry(n, c, t, "no", << >>))
           demand == Demand(IF c = "ANY" THEN "some" ELSE "none", n, IF t = "ANY" THEN UpdateTypes ELSE {t}, {})
<1>1. AsksFor(prerequisite, demands)
  BY DEF UpdateInv
<1>2. AsksFor(written, demands \cup demand)
  <2>1. AsksFor(Append(prerequisite, Entry(n, c, t, "no", << >>)),
                demands \cup Demand(IF c = "ANY" THEN "some" ELSE "none", n,
                                    IF t = "ANY" THEN UpdateTypes ELSE {t}, {}))
    BY <1>1, AsksForTypes
  <2>2. QED  BY <2>1 DEF UniqueRRset
<1>3. Requires(written, demand)
  OBVIOUS
<1> HIDE DEF written, demand
<1>4. QED  BY <1>2, <1>3, RequirementKeepsUpdate

LEMMA AbsentKeepsUpdate ==
  ASSUME UpdateInv, NEW n \in UpdateNames, NEW t \in UpdateTypes, Absent(n, t)
  PROVE  UpdateInv'
<1>1. t # "ANY" /\ t \in UpdateTypes \cup {"ANY"} /\ "ANY" \in UpdateTypes \cup {"ANY"} /\ "NONE" \in {"ANY", "NONE"}
  BY UpdateAssumption
<1>2. CASE Requires(UniqueRRset(prerequisite, Entry(n, "NONE", "ANY", "no", << >>)),
                    Demand("none", n, UpdateTypes, {}))
  <2>1. Requires(UniqueRRset(prerequisite, Entry(n, "NONE", "ANY", "no", << >>)),
                 Demand(IF "NONE" = "ANY" THEN "some" ELSE "none", n,
                        IF "ANY" = "ANY" THEN UpdateTypes ELSE {"ANY"}, {}))
    BY <1>2
  <2>2. QED  BY <1>1, <2>1, TypesKeepUpdate
<1>3. CASE Requires(UniqueRRset(prerequisite, Entry(n, "NONE", t, "no", << >>)), Demand("none", n, {t}, {}))
  <2>1. Requires(UniqueRRset(prerequisite, Entry(n, "NONE", t, "no", << >>)),
                 Demand(IF "NONE" = "ANY" THEN "some" ELSE "none", n, IF t = "ANY" THEN UpdateTypes ELSE {t}, {}))
    BY <1>1, <1>3
  <2>2. QED  BY <1>1, <2>1, TypesKeepUpdate
<1>4. QED  BY <1>2, <1>3 DEF Absent

LEMMA PresentKeepsUpdate ==
  ASSUME UpdateInv, NEW n \in UpdateNames, NEW t \in UpdateTypes,
         NEW data \in Seq(UpdateData), Len(data) # 0, Present(n, t, data)
  PROVE  UpdateInv'
<1>1. t # "ANY" /\ t \in UpdateTypes \cup {"ANY"} /\ "ANY" \in UpdateTypes \cup {"ANY"} /\ "ANY" \in {"ANY", "NONE"}
  BY UpdateAssumption
<1>2. CASE Requires(UniqueRRset(prerequisite, Entry(n, "ANY", "ANY", "no", << >>)),
                    Demand("some", n, UpdateTypes, {}))
  <2>1. Requires(UniqueRRset(prerequisite, Entry(n, "ANY", "ANY", "no", << >>)),
                 Demand(IF "ANY" = "ANY" THEN "some" ELSE "none", n,
                        IF "ANY" = "ANY" THEN UpdateTypes ELSE {"ANY"}, {}))
    BY <1>2
  <2>2. QED  BY <1>1, <2>1, TypesKeepUpdate
<1>3. CASE Requires(UniqueRRset(prerequisite, Entry(n, "ANY", t, "no", << >>)), Demand("some", n, {t}, {}))
  <2>1. Requires(UniqueRRset(prerequisite, Entry(n, "ANY", t, "no", << >>)),
                 Demand(IF "ANY" = "ANY" THEN "some" ELSE "none", n, IF t = "ANY" THEN UpdateTypes ELSE {t}, {}))
    BY <1>1, <1>3
  <2>2. QED  BY <1>1, <2>1, TypesKeepUpdate
<1>4. CASE Requires(AddRRs(prerequisite, n, t, data, "no"), Demand("these", n, {t}, Of(n, t, data)))
  <2> DEFINE written == AddRRs(prerequisite, n, t, data, "no")
             demand == Demand("these", n, {t}, Of(n, t, data))
  <2>1. AsksFor(prerequisite, demands)
    BY DEF UpdateInv
  <2>2. AsksFor(written, demands \cup demand)
    BY <2>1, AsksForRecords
  <2>3. Requires(written, demand)
    BY <1>4
  <2> HIDE DEF written, demand
  <2>4. QED  BY <2>2, <2>3, RequirementKeepsUpdate
<1>5. QED  BY <1>2, <1>3, <1>4 DEF Present

LEMMA SendKeepsUpdate ==
  ASSUME UpdateInv, Send
  PROVE  UpdateInv'
<1> DEFINE p == ReadBack(Written(prerequisite))
           u == ReadBack(Written(update))
<1>1. /\ UpdateMakes(update, zoneAfter) /\ AsksFor(prerequisite, demands)
      /\ update \in Seq(UpdateEntries) /\ prerequisite \in Seq(PrerequisiteEntries)
  BY DEF UpdateInv, UpdateMakes, AsksFor
<1>2. ~FormError(Written(update), "update") /\ ~FormError(Written(prerequisite), "prerequisite")
  BY <1>1, NoFormError
<1>3. p = SentBack(prerequisite) /\ u = SentBack(update)
  <2>1. UpdateEntries \subseteq SectionEntries /\ PrerequisiteEntries \subseteq SectionEntries
    BY DEF UpdateEntries, PrerequisiteEntries
  <2>2. update \in Seq(SectionEntries) /\ prerequisite \in Seq(SectionEntries)
    BY <1>1, <2>1, SeqDef
  <2>3. QED  BY <2>2, SectionComesBack
<1>4. /\ update' = update /\ prerequisite' = prerequisite /\ zoneAfter' = zoneAfter /\ demands' = demands
  BY DEF Send
<1>5. ~arrived'.error /\ arrived'.prerequisite = p /\ arrived'.update = u
  <2> DEFINE written == [prerequisite |-> Written(prerequisite), update |-> Written(update)]
             error == \E which \in DOMAIN written : FormError(written[which], which)
  <2>1. arrived' = [error |-> error, prerequisite |-> ReadBack(written.prerequisite),
                    update |-> ReadBack(written.update), is |-> TRUE]
    BY DEF Send
  <2>2. /\ DOMAIN written = {"prerequisite", "update"}
        /\ written["prerequisite"] = Written(prerequisite) /\ written["update"] = Written(update)
        /\ written.prerequisite = Written(prerequisite) /\ written.update = Written(update)
    OBVIOUS
  <2> HIDE DEF written
  <2>3. ~error
    BY <1>2, <2>2
  <2> HIDE DEF error
  <2>4. arrived'.error = error /\ arrived'.prerequisite = ReadBack(written.prerequisite)
        /\ arrived'.update = ReadBack(written.update)
    BY <2>1
  <2>5. QED  BY <2>2, <2>3, <2>4
<1>6. ArrivedAs(arrived', prerequisite', update')
  BY <1>3, <1>4, <1>5 DEF ArrivedAs
<1>7. QED  BY <1>1, <1>4, <1>6 DEF UpdateInv

LEMMA UpdateGoesOn == UpdateInv /\ [UpdateNext]_updateVars => UpdateInv'
<1> SUFFICES ASSUME UpdateInv, [UpdateNext]_updateVars PROVE UpdateInv'
  OBVIOUS
<1>1. ASSUME NEW n \in UpdateNames, NEW t \in UpdateTypes, Absent(n, t) PROVE UpdateInv'
  BY <1>1, AbsentKeepsUpdate
<1>2. ASSUME NEW n \in UpdateNames, NEW t \in UpdateTypes, NEW data \in DataOfCalls,
             Add(n, t, data) \/ Replace(n, t, data) \/ Delete(n, t, data) \/ Present(n, t, data)
      PROVE  UpdateInv'
  <2>1. data \in Seq(UpdateData) /\ Len(data) # 0
    BY DataFacts
  <2>2. CASE Add(n, t, data)
    BY <2>1, <2>2, AddKeepsUpdate
  <2>3. CASE Replace(n, t, data)
    BY <2>1, <2>3, ReplaceKeepsUpdate
  <2>4. CASE Delete(n, t, data)
    BY <2>1, <2>4, DeleteKeepsUpdate
  <2>5. CASE Present(n, t, data)
    BY <2>1, <2>5, PresentKeepsUpdate
  <2>6. QED  BY <1>2, <2>2, <2>3, <2>4, <2>5
<1>3. CASE Send
  BY <1>3, SendKeepsUpdate
<1>4. CASE UNCHANGED updateVars
  BY <1>4 DEF updateVars, UpdateInv, ArrivedAs, UpdateMakes, AsksFor
<1>5. QED  BY <1>1, <1>2, <1>3, <1>4 DEF UpdateNext, DataOfCalls

LEMMA UpdateInvMeans == UpdateInv => UpdateMeansItsCalls
<1> SUFFICES ASSUME UpdateInv, arrived.is PROVE UpdateMeansItsCalls
  BY DEF UpdateMeansItsCalls
<1>1. ~arrived.error /\ arrived.prerequisite = SentBack(prerequisite) /\ arrived.update = SentBack(update)
  BY DEF UpdateInv, ArrivedAs
<1>2. FoldLeft(Applied, ZoneBefore, arrived.update) = zoneAfter
  BY <1>1 DEF UpdateInv, UpdateMakes, Result
<1>3. Met(arrived.prerequisite, ZoneBefore) <=> Demanded(ZoneBefore)
  <2>1. AsksFor(prerequisite, demands)
    BY DEF UpdateInv
  <2>2. Met(SentBack(prerequisite), ZoneBefore) <=> Demanded(ZoneBefore)
    BY <2>1, MetAsDemanded
  <2>3. QED  BY <1>1, <2>2
<1>4. QED  BY <1>1, <1>2, <1>3 DEF UpdateMeansItsCalls

\* A message that add(), replace(), delete(), present() and absent() filled, in
\* any order, any number of times and with any records, and that went over the
\* wire, makes of the server's zone what the calls make of it, and is refused
\* exactly when one of the demands is not met.
THEOREM UpdateIsItsCalls == UpdateSpec => []UpdateMeansItsCalls
<1>1. UpdateSpec => []UpdateInv
  BY UpdateStarts, UpdateGoesOn, PTL DEF UpdateSpec
<1>2. QED  BY <1>1, UpdateInvMeans, PTL

-----------------------------------------------------------------------------
(* ZoneLookup.  A chain of aliases is a trail over the names, which stays   *)
(* where it comes to a name that is none; what a name is under are its      *)
(* suffixes.                                                                *)

\* A function that is applied over and over.
Repeats(f, X, a, g, n) ==
    f \in [0..n -> X] /\ f[0] = a /\ \A k \in 1..n : f[k] = g[f[k - 1]]

LEMMA RepeatExists ==
  ASSUME NEW X, NEW a \in X, NEW g \in [X -> X], NEW n \in Nat
  PROVE  \E f : Repeats(f, X, a, g, n)
<1> DEFINE N == {m \in Nat : \E f : Repeats(f, X, a, g, m)}
<1>1. 0 \in N
  <2> DEFINE f == [k \in 0..0 |-> a]
  <2>1. f \in [0..0 -> X] /\ f[0] = a /\ 1..0 = {}
    OBVIOUS
  <2> HIDE DEF f
  <2>2. Repeats(f, X, a, g, 0)
    BY <2>1 DEF Repeats
  <2>3. QED  BY <2>2
<1>2. ASSUME NEW m \in N PROVE m + 1 \in N
  <2>1. PICK f : Repeats(f, X, a, g, m)
    OBVIOUS
  <2>2. m \in Nat /\ f \in [0..m -> X] /\ f[0] = a /\ \A k \in 1..m : f[k] = g[f[k - 1]]
    BY <2>1 DEF Repeats
  <2> DEFINE h == [k \in 0..(m + 1) |-> IF k = m + 1 THEN g[f[m]] ELSE f[k]]
  <2>3. h \in [0..(m + 1) -> X]
    <3>1. ASSUME NEW k \in 0..(m + 1) PROVE (IF k = m + 1 THEN g[f[m]] ELSE f[k]) \in X
      <4>1. f[m] \in X /\ (k # m + 1 => k \in 0..m)
        BY <2>2
      <4>2. QED  BY <2>2, <4>1
    <3>2. QED  BY <3>1
  <2>4. h[0] = a
    BY <2>2
  <2>5. ASSUME NEW k \in 1..(m + 1) PROVE h[k] = g[h[k - 1]]
    <3>1. k \in 0..(m + 1) /\ k - 1 \in 0..(m + 1) /\ k - 1 # m + 1
      BY <2>2
    <3>2. h[k - 1] = f[k - 1] /\ h[k] = IF k = m + 1 THEN g[f[m]] ELSE f[k]
      BY <3>1
    <3> HIDE DEF h
    <3>3. CASE k = m + 1
      <4>1. k - 1 = m
        BY <2>2, <3>3
      <4>2. QED  BY <3>2, <3>3, <4>1
    <3>4. CASE k # m + 1
      <4>1. k \in 1..m
        BY <2>2, <3>4
      <4>2. QED  BY <2>2, <3>2, <3>4, <4>1
    <3>5. QED  BY <3>3, <3>4
  <2> HIDE DEF h
  <2>6. Repeats(h, X, a, g, m + 1)
    BY <2>3, <2>4, <2>5 DEF Repeats
  <2>7. QED  BY <2>2, <2>6
<1>3. N = Nat
  <2>1. N \in SUBSET Nat
    OBVIOUS
  <2> HIDE DEF N
  <2>2. QED  BY <1>1, <1>2, <2>1, SetInduction
<1>4. QED  BY <1>3

\* Names, and what they are under.
NameLabels == UNION {Range(n) : n \in DomainNames}

LEMMA DomainNameFacts ==
  ASSUME NEW n \in DomainNames
  PROVE  /\ n \in Seq(NameLabels) /\ Len(n) \in Nat
         /\ n # << >> => /\ Tail(n) \in DomainNames /\ Len(n) # 0 /\ Len(Tail(n)) = Len(n) - 1
                         /\ \A i \in 1..(Len(n) - 1) : Tail(n)[i] = n[i + 1]
<1>1. n \in Seq(NameLabels)
  BY LookupAssumption DEF NameLabels
<1>2. Len(n) \in Nat
  BY <1>1, LenProperties
<1>3. n # << >> => /\ Tail(n) \in DomainNames /\ Len(n) # 0 /\ Len(Tail(n)) = Len(n) - 1
                   /\ \A i \in 1..(Len(n) - 1) : Tail(n)[i] = n[i + 1]
  BY <1>1, TailFacts, LookupAssumption
<1>4. QED  BY <1>1, <1>2, <1>3

LEMMA EnclosesMeans ==
  ASSUME NEW s \in DomainNames, NEW t \in DomainNames
  PROVE  Encloses(s, t) <=> /\ Len(s) <= Len(t)
                            /\ \A j \in 0..(Len(s) - 1) : s[Len(s) - j] = t[Len(t) - j]
<1>1. s \in Seq(NameLabels) /\ t \in Seq(NameLabels) /\ Len(s) \in Nat /\ Len(t) \in Nat
  BY DomainNameFacts
<1> DEFINE r == Reverse(s)
           q == Reverse(t)
<1>2. /\ r \in Seq(NameLabels) /\ Len(r) = Len(s) /\ \A j \in 0..(Len(s) - 1) : r[j + 1] = s[Len(s) - j]
      /\ q \in Seq(NameLabels) /\ Len(q) = Len(t) /\ \A j \in 0..(Len(t) - 1) : q[j + 1] = t[Len(t) - j]
  BY <1>1, ReverseFacts
<1>3. Encloses(s, t) <=> IsPrefix(r, q)
  BY DEF Encloses, IsSuffix
<1> HIDE DEF r, q
<1>4. IsPrefix(r, q) <=> Len(r) <= Len(q) /\ \A i \in 1..Len(r) : r[i] = q[i]
  BY <1>2, PrefixMeans
<1>5. SUFFICES ASSUME Len(s) <= Len(t)
      PROVE  (\A i \in 1..Len(s) : r[i] = q[i]) <=> \A j \in 0..(Len(s) - 1) : s[Len(s) - j] = t[Len(t) - j]
  BY <1>2, <1>3, <1>4
<1>6. ASSUME \A i \in 1..Len(s) : r[i] = q[i], NEW j \in 0..(Len(s) - 1) PROVE s[Len(s) - j] = t[Len(t) - j]
  <2>1. j + 1 \in 1..Len(s) /\ j \in 0..(Len(t) - 1)
    BY <1>1, <1>5
  <2>2. QED  BY <1>2, <1>6, <2>1
<1>7. ASSUME \A j \in 0..(Len(s) - 1) : s[Len(s) - j] = t[Len(t) - j], NEW i \in 1..Len(s) PROVE r[i] = q[i]
  <2> DEFINE j == i - 1
  <2>1. j \in 0..(Len(s) - 1) /\ j \in 0..(Len(t) - 1) /\ j + 1 = i
    BY <1>1, <1>5
  <2> HIDE DEF j
  <2>2. r[j + 1] = q[j + 1]
    BY <1>2, <1>7, <2>1
  <2>3. QED  BY <2>1, <2>2
<1>8. QED  BY <1>6, <1>7

LEMMA EnclosesFacts ==
  /\ \A n \in DomainNames : Encloses(n, n) /\ Encloses(<< >>, n)
  /\ \A a, b, c \in DomainNames : Encloses(a, b) /\ Encloses(b, c) => Encloses(a, c)
  /\ \A a, b, n \in DomainNames : Encloses(a, n) /\ Encloses(b, n) /\ Len(a) = Len(b) => a = b
<1>1. ASSUME NEW n \in DomainNames PROVE Encloses(n, n) /\ Encloses(<< >>, n)
  <2>1. Len(n) \in Nat /\ << >> \in DomainNames /\ Len(<< >>) = 0
    BY DomainNameFacts, LookupAssumption, EmptySeq
  <2>2. 0..(0 - 1) = {}
    OBVIOUS
  <2>3. Encloses(n, n)
    BY <2>1, EnclosesMeans
  <2>4. Encloses(<< >>, n)
    BY <2>1, <2>2, EnclosesMeans
  <2>5. QED  BY <2>3, <2>4
<1>2. ASSUME NEW a \in DomainNames, NEW b \in DomainNames, NEW c \in DomainNames, Encloses(a, b), Encloses(b, c)
      PROVE  Encloses(a, c)
  <2>1. Len(a) \in Nat /\ Len(b) \in Nat /\ Len(c) \in Nat
    BY DomainNameFacts
  <2>2. Len(a) <= Len(b) /\ \A j \in 0..(Len(a) - 1) : a[Len(a) - j] = b[Len(b) - j]
    BY <1>2, EnclosesMeans
  <2>3. Len(b) <= Len(c) /\ \A j \in 0..(Len(b) - 1) : b[Len(b) - j] = c[Len(c) - j]
    BY <1>2, EnclosesMeans
  <2>4. ASSUME NEW j \in 0..(Len(a) - 1) PROVE a[Len(a) - j] = c[Len(c) - j]
    <3>1. j \in 0..(Len(b) - 1)
      BY <2>1, <2>2
    <3>2. QED  BY <2>2, <2>3, <3>1
  <2>5. Len(a) <= Len(c)
    BY <2>1, <2>2, <2>3
  <2>6. QED  BY <2>4, <2>5, EnclosesMeans
<1>3. ASSUME NEW a \in DomainNames, NEW b \in DomainNames, NEW n \in DomainNames,
             Encloses(a, n), Encloses(b, n), Len(a) = Len(b)
      PROVE  a = b
  <2>1. a \in Seq(NameLabels) /\ b \in Seq(NameLabels) /\ Len(a) \in Nat
    BY DomainNameFacts
  <2>2. /\ \A j \in 0..(Len(a) - 1) : a[Len(a) - j] = n[Len(n) - j]
        /\ \A j \in 0..(Len(b) - 1) : b[Len(b) - j] = n[Len(n) - j]
    BY <1>3, EnclosesMeans
  <2>3. ASSUME NEW i \in 1..Len(a) PROVE a[i] = b[i]
    <3> DEFINE j == Len(a) - i
    <3>1. j \in 0..(Len(a) - 1) /\ Len(a) - j = i
      BY <2>1
    <3> HIDE DEF j
    <3>2. a[Len(a) - j] = b[Len(b) - j]
      BY <1>3, <2>2, <3>1
    <3>3. QED  BY <1>3, <3>1, <3>2
  <2>4. QED  BY <1>3, <2>1, <2>3, SeqEqual
<1>4. QED  BY <1>1, <1>2, <1>3

\* What encloses a name is the name, or encloses its parent.
LEMMA EnclosesParent ==
  ASSUME NEW n \in DomainNames, n # << >>
  PROVE  /\ Encloses(Tail(n), n)
         /\ \A z \in DomainNames : Encloses(z, n) /\ z # n => Encloses(z, Tail(n))
<1> DEFINE t == Tail(n)
<1>1. /\ n \in Seq(NameLabels) /\ Len(n) \in Nat /\ Len(n) # 0
      /\ t \in DomainNames /\ Len(t) = Len(n) - 1
      /\ \A i \in 1..(Len(n) - 1) : t[i] = n[i + 1]
  BY DomainNameFacts
<1> HIDE DEF t
<1>2. ASSUME NEW j \in 0..(Len(t) - 1) PROVE t[Len(t) - j] = n[Len(n) - j]
  <2> DEFINE i == Len(t) - j
  <2>1. i \in 1..(Len(n) - 1) /\ i + 1 = Len(n) - j
    BY <1>1
  <2> HIDE DEF i
  <2>2. t[i] = n[i + 1]
    BY <1>1, <2>1
  <2>3. QED  BY <2>1, <2>2 DEF i
<1>3. Encloses(t, n)
  <2>1. Len(t) <= Len(n)
    BY <1>1
  <2>2. QED  BY <1>1, <1>2, <2>1, EnclosesMeans
<1>4. ASSUME NEW z \in DomainNames, Encloses(z, n), z # n PROVE Encloses(z, t)
  <2>1. Len(z) \in Nat /\ Len(z) <= Len(n) /\ \A j \in 0..(Len(z) - 1) : z[Len(z) - j] = n[Len(n) - j]
    BY <1>4, DomainNameFacts, EnclosesMeans
  <2>2. Len(z) # Len(n)
    BY <1>4, EnclosesFacts
  <2>3. Len(z) <= Len(t)
    BY <1>1, <2>1, <2>2
  <2>4. ASSUME NEW j \in 0..(Len(z) - 1) PROVE z[Len(z) - j] = t[Len(t) - j]
    <3>1. j \in 0..(Len(t) - 1)
      BY <1>1, <2>1, <2>3
    <3>2. QED  BY <1>2, <2>1, <3>1
  <2>5. QED  BY <1>1, <2>3, <2>4, EnclosesMeans
<1>5. QED  BY <1>3, <1>4 DEF t

IsClosest(z, apexes, n) ==
    z \in apexes /\ Encloses(z, n) /\ \A y \in apexes : Encloses(y, n) => Len(y) <= Len(z)

LEMMA ClosestFacts ==
  ASSUME NEW apexes \in SUBSET DomainNames, NEW n \in DomainNames, \E z \in apexes : Encloses(z, n)
  PROVE  /\ IsClosest(Closest(apexes, n), apexes, n)
         /\ \A z : IsClosest(z, apexes, n) => z = Closest(apexes, n)
<1> DEFINE L == {Len(z) : z \in {y \in apexes : Encloses(y, n)}}
<1>1. L \in SUBSET Nat /\ L # {} /\ Len(n) \in Nat
  BY DomainNameFacts
<1>2. \A l \in L : l <= Len(n)
  BY EnclosesMeans
<1> DEFINE m == Max(L)
<1>3. m \in L /\ \A l \in L : l <= m
  <2> HIDE DEF L
  <2>1. QED  BY <1>1, <1>2, MaxFacts
<1> HIDE DEF m
<1>4. \E z : IsClosest(z, apexes, n)
  <2>1. PICK z \in apexes : Encloses(z, n) /\ Len(z) = m
    BY <1>3
  <2>2. IsClosest(z, apexes, n)
    BY <1>3, <2>1 DEF IsClosest
  <2>3. QED  BY <2>2
<1> DEFINE c == Closest(apexes, n)
<1>5. IsClosest(c, apexes, n)
  <2>1. c = CHOOSE z \in apexes : Encloses(z, n) /\ \A y \in apexes : Encloses(y, n) => Len(y) <= Len(z)
    BY DEF Closest
  <2>2. QED  BY <1>4, <2>1 DEF IsClosest
<1> HIDE DEF c
<1>6. ASSUME NEW z, IsClosest(z, apexes, n) PROVE z = c
  <2>1. z \in DomainNames /\ c \in DomainNames /\ Encloses(z, n) /\ Encloses(c, n)
    BY <1>5, <1>6 DEF IsClosest
  <2>2. Len(z) <= Len(c) /\ Len(c) <= Len(z)
    BY <1>5, <1>6 DEF IsClosest
  <2>3. Len(z) = Len(c)
    BY <2>1, <2>2, DomainNameFacts
  <2>4. QED  BY <2>1, <2>3, EnclosesFacts
<1>7. QED  BY <1>5, <1>6 DEF c

\* What the servers know.
ServersKnow ==
    /\ << >> \in zones /\ zones \subseteq DomainNames
    /\ alias \in [DOMAIN alias -> DomainNames] /\ DOMAIN alias \subseteq Aliases \ zones
    /\ lifetimes \in [DOMAIN alias -> Nat]

NextName(n) == IF n \in DOMAIN alias THEN alias[n] ELSE n
Trail(w, n, m) ==
    w \in [0..m -> DomainNames] /\ w[0] = n /\ \A k \in 1..m : w[k] = NextName(w[k - 1])

LEMMA TrailExists ==
  ASSUME ServersKnow, NEW n \in DomainNames, NEW m \in Nat
  PROVE  \E w : Trail(w, n, m)
<1> DEFINE g == [x \in DomainNames |-> NextName(x)]
<1>1. g \in [DomainNames -> DomainNames]
  <2>1. \A x \in DomainNames : NextName(x) \in DomainNames
    BY DEF ServersKnow, NextName
  <2>2. QED  BY <2>1
<1>2. \A x \in DomainNames : g[x] = NextName(x)
  OBVIOUS
<1> HIDE DEF g
<1>3. PICK w : Repeats(w, DomainNames, n, g, m)
  BY <1>1, RepeatExists
<1>4. w \in [0..m -> DomainNames] /\ w[0] = n /\ \A k \in 1..m : w[k] = g[w[k - 1]]
  BY <1>3 DEF Repeats
<1>5. ASSUME NEW k \in 1..m PROVE w[k] = NextName(w[k - 1])
  <2>1. k - 1 \in 0..m
    OBVIOUS
  <2>2. QED  BY <1>2, <1>4, <2>1
<1>6. Trail(w, n, m)
  BY <1>4, <1>5 DEF Trail
<1>7. QED  BY <1>6

\* Two trails from a name are the same as far as both go.
LEMMA TrailsAgree ==
  ASSUME NEW n, NEW l \in Nat, NEW m \in Nat, NEW v, Trail(v, n, l), NEW w, Trail(w, n, m)
  PROVE  \A k \in 0..l : k <= m => v[k] = w[k]
<1> DEFINE N == {k \in Nat : k <= l /\ k <= m => v[k] = w[k]}
<1>1. 0 \in N
  BY DEF Trail
<1>2. ASSUME NEW k \in N PROVE k + 1 \in N
  <2>1. SUFFICES ASSUME k + 1 <= l, k + 1 <= m PROVE v[k + 1] = w[k + 1]
    OBVIOUS
  <2> DEFINE i == k + 1
  <2>2. i \in 1..l /\ i \in 1..m /\ i - 1 = k /\ v[k] = w[k]
    BY <2>1
  <2> HIDE DEF i
  <2>3. v[i] = NextName(v[i - 1]) /\ w[i] = NextName(w[i - 1])
    BY <2>2 DEF Trail
  <2>4. v[i] = w[i]
    BY <2>2, <2>3
  <2>5. QED  BY <2>4 DEF i
<1>3. N = Nat
  <2>1. N \in SUBSET Nat
    OBVIOUS
  <2> HIDE DEF N
  <2>2. QED  BY <1>1, <1>2, <2>1, SetInduction
<1>4. QED  BY <1>3

IsFollowing(f, n) ==
    f = [k \in 0..Cardinality(Aliases) |->
           IF k = 0 THEN n ELSE IF f[k - 1] \in DOMAIN alias THEN alias[f[k - 1]] ELSE f[k - 1]]

LEMMA FollowedIs ==
  ASSUME NEW n
  PROVE  Followed(n) = CHOOSE f : IsFollowing(f, n)
BY DEF Followed, IsFollowing

LEMMA FollowedIsTrail ==
  ASSUME ServersKnow, NEW n \in DomainNames
  PROVE  Cardinality(Aliases) \in Nat /\ Trail(Followed(n), n, Cardinality(Aliases))
<1> DEFINE m == Cardinality(Aliases)
<1>1. m \in Nat
  BY LookupAssumption, FS_CardinalityType
<1>2. PICK w : Trail(w, n, m)
  BY <1>1, TrailExists
<1>3. IsFollowing(w, n)
  <2>1. w \in [0..m -> DomainNames] /\ w[0] = n /\ \A k \in 1..m : w[k] = NextName(w[k - 1])
    BY <1>2 DEF Trail
  <2>2. ASSUME NEW k \in 0..m
        PROVE  w[k] = IF k = 0 THEN n ELSE IF w[k - 1] \in DOMAIN alias THEN alias[w[k - 1]] ELSE w[k - 1]
    <3>1. k # 0 => k \in 1..m
      OBVIOUS
    <3>2. QED  BY <2>1, <3>1 DEF NextName
  <2> HIDE DEF m
  <2>3. w = [k \in 0..m |-> IF k = 0 THEN n ELSE IF w[k - 1] \in DOMAIN alias THEN alias[w[k - 1]] ELSE w[k - 1]]
    BY <2>1, <2>2
  <2>4. QED  BY <2>3 DEF IsFollowing, m
<1> DEFINE f == Followed(n)
<1>4. IsFollowing(f, n)
  BY <1>3, FollowedIs
<1> HIDE DEF f
<1>5. f = [k \in 0..m |-> IF k = 0 THEN n ELSE IF f[k - 1] \in DOMAIN alias THEN alias[f[k - 1]] ELSE f[k - 1]]
  BY <1>4 DEF IsFollowing
<1> HIDE DEF m
<1>6. f[0] = n /\ \A k \in 1..m : f[k] = NextName(f[k - 1])
  <2>1. 0 \in 0..m /\ \A k \in 1..m : k \in 0..m /\ k # 0
    BY <1>1
  <2>2. \A k \in 0..m : f[k] = IF k = 0 THEN n ELSE IF f[k - 1] \in DOMAIN alias THEN alias[f[k - 1]] ELSE f[k - 1]
    BY <1>5
  <2>3. QED  BY <2>1, <2>2 DEF NextName
<1>7. \A k \in 0..m : f[k] \in DomainNames
  <2> DEFINE N == {k \in Nat : k <= m => f[k] \in DomainNames}
  <2>1. 0 \in N
    BY <1>6
  <2>2. ASSUME NEW k \in N PROVE k + 1 \in N
    <3>1. SUFFICES ASSUME k + 1 <= m PROVE f[k + 1] \in DomainNames
      OBVIOUS
    <3> DEFINE i == k + 1
    <3>2. i \in 1..m /\ i - 1 = k /\ f[k] \in DomainNames
      BY <1>1, <3>1
    <3> HIDE DEF i
    <3>3. f[i] \in DomainNames
      BY <1>6, <3>2 DEF NextName, ServersKnow
    <3>4. QED  BY <3>3 DEF i
  <2>3. N = Nat
    <3>1. N \in SUBSET Nat
      OBVIOUS
    <3> HIDE DEF N
    <3>2. QED  BY <2>1, <2>2, <3>1, SetInduction
  <2>4. QED  BY <2>3
<1>8. f \in [0..m -> DomainNames]
  BY <1>5, <1>7
<1>9. Trail(f, n, m)
  BY <1>6, <1>8 DEF Trail
<1>10. QED  BY <1>1, <1>9 DEF f, m

\* A trail stays where it comes to a name that is no alias.
LEMMA TrailStays ==
  ASSUME NEW n, NEW m \in Nat, NEW w, Trail(w, n, m), NEW e \in 0..m, w[e] \notin DOMAIN alias
  PROVE  \A k \in e..m : w[k] = w[e]
<1> DEFINE N == {k \in Nat : k >= e /\ k <= m => w[k] = w[e]}
<1>0. e \in Nat
  OBVIOUS
<1>1. 0 \in N
  BY <1>0
<1>2. ASSUME NEW k \in N PROVE k + 1 \in N
  <2>1. SUFFICES ASSUME k + 1 >= e, k + 1 <= m PROVE w[k + 1] = w[e]
    OBVIOUS
  <2> DEFINE i == k + 1
  <2>2. CASE i = e
    BY <2>2
  <2>3. CASE i # e
    <3>1. i \in 1..m /\ i - 1 = k /\ k >= e /\ k <= m
      BY <1>0, <2>1, <2>3
    <3> HIDE DEF i
    <3>2. w[i] = NextName(w[i - 1]) /\ w[k] = w[e]
      BY <3>1 DEF Trail
    <3>3. w[i] = w[e]
      BY <3>1, <3>2 DEF NextName
    <3>4. QED  BY <3>3 DEF i
  <2>4. QED  BY <2>2, <2>3
<1>3. N = Nat
  <2>1. N \in SUBSET Nat
    OBVIOUS
  <2> HIDE DEF N
  <2>2. QED  BY <1>1, <1>2, <2>1, SetInduction
<1>4. QED  BY <1>0, <1>3

\* A trail that comes to a name again goes round.
LEMMA TrailGoesRound ==
  ASSUME NEW n, NEW m \in Nat, NEW w, Trail(w, n, m), NEW i \in 0..m, NEW j \in 0..m, i < j, w[i] = w[j]
  PROVE  \A k \in 0..m : \E l \in 0..(j - 1) : w[k] = w[l]
<1> DEFINE N == {k \in Nat : k <= m => \E l \in 0..(j - 1) : w[k] = w[l]}
<1>0. i \in Nat /\ j \in Nat /\ 0 \in 0..(j - 1) /\ i \in 0..(j - 1)
  OBVIOUS
<1>1. 0 \in N
  BY <1>0
<1>2. ASSUME NEW k \in N PROVE k + 1 \in N
  <2>1. SUFFICES ASSUME k + 1 <= m PROVE \E l \in 0..(j - 1) : w[k + 1] = w[l]
    OBVIOUS
  <2> DEFINE p == k + 1
  <2>2. p \in 1..m /\ p - 1 = k
    BY <2>1
  <2>3. PICK l \in 0..(j - 1) : w[k] = w[l]
    BY <2>1
  <2> DEFINE q == l + 1
  <2>4. q \in 1..m /\ q - 1 = l
    BY <1>0
  <2> HIDE DEF p, q
  <2>5. w[p] = w[q]
    BY <2>2, <2>3, <2>4 DEF Trail
  <2>6. CASE q = j
    BY <1>0, <2>5, <2>6 DEF p
  <2>7. CASE q # j
    <3>1. q \in 0..(j - 1)
      BY <1>0, <2>7 DEF q
    <3>2. QED  BY <2>5, <3>1 DEF p
  <2>8. QED  BY <2>6, <2>7
<1>3. N = Nat
  <2>1. N \in SUBSET Nat
    OBVIOUS
  <2> HIDE DEF N
  <2>2. QED  BY <1>1, <1>2, <2>1, SetInduction
<1>4. QED  BY <1>3

\* So it comes to no more names than there are aliases, and one.
LEMMA ChainIsAll ==
  ASSUME ServersKnow, NEW n \in DomainNames, NEW m \in Nat, NEW w, Trail(w, n, m), Cardinality(Aliases) <= m
  PROVE  /\ CnameChain(n) = {w[k] : k \in 0..Cardinality(Aliases)}
         /\ \A k \in 0..m : w[k] \in CnameChain(n)
<1> DEFINE c == Cardinality(Aliases)
           f == Followed(n)
<1>1. c \in Nat /\ Trail(f, n, c) /\ c <= m
  BY FollowedIsTrail
<1>2. CnameChain(n) = {f[k] : k \in 0..c}
  BY DEF CnameChain
<1>3. w \in [0..m -> DomainNames]
  BY DEF Trail
<1> HIDE DEF c, f
<1>4. \A k \in 0..c : k <= m => f[k] = w[k]
  BY <1>1, TrailsAgree
<1>5. CnameChain(n) = {w[k] : k \in 0..c}
  <2>1. \A k \in 0..c : f[k] = w[k]
    BY <1>1, <1>4
  <2>2. QED  BY <1>2, <2>1
<1>6. ASSUME NEW k \in 0..m PROVE \E l \in 0..c : w[k] = w[l]
  <2>1. CASE \E e \in 0..c : w[e] \notin DOMAIN alias
    <3>1. PICK e \in 0..c : w[e] \notin DOMAIN alias
      BY <2>1
    <3>2. e \in 0..m
      BY <1>1
    <3>3. \A q \in e..m : w[q] = w[e]
      BY <3>1, <3>2, TrailStays
    <3>4. k \in e..m \/ k \in 0..c
      BY <1>1
    <3>5. QED  BY <3>3, <3>4
  <2>2. CASE \A e \in 0..c : w[e] \in DOMAIN alias
    <3> DEFINE g == [e \in 0..c |-> w[e]]
    <3>1. g \in [0..c -> Aliases]
      BY <2>2 DEF ServersKnow
    <3>2. IsFiniteSet(0..c) /\ Cardinality(0..c) = c + 1 /\ IsFiniteSet(Aliases) /\ Cardinality(Aliases) < c + 1
      <4>1. 0 \in Int /\ c \in Int /\ ~(0 > c) /\ c - 0 + 1 = c + 1 /\ c < c + 1
        BY <1>1
      <4>2. IsFiniteSet(0..c) /\ Cardinality(0..c) = c + 1
        BY <4>1, FS_Interval
      <4>3. IsFiniteSet(Aliases) /\ Cardinality(Aliases) = c
        BY LookupAssumption DEF c
      <4>4. QED  BY <4>1, <4>2, <4>3
    <3>3. \A e \in 0..c : g[e] = w[e]
      OBVIOUS
    <3> HIDE DEF g
    <3>4. \E x, y \in 0..c : x # y /\ g[x] = g[y]
      BY <3>1, <3>2, FS_PigeonHole
    <3>5. PICK i \in 0..c, j \in 0..c : i < j /\ w[i] = w[j]
      <4>1. PICK x \in 0..c, y \in 0..c : x # y /\ w[x] = w[y]
        BY <3>3, <3>4
      <4>2. x < y \/ y < x
        BY <4>1
      <4>3. QED  BY <4>1, <4>2
    <3>6. i \in 0..m /\ j \in 0..m /\ \A l \in 0..(j - 1) : l \in 0..c
      BY <1>1
    <3>7. \E l \in 0..(j - 1) : w[k] = w[l]
      BY <3>5, <3>6, TrailGoesRound
    <3>8. QED  BY <3>6, <3>7
  <2>3. QED  BY <2>1, <2>2
<1>7. QED  BY <1>5, <1>6 DEF c

\* A response is true: it follows the aliases of its name, and has the SOA
\* record of the zone at their end, or says which zone has none.
TrueAnswer ==
    LET owners == CnameChain(name)
    IN  /\ DOMAIN response.cnames = owners \cap DOMAIN alias
        /\ \A n \in owners \cap DOMAIN alias :
             response.cnames[n].target = alias[n] /\ response.cnames[n].ttl = lifetimes[n]
        /\ DOMAIN response.soa = ChainEnd(owners) \cap zones
        /\ \A n \in DOMAIN response.soa : response.soa[n] \in Nat
        /\ \A z \in DOMAIN response.authority :
             response.authority[z] \in Nat /\ \E n \in ChainEnd(owners) \ zones : z = Closest(zones, n)
        /\ response.rcode = "NXDOMAIN" => ChainEnd(owners) \ zones # {}

Stages == [n : DomainNames, ttl : Nat, end : {"none", "answer", "no answer"}]

LEMMA LowerFacts ==
  ASSUME NEW a \in Nat, NEW b \in Nat
  PROVE  Lower(a, b) \in Nat /\ Lower(a, b) <= a /\ Lower(a, b) <= b
BY DEF Lower

\* One turn, at a name that the server came to.
LEMMA OneTurn ==
  ASSUME ServersKnow, TrueAnswer, NEW at \in Stages, at.n \in CnameChain(name)
  PROVE  /\ Turn(response, at) \in Stages
         /\ at.end # "none" => Turn(response, at) = at
         /\ at.end = "none" /\ at.n \in DOMAIN alias =>
              /\ Turn(response, at).end = "none" /\ Turn(response, at).n = alias[at.n]
              /\ Turn(response, at).ttl <= at.ttl /\ Turn(response, at).ttl <= lifetimes[at.n]
         /\ at.end = "none" /\ at.n \notin DOMAIN alias =>
              /\ Turn(response, at).end = (IF at.n \in zones THEN "answer" ELSE "no answer")
              /\ Turn(response, at).n = at.n /\ Turn(response, at).ttl <= at.ttl
<1> DEFINE n == at.n
           t == Turn(response, at)
<1>1. n \in DomainNames /\ at.ttl \in Nat /\ at.end \in {"none", "answer", "no answer"}
  BY DEF Stages
<1>2. /\ n \in DOMAIN response.cnames <=> n \in DOMAIN alias
      /\ n \in DOMAIN response.soa <=> n \in zones
      /\ n \in zones => n \notin DOMAIN alias /\ response.soa[n] \in Nat
      /\ n \in DOMAIN alias => /\ response.cnames[n].target = alias[n] /\ response.cnames[n].ttl = lifetimes[n]
                               /\ alias[n] \in DomainNames /\ lifetimes[n] \in Nat
  BY DEF TrueAnswer, ServersKnow, ChainEnd
<1>3. CASE at.end # "none"
  <2>1. t = at
    BY <1>3 DEF Turn
  <2>2. QED  BY <1>3, <2>1
<1>4. CASE at.end = "none" /\ n \in zones
  <2> DEFINE u == Lower(at.ttl, response.soa[n])
  <2>1. t = [at EXCEPT !.end = "answer", !.ttl = u]
    BY <1>2, <1>4 DEF Turn
  <2>2. u \in Nat /\ u <= at.ttl
    BY <1>1, <1>2, <1>4, LowerFacts
  <2> HIDE DEF t, u
  <2>3. t \in Stages /\ t.end = "answer" /\ t.n = n /\ t.ttl = u
    BY <2>1, <2>2 DEF Stages
  <2>4. QED  BY <1>2, <1>4, <2>2, <2>3 DEF t
<1>5. CASE at.end = "none" /\ n \in DOMAIN alias
  <2> DEFINE u == Lower(at.ttl, response.cnames[n].ttl)
             x == response.cnames[n].target
  <2>1. t = [at EXCEPT !.n = x, !.ttl = u]
    BY <1>2, <1>5 DEF Turn
  <2>2. u \in Nat /\ u <= at.ttl /\ u <= lifetimes[n] /\ x = alias[n] /\ x \in DomainNames
    BY <1>1, <1>2, <1>5, LowerFacts
  <2> HIDE DEF t, u, x
  <2>3. t \in Stages /\ t.end = at.end /\ t.n = x /\ t.ttl = u
    BY <2>1, <2>2 DEF Stages
  <2>4. QED  BY <1>5, <2>2, <2>3 DEF t
<1>6. CASE at.end = "none" /\ n \notin zones /\ n \notin DOMAIN alias
  <2>1. t = [at EXCEPT !.end = "no answer"]
    BY <1>2, <1>6 DEF Turn
  <2> HIDE DEF t
  <2>2. t \in Stages /\ t.end = "no answer" /\ t.n = n /\ t.ttl = at.ttl
    BY <2>1 DEF Stages
  <2>3. t.ttl <= at.ttl
    <3>1. \A a \in Nat : a <= a
      OBVIOUS
    <3>2. QED  BY <1>1, <2>2, <3>1, Zenon
  <2>4. t.end = IF n \in zones THEN "answer" ELSE "no answer"
    BY <1>6, <2>2, Zenon
  <2>5. /\ at.end = "none" /\ at.n \notin DOMAIN alias
        /\ t.end = IF at.n \in zones THEN "answer" ELSE "no answer"
    BY <1>6, <2>4
  <2>6. QED  BY <2>2, <2>3, <2>5, Zenon DEF t
<1>7. QED  BY <1>3, <1>4, <1>5, <1>6

\* The trail comes to its end at e.
EndsAt(w, e) == w[e] \notin DOMAIN alias /\ \A j \in 0..(e - 1) : w[j] \in DOMAIN alias

\* Where k turns have come on the trail, with a TTL no higher than those of the
\* records on the way.
TurnedTo(at, w, k) ==
    /\ at \in Stages
    /\ at.end = "none" =>
         at.n = w[k] /\ \A j \in 0..(k - 1) : w[j] \in DOMAIN alias /\ at.ttl <= lifetimes[w[j]]
    /\ at.end # "none" =>
         \E e \in 0..(k - 1) : /\ EndsAt(w, e) /\ at.n = w[e]
                               /\ at.end = (IF w[e] \in zones THEN "answer" ELSE "no answer")
                               /\ \A j \in 0..(e - 1) : at.ttl <= lifetimes[w[j]]

Start == [n |-> name, ttl |-> MaxTtl, end |-> "none"]
TurnedBy(f, m) ==
    f[0] = Start /\ \A k \in 1..m : f[k] = Turn(response, f[k - 1])

\* The trail from the name that was asked for, as far as it matters.
Reach == Cardinality(Aliases) + MaxChain

LEMMA TurnsGoAlong ==
  ASSUME ServersKnow, TrueAnswer, name \in DomainNames, NEW w, Trail(w, name, Reach),
         NEW f, TurnedBy(f, MaxChain)
  PROVE  \A k \in 0..MaxChain : TurnedTo(f[k], w, k)
<1>1. Cardinality(Aliases) \in Nat /\ MaxChain \in Nat /\ MaxTtl \in Nat /\ Reach \in Nat
  BY FollowedIsTrail, LookupAssumption DEF Reach
<1>2. \A k \in 0..MaxChain : k \in 0..Reach /\ w[k] \in CnameChain(name)
  <2>1. \A k \in 0..Reach : w[k] \in CnameChain(name)
    <3>1. Cardinality(Aliases) <= Reach
      BY <1>1 DEF Reach
    <3>2. QED  BY <1>1, <3>1, ChainIsAll
  <2>2. \A k \in 0..MaxChain : k \in 0..Reach
    BY <1>1 DEF Reach
  <2>3. QED  BY <2>1, <2>2
<1>3. \A k \in 1..MaxChain : w[k] = NextName(w[k - 1])
  BY <1>1, <1>2 DEF Trail
<1> DEFINE N == {k \in Nat : k <= MaxChain => TurnedTo(f[k], w, k)}
<1>4. 0 \in N
  <2> DEFINE s == Start
  <2>1. f[0] = s /\ w[0] = name
    BY DEF TurnedBy, Trail
  <2>2. s \in Stages /\ s.end = "none" /\ s.n = name
    BY <1>1 DEF Start, Stages
  <2> HIDE DEF s
  <2>3. TurnedTo(s, w, 0)
    BY <2>1, <2>2 DEF TurnedTo
  <2>4. QED  BY <2>1, <2>3
<1>5. ASSUME NEW k \in N PROVE k + 1 \in N
  <2>1. SUFFICES ASSUME k + 1 <= MaxChain PROVE TurnedTo(f[k + 1], w, k + 1)
    OBVIOUS
  <2> DEFINE i == k + 1
             at == f[k]
             t == f[i]
  <2>2. /\ k \in Nat /\ i \in 1..MaxChain /\ i - 1 = k /\ k \in 0..MaxChain
        /\ TurnedTo(at, w, k) /\ t = Turn(response, at)
    BY <1>1, <2>1 DEF TurnedBy
  <2> HIDE DEF i, t, at
  <2>3. at \in Stages
    BY <2>2 DEF TurnedTo
  <2>4. CASE at.end # "none"
    <3>1. PICK e \in 0..(k - 1) : /\ EndsAt(w, e) /\ at.n = w[e]
                                  /\ at.end = (IF w[e] \in zones THEN "answer" ELSE "no answer")
                                  /\ \A j \in 0..(e - 1) : at.ttl <= lifetimes[w[j]]
      BY <2>2, <2>4 DEF TurnedTo
    <3>2. t = at
      BY <2>2, <2>4 DEF Turn
    <3>3. e \in 0..(i - 1)
      BY <2>2
    <3>4. TurnedTo(at, w, i)
      BY <2>3, <2>4, <3>1, <3>3 DEF TurnedTo
    <3>5. QED  BY <3>2, <3>4 DEF t, i
  <2>5. CASE at.end = "none"
    <3>1. at.n = w[k] /\ \A j \in 0..(k - 1) : w[j] \in DOMAIN alias /\ at.ttl <= lifetimes[w[j]]
      BY <2>2, <2>5 DEF TurnedTo
    <3>2. at.n \in CnameChain(name)
      BY <1>2, <2>2, <3>1
    <3>3. /\ t \in Stages
          /\ w[k] \in DOMAIN alias => /\ t.end = "none" /\ t.n = alias[w[k]]
                                      /\ t.ttl <= at.ttl /\ t.ttl <= lifetimes[w[k]]
          /\ w[k] \notin DOMAIN alias =>
               /\ t.end = (IF w[k] \in zones THEN "answer" ELSE "no answer")
               /\ t.n = w[k] /\ t.ttl <= at.ttl
      BY <2>2, <2>3, <2>5, <3>1, <3>2, OneTurn
    <3>4. /\ t.ttl \in Nat /\ at.ttl \in Nat
          /\ \A j \in 0..(k - 1) : lifetimes[w[j]] \in Nat
      BY <2>3, <3>1, <3>3 DEF Stages, ServersKnow
    <3>5. \A j \in 0..(k - 1) : t.ttl <= lifetimes[w[j]]
      <4>1. t.ttl <= at.ttl
        BY <3>3
      <4>2. QED  BY <3>1, <3>4, <4>1
    <3>6. CASE w[k] \in DOMAIN alias
      <4>1. t.end = "none" /\ t.n = w[i]
        BY <1>3, <2>2, <3>3, <3>6 DEF NextName
      <4>2. ASSUME NEW j \in 0..(i - 1) PROVE w[j] \in DOMAIN alias /\ t.ttl <= lifetimes[w[j]]
        <5>1. j = k \/ j \in 0..(k - 1)
          BY <2>2
        <5>2. QED  BY <3>1, <3>3, <3>5, <3>6, <5>1
      <4>3. TurnedTo(t, w, i)
        BY <3>3, <4>1, <4>2 DEF TurnedTo
      <4>4. QED  BY <4>3 DEF t, i
    <3>7. CASE w[k] \notin DOMAIN alias
      <4>1. EndsAt(w, k)
        BY <3>1, <3>7 DEF EndsAt
      <4>2. k \in 0..(i - 1)
        BY <2>2
      <4>3. t.end # "none" /\ t.n = w[k] /\ t.end = (IF w[k] \in zones THEN "answer" ELSE "no answer")
        BY <3>3, <3>7
      <4>4. TurnedTo(t, w, i)
        BY <3>3, <3>5, <4>1, <4>2, <4>3 DEF TurnedTo
      <4>5. QED  BY <4>4 DEF t, i
    <3>8. QED  BY <3>6, <3>7
  <2>6. QED  BY <2>4, <2>5
<1>6. N = Nat
  <2>1. N \in SUBSET Nat
    OBVIOUS
  <2> HIDE DEF N
  <2>2. QED  BY <1>4, <1>5, <2>1, SetInduction
<1>7. QED  BY <1>1, <1>6

LEMMA ChainGoesOn ==
  ASSUME ServersKnow, name \in DomainNames, NEW n \in CnameChain(name)
  PROVE  /\ n \in DomainNames
         /\ n \in DOMAIN alias => alias[n] \in CnameChain(name)
<1> DEFINE c == Cardinality(Aliases)
<1>1. c \in Nat /\ MaxChain \in Nat \ {0} /\ Reach \in Nat /\ c <= Reach /\ c + 1 <= Reach
  BY FollowedIsTrail, LookupAssumption DEF Reach
<1>2. PICK w : Trail(w, name, Reach)
  BY <1>1, TrailExists
<1>3. /\ CnameChain(name) = {w[k] : k \in 0..c}
      /\ \A k \in 0..Reach : w[k] \in CnameChain(name)
  BY <1>1, <1>2, ChainIsAll
<1> HIDE DEF c
<1>4. PICK k \in 0..c : n = w[k]
  BY <1>3
<1> DEFINE i == k + 1
<1>5. k \in 0..Reach /\ i \in 1..Reach /\ i \in 0..Reach /\ i - 1 = k
  BY <1>1
<1> HIDE DEF i
<1>6. n \in DomainNames
  BY <1>2, <1>4, <1>5 DEF Trail
<1>7. w[i] = NextName(n)
  BY <1>2, <1>4, <1>5 DEF Trail
<1>8. n \in DOMAIN alias => alias[n] \in CnameChain(name)
  BY <1>3, <1>5, <1>7 DEF NextName
<1>9. QED  BY <1>6, <1>8

IsTurning(f) ==
    f = [k \in 0..MaxChain |->
           IF k = 0 THEN [n |-> name, ttl |-> MaxTtl, end |-> "none"] ELSE Turn(response, f[k - 1])]

LEMMA TurnsAre == Turns(response, name) = CHOOSE f : IsTurning(f)
BY DEF Turns, IsTurning

LEMMA TurnsFacts ==
  ASSUME ServersKnow, TrueAnswer, name \in DomainNames
  PROVE  TurnedBy(Turns(response, name), MaxChain)
<1> DEFINE X == {s \in Stages : s.n \in CnameChain(name)}
           g == [s \in X |-> Turn(response, s)]
           a == Start
<1>1. MaxChain \in Nat /\ MaxTtl \in Nat /\ Cardinality(Aliases) \in Nat
  BY FollowedIsTrail, LookupAssumption
<1>2. name \in CnameChain(name)
  <2> DEFINE f == Followed(name)
  <2>1. f[0] = name /\ 0 \in 0..Cardinality(Aliases)
    BY <1>1, FollowedIsTrail DEF Trail
  <2>2. CnameChain(name) = {f[k] : k \in 0..Cardinality(Aliases)}
    BY DEF CnameChain
  <2> HIDE DEF f
  <2>3. QED  BY <2>1, <2>2
<1>3. a \in X /\ a = [n |-> name, ttl |-> MaxTtl, end |-> "none"]
  BY <1>1, <1>2 DEF Start, Stages
<1>4. ASSUME NEW s \in X PROVE Turn(response, s) \in X
  <2> DEFINE t == Turn(response, s)
  <2>1. s \in Stages /\ s.n \in CnameChain(name)
    OBVIOUS
  <2>2. /\ t \in Stages
        /\ s.end # "none" => t = s
        /\ s.end = "none" /\ s.n \in DOMAIN alias => t.n = alias[s.n]
        /\ s.end = "none" /\ s.n \notin DOMAIN alias => t.n = s.n
    BY <2>1, OneTurn
  <2>3. s.n \in DOMAIN alias => alias[s.n] \in CnameChain(name)
    BY <2>1, ChainGoesOn
  <2> HIDE DEF t
  <2>4. t.n \in CnameChain(name)
    BY <2>1, <2>2, <2>3
  <2>5. QED  BY <2>2, <2>4 DEF t
<1>5. g \in [X -> X] /\ \A s \in X : g[s] = Turn(response, s)
  BY <1>4
<1> HIDE DEF X, g, a
<1>6. PICK f : Repeats(f, X, a, g, MaxChain)
  BY <1>1, <1>3, <1>5, RepeatExists
<1>7. f \in [0..MaxChain -> X] /\ f[0] = a /\ \A k \in 1..MaxChain : f[k] = g[f[k - 1]]
  BY <1>6 DEF Repeats
<1>8. IsTurning(f)
  <2>1. ASSUME NEW k \in 0..MaxChain
        PROVE  f[k] = IF k = 0 THEN [n |-> name, ttl |-> MaxTtl, end |-> "none"] ELSE Turn(response, f[k - 1])
    <3>1. CASE k = 0
      BY <1>3, <1>7, <3>1
    <3>2. CASE k # 0
      <4>1. k \in 1..MaxChain /\ k - 1 \in 0..MaxChain
        BY <1>1, <3>2
      <4>2. f[k] = g[f[k - 1]] /\ f[k - 1] \in X
        BY <1>7, <4>1
      <4>3. QED  BY <1>5, <3>2, <4>2
    <3>3. QED  BY <3>1, <3>2
  <2>2. QED  BY <1>7, <2>1 DEF IsTurning
<1> DEFINE h == Turns(response, name)
<1>9. IsTurning(h)
  BY <1>8, TurnsAre
<1> HIDE DEF h
<1>10. h[0] = a /\ \A k \in 1..MaxChain : h[k] = Turn(response, h[k - 1])
  <2>1. 0 \in 0..MaxChain /\ \A k \in 1..MaxChain : k \in 0..MaxChain /\ k # 0
    BY <1>1
  <2>2. \A k \in 0..MaxChain : h[k] = IF k = 0 THEN [n |-> name, ttl |-> MaxTtl, end |-> "none"] ELSE Turn(response, h[k - 1])
    BY <1>9 DEF IsTurning
  <2>3. QED  BY <1>3, <2>1, <2>2
<1>11. QED  BY <1>10 DEF TurnedBy, h, a

\* Where the trail ends, is the one end of the chain.
LEMMA EndIsOne ==
  ASSUME ServersKnow, name \in DomainNames, NEW w, Trail(w, name, Reach), NEW e \in 0..Reach, EndsAt(w, e)
  PROVE  /\ ChainEnd(CnameChain(name)) = {w[e]}
         /\ CnameChain(name) \cap DOMAIN alias = {w[j] : j \in 0..(e - 1)}
<1> DEFINE c == Cardinality(Aliases)
<1>1. c \in Nat /\ Reach \in Nat /\ c <= Reach
  BY FollowedIsTrail, LookupAssumption DEF Reach
<1>2. /\ CnameChain(name) = {w[k] : k \in 0..c}
      /\ \A k \in 0..Reach : w[k] \in CnameChain(name)
  BY <1>1, ChainIsAll
<1> HIDE DEF c
<1>3. \A k \in 0..c : k \in 0..Reach
  BY <1>1
<1>4. w[e] \notin DOMAIN alias /\ \A j \in 0..(e - 1) : w[j] \in DOMAIN alias
  BY DEF EndsAt
<1>5. \A k \in e..Reach : w[k] = w[e]
  BY <1>1, <1>4, TrailStays
<1>6. \A k \in 0..Reach : k \in e..Reach \/ k \in 0..(e - 1)
  BY <1>1
<1>7. \A j \in 0..(e - 1) : j \in 0..Reach
  BY <1>1
<1>8. \A n \in CnameChain(name) : \E k \in 0..Reach : n = w[k]
  BY <1>2, <1>3
<1>9. ChainEnd(CnameChain(name)) = {w[e]}
  <2>1. w[e] \in CnameChain(name)
    BY <1>2
  <2>2. ASSUME NEW n \in CnameChain(name), n \notin DOMAIN alias PROVE n = w[e]
    BY <1>4, <1>5, <1>6, <1>8, <2>2
  <2>3. QED  BY <1>4, <2>1, <2>2 DEF ChainEnd
<1>10. ASSUME NEW n \in CnameChain(name), n \in DOMAIN alias PROVE \E j \in 0..(e - 1) : n = w[j]
  BY <1>4, <1>5, <1>6, <1>8, <1>10
<1>11. CnameChain(name) \cap DOMAIN alias = {w[j] : j \in 0..(e - 1)}
  BY <1>2, <1>4, <1>7, <1>10
<1>12. QED  BY <1>9, <1>11

\* What resolve_chaining() makes of a true response.
AnswerAt(answer, w, e) ==
    /\ EndsAt(w, e) /\ answer.n = w[e]
    /\ answer.end = (IF w[e] \in zones THEN "answer" ELSE "no answer")
    /\ \A j \in 0..(e - 1) : answer.ttl <= lifetimes[w[j]]
AnswerSays(answer, w) ==
    \/ answer.end = "ChainTooLong" /\ \A j \in 0..(MaxChain - 1) : w[j] \in DOMAIN alias
    \/ \E e \in 0..(MaxChain - 1) : AnswerAt(answer, w, e)

LEMMA AuthorityFacts ==
  ASSUME ServersKnow, TrueAnswer, name \in DomainNames, NEW z \in DOMAIN response.authority
  PROVE  /\ z \in zones /\ z \in DomainNames /\ response.authority[z] \in Nat
         /\ \E n \in ChainEnd(CnameChain(name)) \ zones : IsClosest(z, zones, n)
<1>1. response.authority[z] \in Nat /\ \E n \in ChainEnd(CnameChain(name)) \ zones : z = Closest(zones, n)
  BY DEF TrueAnswer
<1>2. PICK n \in ChainEnd(CnameChain(name)) \ zones : z = Closest(zones, n)
  BY <1>1
<1>3. n \in DomainNames
  BY ChainGoesOn DEF ChainEnd
<1>4. zones \in SUBSET DomainNames /\ \E y \in zones : Encloses(y, n)
  BY <1>3, EnclosesFacts DEF ServersKnow
<1>5. IsClosest(z, zones, n)
  BY <1>2, <1>3, <1>4, ClosestFacts
<1>6. QED  BY <1>1, <1>4, <1>5 DEF IsClosest

LEMMA AnswerMeans ==
  ASSUME ServersKnow, TrueAnswer, name \in DomainNames, NEW w, Trail(w, name, Reach)
  PROVE  AnswerSays(ResolveChaining(response, name), w)
<1> DEFINE last == Turns(response, name)[MaxChain]
           above == {z \in DOMAIN response.authority : Encloses(z, last.n)}
           answer == ResolveChaining(response, name)
<1>1. MaxChain \in Nat \ {0} /\ Cardinality(Aliases) \in Nat
  BY FollowedIsTrail, LookupAssumption
<1>2. TurnedTo(last, w, MaxChain)
  <2> DEFINE f == Turns(response, name)
  <2>1. TurnedBy(f, MaxChain)
    BY TurnsFacts
  <2> HIDE DEF f
  <2>2. \A k \in 0..MaxChain : TurnedTo(f[k], w, k)
    BY <2>1, TurnsGoAlong
  <2>3. MaxChain \in 0..MaxChain
    BY <1>1
  <2>4. TurnedTo(f[MaxChain], w, MaxChain)
    BY <2>2, <2>3
  <2>5. QED  BY <2>4 DEF f
<1>3. answer = CASE last.end = "none" -> [last EXCEPT !.end = "ChainTooLong"]
                 [] last.end = "answer" /\ response.rcode = "NXDOMAIN" -> [last EXCEPT !.end = "AnswerForNXDOMAIN"]
                 [] last.end = "no answer" /\ above # {} ->
                      [last EXCEPT !.ttl = Lower(@, response.authority[Closest(above, last.n)])]
                 [] OTHER -> last
  BY DEF ResolveChaining
<1> HIDE DEF last, above, answer
<1>4. last \in Stages
  BY <1>2 DEF TurnedTo
<1>5. CASE last.end = "none"
  <2>1. answer = [last EXCEPT !.end = "ChainTooLong"]
    BY <1>3, <1>5
  <2>2. answer.end = "ChainTooLong"
    BY <1>4, <2>1 DEF Stages
  <2>3. \A j \in 0..(MaxChain - 1) : w[j] \in DOMAIN alias
    BY <1>2, <1>5 DEF TurnedTo
  <2>4. QED  BY <2>2, <2>3 DEF AnswerSays, answer
<1>6. CASE last.end # "none"
  <2>1. PICK e \in 0..(MaxChain - 1) : AnswerAt(last, w, e)
    BY <1>2, <1>6 DEF TurnedTo, AnswerAt
  <2>2. e \in 0..Reach
    BY <1>1 DEF Reach
  <2>3. ChainEnd(CnameChain(name)) = {w[e]}
    BY <2>1, <2>2, EndIsOne DEF AnswerAt
  <2>4. ASSUME NEW u \in Nat, u <= last.ttl, answer = [last EXCEPT !.ttl = u] PROVE AnswerAt(answer, w, e)
    <3>1. answer.n = last.n /\ answer.end = last.end /\ answer.ttl = u /\ last.ttl \in Nat
      BY <1>4, <2>4 DEF Stages
    <3>2. ASSUME NEW j \in 0..(e - 1) PROVE u <= lifetimes[w[j]]
      <4>1. last.ttl <= lifetimes[w[j]] /\ w[j] \in DOMAIN alias
        BY <2>1 DEF AnswerAt, EndsAt
      <4>2. lifetimes[w[j]] \in Nat
        BY <4>1 DEF ServersKnow
      <4>3. QED  BY <2>4, <3>1, <4>1, <4>2
    <3>3. QED  BY <2>1, <3>1, <3>2 DEF AnswerAt
  <2>5. CASE last.end = "answer" /\ response.rcode = "NXDOMAIN"
    <3>1. ChainEnd(CnameChain(name)) \ zones # {}
      BY <2>5 DEF TrueAnswer
    <3>2. w[e] \in zones
      BY <2>1, <2>5 DEF AnswerAt
    <3>3. QED  BY <2>3, <3>1, <3>2
  <2>6. CASE last.end = "no answer" /\ above # {}
    <3> DEFINE z == Closest(above, last.n)
               u == Lower(last.ttl, response.authority[z])
    <3>1. answer = [last EXCEPT !.ttl = u]
      BY <1>3, <2>6
    <3>2. above \in SUBSET DomainNames /\ \E y \in above : Encloses(y, last.n)
      BY <2>6, AuthorityFacts DEF above
    <3>3. last.n \in DomainNames /\ last.ttl \in Nat
      BY <1>4 DEF Stages
    <3>4. z \in above
      BY <3>2, <3>3, ClosestFacts DEF IsClosest
    <3>5. response.authority[z] \in Nat
      BY <3>4, AuthorityFacts DEF above
    <3>6. u \in Nat /\ u <= last.ttl
      BY <3>3, <3>5, LowerFacts
    <3> HIDE DEF u
    <3>7. AnswerAt(answer, w, e)
      BY <2>4, <3>1, <3>6
    <3>8. QED  BY <3>7 DEF AnswerSays, answer
  <2>7. CASE ~(last.end = "answer" /\ response.rcode = "NXDOMAIN") /\ ~(last.end = "no answer" /\ above # {})
    <3>1. answer = last
      BY <1>3, <1>6, <2>7
    <3>2. QED  BY <2>1, <3>1 DEF AnswerSays, answer
  <2>8. QED  BY <2>5, <2>6, <2>7
<1>7. QED  BY <1>5, <1>6

\* The TTL of an answer, and what a chain that is too long means.
LEMMA AnswerIsFair ==
  ASSUME ServersKnow, TrueAnswer, name \in DomainNames
  PROVE  IF ResolveChaining(response, name).end \notin Raised
         THEN \A n \in DOMAIN response.cnames : ResolveChaining(response, name).ttl <= response.cnames[n].ttl
         ELSE ChainEnd(CnameChain(name)) = {} \/ Cardinality(DOMAIN response.cnames) >= MaxChain
<1> DEFINE answer == ResolveChaining(response, name)
           C == DOMAIN response.cnames
<1>1. MaxChain \in Nat \ {0} /\ Cardinality(Aliases) \in Nat /\ Reach \in Nat /\ MaxChain <= Reach
  BY FollowedIsTrail, LookupAssumption DEF Reach
<1>2. PICK w : Trail(w, name, Reach)
  BY <1>1, TrailExists
<1>3. AnswerSays(answer, w)
  BY <1>2, AnswerMeans
<1>4. /\ C = CnameChain(name) \cap DOMAIN alias
      /\ \A n \in C : response.cnames[n].ttl = lifetimes[n]
  BY DEF TrueAnswer
<1> HIDE DEF answer, C
<1>5. CASE \E e \in 0..(MaxChain - 1) : AnswerAt(answer, w, e)
  <2>1. PICK e \in 0..(MaxChain - 1) : AnswerAt(answer, w, e)
    BY <1>5
  <2>2. e \in 0..Reach /\ EndsAt(w, e)
    <3>1. e \in 0..Reach
      BY <1>1
    <3>2. QED  BY <2>1, <3>1 DEF AnswerAt
  <2>3. CnameChain(name) \cap DOMAIN alias = {w[j] : j \in 0..(e - 1)}
    BY <1>2, <2>2, EndIsOne
  <2>4. answer.end \notin Raised
    BY <2>1 DEF AnswerAt, Raised
  <2>5. \A j \in 0..(e - 1) : answer.ttl <= lifetimes[w[j]]
    BY <2>1 DEF AnswerAt
  <2>6. \A n \in C : answer.ttl <= response.cnames[n].ttl
    BY <1>4, <2>3, <2>5
  <2>7. QED  BY <2>4, <2>6 DEF answer, C
<1>6. CASE answer.end = "ChainTooLong" /\ \A j \in 0..(MaxChain - 1) : w[j] \in DOMAIN alias
  <2>1. answer.end \in Raised
    BY <1>6 DEF Raised
  <2>2. ASSUME ChainEnd(CnameChain(name)) # {} PROVE Cardinality(C) >= MaxChain
    <3> DEFINE c == Cardinality(Aliases)
               D == 0..(MaxChain - 1)
    <3>1. c \in Nat /\ c <= Reach
      BY <1>1 DEF Reach
    <3>2. /\ CnameChain(name) = {w[k] : k \in 0..c}
          /\ \A k \in 0..Reach : w[k] \in CnameChain(name)
      BY <1>1, <1>2, <3>1, ChainIsAll
    <3> HIDE DEF c
    <3>3. PICK k \in 0..Reach : w[k] \notin DOMAIN alias
      <4>1. \A k \in 0..c : k \in 0..Reach
        BY <1>1, <3>1
      <4>2. QED  BY <2>2, <3>2, <4>1 DEF ChainEnd
    <3>4. \A i \in D : i \in 0..Reach /\ i \in Int
      BY <1>1
    <3>5. ASSUME NEW i \in D, NEW j \in D, i < j PROVE w[i] # w[j]
      <4>1. SUFFICES ASSUME w[i] = w[j] PROVE FALSE
        OBVIOUS
      <4>2. PICK l \in 0..(j - 1) : w[k] = w[l]
        BY <1>1, <1>2, <3>3, <3>4, <3>5, <4>1, TrailGoesRound
      <4>3. l \in D
        BY <1>1
      <4>4. QED  BY <1>6, <3>3, <4>2, <4>3
    <3>6. \A i \in D : w[i] \in C
      BY <1>4, <1>6, <3>2, <3>4
    <3> DEFINE g == [i \in D |-> w[i]]
    <3>7. g \in [D -> C] /\ \A i \in D : g[i] = w[i]
      BY <3>6
    <3>8. ASSUME NEW i \in D, NEW j \in D, i # j PROVE g[i] # g[j]
      <4>1. i < j \/ j < i
        BY <1>1, <3>8
      <4>2. QED  BY <3>5, <3>7, <4>1
    <3>9. C \subseteq Aliases /\ IsFiniteSet(Aliases)
      BY <1>4, LookupAssumption DEF ServersKnow
    <3>10. IsFiniteSet(C) /\ Cardinality(C) \in Nat
      BY <3>9, FS_Subset, FS_CardinalityType
    <3>11. IsFiniteSet(D) /\ Cardinality(D) = MaxChain
      <4> DEFINE b == MaxChain - 1
      <4>1. 0 \in Int /\ b \in Int /\ ~(0 > b) /\ b - 0 + 1 = MaxChain
        BY <1>1
      <4> HIDE DEF b
      <4>2. IsFiniteSet(0..b) /\ Cardinality(0..b) = b - 0 + 1
        BY <4>1, FS_Interval
      <4>3. QED  BY <4>1, <4>2 DEF b
    <3> HIDE DEF g, D
    <3>12. SUFFICES ASSUME Cardinality(C) < MaxChain PROVE FALSE
      BY <1>1, <3>10
    <3>13. \E x, y \in D : x # y /\ g[x] = g[y]
      BY <3>7, <3>10, <3>11, <3>12, FS_PigeonHole
    <3>14. QED  BY <3>8, <3>13
  <2>3. QED  BY <2>1, <2>2 DEF answer, C
<1>7. QED  BY <1>3, <1>5, <1>6 DEF AnswerSays

\* An answer for the name that was asked for: exactly for a zone.
LEMMA AnswerIsZone ==
  ASSUME ServersKnow, TrueAnswer, name \in DomainNames
  PROVE  /\ ResolveChaining(response, name).end = "answer" /\ ResolveChaining(response, name).n = name
              => name \in zones
         /\ name \in zones
              => ResolveChaining(response, name).end = "answer" /\ ResolveChaining(response, name).n = name
<1> DEFINE answer == ResolveChaining(response, name)
<1>1. MaxChain \in Nat \ {0} /\ Cardinality(Aliases) \in Nat /\ Reach \in Nat
  BY FollowedIsTrail, LookupAssumption DEF Reach
<1>2. PICK w : Trail(w, name, Reach)
  BY <1>1, TrailExists
<1>3. AnswerSays(answer, w) /\ w[0] = name
  BY <1>2, AnswerMeans DEF Trail
<1> HIDE DEF answer
<1>4. answer.end = "answer" /\ answer.n = name => name \in zones
  BY <1>3 DEF AnswerSays, AnswerAt
<1>5. ASSUME name \in zones PROVE answer.end = "answer" /\ answer.n = name
  <2>1. w[0] \notin DOMAIN alias /\ 0 \in 0..(MaxChain - 1)
    BY <1>1, <1>3, <1>5 DEF ServersKnow
  <2>2. PICK e \in 0..(MaxChain - 1) : AnswerAt(answer, w, e)
    BY <1>3, <2>1 DEF AnswerSays
  <2>3. e = 0
    <3>1. e # 0 => 0 \in 0..(e - 1)
      BY <1>1
    <3>2. QED  BY <2>1, <2>2, <3>1 DEF AnswerAt, EndsAt
  <2>4. QED  BY <1>3, <1>5, <2>2, <2>3 DEF AnswerAt
<1>6. QED  BY <1>4, <1>5 DEF answer

\* The zone that a denial names, is that of the name if that is no alias.
LEMMA NamedIsZone ==
  ASSUME ServersKnow, TrueAnswer, name \in DomainNames, NEW z \in Named
  PROVE  /\ z \in zones /\ z \in DomainNames /\ Encloses(z, name) /\ ~async
         /\ name \notin DOMAIN alias => IsClosest(z, zones, name)
<1>1. MaxChain \in Nat \ {0} /\ Cardinality(Aliases) \in Nat /\ Reach \in Nat
  BY FollowedIsTrail, LookupAssumption DEF Reach
<1>2. z \in DOMAIN response.authority /\ ~async /\ Encloses(z, name)
  BY DEF Named
<1>3. z \in zones /\ z \in DomainNames /\ \E n \in ChainEnd(CnameChain(name)) \ zones : IsClosest(z, zones, n)
  BY <1>2, AuthorityFacts
<1>4. ASSUME name \notin DOMAIN alias PROVE ChainEnd(CnameChain(name)) = {name}
  <2>1. PICK w : Trail(w, name, Reach)
    BY <1>1, TrailExists
  <2>2. w[0] = name /\ 0 \in 0..Reach /\ 0..(0 - 1) = {}
    BY <1>1, <2>1 DEF Trail
  <2>3. EndsAt(w, 0)
    BY <1>4, <2>2 DEF EndsAt
  <2>4. QED  BY <2>1, <2>2, <2>3, EndIsOne
<1>5. QED  BY <1>2, <1>3, <1>4

\* What the search rests on.
LookupTypes ==
    wanted \in DomainNames /\ name \in DomainNames
    /\ searching \in {"idle", "asking", "answered", "found", "raised"}
StillInside ==
    Encloses(name, wanted) /\ \A z \in zones : Encloses(z, wanted) => Encloses(z, name)
FoundTheZone ==
    /\ name \in zones /\ Encloses(name, wanted)
    /\ async \/ (\A n \in DOMAIN alias : ~Encloses(n, wanted)) => name = Closest(zones, wanted)
LookupInv ==
    /\ LookupTypes
    /\ searching # "idle" => ServersKnow
    /\ searching \in {"asking", "answered"} => StillInside
    /\ searching = "answered" => TrueAnswer
    /\ searching = "found" => FoundTheZone

LEMMA LookupInvImplies == LookupInv => ZoneIsClosest
<1> SUFFICES ASSUME LookupInv PROVE ZoneIsClosest
  OBVIOUS
<1>1. searching = "answered" =>
        IF ResolveChaining(response, name).end \notin Raised
        THEN \A n \in DOMAIN response.cnames : ResolveChaining(response, name).ttl <= response.cnames[n].ttl
        ELSE ChainEnd(CnameChain(name)) = {} \/ Cardinality(DOMAIN response.cnames) >= MaxChain
  BY AnswerIsFair DEF LookupInv, LookupTypes
<1>2. QED  BY <1>1 DEF ZoneIsClosest, LookupInv, FoundTheZone

LEMMA LookupBegins == LookupInit => LookupInv
BY LookupAssumption DEF LookupInit, LookupInv, LookupTypes

\* The search goes on where the servers and the response stay as they are.
LEMMA ResponseStays ==
  ASSUME UNCHANGED <<zones, alias, lifetimes, response, name>>, TrueAnswer
  PROVE  TrueAnswer'
<1> DEFINE owners == CnameChain(name)
           ends == ChainEnd(owners)
<1>1. CnameChain(name)' = owners /\ ChainEnd(CnameChain(name))' = ends
  BY DEF CnameChain, Followed, ChainEnd
<1>2. /\ DOMAIN response.cnames = owners \cap DOMAIN alias
      /\ \A n \in owners \cap DOMAIN alias :
           response.cnames[n].target = alias[n] /\ response.cnames[n].ttl = lifetimes[n]
      /\ DOMAIN response.soa = ends \cap zones
      /\ \A n \in DOMAIN response.soa : response.soa[n] \in Nat
      /\ \A z \in DOMAIN response.authority :
           response.authority[z] \in Nat /\ \E n \in ends \ zones : z = Closest(zones, n)
      /\ response.rcode = "NXDOMAIN" => ends \ zones # {}
  BY DEF TrueAnswer
<1> HIDE DEF owners, ends
<1>3. QED  BY <1>1, <1>2 DEF TrueAnswer, Closest

LEMMA ServersStay ==
  ASSUME UNCHANGED <<zones, alias, lifetimes>>, ServersKnow
  PROVE  ServersKnow'
BY DEF ServersKnow

LEMMA LookupStays ==
  ASSUME LookupInv, UNCHANGED lookupVars
  PROVE  LookupInv'
<1>1. UNCHANGED <<zones, alias, lifetimes, async, wanted, name, response, searching>>
  BY DEF lookupVars
<1>2. LookupTypes' /\ (searching \in {"asking", "answered"} => StillInside')
  BY <1>1 DEF LookupInv, LookupTypes, StillInside
<1>3. (searching # "idle" => ServersKnow') /\ (searching = "answered" => TrueAnswer')
  BY <1>1, ServersStay, ResponseStays DEF LookupInv
<1>4. searching = "found" => FoundTheZone'
  BY <1>1 DEF LookupInv, FoundTheZone, Closest
<1>5. QED  BY <1>1, <1>2, <1>3, <1>4 DEF LookupInv

LEMMA ZoneForNameKeeps ==
  ASSUME LookupInv, ZoneForName
  PROVE  LookupInv'
<1>1. wanted' \in DomainNames /\ name' = wanted' /\ searching' = "asking"
  BY DEF ZoneForName
<1>2. << >> \in zones' /\ zones' \subseteq DomainNames
  <2>1. PICK more \in SUBSET (DomainNames \ {<< >>}) : zones' = {<< >>} \cup more
    BY DEF ZoneForName
  <2>2. QED  BY <2>1, LookupAssumption
<1>3. alias' \in [DOMAIN alias' -> DomainNames] /\ DOMAIN alias' \subseteq Aliases \ zones'
  <2>1. PICK owners \in SUBSET (Aliases \ zones') : alias' \in [owners -> DomainNames]
    BY DEF ZoneForName
  <2>2. DOMAIN alias' = owners
    BY <2>1
  <2>3. QED  BY <2>1, <2>2
<1>4. lifetimes' \in [DOMAIN alias' -> Nat]
  <2>1. lifetimes' \in [DOMAIN alias' -> 0..MaxTtl - 1]
    BY DEF ZoneForName
  <2>2. (0..MaxTtl - 1) \subseteq Nat
    BY LookupAssumption
  <2>3. QED  BY <2>1, <2>2
<1>5. ServersKnow'
  BY <1>2, <1>3, <1>4 DEF ServersKnow
<1>6. Encloses(wanted', wanted')
  BY <1>1, EnclosesFacts
<1>7. StillInside'
  BY <1>1, <1>6 DEF StillInside
<1>8. QED  BY <1>1, <1>5, <1>7 DEF LookupInv, LookupTypes

LEMMA AnsweredKeeps ==
  ASSUME LookupInv, Answered
  PROVE  LookupInv'
<1> DEFINE owners == CnameChain(name)
           ends == ChainEnd(owners)
           cnames == [n \in owners \cap DOMAIN alias |-> [target |-> alias[n], ttl |-> lifetimes[n]]]
           data == [n \in ends \cap zones |-> 1]
           denied == ends \ zones
<1>1. /\ searching = "asking" /\ searching' = "answered"
      /\ UNCHANGED <<zones, alias, lifetimes, async, wanted, name>>
  BY DEF Answered
<1>2. ServersKnow /\ StillInside /\ LookupTypes
  BY <1>1 DEF LookupInv
<1>3. PICK rcode \in {"NOERROR"} \cup (IF denied = {} THEN {} ELSE {"NXDOMAIN"}), says \in BOOLEAN, ttl \in 0..1 :
         response' = [rcode |-> rcode, cnames |-> cnames, soa |-> data,
                      authority |-> IF says THEN [z \in {Closest(zones, n) : n \in denied} |-> ttl] ELSE << >>]
  BY DEF Answered
<1>4. CnameChain(name)' = owners /\ ChainEnd(CnameChain(name))' = ends
  BY <1>1 DEF CnameChain, Followed, ChainEnd
<1>5. /\ DOMAIN cnames = owners \cap DOMAIN alias
      /\ \A n \in owners \cap DOMAIN alias : cnames[n].target = alias[n] /\ cnames[n].ttl = lifetimes[n]
      /\ DOMAIN data = ends \cap zones /\ \A n \in DOMAIN data : data[n] = 1
  OBVIOUS
<1> DEFINE Z == {Closest(zones, n) : n \in denied}
           authority == IF says THEN [z \in Z |-> ttl] ELSE << >>
<1>6. \A z \in DOMAIN authority : authority[z] \in Nat /\ z \in Z
  <2> HIDE DEF Z
  <2>1. DOMAIN << >> = {} /\ ttl \in Nat
    OBVIOUS
  <2>2. QED  BY <2>1
<1>7. \A z \in Z : \E n \in denied : z = Closest(zones, n)
  OBVIOUS
<1>8. rcode = "NXDOMAIN" => denied # {}
  BY <1>3
<1>9. /\ response'.rcode = rcode /\ response'.cnames = cnames /\ response'.soa = data
      /\ response'.authority = authority
  BY <1>3
<1>10. \A n : Closest(zones, n)' = Closest(zones, n)
  BY <1>1 DEF Closest
<1> HIDE DEF owners, ends, cnames, data, authority, Z
<1>11. TrueAnswer'
  <2>1. /\ response'.cnames = cnames /\ DOMAIN cnames = owners \cap DOMAIN alias'
        /\ \A n \in owners \cap DOMAIN alias' : cnames[n].target = alias'[n] /\ cnames[n].ttl = lifetimes'[n]
    BY <1>1, <1>5, <1>9
  <2>2. /\ response'.soa = data /\ DOMAIN data = ends \cap zones'
        /\ \A n \in DOMAIN data : data[n] \in Nat
    BY <1>1, <1>5, <1>9
  <2>3. \A z \in DOMAIN authority :
          authority[z] \in Nat /\ \E n \in ends \ zones : z = Closest(zones, n)
    BY <1>6, <1>7
  <2>4. response'.rcode = "NXDOMAIN" => ends \ zones # {}
    BY <1>8, <1>9
  <2>5. QED  BY <1>1, <1>4, <1>9, <2>1, <2>2, <2>3, <2>4 DEF TrueAnswer, Closest
<1>12. ServersKnow'
  BY <1>1, <1>2, ServersStay
<1>13. StillInside' /\ LookupTypes'
  BY <1>1, <1>2 DEF StillInside, LookupTypes
<1>14. QED  BY <1>1, <1>11, <1>12, <1>13 DEF LookupInv

LEMMA JudgedKeeps ==
  ASSUME LookupInv, ResponseJudged
  PROVE  LookupInv'
<1> DEFINE answer == ResolveChaining(response, name)
<1>1. searching = "answered" /\ Judge /\ UNCHANGED <<zones, alias, lifetimes, async, wanted, response>>
  BY DEF ResponseJudged
<1>2. ServersKnow /\ TrueAnswer /\ StillInside /\ wanted \in DomainNames /\ name \in DomainNames
  BY <1>1 DEF LookupInv, LookupTypes
<1>3. ServersKnow'
  BY <1>1, <1>2, ServersStay
<1>4. name \in zones <=> answer.end = "answer" /\ answer.n = name
  BY <1>2, AnswerIsZone
<1>5. (CASE answer.end \in Raised
               -> searching' = "raised" /\ UNCHANGED name
        [] answer.end = "answer" /\ answer.n = name -> Return(name)
        [] answer.end = "no answer" /\ Named # {} -> \E z \in Named : Return(z)
        [] OTHER -> LookHigher)
  BY <1>1 DEF Judge
<1> HIDE DEF answer
<1>6. ASSUME NEW z \in zones, Encloses(z, name), Return(z),
             async \/ (\A n \in DOMAIN alias : ~Encloses(n, wanted)) => IsClosest(z, zones, name)
      PROVE  LookupInv'
  <2>1. searching' = "found" /\ name' = z /\ z \in DomainNames
    BY <1>2, <1>6 DEF Return, ServersKnow
  <2>2. Encloses(z, wanted)
    BY <1>2, <1>6, <2>1, EnclosesFacts DEF StillInside
  <2>3. ASSUME IsClosest(z, zones, name) PROVE z = Closest(zones, wanted)
    <3>1. \A y \in zones : Encloses(y, wanted) => Len(y) <= Len(z)
      BY <1>2, <2>3 DEF IsClosest, StillInside
    <3>2. IsClosest(z, zones, wanted)
      BY <2>2, <3>1 DEF IsClosest
    <3>3. zones \in SUBSET DomainNames /\ \E y \in zones : Encloses(y, wanted)
      BY <1>2, <2>2 DEF ServersKnow
    <3>4. QED  BY <1>2, <3>2, <3>3, ClosestFacts
  <2>4. Closest(zones, wanted)' = Closest(zones, wanted)
    BY <1>1 DEF Closest
  <2>5. FoundTheZone'
    BY <1>1, <1>6, <2>1, <2>2, <2>3, <2>4 DEF FoundTheZone
  <2>6. QED  BY <1>1, <1>2, <1>3, <2>1, <2>5 DEF LookupInv, LookupTypes
<1>7. ASSUME searching' = "raised", UNCHANGED name PROVE LookupInv'
  BY <1>1, <1>2, <1>3, <1>7 DEF LookupInv, LookupTypes
<1>8. CASE answer.end \in Raised
  BY <1>5, <1>7, <1>8 DEF Raised
<1>9. CASE answer.end = "answer" /\ answer.n = name
  <2>1. Return(name)
    BY <1>5, <1>9 DEF Raised
  <2>2. name \in zones /\ Encloses(name, name) /\ \A y \in zones : y \in DomainNames
    BY <1>2, <1>4, <1>9, EnclosesFacts DEF ServersKnow
  <2>3. \A y \in zones : Encloses(y, name) => Len(y) <= Len(name)
    BY <1>2, <2>2, EnclosesMeans
  <2>4. IsClosest(name, zones, name)
    BY <2>2, <2>3 DEF IsClosest
  <2>5. QED  BY <1>6, <2>1, <2>2, <2>4
<1>10. CASE answer.end = "no answer" /\ Named # {}
  <2>1. PICK z \in Named : Return(z)
    BY <1>5, <1>10 DEF Raised
  <2>2. /\ z \in zones /\ z \in DomainNames /\ Encloses(z, name) /\ ~async
        /\ name \notin DOMAIN alias => IsClosest(z, zones, name)
    BY <1>2, NamedIsZone
  <2>3. (\A n \in DOMAIN alias : ~Encloses(n, wanted)) => name \notin DOMAIN alias
    BY <1>2 DEF StillInside
  <2>4. QED  BY <1>6, <2>1, <2>2, <2>3
<1>11. CASE /\ answer.end \notin Raised
            /\ ~(answer.end = "answer" /\ answer.n = name)
            /\ ~(answer.end = "no answer" /\ Named # {})
  <2>1. LookHigher
    BY <1>5, <1>11
  <2>2. CASE name = << >>
    BY <1>7, <2>1, <2>2 DEF LookHigher
  <2>3. CASE name # << >>
    <3> DEFINE t == Tail(name)
    <3>1. searching' = "asking" /\ name' = t
      BY <2>1, <2>3 DEF LookHigher
    <3>2. t \in DomainNames /\ Encloses(t, name) /\ \A z \in DomainNames : Encloses(z, name) /\ z # name => Encloses(z, t)
      BY <1>2, <2>3, DomainNameFacts, EnclosesParent
    <3> HIDE DEF t
    <3>3. name \notin zones
      BY <1>4, <1>11
    <3>4. Encloses(t, wanted)
      BY <1>2, <3>2, EnclosesFacts DEF StillInside
    <3>5. \A z \in zones : Encloses(z, wanted) => Encloses(z, t)
      BY <1>2, <3>2, <3>3 DEF StillInside, ServersKnow
    <3>6. StillInside'
      BY <1>1, <3>1, <3>4, <3>5 DEF StillInside
    <3>7. QED  BY <1>1, <1>2, <1>3, <3>1, <3>2, <3>6 DEF LookupInv, LookupTypes
  <2>4. QED  BY <2>2, <2>3
<1>12. QED  BY <1>8, <1>9, <1>10, <1>11

\* The zone that zone_for_name() finds is the one that the name is in, whatever
\* names there are, however they are aliases, and however long a chain may be.
THEOREM ZonesAreClosest == LookupSpec => []ZoneIsClosest
<1>1. LookupInit => LookupInv
  BY LookupBegins
<1>2. LookupInv /\ [LookupNext]_lookupVars => LookupInv'
  <2>1. ASSUME LookupInv, LookupNext PROVE LookupInv'
    BY <2>1, ZoneForNameKeeps, AnsweredKeeps, JudgedKeeps DEF LookupNext
  <2>2. QED  BY <2>1, LookupStays
<1>3. QED  BY <1>1, <1>2, LookupInvImplies, PTL DEF LookupSpec
-----------------------------------------------------------------------------
(* DnsMessage.  A mark says what name is spelled from a place of the wire    *)
(* on: its first label is there, or a pointer to a mark further back.  What  *)
(* is written keeps the marks of what was there, and reading follows them.   *)

MessageNames == OwnerNames \cup {rd.target : rd \in Rdatas} \cup {KeyName, << >>}
WireLabels == UNION {Range(n) : n \in MessageNames}

LEMMA MessageNameFacts ==
  ASSUME NEW n \in MessageNames
  PROVE  n \in Seq(WireLabels) /\ Len(n) \in Nat /\ Len(n) <= MaxLabels
<1>1. MaxLabels \in Nat \ {0}
  BY MessageAssumption
<1>2. n \in Seq(Range(n)) /\ Len(n) <= MaxLabels
  <2>1. CASE n \in OwnerNames \cup {rd.target : rd \in Rdatas}
    BY <2>1, MessageAssumption
  <2>2. CASE n = << >>
    BY <1>1, <2>2, EmptySeq
  <2>3. CASE n = KeyName
    <3>1. n = <<"key">> /\ Range(n) = {"key"}
      BY <2>3 DEF KeyName, Range
    <3>2. QED  BY <1>1, <3>1
  <2>4. QED  BY <2>1, <2>2, <2>3 DEF MessageNames
<1>3. Range(n) \subseteq WireLabels
  BY DEF WireLabels
<1>4. n \in Seq(WireLabels)
  BY <1>2, <1>3, SeqMonotonic
<1>5. QED  BY <1>2, <1>4, LenProperties

\* n is spelled at a, in what was written from s to e.
MarkRecords == [n : Seq(WireLabels), a : Nat, s : Nat, e : Nat]
LabelMark(m, M, wire) ==
    /\ m.n # << >> /\ wire[m.a + 1] = <<"label", Head(m.n)>>
    /\ \E x \in M : x.n = Tail(m.n) /\ x.a = m.a + 1 /\ x.s = m.s /\ x.e = m.e
PointerMark(m, M, wire) ==
    /\ m.n # << >> /\ m.e = m.a + 1
    /\ \E x \in M : x.n = m.n /\ x.e <= m.s /\ wire[m.a + 1] = <<"pointer", x.a>>
RootMark(m, wire) == m.n = << >> /\ m.e = m.a + 1 /\ wire[m.a + 1] = <<"root">>
MarkOK(m, M, wire) ==
    /\ m \in MarkRecords /\ m.s <= m.a /\ m.a < m.e /\ m.e <= Len(wire)
    /\ LabelMark(m, M, wire) \/ PointerMark(m, M, wire) \/ RootMark(m, wire)
MarksOK(M, wire) == \A m \in M : MarkOK(m, M, wire)

ReadStates == [at : Nat, biggest : Nat, labels : Seq(WireLabels), next : Nat, end : {"none", "root", "FormError"}]

\* Where reading the name of a mark is after k turns.
AtMark(r, m, x) ==
    /\ x.a = r.at /\ x.s <= r.biggest /\ x.e <= m.e
    /\ r.labels \o x.n = m.n
    /\ r.next = 0 => x.e = m.e
    /\ r.next # 0 => r.next = m.e
ReadsOn(r, m, M, part, k) ==
    /\ r \in ReadStates
    /\ r.end = "none" => /\ r.biggest <= m.a /\ k <= Len(r.labels) + (m.a - r.biggest)
                         /\ \E x \in M : AtMark(r, m, x)
    /\ r.end = "root" => r.labels = m.n /\ r.next = m.e
    /\ r.end = "FormError" => Len(part) < m.e

\* The beginning of a wire.
PartOf(part, wire) == Len(part) \in Nat /\ Len(part) <= Len(wire) /\ \A i \in 1..Len(part) : part[i] = wire[i]

LEMMA OneLabel ==
  ASSUME NEW l \in Seq(WireLabels), NEW n \in Seq(WireLabels), n # << >>
  PROVE  /\ Append(l, Head(n)) \in Seq(WireLabels) /\ Len(Append(l, Head(n))) = Len(l) + 1
         /\ Append(l, Head(n)) \o Tail(n) = l \o n
<1> DEFINE h == Head(n)
           t == Tail(n)
           a == Append(l, h)
<1>1. /\ h = n[1] /\ h \in WireLabels /\ t \in Seq(WireLabels) /\ Len(t) = Len(n) - 1 /\ Len(n) \in Nat \ {0}
      /\ \A i \in 1..(Len(n) - 1) : t[i] = n[i + 1]
  BY TailFacts
<1> HIDE DEF h, t
<1>2. /\ a \in Seq(WireLabels) /\ Len(a) = Len(l) + 1 /\ a[Len(l) + 1] = h /\ Len(l) \in Nat
      /\ \A i \in 1..Len(l) : a[i] = l[i]
  BY <1>1, AppendProperties, LenProperties
<1> HIDE DEF a
<1>3. /\ a \o t \in Seq(WireLabels) /\ Len(a \o t) = Len(a) + Len(t)
      /\ \A i \in 1..(Len(a) + Len(t)) : (a \o t)[i] = IF i <= Len(a) THEN a[i] ELSE t[i - Len(a)]
  BY <1>1, <1>2, ConcatFacts
<1>4. /\ l \o n \in Seq(WireLabels) /\ Len(l \o n) = Len(l) + Len(n)
      /\ \A i \in 1..(Len(l) + Len(n)) : (l \o n)[i] = IF i <= Len(l) THEN l[i] ELSE n[i - Len(l)]
  BY ConcatFacts
<1>5. ASSUME NEW i \in 1..(Len(l) + Len(n)) PROVE (a \o t)[i] = (l \o n)[i]
  <2>1. i \in 1..(Len(a) + Len(t))
    BY <1>1, <1>2
  <2>2. CASE i \in 1..Len(l)
    BY <1>2, <1>3, <1>4, <2>1, <2>2
  <2>3. CASE i = Len(l) + 1
    <3>1. (a \o t)[i] = h
      BY <1>2, <1>3, <2>1, <2>3
    <3>2. i - Len(l) = 1 /\ ~(i <= Len(l))
      BY <1>2, <2>3
    <3>3. QED  BY <1>1, <1>4, <3>1, <3>2
  <2>4. CASE i > Len(l) + 1
    <3> DEFINE j == i - Len(a)
    <3>1. j \in 1..(Len(n) - 1) /\ j + 1 = i - Len(l) /\ ~(i <= Len(a)) /\ ~(i <= Len(l))
      BY <1>1, <1>2, <2>4
    <3> HIDE DEF j
    <3>2. t[j] = n[j + 1]
      BY <1>1, <3>1
    <3>3. (a \o t)[i] = t[j]
      BY <1>3, <2>1, <3>1 DEF j
    <3>4. QED  BY <1>4, <3>1, <3>2, <3>3
  <2>5. Len(l) \in Nat /\ Len(n) \in Nat
    BY <1>1, <1>2
  <2>6. i \in 1..Len(l) \/ i = Len(l) + 1 \/ i > Len(l) + 1
    BY <2>5
  <2>7. QED  BY <2>2, <2>3, <2>4, <2>6
<1>6. a \o t = l \o n
  <2>1. Len(a \o t) = Len(l \o n) /\ Len(l \o n) = Len(l) + Len(n)
    BY <1>1, <1>2, <1>3, <1>4
  <2>2. QED  BY <1>3, <1>4, <1>5, <2>1, SeqEqual
<1>7. QED  BY <1>2, <1>6 DEF a, t, h

LEMMA OneTurnOn ==
  ASSUME NEW wire, NEW M, MarksOK(M, wire), NEW part, PartOf(part, wire), NEW m \in M,
         NEW k \in Nat, NEW r, ReadsOn(r, m, M, part, k)
  PROVE  ReadsOn(LabelTurn(part, r), m, M, part, k + 1)
<1> DEFINE t == LabelTurn(part, r)
           cell == part[r.at + 1]
           behind == IF r.next = 0 THEN r.at + 1 ELSE r.next
<1>1. /\ r \in ReadStates /\ r.at \in Nat /\ r.biggest \in Nat /\ r.next \in Nat /\ r.labels \in Seq(WireLabels)
      /\ Len(r.labels) \in Nat
  BY LenProperties DEF ReadsOn, ReadStates
<1>2. /\ m \in MarkRecords /\ m.a \in Nat /\ m.e \in Nat /\ m.a < m.e
  BY DEF MarksOK, MarkOK, MarkRecords
<1>3. CASE r.end # "none"
  <2>1. t = r
    BY <1>3 DEF LabelTurn
  <2>2. QED  BY <1>3, <2>1 DEF ReadsOn
<1>4. CASE r.end = "none"
  <2>1. PICK x \in M : AtMark(r, m, x)
    BY <1>4 DEF ReadsOn
  <2>2. r.biggest <= m.a /\ k <= Len(r.labels) + (m.a - r.biggest)
    BY <1>4 DEF ReadsOn
  <2>3. /\ x.a = r.at /\ x.s <= r.biggest /\ x.e <= m.e /\ r.labels \o x.n = m.n
        /\ r.next = 0 => x.e = m.e
        /\ r.next # 0 => r.next = m.e
    BY <2>1 DEF AtMark
  <2>4. /\ x \in MarkRecords /\ x.n \in Seq(WireLabels) /\ x.a \in Nat /\ x.s \in Nat /\ x.e \in Nat
        /\ x.a < x.e /\ x.s <= x.a
        /\ LabelMark(x, M, wire) \/ PointerMark(x, M, wire) \/ RootMark(x, wire)
    BY DEF MarksOK, MarkOK, MarkRecords
  <2>5. CASE r.at >= Len(part)
    <3>1. t = [r EXCEPT !.end = "FormError"]
      BY <1>4, <2>5 DEF LabelTurn
    <3> HIDE DEF t
    <3>2. t \in ReadStates /\ t.end = "FormError"
      BY <1>1, <3>1 DEF ReadStates
    <3>3. Len(part) < m.e
      BY <1>1, <1>2, <2>3, <2>4, <2>5 DEF PartOf
    <3>4. QED  BY <3>2, <3>3 DEF ReadsOn, t
  <2>6. CASE ~(r.at >= Len(part))
    <3>1. t = CASE cell[1] = "label" -> [r EXCEPT !.at = @ + 1, !.labels = Append(@, cell[2])]
                [] cell[1] = "pointer" /\ cell[2] < r.biggest ->
                     [r EXCEPT !.at = cell[2], !.biggest = cell[2], !.next = behind]
                [] cell[1] = "root" -> [r EXCEPT !.end = "root", !.next = behind]
                [] OTHER -> [r EXCEPT !.end = "FormError"]
      BY <1>4, <2>6 DEF LabelTurn
    <3>2. cell = wire[x.a + 1]
      <4>1. r.at + 1 \in 1..Len(part)
        BY <1>1, <2>6 DEF PartOf
      <4>2. QED  BY <2>3, <4>1 DEF PartOf
    <3>3. behind \in Nat
      BY <1>1
    <3> HIDE DEF t, cell, behind
    <3>4. CASE LabelMark(x, M, wire)
      <4>1. x.n # << >> /\ cell = <<"label", Head(x.n)>>
        BY <3>2, <3>4 DEF LabelMark
      <4>2. PICK y \in M : y.n = Tail(x.n) /\ y.a = x.a + 1 /\ y.s = x.s /\ y.e = x.e
        BY <3>4 DEF LabelMark
      <4> DEFINE l == Append(r.labels, Head(x.n))
      <4>3. l \in Seq(WireLabels) /\ Len(l) = Len(r.labels) + 1 /\ l \o y.n = m.n
        BY <1>1, <2>3, <2>4, <4>1, <4>2, OneLabel
      <4> HIDE DEF l
      <4>4. t = [r EXCEPT !.at = r.at + 1, !.labels = l]
        BY <3>1, <4>1 DEF l
      <4> DEFINE at == r.at + 1
      <4>9. at \in Nat
        BY <1>1
      <4> HIDE DEF at
      <4>10. t = [r EXCEPT !.at = at, !.labels = l]
        BY <4>4 DEF at
      <4>11. /\ t \in ReadStates /\ t.end = "none" /\ t.at = at /\ t.labels = l
             /\ t.biggest = r.biggest /\ t.next = r.next
        BY <1>1, <1>4, <4>3, <4>9, <4>10 DEF ReadStates
      <4>5. /\ t \in ReadStates /\ t.end = "none" /\ t.at = r.at + 1 /\ t.labels = l
            /\ t.biggest = r.biggest /\ t.next = r.next
        BY <4>11 DEF at
      <4>6. AtMark(t, m, y)
        BY <2>3, <4>2, <4>3, <4>5 DEF AtMark
      <4>7. t.biggest <= m.a /\ k + 1 <= Len(t.labels) + (m.a - t.biggest)
        BY <1>1, <1>2, <2>2, <4>3, <4>5
      <4>8. QED  BY <4>5, <4>6, <4>7 DEF ReadsOn, t
    <3>5. CASE PointerMark(x, M, wire)
      <4>1. x.n # << >> /\ x.e = x.a + 1
        BY <3>5 DEF PointerMark
      <4>2. PICK y \in M : y.n = x.n /\ y.e <= x.s /\ cell = <<"pointer", y.a>>
        BY <3>2, <3>5 DEF PointerMark
      <4>3. y.a \in Nat /\ y.s \in Nat /\ y.e \in Nat /\ y.a < y.e /\ y.s <= y.a
        BY DEF MarksOK, MarkOK, MarkRecords
      <4>4. y.a < r.biggest /\ y.e <= m.e
        <5>1. y.a < y.e /\ y.e <= x.s /\ x.s <= r.biggest /\ x.s <= x.a /\ x.a < x.e /\ x.e <= m.e
          BY <2>3, <2>4, <4>2, <4>3
        <5>2. y.a \in Nat /\ y.e \in Nat /\ x.s \in Nat /\ r.biggest \in Nat /\ x.a \in Nat /\ x.e \in Nat /\ m.e \in Nat
          BY <1>1, <1>2, <2>4, <4>3
        <5>3. QED  BY <5>1, <5>2
      <4>5. behind = m.e
        BY <2>3, <4>1 DEF behind
      <4>6. t = [r EXCEPT !.at = y.a, !.biggest = y.a, !.next = m.e]
        BY <3>1, <4>2, <4>4, <4>5
      <4>7. /\ t \in ReadStates /\ t.end = "none" /\ t.at = y.a /\ t.labels = r.labels
            /\ t.biggest = y.a /\ t.next = m.e
        BY <1>1, <1>2, <1>4, <4>3, <4>6 DEF ReadStates
      <4>8. AtMark(t, m, y)
        <5>1. y.s <= y.a /\ m.e # 0
          BY <1>2, <4>3
        <5>2. QED  BY <2>3, <4>2, <4>4, <4>7, <5>1 DEF AtMark
      <4>9. t.biggest <= m.a /\ k + 1 <= Len(t.labels) + (m.a - t.biggest)
        BY <1>1, <1>2, <2>2, <4>3, <4>4, <4>7
      <4>10. QED  BY <4>7, <4>8, <4>9 DEF ReadsOn, t
    <3>6. CASE RootMark(x, wire)
      <4>1. x.n = << >> /\ x.e = x.a + 1 /\ cell = <<"root">>
        BY <3>2, <3>6 DEF RootMark
      <4>2. r.labels = m.n
        BY <1>1, <2>3, <4>1, ConcatEmptySeq
      <4>3. behind = m.e
        BY <2>3, <4>1 DEF behind
      <4>4. t = [r EXCEPT !.end = "root", !.next = m.e]
        BY <3>1, <4>1, <4>3
      <4>5. t \in ReadStates /\ t.end = "root" /\ t.labels = r.labels /\ t.next = m.e
        BY <1>1, <1>2, <4>4 DEF ReadStates
      <4>6. QED  BY <4>2, <4>5 DEF ReadsOn, t
    <3>7. QED  BY <2>4, <3>4, <3>5, <3>6
  <2>7. QED  BY <2>5, <2>6
<1>5. QED  BY <1>3, <1>4

\* What a mark says of a part of its wire.
NameRead(part, m) ==
    /\ m.e <= Len(part) => ReadName(part, m.a).error = "none"
    /\ ReadName(part, m.a).error = "none" => ReadName(part, m.a).labels = m.n /\ ReadName(part, m.a).next = m.e

TurnsAt(at) == [at |-> at, biggest |-> at, labels |-> << >>, next |-> 0, end |-> "none"]
IsReading(f, part, at) ==
    f = [k \in 0..NameTurns(at) |-> IF k = 0 THEN TurnsAt(at) ELSE LabelTurn(part, f[k - 1])]

LEMMA LabelTurnsAre ==
  ASSUME NEW part, NEW at
  PROVE  LabelTurns(part, at) = CHOOSE f : IsReading(f, part, at)
BY DEF LabelTurns, IsReading, TurnsAt

LEMMA TurnsReadOn ==
  ASSUME NEW wire, NEW M, MarksOK(M, wire), NEW part, PartOf(part, wire), NEW m \in M
  PROVE  ReadsOn(LabelTurns(part, m.a)[NameTurns(m.a)], m, M, part, NameTurns(m.a))
<1> DEFINE at == m.a
           last == NameTurns(at)
           start == TurnsAt(at)
           X == {r \in ReadStates : \E k \in Nat : ReadsOn(r, m, M, part, k)}
           g == [r \in X |-> LabelTurn(part, r)]
<1>1. /\ m \in MarkRecords /\ m.a \in Nat /\ m.s \in Nat /\ m.e \in Nat /\ m.n \in Seq(WireLabels) /\ m.s <= m.a
      /\ last \in Nat
  BY MessageAssumption DEF MarksOK, MarkOK, MarkRecords, NameTurns
<1> HIDE DEF last
<1>2. ReadsOn(start, m, M, part, 0)
  <2>1. start \in ReadStates /\ start.end = "none" /\ start.biggest = m.a /\ start.at = m.a /\ start.next = 0 /\ start.labels = << >>
    BY <1>1, EmptySeq DEF TurnsAt, ReadStates
  <2> HIDE DEF start
  <2>2. << >> \o m.n = m.n
    BY <1>1, ConcatEmptySeq
  <2>3. AtMark(start, m, m)
    BY <1>1, <2>1, <2>2 DEF AtMark
  <2>4. start.biggest <= m.a /\ 0 <= Len(start.labels) + (m.a - start.biggest)
    <3>1. Len(start.labels) = 0
      BY <2>1, EmptySeq
    <3>2. QED  BY <1>1, <2>1, <3>1
  <2>5. QED  BY <2>1, <2>3, <2>4 DEF ReadsOn
<1> HIDE DEF start
<1>3. start \in X
  BY <1>2 DEF ReadsOn
<1>4. ASSUME NEW r \in X PROVE LabelTurn(part, r) \in X
  <2>1. PICK k \in Nat : ReadsOn(r, m, M, part, k)
    OBVIOUS
  <2>2. ReadsOn(LabelTurn(part, r), m, M, part, k + 1)
    BY <2>1, OneTurnOn
  <2>3. k + 1 \in Nat
    OBVIOUS
  <2>4. LabelTurn(part, r) \in ReadStates
    BY <2>2 DEF ReadsOn
  <2>5. QED  BY <2>2, <2>3, <2>4
<1>5. g \in [X -> X] /\ \A r \in X : g[r] = LabelTurn(part, r)
  BY <1>4
<1> HIDE DEF X, g
<1>6. PICK h : Repeats(h, X, start, g, last)
  BY <1>1, <1>3, <1>5, RepeatExists
<1>7. h \in [0..last -> X] /\ h[0] = start /\ \A k \in 1..last : h[k] = g[h[k - 1]]
  BY <1>6 DEF Repeats
<1>8. IsReading(h, part, at)
  <2>1. ASSUME NEW k \in 0..last
        PROVE  h[k] = IF k = 0 THEN start ELSE LabelTurn(part, h[k - 1])
    <3>1. CASE k = 0
      BY <1>7, <3>1
    <3>2. CASE k # 0
      <4>1. k \in 1..last /\ k - 1 \in 0..last
        BY <1>1, <3>2
      <4>2. h[k] = g[h[k - 1]] /\ h[k - 1] \in X
        BY <1>7, <4>1
      <4>3. QED  BY <1>5, <3>2, <4>2
    <3>3. QED  BY <3>1, <3>2
  <2>2. QED  BY <1>7, <2>1 DEF IsReading, last, start
<1> DEFINE f == LabelTurns(part, at)
<1>9. IsReading(f, part, at)
  BY <1>8, LabelTurnsAre
<1> HIDE DEF f
<1>10. f[0] = start /\ \A k \in 1..last : f[k] = LabelTurn(part, f[k - 1])
  <2>1. 0 \in 0..last /\ \A k \in 1..last : k \in 0..last /\ k # 0
    BY <1>1
  <2>2. \A k \in 0..last : f[k] = IF k = 0 THEN start ELSE LabelTurn(part, f[k - 1])
    BY <1>9 DEF IsReading, last, start
  <2>3. QED  BY <2>1, <2>2
<1> DEFINE N == {k \in Nat : k <= last => ReadsOn(f[k], m, M, part, k)}
<1>11. 0 \in N
  BY <1>2, <1>10
<1>12. ASSUME NEW k \in N PROVE k + 1 \in N
  <2> DEFINE i == k + 1
  <2>1. k \in Nat /\ i \in Nat /\ i - 1 = k /\ (i <= last => k <= last /\ i \in 1..last)
    BY <1>1
  <2>2. ASSUME i <= last PROVE ReadsOn(f[i], m, M, part, i)
    <3>1. ReadsOn(f[k], m, M, part, k) /\ f[i] = LabelTurn(part, f[k])
      BY <1>10, <2>1, <2>2
    <3>2. QED  BY <2>1, <3>1, OneTurnOn
  <2> HIDE DEF i
  <2>3. i \in N
    BY <2>1, <2>2
  <2>4. QED  BY <2>3 DEF i
<1>13. N = Nat
  <2>1. N \in SUBSET Nat
    OBVIOUS
  <2> HIDE DEF N
  <2>2. QED  BY <1>11, <1>12, <2>1, SetInduction
<1>14. ReadsOn(f[last], m, M, part, last)
  BY <1>1, <1>13
<1>15. QED  BY <1>14 DEF f, last, at

LEMMA ReadsName ==
  ASSUME NEW wire, NEW M, MarksOK(M, wire), NEW part, PartOf(part, wire), NEW m \in M, Len(m.n) <= MaxLabels
  PROVE  NameRead(part, m)
<1> DEFINE at == m.a
           last == NameTurns(at)
           r == LabelTurns(part, at)[last]
<1>1. /\ m.a \in Nat /\ m.e \in Nat /\ m.n \in Seq(WireLabels) /\ Len(m.n) \in Nat
      /\ MaxLabels \in Nat /\ last = MaxLabels + at + 2
  BY MessageAssumption, LenProperties DEF MarksOK, MarkOK, MarkRecords, NameTurns
<1>2. ReadsOn(r, m, M, part, last)
  BY TurnsReadOn
<1>3. /\ ReadName(part, m.a).error = IF r.end = "root" /\ Len(r.labels) <= MaxLabels THEN "none" ELSE "FormError"
      /\ ReadName(part, m.a).labels = r.labels /\ ReadName(part, m.a).next = r.next
  BY DEF ReadName
<1> HIDE DEF r, last
<1>4. r.end # "none"
  <2>1. SUFFICES ASSUME r.end = "none" PROVE FALSE
    OBVIOUS
  <2>2. r \in ReadStates /\ r.biggest <= m.a /\ last <= Len(r.labels) + (m.a - r.biggest)
    BY <1>2, <2>1 DEF ReadsOn
  <2>3. PICK x \in M : AtMark(r, m, x)
    BY <1>2, <2>1 DEF ReadsOn
  <2>4. r.labels \in Seq(WireLabels) /\ x.n \in Seq(WireLabels) /\ r.biggest \in Nat /\ r.labels \o x.n = m.n
    BY <2>2, <2>3 DEF AtMark, ReadStates, MarksOK, MarkOK, MarkRecords
  <2>5. Len(r.labels) \in Nat /\ Len(x.n) \in Nat /\ Len(m.n) = Len(r.labels) + Len(x.n)
    BY <2>4, ConcatProperties, LenProperties
  <2>6. Len(r.labels) <= MaxLabels /\ Len(r.labels) \in Nat
    <3> DEFINE i == Len(r.labels)
               j == Len(x.n)
               l == Len(m.n)
    <3>1. i \in Nat /\ j \in Nat /\ l = i + j /\ l \in Nat /\ MaxLabels \in Nat
      BY <1>1, <2>5
    <3>2. l <= MaxLabels
      OBVIOUS
    <3> HIDE DEF i, j, l
    <3>3. i <= MaxLabels
      BY <3>1, <3>2
    <3>4. QED  BY <3>1, <3>3 DEF i
  <2>7. m.a - r.biggest <= m.a /\ m.a - r.biggest \in Int
    BY <1>1, <2>4
  <2>8. last \in Nat
    BY <1>1
  <2>9. last <= MaxLabels + m.a
    BY <1>1, <2>2, <2>6, <2>7, <2>8
  <2>10. QED  BY <1>1, <2>9
<1>5. r.end \in {"none", "root", "FormError"}
  BY <1>2 DEF ReadsOn, ReadStates
<1>6. CASE r.end = "root"
  <2>1. r.labels = m.n /\ r.next = m.e
    BY <1>2, <1>6 DEF ReadsOn
  <2>2. QED  BY <1>3, <1>6, <2>1 DEF NameRead
<1>7. CASE r.end = "FormError"
  <2>1. Len(part) < m.e
    BY <1>2, <1>7 DEF ReadsOn
  <2>2. ~(m.e <= Len(part))
    BY <1>1, <2>1 DEF PartOf
  <2>3. ReadName(part, m.a).error # "none"
    BY <1>3, <1>7
  <2>4. QED  BY <2>2, <2>3 DEF NameRead
<1>8. QED  BY <1>4, <1>5, <1>6, <1>7

-----------------------------------------------------------------------------
\* What is written.
PlainCells ==
    ({"header"} \X [1..4 -> Nat]) \cup ({"label"} \X WireLabels) \cup ({"pointer"} \X Nat)
    \cup ({"fixed"} \X {"A", "NS", "OPT"} \X Nat) \cup {<<"root">>, <<"address">>, <<"options">>}

Knows(table, M) ==
    \A n \in DOMAIN table : n \in Seq(WireLabels) /\ n # << >> /\ \E m \in M : m.n = n /\ m.a = table[n]
IsTable(table) == table = [n \in DOMAIN table |-> table[n]]
BufferOK(b, M) ==
    /\ b = [wire |-> b.wire, table |-> b.table]
    /\ b.wire \in Seq(PlainCells) /\ IsTable(b.table)
    /\ MarksOK(M, b.wire) /\ Knows(b.table, M)

\* c is b with more behind it.
Extends(b, c) ==
    /\ Len(b.wire) \in Nat /\ Len(c.wire) \in Nat /\ Len(b.wire) <= Len(c.wire)
    /\ \A i \in 1..Len(b.wire) : c.wire[i] = b.wire[i]
    /\ DOMAIN b.table \subseteq DOMAIN c.table
    /\ \A n \in DOMAIN b.table : c.table[n] = b.table[n]
    /\ \A n \in DOMAIN c.table \ DOMAIN b.table : c.table[n] \in Nat /\ Len(b.wire) <= c.table[n]

LEMMA MarksStay ==
  ASSUME NEW M, NEW v, NEW w, MarksOK(M, v), Len(v) \in Nat, Len(w) \in Nat, Len(v) <= Len(w),
         \A m \in M : w[m.a + 1] = v[m.a + 1]
  PROVE  MarksOK(M, w)
<1>1. ASSUME NEW m \in M PROVE MarkOK(m, M, w)
  <2>1. MarkOK(m, M, v) /\ w[m.a + 1] = v[m.a + 1]
    BY DEF MarksOK
  <2>2. m \in MarkRecords /\ m.s <= m.a /\ m.a < m.e /\ m.e <= Len(v)
    BY <2>1 DEF MarkOK
  <2>3. m.e <= Len(w)
    BY <2>2 DEF MarkRecords
  <2>4. LabelMark(m, M, v) => LabelMark(m, M, w)
    BY <2>1 DEF LabelMark
  <2>5. PointerMark(m, M, v) => PointerMark(m, M, w)
    BY <2>1 DEF PointerMark
  <2>6. RootMark(m, v) => RootMark(m, w)
    BY <2>1 DEF RootMark
  <2>7. QED  BY <2>1, <2>2, <2>3, <2>4, <2>5, <2>6 DEF MarkOK
<1>2. QED  BY <1>1 DEF MarksOK

LEMMA MarksBehind ==
  ASSUME NEW M, NEW v, NEW w, MarksOK(M, v), PartOf(v, w), Len(w) \in Nat
  PROVE  MarksOK(M, w)
<1>1. ASSUME NEW m \in M PROVE w[m.a + 1] = v[m.a + 1]
  <2>1. m.a \in Nat /\ m.e \in Nat /\ m.a < m.e /\ m.e <= Len(v)
    BY DEF MarksOK, MarkOK, MarkRecords
  <2>2. m.a + 1 \in 1..Len(v)
    BY <2>1 DEF PartOf
  <2>3. QED  BY <2>2 DEF PartOf
<1>2. QED  BY <1>1, MarksStay DEF PartOf

LEMMA ExtendsChain ==
  ASSUME NEW b, NEW c, NEW d, Extends(b, c), Extends(c, d)
  PROVE  Extends(b, d)
<1>1. /\ Len(b.wire) \in Nat /\ Len(c.wire) \in Nat /\ Len(d.wire) \in Nat
      /\ Len(b.wire) <= Len(c.wire) /\ Len(c.wire) <= Len(d.wire)
  BY DEF Extends
<1>2. ASSUME NEW i \in 1..Len(b.wire) PROVE d.wire[i] = b.wire[i]
  <2>1. i \in 1..Len(c.wire)
    BY <1>1
  <2>2. QED  BY <2>1 DEF Extends
<1>3. DOMAIN b.table \subseteq DOMAIN d.table /\ \A n \in DOMAIN b.table : d.table[n] = b.table[n]
  BY DEF Extends
<1>4. ASSUME NEW n \in DOMAIN d.table \ DOMAIN b.table PROVE d.table[n] \in Nat /\ Len(b.wire) <= d.table[n]
  <2>1. CASE n \in DOMAIN c.table
    <3>1. d.table[n] = c.table[n] /\ c.table[n] \in Nat /\ Len(b.wire) <= c.table[n]
      BY <2>1 DEF Extends
    <3>2. QED  BY <3>1
  <2>2. CASE n \notin DOMAIN c.table
    <3>1. d.table[n] \in Nat /\ Len(c.wire) <= d.table[n]
      BY <2>2 DEF Extends
    <3>2. QED  BY <1>1, <3>1
  <2>3. QED  BY <2>1, <2>2
<1>5. QED  BY <1>1, <1>2, <1>3, <1>4 DEF Extends

LEMMA PutFacts ==
  ASSUME NEW b, NEW M, BufferOK(b, M), NEW cells \in Seq(PlainCells)
  PROVE  /\ BufferOK(Put(b, cells), M) /\ Extends(b, Put(b, cells)) /\ Put(b, cells).table = b.table
         /\ Len(b.wire) \in Nat /\ Len(cells) \in Nat
         /\ Len(Put(b, cells).wire) = Len(b.wire) + Len(cells)
         /\ \A i \in 1..Len(cells) : Put(b, cells).wire[Len(b.wire) + i] = cells[i]
<1> DEFINE c == Put(b, cells)
           w == b.wire
           t == b.table
<1>1. b = [wire |-> w, table |-> t] /\ w \in Seq(PlainCells)
  BY DEF BufferOK
<1>2. /\ w \o cells \in Seq(PlainCells) /\ Len(w \o cells) = Len(w) + Len(cells)
      /\ Len(w) \in Nat /\ Len(cells) \in Nat
      /\ \A i \in 1..(Len(w) + Len(cells)) : (w \o cells)[i] = IF i <= Len(w) THEN w[i] ELSE cells[i - Len(w)]
  BY <1>1, ConcatFacts
<1> DEFINE v == w \o cells
<1>3. c = [wire |-> v, table |-> t]
  <2>1. c = [b EXCEPT !.wire = v]
    BY DEF Put
  <2> HIDE DEF c, v, w, t
  <2>2. QED  BY <1>1, <2>1
<1>4. c.wire = v /\ c.table = t /\ c = [wire |-> c.wire, table |-> c.table]
  BY <1>3
<1>5. PartOf(w, v) /\ Len(v) \in Nat
  <2>1. \A i \in 1..Len(w) : v[i] = w[i]
    BY <1>2
  <2>2. Len(w) <= Len(v) /\ Len(v) \in Nat
    BY <1>2
  <2>3. QED  BY <1>2, <2>1, <2>2 DEF PartOf
<1>6. ASSUME NEW i \in 1..Len(cells) PROVE v[Len(w) + i] = cells[i]
  <2> DEFINE j == Len(w) + i
  <2>1. j \in 1..(Len(w) + Len(cells)) /\ ~(j <= Len(w)) /\ j - Len(w) = i
    BY <1>2
  <2> HIDE DEF j
  <2>2. v[j] = cells[j - Len(w)]
    BY <1>2, <2>1
  <2>3. QED  BY <2>1, <2>2 DEF j
<1>7. MarksOK(M, w) /\ Knows(t, M) /\ IsTable(t)
  BY DEF BufferOK
<1> HIDE DEF c, v
<1>8. v \in Seq(PlainCells)
  BY <1>2 DEF v
<1> HIDE DEF w, t
<1>9. MarksOK(M, v)
  BY <1>5, <1>7, MarksBehind
<1>10. BufferOK(c, M)
  BY <1>4, <1>7, <1>8, <1>9 DEF BufferOK
<1>11. Extends(b, c)
  BY <1>4, <1>5 DEF Extends, PartOf, w, t
<1>12. Len(v) = Len(w) + Len(cells)
  BY <1>2 DEF v
<1>13. QED  BY <1>2, <1>4, <1>6, <1>10, <1>11, <1>12 DEF c, w, t

LEMMA SuffixIs ==
  ASSUME NEW owner \in Seq(WireLabels), NEW i \in 1..(Len(owner) + 1)
  PROVE  /\ Suffix(owner, i) \in Seq(WireLabels) /\ Len(Suffix(owner, i)) = Len(owner) - i + 1
         /\ Len(owner) \in Nat /\ i \in Nat \ {0} /\ i <= Len(owner) + 1
         /\ \A k \in 1..(Len(owner) - i + 1) : Suffix(owner, i)[k] = owner[i + k - 1]
<1>1. Len(owner) \in Nat /\ i \in Nat \ {0} /\ i <= Len(owner) + 1
  BY LenProperties
<1>2. QED  BY <1>1, SubSeqFacts DEF Suffix

LEMMA SuffixFacts ==
  ASSUME NEW owner \in Seq(WireLabels), NEW i \in 1..(Len(owner) + 1)
  PROVE  /\ Suffix(owner, i) \in Seq(WireLabels) /\ Len(Suffix(owner, i)) = Len(owner) - i + 1
         /\ i <= Len(owner) => /\ Suffix(owner, i) # << >> /\ Head(Suffix(owner, i)) = owner[i] /\ owner[i] \in WireLabels
                              /\ Tail(Suffix(owner, i)) = Suffix(owner, i + 1)
         /\ i = 1 => Suffix(owner, i) = owner
         /\ i = Len(owner) + 1 => Suffix(owner, i) = << >>
<1> DEFINE l == Len(owner)
           s == Suffix(owner, i)
<1>1. l \in Nat /\ i \in Nat \ {0} /\ i <= l + 1
  BY SuffixIs
<1>2. /\ s \in Seq(WireLabels) /\ Len(s) = l - i + 1
      /\ \A k \in 1..(l - i + 1) : s[k] = owner[i + k - 1]
  BY SuffixIs
<1>3. ASSUME i <= l
      PROVE  s # << >> /\ Head(s) = owner[i] /\ owner[i] \in WireLabels /\ Tail(s) = Suffix(owner, i + 1)
  <2> DEFINE j == i + 1
             t == Suffix(owner, j)
  <2>1. j \in 1..(l + 1) /\ l - j + 1 = l - i /\ Len(s) \in Nat \ {0} /\ 1 \in 1..(l - i + 1) /\ i + 1 - 1 = i
    BY <1>1, <1>2, <1>3
  <2>2. /\ t \in Seq(WireLabels) /\ Len(t) = l - j + 1
        /\ \A k \in 1..(l - j + 1) : t[k] = owner[j + k - 1]
    <3> HIDE DEF j
    <3>1. QED  BY <2>1, SuffixIs
  <2> HIDE DEF s, t
  <2>3. s # << >>
    BY <2>1, EmptySeq
  <2>4. /\ Head(s) = s[1] /\ s[1] \in WireLabels /\ Tail(s) \in Seq(WireLabels) /\ Len(Tail(s)) = Len(s) - 1
        /\ \A k \in 1..(Len(s) - 1) : Tail(s)[k] = s[k + 1]
    BY <1>2, <2>3, TailFacts
  <2>5. s[1] = owner[i]
    BY <1>1, <1>2, <2>1
  <2>6. Len(Tail(s)) = Len(t) /\ Len(t) = l - i
    BY <1>1, <1>2, <1>3, <2>1, <2>2, <2>4
  <2>7. ASSUME NEW k \in 1..Len(t) PROVE Tail(s)[k] = t[k]
    <3> DEFINE m == k + 1
    <3>1. k \in 1..(Len(s) - 1) /\ m \in 1..(l - i + 1) /\ i + m - 1 = j + k - 1 /\ k \in 1..(l - j + 1)
      <4> DEFINE d == l - i
      <4>1. d \in Nat /\ k \in 1..d /\ Len(s) - 1 = d /\ l - i + 1 = d + 1 /\ l - j + 1 = d
        BY <1>1, <1>2, <1>3, <2>6
      <4>2. k \in Nat \ {0} /\ k <= d
        BY <4>1
      <4> HIDE DEF d
      <4>3. i + m - 1 = j + k - 1
        BY <1>1, <4>2
      <4>4. k \in 1..(Len(s) - 1) /\ k \in 1..(l - j + 1)
        BY <4>1
      <4>5. m \in 1..(l - i + 1)
        BY <4>1, <4>2
      <4>6. QED  BY <4>3, <4>4, <4>5
    <3>2. Tail(s)[k] = s[m]
      BY <2>4, <3>1
    <3> HIDE DEF m, j
    <3>3. s[m] = owner[i + m - 1]
      BY <1>2, <3>1
    <3>4. t[k] = owner[j + k - 1]
      BY <2>2, <3>1
    <3>5. QED  BY <3>1, <3>2, <3>3, <3>4
  <2>8. Tail(s) = t
    BY <2>2, <2>4, <2>6, <2>7, SeqEqual
  <2>9. QED  BY <2>3, <2>4, <2>5, <2>8 DEF t
<1>4. ASSUME i = 1 PROVE s = owner
  <2>1. Len(s) = l
    <3>1. l - i + 1 = l
      BY <1>1, <1>4
    <3>2. QED  BY <1>2, <3>1
  <2>2. \A k \in 1..l : s[k] = owner[k]
    <3>1. ASSUME NEW k \in 1..l PROVE s[k] = owner[k]
      <4>1. k \in 1..(l - i + 1) /\ i + k - 1 = k
        BY <1>1, <1>4
      <4>2. QED  BY <1>2, <4>1
    <3>2. QED  BY <3>1
  <2> HIDE DEF s
  <2>3. QED  BY <1>2, <2>1, <2>2, SeqEqual
<1>5. ASSUME i = l + 1 PROVE s = << >>
  <2>1. Len(s) = 0
    BY <1>1, <1>2, <1>5
  <2> HIDE DEF s
  <2>2. QED  BY <1>2, <2>1, EmptySeq
<1>6. QED  BY <1>2, <1>3, <1>4, <1>5

LEMMA MoreMarks ==
  ASSUME NEW M, NEW K, M \subseteq K, NEW m, NEW wire, MarkOK(m, M, wire)
  PROVE  MarkOK(m, K, wire)
<1>1. LabelMark(m, M, wire) => LabelMark(m, K, wire)
  BY DEF LabelMark
<1>2. PointerMark(m, M, wire) => PointerMark(m, K, wire)
  BY DEF PointerMark
<1>3. QED  BY <1>1, <1>2 DEF MarkOK

\* c is b with a name behind it, spelled at its beginning.
Spelled(K, owner, s, e) == \E m \in K : m.n = owner /\ m.a = s /\ m.e = e
NameWritten(b, M, owner, c) ==
    /\ Extends(b, c)
    /\ Len(b.wire) < Len(c.wire) /\ Len(c.wire) <= Len(b.wire) + Len(owner) + 1
    /\ \E K \in SUBSET MarkRecords :
         M \subseteq K /\ BufferOK(c, K) /\ Spelled(K, owner, Len(b.wire), Len(c.wire))

\* The parts of NameToWire().
KnownIn(table, owner) == {i \in 1..Len(owner) : Suffix(owner, i) \in DOMAIN table}
SpelledUpTo(table, owner) ==
    IF KnownIn(table, owner) = {} THEN Len(owner)
    ELSE (CHOOSE i \in KnownIn(table, owner) : \A j \in KnownIn(table, owner) : i <= j) - 1
EndCell(table, owner) ==
    IF KnownIn(table, owner) = {} THEN <<"root">> ELSE <<"pointer", table[Suffix(owner, SpelledUpTo(table, owner) + 1)]>>

LEMMA NameToWireParts ==
  ASSUME NEW b, NEW owner
  PROVE  LET u == SpelledUpTo(b.table, owner)
             new == {i \in 1..u : Len(b.wire) + i - 1 <= MaxPointer}
         IN  NameToWire(b, owner) =
               [wire  |-> b.wire \o [i \in 1..u |-> <<"label", owner[i]>>] \o << EndCell(b.table, owner) >>,
                table |-> [n \in DOMAIN b.table \cup {Suffix(owner, i) : i \in new} |->
                             IF n \in DOMAIN b.table THEN b.table[n] ELSE Len(b.wire) + Len(owner) - Len(n)]]
<1> DEFINE known == KnownIn(b.table, owner)
           u == SpelledUpTo(b.table, owner)
           new == {i \in 1..u : Len(b.wire) + i - 1 <= MaxPointer}
           tail == IF known = {} THEN << <<"root">> >> ELSE << <<"pointer", b.table[Suffix(owner, u + 1)]>> >>
           t == [n \in DOMAIN b.table \cup {Suffix(owner, i) : i \in new} |->
                             IF n \in DOMAIN b.table THEN b.table[n] ELSE Len(b.wire) + Len(owner) - Len(n)]
<1>1. tail = << EndCell(b.table, owner) >>
  BY DEF EndCell
<1>2. NameToWire(b, owner) = [wire |-> b.wire \o [i \in 1..u |-> <<"label", owner[i]>>] \o tail, table |-> t]
  BY DEF NameToWire, SpelledUpTo, KnownIn
<1> HIDE DEF tail
<1>3. QED  BY <1>1, <1>2

LEMMA SpelledFacts ==
  ASSUME NEW M, NEW table, Knows(table, M), M \subseteq MarkRecords, NEW owner \in Seq(WireLabels)
  PROVE  LET u == SpelledUpTo(table, owner)
         IN  /\ u \in 0..Len(owner) /\ Len(owner) \in Nat
             /\ \/ u = Len(owner) /\ EndCell(table, owner) = <<"root">>
                \/ u < Len(owner) /\ \E x \in M : x.n = Suffix(owner, u + 1) /\ EndCell(table, owner) = <<"pointer", x.a>>
             /\ EndCell(table, owner) \in PlainCells
<1> DEFINE known == KnownIn(table, owner)
           u == SpelledUpTo(table, owner)
<1>1. Len(owner) \in Nat
  BY LenProperties
<1>2. CASE known = {}
  <2>1. u = Len(owner) /\ EndCell(table, owner) = <<"root">>
    BY <1>2 DEF SpelledUpTo, EndCell
  <2>2. <<"root">> \in PlainCells
    BY DEF PlainCells
  <2>3. QED  BY <1>1, <2>1, <2>2
<1>3. CASE known # {}
  <2>1. known \subseteq 1..Len(owner) /\ known \in SUBSET Nat
    BY <1>1 DEF KnownIn
  <2> DEFINE low == CHOOSE i \in known : \A j \in known : i <= j
  <2>2. low \in known
    <3> HIDE DEF known
    <3>1. Min(known) \in known /\ \A j \in known : Min(known) <= j
      BY <1>3, <2>1, MinFacts
    <3>2. QED  BY <3>1
  <2>3. u = low - 1 /\ EndCell(table, owner) = <<"pointer", table[Suffix(owner, u + 1)]>>
    BY <1>3 DEF SpelledUpTo, EndCell
  <2>4. low \in 1..Len(owner) /\ Suffix(owner, low) \in DOMAIN table
    BY <2>2 DEF KnownIn
  <2> HIDE DEF low, known, u
  <2>5. u \in 0..Len(owner) /\ u < Len(owner) /\ u + 1 = low
    BY <1>1, <2>3, <2>4
  <2>6. PICK x \in M : x.n = Suffix(owner, low) /\ x.a = table[Suffix(owner, low)]
    BY <2>4 DEF Knows
  <2>7. EndCell(table, owner) = <<"pointer", x.a>> /\ x.a \in Nat
    BY <2>3, <2>5, <2>6 DEF MarkRecords
  <2>8. EndCell(table, owner) \in PlainCells
    BY <2>7 DEF PlainCells
  <2>9. QED  BY <1>1, <2>5, <2>6, <2>7, <2>8 DEF u
<1>4. QED  BY <1>2, <1>3

\* What NameToWire() puts behind the wire.
LEMMA NameCells ==
  ASSUME NEW w \in Seq(PlainCells), NEW owner \in Seq(WireLabels), NEW u \in 0..Len(owner), NEW last \in PlainCells
  PROVE  LET v == w \o [i \in 1..u |-> <<"label", owner[i]>>] \o << last >>
         IN  /\ v \in Seq(PlainCells) /\ Len(v) = Len(w) + u + 1 /\ Len(w) \in Nat /\ u \in Nat
             /\ \A i \in 1..Len(w) : v[i] = w[i]
             /\ \A j \in 0..(u - 1) : v[Len(w) + j + 1] = <<"label", owner[j + 1]>>
             /\ v[Len(w) + u + 1] = last
<1> DEFINE l == Len(w)
           cells == [i \in 1..u |-> <<"label", owner[i]>>]
           x == w \o cells
           y == << last >>
           v == x \o y
<1>1. l \in Nat /\ u \in Nat /\ Len(owner) \in Nat /\ u <= Len(owner)
  BY LenProperties
<1>2. ASSUME NEW i \in 1..u PROVE <<"label", owner[i]>> \in PlainCells
  <2>1. i \in 1..Len(owner)
    BY <1>1
  <2>2. owner[i] \in WireLabels
    BY <2>1, ElementOfSeq
  <2>3. QED  BY <2>2 DEF PlainCells
<1>3. cells \in Seq(PlainCells) /\ Len(cells) = u /\ \A i \in 1..u : cells[i] = <<"label", owner[i]>>
  <2>1. cells \in [1..u -> PlainCells]
    BY <1>2
  <2>2. cells \in Seq(PlainCells)
    BY <1>1, <2>1, SeqDef
  <2>3. DOMAIN cells = 1..u
    OBVIOUS
  <2> HIDE DEF cells
  <2>4. Len(cells) = u
    BY <1>1, <2>2, <2>3, LenProperties
  <2>5. QED  BY <2>2, <2>4 DEF cells
<1> HIDE DEF cells
<1>4. /\ x \in Seq(PlainCells) /\ Len(x) = l + u
      /\ \A i \in 1..(l + u) : x[i] = IF i <= l THEN w[i] ELSE cells[i - l]
  BY <1>3, ConcatFacts
<1>5. y \in Seq(PlainCells) /\ Len(y) = 1 /\ y[1] = last
  OBVIOUS
<1> HIDE DEF x, y
<1>6. /\ v \in Seq(PlainCells) /\ Len(v) = Len(x) + 1
      /\ \A i \in 1..(Len(x) + 1) : v[i] = IF i <= Len(x) THEN x[i] ELSE y[i - Len(x)]
  <2>1. /\ v \in Seq(PlainCells) /\ Len(v) = Len(x) + Len(y)
        /\ \A i \in 1..(Len(x) + Len(y)) : v[i] = IF i <= Len(x) THEN x[i] ELSE y[i - Len(x)]
    BY <1>4, <1>5, ConcatFacts
  <2> HIDE DEF v
  <2>2. QED  BY <1>5, <2>1
<1> HIDE DEF v
<1>7. Len(v) = l + u + 1
  BY <1>1, <1>4, <1>6
<1>8. ASSUME NEW i \in 1..l PROVE v[i] = w[i]
  <2>1. i \in 1..(l + u) /\ i \in 1..(l + u + 1) /\ i <= l + u
    BY <1>1
  <2>2. v[i] = x[i] /\ x[i] = w[i]
    BY <1>4, <1>6, <2>1
  <2>3. QED  BY <2>2
<1>9. ASSUME NEW j \in 0..(u - 1) PROVE v[l + j + 1] = <<"label", owner[j + 1]>>
  <2> DEFINE k == l + j + 1
             i == j + 1
  <2>1. k \in 1..(l + u) /\ k \in 1..(l + u + 1) /\ k <= l + u /\ ~(k <= l) /\ k - l = i /\ i \in 1..u
    BY <1>1
  <2> HIDE DEF k, i
  <2>2. v[k] = x[k] /\ x[k] = cells[k - l]
    BY <1>4, <1>6, <2>1
  <2>3. v[k] = <<"label", owner[i]>>
    BY <1>3, <2>1, <2>2
  <2>4. QED  BY <2>3 DEF k, i
<1>10. v[l + u + 1] = last
  <2> DEFINE k == l + u + 1
  <2>1. k \in 1..(l + u + 1) /\ ~(k <= l + u) /\ k - (l + u) = 1
    BY <1>1
  <2> HIDE DEF k
  <2>2. v[k] = y[1]
    BY <1>4, <1>6, <2>1
  <2>3. QED  BY <1>5, <2>2 DEF k
<1>11. QED  BY <1>1, <1>6, <1>7, <1>8, <1>9, <1>10 DEF v, x, y, cells

\* The marks of a name: one for each label that is spelled, and the last cell's.
NewMark(owner, start, u, j) == [n |-> Suffix(owner, j + 1), a |-> start + j, s |-> start, e |-> start + u + 1]
NewMarks(owner, start, u) == {NewMark(owner, start, u, j) : j \in 0..u}

LEMMA NewMarkOK ==
  ASSUME NEW b, NEW M, BufferOK(b, M), M \subseteq MarkRecords, NEW owner \in Seq(WireLabels),
         NEW u \in 0..Len(owner), NEW v, NEW last,
         Len(v) = Len(b.wire) + u + 1,
         \A j \in 0..(u - 1) : v[Len(b.wire) + j + 1] = <<"label", owner[j + 1]>>,
         v[Len(b.wire) + u + 1] = last,
         \/ u = Len(owner) /\ last = <<"root">>
         \/ u < Len(owner) /\ \E x \in M : x.n = Suffix(owner, u + 1) /\ last = <<"pointer", x.a>>,
         NEW j \in 0..u
  PROVE  MarkOK(NewMark(owner, Len(b.wire), u, j), M \cup NewMarks(owner, Len(b.wire), u), v)
<1> DEFINE l == Len(b.wire)
           K == M \cup NewMarks(owner, l, u)
           m == NewMark(owner, l, u, j)
           i == j + 1
<1>1. l \in Nat /\ Len(owner) \in Nat /\ u \in Nat /\ j \in Nat /\ u <= Len(owner) /\ j <= u
      /\ i \in 1..(Len(owner) + 1)
  <2>1. l \in Nat /\ Len(owner) \in Nat
    BY LenProperties DEF BufferOK
  <2>2. QED  BY <2>1
<1>2. m.n = Suffix(owner, i) /\ m.a = l + j /\ m.s = l /\ m.e = l + u + 1 /\ m = [n |-> m.n, a |-> m.a, s |-> m.s, e |-> m.e]
  BY DEF NewMark
<1>3. /\ Suffix(owner, i) \in Seq(WireLabels)
      /\ i <= Len(owner) => /\ Suffix(owner, i) # << >> /\ Head(Suffix(owner, i)) = owner[i]
                           /\ Tail(Suffix(owner, i)) = Suffix(owner, i + 1)
      /\ i = Len(owner) + 1 => Suffix(owner, i) = << >>
  <2> HIDE DEF i
  <2>1. QED  BY <1>1, SuffixFacts
<1>8. /\ Len(v) = l + u + 1 /\ v[l + u + 1] = last
      /\ \A k \in 0..(u - 1) : v[l + k + 1] = <<"label", owner[k + 1]>>
  OBVIOUS
<1> HIDE DEF m, K, l
<1>4. m \in MarkRecords /\ m.s <= m.a /\ m.a < m.e /\ m.e <= Len(v)
  <2>1. m.a \in Nat /\ m.s \in Nat /\ m.e \in Nat /\ m.s <= m.a /\ m.a < m.e /\ m.e <= Len(v)
    <3>1. Len(v) = l + u + 1
      BY <1>8
    <3>2. l + j \in Nat /\ l \in Nat /\ l + u + 1 \in Nat /\ l <= l + j /\ l + j < l + u + 1
      BY <1>1
    <3>3. QED  BY <1>2, <3>1, <3>2
  <2>2. m.n \in Seq(WireLabels)
    BY <1>2, <1>3
  <2>3. m \in MarkRecords
    BY <1>2, <2>1, <2>2 DEF MarkRecords
  <2>4. QED  BY <2>1, <2>3
<1>5. CASE j < u
  <2> DEFINE y == NewMark(owner, l, u, i)
  <2>1. j \in 0..(u - 1) /\ i \in 0..u /\ i <= Len(owner) /\ l + i = l + j + 1
    <3> HIDE DEF y
    <3>1. j \in 0..(u - 1)
      BY <1>1, <1>5
    <3>2. i \in 0..u /\ i <= Len(owner)
      BY <1>1, <1>5
    <3>3. QED  BY <1>1, <3>1, <3>2
  <2>2. y.n = Suffix(owner, i + 1) /\ y.a = l + i /\ y.s = l /\ y.e = l + u + 1
    BY DEF NewMark
  <2> HIDE DEF i
  <2>3. y \in K
    BY <2>1 DEF K, NewMarks
  <2> HIDE DEF y
  <2>4. m.n # << >> /\ Head(m.n) = owner[i] /\ Tail(m.n) = y.n
    BY <1>2, <1>3, <2>1, <2>2
  <2>5. v[m.a + 1] = <<"label", owner[i]>>
    BY <1>2, <1>8, <2>1 DEF i
  <2>6. y.a = m.a + 1 /\ y.s = m.s /\ y.e = m.e
    BY <1>2, <2>1, <2>2
  <2>7. LabelMark(m, K, v)
    BY <2>3, <2>4, <2>5, <2>6 DEF LabelMark
  <2>8. QED  BY <1>4, <2>7 DEF MarkOK, K, m, l
<1>6. CASE j = u
  <2>1. m.a + 1 = l + u + 1 /\ m.e = m.a + 1
    BY <1>1, <1>2, <1>6
  <2>2. v[m.a + 1] = last
    BY <1>8, <2>1
  <2>3. CASE u = Len(owner) /\ last = <<"root">>
    <3>1. m.n = << >>
      BY <1>1, <1>2, <1>3, <1>6, <2>3
    <3>2. RootMark(m, v)
      BY <2>1, <2>2, <2>3, <3>1 DEF RootMark
    <3>3. QED  BY <1>4, <3>2 DEF MarkOK, K, m, l
  <2>4. CASE u < Len(owner) /\ \E x \in M : x.n = Suffix(owner, u + 1) /\ last = <<"pointer", x.a>>
    <3>1. PICK x \in M : x.n = Suffix(owner, u + 1) /\ last = <<"pointer", x.a>>
      BY <2>4
    <3>2. x.e <= l
      BY DEF BufferOK, MarksOK, MarkOK, l
    <3>3. x.n = m.n /\ x.e <= m.s
      BY <1>2, <1>6, <3>1, <3>2
    <3>4. m.n # << >>
      BY <1>1, <1>2, <1>3, <1>6, <2>4
    <3>5. x \in K
      BY DEF K
    <3>6. PointerMark(m, K, v)
      BY <2>1, <2>2, <3>1, <3>3, <3>4, <3>5 DEF PointerMark
    <3>7. QED  BY <1>4, <3>6 DEF MarkOK, K, m, l
  <2>5. QED  BY <2>3, <2>4
<1>7. QED  BY <1>1, <1>5, <1>6

LEMMA NameIsWritten ==
  ASSUME NEW b, NEW M \in SUBSET MarkRecords, BufferOK(b, M), NEW owner \in Seq(WireLabels)
  PROVE  NameWritten(b, M, owner, NameToWire(b, owner))
<1> DEFINE w == b.wire
           l == Len(w)
           u == SpelledUpTo(b.table, owner)
           last == EndCell(b.table, owner)
           v == w \o [i \in 1..u |-> <<"label", owner[i]>>] \o << last >>
           new == {i \in 1..u : l + i - 1 <= MaxPointer}
           old == DOMAIN b.table
           t == [n \in old \cup {Suffix(owner, i) : i \in new} |->
                   IF n \in old THEN b.table[n] ELSE l + Len(owner) - Len(n)]
           c == NameToWire(b, owner)
           K == M \cup NewMarks(owner, l, u)
<1>1. c = [wire |-> v, table |-> t]
  BY NameToWireParts
<1>2. w \in Seq(PlainCells) /\ MarksOK(M, w) /\ Knows(b.table, M)
  BY DEF BufferOK
<1>3. /\ u \in 0..Len(owner) /\ Len(owner) \in Nat
      /\ \/ u = Len(owner) /\ last = <<"root">>
         \/ u < Len(owner) /\ \E x \in M : x.n = Suffix(owner, u + 1) /\ last = <<"pointer", x.a>>
      /\ last \in PlainCells
  BY <1>2, SpelledFacts
<1> HIDE DEF u, last, w
<1>4. /\ v \in Seq(PlainCells) /\ Len(v) = l + u + 1 /\ l \in Nat /\ u \in Nat
      /\ \A i \in 1..l : v[i] = w[i]
      /\ \A j \in 0..(u - 1) : v[l + j + 1] = <<"label", owner[j + 1]>>
      /\ v[l + u + 1] = last
  BY <1>2, <1>3, NameCells
<1> HIDE DEF v
<1>5. l < Len(v) /\ Len(v) <= l + Len(owner) + 1 /\ Len(v) \in Nat
  <2> HIDE DEF l
  <2>1. l + u + 1 \in Nat /\ l < l + u + 1 /\ l + u + 1 <= l + Len(owner) + 1
    BY <1>3, <1>4
  <2>2. QED  BY <1>4, <2>1
<1>6. PartOf(w, v)
  BY <1>4, <1>5 DEF PartOf
<1>7. MarksOK(M, v)
  BY <1>2, <1>5, <1>6, MarksBehind
<1>8. ASSUME NEW j \in 0..u PROVE MarkOK(NewMark(owner, l, u, j), K, v)
  BY <1>3, <1>4, NewMarkOK DEF w
<1>9. MarksOK(K, v)
  <2>1. ASSUME NEW m \in K PROVE MarkOK(m, K, v)
    <3>1. CASE m \in M
      <4>1. MarkOK(m, M, v)
        BY <1>7, <3>1 DEF MarksOK
      <4>2. M \subseteq K
        OBVIOUS
      <4> HIDE DEF K
      <4>3. QED  BY <4>1, <4>2, MoreMarks
    <3>2. CASE m \in NewMarks(owner, l, u)
      <4>1. PICK j \in 0..u : m = NewMark(owner, l, u, j)
        BY <3>2 DEF NewMarks
      <4>2. QED  BY <1>8, <4>1
    <3>3. QED  BY <3>1, <3>2
  <2>2. QED  BY <2>1 DEF MarksOK
<1>10. K \in SUBSET MarkRecords
  BY <1>9 DEF MarksOK, MarkOK
<1>11. ASSUME NEW i \in new
       PROVE  /\ i \in 1..u /\ i \in 1..Len(owner) /\ Suffix(owner, i) \in Seq(WireLabels) /\ Suffix(owner, i) # << >>
              /\ l + Len(owner) - Len(Suffix(owner, i)) = l + i - 1 /\ l + i - 1 \in Nat /\ l <= l + i - 1
              /\ \E m \in K : m.n = Suffix(owner, i) /\ m.a = l + i - 1
  <2> DEFINE j == i - 1
             m == NewMark(owner, l, u, j)
  <2>1. i \in 1..u /\ i \in 1..Len(owner) /\ i \in 1..(Len(owner) + 1) /\ i <= Len(owner) /\ j \in 0..u /\ j + 1 = i
    BY <1>3, <1>4
  <2>2. Suffix(owner, i) \in Seq(WireLabels) /\ Suffix(owner, i) # << >> /\ Len(Suffix(owner, i)) = Len(owner) - i + 1
    BY <2>1, SuffixFacts
  <2>3. l + Len(owner) - Len(Suffix(owner, i)) = l + i - 1 /\ l + i - 1 \in Nat /\ l <= l + i - 1 /\ l + j = l + i - 1
    <3> DEFINE k == Len(owner)
               d == Len(Suffix(owner, i))
    <3>1. k \in Nat /\ d = k - i + 1 /\ l \in Nat /\ i \in 1..k
      BY <1>3, <1>4, <2>1, <2>2
    <3> HIDE DEF k, d, l
    <3>2. l + k - d = l + i - 1 /\ l + i - 1 \in Nat /\ l <= l + i - 1 /\ l + (i - 1) = l + i - 1
      BY <3>1
    <3>3. QED  BY <3>2 DEF k, d
  <2>4. m \in K /\ m.n = Suffix(owner, j + 1) /\ m.a = l + j
    BY <2>1 DEF NewMark, NewMarks
  <2> HIDE DEF j, m, K
  <2>5. m.n = Suffix(owner, i) /\ m.a = l + i - 1
    BY <2>1, <2>3, <2>4
  <2>6. QED  BY <2>1, <2>2, <2>3, <2>4, <2>5
<1>12. /\ DOMAIN t = old \cup {Suffix(owner, i) : i \in new}
       /\ \A n \in old : t[n] = b.table[n]
       /\ \A n \in DOMAIN t \ old : t[n] = l + Len(owner) - Len(n)
       /\ IsTable(t)
  <2>1. IsTable(t)
    BY DEF IsTable
  <2>2. QED  BY <2>1
<1> HIDE DEF t, K, new, c
<1>13. Knows(t, K)
  <2>1. ASSUME NEW n \in DOMAIN t
        PROVE  n \in Seq(WireLabels) /\ n # << >> /\ \E m \in K : m.n = n /\ m.a = t[n]
    <3>1. CASE n \in old
      <4>1. n \in Seq(WireLabels) /\ n # << >> /\ \E m \in M : m.n = n /\ m.a = b.table[n]
        BY <1>2, <3>1 DEF Knows
      <4>2. QED  BY <1>12, <3>1, <4>1 DEF K
    <3>2. CASE n \notin old
      <4>1. PICK i \in new : n = Suffix(owner, i)
        BY <1>12, <3>2
      <4>2. t[n] = l + i - 1
        BY <1>11, <1>12, <3>2, <4>1
      <4>3. QED  BY <1>11, <4>1, <4>2
    <3>3. QED  BY <3>1, <3>2
  <2>2. QED  BY <2>1 DEF Knows
<1>14. c.wire = v /\ c.table = t /\ c = [wire |-> c.wire, table |-> c.table]
  BY <1>1
<1>15. BufferOK(c, K)
  BY <1>4, <1>9, <1>12, <1>13, <1>14 DEF BufferOK
<1>16. Extends(b, c)
  <2>1. ASSUME NEW n \in DOMAIN t \ old PROVE t[n] \in Nat /\ l <= t[n]
    <3>1. PICK i \in new : n = Suffix(owner, i)
      BY <1>12
    <3>2. t[n] = l + i - 1
      BY <1>11, <1>12, <3>1
    <3>3. QED  BY <1>11, <3>2
  <2>2. old \subseteq DOMAIN t
    BY <1>12
  <2> HIDE DEF old
  <2>3. l <= Len(v)
    BY <1>4, <1>5
  <2>4. QED  BY <1>4, <1>5, <1>12, <1>14, <2>1, <2>2, <2>3 DEF Extends, w, old
<1>17. Spelled(K, owner, l, Len(v))
  <2> DEFINE m == NewMark(owner, l, u, 0)
  <2>1. 0 \in 0..u /\ 1 \in 1..(Len(owner) + 1)
    BY <1>3, <1>4
  <2>2. m \in K
    BY <2>1 DEF K, NewMarks
  <2>3. Suffix(owner, 0 + 1) = owner
    <3>1. 0 + 1 = 1
      OBVIOUS
    <3>2. Suffix(owner, 1) = owner
      BY <2>1, SuffixFacts
    <3>3. QED  BY <3>1, <3>2
  <2>4. m.n = Suffix(owner, 0 + 1) /\ m.a = l + 0 /\ m.e = l + u + 1
    BY DEF NewMark
  <2>5. l + 0 = l
    BY <1>4
  <2>6. QED  BY <1>4, <2>2, <2>3, <2>4, <2>5 DEF Spelled
<1>18. M \subseteq K
  BY DEF K
<1>19. QED  BY <1>5, <1>10, <1>14, <1>15, <1>16, <1>17, <1>18 DEF NameWritten, c, w

-----------------------------------------------------------------------------
\* Records.
LogTypes == {"A", "NS", "OPT", "TSIG"}
Entries == [sec : 1..4, type : LogTypes, name : MessageNames, target : MessageNames, from : Nat, to : Nat]

\* What the TSIG record at k signs.
Headed(wire, k) ==
    [<<wire[1]>> \o SubSeq(wire, 2, k) EXCEPT ![1] = <<"header", [wire[1][2] EXCEPT ![4] = @ - 1]>>]

\* A record of the wire; p is where its data begin.
DataAt(e, K, wire, p) ==
    /\ Spelled(K, e.name, e.from, p - 1) /\ p \in Nat \ {0}
    /\ p <= e.to /\ e.to <= Len(wire) /\ wire[p] = <<"fixed", e.type, e.to - p>>
    /\ e.sec = 1 => e.type = "A" /\ e.to = p
    /\ e.sec # 1 /\ e.type = "A" => e.to = p + 1
    /\ e.type = "NS" => Spelled(K, e.target, p, e.to)
    /\ e.type # "NS" => e.target = << >>
    /\ e.type = "OPT" => e.sec = 4 /\ e.name = << >> /\ e.to = p + 1
    /\ e.type = "TSIG" => /\ e.sec = 4 /\ e.name = KeyName /\ e.to = p + 1
                          /\ wire[p + 1] = <<"mac", Headed(wire, e.from)>>
EntryAt(e, K, wire) == e \in Entries /\ \E p \in Nat : DataAt(e, K, wire, p)

\* A part of a wire but for its header.
SameButHeader(v, w) ==
    /\ Len(v) \in Nat /\ Len(w) \in Nat /\ Len(v) <= Len(w)
    /\ \A i \in 2..Len(v) : w[i] = v[i]

LEMMA EntryStays ==
  ASSUME NEW e, NEW K, NEW N, K \subseteq N, K \subseteq MarkRecords, NEW v, NEW w, MarksOK(K, v), SameButHeader(v, w),
         EntryAt(e, K, v), e.type # "TSIG"
  PROVE  EntryAt(e, N, w)
<1>1. e \in Entries
  BY DEF EntryAt
<1>2. PICK p \in Nat : DataAt(e, K, v, p)
  BY DEF EntryAt
<1>3. e.to \in Nat /\ e.to <= Len(v) /\ p <= e.to /\ Len(v) \in Nat /\ Len(w) \in Nat /\ Len(v) <= Len(w)
  BY <1>1, <1>2 DEF DataAt, Entries, SameButHeader
<1>4. PICK m \in K : m.n = e.name /\ m.a = e.from /\ m.e = p - 1
  BY <1>2 DEF DataAt, Spelled
<1>5. m.a \in Nat /\ m.e \in Nat /\ m.a < m.e
  BY DEF MarksOK, MarkOK, MarkRecords
<1>6. p \in 2..Len(v) /\ e.to <= Len(w)
  BY <1>3, <1>4, <1>5
<1>7. w[p] = v[p]
  BY <1>6 DEF SameButHeader
<1>8. ASSUME NEW n, NEW a, NEW t, Spelled(K, n, a, t) PROVE Spelled(N, n, a, t)
  BY <1>8 DEF Spelled
<1>9. DataAt(e, N, w, p)
  BY <1>2, <1>6, <1>7, <1>8 DEF DataAt
<1>10. QED  BY <1>1, <1>9 DEF EntryAt

LEMMA MarkCell ==
  ASSUME NEW M, NEW v, MarksOK(M, v), NEW m \in M
  PROVE  v[m.a + 1][1] \in {"label", "pointer", "root"} /\ m.a + 1 \in Nat \ {0}
<1>1. m.a + 1 \in Nat \ {0}
  BY DEF MarksOK, MarkOK, MarkRecords
<1>2. LabelMark(m, M, v) \/ PointerMark(m, M, v) \/ RootMark(m, v)
  BY DEF MarksOK, MarkOK
<1>3. LabelMark(m, M, v) => v[m.a + 1][1] = "label"
  BY DEF LabelMark
<1>4. PointerMark(m, M, v) => v[m.a + 1][1] = "pointer"
  BY DEF PointerMark
<1>5. RootMark(m, v) => v[m.a + 1][1] = "root"
  BY DEF RootMark
<1>6. QED  BY <1>1, <1>2, <1>3, <1>4, <1>5

\* A cell that is no name's may be written again.
LEMMA CellChanges ==
  ASSUME NEW M, NEW v \in Seq(PlainCells), MarksOK(M, v), NEW q \in 1..Len(v), NEW cell \in PlainCells,
         v[q][1] \notin {"label", "pointer", "root"}
  PROVE  LET w == [v EXCEPT ![q] = cell]
         IN  /\ w \in Seq(PlainCells) /\ Len(w) = Len(v) /\ Len(v) \in Nat /\ MarksOK(M, w)
             /\ w[q] = cell /\ \A i \in 1..Len(v) : i # q => w[i] = v[i]
<1> DEFINE w == [v EXCEPT ![q] = cell]
<1>1. Len(v) \in Nat /\ DOMAIN v = 1..Len(v) /\ \A i \in 1..Len(v) : v[i] \in PlainCells
  BY LenProperties, ElementOfSeq
<1>2. v \in [1..Len(v) -> PlainCells]
  BY <1>1, SeqDef
<1>3. w \in [1..Len(v) -> PlainCells] /\ w[q] = cell /\ \A i \in 1..Len(v) : i # q => w[i] = v[i]
  BY <1>2
<1>4. w \in Seq(PlainCells)
  BY <1>1, <1>3, SeqDef
<1> HIDE DEF w
<1>5. Len(w) = Len(v)
  <2>1. DOMAIN w = 1..Len(v)
    BY <1>3
  <2>2. QED  BY <1>1, <1>4, <2>1, LenProperties
<1>6. ASSUME NEW m \in M PROVE w[m.a + 1] = v[m.a + 1]
  <2>1. v[m.a + 1][1] \in {"label", "pointer", "root"} /\ m.a + 1 \in Nat \ {0}
    BY MarkCell
  <2>2. m.a + 1 # q
    BY <2>1
  <2>3. m.a + 1 <= Len(v)
    BY <1>1 DEF MarksOK, MarkOK, MarkRecords
  <2>4. m.a + 1 \in 1..Len(v)
    BY <1>1, <2>1, <2>3
  <2>5. QED  BY <1>3, <2>2, <2>4
<1>7. MarksOK(M, w)
  <2>1. Len(v) \in Nat /\ Len(w) \in Nat /\ Len(v) <= Len(w)
    BY <1>1, <1>5
  <2>2. QED  BY <1>6, <2>1, MarksStay
<1>8. QED  BY <1>1, <1>3, <1>4, <1>5, <1>7 DEF w

Sized(d, q, x) == [d EXCEPT !.wire[q][3] = x]

LEMMA SizeIsWritten ==
  ASSUME NEW M, NEW d, BufferOK(d, M), NEW q \in 1..Len(d.wire), NEW type \in {"A", "NS"},
         d.wire[q] = <<"fixed", type, 0>>, NEW x \in Nat
  PROVE  LET c == Sized(d, q, x)
         IN  /\ BufferOK(c, M) /\ c.table = d.table /\ Len(c.wire) = Len(d.wire) /\ Len(d.wire) \in Nat
             /\ c.wire[q] = <<"fixed", type, x>> /\ \A i \in 1..Len(d.wire) : i # q => c.wire[i] = d.wire[i]
<1> DEFINE v == d.wire
           t == d.table
           cell == <<"fixed", type, x>>
           w == [v EXCEPT ![q] = cell]
           c == Sized(d, q, x)
<1>1. d = [wire |-> v, table |-> t] /\ v \in Seq(PlainCells) /\ MarksOK(M, v) /\ Knows(t, M) /\ IsTable(t)
  BY DEF BufferOK
<1>2. v[q] = <<"fixed", type, 0>>
  OBVIOUS
<1>3. [v[q] EXCEPT ![3] = x] = cell
  BY <1>2
<1>4. c = [d EXCEPT !.wire = [v EXCEPT ![q] = [v[q] EXCEPT ![3] = x]]]
  BY DEF Sized
<1>5. c = [d EXCEPT !.wire = w]
  BY <1>3, <1>4
<1>6. cell \in PlainCells
  BY DEF PlainCells
<1>7. v[q][1] = "fixed"
  BY <1>2
<1> HIDE DEF c, w, cell
<1>8. /\ w \in Seq(PlainCells) /\ Len(w) = Len(v) /\ Len(v) \in Nat /\ MarksOK(M, w)
      /\ w[q] = cell /\ \A i \in 1..Len(v) : i # q => w[i] = v[i]
  BY <1>1, <1>6, <1>7, CellChanges DEF w
<1> HIDE DEF v, t
<1>9. c.wire = w /\ c.table = t /\ c = [wire |-> c.wire, table |-> c.table]
  BY <1>1, <1>5
<1>10. BufferOK(c, M)
  BY <1>1, <1>8, <1>9 DEF BufferOK
<1>11. QED  BY <1>8, <1>9, <1>10 DEF c, v, t, cell

EntryOf(s, type, owner, target, from, to) ==
    [sec |-> s, type |-> type, name |-> owner, target |-> target, from |-> from, to |-> to]

\* c is b with a record behind it.
RecordWritten(b, M, s, owner, type, target, c) ==
    /\ Extends(b, c) /\ Len(b.wire) < Len(c.wire)
    /\ \E K \in SUBSET MarkRecords :
         /\ M \subseteq K /\ BufferOK(c, K)
         /\ EntryAt(EntryOf(s, type, owner, target, Len(b.wire), Len(c.wire)), K, c.wire)

LEMMA RdataFacts ==
  ASSUME NEW rd \in Rdatas
  PROVE  /\ rd.type \in {"A", "NS"} /\ rd.target \in MessageNames
         /\ rd.type = "A" => rd.target = << >>
<1>1. rd \in [type : {"A"}, target : {<< >>}] \cup [type : {"NS"}, target : {r.target : r \in Rdatas}]
  BY MessageAssumption
<1>2. rd.type \in {"A", "NS"} /\ (rd.type = "A" => rd.target = << >>)
  BY <1>1
<1>3. rd.target \in MessageNames
  BY DEF MessageNames
<1>4. QED  BY <1>2, <1>3

LEMMA SpelledStays ==
  ASSUME NEW M, NEW K, M \subseteq K, NEW n, NEW a, NEW e, Spelled(M, n, a, e)
  PROVE  Spelled(K, n, a, e)
BY DEF Spelled

RecordStart(b, owner, type) == Put(NameToWire(b, owner), << <<"fixed", type, 0>> >>)

LEMMA StartOfRecord ==
  ASSUME NEW b, NEW M \in SUBSET MarkRecords, BufferOK(b, M), NEW owner \in MessageNames, NEW type \in {"A", "NS"}
  PROVE  LET d == RecordStart(b, owner, type)
         IN  \E K \in SUBSET MarkRecords :
               /\ M \subseteq K /\ BufferOK(d, K) /\ Extends(b, d)
               /\ Len(b.wire) \in Nat /\ Len(d.wire) \in Nat \ {0} /\ Len(b.wire) + 1 < Len(d.wire)
               /\ d.wire[Len(d.wire)] = <<"fixed", type, 0>>
               /\ Spelled(K, owner, Len(b.wire), Len(d.wire) - 1)
<1> DEFINE n == NameToWire(b, owner)
           cells == << <<"fixed", type, 0>> >>
           d == Put(n, cells)
<1>1. owner \in Seq(WireLabels)
  BY MessageNameFacts
<1>2. NameWritten(b, M, owner, n)
  BY <1>1, NameIsWritten
<1> HIDE DEF n
<1>3. PICK K \in SUBSET MarkRecords : M \subseteq K /\ BufferOK(n, K) /\ Spelled(K, owner, Len(b.wire), Len(n.wire))
  BY <1>2 DEF NameWritten
<1>4. Extends(b, n) /\ Len(b.wire) < Len(n.wire) /\ Len(b.wire) \in Nat /\ Len(n.wire) \in Nat
  BY <1>2 DEF NameWritten, Extends
<1>5. cells \in Seq(PlainCells) /\ Len(cells) = 1 /\ cells[1] = <<"fixed", type, 0>>
  BY DEF PlainCells
<1> HIDE DEF cells
<1>6. /\ BufferOK(d, K) /\ Extends(n, d) /\ Len(d.wire) = Len(n.wire) + Len(cells)
      /\ \A i \in 1..Len(cells) : d.wire[Len(n.wire) + i] = cells[i]
  BY <1>3, <1>5, PutFacts
<1> HIDE DEF d
<1>7. Len(d.wire) = Len(n.wire) + 1 /\ d.wire[Len(n.wire) + 1] = <<"fixed", type, 0>>
  BY <1>5, <1>6
<1>8. Len(d.wire) \in Nat \ {0} /\ Len(b.wire) + 1 < Len(d.wire) /\ Len(d.wire) - 1 = Len(n.wire)
  BY <1>4, <1>7
<1>9. Extends(b, d)
  BY <1>4, <1>6, ExtendsChain
<1>10. QED  BY <1>3, <1>4, <1>6, <1>7, <1>8, <1>9 DEF RecordStart, d, cells, n

LEMMA RecordIsWritten ==
  ASSUME NEW b, NEW M \in SUBSET MarkRecords, BufferOK(b, M), NEW owner \in MessageNames, NEW rd \in Rdatas,
         NEW s \in 2..4
  PROVE  RecordWritten(b, M, s, owner, rd.type, rd.target, RecordToWire(b, owner, rd))
<1> DEFINE type == rd.type
           d == RecordStart(b, owner, type)
           body == IF type = "A" THEN Put(d, << <<"address">> >>) ELSE NameToWire(d, rd.target)
           q == Len(d.wire)
           x == Len(body.wire) - q
           c == Sized(body, q, x)
           l == Len(b.wire)
           e == EntryOf(s, type, owner, rd.target, l, Len(c.wire))
<1>1. type \in {"A", "NS"} /\ rd.target \in MessageNames /\ (type = "A" => rd.target = << >>)
  BY RdataFacts
<1>2. RecordToWire(b, owner, rd) = c
  BY DEF RecordToWire, RecordStart, Sized
<1> HIDE DEF type
<1>3. PICK K \in SUBSET MarkRecords :
               /\ M \subseteq K /\ BufferOK(d, K) /\ Extends(b, d)
               /\ l \in Nat /\ q \in Nat \ {0} /\ l + 1 < q
               /\ d.wire[q] = <<"fixed", type, 0>>
               /\ Spelled(K, owner, l, q - 1)
  BY <1>1, StartOfRecord
<1> HIDE DEF d
<1>4. \E N \in SUBSET MarkRecords :
        /\ K \subseteq N /\ BufferOK(body, N) /\ Extends(d, body) /\ Len(body.wire) \in Nat /\ q < Len(body.wire)
        /\ type = "A" => Len(body.wire) = q + 1
        /\ type = "NS" => Spelled(N, rd.target, q, Len(body.wire))
  <2>1. CASE type = "A"
    <3> DEFINE cells == << <<"address">> >>
    <3>1. cells \in Seq(PlainCells) /\ Len(cells) = 1
      BY DEF PlainCells
    <3> HIDE DEF cells
    <3>2. BufferOK(Put(d, cells), K) /\ Extends(d, Put(d, cells)) /\ Len(Put(d, cells).wire) = q + Len(cells)
      BY <1>3, <3>1, PutFacts
    <3>3. body = Put(d, cells)
      BY <2>1 DEF cells
    <3> HIDE DEF body
    <3>4. Len(body.wire) = q + 1
      BY <3>1, <3>2, <3>3
    <3> HIDE DEF q
    <3>5. Len(body.wire) \in Nat /\ q < Len(body.wire)
      BY <1>3, <3>4
    <3>6. QED  BY <2>1, <3>2, <3>3, <3>4, <3>5
  <2>2. CASE type = "NS"
    <3>1. rd.target \in Seq(WireLabels)
      BY <1>1, MessageNameFacts
    <3>2. body = NameToWire(d, rd.target)
      BY <2>2
    <3> HIDE DEF body
    <3>3. NameWritten(d, K, rd.target, body)
      BY <1>3, <3>1, <3>2, NameIsWritten
    <3>4. QED  BY <2>2, <3>3 DEF NameWritten, Extends
  <2>3. QED  BY <1>1, <2>1, <2>2
<1>5. PICK N \in SUBSET MarkRecords :
        /\ K \subseteq N /\ BufferOK(body, N) /\ Extends(d, body) /\ Len(body.wire) \in Nat /\ q < Len(body.wire)
        /\ type = "A" => Len(body.wire) = q + 1
        /\ type = "NS" => Spelled(N, rd.target, q, Len(body.wire))
  BY <1>4
<1> HIDE DEF body
<1>6. x \in Nat /\ q \in 1..Len(body.wire)
  BY <1>3, <1>5
<1>7. body.wire[q] = <<"fixed", type, 0>>
  <2>1. q \in 1..Len(d.wire)
    BY <1>3
  <2>2. body.wire[q] = d.wire[q]
    BY <1>5, <2>1 DEF Extends
  <2>3. QED  BY <1>3, <2>2
<1> HIDE DEF q, x
<1>8. /\ BufferOK(c, N) /\ c.table = body.table /\ Len(c.wire) = Len(body.wire)
      /\ c.wire[q] = <<"fixed", type, x>> /\ \A i \in 1..Len(body.wire) : i # q => c.wire[i] = body.wire[i]
  BY <1>1, <1>5, <1>6, <1>7, SizeIsWritten
<1> HIDE DEF c
<1>9. Extends(b, c)
  <2>1. Extends(b, body)
    BY <1>3, <1>5, ExtendsChain
  <2>2. l < q /\ l \in Nat /\ q \in Nat /\ Len(body.wire) \in Nat
    BY <1>3, <1>5
  <2>3. ASSUME NEW i \in 1..l PROVE c.wire[i] = b.wire[i]
    <3>1. i # q /\ i \in 1..Len(body.wire)
      <4>1. l <= Len(body.wire)
        BY <2>1 DEF Extends
      <4>2. QED  BY <2>2, <4>1
    <3>2. c.wire[i] = body.wire[i]
      BY <1>8, <3>1
    <3>3. body.wire[i] = b.wire[i]
      BY <2>1 DEF Extends
    <3>4. QED  BY <3>2, <3>3
  <2>4. QED  BY <1>8, <2>1, <2>3 DEF Extends
<1>10. EntryAt(e, N, c.wire)
  <2>1. /\ e.sec = s /\ e.type = type /\ e.name = owner /\ e.target = rd.target /\ e.from = l /\ e.to = Len(c.wire)
        /\ e = [sec |-> e.sec, type |-> e.type, name |-> e.name, target |-> e.target, from |-> e.from, to |-> e.to]
    BY DEF EntryOf
  <2> HIDE DEF e
  <2>2. s \in 1..4 /\ s # 1
    OBVIOUS
  <2>3. e \in Entries
    <3>1. type \in LogTypes
      BY <1>1 DEF LogTypes
    <3>2. e.to \in Nat /\ e.from \in Nat
      BY <1>3, <1>5, <1>8, <2>1
    <3>3. QED  BY <1>1, <2>1, <2>2, <3>1, <3>2 DEF Entries
  <2>4. e.to - q = x /\ q <= e.to
    BY <1>3, <1>5, <1>6, <1>8, <2>1 DEF x
  <2>5. Spelled(N, owner, l, q - 1)
    BY <1>3, <1>5, SpelledStays
  <2>6. c.wire[q] = <<"fixed", e.type, e.to - q>>
    BY <1>8, <2>1, <2>4
  <2>7. type = "A" => e.to = q + 1
    BY <1>5, <1>8, <2>1
  <2>8. type = "NS" => Spelled(N, e.target, q, e.to)
    BY <1>5, <1>8, <2>1
  <2>9. q \in Nat \ {0} /\ e.to <= Len(c.wire)
    BY <1>3, <1>5, <1>8, <2>1
  <2>10. DataAt(e, N, c.wire, q)
    BY <1>1, <2>1, <2>2, <2>4, <2>5, <2>6, <2>7, <2>8, <2>9 DEF DataAt
  <2>11. QED  BY <2>3, <2>9, <2>10 DEF EntryAt
<1>11. Len(b.wire) < Len(c.wire)
  BY <1>3, <1>5, <1>8
<1>12. M \subseteq N
  BY <1>3, <1>5
<1>13. RecordWritten(b, M, s, owner, type, rd.target, c)
  BY <1>8, <1>9, <1>10, <1>11, <1>12 DEF RecordWritten
<1>14. QED  BY <1>2, <1>13 DEF type

-----------------------------------------------------------------------------
\* The log of a wire: its records in their order, as the header counts them.
Upto(cnt, s) == CASE s = 0 -> 0 [] s = 1 -> cnt[1] [] s = 2 -> cnt[1] + cnt[2] [] s = 3 -> cnt[1] + cnt[2] + cnt[3]
                  [] s = 4 -> cnt[1] + cnt[2] + cnt[3] + cnt[4]
EndOf(L, i) == IF i = 0 THEN HeaderSize ELSE L[i].to
InOrder(L, cnt) ==
    Len(L) = Upto(cnt, 4) /\ \A i \in 1..Len(L) : Upto(cnt, L[i].sec - 1) < i /\ i <= Upto(cnt, L[i].sec)
WrittenAs(L, K, cnt, wire) ==
    /\ L \in Seq(Entries) /\ cnt \in [1..4 -> Nat]
    /\ InOrder(L, cnt)
    /\ \A i \in 1..Len(L) : EntryAt(L[i], K, wire) /\ L[i].from = EndOf(L, i - 1)
    /\ Len(wire) = EndOf(L, Len(L))

LaterEmpty(cnt, s) == \A t \in 1..4 : s < t => cnt[t] = 0

LEMMA UptoFacts ==
  ASSUME NEW cnt \in [1..4 -> Nat]
  PROVE  /\ \A t \in 0..4 : Upto(cnt, t) \in Nat
         /\ \A t \in 1..4 : Upto(cnt, t) = Upto(cnt, t - 1) + cnt[t]
         /\ \A t, r \in 0..4 : t <= r => Upto(cnt, t) <= Upto(cnt, r)
<1> DEFINE a == cnt[1]
           b == cnt[2]
           c == cnt[3]
           d == cnt[4]
<1>1. a \in Nat /\ b \in Nat /\ c \in Nat /\ d \in Nat
  OBVIOUS
<1>2. /\ Upto(cnt, 0) = 0 /\ Upto(cnt, 1) = a /\ Upto(cnt, 2) = a + b /\ Upto(cnt, 3) = a + b + c
      /\ Upto(cnt, 4) = a + b + c + d
  BY DEF Upto
<1> HIDE DEF a, b, c, d
<1>3. \A t \in 0..4 : t = 0 \/ t = 1 \/ t = 2 \/ t = 3 \/ t = 4
  OBVIOUS
<1>4. ASSUME NEW t \in 0..4 PROVE Upto(cnt, t) \in Nat
  BY <1>1, <1>2, <1>3
<1>5. /\ Upto(cnt, 1) = Upto(cnt, 0) + a /\ Upto(cnt, 2) = Upto(cnt, 1) + b
      /\ Upto(cnt, 3) = Upto(cnt, 2) + c /\ Upto(cnt, 4) = Upto(cnt, 3) + d
  BY <1>1, <1>2
<1>6. ASSUME NEW t \in 1..4 PROVE Upto(cnt, t) = Upto(cnt, t - 1) + cnt[t]
  <2>1. \/ t = 1 /\ t - 1 = 0 /\ cnt[t] = a
        \/ t = 2 /\ t - 1 = 1 /\ cnt[t] = b
        \/ t = 3 /\ t - 1 = 2 /\ cnt[t] = c
        \/ t = 4 /\ t - 1 = 3 /\ cnt[t] = d
    <3>1. t = 1 \/ t = 2 \/ t = 3 \/ t = 4
      OBVIOUS
    <3>2. QED  BY <3>1 DEF a, b, c, d
  <2>2. QED  BY <1>5, <2>1
<1>7. ASSUME NEW t \in 0..4, NEW r \in 0..4, t <= r PROVE Upto(cnt, t) <= Upto(cnt, r)
  <2>1. Upto(cnt, 0) <= Upto(cnt, 1) /\ Upto(cnt, 1) <= Upto(cnt, 2) /\ Upto(cnt, 2) <= Upto(cnt, 3) /\ Upto(cnt, 3) <= Upto(cnt, 4)
    BY <1>1, <1>2
  <2>2. /\ Upto(cnt, 0) \in Nat /\ Upto(cnt, 1) \in Nat /\ Upto(cnt, 2) \in Nat /\ Upto(cnt, 3) \in Nat
        /\ Upto(cnt, 4) \in Nat
    BY <1>4
  <2>3. QED  BY <1>3, <1>7, <2>1, <2>2
<1>8. QED  BY <1>4, <1>6, <1>7

CountedIn(cnt, s, k) == [cnt EXCEPT ![s] = @ + k]

LEMMA OneMoreCounted ==
  ASSUME NEW cnt \in [1..4 -> Nat], NEW s \in 1..4, NEW k \in Nat, LaterEmpty(cnt, s)
  PROVE  LET more == CountedIn(cnt, s, k)
         IN  /\ more \in [1..4 -> Nat] /\ LaterEmpty(more, s)
             /\ \A t \in 0..4 : t < s => Upto(more, t) = Upto(cnt, t)
             /\ \A t \in 0..4 : s <= t => Upto(cnt, t) = Upto(cnt, 4) /\ Upto(more, t) = Upto(cnt, 4) + k
<1> DEFINE more == CountedIn(cnt, s, k)
           a == cnt[1]
           b == cnt[2]
           c == cnt[3]
           d == cnt[4]
<1>1. a \in Nat /\ b \in Nat /\ c \in Nat /\ d \in Nat
  OBVIOUS
<1>2. /\ Upto(cnt, 0) = 0 /\ Upto(cnt, 1) = a /\ Upto(cnt, 2) = a + b /\ Upto(cnt, 3) = a + b + c
      /\ Upto(cnt, 4) = a + b + c + d
  BY DEF Upto
<1>3. \A t \in 0..4 : t = 0 \/ t = 1 \/ t = 2 \/ t = 3 \/ t = 4
  OBVIOUS
<1>4. more \in [1..4 -> Nat] /\ \A t \in 1..4 : more[t] = IF t = s THEN cnt[s] + k ELSE cnt[t]
  BY DEF CountedIn
<1>5. LaterEmpty(more, s)
  <2> HIDE DEF more
  <2>1. QED  BY <1>4 DEF LaterEmpty
<1>6. /\ more[1] = (IF s = 1 THEN a + k ELSE a) /\ more[2] = (IF s = 2 THEN b + k ELSE b)
      /\ more[3] = (IF s = 3 THEN c + k ELSE c) /\ more[4] = (IF s = 4 THEN d + k ELSE d)
  BY <1>4
<1>7. /\ Upto(more, 0) = 0 /\ Upto(more, 1) = more[1] /\ Upto(more, 2) = more[1] + more[2]
      /\ Upto(more, 3) = more[1] + more[2] + more[3] /\ Upto(more, 4) = more[1] + more[2] + more[3] + more[4]
  BY DEF Upto
<1>8. (s < 2 => b = 0) /\ (s < 3 => c = 0) /\ (s < 4 => d = 0)
  BY DEF LaterEmpty
<1>9. s = 1 \/ s = 2 \/ s = 3 \/ s = 4
  OBVIOUS
<1> HIDE DEF a, b, c, d, more
<1>10. ASSUME NEW t \in 0..4, t < s PROVE Upto(more, t) = Upto(cnt, t)
  <2>1. t = 0 \/ t = 1 \/ t = 2 \/ t = 3
    BY <1>9, <1>10
  <2>2. CASE t = 0
    BY <1>2, <1>7, <2>2
  <2>3. CASE t = 1
    BY <1>1, <1>2, <1>6, <1>7, <1>9, <1>10, <2>3
  <2>4. CASE t = 2
    BY <1>1, <1>2, <1>6, <1>7, <1>9, <1>10, <2>4
  <2>5. CASE t = 3
    BY <1>1, <1>2, <1>6, <1>7, <1>9, <1>10, <2>5
  <2>6. QED  BY <2>1, <2>2, <2>3, <2>4, <2>5
<1>11. ASSUME NEW t \in 0..4, s <= t PROVE Upto(cnt, t) = Upto(cnt, 4) /\ Upto(more, t) = Upto(cnt, 4) + k
  <2>1. CASE s = 1
    <3>1. b = 0 /\ c = 0 /\ d = 0 /\ more[1] = a + k /\ more[2] = 0 /\ more[3] = 0 /\ more[4] = 0
      BY <1>6, <1>8, <2>1
    <3>2. /\ Upto(cnt, 1) = a /\ Upto(cnt, 2) = a /\ Upto(cnt, 3) = a /\ Upto(cnt, 4) = a
          /\ Upto(more, 1) = a + k /\ Upto(more, 2) = a + k /\ Upto(more, 3) = a + k /\ Upto(more, 4) = a + k
      BY <1>1, <1>2, <1>7, <3>1
    <3>3. QED  BY <1>3, <1>11, <2>1, <3>2
  <2>2. CASE s = 2
    <3>1. c = 0 /\ d = 0 /\ more[1] = a /\ more[2] = b + k /\ more[3] = 0 /\ more[4] = 0
      BY <1>6, <1>8, <2>2
    <3>2. /\ Upto(cnt, 2) = a + b /\ Upto(cnt, 3) = a + b /\ Upto(cnt, 4) = a + b
          /\ Upto(more, 2) = a + b + k /\ Upto(more, 3) = a + b + k /\ Upto(more, 4) = a + b + k
      BY <1>1, <1>2, <1>7, <3>1
    <3>3. QED  BY <1>3, <1>11, <2>2, <3>2
  <2>3. CASE s = 3
    <3>1. d = 0 /\ more[1] = a /\ more[2] = b /\ more[3] = c + k /\ more[4] = 0
      BY <1>6, <1>8, <2>3
    <3>2. /\ Upto(cnt, 3) = a + b + c /\ Upto(cnt, 4) = a + b + c
          /\ Upto(more, 3) = a + b + c + k /\ Upto(more, 4) = a + b + c + k
      BY <1>1, <1>2, <1>7, <3>1
    <3>3. QED  BY <1>3, <1>11, <2>3, <3>2
  <2>4. CASE s = 4
    <3>1. more[1] = a /\ more[2] = b /\ more[3] = c /\ more[4] = d + k
      BY <1>6, <2>4
    <3>2. Upto(more, 4) = a + b + c + d + k
      BY <1>1, <1>7, <3>1
    <3>3. QED  BY <1>2, <1>3, <1>11, <2>4, <3>2
  <2>5. QED  BY <1>9, <2>1, <2>2, <2>3, <2>4
<1>12. QED  BY <1>4, <1>5, <1>10, <1>11 DEF more

LEMMA LogGrows ==
  ASSUME NEW L, NEW K \in SUBSET MarkRecords, NEW cnt, NEW v, WrittenAs(L, K, cnt, v), MarksOK(K, v),
         NEW N, K \subseteq N, NEW w, SameButHeader(v, w),
         NEW e, EntryAt(e, N, w), e.from = Len(v), e.to = Len(w), LaterEmpty(cnt, e.sec),
         \A i \in 1..Len(L) : L[i].type # "TSIG"
  PROVE  WrittenAs(Append(L, e), N, CountedIn(cnt, e.sec, 1), w)
<1> DEFINE s == e.sec
           l == Len(L)
           P == Append(L, e)
           more == CountedIn(cnt, s, 1)
           k == l + 1
<1>1. e \in Entries /\ s \in 1..4
  BY DEF EntryAt, Entries
<1>2. L \in Seq(Entries) /\ cnt \in [1..4 -> Nat] /\ l \in Nat
  BY LenProperties DEF WrittenAs
<1>3. P \in Seq(Entries) /\ Len(P) = k /\ P[k] = e /\ \A i \in 1..l : P[i] = L[i]
  BY <1>1, <1>2, AppendProperties
<1>4. /\ more \in [1..4 -> Nat]
      /\ \A t \in 0..4 : t < s => Upto(more, t) = Upto(cnt, t)
      /\ \A t \in 0..4 : s <= t => Upto(cnt, t) = Upto(cnt, 4) /\ Upto(more, t) = Upto(cnt, 4) + 1
  <2>1. LaterEmpty(cnt, s) /\ 1 \in Nat
    OBVIOUS
  <2> HIDE DEF s
  <2>2. /\ more \in [1..4 -> Nat] /\ LaterEmpty(more, s)
        /\ \A t \in 0..4 : t < s => Upto(more, t) = Upto(cnt, t)
        /\ \A t \in 0..4 : s <= t => Upto(cnt, t) = Upto(cnt, 4) /\ Upto(more, t) = Upto(cnt, 4) + 1
    BY <1>1, <1>2, <2>1, OneMoreCounted
  <2>3. QED  BY <2>2
<1>5. /\ \A t \in 0..4 : Upto(cnt, t) \in Nat
      /\ \A t, r \in 0..4 : t <= r => Upto(cnt, t) <= Upto(cnt, r)
  BY <1>2, UptoFacts
<1>6. l = Upto(cnt, 4) /\ \A i \in 1..l : Upto(cnt, L[i].sec - 1) < i /\ i <= Upto(cnt, L[i].sec)
  BY DEF WrittenAs, InOrder
<1>7. k \in Nat \ {0} /\ k - 1 = l /\ k \notin 1..l /\ \A i \in 1..k : i \in 1..l \/ i = k
  BY <1>2
<1> HIDE DEF P, more, k, l
<1>8. ASSUME NEW i \in 1..k PROVE Upto(more, P[i].sec - 1) < i /\ i <= Upto(more, P[i].sec)
  <2>1. CASE i \in 1..l
    <3> DEFINE t == L[i].sec
               r == t - 1
    <3>1. L[i] \in Entries
      BY <1>2, <2>1, ElementOfSeq DEF l
    <3>2. t \in 1..4 /\ r \in 0..4 /\ t \in 0..4 /\ r < t
      BY <3>1 DEF Entries
    <3>3. Upto(cnt, r) < i /\ i <= Upto(cnt, t) /\ P[i].sec = t
      BY <1>3, <1>6, <2>1
    <3> HIDE DEF t, r
    <3>4. i \in Nat /\ i <= l
      BY <1>2, <2>1
    <3>5. r < s
      <4>1. SUFFICES ASSUME s <= r PROVE FALSE
        BY <1>1, <3>2
      <4>2. Upto(cnt, r) = l
        BY <1>4, <1>6, <3>2, <4>1
      <4>3. QED  BY <1>2, <3>3, <3>4, <4>2
    <3>6. Upto(more, r) < i
      BY <1>4, <3>2, <3>3, <3>5
    <3>7. i <= Upto(more, t)
      <4>1. CASE t < s
        BY <1>4, <3>2, <3>3, <4>1
      <4>2. CASE s <= t
        <5>1. Upto(more, t) = l + 1
          BY <1>4, <1>6, <3>2, <4>2
        <5>2. QED  BY <1>2, <3>4, <5>1
      <4>3. QED  BY <1>1, <3>2, <4>1, <4>2
    <3>8. QED  BY <3>3, <3>6, <3>7 DEF r
  <2>2. CASE i = k
    <3> DEFINE r == s - 1
    <3>1. P[i].sec = s /\ r \in 0..4 /\ s \in 0..4 /\ r < s /\ s <= s /\ r <= 4 /\ 4 \in 0..4
      BY <1>1, <1>3, <2>2
    <3> HIDE DEF r, s
    <3>2. Upto(more, r) = Upto(cnt, r) /\ Upto(cnt, r) <= l /\ Upto(cnt, r) \in Nat
      BY <1>4, <1>5, <1>6, <3>1
    <3>3. Upto(more, s) = l + 1
      BY <1>4, <1>6, <3>1
    <3>4. Upto(more, r) < k /\ k <= Upto(more, s)
      BY <1>2, <3>2, <3>3 DEF k
    <3>5. QED  BY <2>2, <3>1, <3>4 DEF r
  <2>3. QED  BY <1>7, <2>1, <2>2
<1>9. Len(P) = Upto(more, 4)
  <2>1. 4 \in 0..4 /\ s <= 4
    BY <1>1
  <2>2. Upto(more, 4) = l + 1
    BY <1>4, <1>6, <2>1
  <2>3. QED  BY <1>3, <2>2 DEF k
<1>10. ASSUME NEW i \in 1..k PROVE EntryAt(P[i], N, w) /\ P[i].from = EndOf(P, i - 1)
  <2>1. CASE i \in 1..l
    <3>1. EntryAt(L[i], K, v) /\ L[i].from = EndOf(L, i - 1) /\ L[i].type # "TSIG"
      BY <2>1 DEF WrittenAs, l
    <3>2. EntryAt(L[i], N, w)
      BY <3>1, EntryStays
    <3>3. EndOf(P, i - 1) = EndOf(L, i - 1)
      <4> DEFINE j == i - 1
      <4>1. j = 0 \/ j \in 1..l
        BY <1>2, <2>1
      <4> HIDE DEF j
      <4>2. EndOf(P, j) = EndOf(L, j)
        BY <1>3, <4>1 DEF EndOf
      <4>3. QED  BY <4>2 DEF j
    <3>4. QED  BY <1>3, <2>1, <3>1, <3>2, <3>3
  <2>2. CASE i = k
    <3>1. EndOf(P, l) = EndOf(L, l)
      <4>1. l = 0 \/ l \in 1..l
        BY <1>2
      <4>2. QED  BY <1>3, <4>1 DEF EndOf
    <3>2. Len(v) = EndOf(L, l)
      BY DEF WrittenAs, l
    <3>3. QED  BY <1>3, <1>7, <2>2, <3>1, <3>2
  <2>3. QED  BY <1>7, <2>1, <2>2
<1>11. Len(w) = EndOf(P, Len(P))
  BY <1>3, <1>7 DEF EndOf
<1>12. QED  BY <1>3, <1>4, <1>8, <1>9, <1>10, <1>11 DEF WrittenAs, InOrder, P, more, s

\* What a log says of the message.
Rec(e) == <<e.sec, e.name, e.type, e.target>>
PlacesOf(L, kinds) == {i \in 1..Len(L) : L[i].type \in kinds}
Logged(L) == {Rec(L[i]) : i \in PlacesOf(L, {"A", "NS"})}
Says(L, acc, extra) ==
    /\ acc = Logged(L)
    /\ \A i, j \in PlacesOf(L, {"OPT"}) : i = j
    /\ extra \subseteq {"OPT", "TSIG"} /\ \A t \in {"OPT", "TSIG"} : t \in extra <=> PlacesOf(L, {t}) # {}
    /\ PlacesOf(L, {"TSIG"}) \subseteq {Len(L)}

LEMMA HoldsMore ==
  ASSUME NEW L \in Seq(Entries), NEW e \in Entries, NEW kinds
  PROVE  /\ PlacesOf(Append(L, e), kinds) = PlacesOf(L, kinds) \cup (IF e.type \in kinds THEN {Len(L) + 1} ELSE {})
         /\ \A i \in PlacesOf(L, kinds) : Append(L, e)[i] = L[i]
         /\ Append(L, e)[Len(L) + 1] = e
         /\ PlacesOf(L, kinds) \subseteq 1..Len(L) /\ Len(L) \in Nat /\ Len(Append(L, e)) = Len(L) + 1
<1> DEFINE P == Append(L, e)
           l == Len(L)
           k == l + 1
<1>1. l \in Nat /\ Len(P) = k /\ P[k] = e /\ \A i \in 1..l : P[i] = L[i]
  BY AppendProperties, LenProperties
<1>2. k \notin 1..l /\ \A i : i \in 1..k <=> i \in 1..l \/ i = k
  BY <1>1
<1> HIDE DEF P, l, k
<1>3. \A i : i \in PlacesOf(P, kinds) <=> i \in 1..k /\ P[i].type \in kinds
  BY <1>1 DEF PlacesOf
<1>4. \A i : i \in PlacesOf(L, kinds) <=> i \in 1..l /\ L[i].type \in kinds
  BY DEF PlacesOf, l
<1>5. PlacesOf(P, kinds) = PlacesOf(L, kinds) \cup (IF e.type \in kinds THEN {k} ELSE {})
  BY <1>1, <1>2, <1>3, <1>4
<1>6. QED  BY <1>1, <1>4, <1>5 DEF P, l, k

LEMMA SaysMore ==
  ASSUME NEW L \in Seq(Entries), NEW e \in Entries, NEW acc, NEW extra, Says(L, acc, extra), "TSIG" \notin extra
  PROVE  /\ e.type \in {"A", "NS"} => Says(Append(L, e), acc \cup {Rec(e)}, extra)
         /\ e.type = "OPT" /\ "OPT" \notin extra => Says(Append(L, e), acc, extra \cup {"OPT"})
         /\ e.type = "TSIG" => Says(Append(L, e), acc, extra \cup {"TSIG"})
<1> DEFINE P == Append(L, e)
           k == Len(L) + 1
           R == {"A", "NS"}
           O == {"OPT"}
           T == {"TSIG"}
<1>1. ASSUME NEW kinds
      PROVE  /\ PlacesOf(P, kinds) = PlacesOf(L, kinds) \cup (IF e.type \in kinds THEN {k} ELSE {})
             /\ \A i \in PlacesOf(L, kinds) : P[i] = L[i]
  BY HoldsMore
<1>2. P[k] = e /\ Len(P) = k
  BY HoldsMore
<1>3. /\ acc = Logged(L)
      /\ \A i, j \in PlacesOf(L, O) : i = j
      /\ extra \subseteq {"OPT", "TSIG"} /\ ("OPT" \in extra <=> PlacesOf(L, O) # {}) /\ PlacesOf(L, T) = {}
  BY DEF Says
<1> HIDE DEF P, k
<1>4. CASE e.type \in R
  <2>1. PlacesOf(P, R) = PlacesOf(L, R) \cup {k} /\ PlacesOf(P, O) = PlacesOf(L, O) /\ PlacesOf(P, T) = {}
    BY <1>1, <1>3, <1>4
  <2>2. Logged(P) = Logged(L) \cup {Rec(e)}
    <3>1. \A i \in PlacesOf(L, R) : P[i] = L[i]
      BY <1>1
    <3>2. Logged(P) = {Rec(P[i]) : i \in PlacesOf(L, R) \cup {k}}
      BY <2>1 DEF Logged
    <3>3. Logged(L) = {Rec(L[i]) : i \in PlacesOf(L, R)}
      BY DEF Logged
    <3>4. QED  BY <1>2, <3>1, <3>2, <3>3
  <2>3. Says(P, acc \cup {Rec(e)}, extra)
    BY <1>3, <2>1, <2>2 DEF Says
  <2>4. QED  BY <1>4, <2>3 DEF P
<1>5. ASSUME e.type \notin R PROVE Logged(P) = Logged(L)
  <2>1. PlacesOf(P, R) = PlacesOf(L, R) /\ \A i \in PlacesOf(L, R) : P[i] = L[i]
    BY <1>1, <1>5
  <2>2. QED  BY <2>1 DEF Logged
<1>6. CASE e.type = "OPT" /\ "OPT" \notin extra
  <2>1. PlacesOf(P, O) = {k} /\ PlacesOf(P, T) = {}
    BY <1>1, <1>3, <1>6
  <2>2. Logged(P) = Logged(L)
    BY <1>5, <1>6
  <2>3. Says(P, acc, extra \cup {"OPT"})
    BY <1>3, <2>1, <2>2 DEF Says
  <2>4. QED  BY <1>6, <2>3 DEF P
<1>7. CASE e.type = "TSIG"
  <2>1. PlacesOf(P, O) = PlacesOf(L, O) /\ PlacesOf(P, T) = {k}
    BY <1>1, <1>3, <1>7
  <2>2. Logged(P) = Logged(L)
    BY <1>5, <1>7
  <2>3. Says(P, acc, extra \cup {"TSIG"})
    BY <1>2, <1>3, <2>1, <2>2 DEF Says
  <2>4. QED  BY <1>7, <2>3 DEF P
<1>8. QED  BY <1>4, <1>6, <1>7 DEF P

-----------------------------------------------------------------------------
\* What the renderer has written, and what of it must be read.
Headers == {"header"} \X [1..4 -> Nat]
SentBy(K, L, b, cnt, acc, extra) ==
    /\ K \in SUBSET MarkRecords /\ BufferOK(b, K) /\ b.wire[1] \in Headers
    /\ WrittenAs(L, K, cnt, b.wire) /\ Says(L, acc, extra) /\ "TSIG" \notin extra
Sent(b, cnt, acc, extra) == \E K, L : SentBy(K, L, b, cnt, acc, extra)

LEMMA SentFacts ==
  ASSUME NEW K, NEW L, NEW b, NEW cnt, NEW acc, NEW extra, SentBy(K, L, b, cnt, acc, extra)
  PROVE  /\ Len(b.wire) \in Nat \ {0} /\ L \in Seq(Entries) /\ Len(L) \in Nat /\ cnt \in [1..4 -> Nat]
         /\ \A i \in 1..Len(L) : L[i].type # "TSIG"
         /\ MarksOK(K, b.wire)
<1>1. L \in Seq(Entries) /\ cnt \in [1..4 -> Nat] /\ Len(b.wire) = EndOf(L, Len(L)) /\ MarksOK(K, b.wire) /\ b.wire \in Seq(PlainCells)
  BY DEF SentBy, WrittenAs, BufferOK
<1>2. Len(L) \in Nat /\ Len(b.wire) \in Nat
  BY <1>1, LenProperties
<1>3. \A i \in 1..Len(L) : L[i].type # "TSIG"
  <2>1. PlacesOf(L, {"TSIG"}) = {}
    BY DEF SentBy, Says
  <2>2. QED  BY <2>1 DEF PlacesOf
<1>4. Len(b.wire) # 0
  <2>1. CASE Len(L) = 0
    BY <1>1, <2>1 DEF EndOf, HeaderSize
  <2>2. CASE Len(L) # 0
    <3> DEFINE i == Len(L)
    <3>1. i \in 1..Len(L)
      BY <1>2, <2>2
    <3> HIDE DEF i
    <3>2. L[i] \in Entries /\ EntryAt(L[i], K, b.wire)
      BY <1>1, <3>1, ElementOfSeq DEF SentBy, WrittenAs
    <3>3. PICK p \in Nat : DataAt(L[i], K, b.wire, p)
      BY <3>2 DEF EntryAt
    <3>4. p # 0 /\ p <= L[i].to /\ L[i].to <= Len(b.wire) /\ L[i].to \in Nat
      BY <3>2, <3>3 DEF DataAt, Entries
    <3>5. QED  BY <1>2, <3>4
  <2>3. QED  BY <2>1, <2>2
<1>5. QED  BY <1>1, <1>2, <1>3, <1>4

LEMMA HeaderStays ==
  ASSUME NEW b, NEW c, Extends(b, c), Len(b.wire) # 0, b.wire[1] \in Headers
  PROVE  c.wire[1] \in Headers
<1>1. 1 \in 1..Len(b.wire)
  BY DEF Extends
<1>2. QED  BY <1>1 DEF Extends

LEMMA ExtendsIsSame ==
  ASSUME NEW b, NEW c, Extends(b, c)
  PROVE  SameButHeader(b.wire, c.wire)
<1>1. \A i \in 2..Len(b.wire) : i \in 1..Len(b.wire)
  BY DEF Extends
<1>2. QED  BY <1>1 DEF Extends, SameButHeader

\* One record more.
LEMMA SentMore ==
  ASSUME NEW K, NEW L, NEW b, NEW cnt, NEW acc, NEW extra, SentBy(K, L, b, cnt, acc, extra),
         NEW c, Extends(b, c), NEW N \in SUBSET MarkRecords, K \subseteq N, BufferOK(c, N),
         NEW e, EntryAt(e, N, c.wire), e.from = Len(b.wire), e.to = Len(c.wire), LaterEmpty(cnt, e.sec)
  PROVE  /\ e.type \in {"A", "NS"} => Sent(c, CountedIn(cnt, e.sec, 1), acc \cup {Rec(e)}, extra)
         /\ e.type = "OPT" /\ "OPT" \notin extra => Sent(c, CountedIn(cnt, e.sec, 1), acc, extra \cup {"OPT"})
<1>1. /\ Len(b.wire) \in Nat \ {0} /\ L \in Seq(Entries)
      /\ \A i \in 1..Len(L) : L[i].type # "TSIG"
      /\ MarksOK(K, b.wire)
  BY SentFacts
<1>2. c.wire[1] \in Headers
  BY <1>1, HeaderStays DEF SentBy
<1>3. SameButHeader(b.wire, c.wire)
  BY ExtendsIsSame
<1>4. WrittenAs(L, K, cnt, b.wire) /\ Says(L, acc, extra) /\ K \in SUBSET MarkRecords /\ "TSIG" \notin extra
  BY DEF SentBy
<1>5. WrittenAs(Append(L, e), N, CountedIn(cnt, e.sec, 1), c.wire)
  BY <1>1, <1>3, <1>4, LogGrows
<1>6. e \in Entries
  BY DEF EntryAt
<1>7. CASE e.type = "OPT" /\ "OPT" \notin extra
  <2>1. Says(Append(L, e), acc, extra \cup {"OPT"})
    BY <1>1, <1>4, <1>6, <1>7, SaysMore
  <2>2. SentBy(N, Append(L, e), c, CountedIn(cnt, e.sec, 1), acc, extra \cup {"OPT"})
    BY <1>2, <1>4, <1>5, <2>1 DEF SentBy
  <2>3. QED  BY <1>7, <2>2 DEF Sent
<1>8. CASE e.type \in {"A", "NS"}
  <2>1. Says(Append(L, e), acc \cup {Rec(e)}, extra)
    BY <1>1, <1>4, <1>6, <1>8, SaysMore
  <2>2. SentBy(N, Append(L, e), c, CountedIn(cnt, e.sec, 1), acc \cup {Rec(e)}, extra)
    BY <1>2, <1>4, <1>5, <2>1 DEF SentBy
  <2>3. QED  BY <1>8, <2>2 DEF Sent
<1>9. QED  BY <1>7, <1>8

LEMMA RecordIsSent ==
  ASSUME NEW b, NEW cnt, NEW acc, NEW extra, Sent(b, cnt, acc, extra), NEW s \in 2..4, LaterEmpty(cnt, s),
         NEW owner \in MessageNames, NEW rd \in Rdatas
  PROVE  LET c == RecordToWire(b, owner, rd)
         IN  Extends(b, c) /\ Sent(c, CountedIn(cnt, s, 1), acc \cup {<<s, owner, rd.type, rd.target>>}, extra)
<1> DEFINE c == RecordToWire(b, owner, rd)
           e == EntryOf(s, rd.type, owner, rd.target, Len(b.wire), Len(c.wire))
<1>1. PICK K, L : SentBy(K, L, b, cnt, acc, extra)
  BY DEF Sent
<1>2. K \in SUBSET MarkRecords /\ BufferOK(b, K)
  BY <1>1 DEF SentBy
<1>3. RecordWritten(b, K, s, owner, rd.type, rd.target, c)
  BY <1>2, RecordIsWritten
<1> HIDE DEF c
<1>4. PICK N \in SUBSET MarkRecords : K \subseteq N /\ BufferOK(c, N) /\ EntryAt(e, N, c.wire)
  BY <1>3 DEF RecordWritten
<1>5. /\ e.sec = s /\ e.type = rd.type /\ e.name = owner /\ e.target = rd.target
      /\ e.from = Len(b.wire) /\ e.to = Len(c.wire)
  BY DEF EntryOf
<1> HIDE DEF e
<1>6. Extends(b, c) /\ rd.type \in {"A", "NS"}
  BY <1>3, RdataFacts DEF RecordWritten
<1>7. e.type \in {"A", "NS"} /\ LaterEmpty(cnt, e.sec)
  BY <1>5, <1>6
<1>8. Sent(c, CountedIn(cnt, e.sec, 1), acc \cup {Rec(e)}, extra)
  BY <1>1, <1>4, <1>5, <1>6, <1>7, SentMore
<1>9. Rec(e) = <<s, owner, rd.type, rd.target>>
  BY <1>5 DEF Rec
<1>10. Sent(c, CountedIn(cnt, s, 1), acc \cup {<<s, owner, rd.type, rd.target>>}, extra)
  BY <1>5, <1>8, <1>9
<1>11. QED  BY <1>6, <1>10 DEF c

LEMMA QuestionIsSent ==
  ASSUME NEW b, NEW cnt, NEW acc, NEW extra, Sent(b, cnt, acc, extra), LaterEmpty(cnt, 1),
         NEW owner \in MessageNames
  PROVE  LET c == RecordStart(b, owner, "A")
         IN  Extends(b, c) /\ Sent(c, CountedIn(cnt, 1, 1), acc \cup {<<1, owner, "A", << >>>>}, extra)
<1> DEFINE c == RecordStart(b, owner, "A")
           l == Len(b.wire)
           q == Len(c.wire)
           e == EntryOf(1, "A", owner, << >>, l, q)
<1>1. PICK K, L : SentBy(K, L, b, cnt, acc, extra)
  BY DEF Sent
<1>2. K \in SUBSET MarkRecords /\ BufferOK(b, K)
  BY <1>1 DEF SentBy
<1>3. PICK N \in SUBSET MarkRecords :
               /\ K \subseteq N /\ BufferOK(c, N) /\ Extends(b, c)
               /\ l \in Nat /\ q \in Nat \ {0} /\ l + 1 < q
               /\ c.wire[q] = <<"fixed", "A", 0>>
               /\ Spelled(N, owner, l, q - 1)
  BY <1>2, StartOfRecord
<1> HIDE DEF c
<1>4. /\ e.sec = 1 /\ e.type = "A" /\ e.name = owner /\ e.target = << >> /\ e.from = l /\ e.to = q
      /\ e = [sec |-> e.sec, type |-> e.type, name |-> e.name, target |-> e.target, from |-> e.from, to |-> e.to]
  BY DEF EntryOf
<1> HIDE DEF e
<1>5. e \in Entries
  <2>1. 1 \in 1..4 /\ "A" \in LogTypes /\ << >> \in MessageNames
    BY DEF LogTypes, MessageNames
  <2>2. QED  BY <1>3, <1>4, <2>1 DEF Entries
<1>6. DataAt(e, N, c.wire, q)
  <2>1. e.to - q = 0 /\ q <= e.to /\ e.to <= Len(c.wire)
    BY <1>3, <1>4
  <2>2. c.wire[q] = <<"fixed", e.type, e.to - q>>
    BY <1>3, <1>4, <2>1
  <2> HIDE DEF q, l
  <2>3. QED  BY <1>3, <1>4, <2>1, <2>2 DEF DataAt
<1>7. EntryAt(e, N, c.wire)
  BY <1>3, <1>5, <1>6 DEF EntryAt
<1>8. e.type \in {"A", "NS"} /\ LaterEmpty(cnt, e.sec)
  BY <1>4
<1>9. Sent(c, CountedIn(cnt, e.sec, 1), acc \cup {Rec(e)}, extra)
  BY <1>1, <1>3, <1>4, <1>7, <1>8, SentMore
<1>10. Rec(e) = <<1, owner, "A", << >>>>
  BY <1>4 DEF Rec
<1>11. Sent(c, CountedIn(cnt, 1, 1), acc \cup {<<1, owner, "A", << >>>>}, extra)
  BY <1>4, <1>9, <1>10
<1>12. QED  BY <1>3, <1>11 DEF c

LEMMA OptIsSent ==
  ASSUME NEW b, NEW cnt, NEW acc, NEW extra, Sent(b, cnt, acc, extra), "OPT" \notin extra, LaterEmpty(cnt, 4)
  PROVE  LET c == Put(b, OptCells)
         IN  /\ Extends(b, c) /\ Sent(c, CountedIn(cnt, 4, 1), acc, extra \cup {"OPT"})
             /\ Len(b.wire) \in Nat /\ Len(c.wire) = Len(b.wire) + 3
<1> DEFINE c == Put(b, OptCells)
           l == Len(b.wire)
           p == l + 2
           e == EntryOf(4, "OPT", << >>, << >>, l, Len(c.wire))
           m == [n |-> << >>, a |-> l, s |-> l, e |-> l + 1]
<1>1. PICK K, L : SentBy(K, L, b, cnt, acc, extra)
  BY DEF Sent
<1>2. K \in SUBSET MarkRecords /\ BufferOK(b, K)
  BY <1>1 DEF SentBy
<1>3. /\ OptCells \in Seq(PlainCells) /\ Len(OptCells) = 3
      /\ OptCells[1] = <<"root">> /\ OptCells[2] = <<"fixed", "OPT", 1>>
  <2>1. <<"root">> \in PlainCells /\ <<"fixed", "OPT", 1>> \in PlainCells /\ <<"options">> \in PlainCells
    BY DEF PlainCells
  <2>2. QED  BY <2>1 DEF OptCells
<1> DEFINE cells == OptCells
<1> HIDE DEF cells
<1>4. /\ BufferOK(c, K) /\ Extends(b, c)
      /\ l \in Nat /\ Len(c.wire) = l + Len(OptCells)
      /\ \A i \in 1..Len(OptCells) : c.wire[l + i] = OptCells[i]
  BY <1>2, <1>3, PutFacts
<1> HIDE DEF c
<1>5. Len(c.wire) = l + 3 /\ c.wire[l + 1] = <<"root">> /\ c.wire[p] = <<"fixed", "OPT", 1>>
  <2>1. 1 \in 1..Len(OptCells) /\ 2 \in 1..Len(OptCells)
    BY <1>3
  <2>2. QED  BY <1>3, <1>4, <2>1
<1> DEFINE N == K \cup {m}
<1>6. m.n = << >> /\ m.a = l /\ m.s = l /\ m.e = l + 1 /\ m = [n |-> m.n, a |-> m.a, s |-> m.s, e |-> m.e]
  OBVIOUS
<1> HIDE DEF m
<1>7. MarkOK(m, N, c.wire)
  <2> HIDE DEF l, N
  <2>1. l \in Nat /\ l + 1 \in Nat /\ l <= l /\ l < l + 1 /\ l + 1 <= l + 3
    BY <1>4
  <2>2. m \in MarkRecords
    BY <1>6, <2>1, EmptySeq DEF MarkRecords
  <2>3. RootMark(m, c.wire)
    BY <1>5, <1>6 DEF RootMark
  <2>4. m.s <= m.a /\ m.a < m.e /\ m.e <= Len(c.wire)
    BY <1>5, <1>6, <2>1
  <2>5. QED  BY <2>2, <2>3, <2>4 DEF MarkOK
<1>8. MarksOK(N, c.wire)
  <2>1. ASSUME NEW x \in N PROVE MarkOK(x, N, c.wire)
    <3>1. CASE x = m
      BY <1>7, <3>1
    <3>2. CASE x \in K
      <4>1. MarkOK(x, K, c.wire) /\ K \subseteq N
        BY <1>4, <3>2 DEF BufferOK, MarksOK
      <4> HIDE DEF N
      <4>2. QED  BY <4>1, MoreMarks
    <3>3. QED  BY <3>1, <3>2
  <2>2. QED  BY <2>1 DEF MarksOK
<1>9. N \in SUBSET MarkRecords /\ K \subseteq N /\ Spelled(N, << >>, l, l + 1)
  <2>1. m \in MarkRecords
    BY <1>7 DEF MarkOK
  <2>2. QED  BY <1>2, <1>6, <2>1 DEF Spelled
<1>10. BufferOK(c, N)
  <2>1. Knows(c.table, N)
    BY <1>4, <1>9 DEF BufferOK, Knows
  <2>2. QED  BY <1>4, <1>8, <2>1 DEF BufferOK
<1> HIDE DEF N
<1>11. /\ e.sec = 4 /\ e.type = "OPT" /\ e.name = << >> /\ e.target = << >> /\ e.from = l /\ e.to = Len(c.wire)
       /\ e = [sec |-> e.sec, type |-> e.type, name |-> e.name, target |-> e.target, from |-> e.from, to |-> e.to]
  BY DEF EntryOf
<1> HIDE DEF e, l
<1>12. e \in Entries
  <2>1. 4 \in 1..4 /\ "OPT" \in LogTypes /\ << >> \in MessageNames
    BY DEF LogTypes, MessageNames
  <2>2. e.from \in Nat /\ e.to \in Nat
    BY <1>4, <1>5, <1>11
  <2>3. QED  BY <1>11, <2>1, <2>2 DEF Entries
<1>13. DataAt(e, N, c.wire, p)
  <2>1. e.to = p + 1 /\ e.to - p = 1 /\ p <= e.to /\ e.to <= Len(c.wire) /\ p \in Nat \ {0} /\ p - 1 = l + 1
    <3>1. l + 3 \in Nat /\ p = l + 2 /\ l \in Nat /\ Len(c.wire) = l + 3 /\ e.to = l + 3
      BY <1>4, <1>5, <1>11
    <3>2. QED  BY <3>1
  <2> HIDE DEF p
  <2>2. c.wire[p] = <<"fixed", e.type, e.to - p>>
    BY <1>5, <1>11, <2>1
  <2>3. Spelled(N, e.name, e.from, p - 1)
    BY <1>9, <1>11, <2>1
  <2>4. QED  BY <1>11, <2>1, <2>2, <2>3 DEF DataAt
<1>14. EntryAt(e, N, c.wire)
  <2>1. p \in Nat
    BY <1>4
  <2>2. QED  BY <1>12, <1>13, <2>1 DEF EntryAt
<1>15. e.from = Len(b.wire) /\ e.to = Len(c.wire) /\ e.type = "OPT" /\ LaterEmpty(cnt, e.sec)
  BY <1>11 DEF l
<1>16. Sent(c, CountedIn(cnt, e.sec, 1), acc, extra \cup {"OPT"})
  <2>1. Extends(b, c) /\ N \in SUBSET MarkRecords /\ K \subseteq N /\ BufferOK(c, N) /\ EntryAt(e, N, c.wire)
    BY <1>4, <1>9, <1>10, <1>14
  <2> HIDE DEF p
  <2>2. QED  BY <1>1, <1>15, <2>1, SentMore
<1>17. Sent(c, CountedIn(cnt, 4, 1), acc, extra \cup {"OPT"})
  BY <1>11, <1>16
<1>18. QED  BY <1>4, <1>5, <1>17 DEF c, l

-----------------------------------------------------------------------------
\* The whole message.
Cells == PlainCells \cup {<<"fixed", "TSIG", 1>>} \cup ({"mac"} \X Seq(PlainCells))
FinalBy(K, L, wire, cnt, acc, extra) ==
    /\ K \in SUBSET MarkRecords /\ wire \in Seq(Cells) /\ MarksOK(K, wire) /\ wire[1] = <<"header", cnt>>
    /\ WrittenAs(L, K, cnt, wire) /\ Says(L, acc, extra)
Final(wire, cnt, acc, extra) == \E K, L : FinalBy(K, L, wire, cnt, acc, extra)

WithHeader(wire, cnt) == [wire EXCEPT ![1] = <<"header", cnt>>]

LEMMA WrittenStays ==
  ASSUME NEW L, NEW K \in SUBSET MarkRecords, NEW cnt, NEW v, WrittenAs(L, K, cnt, v), MarksOK(K, v),
         NEW w, SameButHeader(v, w), Len(w) = Len(v), \A i \in 1..Len(L) : L[i].type # "TSIG"
  PROVE  WrittenAs(L, K, cnt, w)
<1>1. ASSUME NEW i \in 1..Len(L) PROVE EntryAt(L[i], K, w)
  <2>1. EntryAt(L[i], K, v) /\ L[i].type # "TSIG" /\ K \subseteq K
    BY DEF WrittenAs
  <2>2. QED  BY <2>1, EntryStays
<1>2. QED  BY <1>1 DEF WrittenAs

LEMMA HeadIsSent ==
  ASSUME NEW wire, NEW table, NEW cnt, NEW acc, NEW extra, Sent([wire |-> wire, table |-> table], cnt, acc, extra)
  PROVE  LET c == [wire |-> WithHeader(wire, cnt), table |-> table]
         IN  /\ Sent(c, cnt, acc, extra) /\ c.wire[1] = <<"header", cnt>>
             /\ Len(wire) \in Nat /\ Len(c.wire) = Len(wire)
<1> DEFINE b == [wire |-> wire, table |-> table]
           h == <<"header", cnt>>
           w == WithHeader(wire, cnt)
           c == [wire |-> w, table |-> table]
<1>1. PICK K, L : SentBy(K, L, b, cnt, acc, extra)
  BY DEF Sent
<1>2. b.wire = wire /\ b.table = table /\ c.wire = w /\ c.table = table
  OBVIOUS
<1> HIDE DEF b
<1>3. /\ wire \in Seq(PlainCells) /\ MarksOK(K, wire) /\ IsTable(table) /\ Knows(table, K)
      /\ wire[1] \in Headers /\ K \in SUBSET MarkRecords
      /\ WrittenAs(L, K, cnt, wire) /\ Says(L, acc, extra) /\ "TSIG" \notin extra
  BY <1>1, <1>2 DEF SentBy, BufferOK
<1>4. Len(wire) \in Nat \ {0} /\ cnt \in [1..4 -> Nat] /\ \A i \in 1..Len(L) : L[i].type # "TSIG"
  BY <1>1, <1>2, SentFacts
<1>5. 1 \in 1..Len(wire) /\ h \in Headers /\ h \in PlainCells /\ wire[1][1] = "header"
  BY <1>3, <1>4 DEF Headers, PlainCells
<1> HIDE DEF h
<1>6. /\ w \in Seq(PlainCells) /\ Len(w) = Len(wire) /\ MarksOK(K, w) /\ w[1] = h
      /\ \A i \in 1..Len(wire) : i # 1 => w[i] = wire[i]
  <2>1. w = [wire EXCEPT ![1] = h]
    BY DEF WithHeader, h
  <2>2. wire[1][1] \notin {"label", "pointer", "root"}
    BY <1>5
  <2> DEFINE x == [wire EXCEPT ![1] = h]
  <2> HIDE DEF w
  <2>3. /\ x \in Seq(PlainCells) /\ Len(x) = Len(wire) /\ Len(wire) \in Nat /\ MarksOK(K, x)
        /\ x[1] = h /\ \A i \in 1..Len(wire) : i # 1 => x[i] = wire[i]
    BY <1>3, <1>5, <2>2, CellChanges
  <2> HIDE DEF x
  <2>4. w = x
    BY <2>1 DEF x
  <2>5. QED  BY <2>3, <2>4
<1> HIDE DEF w
<1>7. SameButHeader(wire, w)
  <2>1. \A i \in 2..Len(wire) : i \in 1..Len(wire) /\ i # 1
    BY <1>4
  <2>2. QED  BY <1>4, <1>6, <2>1 DEF SameButHeader
<1>8. WrittenAs(L, K, cnt, w)
  BY <1>3, <1>4, <1>6, <1>7, WrittenStays
<1>9. BufferOK(c, K)
  BY <1>3, <1>6 DEF BufferOK
<1>10. SentBy(K, L, c, cnt, acc, extra)
  <2> HIDE DEF c
  <2>1. QED  BY <1>2, <1>3, <1>5, <1>6, <1>8, <1>9 DEF SentBy
<1>11. Sent(c, cnt, acc, extra)
  BY <1>10 DEF Sent
<1>12. c.wire = w
  BY <1>2
<1> HIDE DEF c
<1>13. Sent(c, cnt, acc, extra) /\ c.wire[1] = h /\ Len(wire) \in Nat /\ Len(c.wire) = Len(wire)
  BY <1>4, <1>6, <1>11, <1>12
<1>14. QED  BY <1>13 DEF c, w, h

LEMMA SentIsFinal ==
  ASSUME NEW c, NEW cnt, NEW acc, NEW extra, Sent(c, cnt, acc, extra), c.wire[1] = <<"header", cnt>>
  PROVE  Final(c.wire, cnt, acc, extra)
<1>1. PICK K, L : SentBy(K, L, c, cnt, acc, extra)
  BY DEF Sent
<1>2. c.wire \in Seq(PlainCells) /\ PlainCells \subseteq Cells
  BY <1>1 DEF SentBy, BufferOK, Cells
<1>3. c.wire \in Seq(Cells)
  BY <1>2, SeqMonotonic
<1>4. FinalBy(K, L, c.wire, cnt, acc, extra)
  BY <1>1, <1>3 DEF SentBy, BufferOK, FinalBy
<1>5. QED  BY <1>4 DEF Final

\* The TSIG record signs what is before it.
LEMMA HeadedIs ==
  ASSUME NEW v \in Seq(Cells), NEW cnt \in [1..4 -> Nat], Len(v) # 0, v[1] = <<"header", cnt>>,
         NEW w \in Seq(Cells), Len(v) <= Len(w), w[1] = <<"header", CountedIn(cnt, 4, 1)>>,
         \A i \in 2..Len(v) : w[i] = v[i]
  PROVE  Headed(w, Len(v)) = v
<1> DEFINE l == Len(v)
           s == SubSeq(w, 2, l)
           f == << w[1] >>
           x == f \o s
           h == <<"header", [w[1][2] EXCEPT ![4] = @ - 1]>>
           y == [x EXCEPT ![1] = h]
<1>1. l \in Nat \ {0} /\ Len(w) \in Nat /\ 1 \in 1..Len(w) /\ 1 \in 1..l
  BY LenProperties
<1>2. h = v[1]
  <2>1. w[1][2] = CountedIn(cnt, 4, 1)
    OBVIOUS
  <2>2. [CountedIn(cnt, 4, 1) EXCEPT ![4] = @ - 1] = cnt
    <3> DEFINE more == CountedIn(cnt, 4, 1)
               less == [more EXCEPT ![4] = @ - 1]
    <3>1. /\ more = [cnt EXCEPT ![4] = cnt[4] + 1] /\ cnt[4] \in Nat
      BY DEF CountedIn
    <3>2. more[4] = cnt[4] + 1 /\ DOMAIN more = 1..4 /\ \A i \in 1..4 : i # 4 => more[i] = cnt[i]
      BY <3>1
    <3>3. cnt[4] + 1 - 1 = cnt[4]
      BY <3>1
    <3> DEFINE lower == more[4] - 1
    <3>4. lower = cnt[4]
      BY <3>2, <3>3
    <3> HIDE DEF more, lower
    <3>5. less = [more EXCEPT ![4] = lower]
      BY DEF lower
    <3>6. DOMAIN less = 1..4 /\ \A i \in 1..4 : less[i] = IF i = 4 THEN lower ELSE more[i]
      BY <3>2, <3>5
    <3>7. less = [i \in 1..4 |-> less[i]]
      BY <3>2, <3>5
    <3> HIDE DEF less
    <3>8. \A i \in 1..4 : less[i] = cnt[i]
      BY <3>2, <3>4, <3>6
    <3>9. less = cnt
      BY <3>7, <3>8
    <3>10. QED  BY <3>9 DEF less, more
  <2>3. QED  BY <2>1, <2>2
<1>3. f \in Seq(Cells) /\ Len(f) = 1 /\ f[1] = w[1]
  <2>1. w[1] \in Cells
    BY <1>1, ElementOfSeq
  <2>2. QED  BY <2>1
<1>4. s \in Seq(Cells) /\ Len(s) = l - 1 /\ \A i \in 1..(l - 1) : s[i] = w[2 + i - 1]
  <2>1. 2 \in Nat \ {0} /\ 2 <= l + 1 /\ l <= Len(w) /\ l - 2 + 1 = l - 1
    BY <1>1
  <2>2. s \in Seq(Cells) /\ Len(s) = l - 2 + 1 /\ \A i \in 1..(l - 2 + 1) : s[i] = w[2 + i - 1]
    <3> HIDE DEF l
    <3>1. QED  BY <1>1, <2>1, SubSeqFacts
  <2>3. QED  BY <2>1, <2>2
<1> HIDE DEF s, f
<1>5. /\ x \in Seq(Cells) /\ Len(x) = Len(f) + Len(s)
      /\ \A i \in 1..(Len(f) + Len(s)) : x[i] = IF i <= Len(f) THEN f[i] ELSE s[i - Len(f)]
  BY <1>3, <1>4, ConcatFacts
<1> HIDE DEF x
<1>6. Len(f) + Len(s) = l /\ Len(x) = l
  BY <1>1, <1>3, <1>4, <1>5
<1>7. ASSUME NEW i \in 2..l PROVE x[i] = v[i]
  <2> DEFINE j == i - 1
  <2>1. i \in 1..l /\ ~(i <= 1) /\ j \in 1..(l - 1) /\ 2 + j - 1 = i
    <3> HIDE DEF l
    <3>1. l \in Nat \ {0} /\ i \in Int /\ 2 <= i /\ i <= l
      BY <1>1
    <3>2. i \in 1..l /\ ~(i <= 1)
      BY <3>1
    <3>3. j \in 1..(l - 1) /\ 2 + j - 1 = i
      BY <3>1
    <3>4. QED  BY <3>2, <3>3
  <2>2. x[i] = s[i - 1]
    BY <1>3, <1>5, <1>6, <2>1
  <2> HIDE DEF j
  <2>3. s[j] = w[2 + j - 1]
    BY <1>4, <2>1
  <2>4. w[i] = v[i]
    OBVIOUS
  <2>5. QED  BY <2>1, <2>2, <2>3, <2>4 DEF j
<1>8. y = [i \in 1..l |-> v[i]]
  <2>1. DOMAIN x = 1..l
    BY <1>1, <1>5, <1>6, LenProperties
  <2>2. \A i \in 1..l : i = 1 \/ i \in 2..l
    BY <1>1
  <2> HIDE DEF h
  <2>3. QED  BY <1>2, <1>7, <2>1, <2>2
<1>9. v = [i \in 1..l |-> v[i]]
  <2>1. DOMAIN v = 1..l /\ v \in [1..l -> Cells]
    BY <1>1, SeqDef, LenProperties, ElementOfSeq
  <2>2. QED  BY <2>1
<1>10. Headed(w, l) = y
  BY DEF Headed, x, f, s
<1>11. QED  BY <1>8, <1>9, <1>10

LEMMA CellIsChanged ==
  ASSUME NEW S, NEW v \in Seq(S), NEW q \in 1..Len(v), NEW x \in S
  PROVE  LET w == [v EXCEPT ![q] = x]
         IN  w \in Seq(S) /\ Len(w) = Len(v) /\ Len(v) \in Nat /\ w[q] = x /\ \A i \in 1..Len(v) : i # q => w[i] = v[i]
<1> DEFINE w == [v EXCEPT ![q] = x]
<1>1. Len(v) \in Nat /\ DOMAIN v = 1..Len(v) /\ \A i \in 1..Len(v) : v[i] \in S
  BY LenProperties, ElementOfSeq
<1>2. v \in [1..Len(v) -> S]
  BY <1>1, SeqDef
<1>3. w \in [1..Len(v) -> S] /\ w[q] = x /\ \A i \in 1..Len(v) : i # q => w[i] = v[i]
  BY <1>2
<1>4. w \in Seq(S)
  BY <1>1, <1>3, SeqDef
<1> HIDE DEF w
<1>5. Len(w) = Len(v)
  <2>1. DOMAIN w = 1..Len(v)
    BY <1>3
  <2>2. QED  BY <1>1, <1>4, <2>1, LenProperties
<1>6. QED  BY <1>1, <1>3, <1>4, <1>5 DEF w

Signed(c, cnt) == WithHeader(NameToWire(c, KeyName).wire \o TsigCells(c.wire), CountedIn(cnt, 4, 1))

LEMMA TsigIsFinal ==
  ASSUME NEW c, NEW cnt, NEW acc, NEW extra, Sent(c, cnt, acc, extra), c.wire[1] = <<"header", cnt>>
  PROVE  /\ Final(Signed(c, cnt), CountedIn(cnt, 4, 1), acc, extra \cup {"TSIG"})
         /\ Len(Signed(c, cnt)) = Len(NameToWire(c, KeyName).wire \o TsigCells(c.wire))
         /\ Len(Signed(c, cnt)) <= Len(c.wire) + 4 /\ Len(Signed(c, cnt)) \in Nat /\ Len(c.wire) \in Nat
<1> DEFINE n == NameToWire(c, KeyName)
           cells == TsigCells(c.wire)
           v == n.wire \o cells
           more == CountedIn(cnt, 4, 1)
           h == <<"header", more>>
           w == Signed(c, cnt)
           l == Len(c.wire)
           q == Len(n.wire)
           e == EntryOf(4, "TSIG", KeyName, << >>, l, q + 2)
<1>1. PICK K, L : SentBy(K, L, c, cnt, acc, extra)
  BY DEF Sent
<1>2. /\ K \in SUBSET MarkRecords /\ BufferOK(c, K) /\ c.wire[1] \in Headers /\ c.wire \in Seq(PlainCells)
      /\ WrittenAs(L, K, cnt, c.wire) /\ Says(L, acc, extra) /\ "TSIG" \notin extra
  BY <1>1 DEF SentBy, BufferOK
<1>3. /\ l \in Nat \ {0} /\ L \in Seq(Entries) /\ cnt \in [1..4 -> Nat]
      /\ \A i \in 1..Len(L) : L[i].type # "TSIG"
      /\ MarksOK(K, c.wire)
  BY <1>1, SentFacts
<1>4. KeyName \in Seq(WireLabels) /\ Len(KeyName) = 1 /\ KeyName \in MessageNames
  <2>1. KeyName \in MessageNames
    BY DEF MessageNames
  <2>2. QED  BY <2>1, MessageNameFacts DEF KeyName
<1>5. NameWritten(c, K, KeyName, n)
  BY <1>2, <1>4, NameIsWritten
<1> HIDE DEF n
<1>6. PICK N \in SUBSET MarkRecords : K \subseteq N /\ BufferOK(n, N) /\ Spelled(N, KeyName, l, q)
  BY <1>5 DEF NameWritten
<1>7. Extends(c, n) /\ l < q /\ q <= l + 2 /\ q \in Nat /\ n.wire \in Seq(PlainCells) /\ MarksOK(N, n.wire)
  <2>1. l + Len(KeyName) + 1 = l + 2
    BY <1>3, <1>4
  <2>2. QED  BY <1>5, <1>6, <2>1 DEF NameWritten, Extends, BufferOK
<1>8. PlainCells \subseteq Cells /\ n.wire \in Seq(Cells) /\ c.wire \in Seq(Cells)
  <2>1. PlainCells \subseteq Cells
    BY DEF Cells
  <2>2. QED  BY <1>2, <1>7, <2>1, SeqMonotonic
<1>9. /\ cells \in Seq(Cells) /\ Len(cells) = 2
      /\ cells[1] = <<"fixed", "TSIG", 1>> /\ cells[2] = <<"mac", c.wire>>
  <2>1. <<"fixed", "TSIG", 1>> \in Cells /\ <<"mac", c.wire>> \in Cells
    BY <1>2 DEF Cells
  <2>2. QED  BY <2>1 DEF TsigCells
<1> HIDE DEF cells, q, l, h
<1>10. /\ v \in Seq(Cells) /\ Len(v) = q + 2
       /\ \A i \in 1..q : v[i] = n.wire[i]
       /\ v[q + 1] = <<"fixed", "TSIG", 1>> /\ v[q + 2] = <<"mac", c.wire>>
  <2>1. /\ v \in Seq(Cells) /\ Len(v) = q + Len(cells)
        /\ \A i \in 1..(q + Len(cells)) : v[i] = IF i <= q THEN n.wire[i] ELSE cells[i - q]
    <3>1. /\ n.wire \o cells \in Seq(Cells) /\ Len(n.wire \o cells) = Len(n.wire) + Len(cells)
          /\ \A i \in 1..(Len(n.wire) + Len(cells)) :
                (n.wire \o cells)[i] = IF i <= Len(n.wire) THEN n.wire[i] ELSE cells[i - Len(n.wire)]
      <4>1. n.wire \in Seq(Cells) /\ cells \in Seq(Cells)
        BY <1>8, <1>9
      <4>2. QED  BY <4>1, ConcatFacts
    <3>2. QED  BY <3>1 DEF q
  <2> HIDE DEF v
  <2>2. Len(v) = q + 2 /\ \A i \in 1..(q + 2) : v[i] = IF i <= q THEN n.wire[i] ELSE cells[i - q]
    BY <1>9, <2>1
  <2>3. \A i \in 1..q : i \in 1..(q + 2) /\ i <= q
    BY <1>7
  <2> DEFINE i == q + 1
             j == q + 2
  <2>4. i \in 1..(q + 2) /\ ~(i <= q) /\ i - q = 1 /\ j \in 1..(q + 2) /\ ~(j <= q) /\ j - q = 2
    BY <1>7
  <2> HIDE DEF i, j, v
  <2>5. v[i] = cells[1] /\ v[j] = cells[2]
    BY <2>2, <2>4
  <2>6. QED  BY <1>9, <2>1, <2>2, <2>3, <2>5 DEF i, j
<1>11. h \in Headers /\ h \in Cells
  <2>1. more \in [1..4 -> Nat]
    BY <1>3 DEF CountedIn
  <2> HIDE DEF more
  <2>2. h \in Headers
    BY <2>1 DEF Headers, h
  <2>3. Headers \subseteq PlainCells
    BY DEF Headers, PlainCells
  <2>4. QED  BY <1>8, <2>2, <2>3
<1>12. 1 \in 1..Len(v) /\ 1 \in 1..q
  <2> HIDE DEF v
  <2>1. QED  BY <1>3, <1>7, <1>10
<1>13. w = [v EXCEPT ![1] = h]
  BY DEF Signed, WithHeader, v, n, cells, h
<1> HIDE DEF h, w, v
<1>14. w \in Seq(Cells) /\ Len(w) = Len(v) /\ w[1] = h /\ \A i \in 1..Len(v) : i # 1 => w[i] = v[i]
  <2> DEFINE x == [v EXCEPT ![1] = h]
  <2>1. x \in Seq(Cells) /\ Len(x) = Len(v) /\ x[1] = h /\ \A i \in 1..Len(v) : i # 1 => x[i] = v[i]
    BY <1>10, <1>11, <1>12, CellIsChanged
  <2> HIDE DEF x
  <2>2. w = x
    BY <1>13 DEF x
  <2>3. QED  BY <2>1, <2>2
<1>15. \A i \in 2..q : w[i] = n.wire[i]
  <2>1. \A i \in 2..q : i \in 1..(q + 2) /\ i # 1 /\ i \in 1..q
    BY <1>7
  <2>2. QED  BY <1>10, <1>14, <2>1
<1>16. \A i \in 2..l : w[i] = c.wire[i]
  <2>1. \A i \in 2..l : i \in 2..q /\ i \in 1..l
    BY <1>3, <1>7
  <2>2. QED  BY <1>7, <1>15, <2>1 DEF Extends, l
<1>17. w[q + 1] = <<"fixed", "TSIG", 1>> /\ w[q + 2] = <<"mac", c.wire>>
  <2>1. q + 1 \in 1..(q + 2) /\ q + 2 \in 1..(q + 2) /\ q + 1 # 1 /\ q + 2 # 1
    BY <1>3, <1>7
  <2>2. QED  BY <1>10, <1>14, <2>1
<1>18. MarksOK(N, w)
  <2>1. n.wire[1] \in Headers
    BY <1>2, <1>3, <1>7, HeaderStays DEF l
  <2>2. n.wire[1][1] = "header"
    BY <2>1 DEF Headers
  <2>3. ASSUME NEW m \in N PROVE w[m.a + 1] = n.wire[m.a + 1]
    <3>1. n.wire[m.a + 1][1] \in {"label", "pointer", "root"} /\ m.a + 1 \in Nat \ {0}
      BY <1>7, MarkCell
    <3>2. m.a + 1 # 1
      BY <2>2, <3>1
    <3>3. m.a + 1 <= q
      BY <1>7 DEF MarksOK, MarkOK, MarkRecords, q
    <3>4. m.a + 1 \in 2..q
      BY <1>7, <3>1, <3>2, <3>3
    <3>5. QED  BY <1>15, <3>4
  <2>4. Len(n.wire) \in Nat /\ Len(w) \in Nat /\ Len(n.wire) <= Len(w)
    BY <1>7, <1>10, <1>14 DEF q
  <2>5. QED  BY <1>7, <2>3, <2>4, MarksStay
<1>19. SameButHeader(c.wire, w)
  <2>1. Len(c.wire) \in Nat /\ Len(w) \in Nat /\ Len(c.wire) <= Len(w)
    BY <1>3, <1>7, <1>10, <1>14 DEF l
  <2>2. QED  BY <1>16, <2>1 DEF SameButHeader, l
<1>20. Headed(w, l) = c.wire
  <2>1. Len(c.wire) # 0 /\ Len(c.wire) <= Len(w) /\ w[1] = <<"header", CountedIn(cnt, 4, 1)>>
    BY <1>3, <1>14, <1>19 DEF SameButHeader, h, l
  <2>2. \A i \in 2..Len(c.wire) : w[i] = c.wire[i]
    BY <1>16 DEF l
  <2>3. QED  BY <1>3, <1>8, <1>14, <2>1, <2>2, HeadedIs DEF l
<1>21. /\ e.sec = 4 /\ e.type = "TSIG" /\ e.name = KeyName /\ e.target = << >> /\ e.from = l /\ e.to = q + 2
       /\ e = [sec |-> e.sec, type |-> e.type, name |-> e.name, target |-> e.target, from |-> e.from, to |-> e.to]
  BY DEF EntryOf
<1> HIDE DEF e
<1>22. e \in Entries
  <2>1. 4 \in 1..4 /\ "TSIG" \in LogTypes /\ << >> \in MessageNames
    BY DEF LogTypes, MessageNames
  <2>2. l \in Nat /\ q + 2 \in Nat
    BY <1>3, <1>7
  <2>3. QED  BY <1>4, <1>21, <2>1, <2>2 DEF Entries
<1>23. EntryAt(e, N, w)
  <2> DEFINE p == q + 1
  <2>1. e.to = p + 1 /\ e.to - p = 1 /\ p <= e.to /\ p \in Nat \ {0} /\ p - 1 = q /\ e.to <= Len(w)
    BY <1>7, <1>10, <1>14, <1>21
  <2>2. w[p] = <<"fixed", e.type, 1>> /\ w[q + 2] = <<"mac", Headed(w, e.from)>> /\ p + 1 = q + 2
    <3>1. p + 1 = q + 2
      BY <1>7
    <3>2. QED  BY <1>17, <1>20, <1>21, <3>1
  <2>3. Spelled(N, e.name, e.from, q)
    BY <1>6, <1>21 DEF q, l
  <2> HIDE DEF p
  <2>4. DataAt(e, N, w, p)
    BY <1>21, <2>1, <2>2, <2>3 DEF DataAt
  <2>5. QED  BY <1>22, <2>1, <2>4 DEF EntryAt
<1>24. WrittenAs(Append(L, e), N, more, w)
  <2>1. e.from = Len(c.wire) /\ e.to = Len(w) /\ LaterEmpty(cnt, e.sec)
    BY <1>10, <1>14, <1>21 DEF LaterEmpty, l
  <2>2. WrittenAs(Append(L, e), N, CountedIn(cnt, e.sec, 1), w)
    BY <1>2, <1>3, <1>6, <1>19, <1>23, <2>1, LogGrows
  <2>3. QED  BY <1>21, <2>2
<1>25. Says(Append(L, e), acc, extra \cup {"TSIG"})
  BY <1>2, <1>3, <1>21, <1>22, SaysMore
<1>26. Final(w, more, acc, extra \cup {"TSIG"})
  <2>1. w[1] = <<"header", more>>
    BY <1>14 DEF h
  <2> HIDE DEF more
  <2>2. FinalBy(N, Append(L, e), w, more, acc, extra \cup {"TSIG"})
    BY <1>6, <1>14, <1>18, <1>24, <1>25, <2>1 DEF FinalBy
  <2>3. QED  BY <2>2 DEF Final
<1>27. Len(w) = Len(v) /\ Len(w) <= l + 4 /\ Len(w) \in Nat /\ l \in Nat
  BY <1>3, <1>7, <1>10, <1>14
<1>28. QED  BY <1>26, <1>27 DEF w, v, n, cells, l

\* An RRset, record by record.
IsAfter(f, b, owner, rds, m) ==
    f = [i \in 0..m |-> IF i = 0 THEN b ELSE RecordToWire(f[i - 1], owner, rds[i])]

LEMMA AfterExists ==
  ASSUME NEW b, NEW owner, NEW rds, NEW m \in Nat
  PROVE  \E f : IsAfter(f, b, owner, rds, m)
<1> DEFINE S == {n \in Nat : \E f : IsAfter(f, b, owner, rds, n)}
<1>1. 0 \in S
  <2> DEFINE f == [i \in 0..0 |-> b]
  <2>1. f = [i \in 0..0 |-> IF i = 0 THEN b ELSE RecordToWire(f[i - 1], owner, rds[i])]
    <3>1. \A i \in 0..0 : i = 0
      OBVIOUS
    <3>2. QED  BY <3>1
  <2>2. QED  BY <2>1 DEF IsAfter
<1>2. ASSUME NEW n \in S PROVE n + 1 \in S
  <2>1. PICK f : IsAfter(f, b, owner, rds, n)
    OBVIOUS
  <2> DEFINE l == n + 1
             g == [i \in 0..l |-> IF i \in 0..n THEN f[i] ELSE RecordToWire(f[n], owner, rds[l])]
  <2>2. n \in Nat /\ l \in Nat /\ l - 1 = n /\ l \notin 0..n /\ n \in 0..n /\ l \in 0..l
    OBVIOUS
  <2>3. \A i \in 0..n : f[i] = IF i = 0 THEN b ELSE RecordToWire(f[i - 1], owner, rds[i])
    BY <2>1 DEF IsAfter
  <2>4. /\ \A i \in 0..l : g[i] = IF i \in 0..n THEN f[i] ELSE RecordToWire(f[n], owner, rds[l])
        /\ g = [i \in 0..l |-> g[i]]
    OBVIOUS
  <2>5. \A i \in 0..l : \/ i = 0 /\ i \in 0..n
                        \/ i # 0 /\ i \in 0..n /\ i - 1 \in 0..n /\ i - 1 \in 0..l
                        \/ i = l /\ i # 0 /\ i \notin 0..n /\ i - 1 = n /\ i - 1 \in 0..n /\ i - 1 \in 0..l
    BY <2>2
  <2> HIDE DEF g, l
  <2>6. ASSUME NEW i \in 0..l
        PROVE  g[i] = IF i = 0 THEN b ELSE RecordToWire(g[i - 1], owner, rds[i])
    <3> DEFINE j == i - 1
    <3>1. \/ i = 0 /\ i \in 0..n
          \/ i # 0 /\ i \in 0..n /\ j \in 0..n /\ j \in 0..l
          \/ i = l /\ i # 0 /\ i \notin 0..n /\ j = n /\ j \in 0..n /\ j \in 0..l
      BY <2>5
    <3>2. i \in 0..n => f[i] = IF i = 0 THEN b ELSE RecordToWire(f[j], owner, rds[i])
      BY <2>3
    <3> HIDE DEF j
    <3>3. g[i] = IF i = 0 THEN b ELSE RecordToWire(g[j], owner, rds[i])
      BY <2>4, <3>1, <3>2
    <3>4. QED  BY <3>3 DEF j
  <2>7. g = [i \in 0..l |-> IF i = 0 THEN b ELSE RecordToWire(g[i - 1], owner, rds[i])]
    BY <2>4, <2>6
  <2>8. IsAfter(g, b, owner, rds, l)
    BY <2>7 DEF IsAfter
  <2>9. l \in S
    BY <2>2, <2>8
  <2>10. QED  BY <2>9 DEF l
<1>3. S \in SUBSET Nat
  OBVIOUS
<1> HIDE DEF S
<1>4. S = Nat
  BY <1>1, <1>2, <1>3, SetInduction
<1>5. QED  BY <1>4 DEF S

LEMMA RdatasAre ==
  ASSUME NEW b, NEW owner, NEW rds, Len(rds) \in Nat
  PROVE  IsAfter(RdatasToWire(b, owner, rds), b, owner, rds, Len(rds))
<1>1. \E f : IsAfter(f, b, owner, rds, Len(rds))
  BY AfterExists
<1>2. RdatasToWire(b, owner, rds) = CHOOSE f : IsAfter(f, b, owner, rds, Len(rds))
  BY DEF RdatasToWire, IsAfter
<1>3. QED  BY <1>1, <1>2

LEMMA CountedTwice ==
  ASSUME NEW cnt \in [1..4 -> Nat], NEW s \in 1..4, NEW i \in Nat
  PROVE  CountedIn(CountedIn(cnt, s, i), s, 1) = CountedIn(cnt, s, i + 1) /\ CountedIn(cnt, s, 0) = cnt
<1> DEFINE x == CountedIn(cnt, s, i)
           y == CountedIn(x, s, 1)
           z == CountedIn(cnt, s, i + 1)
           c == cnt[s]
<1>1. c \in Nat /\ c + i + 1 = c + (i + 1) /\ c + 0 = c
  OBVIOUS
<1>2. x = [cnt EXCEPT ![s] = c + i] /\ z = [cnt EXCEPT ![s] = c + (i + 1)] /\ CountedIn(cnt, s, 0) = [cnt EXCEPT ![s] = c + 0]
  BY DEF CountedIn
<1>3. x[s] = c + i /\ DOMAIN x = 1..4 /\ \A t \in 1..4 : t # s => x[t] = cnt[t]
  BY <1>2
<1>4. y = [x EXCEPT ![s] = x[s] + 1]
  BY DEF CountedIn
<1> HIDE DEF x, c
<1>5. y = [x EXCEPT ![s] = c + i + 1]
  BY <1>3, <1>4
<1> HIDE DEF y, z
<1>6. y = z
  BY <1>1, <1>2, <1>3, <1>5
<1>7. CountedIn(cnt, s, 0) = cnt
  <2>1. [cnt EXCEPT ![s] = c] = cnt
    BY DEF c
  <2>2. QED  BY <1>1, <1>2, <2>1
<1>8. QED  BY <1>6, <1>7 DEF y, z, x

LEMMA ExtendsItself ==
  ASSUME NEW b, NEW cnt, NEW acc, NEW extra, Sent(b, cnt, acc, extra)
  PROVE  Extends(b, b) /\ cnt \in [1..4 -> Nat] /\ Len(b.wire) \in Nat \ {0}
<1>1. PICK K, L : SentBy(K, L, b, cnt, acc, extra)
  BY DEF Sent
<1>2. Len(b.wire) \in Nat \ {0} /\ cnt \in [1..4 -> Nat]
  BY <1>1, SentFacts
<1>3. QED  BY <1>2 DEF Extends

Told(s, owner, rds, i) == {<<s, owner, rds[j].type, rds[j].target>> : j \in 1..i}

LEMMA RRsetIsSent ==
  ASSUME NEW b, NEW cnt, NEW acc, NEW extra, Sent(b, cnt, acc, extra), NEW s \in 2..4, LaterEmpty(cnt, s),
         NEW owner \in MessageNames, NEW rds \in Seq(Rdatas)
  PROVE  LET c == RdatasetToWire(b, owner, rds)
         IN  /\ Extends(b, c)
             /\ Sent(c, CountedIn(cnt, s, Len(rds)), acc \cup {<<s, owner, rd.type, rd.target>> : rd \in ToSet(rds)}, extra)
<1> DEFINE f == RdatasToWire(b, owner, rds)
           m == Len(rds)
           Good(i) == Extends(b, f[i]) /\ Sent(f[i], CountedIn(cnt, s, i), acc \cup Told(s, owner, rds, i), extra)
           N == {i \in Nat : i <= m => Good(i)}
<1>1. m \in Nat /\ \A i \in 1..m : rds[i] \in Rdatas
  BY LenProperties, ElementOfSeq
<1>2. IsAfter(f, b, owner, rds, m)
  BY <1>1, RdatasAre
<1>3. Extends(b, b) /\ cnt \in [1..4 -> Nat] /\ s \in 1..4
  BY ExtendsItself
<1> HIDE DEF f, m
<1>4. f[0] = b /\ \A i \in 1..m : f[i] = RecordToWire(f[i - 1], owner, rds[i])
  <2>1. 0 \in 0..m /\ \A i \in 1..m : i \in 0..m /\ i # 0
    BY <1>1
  <2>2. \A i \in 0..m : f[i] = IF i = 0 THEN b ELSE RecordToWire(f[i - 1], owner, rds[i])
    BY <1>2 DEF IsAfter
  <2>3. QED  BY <2>1, <2>2
<1>5. Good(0)
  <2>1. 1..0 = {}
    OBVIOUS
  <2>2. Told(s, owner, rds, 0) = {}
    BY <2>1 DEF Told
  <2>3. CountedIn(cnt, s, 0) = cnt
    BY <1>3, CountedTwice
  <2>4. QED  BY <1>3, <1>4, <2>2, <2>3
<1>6. ASSUME NEW i \in Nat, i + 1 \in 1..m, Good(i) PROVE Good(i + 1)
  <2> DEFINE j == i + 1
             d == f[i]
             rd == rds[j]
             told == acc \cup Told(s, owner, rds, i)
             more == CountedIn(cnt, s, i)
             c == RecordToWire(d, owner, rd)
  <2>1. j \in 1..m /\ j - 1 = i
    BY <1>6
  <2>2. f[j] = c /\ rd \in Rdatas
    BY <1>1, <1>4, <2>1
  <2>3. LaterEmpty(more, s)
    BY <1>3, OneMoreCounted
  <2>4. Extends(b, d) /\ Sent(d, more, told, extra)
    BY <1>6
  <2>5. CountedIn(more, s, 1) = CountedIn(cnt, s, j)
    BY <1>3, CountedTwice
  <2>6. told \cup {<<s, owner, rd.type, rd.target>>} = acc \cup Told(s, owner, rds, j)
    <3>1. 1..j = 1..i \cup {j}
      OBVIOUS
    <3> HIDE DEF j
    <3>2. Told(s, owner, rds, j) = Told(s, owner, rds, i) \cup {<<s, owner, rd.type, rd.target>>}
      BY <3>1 DEF Told
    <3>3. QED  BY <3>2
  <2> HIDE DEF d, rd, told, more, j
  <2>7. Extends(d, c) /\ Sent(c, CountedIn(more, s, 1), told \cup {<<s, owner, rd.type, rd.target>>}, extra)
    BY <2>2, <2>3, <2>4, RecordIsSent
  <2> HIDE DEF c
  <2>8. Extends(b, c)
    BY <2>4, <2>7, ExtendsChain
  <2>9. Good(j)
    BY <2>2, <2>5, <2>6, <2>7, <2>8
  <2>10. QED  BY <2>9 DEF j
<1>7. N = Nat
  <2> HIDE DEF Good
  <2>1. 0 \in N
    BY <1>5
  <2>2. ASSUME NEW i \in N PROVE i + 1 \in N
    <3>1. i \in Nat /\ i + 1 \in Nat /\ (i + 1 <= m => i <= m /\ i + 1 \in 1..m)
      BY <1>1
    <3>2. QED  BY <1>6, <3>1
  <2>3. N \in SUBSET Nat
    OBVIOUS
  <2> HIDE DEF N
  <2>4. QED  BY <2>1, <2>2, <2>3, SetInduction
<1>8. Good(m)
  <2> HIDE DEF Good
  <2>1. QED  BY <1>1, <1>7
<1>9. Told(s, owner, rds, m) = {<<s, owner, rd.type, rd.target>> : rd \in ToSet(rds)}
  <2>1. ToSet(rds) = {rds[j] : j \in 1..m}
    BY <1>1, LenProperties DEF ToSet, m
  <2>2. QED  BY <2>1 DEF Told
<1>10. RdatasetToWire(b, owner, rds) = f[m]
  BY DEF RdatasetToWire, f, m
<1>11. QED  BY <1>8, <1>9, <1>10 DEF m

\* What does not fit is taken back, its names as well.
LEMMA Tracked ==
  ASSUME NEW cnt, NEW acc, NEW extra, Sent(Buffer, cnt, acc, extra),
         NEW c, NEW more, NEW told, NEW with, Extends(Buffer, c), Sent(c, more, told, with),
         NEW limit, TrackSize(c, limit)
  PROVE  IF Len(c.wire) > limit THEN output' = output /\ compress' = compress
         ELSE output' = c.wire /\ compress' = c.table
<1> DEFINE l == Len(output)
           v == c.wire
           t == c.table
           D == {m \in DOMAIN t : t[m] < l}
<1>1. PICK M \in SUBSET MarkRecords : BufferOK(Buffer, M)
  BY DEF Sent, SentBy
<1>2. v \in Seq(PlainCells)
  BY DEF Sent, SentBy, BufferOK
<1>3. /\ output \in Seq(PlainCells) /\ IsTable(compress) /\ MarksOK(M, output) /\ Knows(compress, M)
  BY <1>1 DEF BufferOK, Buffer
<1>4. /\ l \in Nat /\ Len(v) \in Nat /\ l <= Len(v)
      /\ \A i \in 1..l : v[i] = output[i]
      /\ DOMAIN compress \subseteq DOMAIN t
      /\ \A n \in DOMAIN compress : t[n] = compress[n]
      /\ \A n \in DOMAIN t \ DOMAIN compress : t[n] \in Nat /\ l <= t[n]
  BY DEF Extends, Buffer
<1>5. CASE Len(v) > limit
  <2>1. output' = SubSeq(v, 1, l) /\ compress' = [n \in D |-> t[n]]
    BY <1>5 DEF TrackSize, RollbackTo
  <2> HIDE DEF v, t
  <2>2. SubSeq(v, 1, l) = output
    <3> DEFINE s == SubSeq(v, 1, l)
    <3>1. 1 \in Nat \ {0} /\ 1 <= l + 1 /\ l - 1 + 1 = l /\ \A i \in 1..l : 1 + i - 1 = i
      BY <1>4
    <3>2. s \in Seq(PlainCells) /\ Len(s) = l - 1 + 1 /\ \A i \in 1..(l - 1 + 1) : s[i] = v[1 + i - 1]
      <4> HIDE DEF l
      <4>1. QED  BY <1>2, <1>4, <3>1, SubSeqFacts
    <3> HIDE DEF s
    <3>3. Len(s) = Len(output) /\ \A i \in 1..Len(output) : s[i] = output[i]
      BY <1>4, <3>1, <3>2
    <3>4. s = output
      BY <1>3, <3>2, <3>3, SeqEqual
    <3>5. QED  BY <3>4 DEF s
  <2>3. D = DOMAIN compress
    <3>1. ASSUME NEW n \in DOMAIN compress PROVE n \in DOMAIN t /\ t[n] < l
      <4>1. PICK m \in M : m.n = n /\ m.a = compress[n]
        BY <1>3 DEF Knows
      <4>2. m.a \in Nat /\ m.e \in Nat /\ m.a < m.e /\ m.e <= l
        BY <1>3 DEF MarksOK, MarkOK, MarkRecords
      <4>3. t[n] = m.a /\ n \in DOMAIN t
        BY <1>4, <4>1
      <4> HIDE DEF l
      <4>4. QED  BY <1>4, <4>2, <4>3
    <3>2. ASSUME NEW n \in DOMAIN t, n \notin DOMAIN compress PROVE ~(t[n] < l)
      <4>1. t[n] \in Nat /\ l <= t[n] /\ l \in Nat
        BY <1>4, <3>2
      <4> HIDE DEF l
      <4>2. QED  BY <4>1
    <3> HIDE DEF l
    <3>3. QED  BY <3>1, <3>2
  <2>4. compress' = compress
    <3> HIDE DEF D
    <3>1. \A n \in D : t[n] = compress[n]
      BY <1>4, <2>3
    <3>2. compress' = [n \in DOMAIN compress |-> compress[n]]
      BY <2>1, <2>3, <3>1
    <3>3. QED  BY <1>3, <3>2 DEF IsTable
  <2>5. QED  BY <1>5, <2>1, <2>2, <2>4 DEF v
<1>6. CASE ~(Len(v) > limit)
  BY <1>6 DEF TrackSize
<1>7. QED  BY <1>5, <1>6

-----------------------------------------------------------------------------
\* Reading the log.
RRsetKinds == [section : 1..4, name : MessageNames, type : {"A", "NS"}, rdatas : SUBSET MessageNames]

LEMMA RecordIn ==
  ASSUME NEW q, NEW x
  PROVE  x \in Records(q) <=> \E i \in DOMAIN q : \E rd \in q[i].rdatas : x = <<q[i].section, q[i].name, q[i].type, rd>>
BY DEF Records

LEMMA AppendedRecords ==
  ASSUME NEW q \in Seq(RRsetKinds), NEW s \in 1..4, NEW owner \in MessageNames, NEW type \in {"A", "NS"},
         NEW rd \in MessageNames
  PROVE  /\ Append(q, NewRRset(s, owner, type, rd)) \in Seq(RRsetKinds)
         /\ Records(Append(q, NewRRset(s, owner, type, rd))) = Records(q) \cup {<<s, owner, type, rd>>}
<1> DEFINE y == NewRRset(s, owner, type, rd)
           a == Append(q, y)
           l == Len(q)
           k == l + 1
<1>1. y.section = s /\ y.name = owner /\ y.type = type /\ y.rdatas = {rd} /\ y \in RRsetKinds
  BY DEF NewRRset, RRsetKinds
<1> HIDE DEF y
<1>2. a \in Seq(RRsetKinds) /\ Len(a) = k /\ a[k] = y /\ l \in Nat /\ \A i \in 1..l : a[i] = q[i]
  BY <1>1, AppendProperties, LenProperties
<1> HIDE DEF a
<1>3. DOMAIN a = 1..k /\ DOMAIN q = 1..l
  BY <1>2, LenProperties
<1>4. 1..k = 1..l \cup {k}
  BY <1>2
<1> HIDE DEF k, l
<1>5. ASSUME NEW x PROVE x \in Records(a) <=> x \in Records(q) \/ x = <<s, owner, type, rd>>
  <2>1. x \in Records(a) <=> \/ \E i \in 1..l : \E z \in a[i].rdatas : x = <<a[i].section, a[i].name, a[i].type, z>>
                             \/ \E z \in a[k].rdatas : x = <<a[k].section, a[k].name, a[k].type, z>>
    BY <1>3, <1>4, RecordIn
  <2>2. x \in Records(q) <=> \E i \in 1..l : \E z \in q[i].rdatas : x = <<q[i].section, q[i].name, q[i].type, z>>
    <3>1. x \in Records(q) <=> \E i \in DOMAIN q : \E z \in q[i].rdatas : x = <<q[i].section, q[i].name, q[i].type, z>>
      BY RecordIn
    <3>2. QED  BY <1>3, <3>1
  <2>3. (\E z \in a[k].rdatas : x = <<a[k].section, a[k].name, a[k].type, z>>) <=> x = <<s, owner, type, rd>>
    BY <1>1, <1>2
  <2>4. (\E i \in 1..l : \E z \in a[i].rdatas : x = <<a[i].section, a[i].name, a[i].type, z>>)
        <=> \E i \in 1..l : \E z \in q[i].rdatas : x = <<q[i].section, q[i].name, q[i].type, z>>
    BY <1>2
  <2>5. QED  BY <2>1, <2>2, <2>3, <2>4
<1>6. QED  BY <1>2, <1>5 DEF a, y

Gains(u, q, x) == Records(u) = Records(q) \cup {x}

LEMMA MoreRecords ==
  ASSUME NEW q \in Seq(RRsetKinds), NEW s \in 1..4, NEW owner \in MessageNames, NEW type \in {"A", "NS"},
         NEW rd \in MessageNames
  PROVE  /\ IntoRRset(q, s, owner, type, rd) \in Seq(RRsetKinds)
         /\ Gains(IntoRRset(q, s, owner, type, rd), q, <<s, owner, type, rd>>)
<1> DEFINE found == FindRRset(q, s, owner, type)
           l == Len(q)
           w == IntoRRset(q, s, owner, type, rd)
<1>1. CASE found = {}
  <2>1. w = Append(q, NewRRset(s, owner, type, rd))
    BY <1>1 DEF IntoRRset
  <2> HIDE DEF w
  <2>2. QED  BY <2>1, AppendedRecords DEF w, Gains
<1>2. CASE found # {}
  <2> DEFINE D == DOMAIN q
             more(i) == [q[i] EXCEPT !.rdatas = @ \cup {rd}]
  <2>1. w = [i \in D |-> IF i \in found THEN more(i) ELSE q[i]]
    BY <1>2 DEF IntoRRset
  <2>2. D = 1..l /\ l \in Nat /\ \A i \in D : q[i] \in RRsetKinds
    BY LenProperties, ElementOfSeq
  <2>3. \A i : i \in found <=> i \in D /\ q[i].section = s /\ q[i].name = owner /\ q[i].type = type
    BY DEF FindRRset
  <2> HIDE DEF found, w, l
  <2>4. ASSUME NEW i \in found
        PROVE  /\ more(i).section = s /\ more(i).name = owner /\ more(i).type = type
               /\ more(i).rdatas = q[i].rdatas \cup {rd} /\ more(i) \in RRsetKinds
    <3>1. q[i] \in RRsetKinds /\ q[i].section = s /\ q[i].name = owner /\ q[i].type = type
      BY <2>2, <2>3
    <3>2. PICK a1 \in 1..4, a2 \in MessageNames, a3 \in {"A", "NS"}, a4 \in SUBSET MessageNames :
             q[i] = [section |-> a1, name |-> a2, type |-> a3, rdatas |-> a4]
      BY <3>1 DEF RRsetKinds
    <3>3. a1 = s /\ a2 = owner /\ a3 = type /\ q[i].rdatas = a4
      BY <3>1, <3>2
    <3>4. more(i) = [section |-> s, name |-> owner, type |-> type, rdatas |-> a4 \cup {rd}]
      <4> DEFINE u == [section |-> s, name |-> owner, type |-> type, rdatas |-> a4]
                 d == a4 \cup {rd}
      <4>1. q[i] = u /\ q[i].rdatas \cup {rd} = d
        BY <3>2, <3>3
      <4> HIDE DEF d
      <4>2. [u EXCEPT !.rdatas = d] = [section |-> s, name |-> owner, type |-> type, rdatas |-> d]
        <5>1. DOMAIN u = {"section", "name", "type", "rdatas"}
          OBVIOUS
        <5>2. \A f \in DOMAIN u : [u EXCEPT !.rdatas = d][f] = [section |-> s, name |-> owner, type |-> type, rdatas |-> d][f]
          OBVIOUS
        <5>3. QED  BY <5>1, <5>2
      <4> HIDE DEF u
      <4>3. more(i) = [u EXCEPT !.rdatas = d]
        BY <4>1
      <4>4. QED  BY <4>2, <4>3 DEF u, d
    <3>5. a4 \cup {rd} \in SUBSET MessageNames
      OBVIOUS
    <3> HIDE DEF more
    <3>6. more(i) \in RRsetKinds
      BY <3>4, <3>5 DEF RRsetKinds
    <3>7. QED  BY <3>3, <3>4, <3>6
  <2> HIDE DEF more
  <2>5. \A i \in D : w[i] = (IF i \in found THEN more(i) ELSE q[i]) /\ w[i] \in RRsetKinds
    BY <2>1, <2>2, <2>4
  <2>6. w \in Seq(RRsetKinds) /\ DOMAIN w = D
    <3>1. w \in [1..l -> RRsetKinds]
      BY <2>1, <2>2, <2>5
    <3>2. QED  BY <2>1, <2>2, <3>1, SeqDef
  <2> HIDE DEF D
  <2>7. ASSUME NEW x PROVE x \in Records(w) <=> x \in Records(q) \/ x = <<s, owner, type, rd>>
    <3>1. ASSUME x \in Records(w) PROVE x \in Records(q) \/ x = <<s, owner, type, rd>>
      <4>1. PICK i \in D : \E z \in w[i].rdatas : x = <<w[i].section, w[i].name, w[i].type, z>>
        BY <2>6, <3>1, RecordIn
      <4>2. CASE i \in found
        <5>1. PICK z \in q[i].rdatas \cup {rd} : x = <<s, owner, type, z>>
          BY <2>4, <2>5, <4>1, <4>2
        <5>2. z \in q[i].rdatas => x \in Records(q)
          <6>1. i \in DOMAIN q
            BY DEF D
          <6>2. q[i].section = s /\ q[i].name = owner /\ q[i].type = type
            BY <2>3, <4>2
          <6>3. QED  BY <5>1, <6>1, <6>2, RecordIn
        <5>3. QED  BY <5>1, <5>2
      <4>3. CASE i \notin found
        <5>1. \E z \in q[i].rdatas : x = <<q[i].section, q[i].name, q[i].type, z>>
          BY <2>5, <4>1, <4>3
        <5>2. QED  BY <5>1, RecordIn DEF D
      <4>4. QED  BY <4>2, <4>3
    <3>2. ASSUME x \in Records(q) PROVE x \in Records(w)
      <4>1. PICK i \in D : \E z \in q[i].rdatas : x = <<q[i].section, q[i].name, q[i].type, z>>
        BY <3>2, RecordIn DEF D
      <4>2. CASE i \in found
        <5>1. PICK z \in q[i].rdatas : x = <<s, owner, type, z>>
          BY <2>3, <4>1, <4>2
        <5>2. z \in w[i].rdatas /\ w[i].section = s /\ w[i].name = owner /\ w[i].type = type
          BY <2>4, <2>5, <4>2, <5>1
        <5>3. QED  BY <2>6, <5>1, <5>2, RecordIn
      <4>3. CASE i \notin found
        <5>1. w[i] = q[i]
          BY <2>5, <4>3
        <5>2. QED  BY <2>6, <4>1, <5>1, RecordIn
      <4>4. QED  BY <4>2, <4>3
    <3>3. <<s, owner, type, rd>> \in Records(w)
      <4>1. PICK i : i \in found
        BY <1>2
      <4>2. i \in D
        BY <2>3, <4>1
      <4>3. rd \in w[i].rdatas /\ w[i].section = s /\ w[i].name = owner /\ w[i].type = type
        BY <2>4, <2>5, <4>1, <4>2
      <4>4. QED  BY <2>6, <4>2, <4>3, RecordIn
    <3>4. QED  BY <3>1, <3>2, <3>3
  <2>8. QED  BY <2>6, <2>7 DEF w, Gains
<1>3. QED  BY <1>1, <1>2

HeldBy(L, i, kinds) == {j \in 1..i : L[j].type \in kinds}
Readers == [error : {"none", "FormError"}, rrsets : Seq(RRsetKinds), opt : BOOLEAN, tsig : BOOLEAN, at : Nat]

WithAt(r, at) == [r EXCEPT !.at = at]
WithRRsets(r, q) == [r EXCEPT !.rrsets = q]
WithOptRead(r) == [r EXCEPT !.opt = TRUE]
WithTsigRead(r) == [r EXCEPT !.tsig = TRUE]

LEMMA ReaderChanges ==
  ASSUME NEW r \in Readers
  PROVE  /\ \A at \in Nat : /\ WithAt(r, at) \in Readers /\ WithAt(r, at).at = at /\ WithAt(r, at).error = r.error
                            /\ WithAt(r, at).rrsets = r.rrsets /\ WithAt(r, at).opt = r.opt /\ WithAt(r, at).tsig = r.tsig
         /\ \A q \in Seq(RRsetKinds) : /\ WithRRsets(r, q) \in Readers /\ WithRRsets(r, q).rrsets = q
                                       /\ WithRRsets(r, q).error = r.error /\ WithRRsets(r, q).at = r.at
                                       /\ WithRRsets(r, q).opt = r.opt /\ WithRRsets(r, q).tsig = r.tsig
         /\ WithOptRead(r) \in Readers /\ WithOptRead(r).opt = TRUE /\ WithOptRead(r).error = r.error
         /\ WithOptRead(r).at = r.at /\ WithOptRead(r).rrsets = r.rrsets /\ WithOptRead(r).tsig = r.tsig
         /\ WithTsigRead(r) \in Readers /\ WithTsigRead(r).tsig = TRUE /\ WithTsigRead(r).error = r.error
         /\ WithTsigRead(r).at = r.at /\ WithTsigRead(r).rrsets = r.rrsets /\ WithTsigRead(r).opt = r.opt
         /\ Fail(r) \in Readers /\ Fail(r).error = "FormError"
<1>1. ASSUME NEW at \in Nat
      PROVE  /\ WithAt(r, at) \in Readers /\ WithAt(r, at).at = at /\ WithAt(r, at).error = r.error
             /\ WithAt(r, at).rrsets = r.rrsets /\ WithAt(r, at).opt = r.opt /\ WithAt(r, at).tsig = r.tsig
  BY DEF WithAt, Readers
<1>2. ASSUME NEW q \in Seq(RRsetKinds)
      PROVE  /\ WithRRsets(r, q) \in Readers /\ WithRRsets(r, q).rrsets = q
             /\ WithRRsets(r, q).error = r.error /\ WithRRsets(r, q).at = r.at
             /\ WithRRsets(r, q).opt = r.opt /\ WithRRsets(r, q).tsig = r.tsig
  BY DEF WithRRsets, Readers
<1>3. /\ WithOptRead(r) \in Readers /\ WithOptRead(r).opt = TRUE /\ WithOptRead(r).error = r.error
      /\ WithOptRead(r).at = r.at /\ WithOptRead(r).rrsets = r.rrsets /\ WithOptRead(r).tsig = r.tsig
  BY DEF WithOptRead, Readers
<1>4. /\ WithTsigRead(r) \in Readers /\ WithTsigRead(r).tsig = TRUE /\ WithTsigRead(r).error = r.error
      /\ WithTsigRead(r).at = r.at /\ WithTsigRead(r).rrsets = r.rrsets /\ WithTsigRead(r).opt = r.opt
  BY DEF WithTsigRead, Readers
<1>5. Fail(r) \in Readers /\ Fail(r).error = "FormError"
  BY DEF Fail, Readers
<1>6. QED  BY <1>1, <1>2, <1>3, <1>4, <1>5

\* t is r with the record e read, or what is missing of it noticed.
TurnReads(r, t, e, part) ==
    /\ t \in Readers
    /\ e.to <= Len(part) =>
         /\ t.error = "none" /\ t.at = e.to
         /\ Records(t.rrsets) = Records(r.rrsets) \cup (IF e.type \in {"A", "NS"} THEN {Rec(e)} ELSE {})
         /\ t.opt = (IF e.type = "OPT" THEN TRUE ELSE r.opt)
         /\ t.tsig = (IF e.type = "TSIG" THEN TRUE ELSE r.tsig)
    /\ ~(e.to <= Len(part)) => t.error = "FormError"

LEMMA OwnerRead ==
  ASSUME NEW K \in SUBSET MarkRecords, NEW wire, MarksOK(K, wire), NEW part, PartOf(part, wire),
         NEW e \in Entries, NEW p \in Nat, DataAt(e, K, wire, p)
  PROVE  /\ p - 1 <= Len(part) => ReadName(part, e.from).error = "none"
         /\ ReadName(part, e.from).error = "none" =>
              ReadName(part, e.from).labels = e.name /\ ReadName(part, e.from).next = p - 1
         /\ p \in Nat \ {0} /\ Len(part) \in Nat /\ e.from \in Nat /\ e.from < p - 1 /\ p <= e.to /\ e.to \in Nat
<1>1. PICK m \in K : m.n = e.name /\ m.a = e.from /\ m.e = p - 1
  BY DEF DataAt, Spelled
<1>2. e.name \in MessageNames /\ e.from \in Nat /\ e.to \in Nat
  BY DEF Entries
<1>3. Len(m.n) <= MaxLabels
  BY <1>1, <1>2, MessageNameFacts
<1>4. NameRead(part, m)
  BY <1>3, ReadsName
<1>5. m.a < m.e
  BY DEF MarksOK, MarkOK
<1>6. Len(part) \in Nat
  BY DEF PartOf
<1>7. p \in Nat \ {0} /\ p <= e.to
  BY DEF DataAt
<1>8. QED  BY <1>1, <1>2, <1>4, <1>5, <1>6, <1>7 DEF NameRead

LEMMA QuestionRead ==
  ASSUME NEW K \in SUBSET MarkRecords, NEW wire, MarksOK(K, wire), NEW part, PartOf(part, wire),
         NEW e, EntryAt(e, K, wire), e.sec = 1,
         NEW r \in Readers, r.error = "none", r.at = e.from
  PROVE  TurnReads(r, ReadQuestion(r, part), e, part)
<1> DEFINE owner == ReadName(part, e.from)
           t == ReadQuestion(r, part)
           more == Append(r.rrsets, NewRRset(1, owner.labels, "A", << >>))
<1>1. PICK p \in Nat : DataAt(e, K, wire, p)
  BY DEF EntryAt
<1>2. e \in Entries
  BY DEF EntryAt
<1>3. /\ p - 1 <= Len(part) => owner.error = "none"
      /\ owner.error = "none" => owner.labels = e.name /\ owner.next = p - 1
      /\ p \in Nat \ {0} /\ Len(part) \in Nat
  BY <1>1, <1>2, OwnerRead
<1>4. e.type = "A" /\ e.to = p /\ e.target = << >> /\ e.name \in MessageNames
  BY <1>1, <1>2 DEF DataAt, Entries
<1>5. t = IF owner.error # "none" \/ owner.next >= Len(part) THEN Fail(r)
          ELSE WithRRsets(WithAt(r, owner.next + 1), more)
  BY DEF ReadQuestion, WithRRsets, WithAt
<1> HIDE DEF owner, t
<1>6. CASE owner.error # "none" \/ owner.next >= Len(part)
  <2>1. ~(p <= Len(part))
    BY <1>3, <1>6
  <2>2. t \in Readers /\ t.error = "FormError"
    BY <1>5, <1>6, ReaderChanges
  <2>3. QED  BY <1>4, <2>1, <2>2 DEF TurnReads, t
<1>7. CASE ~(owner.error # "none" \/ owner.next >= Len(part))
  <2>1. owner.labels = e.name /\ owner.next + 1 = p /\ p <= Len(part)
    BY <1>3, <1>7
  <2> DEFINE d == WithAt(r, p)
  <2>2. t = WithRRsets(d, more)
    BY <1>5, <1>7, <2>1
  <2>3. d \in Readers /\ d.at = p /\ d.error = "none" /\ d.opt = r.opt /\ d.tsig = r.tsig
    BY <1>3, ReaderChanges
  <2> HIDE DEF d
  <2>4. more \in Seq(RRsetKinds) /\ Records(more) = Records(r.rrsets) \cup {<<1, e.name, "A", << >>>>}
    <3>1. r.rrsets \in Seq(RRsetKinds) /\ << >> \in MessageNames /\ 1 \in 1..4
      BY DEF Readers, MessageNames
    <3>2. QED  BY <1>4, <2>1, <3>1, AppendedRecords
  <2> HIDE DEF more
  <2>5. /\ t \in Readers /\ t.rrsets = more /\ t.error = "none" /\ t.at = p /\ t.opt = r.opt /\ t.tsig = r.tsig
    BY <2>2, <2>3, <2>4, ReaderChanges
  <2>6. Rec(e) = <<1, e.name, "A", << >>>>
    BY <1>4 DEF Rec
  <2>7. QED  BY <1>4, <2>1, <2>4, <2>5, <2>6 DEF TurnReads, t
<1>8. QED  BY <1>6, <1>7

LEMMA HeadedStays ==
  ASSUME NEW wire \in Seq(Cells), NEW part \in Seq(Cells), PartOf(part, wire), NEW k \in Nat \ {0}, k <= Len(part)
  PROVE  Headed(part, k) = Headed(wire, k)
<1>1. Len(part) \in Nat /\ Len(wire) \in Nat /\ Len(part) <= Len(wire) /\ \A i \in 1..Len(part) : part[i] = wire[i]
  BY LenProperties DEF PartOf
<1>2. part[1] = wire[1]
  BY <1>1
<1>3. 2 \in Nat \ {0} /\ 2 <= k + 1 /\ k <= Len(wire) /\ k \in Nat
  BY <1>1
<1> DEFINE v == SubSeq(part, 2, k)
           w == SubSeq(wire, 2, k)
           n == k - 2 + 1
<1>4. v \in Seq(Cells) /\ Len(v) = n /\ \A i \in 1..n : v[i] = part[2 + i - 1]
  BY <1>3, SubSeqFacts
<1>5. w \in Seq(Cells) /\ Len(w) = n /\ \A i \in 1..n : w[i] = wire[2 + i - 1]
  BY <1>3, SubSeqFacts
<1>6. \A i \in 1..n : 2 + i - 1 \in 1..Len(part)
  BY <1>1
<1> HIDE DEF v, w
<1>7. \A i \in 1..Len(v) : v[i] = w[i]
  BY <1>1, <1>4, <1>5, <1>6
<1>8. v = w
  BY <1>4, <1>5, <1>7, SeqEqual
<1>9. QED  BY <1>2, <1>8 DEF Headed, v, w

\* What ReadRecord() does with a record that is all there.
RecordTurn(r, wire, s, k, count) == ReadRecord(r, wire, s, k = count)
BodyRead(r, wire, s, k, count, owner, type, start, stop) ==
    CASE type = "OPT" -> IF s = 4 /\ ~r.opt /\ owner = << >> THEN WithOptRead(WithAt(r, stop)) ELSE Fail(r)
      [] type = "TSIG" -> ReadTsig(WithAt(r, stop), wire, r.at, s, k = count, owner, wire[start + 1][2])
      [] type = "A" -> IF stop # start + 1 THEN Fail(r)
                       ELSE WithRRsets(WithAt(r, stop), IntoRRset(r.rrsets, s, owner, "A", << >>))
      [] type = "NS" -> IF \/ ReadName(SubSeq(wire, 1, stop), start).error # "none"
                           \/ ReadName(SubSeq(wire, 1, stop), start).next # stop
                        THEN Fail(r)
                        ELSE WithRRsets(WithAt(r, stop),
                               IntoRRset(r.rrsets, s, owner, "NS", ReadName(SubSeq(wire, 1, stop), start).labels))

LEMMA ReadRecordIs ==
  ASSUME NEW r \in Readers, NEW wire, NEW s, NEW k, NEW count
  PROVE  LET owner == ReadName(wire, r.at)
             start == owner.next + 1
             stop  == start + wire[owner.next + 1][3]
         IN  RecordTurn(r, wire, s, k, count) =
               IF owner.error # "none" \/ owner.next >= Len(wire) \/ stop > Len(wire) THEN Fail(r)
               ELSE BodyRead(r, wire, s, k, count, owner.labels, wire[owner.next + 1][2], start, stop)
<1> DEFINE stop == ReadName(wire, r.at).next + 1 + wire[ReadName(wire, r.at).next + 1][3]
           d == [r EXCEPT !.at = stop]
<1>1. d.rrsets = r.rrsets
  BY DEF Readers
<1>2. QED  BY <1>1 DEF RecordTurn, ReadRecord, BodyRead, WithAt, WithRRsets, WithOptRead

LEMMA TargetRead ==
  ASSUME NEW K \in SUBSET MarkRecords, NEW wire \in Seq(Cells), MarksOK(K, wire),
         NEW part \in Seq(Cells), PartOf(part, wire),
         NEW owner \in MessageNames, NEW from, NEW to \in Nat, Spelled(K, owner, from, to), to <= Len(part)
  PROVE  LET t == ReadName(SubSeq(part, 1, to), from) IN t.error = "none" /\ t.labels = owner /\ t.next = to
<1> DEFINE v == SubSeq(part, 1, to)
<1>1. PICK m \in K : m.n = owner /\ m.a = from /\ m.e = to
  BY DEF Spelled
<1>2. Len(part) \in Nat /\ Len(part) <= Len(wire) /\ Len(wire) \in Nat /\ \A i \in 1..Len(part) : part[i] = wire[i]
  BY LenProperties DEF PartOf
<1>3. 1 \in Nat \ {0} /\ 1 <= to + 1 /\ to - 1 + 1 = to /\ \A i \in 1..to : 1 + i - 1 = i /\ i \in 1..Len(part)
  BY <1>2
<1>4. v \in Seq(Cells) /\ Len(v) = to - 1 + 1 /\ \A i \in 1..(to - 1 + 1) : v[i] = part[1 + i - 1]
  BY <1>3, SubSeqFacts
<1> HIDE DEF v
<1>5. Len(v) = to /\ \A i \in 1..to : v[i] = wire[i]
  BY <1>2, <1>3, <1>4
<1>6. PartOf(v, wire)
  BY <1>2, <1>5 DEF PartOf
<1>7. Len(m.n) <= MaxLabels
  BY <1>1, MessageNameFacts
<1>8. NameRead(v, m)
  BY <1>6, <1>7, ReadsName
<1>9. m.e <= Len(v)
  BY <1>1, <1>5
<1>10. QED  BY <1>1, <1>8, <1>9 DEF NameRead, v

LEMMA BodyIsRead ==
  ASSUME NEW K \in SUBSET MarkRecords, NEW wire \in Seq(Cells), MarksOK(K, wire),
         NEW part \in Seq(Cells), PartOf(part, wire),
         NEW e \in Entries, NEW p \in Nat, DataAt(e, K, wire, p), e.sec # 1, e.to <= Len(part), e.from # 0,
         NEW r \in Readers, r.error = "none", r.at = e.from,
         e.type = "OPT" => r.opt = FALSE,
         NEW k, NEW count, e.type = "TSIG" => k = count
  PROVE  TurnReads(r, BodyRead(r, part, e.sec, k, count, e.name, e.type, p, e.to), e, part)
<1> DEFINE s == e.sec
           t == BodyRead(r, part, s, k, count, e.name, e.type, p, e.to)
           d == WithAt(r, e.to)
           q == IntoRRset(r.rrsets, s, e.name, e.type, e.target)
<1>1. s \in 1..4 /\ e.type \in LogTypes /\ e.name \in MessageNames /\ e.target \in MessageNames /\ e.to \in Nat /\ e.from \in Nat
  BY DEF Entries
<1>2. /\ e.type = "A" => e.to = p + 1
      /\ e.type = "NS" => Spelled(K, e.target, p, e.to)
      /\ e.type # "NS" => e.target = << >>
      /\ e.type = "OPT" => s = 4 /\ e.name = << >>
      /\ e.type = "TSIG" => /\ s = 4 /\ e.name = KeyName /\ e.to = p + 1
                            /\ wire[p + 1] = <<"mac", Headed(wire, e.from)>>
  BY DEF DataAt
<1>3. d \in Readers /\ d.at = e.to /\ d.error = "none" /\ d.opt = r.opt /\ d.tsig = r.tsig /\ d.rrsets = r.rrsets
  <2> DEFINE at == e.to
  <2>1. at \in Nat
    BY <1>1
  <2> HIDE DEF at
  <2>2. /\ WithAt(r, at) \in Readers /\ WithAt(r, at).at = at /\ WithAt(r, at).error = r.error
        /\ WithAt(r, at).rrsets = r.rrsets /\ WithAt(r, at).opt = r.opt /\ WithAt(r, at).tsig = r.tsig
    BY <2>1, ReaderChanges
  <2>3. QED  BY <2>2 DEF at
<1>4. r.rrsets \in Seq(RRsetKinds)
  BY DEF Readers
<1>5. ASSUME e.type \in {"A", "NS"}, t = WithRRsets(d, q) PROVE TurnReads(r, t, e, part)
  <2>1. q \in Seq(RRsetKinds) /\ Records(q) = Records(r.rrsets) \cup {<<s, e.name, e.type, e.target>>}
    <3> DEFINE x == e.name
               y == e.type
               z == e.target
               w == r.rrsets
    <3>1. x \in MessageNames /\ y \in {"A", "NS"} /\ z \in MessageNames /\ s \in 1..4 /\ w \in Seq(RRsetKinds)
      BY <1>1, <1>4, <1>5
    <3> HIDE DEF x, y, z, w, s
    <3>2. IntoRRset(w, s, x, y, z) \in Seq(RRsetKinds) /\ Gains(IntoRRset(w, s, x, y, z), w, <<s, x, y, z>>)
      BY <3>1, MoreRecords
    <3>3. QED  BY <3>2 DEF Gains, w, x, y, z
  <2> HIDE DEF q, t, d
  <2>2. /\ t \in Readers /\ t.rrsets = q /\ t.error = "none" /\ t.at = e.to /\ t.opt = r.opt /\ t.tsig = r.tsig
    BY <1>3, <1>5, <2>1, ReaderChanges
  <2>3. Rec(e) = <<s, e.name, e.type, e.target>> /\ e.type # "OPT" /\ e.type # "TSIG"
    BY <1>5 DEF Rec
  <2>4. QED  BY <1>5, <2>1, <2>2, <2>3 DEF TurnReads
<1>6. CASE e.type = "A"
  <2>1. t = WithRRsets(d, q)
    BY <1>2, <1>6 DEF BodyRead
  <2> HIDE DEF t, d, q
  <2>2. TurnReads(r, t, e, part)
    BY <1>5, <1>6, <2>1
  <2>3. QED  BY <2>2 DEF t
<1>7. CASE e.type = "NS"
  <2> DEFINE x == ReadName(SubSeq(part, 1, e.to), p)
  <2>1. x.error = "none" /\ x.labels = e.target /\ x.next = e.to
    BY <1>1, <1>2, <1>7, TargetRead
  <2>2. t = IF x.error # "none" \/ x.next # e.to THEN Fail(r)
            ELSE WithRRsets(WithAt(r, e.to), IntoRRset(r.rrsets, s, e.name, "NS", x.labels))
    BY <1>7 DEF BodyRead
  <2> HIDE DEF t, x
  <2>3. t = WithRRsets(d, q)
    BY <1>7, <2>1, <2>2
  <2> HIDE DEF d, q
  <2>4. TurnReads(r, t, e, part)
    BY <1>5, <1>7, <2>3
  <2>5. QED  BY <2>4 DEF t
<1>8. CASE e.type = "OPT"
  <2>1. t = WithOptRead(d)
    BY <1>2, <1>8 DEF BodyRead
  <2> HIDE DEF t, d
  <2>2. /\ t \in Readers /\ t.error = "none" /\ t.at = e.to /\ t.rrsets = r.rrsets /\ t.opt = TRUE /\ t.tsig = r.tsig
    BY <1>3, <2>1, ReaderChanges
  <2>3. TurnReads(r, t, e, part)
    BY <1>8, <2>2 DEF TurnReads
  <2>4. QED  BY <2>3 DEF t
<1>9. CASE e.type = "TSIG"
  <2> DEFINE mac == part[p + 1][2]
  <2>1. mac = Headed(part, e.from)
    <3>1. p + 1 \in 1..Len(part) /\ e.from \in Nat \ {0} /\ e.from <= Len(part)
      <4>1. Len(part) \in Nat
        BY LenProperties
      <4>2. e.from < p - 1
        BY OwnerRead
      <4>3. QED  BY <1>1, <1>2, <1>9, <4>1, <4>2
    <3>2. part[p + 1] = wire[p + 1]
      BY <3>1 DEF PartOf
    <3>3. Headed(part, e.from) = Headed(wire, e.from)
      BY <3>1, HeadedStays
    <3>4. wire[p + 1] = <<"mac", Headed(wire, e.from)>>
      BY <1>2, <1>9
    <3> HIDE DEF mac
    <3>5. part[p + 1][2] = Headed(wire, e.from)
      BY <3>2, <3>4
    <3>6. QED  BY <3>3, <3>5 DEF mac
  <2>2. t = ReadTsig(d, part, r.at, s, k = count, e.name, mac)
    BY <1>9 DEF BodyRead
  <2>3. ReadTsig(d, part, e.from, s, k = count, e.name, mac) = WithTsigRead(d)
    <3>1. s = 4 /\ k = count /\ e.name = KeyName
      BY <1>2, <1>9
    <3> HIDE DEF mac, d, s
    <3>2. QED  BY <2>1, <3>1 DEF ReadTsig, Headed, WithTsigRead
  <2> HIDE DEF mac, t, d
  <2>4. t = WithTsigRead(d)
    BY <2>2, <2>3
  <2>5. /\ t \in Readers /\ t.error = "none" /\ t.at = e.to /\ t.rrsets = r.rrsets /\ t.tsig = TRUE /\ t.opt = r.opt
    BY <1>3, <2>4, ReaderChanges
  <2>6. TurnReads(r, t, e, part)
    BY <1>9, <2>5 DEF TurnReads
  <2>7. QED  BY <2>6 DEF t
<1>10. QED  BY <1>1, <1>6, <1>7, <1>8, <1>9 DEF LogTypes

LEMMA RecordRead ==
  ASSUME NEW K \in SUBSET MarkRecords, NEW wire \in Seq(Cells), MarksOK(K, wire),
         NEW part \in Seq(Cells), PartOf(part, wire),
         NEW e, EntryAt(e, K, wire), e.sec # 1, e.from # 0,
         NEW r \in Readers, r.error = "none", r.at = e.from,
         e.type = "OPT" => r.opt = FALSE,
         NEW k, NEW count, e.type = "TSIG" => k = count
  PROVE  TurnReads(r, RecordTurn(r, part, e.sec, k, count), e, part)
<1> DEFINE owner == ReadName(part, e.from)
           fixed == part[owner.next + 1]
           start == owner.next + 1
           stop == start + fixed[3]
           t == RecordTurn(r, part, e.sec, k, count)
<1>1. PICK p \in Nat : DataAt(e, K, wire, p)
  BY DEF EntryAt
<1>2. e \in Entries
  BY DEF EntryAt
<1>3. /\ p - 1 <= Len(part) => owner.error = "none"
      /\ owner.error = "none" => owner.labels = e.name /\ owner.next = p - 1
      /\ p \in Nat \ {0} /\ Len(part) \in Nat /\ p <= e.to /\ e.to \in Nat
  BY <1>1, <1>2, OwnerRead
<1>4. t = IF owner.error # "none" \/ owner.next >= Len(part) \/ stop > Len(part) THEN Fail(r)
          ELSE BodyRead(r, part, e.sec, k, count, owner.labels, fixed[2], start, stop)
  <2>1. LET own == ReadName(part, r.at)
            st == own.next + 1
            sp == st + part[own.next + 1][3]
        IN  RecordTurn(r, part, e.sec, k, count) =
              IF own.error # "none" \/ own.next >= Len(part) \/ sp > Len(part) THEN Fail(r)
              ELSE BodyRead(r, part, e.sec, k, count, own.labels, part[own.next + 1][2], st, sp)
    BY ReadRecordIs
  <2>2. r.at = e.from
    OBVIOUS
  <2>3. QED  BY <2>1, <2>2
<1>5. wire[p] = <<"fixed", e.type, e.to - p>>
  BY <1>1 DEF DataAt
<1> HIDE DEF owner, t
<1>6. CASE owner.error # "none" \/ owner.next >= Len(part)
  <2>1. ~(e.to <= Len(part))
    BY <1>3, <1>6
  <2>2. t = Fail(r)
    BY <1>4, <1>6
  <2>3. t \in Readers /\ t.error = "FormError"
    BY <2>2, ReaderChanges
  <2>4. QED  BY <2>1, <2>3 DEF TurnReads, t
<1>7. CASE ~(owner.error # "none" \/ owner.next >= Len(part))
  <2>1. owner.labels = e.name /\ start = p /\ p \in 1..Len(part)
    BY <1>3, <1>7
  <2>2. fixed = <<"fixed", e.type, e.to - p>>
    BY <1>5, <2>1 DEF PartOf
  <2>3. fixed[2] = e.type /\ fixed[3] = e.to - p
    BY <2>2
  <2>4. stop = e.to
    <3>1. p + (e.to - p) = e.to
      BY <1>3
    <3> HIDE DEF fixed, start
    <3>2. QED  BY <2>1, <2>3, <3>1
  <2> HIDE DEF fixed, start, stop
  <2>5. CASE stop > Len(part)
    <3>1. ~(e.to <= Len(part))
      BY <1>3, <2>4, <2>5
    <3>2. t = Fail(r)
      BY <1>4, <2>5
    <3>3. t \in Readers /\ t.error = "FormError"
      BY <3>2, ReaderChanges
    <3>4. QED  BY <3>1, <3>3 DEF TurnReads, t
  <2>6. CASE ~(stop > Len(part))
    <3>1. e.to <= Len(part)
      BY <1>3, <2>4, <2>6
    <3>2. t = BodyRead(r, part, e.sec, k, count, e.name, e.type, p, e.to)
      BY <1>4, <1>7, <2>1, <2>3, <2>4, <2>6
    <3>3. TurnReads(r, BodyRead(r, part, e.sec, k, count, e.name, e.type, p, e.to), e, part)
      BY <1>1, <1>2, <3>1, BodyIsRead
    <3>4. QED  BY <3>2, <3>3 DEF t
  <2>7. QED  BY <2>5, <2>6
<1>8. QED  BY <1>6, <1>7

\* A section, record by record.
TurnOf(r, wire, s, i, count) == SectionTurn(r, wire, s, i = count)
IsTurns(f, b, wire, s, count, m) ==
    f = [i \in 0..m |-> IF i = 0 THEN b ELSE TurnOf(f[i - 1], wire, s, i, count)]

LEMMA TurnsExist ==
  ASSUME NEW b, NEW wire, NEW s, NEW count, NEW m \in Nat
  PROVE  \E f : IsTurns(f, b, wire, s, count, m)
<1> DEFINE S == {n \in Nat : \E f : IsTurns(f, b, wire, s, count, n)}
<1>1. 0 \in S
  <2> DEFINE f == [i \in 0..0 |-> b]
  <2>1. f = [i \in 0..0 |-> IF i = 0 THEN b ELSE TurnOf(f[i - 1], wire, s, i, count)]
    <3>1. \A i \in 0..0 : i = 0
      OBVIOUS
    <3>2. QED  BY <3>1
  <2>2. QED  BY <2>1 DEF IsTurns
<1>2. ASSUME NEW n \in S PROVE n + 1 \in S
  <2>1. PICK f : IsTurns(f, b, wire, s, count, n)
    OBVIOUS
  <2> DEFINE l == n + 1
             g == [i \in 0..l |-> IF i \in 0..n THEN f[i] ELSE TurnOf(f[n], wire, s, l, count)]
  <2>2. n \in Nat /\ l \in Nat /\ l - 1 = n /\ l \notin 0..n /\ n \in 0..n /\ l \in 0..l
    OBVIOUS
  <2>3. \A i \in 0..n : f[i] = IF i = 0 THEN b ELSE TurnOf(f[i - 1], wire, s, i, count)
    BY <2>1 DEF IsTurns
  <2>4. /\ \A i \in 0..l : g[i] = IF i \in 0..n THEN f[i] ELSE TurnOf(f[n], wire, s, l, count)
        /\ g = [i \in 0..l |-> g[i]]
    OBVIOUS
  <2>5. \A i \in 0..l : \/ i = 0 /\ i \in 0..n
                        \/ i # 0 /\ i \in 0..n /\ i - 1 \in 0..n /\ i - 1 \in 0..l
                        \/ i = l /\ i # 0 /\ i \notin 0..n /\ i - 1 = n /\ i - 1 \in 0..n /\ i - 1 \in 0..l
    BY <2>2
  <2> HIDE DEF g, l
  <2>6. ASSUME NEW i \in 0..l
        PROVE  g[i] = IF i = 0 THEN b ELSE TurnOf(g[i - 1], wire, s, i, count)
    <3> DEFINE j == i - 1
    <3>1. \/ i = 0 /\ i \in 0..n
          \/ i # 0 /\ i \in 0..n /\ j \in 0..n /\ j \in 0..l
          \/ i = l /\ i # 0 /\ i \notin 0..n /\ j = n /\ j \in 0..n /\ j \in 0..l
      BY <2>5
    <3>2. i \in 0..n => f[i] = IF i = 0 THEN b ELSE TurnOf(f[j], wire, s, i, count)
      BY <2>3
    <3> HIDE DEF j
    <3>3. g[i] = IF i = 0 THEN b ELSE TurnOf(g[j], wire, s, i, count)
      BY <2>4, <3>1, <3>2
    <3>4. QED  BY <3>3 DEF j
  <2>7. g = [i \in 0..l |-> IF i = 0 THEN b ELSE TurnOf(g[i - 1], wire, s, i, count)]
    BY <2>4, <2>6
  <2>8. IsTurns(g, b, wire, s, count, l)
    BY <2>7 DEF IsTurns
  <2>9. l \in S
    BY <2>2, <2>8
  <2>10. QED  BY <2>9 DEF l
<1>3. S \in SUBSET Nat
  OBVIOUS
<1> HIDE DEF S
<1>4. S = Nat
  BY <1>1, <1>2, <1>3, SetInduction
<1>5. QED  BY <1>4 DEF S

LEMMA SectionTurnsAre ==
  ASSUME NEW b, NEW wire, NEW s, NEW count \in Nat
  PROVE  IsTurns(SectionTurns(b, wire, s, count), b, wire, s, count, count)
<1>1. \E f : IsTurns(f, b, wire, s, count, count)
  BY TurnsExist
<1>2. SectionTurns(b, wire, s, count) = CHOOSE f : IsTurns(f, b, wire, s, count, count)
  BY DEF SectionTurns, IsTurns, TurnOf
<1>3. QED  BY <1>1, <1>2

\* The reader after the first i records, as far as they are there.
ReadSoFar(r, L, part, i) ==
    /\ r \in Readers
    /\ EndOf(L, i) <= Len(part) =>
         /\ r.error = "none" /\ r.at = EndOf(L, i)
         /\ Records(r.rrsets) = {Rec(L[j]) : j \in HeldBy(L, i, {"A", "NS"})}
         /\ r.opt = (IF HeldBy(L, i, {"OPT"}) # {} THEN TRUE ELSE FALSE)
         /\ r.tsig = (IF HeldBy(L, i, {"TSIG"}) # {} THEN TRUE ELSE FALSE)
    /\ ~(EndOf(L, i) <= Len(part)) => r.error = "FormError"

LEMMA LogPlaces ==
  ASSUME NEW K, NEW L, NEW wire, NEW cnt, NEW acc, NEW extra, FinalBy(K, L, wire, cnt, acc, extra),
         NEW i \in 1..Len(L)
  PROVE  /\ L[i] \in Entries /\ EntryAt(L[i], K, wire)
         /\ EndOf(L, i) = L[i].to /\ EndOf(L, i - 1) = L[i].from
         /\ L[i].to \in Nat /\ L[i].from \in Nat \ {0} /\ L[i].from < L[i].to
<1>1. K \in SUBSET MarkRecords /\ MarksOK(K, wire) /\ WrittenAs(L, K, cnt, wire)
  BY DEF FinalBy
<1>2. L \in Seq(Entries) /\ Len(L) \in Nat
  BY <1>1, LenProperties DEF WrittenAs
<1>3. ASSUME NEW j \in 1..Len(L)
      PROVE  L[j] \in Entries /\ L[j].to \in Nat /\ L[j].from \in Nat /\ L[j].from < L[j].to
  <2>1. L[j] \in Entries /\ EntryAt(L[j], K, wire)
    BY <1>1, <1>2, ElementOfSeq DEF WrittenAs
  <2>2. PICK p \in Nat : DataAt(L[j], K, wire, p)
    BY <2>1 DEF EntryAt
  <2>3. PICK m \in K : m.a = L[j].from /\ m.e = p - 1
    BY <2>2 DEF DataAt, Spelled
  <2>4. m.a < m.e /\ p <= L[j].to
    BY <1>1, <2>2 DEF MarksOK, MarkOK, DataAt
  <2>5. L[j].to \in Nat /\ L[j].from \in Nat
    BY <2>1 DEF Entries
  <2>6. QED  BY <2>1, <2>3, <2>4, <2>5
<1>4. L[i].from = EndOf(L, i - 1) /\ EntryAt(L[i], K, wire)
  BY <1>1 DEF WrittenAs
<1>5. EndOf(L, i) = L[i].to
  BY DEF EndOf
<1>6. L[i].from # 0
  <2>1. CASE i = 1
    BY <1>4, <2>1 DEF EndOf, HeaderSize
  <2>2. CASE i # 1
    <3> DEFINE j == i - 1
    <3>1. j \in 1..Len(L) /\ j # 0
      BY <1>2, <2>2
    <3>2. L[i].from = EndOf(L, j)
      BY <1>4
    <3> HIDE DEF j
    <3>3. L[i].from = L[j].to
      BY <3>1, <3>2 DEF EndOf
    <3>4. L[j].to \in Nat /\ L[j].from \in Nat /\ L[j].from < L[j].to
      BY <1>3, <3>1
    <3>5. QED  BY <3>3, <3>4
  <2>3. QED  BY <2>1, <2>2
<1>7. QED  BY <1>3, <1>4, <1>5, <1>6

LEMMA SectionOf ==
  ASSUME NEW L, NEW cnt \in [1..4 -> Nat], InOrder(L, cnt), L \in Seq(Entries), NEW s \in 1..4, NEW k \in 1..cnt[s]
  PROVE  LET i == Upto(cnt, s - 1) + k
         IN  i \in 1..Len(L) /\ L[i].sec = s /\ (s = 4 /\ i = Len(L) => k = cnt[s])
<1> DEFINE r == s - 1
           u == Upto(cnt, r)
           v == Upto(cnt, s)
           c == cnt[s]
           i == u + k
           t == L[i].sec
<1>1. r \in 0..4 /\ s \in 0..4 /\ 4 \in 0..4 /\ s <= 4 /\ c \in Nat
  OBVIOUS
<1>2. u \in Nat /\ v = u + c /\ v <= Upto(cnt, 4) /\ Len(L) = Upto(cnt, 4) /\ v \in Nat /\ Upto(cnt, 4) \in Nat
  BY <1>1, UptoFacts DEF InOrder
<1> HIDE DEF u, v, c
<1>3. i \in 1..Len(L) /\ u < i /\ i <= v /\ k \in 1..c
  <2>1. k \in 1..c
    BY DEF c
  <2>2. QED  BY <1>1, <1>2, <2>1
<1> HIDE DEF i
<1>4. t \in 1..4 /\ Upto(cnt, t - 1) < i /\ i <= Upto(cnt, t)
  <2>1. L[i] \in Entries
    BY <1>3, ElementOfSeq
  <2>2. QED  BY <1>3, <2>1 DEF Entries, InOrder
<1> HIDE DEF t
<1>5. ~(t < s)
  <2>1. SUFFICES ASSUME t < s PROVE FALSE
    OBVIOUS
  <2>2. t \in 0..4 /\ t <= r
    BY <1>4, <2>1
  <2>3. Upto(cnt, t) <= u /\ Upto(cnt, t) \in Nat
    BY <1>1, <2>2, UptoFacts DEF u
  <2>4. QED  BY <1>2, <1>3, <1>4, <2>3
<1>6. ~(s < t)
  <2>1. SUFFICES ASSUME s < t PROVE FALSE
    OBVIOUS
  <2> DEFINE q == t - 1
  <2>2. q \in 0..4 /\ s <= q
    BY <1>4, <2>1
  <2> HIDE DEF q
  <2>3. v <= Upto(cnt, q) /\ Upto(cnt, q) \in Nat
    BY <1>1, <2>2, UptoFacts DEF v
  <2>4. Upto(cnt, q) < i
    BY <1>4 DEF q
  <2>5. QED  BY <1>2, <1>3, <2>3, <2>4
<1>7. t = s
  BY <1>4, <1>5, <1>6
<1>8. s = 4 /\ i = Len(L) => k = c
  <2>1. SUFFICES ASSUME s = 4, i = Len(L) PROVE k = c
    OBVIOUS
  <2>2. v = Len(L) /\ i = u + k
    BY <1>2, <2>1 DEF v, i
  <2>3. u \in Nat /\ c \in Nat /\ k \in Nat /\ u + c = u + k
    <3>1. u + c = u + k
      BY <1>2, <2>1, <2>2
    <3>2. QED  BY <1>1, <1>2, <1>3, <3>1
  <2>4. QED  BY <2>3
<1>9. QED  BY <1>3, <1>7, <1>8 DEF t, i, u, c, r

LEMMA OneHeldMore ==
  ASSUME NEW L, NEW i \in Nat \ {0}, NEW kinds
  PROVE  HeldBy(L, i, kinds) = HeldBy(L, i - 1, kinds) \cup (IF L[i].type \in kinds THEN {i} ELSE {})
<1>1. 1..i = 1..(i - 1) \cup {i}
  OBVIOUS
<1>2. QED  BY <1>1 DEF HeldBy

LEMMA TurnIsRead ==
  ASSUME NEW K, NEW L, NEW wire, NEW cnt, NEW acc, NEW extra, FinalBy(K, L, wire, cnt, acc, extra),
         NEW part \in Seq(Cells), PartOf(part, wire),
         NEW s \in 1..4, NEW k \in 1..cnt[s],
         NEW r, ReadSoFar(r, L, part, Upto(cnt, s - 1) + k - 1)
  PROVE  ReadSoFar(TurnOf(r, part, s, k, cnt[s]), L, part, Upto(cnt, s - 1) + k)
<1> DEFINE i == Upto(cnt, s - 1) + k
           c == cnt[s]
           e == L[i]
           t == TurnOf(r, part, s, k, c)
<1>1. /\ K \in SUBSET MarkRecords /\ MarksOK(K, wire) /\ wire \in Seq(Cells)
      /\ L \in Seq(Entries) /\ Len(L) \in Nat /\ cnt \in [1..4 -> Nat] /\ InOrder(L, cnt) /\ Says(L, acc, extra)
  BY LenProperties DEF FinalBy, WrittenAs
<1>2. i \in 1..Len(L) /\ e.sec = s /\ (s = 4 /\ i = Len(L) => k = c)
  BY <1>1, SectionOf
<1> HIDE DEF i
<1>3. /\ e \in Entries /\ EntryAt(e, K, wire)
      /\ EndOf(L, i) = e.to /\ EndOf(L, i - 1) = e.from
      /\ e.to \in Nat /\ e.from \in Nat \ {0} /\ e.from < e.to
  BY <1>2, LogPlaces
<1>4. ReadSoFar(r, L, part, i - 1) /\ i \in Nat \ {0} /\ Len(part) \in Nat
  <2>1. ReadSoFar(r, L, part, i - 1)
    <3> DEFINE u == Upto(cnt, s - 1)
    <3>1. u \in Nat
      <4>1. s - 1 \in 0..4
        OBVIOUS
      <4>2. QED  BY <1>1, <4>1, UptoFacts
    <3>2. k \in Nat
      BY <1>1
    <3> HIDE DEF u
    <3>3. u + k - 1 = (u + k) - 1
      BY <3>1, <3>2
    <3>4. QED  BY <3>3 DEF i, u
  <2>2. QED  BY <1>1, <1>2, <2>1 DEF PartOf
<1>5. r \in Readers
  BY <1>4 DEF ReadSoFar
<1>6. CASE ~(e.from <= Len(part))
  <2>1. r.error = "FormError"
    BY <1>3, <1>4, <1>6 DEF ReadSoFar
  <2>2. t = r
    BY <2>1 DEF TurnOf, SectionTurn
  <2>3. ~(e.to <= Len(part))
    BY <1>3, <1>4, <1>6
  <2> HIDE DEF e, t
  <2>4. ReadSoFar(t, L, part, i)
    BY <1>3, <1>5, <2>1, <2>2, <2>3 DEF ReadSoFar
  <2>5. QED  BY <2>4 DEF t, i, c
<1>7. CASE e.from <= Len(part)
  <2>1. /\ r.error = "none" /\ r.at = e.from
        /\ Records(r.rrsets) = {Rec(L[j]) : j \in HeldBy(L, i - 1, {"A", "NS"})}
        /\ r.opt = (IF HeldBy(L, i - 1, {"OPT"}) # {} THEN TRUE ELSE FALSE)
        /\ r.tsig = (IF HeldBy(L, i - 1, {"TSIG"}) # {} THEN TRUE ELSE FALSE)
    BY <1>3, <1>4, <1>7 DEF ReadSoFar
  <2>2. e.type = "OPT" => r.opt = FALSE
    <3>1. SUFFICES ASSUME e.type = "OPT" PROVE HeldBy(L, i - 1, {"OPT"}) = {}
      BY <2>1
    <3>2. ASSUME NEW j \in HeldBy(L, i - 1, {"OPT"}) PROVE FALSE
      <4>1. j \in 1..(i - 1) /\ L[j].type = "OPT"
        BY DEF HeldBy
      <4>2. j \in 1..Len(L) /\ j # i
        BY <1>1, <1>2, <4>1
      <4>3. j \in PlacesOf(L, {"OPT"}) /\ i \in PlacesOf(L, {"OPT"})
        BY <1>2, <3>1, <4>1, <4>2 DEF PlacesOf
      <4>4. QED  BY <1>1, <4>2, <4>3 DEF Says
    <3>3. QED  BY <3>2
  <2>3. e.type = "TSIG" => k = c
    <3>1. SUFFICES ASSUME e.type = "TSIG" PROVE k = c
      OBVIOUS
    <3>2. i \in PlacesOf(L, {"TSIG"})
      BY <1>2, <3>1 DEF PlacesOf
    <3>3. i = Len(L)
      BY <1>1, <3>2 DEF Says
    <3>4. PICK p \in Nat : DataAt(e, K, wire, p)
      BY <1>3 DEF EntryAt
    <3>5. s = 4
      BY <1>2, <3>1, <3>4 DEF DataAt
    <3>6. QED  BY <1>2, <3>3, <3>5
  <2>4. TurnReads(r, t, e, part)
    <3>1. CASE s = 1
      <4>1. t = ReadQuestion(r, part)
        BY <2>1, <3>1 DEF TurnOf, SectionTurn
      <4> HIDE DEF e, t
      <4>2. QED  BY <1>1, <1>2, <1>3, <1>5, <2>1, <3>1, <4>1, QuestionRead
    <3>2. CASE s # 1
      <4>1. t = RecordTurn(r, part, s, k, c)
        BY <2>1, <3>2 DEF TurnOf, SectionTurn, RecordTurn
      <4> HIDE DEF e, t, c
      <4>2. e.sec # 1 /\ e.from # 0 /\ s = e.sec
        BY <1>2, <1>3, <3>2
      <4>3. TurnReads(r, RecordTurn(r, part, e.sec, k, c), e, part)
        BY <1>1, <1>3, <1>5, <2>1, <2>2, <2>3, <4>2, RecordRead
      <4>4. QED  BY <4>1, <4>2, <4>3
    <3>3. QED  BY <3>1, <3>2
  <2> HIDE DEF t, e
  <2>5. ASSUME NEW kinds
        PROVE  HeldBy(L, i, kinds) = HeldBy(L, i - 1, kinds) \cup (IF e.type \in kinds THEN {i} ELSE {})
    BY <1>4, OneHeldMore DEF e
  <2>6. t \in Readers
    BY <2>4 DEF TurnReads
  <2>7. CASE ~(e.to <= Len(part))
    <3>1. t.error = "FormError"
      BY <2>4, <2>7 DEF TurnReads
    <3>2. ReadSoFar(t, L, part, i)
      BY <1>3, <2>6, <2>7, <3>1 DEF ReadSoFar
    <3>3. QED  BY <3>2 DEF t, i, c
  <2>8. CASE e.to <= Len(part)
    <3>1. /\ t.error = "none" /\ t.at = e.to
          /\ Records(t.rrsets) = Records(r.rrsets) \cup (IF e.type \in {"A", "NS"} THEN {Rec(e)} ELSE {})
          /\ t.opt = (IF e.type = "OPT" THEN TRUE ELSE r.opt)
          /\ t.tsig = (IF e.type = "TSIG" THEN TRUE ELSE r.tsig)
      BY <2>4, <2>8 DEF TurnReads
    <3>2. Records(t.rrsets) = {Rec(L[j]) : j \in HeldBy(L, i, {"A", "NS"})}
      <4> DEFINE H == HeldBy(L, i - 1, {"A", "NS"})
                 G == HeldBy(L, i, {"A", "NS"})
      <4>1. G = H \cup (IF e.type \in {"A", "NS"} THEN {i} ELSE {})
        BY <2>5
      <4>2. Records(r.rrsets) = {Rec(L[j]) : j \in H}
        BY <2>1
      <4> HIDE DEF H, G
      <4>3. CASE e.type \in {"A", "NS"}
        <5>1. G = H \cup {i} /\ Records(t.rrsets) = {Rec(L[j]) : j \in H} \cup {Rec(L[i])}
          BY <3>1, <4>1, <4>2, <4>3 DEF e
        <5>2. {Rec(L[j]) : j \in H \cup {i}} = {Rec(L[j]) : j \in H} \cup {Rec(L[i])}
          OBVIOUS
        <5>3. QED  BY <5>1, <5>2 DEF G
      <4>4. CASE e.type \notin {"A", "NS"}
        <5>1. G = H /\ Records(t.rrsets) = Records(r.rrsets)
          BY <3>1, <4>1, <4>4
        <5>2. QED  BY <4>2, <5>1 DEF G
      <4>5. QED  BY <4>3, <4>4
    <3>3. t.opt = (IF HeldBy(L, i, {"OPT"}) # {} THEN TRUE ELSE FALSE)
      <4>1. HeldBy(L, i, {"OPT"}) = HeldBy(L, i - 1, {"OPT"}) \cup (IF e.type = "OPT" THEN {i} ELSE {})
        BY <2>5
      <4>2. QED  BY <2>1, <3>1, <4>1
    <3>4. t.tsig = (IF HeldBy(L, i, {"TSIG"}) # {} THEN TRUE ELSE FALSE)
      <4>1. HeldBy(L, i, {"TSIG"}) = HeldBy(L, i - 1, {"TSIG"}) \cup (IF e.type = "TSIG" THEN {i} ELSE {})
        BY <2>5
      <4>2. QED  BY <2>1, <3>1, <4>1
    <3>5. ReadSoFar(t, L, part, i)
      BY <1>3, <2>6, <2>8, <3>1, <3>2, <3>3, <3>4 DEF ReadSoFar
    <3>6. QED  BY <3>5 DEF t, i, c
  <2>9. QED  BY <2>7, <2>8
<1>8. QED  BY <1>6, <1>7

LEMMA SectionIsRead ==
  ASSUME NEW K, NEW L, NEW wire, NEW cnt, NEW acc, NEW extra, FinalBy(K, L, wire, cnt, acc, extra),
         NEW part \in Seq(Cells), PartOf(part, wire), Len(part) # 0,
         NEW s \in 1..4, NEW r, ReadSoFar(r, L, part, Upto(cnt, s - 1))
  PROVE  ReadSoFar(ReadSection(r, part, s), L, part, Upto(cnt, s))
<1> DEFINE c == cnt[s]
           u == Upto(cnt, s - 1)
           f == SectionTurns(r, part, s, c)
           Good(k) == ReadSoFar(f[k], L, part, u + k)
           N == {k \in Nat : k <= c => Good(k)}
<1>1. cnt \in [1..4 -> Nat] /\ c \in Nat /\ wire[1] = <<"header", cnt>>
  BY DEF FinalBy, WrittenAs
<1>2. part[1] = wire[1] /\ part[1][2][s] = c
  <2>1. 1 \in 1..Len(part)
    BY DEF PartOf
  <2>2. QED  BY <1>1, <2>1 DEF PartOf
<1>3. ReadSection(r, part, s) = f[c]
  BY <1>2 DEF ReadSection
<1>4. u \in Nat /\ Upto(cnt, s) = u + c
  <2>1. s - 1 \in 0..4 /\ s \in 1..4
    OBVIOUS
  <2>2. QED  BY <1>1, <2>1, UptoFacts
<1>5. IsTurns(f, r, part, s, c, c)
  BY <1>1, SectionTurnsAre
<1> HIDE DEF f, u
<1>6. f[0] = r /\ \A k \in 1..c : f[k] = TurnOf(f[k - 1], part, s, k, c)
  <2> HIDE DEF c
  <2>1. 0 \in 0..c /\ \A k \in 1..c : k \in 0..c /\ k # 0
    BY <1>1
  <2>2. \A k \in 0..c : f[k] = IF k = 0 THEN r ELSE TurnOf(f[k - 1], part, s, k, c)
    BY <1>5 DEF IsTurns
  <2>3. QED  BY <2>1, <2>2
<1>7. Good(0)
  <2>1. u + 0 = u
    BY <1>4
  <2>2. ReadSoFar(r, L, part, u)
    BY DEF u
  <2>3. QED  BY <1>6, <2>1, <2>2
<1>8. ASSUME NEW k \in Nat, k + 1 \in 1..c, Good(k) PROVE Good(k + 1)
  <2> DEFINE j == k + 1
             d == f[k]
  <2>1. j \in 1..c /\ j - 1 = k /\ u + j - 1 = u + k
    BY <1>4, <1>8
  <2>2. ReadSoFar(d, L, part, u + j - 1)
    BY <1>8, <2>1
  <2>3. f[j] = TurnOf(d, part, s, j, c)
    BY <1>6, <2>1
  <2> HIDE DEF d, j
  <2>4. ReadSoFar(TurnOf(d, part, s, j, cnt[s]), L, part, Upto(cnt, s - 1) + j)
    <3>1. j \in 1..cnt[s] /\ ReadSoFar(d, L, part, Upto(cnt, s - 1) + j - 1)
      BY <2>1, <2>2 DEF u
    <3>2. QED  BY <3>1, TurnIsRead
  <2>5. Good(j)
    BY <2>3, <2>4 DEF u
  <2>6. QED  BY <2>5 DEF j
<1> HIDE DEF c
<1>9. N = Nat
  <2> HIDE DEF Good
  <2>1. 0 \in N
    BY <1>7
  <2>2. ASSUME NEW i \in N PROVE i + 1 \in N
    <3>1. i \in Nat /\ i + 1 \in Nat /\ (i + 1 <= c => i <= c /\ i + 1 \in 1..c)
      BY <1>1
    <3>2. QED  BY <1>8, <3>1
  <2>3. N \in SUBSET Nat
    OBVIOUS
  <2> HIDE DEF N
  <2>4. QED  BY <2>1, <2>2, <2>3, SetInduction
<1>10. Good(c)
  <2> HIDE DEF Good
  <2>1. QED  BY <1>1, <1>9
<1>11. QED  BY <1>3, <1>4, <1>10

\* A whole message comes back, and a cut one is noticed.
MessageRead(o, acc, extra) ==
    /\ o.error = "none" /\ Records(o.rrsets) = acc
    /\ o.opt = (IF "OPT" \in extra THEN TRUE ELSE FALSE)
    /\ o.tsig = (IF "TSIG" \in extra THEN TRUE ELSE FALSE)

\* The sections, one after the other.
ReaderStart == [error |-> "none", rrsets |-> << >>, opt |-> FALSE, tsig |-> FALSE, at |-> HeaderSize]
AreSections(f, part) == f = [s \in 0..4 |-> IF s = 0 THEN ReaderStart ELSE ReadSection(f[s - 1], part, s)]

LEMMA SectionsReadAre ==
  ASSUME NEW part
  PROVE  SectionsRead(part) = CHOOSE f : AreSections(f, part)
BY DEF SectionsRead, AreSections, ReaderStart

LEMMA SectionsInTurn ==
  ASSUME NEW part
  PROVE  LET r == SectionsRead(part)
         IN  /\ r[0] = ReaderStart
             /\ r[1] = ReadSection(r[0], part, 1)
             /\ r[2] = ReadSection(r[1], part, 2)
             /\ r[3] = ReadSection(r[2], part, 3)
             /\ r[4] = ReadSection(r[3], part, 4)
<1> DEFINE r1 == ReadSection(ReaderStart, part, 1)
           r2 == ReadSection(r1, part, 2)
           r3 == ReadSection(r2, part, 3)
           r4 == ReadSection(r3, part, 4)
           f == [s \in 0..4 |-> CASE s = 0 -> ReaderStart [] s = 1 -> r1 [] s = 2 -> r2 [] s = 3 -> r3 [] OTHER -> r4]
           h == [s \in 0..4 |-> IF s = 0 THEN ReaderStart ELSE ReadSection(f[s - 1], part, s)]
           g == SectionsRead(part)
<1>1. AreSections(f, part)
  <2> HIDE DEF r4
  <2>1. f[0] = ReaderStart /\ f[1] = r1 /\ f[2] = r2 /\ f[3] = r3 /\ f[4] = r4
    <3> HIDE DEF r1, r2, r3
    <3>1. QED  OBVIOUS
  <2>2. DOMAIN f = 0..4 /\ DOMAIN h = 0..4
    OBVIOUS
  <2> HIDE DEF f
  <2>3. h[0] = ReaderStart
    OBVIOUS
  <2>4. ASSUME NEW s \in 1..4 PROVE h[s] = ReadSection(f[s - 1], part, s)
    OBVIOUS
  <2>5. h[1] = ReadSection(f[0], part, 1) /\ h[2] = ReadSection(f[1], part, 2)
        /\ h[3] = ReadSection(f[2], part, 3) /\ h[4] = ReadSection(f[3], part, 4)
    <3>1. 1 \in 1..4 /\ 2 \in 1..4 /\ 3 \in 1..4 /\ 4 \in 1..4 /\ 1 - 1 = 0 /\ 2 - 1 = 1 /\ 3 - 1 = 2 /\ 4 - 1 = 3
      OBVIOUS
    <3> HIDE DEF h
    <3>2. QED  BY <2>4, <3>1
  <2>6. f[0] = h[0] /\ f[1] = h[1] /\ f[2] = h[2] /\ f[3] = h[3] /\ f[4] = h[4]
    BY <2>1, <2>3, <2>5 DEF r4
  <2>7. f = [s \in 0..4 |-> f[s]]
    BY DEF f
  <2>8. h = [s \in 0..4 |-> h[s]]
    OBVIOUS
  <2> HIDE DEF h
  <2>9. \A s \in 0..4 : f[s] = h[s]
    <3>1. \A s \in 0..4 : s = 0 \/ s = 1 \/ s = 2 \/ s = 3 \/ s = 4
      OBVIOUS
    <3>2. QED  BY <2>6, <3>1
  <2>10. f = h
    BY <2>7, <2>8, <2>9
  <2>11. QED  BY <2>10 DEF AreSections, h
<1> HIDE DEF f, h
<1>2. AreSections(g, part)
  BY <1>1, SectionsReadAre
<1> HIDE DEF g
<1>3. ASSUME NEW s \in 0..4 PROVE g[s] = IF s = 0 THEN ReaderStart ELSE ReadSection(g[s - 1], part, s)
  BY <1>2 DEF AreSections
<1>4. /\ 0 \in 0..4 /\ 1 \in 0..4 /\ 2 \in 0..4 /\ 3 \in 0..4 /\ 4 \in 0..4
      /\ 1 - 1 = 0 /\ 2 - 1 = 1 /\ 3 - 1 = 2 /\ 4 - 1 = 3
  OBVIOUS
<1>5. /\ g[0] = ReaderStart
      /\ g[1] = ReadSection(g[0], part, 1)
      /\ g[2] = ReadSection(g[1], part, 2)
      /\ g[3] = ReadSection(g[2], part, 3)
      /\ g[4] = ReadSection(g[3], part, 4)
  BY <1>3, <1>4
<1>6. QED  BY <1>5 DEF g

LEMMA MessageIsRead ==
  ASSUME NEW wire, NEW cnt, NEW acc, NEW extra, Final(wire, cnt, acc, extra),
         NEW part \in Seq(Cells), PartOf(part, wire)
  PROVE  /\ Len(part) = Len(wire) => MessageRead(FromWire(part), acc, extra)
         /\ Len(part) # Len(wire) => FromWire(part).error # "none"
<1> DEFINE start == [error |-> "none", rrsets |-> << >>, opt |-> FALSE, tsig |-> FALSE, at |-> HeaderSize]
           read == SectionsRead(part)
           r1 == read[1]
           r2 == read[2]
           r3 == read[3]
           r4 == read[4]
           o == FromWire(part)
<1>0. /\ r1 = ReadSection(start, part, 1)
      /\ r2 = ReadSection(r1, part, 2)
      /\ r3 = ReadSection(r2, part, 3)
      /\ r4 = ReadSection(r3, part, 4)
  BY SectionsInTurn DEF ReaderStart
<1> HIDE DEF read
<1>1. PICK K, L : FinalBy(K, L, wire, cnt, acc, extra)
  BY DEF Final
<1>2. /\ L \in Seq(Entries) /\ Len(L) \in Nat /\ cnt \in [1..4 -> Nat] /\ InOrder(L, cnt)
      /\ Len(wire) = EndOf(L, Len(L)) /\ Says(L, acc, extra) /\ wire \in Seq(Cells)
  BY <1>1, LenProperties DEF FinalBy, WrittenAs
<1>3. Len(part) \in Nat /\ Len(part) <= Len(wire) /\ Len(wire) \in Nat
  BY <1>2, LenProperties DEF PartOf
<1>4. Len(wire) # 0
  <2>1. CASE Len(L) = 0
    BY <1>2, <2>1 DEF EndOf, HeaderSize
  <2>2. CASE Len(L) # 0
    <3>1. Len(L) \in 1..Len(L)
      BY <1>2, <2>2
    <3>2. EndOf(L, Len(L)) = L[Len(L)].to /\ L[Len(L)].from < L[Len(L)].to /\ L[Len(L)].from \in Nat \ {0} /\ L[Len(L)].to \in Nat
      BY <1>1, <3>1, LogPlaces
    <3>3. QED  BY <1>2, <3>2
  <2>3. QED  BY <2>1, <2>2
<1>5. CASE Len(part) = 0
  <2>1. part = << >>
    BY <1>5, EmptySeq
  <2>2. o.error = "FormError"
    BY <2>1 DEF FromWire, NoOutcome
  <2>3. QED  BY <1>4, <1>5, <2>2
<1>6. CASE Len(part) # 0
  <2>1. part # << >>
    BY <1>6
  <2>2. /\ o.error = (IF r4.error = "none" /\ r4.at # Len(part) THEN "TrailingJunk" ELSE r4.error)
        /\ o.rrsets = r4.rrsets /\ o.opt = r4.opt /\ o.tsig = r4.tsig
    BY <2>1 DEF FromWire, read
  <2>3. ReadSoFar(start, L, part, Upto(cnt, 0))
    <3>1. Upto(cnt, 0) = 0 /\ EndOf(L, 0) = 1 /\ HeaderSize = 1
      BY DEF Upto, EndOf, HeaderSize
    <3>2. ASSUME NEW kinds PROVE HeldBy(L, 0, kinds) = {}
      BY DEF HeldBy
    <3>3. Records(<< >>) = {}
      BY DEF Records
    <3>4. start \in Readers
      BY <3>1, EmptySeq DEF Readers
    <3>5. start.error = "none" /\ start.at = 1 /\ start.rrsets = << >> /\ start.opt = FALSE /\ start.tsig = FALSE
      BY <3>1
    <3> HIDE DEF start
    <3>6. 1 <= Len(part)
      BY <1>3, <1>6
    <3>7. Records(start.rrsets) = {Rec(L[j]) : j \in HeldBy(L, 0, {"A", "NS"})}
      BY <3>2, <3>3, <3>5
    <3>8. ReadSoFar(start, L, part, 0)
      BY <3>1, <3>2, <3>4, <3>5, <3>6, <3>7 DEF ReadSoFar
    <3>9. QED  BY <3>1, <3>8
  <2> HIDE DEF start, o, r1, r2, r3, r4
  <2>4. 1 \in 1..4 /\ 2 \in 1..4 /\ 3 \in 1..4 /\ 4 \in 1..4 /\ 1 - 1 = 0 /\ 2 - 1 = 1 /\ 3 - 1 = 2 /\ 4 - 1 = 3
    OBVIOUS
  <2>5. ReadSoFar(r1, L, part, Upto(cnt, 1))
    BY <1>0, <1>1, <1>6, <2>3, <2>4, SectionIsRead
  <2>6. ReadSoFar(r2, L, part, Upto(cnt, 2))
    BY <1>0, <1>1, <1>6, <2>4, <2>5, SectionIsRead
  <2>7. ReadSoFar(r3, L, part, Upto(cnt, 3))
    BY <1>0, <1>1, <1>6, <2>4, <2>6, SectionIsRead
  <2>8. ReadSoFar(r4, L, part, Len(L))
    <3>1. ReadSoFar(r4, L, part, Upto(cnt, 4))
      BY <1>0, <1>1, <1>6, <2>4, <2>7, SectionIsRead
    <3>2. Len(L) = Upto(cnt, 4)
      BY <1>2 DEF InOrder
    <3>3. QED  BY <3>1, <3>2
  <2>9. CASE Len(part) = Len(wire)
    <3>1. ASSUME NEW kinds PROVE HeldBy(L, Len(L), kinds) = PlacesOf(L, kinds)
      BY DEF HeldBy, PlacesOf
    <3>2. EndOf(L, Len(L)) <= Len(part) /\ EndOf(L, Len(L)) = Len(part)
      BY <1>2, <1>3, <2>9
    <3>3. /\ r4.error = "none" /\ r4.at = Len(part)
          /\ Records(r4.rrsets) = {Rec(L[j]) : j \in PlacesOf(L, {"A", "NS"})}
          /\ r4.opt = (IF PlacesOf(L, {"OPT"}) # {} THEN TRUE ELSE FALSE)
          /\ r4.tsig = (IF PlacesOf(L, {"TSIG"}) # {} THEN TRUE ELSE FALSE)
      BY <2>8, <3>1, <3>2 DEF ReadSoFar
    <3>4. acc = {Rec(L[j]) : j \in PlacesOf(L, {"A", "NS"})}
      BY <1>2 DEF Says, Logged
    <3>5. ("OPT" \in extra <=> PlacesOf(L, {"OPT"}) # {}) /\ ("TSIG" \in extra <=> PlacesOf(L, {"TSIG"}) # {})
      BY <1>2 DEF Says
    <3>6. MessageRead(o, acc, extra)
      BY <2>2, <3>3, <3>4, <3>5 DEF MessageRead
    <3>7. QED  BY <2>9, <3>6 DEF o
  <2>10. CASE Len(part) # Len(wire)
    <3>1. ~(EndOf(L, Len(L)) <= Len(part))
      BY <1>2, <1>3, <2>10
    <3>2. r4.error = "FormError"
      BY <2>8, <3>1 DEF ReadSoFar
    <3>3. QED  BY <2>2, <2>10, <3>2 DEF o
  <2>11. QED  BY <2>9, <2>10
<1>7. QED  BY <1>5, <1>6

-----------------------------------------------------------------------------
\* The invariant, phase by phase.
OptRoom == IF withOpt THEN Len(OptCells) ELSE 0
TsigRoom == IF withTsig THEN TsigSize ELSE 0
OptExtra == IF withOpt THEN {"OPT"} ELSE {}
AllExtra == OptExtra \cup (IF withTsig THEN {"TSIG"} ELSE {})

MessageShape ==
    /\ rendering \in {"idle", "sections", "header", "rendered", "read"}
    /\ withOpt \in BOOLEAN /\ withTsig \in BOOLEAN
    /\ section \in 1..4 /\ counts \in [1..4 -> Nat] /\ LaterEmpty(counts, section)
IdleInv == Sent(Buffer, counts, accepted, {}) /\ Len(output) = HeaderSize
SectionsInv == Sent(Buffer, counts, accepted, {}) /\ reserved = OptRoom + TsigRoom /\ Len(output) + reserved <= MaxSize
HeaderInv == Sent(Buffer, counts, accepted, OptExtra) /\ Len(output) + TsigRoom <= MaxSize
RenderedInv == Final(output, counts, accepted, AllExtra) /\ Len(output) <= MaxSize
ReadInv == IF wholeWire THEN MessageRead(outcome, accepted, AllExtra) ELSE outcome.error # "none"
MessageInv ==
    /\ MessageShape
    /\ rendering = "idle" => IdleInv
    /\ rendering = "sections" => SectionsInv
    /\ rendering = "header" => HeaderInv
    /\ rendering \in {"rendered", "read"} => RenderedInv
    /\ rendering = "read" => ReadInv

LEMMA NothingSent ==
  Sent([wire |-> << <<"header", NoCounts>> >>, table |-> << >>], NoCounts, {}, {})
<1> DEFINE h == <<"header", NoCounts>>
           w == << h >>
           b == [wire |-> w, table |-> << >>]
           L == << >>
<1>1. NoCounts \in [1..4 -> Nat] /\ \A i \in 1..4 : NoCounts[i] = 0
  BY DEF NoCounts
<1>2. h \in Headers /\ h \in PlainCells
  <2>1. h \in Headers
    BY <1>1 DEF Headers
  <2>2. Headers \subseteq PlainCells
    BY DEF Headers, PlainCells
  <2>3. QED  BY <2>1, <2>2
<1> HIDE DEF h
<1>3. w \in Seq(PlainCells) /\ Len(w) = 1 /\ w[1] = h
  BY <1>2
<1> HIDE DEF w
<1>4. BufferOK(b, {})
  <2>1. DOMAIN << >> = {}
    OBVIOUS
  <2>2. IsTable(<< >>)
    BY <2>1 DEF IsTable
  <2>3. Knows(<< >>, {})
    BY <2>1 DEF Knows
  <2>4. MarksOK({}, w)
    BY DEF MarksOK
  <2>5. QED  BY <1>3, <2>2, <2>3, <2>4 DEF BufferOK
<1>5. L \in Seq(Entries) /\ Len(L) = 0 /\ 1..0 = {}
  BY EmptySeq
<1>6. WrittenAs(L, {}, NoCounts, w)
  <2>1. Upto(NoCounts, 4) = 0
    BY <1>1 DEF Upto
  <2>2. InOrder(L, NoCounts)
    BY <1>5, <2>1 DEF InOrder
  <2>3. Len(w) = EndOf(L, Len(L))
    BY <1>3, <1>5 DEF EndOf, HeaderSize
  <2>4. \A i \in 1..Len(L) : EntryAt(L[i], {}, w) /\ L[i].from = EndOf(L, i - 1)
    BY <1>5
  <2> HIDE DEF L
  <2>5. QED  BY <1>1, <1>5, <2>2, <2>3, <2>4 DEF WrittenAs
<1>7. Says(L, {}, {})
  <2>1. ASSUME NEW kinds PROVE PlacesOf(L, kinds) = {}
    BY <1>5 DEF PlacesOf
  <2>2. Logged(L) = {}
    BY <2>1 DEF Logged
  <2> HIDE DEF L
  <2>3. QED  BY <2>1, <2>2 DEF Says
<1> HIDE DEF L
<1>8. SentBy({}, L, b, NoCounts, {}, {})
  <2>1. b.wire = w
    OBVIOUS
  <2> HIDE DEF b
  <2>2. QED  BY <1>2, <1>3, <1>4, <1>6, <1>7, <2>1 DEF SentBy
<1>9. Sent(b, NoCounts, {}, {})
  BY <1>8 DEF Sent
<1>10. QED  BY <1>9 DEF b, w, h

LEMMA MessageInitInv == MessageInit => MessageInv
<1>1. SUFFICES ASSUME MessageInit PROVE MessageInv
  OBVIOUS
<1>2. /\ rendering = "idle" /\ output = << <<"header", NoCounts>> >> /\ compress = << >>
      /\ section = 1 /\ counts = NoCounts /\ withOpt = FALSE /\ withTsig = FALSE /\ accepted = {}
  BY <1>1 DEF MessageInit
<1>3. Sent(Buffer, counts, accepted, {})
  BY <1>2, NothingSent DEF Buffer
<1>4. Len(output) = 1
  BY <1>2
<1>5. IdleInv
  BY <1>3, <1>4 DEF IdleInv, HeaderSize
<1>6. MessageShape
  <2>1. NoCounts \in [1..4 -> Nat] /\ LaterEmpty(NoCounts, 1) /\ 1 \in 1..4
    BY DEF NoCounts, LaterEmpty
  <2>2. QED  BY <1>2, <2>1 DEF MessageShape
<1>7. QED  BY <1>2, <1>5, <1>6 DEF MessageInv

LEMMA Rooms == OptRoom \in Nat /\ TsigRoom \in Nat /\ Len(OptCells) = 3 /\ MaxSize \in Nat /\ OptRoom <= 3 /\ TsigRoom <= 4 /\ 8 <= MaxSize
<1>1. Len(OptCells) = 3 /\ MaxSize \in Nat /\ HeaderSize = 1 /\ TsigSize = 4
  BY MessageAssumption DEF OptCells, HeaderSize, TsigSize
<1>2. HeaderSize + Len(OptCells) + TsigSize <= MaxSize
  BY MessageAssumption
<1>3. 8 <= MaxSize
  BY <1>1, <1>2
<1>4. QED  BY <1>1, <1>3 DEF OptRoom, TsigRoom

LEMMA ReserveKeeps == MessageInv /\ Reserve => MessageInv'
<1>1. SUFFICES ASSUME MessageInv, Reserve PROVE MessageInv'
  OBVIOUS
<1>2. MessageShape /\ IdleInv /\ rendering' = "sections"
  BY <1>1 DEF MessageInv, Reserve
<1>3. MessageShape'
  BY <1>1, <1>2 DEF MessageShape, Reserve
<1>4. SectionsInv'
  <2>1. Sent(Buffer, counts, accepted, {})'
    BY <1>1, <1>2 DEF IdleInv, Reserve, Buffer
  <2>2. reserved' = OptRoom' + TsigRoom'
    BY <1>1 DEF Reserve, OptRoom, TsigRoom
  <2>3. OptRoom' \in Nat /\ TsigRoom' \in Nat /\ OptRoom' <= 3 /\ TsigRoom' <= 4
    BY Rooms DEF OptRoom, TsigRoom, TsigSize
  <2>4. Len(output') = 1
    BY <1>1, <1>2 DEF IdleInv, Reserve, HeaderSize
  <2>5. MaxSize \in Nat /\ 8 <= MaxSize
    BY Rooms
  <2>6. Len(output') + reserved' <= MaxSize
    <3> DEFINE wireLen == Len(output')
               optLen == OptRoom'
               tsigLen == TsigRoom'
    <3>1. wireLen = 1 /\ reserved' = optLen + tsigLen /\ optLen \in Nat /\ tsigLen \in Nat /\ optLen <= 3 /\ tsigLen <= 4
      BY <2>2, <2>3, <2>4
    <3> HIDE DEF wireLen, optLen, tsigLen
    <3>2. wireLen + reserved' <= MaxSize
      BY <3>1, <2>5
    <3>3. QED  BY <3>2 DEF wireLen
  <2>7. QED  BY <2>1, <2>2, <2>6 DEF SectionsInv
<1>5. QED  BY <1>2, <1>3, <1>4 DEF MessageInv

LEMMA AddedOrNot ==
  ASSUME SectionsInv, NEW c, NEW more, NEW told, Extends(Buffer, c), Sent(c, more, told, {}),
         TrackSize(c, RoomLeft),
         counts' = (IF Fits(c) THEN more ELSE counts), accepted' = (IF Fits(c) THEN told ELSE accepted),
         UNCHANGED <<reserved, withOpt, withTsig>>
  PROVE  SectionsInv'
<1>1. Sent(Buffer, counts, accepted, {}) /\ reserved = OptRoom + TsigRoom /\ Len(output) + reserved <= MaxSize
  BY DEF SectionsInv
<1>2. reserved \in Nat /\ MaxSize \in Nat
  BY <1>1, Rooms
<1>3. IF Len(c.wire) > RoomLeft THEN output' = output /\ compress' = compress
      ELSE output' = c.wire /\ compress' = c.table
  BY <1>1, Tracked
<1>4. Len(c.wire) \in Nat /\ c = [wire |-> c.wire, table |-> c.table]
  BY DEF Sent, SentBy, BufferOK, Extends
<1>5. reserved' = OptRoom' + TsigRoom'
  BY <1>1 DEF OptRoom, TsigRoom
<1>6. CASE Fits(c)
  <2>1. ~(Len(c.wire) > RoomLeft) /\ Len(c.wire) <= MaxSize - reserved
    BY <1>2, <1>4, <1>6 DEF Fits, RoomLeft
  <2>2. output' = c.wire /\ compress' = c.table
    BY <1>3, <2>1
  <2>3. Buffer' = c /\ counts' = more /\ accepted' = told
    BY <1>4, <1>6, <2>2 DEF Buffer
  <2>4. Sent(Buffer, counts, accepted, {})'
    BY <2>3
  <2>5. Len(output') + reserved' <= MaxSize
    <3> DEFINE l == Len(c.wire)
    <3>1. l \in Nat /\ l <= MaxSize - reserved /\ Len(output') = l /\ reserved' = reserved
      BY <1>4, <2>1, <2>2
    <3> HIDE DEF l
    <3>2. QED  BY <1>2, <3>1
  <2>6. QED  BY <1>5, <2>4, <2>5 DEF SectionsInv
<1>7. CASE ~Fits(c)
  <2>1. Len(c.wire) > RoomLeft
    BY <1>2, <1>4, <1>7 DEF Fits, RoomLeft
  <2>2. output' = output /\ compress' = compress
    BY <1>3, <2>1
  <2>3. Buffer' = Buffer /\ counts' = counts /\ accepted' = accepted
    BY <1>7, <2>2 DEF Buffer
  <2>4. Sent(Buffer, counts, accepted, {})'
    BY <1>1, <2>3
  <2>5. Len(output') + reserved' <= MaxSize
    BY <1>1, <2>2
  <2>6. QED  BY <1>5, <2>4, <2>5 DEF SectionsInv
<1>8. QED  BY <1>6, <1>7

LEMMA AddQuestionKeeps == MessageInv /\ AddQuestion => MessageInv'
<1>1. SUFFICES ASSUME MessageInv, AddQuestion PROVE MessageInv'
  OBVIOUS
<1>2. MessageShape /\ SectionsInv /\ rendering = "sections" /\ rendering' = "sections" /\ section <= 1 /\ section' = 1
  BY <1>1 DEF MessageInv, AddQuestion, MayAddTo
<1>3. section = 1 /\ LaterEmpty(counts, 1) /\ counts \in [1..4 -> Nat]
  BY <1>2 DEF MessageShape
<1>4. PICK owner \in OwnerNames :
        LET buffer == RecordStart(Buffer, owner, "A")
        IN  /\ TrackSize(buffer, RoomLeft)
            /\ counts' = [counts EXCEPT ![1] = IF Fits(buffer) THEN @ + 1 ELSE @]
            /\ accepted' = IF Fits(buffer) THEN accepted \cup {<<1, owner, "A", << >>>>} ELSE accepted
  BY <1>1 DEF AddQuestion, RecordStart
<1> DEFINE c == RecordStart(Buffer, owner, "A")
           more == CountedIn(counts, 1, 1)
           told == accepted \cup {<<1, owner, "A", << >>>>}
<1>5. Extends(Buffer, c) /\ Sent(c, more, told, {})
  <2>1. owner \in MessageNames
    BY DEF MessageNames
  <2>2. QED  BY <1>2, <1>3, <2>1, QuestionIsSent DEF SectionsInv
<1>6. counts' = IF Fits(c) THEN more ELSE counts
  <2>1. [counts EXCEPT ![1] = counts[1]] = counts
    BY <1>3
  <2>2. Fits(c) => counts' = more
    BY <1>4 DEF CountedIn
  <2>3. ~Fits(c) => counts' = [counts EXCEPT ![1] = counts[1]]
    BY <1>4
  <2> HIDE DEF c, more
  <2>4. QED  BY <2>1, <2>2, <2>3
<1>7. TrackSize(c, RoomLeft) /\ accepted' = IF Fits(c) THEN told ELSE accepted
  BY <1>4
<1>8. UNCHANGED <<reserved, withOpt, withTsig>>
  BY <1>1 DEF AddQuestion
<1>9. more \in [1..4 -> Nat] /\ LaterEmpty(more, 1)
  <2>1. 1 \in 1..4 /\ 1 \in Nat
    OBVIOUS
  <2>2. QED  BY <1>3, <2>1, OneMoreCounted
<1> HIDE DEF c, more, told
<1>10. SectionsInv'
  BY <1>2, <1>5, <1>6, <1>7, <1>8, AddedOrNot
<1>11. MessageShape'
  <2>1. counts' \in [1..4 -> Nat] /\ LaterEmpty(counts', 1)
    BY <1>3, <1>6, <1>9
  <2>2. QED  BY <1>2, <1>8, <2>1 DEF MessageShape
<1>12. QED  BY <1>2, <1>10, <1>11 DEF MessageInv

LEMMA AddRRsetKeeps == MessageInv /\ AddRRset => MessageInv'
<1>1. SUFFICES ASSUME MessageInv, AddRRset PROVE MessageInv'
  OBVIOUS
<1>2. PICK s \in 2..4, owner \in OwnerNames, rds \in RRsets :
        LET buffer == RdatasetToWire(Buffer, owner, rds)
        IN  /\ MayAddTo(s) /\ section' = s
            /\ TrackSize(buffer, RoomLeft)
            /\ counts' = [counts EXCEPT ![s] = IF Fits(buffer) THEN @ + Len(rds) ELSE @]
            /\ accepted' = IF Fits(buffer)
                           THEN accepted \cup {<<s, owner, rd.type, rd.target>> : rd \in ToSet(rds)}
                           ELSE accepted
  BY <1>1 DEF AddRRset
<1>3. MessageShape /\ SectionsInv /\ rendering = "sections" /\ rendering' = "sections" /\ section <= s /\ section' = s
  BY <1>1, <1>2 DEF MessageInv, AddRRset, MayAddTo
<1>4. LaterEmpty(counts, s) /\ counts \in [1..4 -> Nat] /\ s \in 1..4
  <2>1. s \in 1..4 /\ section \in 1..4
    BY <1>3 DEF MessageShape
  <2>2. \A t \in 1..4 : s < t => section < t
    BY <1>3, <2>1
  <2>3. QED  BY <1>3, <2>1, <2>2 DEF MessageShape, LaterEmpty
<1>5. rds \in Seq(Rdatas) /\ Len(rds) \in Nat
  <2>1. PICK n \in 1..MaxRRset : rds \in [1..n -> Rdatas]
    BY DEF RRsets
  <2>2. n \in Nat
    OBVIOUS
  <2>3. QED  BY <2>1, <2>2, SeqDef, LenProperties
<1> DEFINE c == RdatasetToWire(Buffer, owner, rds)
           k == Len(rds)
           more == CountedIn(counts, s, k)
           told == accepted \cup {<<s, owner, rd.type, rd.target>> : rd \in ToSet(rds)}
<1>6. Extends(Buffer, c) /\ Sent(c, more, told, {})
  <2>1. owner \in MessageNames
    BY DEF MessageNames
  <2>2. QED  BY <1>3, <1>4, <1>5, <2>1, RRsetIsSent DEF SectionsInv
<1>7. counts' = IF Fits(c) THEN more ELSE counts
  <2>1. [counts EXCEPT ![s] = counts[s]] = counts
    BY <1>4
  <2>2. Fits(c) => counts' = more
    BY <1>2 DEF CountedIn
  <2>3. ~Fits(c) => counts' = [counts EXCEPT ![s] = counts[s]]
    BY <1>2
  <2> HIDE DEF c, more
  <2>4. QED  BY <2>1, <2>2, <2>3
<1>8. TrackSize(c, RoomLeft) /\ accepted' = IF Fits(c) THEN told ELSE accepted
  BY <1>2
<1>9. UNCHANGED <<reserved, withOpt, withTsig>>
  BY <1>1 DEF AddRRset
<1>10. more \in [1..4 -> Nat] /\ LaterEmpty(more, s)
  <2>1. k \in Nat
    BY <1>5
  <2> HIDE DEF k
  <2>2. QED  BY <1>4, <2>1, OneMoreCounted
<1> HIDE DEF c, more, told
<1>11. SectionsInv'
  BY <1>3, <1>6, <1>7, <1>8, <1>9, AddedOrNot
<1>12. MessageShape'
  <2>1. counts' \in [1..4 -> Nat] /\ LaterEmpty(counts', s)
    BY <1>4, <1>7, <1>10
  <2>2. QED  BY <1>3, <1>4, <1>9, <2>1 DEF MessageShape
<1>13. QED  BY <1>3, <1>11, <1>12 DEF MessageInv

LEMMA AddOptKeeps == MessageInv /\ AddOpt => MessageInv'
<1>1. SUFFICES ASSUME MessageInv, AddOpt PROVE MessageInv'
  OBVIOUS
<1>2. MessageShape /\ SectionsInv /\ rendering = "sections"
  BY <1>1 DEF MessageInv, AddOpt
<1>3. UNCHANGED <<withOpt, withTsig, accepted>>
  BY <1>1 DEF AddOpt
<1>4. /\ Sent(Buffer, counts, accepted, {}) /\ reserved = OptRoom + TsigRoom /\ Len(output) + reserved <= MaxSize
      /\ Len(output) \in Nat
  <2>1. Len(Buffer.wire) \in Nat
    BY <1>2, ExtendsItself DEF SectionsInv
  <2>2. QED  BY <1>2, <2>1 DEF SectionsInv, Buffer
<1>5. counts \in [1..4 -> Nat] /\ section \in 1..4 /\ LaterEmpty(counts, section) /\ LaterEmpty(counts, 4)
  BY <1>2 DEF MessageShape, LaterEmpty
<1>6. CASE withOpt
  <2> DEFINE c == Put(Buffer, OptCells)
             more == CountedIn(counts, 4, 1)
             l == Len(c.wire)
  <2>1. /\ TrackSize(c, MaxSize)
        /\ rendering' = (IF l > MaxSize THEN "TooBig" ELSE "header") /\ section' = 4
        /\ counts' = [counts EXCEPT ![4] = IF l > MaxSize THEN @ ELSE @ + 1]
    BY <1>1, <1>6 DEF AddOpt
  <2>2. /\ Extends(Buffer, c) /\ Sent(c, more, accepted, {} \cup {"OPT"}) /\ l = Len(Buffer.wire) + 3
    BY <1>4, <1>5, OptIsSent
  <2>3. Len(Buffer.wire) = Len(output) /\ OptExtra = {"OPT"} /\ {} \cup {"OPT"} = {"OPT"}
    BY <1>6 DEF Buffer, OptExtra
  <2>4. OptRoom = 3 /\ TsigRoom \in Nat /\ MaxSize \in Nat
    BY <1>6, Rooms DEF OptRoom
  <2>5. l = Len(output) + 3
    BY <2>2, <2>3
  <2> HIDE DEF l
  <2>6. ~(l > MaxSize) /\ l + TsigRoom <= MaxSize
    BY <1>4, <2>4, <2>5
  <2>7. output' = c.wire /\ compress' = c.table
    BY <2>1, <2>6 DEF TrackSize, l
  <2>8. c = [wire |-> c.wire, table |-> c.table]
    BY <2>2 DEF Sent, SentBy, BufferOK
  <2>9. counts' = more /\ rendering' = "header" /\ section' = 4
    BY <2>1, <2>6 DEF CountedIn
  <2>10. more \in [1..4 -> Nat] /\ LaterEmpty(more, 4)
    <3>1. 4 \in 1..4 /\ 1 \in Nat
      OBVIOUS
    <3>2. QED  BY <1>5, <3>1, OneMoreCounted
  <2>11. Sent(c, more, accepted, OptExtra)
    BY <2>2, <2>3
  <2> HIDE DEF c, more
  <2>12. Buffer' = c
    BY <2>7, <2>8 DEF Buffer
  <2>13. HeaderInv'
    <3>1. OptExtra' = OptExtra /\ TsigRoom' = TsigRoom
      BY <1>3 DEF OptExtra, TsigRoom
    <3>2. Sent(Buffer', counts', accepted', OptExtra')
      BY <1>3, <2>9, <2>11, <2>12, <3>1
    <3>3. Len(output') + TsigRoom' <= MaxSize
      BY <2>6, <2>7, <3>1 DEF l
    <3>4. QED  BY <3>2, <3>3 DEF HeaderInv
  <2>14. MessageShape'
    BY <1>2, <1>3, <2>9, <2>10 DEF MessageShape
  <2>15. QED  BY <2>9, <2>13, <2>14 DEF MessageInv
<1>7. CASE ~withOpt
  <2>1. rendering' = "header" /\ UNCHANGED <<output, compress, section, counts>>
    BY <1>1, <1>7 DEF AddOpt
  <2>2. OptExtra' = {} /\ OptRoom = 0 /\ TsigRoom' = TsigRoom
    BY <1>3, <1>7 DEF OptExtra, OptRoom, TsigRoom
  <2>3. TsigRoom \in Nat
    BY Rooms
  <2>4. Len(output) + TsigRoom <= MaxSize
    BY <1>4, <2>2, <2>3
  <2>5. Buffer' = Buffer
    BY <2>1 DEF Buffer
  <2>6. Sent(Buffer', counts', accepted', OptExtra')
    BY <1>3, <1>4, <2>1, <2>2, <2>5
  <2>7. HeaderInv'
    BY <2>1, <2>2, <2>4, <2>6 DEF HeaderInv
  <2>8. MessageShape'
    BY <1>2, <1>3, <2>1 DEF MessageShape
  <2>9. QED  BY <2>1, <2>7, <2>8 DEF MessageInv
<1>8. QED  BY <1>2, <1>6, <1>7 DEF MessageShape

LEMMA WriteHeaderKeeps == MessageInv /\ WriteHeader => MessageInv'
<1>1. SUFFICES ASSUME MessageInv, WriteHeader PROVE MessageInv'
  OBVIOUS
<1> DEFINE headed == WithHeader(output, counts)
           b == [wire |-> headed, table |-> compress]
           signed == Put(NameToWire(b, KeyName), TsigCells(headed))
           more == CountedIn(counts, 4, 1)
<1>2. MessageShape /\ HeaderInv /\ UNCHANGED <<withOpt, withTsig, accepted>>
  BY <1>1 DEF MessageInv, WriteHeader
<1>3. CASE ~withTsig
  <2>1. output' = headed /\ rendering' = "rendered" /\ UNCHANGED <<section, counts>>
    BY <1>1, <1>3 DEF WriteHeader, WithHeader
  <2>2. Sent(b, counts, accepted, OptExtra) /\ b.wire[1] = <<"header", counts>> /\ Len(b.wire) = Len(output) /\ Len(output) \in Nat
    BY <1>2, HeadIsSent DEF HeaderInv, Buffer
  <2>3. Final(b.wire, counts, accepted, OptExtra)
    BY <2>2, SentIsFinal
  <2>4. b.wire = headed
    OBVIOUS
  <2> HIDE DEF b, headed
  <2>5. AllExtra' = OptExtra
    BY <1>2, <1>3 DEF AllExtra, OptExtra
  <2>6. Len(output) <= MaxSize
    <3>1. TsigRoom = 0 /\ Len(output) + TsigRoom <= MaxSize
      BY <1>2, <1>3 DEF TsigRoom, HeaderInv
    <3>2. QED  BY <2>2, <3>1
  <2>7. RenderedInv'
    BY <1>2, <2>1, <2>2, <2>3, <2>4, <2>5, <2>6 DEF RenderedInv
  <2>8. MessageShape'
    BY <1>2, <2>1 DEF MessageShape
  <2>9. QED  BY <2>1, <2>7, <2>8 DEF MessageInv
<1>4. CASE withTsig
  <2>1. Sent(b, counts, accepted, OptExtra) /\ b.wire[1] = <<"header", counts>> /\ Len(b.wire) = Len(output) /\ Len(output) \in Nat
    BY <1>2, HeadIsSent DEF HeaderInv, Buffer
  <2>2. b.wire = headed
    OBVIOUS
  <2>3. signed.wire = NameToWire(b, KeyName).wire \o TsigCells(b.wire)
    BY <2>2 DEF Put, NameToWire
  <2>4. /\ Final(Signed(b, counts), more, accepted, OptExtra \cup {"TSIG"})
        /\ Len(Signed(b, counts)) = Len(signed.wire) /\ Len(Signed(b, counts)) <= Len(output) + 4
        /\ Len(Signed(b, counts)) \in Nat
    <3> HIDE DEF b, signed, more
    <3>1. /\ Final(Signed(b, counts), CountedIn(counts, 4, 1), accepted, OptExtra \cup {"TSIG"})
          /\ Len(Signed(b, counts)) = Len(NameToWire(b, KeyName).wire \o TsigCells(b.wire))
          /\ Len(Signed(b, counts)) <= Len(b.wire) + 4 /\ Len(Signed(b, counts)) \in Nat
      BY <2>1, TsigIsFinal
    <3>2. QED  BY <2>1, <2>3, <3>1 DEF more
  <2>5. Len(output) + 4 <= MaxSize /\ MaxSize \in Nat
    BY <1>2, <1>4, Rooms DEF TsigRoom, TsigSize, HeaderInv
  <2>6. ~(Len(signed.wire) > MaxSize) /\ Len(Signed(b, counts)) <= MaxSize
    <3> DEFINE x == Len(signed.wire)
               y == Len(Signed(b, counts))
               z == Len(output)
    <3>1. x = y /\ y <= z + 4 /\ y \in Nat /\ z + 4 <= MaxSize /\ MaxSize \in Nat /\ z \in Nat
      BY <2>1, <2>4, <2>5
    <3> HIDE DEF x, y, z
    <3>2. ~(x > MaxSize) /\ y <= MaxSize
      BY <3>1
    <3>3. QED  BY <3>2 DEF x, y
  <2>7. counts' = more /\ section' = 4 /\ output' = WithHeader(signed.wire, counts') /\ rendering' = "rendered"
    BY <1>1, <1>4, <2>6 DEF WriteHeader, WithHeader, CountedIn
  <2>8. output' = Signed(b, counts)
    BY <2>3, <2>7 DEF Signed
  <2> HIDE DEF b, headed, signed
  <2>9. AllExtra' = OptExtra \cup {"TSIG"}
    BY <1>2, <1>4 DEF AllExtra, OptExtra
  <2>10. more \in [1..4 -> Nat] /\ LaterEmpty(more, 4)
    BY <1>2 DEF MessageShape, CountedIn, LaterEmpty
  <2> HIDE DEF more
  <2>11. RenderedInv'
    BY <1>2, <2>4, <2>6, <2>7, <2>8, <2>9 DEF RenderedInv
  <2>12. MessageShape'
    BY <1>2, <2>7, <2>10 DEF MessageShape
  <2>13. QED  BY <2>7, <2>11, <2>12 DEF MessageInv
<1>5. QED  BY <1>2, <1>3, <1>4 DEF MessageShape

LEMMA ReadKeeps == MessageInv /\ Read => MessageInv'
<1>1. SUFFICES ASSUME MessageInv, Read PROVE MessageInv'
  OBVIOUS
<1>2. MessageShape /\ RenderedInv /\ rendering' = "read"
  BY <1>1 DEF MessageInv, Read
<1>3. UNCHANGED <<output, section, counts, withOpt, withTsig, accepted>>
  BY <1>1 DEF Read
<1>4. PICK n \in 0..Len(output) : outcome' = FromWire(SubSeq(output, 1, n)) /\ wholeWire' = (n = Len(output))
  BY <1>1 DEF Read
<1> DEFINE part == SubSeq(output, 1, n)
<1>5. output \in Seq(Cells) /\ Final(output, counts, accepted, AllExtra)
  BY <1>2 DEF RenderedInv, Final, FinalBy
<1>6. Len(output) \in Nat /\ n \in Nat /\ n <= Len(output)
  BY <1>5, LenProperties
<1>7. part \in Seq(Cells) /\ Len(part) = n /\ PartOf(part, output)
  <2>1. 1 \in Nat \ {0} /\ 1 <= n + 1 /\ n - 1 + 1 = n /\ \A i \in 1..n : 1 + i - 1 = i
    BY <1>6
  <2>2. part \in Seq(Cells) /\ Len(part) = n - 1 + 1 /\ \A i \in 1..(n - 1 + 1) : part[i] = output[1 + i - 1]
    BY <1>5, <1>6, <2>1, SubSeqFacts
  <2> HIDE DEF part
  <2>3. Len(part) = n /\ \A i \in 1..n : part[i] = output[i]
    BY <2>1, <2>2
  <2>4. QED  BY <1>6, <2>2, <2>3 DEF PartOf
<1> HIDE DEF part
<1>8. /\ Len(part) = Len(output) => MessageRead(FromWire(part), accepted, AllExtra)
      /\ Len(part) # Len(output) => FromWire(part).error # "none"
  BY <1>5, <1>7, MessageIsRead
<1>9. ReadInv'
  <2>1. AllExtra' = AllExtra
    BY <1>3 DEF AllExtra, OptExtra
  <2>2. outcome' = FromWire(part)
    BY <1>4 DEF part
  <2>3. CASE n = Len(output)
    <3>1. MessageRead(outcome', accepted', AllExtra')
      BY <1>3, <1>7, <1>8, <2>1, <2>2, <2>3
    <3>2. wholeWire'
      BY <1>4, <2>3
    <3>3. QED  BY <3>1, <3>2 DEF ReadInv
  <2>4. CASE n # Len(output)
    <3>1. outcome'.error # "none"
      BY <1>7, <1>8, <2>2, <2>4
    <3>2. ~wholeWire'
      BY <1>4, <2>4
    <3>3. QED  BY <3>1, <3>2 DEF ReadInv
  <2>5. QED  BY <2>3, <2>4
<1>10. RenderedInv'
  <2>1. AllExtra' = AllExtra
    BY <1>3 DEF AllExtra, OptExtra
  <2>2. QED  BY <1>2, <1>3, <2>1 DEF RenderedInv
<1>11. MessageShape'
  BY <1>2, <1>3 DEF MessageShape
<1>12. QED  BY <1>2, <1>9, <1>10, <1>11 DEF MessageInv

LEMMA MessageStutter == MessageInv /\ UNCHANGED messageVars => MessageInv'
<1>1. SUFFICES ASSUME MessageInv, UNCHANGED messageVars PROVE MessageInv'
  OBVIOUS
<1>2. MessageShape' = MessageShape /\ rendering' = rendering
  BY <1>1 DEF messageVars, MessageShape
<1>3. /\ OptExtra' = OptExtra /\ AllExtra' = AllExtra /\ OptRoom' = OptRoom /\ TsigRoom' = TsigRoom /\ Buffer' = Buffer
      /\ output' = output /\ counts' = counts /\ accepted' = accepted /\ reserved' = reserved
      /\ wholeWire' = wholeWire /\ outcome' = outcome
  BY <1>1 DEF messageVars, OptExtra, AllExtra, OptRoom, TsigRoom, Buffer
<1>4. IdleInv => IdleInv'
  BY <1>3 DEF IdleInv
<1>5. SectionsInv => SectionsInv'
  BY <1>3 DEF SectionsInv
<1>6. HeaderInv => HeaderInv'
  BY <1>3 DEF HeaderInv
<1>7. RenderedInv => RenderedInv'
  BY <1>3 DEF RenderedInv
<1>8. ReadInv => ReadInv'
  BY <1>3 DEF ReadInv
<1>9. QED  BY <1>1, <1>2, <1>4, <1>5, <1>6, <1>7, <1>8 DEF MessageInv

LEMMA MessageInvSound == MessageInv => MessageSound
<1>1. SUFFICES ASSUME MessageInv PROVE MessageSound
  OBVIOUS
<1>2. MessageShape
  BY <1>1 DEF MessageInv
<1>3. Len(output) <= MaxSize
  <2>1. CASE rendering = "idle"
    <3>1. Len(output) = 1
      BY <1>1, <2>1 DEF MessageInv, IdleInv, HeaderSize
    <3>2. QED  BY <3>1, Rooms
  <2>2. CASE rendering = "sections"
    <3>1. SectionsInv
      BY <1>1, <2>2 DEF MessageInv
    <3>2. reserved \in Nat /\ Len(output) + reserved <= MaxSize /\ MaxSize \in Nat
      BY <3>1, Rooms DEF SectionsInv
    <3>3. Len(Buffer.wire) \in Nat
      BY <3>1, ExtendsItself DEF SectionsInv
    <3>4. Len(output) \in Nat
      BY <3>3 DEF Buffer
    <3>5. QED  BY <3>2, <3>4
  <2>3. CASE rendering = "header"
    <3>1. HeaderInv
      BY <1>1, <2>3 DEF MessageInv
    <3>2. TsigRoom \in Nat /\ Len(output) + TsigRoom <= MaxSize /\ MaxSize \in Nat
      BY <3>1, Rooms DEF HeaderInv
    <3>3. Len(Buffer.wire) \in Nat
      BY <3>1, ExtendsItself DEF HeaderInv
    <3>4. Len(output) \in Nat
      BY <3>3 DEF Buffer
    <3>5. QED  BY <3>2, <3>4
  <2>4. CASE rendering \in {"rendered", "read"}
    BY <1>1, <2>4 DEF MessageInv, RenderedInv
  <2>5. QED  BY <1>2, <2>1, <2>2, <2>3, <2>4 DEF MessageShape
<1>4. rendering # "TooBig"
  BY <1>2 DEF MessageShape
<1>5. ASSUME rendering = "read"
      PROVE  IF wholeWire
             THEN /\ outcome.error = "none"
                  /\ Records(outcome.rrsets) = accepted
                  /\ outcome.opt = withOpt /\ outcome.tsig = withTsig
             ELSE outcome.error # "none"
  <2>1. ReadInv
    BY <1>1, <1>5 DEF MessageInv
  <2>2. CASE wholeWire
    <3>1. MessageRead(outcome, accepted, AllExtra)
      BY <2>1, <2>2 DEF ReadInv
    <3>2. outcome.opt = (IF "OPT" \in AllExtra THEN TRUE ELSE FALSE) /\ outcome.tsig = (IF "TSIG" \in AllExtra THEN TRUE ELSE FALSE)
      BY <3>1 DEF MessageRead
    <3>3. (withOpt = TRUE \/ withOpt = FALSE) /\ (withTsig = TRUE \/ withTsig = FALSE)
      BY <1>2 DEF MessageShape
    <3>4. outcome.opt = withOpt
      BY <3>2, <3>3 DEF AllExtra, OptExtra
    <3>5. outcome.tsig = withTsig
      BY <3>2, <3>3 DEF AllExtra, OptExtra
    <3>6. QED  BY <2>2, <3>1, <3>4, <3>5 DEF MessageRead
  <2>3. CASE ~wholeWire
    BY <2>1, <2>3 DEF ReadInv
  <2>4. QED  BY <2>2, <2>3
<1>6. QED  BY <1>3, <1>4, <1>5 DEF MessageSound

\* Whatever has been added, refused as too big and compressed before it, the
\* other end reads exactly the records that were taken, with the OPT and the
\* TSIG record, for which the room reserved by to_wire() always suffices; and
\* no part of a message that was cut short is taken for the message.
THEOREM MessagesComeBack == MessageSpec => []MessageSound
<1>1. MessageInit => MessageInv
  BY MessageInitInv
<1>2. MessageInv /\ [MessageNext]_messageVars => MessageInv'
  <2>1. SUFFICES ASSUME MessageInv, [MessageNext]_messageVars PROVE MessageInv'
    OBVIOUS
  <2>2. CASE UNCHANGED messageVars
    BY <2>1, <2>2, MessageStutter
  <2>3. CASE Reserve
    BY <2>1, <2>3, ReserveKeeps
  <2>4. CASE AddQuestion
    BY <2>1, <2>4, AddQuestionKeeps
  <2>5. CASE AddRRset
    BY <2>1, <2>5, AddRRsetKeeps
  <2>6. CASE AddOpt
    BY <2>1, <2>6, AddOptKeeps
  <2>7. CASE WriteHeader
    BY <2>1, <2>7, WriteHeaderKeeps
  <2>8. CASE Read
    BY <2>1, <2>8, ReadKeeps
  <2>9. QED  BY <2>1, <2>2, <2>3, <2>4, <2>5, <2>6, <2>7, <2>8 DEF MessageNext
<1>3. MessageInv => MessageSound
  BY MessageInvSound
<1>4. QED  BY <1>1, <1>2, <1>3, PTL DEF MessageSpec

=============================================================================
