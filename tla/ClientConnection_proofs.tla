---------------------- MODULE ClientConnection_proofs ----------------------
(***************************************************************************)
(* Theorems about the parts of ClientConnection, for any senders, peers,   *)
(* limits, TTL, heads and number of bytes: the UDP association, the relay, *)
(* the SOCKS5 and the HTTP handler.  The last ones say that the            *)
(* composition keeps what each part promises.                              *)
(***************************************************************************)
EXTENDS ClientConnection, SequenceTheorems, FiniteSetTheorems, WellFoundedInduction, TLAPS

-----------------------------------------------------------------------------
(* Induction and folds.  The library's operators (MapThenSumSet, FoldLeft) *)
(* are defined by recursion with CHOOSE: that there is what is chosen has  *)
(* to be proved, by induction on the size of what is folded.               *)

\* A set of naturals that has 0 and with each number the next has all of them.
LEMMA SetInduction ==
    ASSUME NEW S \in SUBSET Nat, 0 \in S, \A n \in S : n + 1 \in S
    PROVE  S = Nat
<1>1. SUFFICES ASSUME Nat \ S # {} PROVE FALSE
  OBVIOUS
<1>2. PICK m \in Nat \ S : \A k \in Nat \ S : ~(<<k, m>> \in OpToRel(<, Nat))
  BY <1>1, NatLessThanWellFounded, WFMin
<1>3. m # 0 /\ m - 1 \in Nat /\ m - 1 < m /\ (m - 1) + 1 = m
  OBVIOUS
<1>4. <<m - 1, m>> \in OpToRel(<, Nat)
  BY <1>3 DEF OpToRel
<1>5. m - 1 \in S
  BY <1>2, <1>3, <1>4
<1>6. QED  BY <1>3, <1>5

\* A fold over a finite set, which the library's operators define by recursion,
\* exists whatever is folded.
IsFold(g, S, base, pick, step) ==
    g = [T \in SUBSET S |-> IF T = {} THEN base ELSE step[<<g[T \ {pick[T]}], pick[T]>>]]

LEMMA FoldExists ==
    ASSUME NEW S, IsFiniteSet(S), NEW X, NEW base \in X, NEW pick,
           \A T \in SUBSET S : T # {} => pick[T] \in T,
           NEW step \in [X \X S -> X]
    PROVE  \E g \in [SUBSET S -> X] : IsFold(g, S, base, pick, step)
<1> DEFINE Sub(n) == {T \in SUBSET S : Cardinality(T) <= n}
           Val(g, T) == IF T = {} THEN base ELSE step[<<g[T \ {pick[T]}], pick[T]>>]
           Upto(n, g) == g \in [Sub(n) -> X] /\ \A T \in Sub(n) : g[T] = Val(g, T)
           N == {n \in Nat : \E g : Upto(n, g)}
<1>0. \A T \in SUBSET S : IsFiniteSet(T) /\ Cardinality(T) \in Nat
  BY FS_Subset, FS_CardinalityType
<1>1. 0 \in N
  <2>1. \A T \in Sub(0) : T = {}
    BY <1>0, FS_EmptySet
  <2> DEFINE g == [T \in Sub(0) |-> base]
  <2>2. \A T \in Sub(0) : g[T] = base /\ Val(g, T) = base
    BY <2>1
  <2>3. g \in [Sub(0) -> X]
    OBVIOUS
  <2>4. Upto(0, g)
    <3> HIDE DEF Val, g
    <3>1. QED  BY <2>2, <2>3
  <2>5. QED  BY <2>4
<1>2. ASSUME NEW n \in N PROVE n + 1 \in N
  <2>1. PICK g : Upto(n, g)
    OBVIOUS
  <2> DEFINE h == [T \in Sub(n + 1) |-> Val(g, T)]
  <2>2. ASSUME NEW T \in Sub(n + 1), T # {} PROVE T \ {pick[T]} \in Sub(n) /\ pick[T] \in S
    <3>1. pick[T] \in T
      BY <2>2
    <3>2. Cardinality(T \ {pick[T]}) = Cardinality(T) - 1
      BY <1>0, <3>1, FS_RemoveElement
    <3>3. Cardinality(T) \in Nat /\ Cardinality(T) <= n + 1 /\ n \in Nat
      BY <1>0
    <3>4. T \ {pick[T]} \in SUBSET S /\ Cardinality(T \ {pick[T]}) <= n
      BY <3>2, <3>3
    <3>5. QED  BY <3>1, <3>4
  <2>3. h \in [Sub(n + 1) -> X]
    <3>1. ASSUME NEW T \in Sub(n + 1) PROVE Val(g, T) \in X
      <4>1. CASE T = {}
        BY <4>1
      <4>2. CASE T # {}
        <5>1. g[T \ {pick[T]}] \in X /\ pick[T] \in S
          <6> HIDE DEF Sub, Val
          <6>1. QED  BY <2>1, <2>2, <4>2
        <5>2. QED  BY <4>2, <5>1
      <4>3. QED  BY <4>1, <4>2
    <3> HIDE DEF Val, Sub
    <3>2. QED  BY <3>1
  <2>4. \A T \in Sub(n) : T \in Sub(n + 1) /\ h[T] = g[T]
    <3>1. \A T \in Sub(n) : T \in Sub(n + 1)
      BY <1>0
    <3> HIDE DEF Val, Sub
    <3>2. QED  BY <2>1, <3>1
  <2>5. ASSUME NEW T \in Sub(n + 1) PROVE h[T] = Val(h, T)
    <3>1. h[T] = Val(g, T)
      <4> HIDE DEF Val, Sub
      <4>1. QED  OBVIOUS
    <3>2. T # {} => h[T \ {pick[T]}] = g[T \ {pick[T]}]
      <4> HIDE DEF h, Sub
      <4>1. QED  BY <2>2, <2>4
    <3> HIDE DEF h
    <3>3. QED  BY <3>1, <3>2
  <2>6. Upto(n + 1, h)
    <3> HIDE DEF h, Val, Sub
    <3>1. QED  BY <2>3, <2>5
  <2>7. n + 1 \in Nat
    OBVIOUS
  <2>8. QED
    <3> HIDE DEF Upto, h
    <3>1. QED  BY <2>6, <2>7
<1>3. N = Nat
  <2>1. N \in SUBSET Nat
    OBVIOUS
  <2> HIDE DEF N
  <2>2. QED  BY <1>1, <1>2, <2>1, SetInduction
<1>4. PICK g : Upto(Cardinality(S), g)
  <2>1. Cardinality(S) \in N
    <3> HIDE DEF N
    <3>1. QED  BY <1>0, <1>3
  <2>2. QED  BY <2>1
<1>5. Sub(Cardinality(S)) = SUBSET S
  BY FS_Subset
<1>6. g \in [SUBSET S -> X] /\ \A T \in SUBSET S : g[T] = Val(g, T)
  <2> HIDE DEF Sub, Val
  <2>1. QED  BY <1>4, <1>5
<1>7. IsFold(g, S, base, pick, step)
  BY <1>6 DEF IsFold
<1>8. QED  BY <1>6, <1>7

-----------------------------------------------------------------------------
(* UdpForwarder.  The table alone does not say when a peer was last heard  *)
(* of; the invariant is that the age of every entry is exactly that time.  *)

Times == 0..(Ttl + 1)

Table ==
    /\ locked \in Senders \cup {None}
    /\ mapping \in [Peers -> Senders \cup {None}]
    /\ age \in [Peers -> Times]
    /\ quiet \in [Peers -> Times]

\* Entries are of the client the association is locked to.
Owned == \A p \in Peers : mapping[p] # None =>
             mapping[p] = locked /\ locked \in Expected

\* They are as old as the last exchange with their peer.
Dated == \A p \in Peers : mapping[p] # None => age[p] = quiet[p]

\* A datagram that waits for its name to be resolved is of that client too.
Waiting ==
    /\ resolving \in [Senders -> Nat]
    /\ \A s \in Senders : resolving[s] > 0 => s = locked /\ s \in Expected

TableInv == Table /\ Owned /\ Dated /\ Waiting

LEMMA Consts ==
  /\ Expected \subseteq Senders /\ None \notin Senders
  /\ Ttl \in Nat
  /\ 0 \in Times
  BY UdpAssumption DEF Times

LEMMA LaterTime == \A t \in Times : Later(t) \in Times
  BY Consts DEF Times, Later

LEMMA InitTable == Init => TableInv
<1> SUFFICES ASSUME Init PROVE TableInv
  OBVIOUS
<1>1. Table
  BY Consts DEF Init, Table, Times
<1>2. Owned /\ Dated
  BY DEF Init, Owned, Dated
<1>3. Waiting
  BY DEF Init, Waiting
<1>4. QED  BY <1>1, <1>2, <1>3 DEF TableInv

\* Removing entries leaves those that stay as they are.
LEMMA KeepTable ==
  ASSUME TableInv, NEW K \in SUBSET Peers, Keep(K), locked' = locked,
         quiet' = quiet, resolving' = resolving
  PROVE  TableInv'
<1>1. mapping' = [p \in Peers |-> IF p \in K THEN mapping[p] ELSE None]
  BY DEF Keep
<1>2. age' = [p \in Peers |-> IF p \in K THEN age[p] ELSE 0]
  BY DEF Keep
<1>3. Table'
  BY <1>1, <1>2, Consts DEF TableInv, Table
<1>4. Owned' /\ Dated'
  BY <1>1, <1>2 DEF TableInv, Owned, Dated
<1>5. Waiting'
  BY DEF TableInv, Waiting
<1>6. QED  BY <1>3, <1>4, <1>5 DEF TableInv

\* A client that is served gets an entry that is new; the others stay.
LEMMA SentTable ==
  ASSUME Table, Owned, Dated, NEW s \in Senders, NEW p \in Peers,
         s \in Expected, locked \in {None, s}, locked' = s, Sent(s, p)
  PROVE  Table' /\ Owned' /\ Dated'
<1>1. PICK K \in Prunings(Live \cup {p}, p) :
        /\ mapping' = [q \in Peers |-> IF q = p THEN s
                                      ELSE IF q \in K THEN mapping[q] ELSE None]
        /\ age' = [q \in Peers |-> IF q \in K \ {p} THEN age[q] ELSE 0]
  BY DEF Sent
<1>2. quiet' = [quiet EXCEPT ![p] = 0]
  BY DEF Sent
<1>3. K \subseteq Live \cup {p}
  BY <1>1 DEF Prunings
<1>4. Table'
  BY <1>1, <1>2, Consts DEF Table
<1>5. Owned'
  BY <1>1, Consts DEF Owned
<1>6. Dated'
  <2> SUFFICES ASSUME NEW q \in Peers, mapping'[q] # None
               PROVE  age'[q] = quiet'[q]
    BY DEF Dated
  <2>1. CASE q = p
    BY <1>1, <1>2, <2>1, Consts DEF Table
  <2>2. CASE q # p
    <3>1. q \in K /\ mapping'[q] = mapping[q]
      BY <1>1, <2>2
    <3>2. age'[q] = age[q] /\ quiet'[q] = quiet[q]
      BY <1>1, <1>2, <2>2, <3>1 DEF Table
    <3>3. QED  BY <3>1, <3>2 DEF Dated
  <2>3. QED  BY <2>1, <2>2
<1>7. QED  BY <1>4, <1>5, <1>6

LEMMA LiveMapped == Live \in SUBSET Peers
  BY DEF Live, Mapped

\* The association belongs to s from the first datagram of s that is looked at.
LEMMA BeginsTable ==
  ASSUME TableInv, NEW s \in Senders, Begins(s)
  PROVE  /\ s \in Expected /\ locked \in {None, s} /\ locked' = s
         /\ \A p \in Peers : mapping[p] # None => mapping[p] = s
         /\ \A c \in Senders : resolving[c] > 0 => c = s
  BY Consts DEF TableInv, Owned, Waiting, Begins, Allowed

LEMMA StepTable == TableInv /\ [Next]_vars => TableInv'
<1> SUFFICES ASSUME TableInv, [Next]_vars PROVE TableInv'
  OBVIOUS
<1>1. CASE UNCHANGED vars
  BY <1>1 DEF vars, connections, TableInv, Table, Owned, Dated, Waiting
<1>2. CASE Created
  BY <1>2 DEF Created, connections, TableInv, Table, Owned, Dated, Waiting
<1>3. CASE CreateFails \/ AssociationEnds
  <2>1. Keep({}) /\ locked' = locked /\ quiet' = quiet /\ resolving' = resolving
    BY <1>3 DEF CreateFails, AssociationEnds, Close
  <2>2. QED  BY <2>1, KeepTable
<1>4. CASE \E e \in Endpoints : ConnectionLost(e)
  <2>1. UNCHANGED <<connections, locked, quiet>>
    BY <1>4 DEF ConnectionLost
  <2>2. resolving' = resolving \/ resolving' = [s \in Senders |-> 0]
    BY <1>4 DEF ConnectionLost
  <2>3. Waiting'
    BY <2>1, <2>2 DEF TableInv, Waiting
  <2>4. QED
    BY <2>1, <2>3 DEF connections, TableInv, Table, Owned, Dated
<1>5. CASE \/ \E s \in Senders : ClientDatagram(s) \/ Rejected(s)
           \/ \E p \in Peers : PeerDatagram(p)
  <2>1. UNCHANGED <<connections, locked, quiet, resolving>>
    BY <1>5 DEF ClientDatagram, Rejected, PeerDatagram
  <2>2. QED
    BY <2>1 DEF connections, TableInv, Table, Owned, Dated, Waiting
<1>6. ASSUME NEW s \in Senders, Malformed(s) \/ NamesHost(s)
      PROVE  TableInv'
  <2>1. Begins(s) /\ Keep(Live) /\ quiet' = quiet
    BY <1>6 DEF Malformed, NamesHost
  <2>2. \/ resolving' = resolving
        \/ resolving' = [resolving EXCEPT ![s] = @ + 1]
    BY <1>6 DEF Malformed, NamesHost
  <2>3. /\ s \in Expected /\ locked' = s
        /\ \A p \in Peers : mapping[p] # None => mapping[p] = s
        /\ \A c \in Senders : resolving[c] > 0 => c = s
    BY <2>1, BeginsTable
  <2>4. Table' /\ Owned' /\ Dated'
    BY <2>1, <2>3, Consts DEF Keep, TableInv, Table, Owned, Dated
  <2>5. Waiting'
    BY <2>2, <2>3 DEF TableInv, Waiting
  <2>6. QED  BY <2>4, <2>5 DEF TableInv
<1>7. ASSUME NEW s \in Senders, NEW p \in Peers, NamesAddress(s, p)
      PROVE  TableInv'
  <2>1. Begins(s) /\ resolving' = resolving
    BY <1>7 DEF NamesAddress
  <2>2. /\ s \in Expected /\ locked \in {None, s} /\ locked' = s
        /\ \A q \in Peers : mapping[q] # None => mapping[q] = s
        /\ \A c \in Senders : resolving[c] > 0 => c = s
    BY <2>1, BeginsTable
  <2>3. Waiting'
    BY <2>1, <2>2 DEF TableInv, Waiting
  <2>4. CASE Sent(s, p)
    BY <2>2, <2>3, <2>4, SentTable DEF TableInv
  <2>5. CASE Keep(Live) /\ quiet' = quiet
    <3>1. Table' /\ Owned' /\ Dated'
      BY <2>2, <2>5, Consts DEF Keep, TableInv, Table, Owned, Dated
    <3>2. QED  BY <2>3, <3>1 DEF TableInv
  <2>6. QED  BY <1>7, <2>4, <2>5 DEF NamesAddress
<1>8. ASSUME NEW s \in Senders, NEW p \in Peers, Resolved(s, p)
      PROVE  TableInv'
  <2>1. /\ resolving[s] > 0 /\ locked' = locked
        /\ resolving' = [resolving EXCEPT ![s] = @ - 1]
    BY <1>8 DEF Resolved
  <2>2. s = locked /\ s \in Expected
    BY <2>1 DEF TableInv, Waiting
  <2>3. Waiting'
    BY <2>1 DEF TableInv, Waiting
  <2>4. CASE Sent(s, p)
    BY <2>1, <2>2, <2>3, <2>4, SentTable DEF TableInv
  <2>5. CASE UNCHANGED <<connections, quiet>>
    BY <2>1, <2>3, <2>5 DEF connections, TableInv, Table, Owned, Dated
  <2>6. QED  BY <1>8, <2>4, <2>5 DEF Resolved, SendOrDrop
<1>9. ASSUME NEW s \in Senders, Unresolved(s)
      PROVE  TableInv'
  <2>1. /\ resolving[s] > 0 /\ UNCHANGED <<locked, connections, quiet>>
        /\ resolving' = [resolving EXCEPT ![s] = @ - 1]
    BY <1>9 DEF Unresolved
  <2>2. Waiting'
    BY <2>1 DEF TableInv, Waiting
  <2>3. QED
    BY <2>1, <2>2 DEF connections, TableInv, Table, Owned, Dated
<1>10. ASSUME NEW p \in Peers, Reply(p)
       PROVE  TableInv'
  <2>1. /\ mapping' = [q \in Peers |-> IF q \in Live THEN mapping[q] ELSE None]
        /\ age' = [q \in Peers |-> IF q \in Live \ {p} THEN age[q] ELSE 0]
        /\ quiet' = [quiet EXCEPT ![p] = IF p \in Live THEN 0 ELSE @]
        /\ locked' = locked /\ resolving' = resolving
    BY <1>10 DEF Reply
  <2>2. Table'
    BY <2>1, Consts DEF TableInv, Table
  <2>3. Owned'
    BY <2>1 DEF TableInv, Owned
  <2>4. Dated'
    BY <2>1 DEF TableInv, Table, Dated
  <2>5. Waiting'
    BY <2>1 DEF TableInv, Waiting
  <2>6. QED  BY <2>2, <2>3, <2>4, <2>5 DEF TableInv
<1>11. CASE Tick
  <2>1. /\ age' = [p \in Peers |-> IF p \in Mapped THEN Later(age[p]) ELSE 0]
        /\ quiet' = [p \in Peers |-> Later(quiet[p])]
        /\ UNCHANGED <<mapping, locked, resolving>>
    BY <1>11 DEF Tick
  <2>2. Table'
    BY <2>1, Consts, LaterTime DEF TableInv, Table
  <2>3. Owned' /\ Waiting'
    BY <2>1 DEF TableInv, Owned, Waiting
  <2>4. Dated'
    BY <2>1 DEF TableInv, Dated, Mapped
  <2>5. QED  BY <2>2, <2>3, <2>4 DEF TableInv
<1>12. QED
  BY <1>1, <1>2, <1>3, <1>4, <1>5, <1>6, <1>7, <1>8, <1>9, <1>10, <1>11
     DEF Next, LoopStep, ResolutionEnds

\* Entries belong to the client the association is locked to, and each is as
\* old as the last exchange with its peer.
THEOREM TableInvariant == Spec => []TableInv
<1>1. QED  BY InitTable, StepTable, PTL DEF Spec

\* However datagrams and resolutions interleave, replies go to one client.
THEOREM AssociationHasOneClient == Spec => []OneClient
<1>1. TableInv => OneClient
  BY DEF TableInv, Owned, OneClient, Mapped
<1>2. QED  BY TableInvariant, <1>1, PTL

\* A peer's datagram is passed on only within the TTL of the last exchange.
THEOREM OnlySolicitedReplies == Spec => RepliesSolicited
<1>1. ASSUME TableInv, [Next]_vars
      PROVE  [\A p \in Peers : Reply(p) /\ quiet'[p] = 0 => quiet[p] <= Ttl]_vars
  <2>1. ASSUME NEW p \in Peers, Reply(p), quiet'[p] = 0
        PROVE  quiet[p] <= Ttl
    <3>1. CASE p \in Live
      BY <1>1, <3>1 DEF TableInv, Dated, Live, Mapped
    <3>2. CASE p \notin Live
      <4>1. quiet' = [quiet EXCEPT ![p] = IF p \in Live THEN 0 ELSE @]
        BY <2>1 DEF Reply
      <4>2. quiet \in [Peers -> Times]
        BY <1>1 DEF TableInv, Table
      <4>3. quiet'[p] = quiet[p]
        BY <3>2, <4>1, <4>2
      <4>4. quiet[p] = 0
        BY <2>1, <4>3
      <4>5. QED  BY <4>4, Consts
    <3>3. QED  BY <3>1, <3>2
  <2>2. QED  BY <2>1
<1>2. QED  BY TableInvariant, <1>1, PTL DEF Spec, RepliesSolicited

\* The table is within its limit, and what was pushed out of it was pushed out
\* by as many entries as it may have, none of them older.
InUse(p) == {q \in Mapped : quiet[q] <= quiet[p]}

Filled ==
    /\ pc \in {"creating", "serving", "ended"}
    /\ Cardinality(Mapped) <= MaxMappings
    /\ pc # "ended" =>
         \A p \in Peers : quiet[p] <= Ttl /\ p \notin Mapped => MaxMappings <= Cardinality(InUse(p))

LEMMA PeerSets ==
    \A S \in SUBSET Peers :
       /\ IsFiniteSet(S) /\ Cardinality(S) \in Nat
       /\ \A K \in SUBSET S : /\ Cardinality(K) <= Cardinality(S)
                              /\ Cardinality(K) = Cardinality(S) => K = S
<1>1. ASSUME NEW S \in SUBSET Peers PROVE IsFiniteSet(S)
  BY UdpAssumption, FS_Subset
<1>2. QED  BY <1>1, FS_Subset, FS_CardinalityType

LEMMA LesserIs ==
    ASSUME NEW a \in Nat, NEW b \in Nat
    PROVE  Min({a, b}) = IF a <= b THEN a ELSE b
<1>1. \E x \in {a, b} : \A y \in {a, b} : x <= y
  BY SMT
<1>2. QED
  BY <1>1 DEF Min

\* Pruning leaves at most max_mappings entries, and where it takes one away all
\* that are left were used no earlier.
LEMMA PruningsAre ==
    ASSUME NEW S \in SUBSET Peers, NEW p \in S, NEW K \in Prunings(S, p)
    PROVE  /\ K \in SUBSET S /\ p \in K
           /\ Cardinality(K) <= MaxMappings
           /\ K # S => Cardinality(K) = MaxMappings
           /\ \A q \in K \ {p}, r \in S \ K : age[q] <= age[r]
<1>1. /\ K \in SUBSET S /\ p \in K
      /\ Cardinality(K) = Min({Cardinality(S), MaxMappings})
      /\ \A q \in K \ {p}, r \in S \ K : age[q] <= age[r]
  BY DEF Prunings
<1>2. Cardinality(S) \in Nat /\ (Cardinality(K) = Cardinality(S) => K = S)
  BY <1>1, PeerSets
<1>3. MaxMappings \in Nat
  BY UdpAssumption
<1>4. QED  BY <1>1, <1>2, <1>3, LesserIs

\* Nothing goes but expired entries, and none becomes older than one that has
\* gone.
OnlyExpiredGo ==
    /\ pc' = pc
    /\ mapping' \in [Peers -> Senders \cup {None}] /\ quiet' \in [Peers -> Times]
    /\ \A q \in Peers : mapping'[q] # None => mapping[q] # None
    /\ \A q \in Peers : mapping[q] # None /\ age[q] <= Ttl => mapping'[q] # None
    /\ \A q \in Peers : quiet'[q] <= Ttl => quiet[q] <= Ttl
    /\ \A q, r \in Peers :
          mapping[q] # None /\ mapping'[r] = None /\ quiet[q] <= quiet[r] => quiet'[q] <= quiet'[r]

LEMMA KeptFilled ==
    ASSUME Table, Dated, Filled, OnlyExpiredGo
    PROVE  Filled'
<1> USE DEF OnlyExpiredGo
<1>1. Mapped' \in SUBSET Mapped /\ Mapped \in SUBSET Peers /\ MaxMappings \in Nat
  BY UdpAssumption DEF Mapped
<1>2. Cardinality(Mapped') <= Cardinality(Mapped)
      /\ Cardinality(Mapped) \in Nat /\ Cardinality(Mapped') \in Nat
  BY <1>1, PeerSets
<1>3. ASSUME pc' # "ended", NEW p \in Peers, quiet'[p] <= Ttl, p \notin Mapped'
      PROVE  MaxMappings <= Cardinality(InUse(p)')
  <2>1. quiet[p] <= Ttl /\ mapping'[p] = None
    BY <1>3 DEF Mapped
  <2>2. p \notin Mapped
    <3>1. SUFFICES ASSUME mapping[p] # None PROVE FALSE
      BY DEF Mapped
    <3>2. age[p] <= Ttl
      BY <2>1, <3>1 DEF Dated
    <3>3. QED  BY <2>1, <3>1, <3>2
  <2>3. MaxMappings <= Cardinality(InUse(p))
    BY <1>3, <2>1, <2>2 DEF Filled
  <2>4. ASSUME NEW q \in InUse(p) PROVE q \in InUse(p)'
    <3>1. q \in Peers /\ mapping[q] # None /\ quiet[q] <= quiet[p]
      BY DEF InUse, Mapped
    <3>2. age[q] <= Ttl
      <4>1. quiet[q] \in Nat /\ quiet[p] \in Nat /\ Ttl \in Nat
        BY <3>1, Consts DEF Table, Times
      <4>2. quiet[q] <= Ttl
        BY <2>1, <3>1, <4>1
      <4>3. QED  BY <3>1, <4>2 DEF Dated
    <3>3. mapping'[q] # None
      BY <3>1, <3>2
    <3>4. quiet'[q] <= quiet'[p]
      BY <1>3, <2>1, <3>1
    <3>5. QED  BY <3>1, <3>3, <3>4 DEF InUse, Mapped
  <2>5. InUse(p) \in SUBSET InUse(p)' /\ InUse(p)' \in SUBSET Peers
    BY <2>4 DEF InUse, Mapped
  <2>6. /\ Cardinality(InUse(p)) \in Nat /\ Cardinality(InUse(p)') \in Nat
        /\ Cardinality(InUse(p)) <= Cardinality(InUse(p)')
    <3>1. InUse(p) \in SUBSET Peers
      BY <2>5
    <3>2. QED  BY <2>5, <3>1, PeerSets
  <2>7. QED  BY <1>1, <2>3, <2>6
<1>4. pc' \in {"creating", "serving", "ended"} /\ Cardinality(Mapped') <= MaxMappings
  BY <1>1, <1>2 DEF Filled
<1>5. QED  BY <1>3, <1>4 DEF Filled

\* Sending to a peer may push an entry out, and then all others are younger.
LEMMA SentFilled ==
    ASSUME Table, Dated, Filled, pc' = pc, NEW s \in Senders, NEW p \in Peers, Sent(s, p)
    PROVE  Filled'
<1> DEFINE S == Live \cup {p}
<1>1. PICK K \in Prunings(S, p) :
        mapping' = [q \in Peers |-> IF q = p THEN s
                                    ELSE IF q \in K THEN mapping[q] ELSE None]
  BY DEF Sent
<1>2. quiet' = [quiet EXCEPT ![p] = 0]
  BY DEF Sent
<1>3. S \in SUBSET Peers /\ p \in S
  BY LiveMapped
<1>4. /\ K \in SUBSET S /\ p \in K
      /\ Cardinality(K) <= MaxMappings
      /\ K # S => Cardinality(K) = MaxMappings
      /\ \A q \in K \ {p}, r \in S \ K : age[q] <= age[r]
  <2> HIDE DEF S
  <2>1. QED  BY <1>1, <1>3, PruningsAre
<1>5. Mapped' = K
  <2>1. \A q \in K \ {p} : mapping[q] # None
    BY <1>4 DEF Live, Mapped
  <2>2. QED  BY <1>1, <1>3, <1>4, <2>1, Consts DEF Mapped
<1>6. ASSUME pc' # "ended", NEW r \in Peers, quiet'[r] <= Ttl, r \notin K
      PROVE  MaxMappings <= Cardinality(InUse(r)')
  <2>1. r # p /\ quiet'[r] = quiet[r] /\ quiet[r] \in Times /\ quiet'[p] = 0 /\ Ttl \in Nat
    BY <1>2, <1>4, <1>6, Consts DEF Table
  <2>2. InUse(r)' = {q \in K : q = p \/ quiet[q] <= quiet[r]}
    <3>1. \A q \in K : q # p => quiet'[q] = quiet[q]
      BY <1>2, <1>3, <1>4 DEF Table
    <3>2. quiet'[p] <= quiet'[r]
      BY <2>1 DEF Times
    <3>3. QED  BY <1>5, <2>1, <3>1, <3>2 DEF InUse
  <2>3. \A q \in Live : age[q] = quiet[q] /\ quiet[q] \in Times
    BY DEF Live, Mapped, Dated, Table
  <2>4. CASE \A q \in K \ {p} : quiet[q] <= quiet[r]
    <3>1. InUse(r)' = K
      BY <2>2, <2>4
    <3>2. CASE K # S
      BY <1>4, <3>1, <3>2, UdpAssumption
    <3>3. CASE K = S
      <4>1. r \notin Mapped
        BY <1>6, <2>1, <2>3, <3>3 DEF Live, Mapped, Dated
      <4>2. MaxMappings <= Cardinality(InUse(r))
        BY <1>6, <2>1, <4>1 DEF Filled
      <4>3. InUse(r) \in SUBSET K
        <5>1. ASSUME NEW q \in Mapped, quiet[q] <= quiet[r] PROVE q \in Live
          <6>1. q \in Peers /\ age[q] = quiet[q] /\ quiet[q] \in Times
            BY DEF Mapped, Dated, Table
          <6>2. age[q] <= Ttl
            BY <1>6, <2>1, <5>1, <6>1 DEF Times
          <6>3. QED  BY <6>2 DEF Live
        <5>2. QED  BY <3>3, <5>1 DEF InUse
      <4>4. K \in SUBSET Peers /\ InUse(r) \in SUBSET Peers
        BY <1>3, <1>4, <4>3
      <4>5. /\ Cardinality(InUse(r)) \in Nat /\ Cardinality(K) \in Nat
            /\ Cardinality(InUse(r)) <= Cardinality(K)
        BY <4>3, <4>4, PeerSets
      <4>6. QED  BY <3>1, <4>2, <4>5, UdpAssumption
    <3>4. QED  BY <3>2, <3>3
  <2>5. CASE \E q \in K \ {p} : ~(quiet[q] <= quiet[r])
    <3>1. PICK q \in K \ {p} : ~(quiet[q] <= quiet[r])
      BY <2>5
    <3>2. q \in Live
      BY <1>4
    <3>3. r \notin Mapped
      <4>1. SUFFICES ASSUME r \in Mapped PROVE FALSE
        OBVIOUS
      <4>2. r \in Live
        BY <1>6, <2>1, <4>1 DEF Live, Mapped, Dated
      <4>3. age[q] <= age[r]
        BY <1>4, <1>6, <4>2
      <4>4. QED  BY <2>3, <3>1, <3>2, <4>2, <4>3
    <3>4. MaxMappings <= Cardinality(InUse(r))
      BY <1>6, <2>1, <3>3 DEF Filled
    <3>5. ASSUME NEW x \in InUse(r) PROVE x \in InUse(r)'
      <4>1. x \in Mapped /\ x \in Peers /\ quiet[x] <= quiet[r] /\ age[x] = quiet[x] /\ quiet[x] \in Times
        BY DEF InUse, Mapped, Dated, Table
      <4>2. x \in Live
        <5>1. age[x] <= Ttl
          BY <1>6, <2>1, <4>1 DEF Times
        <5>2. QED  BY <4>1, <5>1 DEF Live
      <4>3. x \in K
        <5>1. SUFFICES ASSUME x \notin K PROVE FALSE
          OBVIOUS
        <5>2. age[q] <= age[x]
          BY <1>4, <4>2, <5>1
        <5>3. quiet[q] <= quiet[x] /\ quiet[q] \in Times
          BY <2>3, <3>2, <4>1, <5>2
        <5>4. QED  BY <2>1, <3>1, <4>1, <5>3 DEF Times
      <4>4. QED  BY <2>2, <4>1, <4>3
    <3>6. InUse(r) \in SUBSET InUse(r)' /\ InUse(r)' \in SUBSET Peers
      <4>1. InUse(r)' \in SUBSET K
        BY <2>2
      <4>2. QED  BY <1>3, <1>4, <3>5, <4>1
    <3>7. /\ Cardinality(InUse(r)) \in Nat /\ Cardinality(InUse(r)') \in Nat
          /\ Cardinality(InUse(r)) <= Cardinality(InUse(r)')
      <4>1. InUse(r) \in SUBSET Peers
        BY <3>6
      <4>2. QED  BY <3>6, <4>1, PeerSets
    <3>8. QED  BY <3>4, <3>7, UdpAssumption
  <2>6. QED  BY <2>4, <2>5
<1>7. QED  BY <1>4, <1>5, <1>6 DEF Filled

LEMMA InitFilled == Init => Filled
<1> SUFFICES ASSUME Init PROVE Filled
  OBVIOUS
<1>1. Mapped = {} /\ Cardinality(Mapped) = 0
  BY FS_EmptySet DEF Init, Mapped
<1>2. \A p \in Peers : ~(quiet[p] <= Ttl)
  BY Consts DEF Init
<1>3. QED  BY <1>1, <1>2, UdpAssumption DEF Filled, Init

LEMMA EndedFilled == ASSUME Keep({}), pc' = "ended" PROVE Filled'
<1>1. Mapped' = {} /\ Cardinality(Mapped') = 0
  BY FS_EmptySet DEF Keep, Mapped
<1>2. QED  BY <1>1, UdpAssumption DEF Filled

LEMMA PrunedFilled ==
    ASSUME Table, Dated, Filled, pc' = pc, Keep(Live), quiet' = quiet
    PROVE  Filled'
<1>1. mapping' = [q \in Peers |-> IF q \in Live THEN mapping[q] ELSE None]
  BY DEF Keep
<1>2. mapping' \in [Peers -> Senders \cup {None}]
  BY <1>1 DEF Table
<1>3. \A q \in Peers : mapping'[q] # None => mapping[q] # None
  BY <1>1
<1>4. \A q \in Peers : mapping[q] # None /\ age[q] <= Ttl => mapping'[q] # None
  BY <1>1 DEF Live, Mapped
<1>5. quiet' \in [Peers -> Times] /\ \A q \in Peers : quiet'[q] <= Ttl => quiet[q] <= Ttl
  BY DEF Table
<1>6. QED  BY <1>2, <1>3, <1>4, <1>5, KeptFilled DEF OnlyExpiredGo

LEMMA RepliedFilled ==
    ASSUME Table, Dated, Filled, NEW p \in Peers, Reply(p)
    PROVE  Filled'
<1>1. /\ mapping' = [q \in Peers |-> IF q \in Live THEN mapping[q] ELSE None]
      /\ quiet' = [quiet EXCEPT ![p] = IF p \in Live THEN 0 ELSE @]
      /\ pc' = pc
  BY DEF Reply
<1>2. mapping' \in [Peers -> Senders \cup {None}]
  BY <1>1 DEF Table
<1>3. \A q \in Peers : mapping'[q] # None => mapping[q] # None
  BY <1>1
<1>4. \A q \in Peers : mapping[q] # None /\ age[q] <= Ttl => mapping'[q] # None
  BY <1>1 DEF Live, Mapped
<1>5. quiet' \in [Peers -> Times]
  BY <1>1, Consts DEF Table
<1>6. ASSUME NEW q \in Peers, quiet'[q] <= Ttl PROVE quiet[q] <= Ttl
  BY <1>1, <1>6, Consts DEF Table, Live, Mapped, Dated
<1>7. ASSUME NEW q \in Peers, NEW r \in Peers, quiet[q] <= quiet[r], mapping'[r] = None, mapping[q] # None
      PROVE  quiet'[q] <= quiet'[r]
  <2>1. quiet'[r] = quiet[r]
    BY <1>1, <1>7, Consts DEF Table, Live, Mapped
  <2>2. quiet'[q] = quiet[q] \/ quiet'[q] = 0
    BY <1>1 DEF Table
  <2>3. quiet[r] \in Nat
    BY DEF Table, Times
  <2>4. QED  BY <1>7, <2>1, <2>2, <2>3
<1>8. QED  BY <1>1, <1>2, <1>3, <1>4, <1>5, <1>6, <1>7, KeptFilled DEF OnlyExpiredGo

LEMMA TickedFilled == ASSUME Table, Dated, Filled, Tick PROVE Filled'
<1>1. /\ quiet' = [p \in Peers |-> Later(quiet[p])]
      /\ mapping' = mapping /\ pc' = pc
  BY DEF Tick
<1>2. quiet' \in [Peers -> Times]
  BY <1>1, LaterTime DEF Table
<1>3. \A q \in Peers : quiet'[q] <= Ttl => quiet[q] <= Ttl
  BY <1>1, Consts DEF Table, Times, Later
<1>4. \A q, r \in Peers : quiet[q] <= quiet[r] => quiet'[q] <= quiet'[r]
  BY <1>1, Consts DEF Table, Times, Later
<1>5. /\ mapping' \in [Peers -> Senders \cup {None}] /\ pc' = pc
      /\ \A q \in Peers : mapping'[q] # None => mapping[q] # None
      /\ \A q \in Peers : mapping[q] # None /\ age[q] <= Ttl => mapping'[q] # None
  BY <1>1 DEF Table
<1>6. QED  BY <1>2, <1>3, <1>4, <1>5, KeptFilled DEF OnlyExpiredGo

LEMMA StepFilled == ASSUME TableInv, Filled, [Next]_vars PROVE Filled'
<1>0. Table /\ Dated
  BY DEF TableInv
<1> DEFINE Same == UNCHANGED <<mapping, quiet>>
<1>1. ASSUME Same, pc' = pc PROVE Filled'
  BY <1>1 DEF Filled, InUse, Mapped
<1>2. CASE UNCHANGED vars
  BY <1>1, <1>2 DEF vars, connections
<1>3. CASE Created
  BY <1>3 DEF Created, connections, Filled, InUse, Mapped
<1>4. CASE CreateFails \/ AssociationEnds
  BY <1>4, EndedFilled DEF CreateFails, AssociationEnds, Close
<1>5. CASE \E e \in Endpoints : ConnectionLost(e)
  BY <1>1, <1>5 DEF ConnectionLost, connections
<1>6. CASE \/ \E s \in Senders : ClientDatagram(s) \/ Rejected(s) \/ Unresolved(s)
           \/ \E p \in Peers : PeerDatagram(p)
  BY <1>1, <1>6 DEF ClientDatagram, Rejected, Unresolved, PeerDatagram, connections
<1>7. ASSUME NEW s \in Senders, Malformed(s) \/ NamesHost(s) PROVE Filled'
  BY <1>0, <1>7, PrunedFilled DEF Malformed, NamesHost, Begins
<1>8. ASSUME NEW s \in Senders, NEW p \in Peers, NamesAddress(s, p) PROVE Filled'
  <2>1. pc' = pc
    BY <1>8 DEF NamesAddress, Begins
  <2>2. CASE Sent(s, p)
    BY <1>0, <2>1, <2>2, SentFilled
  <2>3. CASE Keep(Live) /\ quiet' = quiet
    BY <1>0, <2>1, <2>3, PrunedFilled
  <2>4. QED  BY <1>8, <2>2, <2>3 DEF NamesAddress
<1>9. ASSUME NEW s \in Senders, NEW p \in Peers, Resolved(s, p) PROVE Filled'
  <2>1. pc' = pc
    BY <1>9 DEF Resolved
  <2>2. CASE Sent(s, p)
    BY <1>0, <2>1, <2>2, SentFilled
  <2>3. CASE UNCHANGED <<connections, quiet>>
    BY <1>1, <2>1, <2>3 DEF connections
  <2>4. QED  BY <1>9, <2>2, <2>3 DEF Resolved, SendOrDrop
<1>10. CASE Tick \/ \E p \in Peers : Reply(p)
  BY <1>0, <1>10, TickedFilled, RepliedFilled
<1>11. QED
  BY <1>2, <1>3, <1>4, <1>5, <1>6, <1>7, <1>8, <1>9, <1>10
     DEF Next, LoopStep, ResolutionEnds

\* A peer that has no entry has been pushed out by max_mappings younger ones, so
\* it is not among as many.
LEMMA FilledKeepsRecent == Table /\ Filled => RecentPeersMapped
<1> SUFFICES ASSUME Table, Filled, pc # "ended", NEW p \in Peers,
                    quiet[p] <= Ttl, p \notin Mapped,
                    Cardinality({q \in Peers : quiet[q] <= quiet[p]}) <= MaxMappings
             PROVE  FALSE
  BY DEF RecentPeersMapped
<1> DEFINE R == {q \in Peers : quiet[q] <= quiet[p]}
<1>1. MaxMappings <= Cardinality(InUse(p))
  BY DEF Filled
<1>2. InUse(p) \in SUBSET R /\ p \in R /\ p \notin InUse(p) /\ R \in SUBSET Peers
  BY DEF InUse, Mapped, Table, Times
<1>3. /\ Cardinality(InUse(p)) \in Nat /\ Cardinality(R) \in Nat
      /\ Cardinality(InUse(p)) <= Cardinality(R) /\ InUse(p) \in SUBSET Peers
      /\ Cardinality(InUse(p)) = Cardinality(R) => InUse(p) = R
  <2> HIDE DEF R
  <2>1. InUse(p) \in SUBSET Peers
    BY <1>2
  <2>2. QED  BY <1>2, <2>1, PeerSets
<1>4. Cardinality(R) <= MaxMappings /\ MaxMappings \in Nat
  BY UdpAssumption
<1>5. Cardinality(InUse(p)) = Cardinality(R)
  <2> HIDE DEF R
  <2>1. QED  BY <1>1, <1>3, <1>4
<1>6. QED  BY <1>2, <1>3, <1>5

\* The sum of the values of f over a set, which is that over the set without one
\* of its elements, and the element's value.
Pick(s) == CHOOSE x \in s : TRUE

IsSum(g, f, S) ==
    g = [s \in SUBSET S |-> IF s = {} THEN 0 ELSE f[Pick(s)] + g[s \ {Pick(s)}]]

LEMMA SumExists ==
    ASSUME NEW S, IsFiniteSet(S), NEW f, \A x \in S : f[x] \in Nat
    PROVE  \E g : IsSum(g, f, S)
<1> DEFINE pick == [s \in SUBSET S |-> Pick(s)]
           step == [vx \in Nat \X S |-> f[vx[2]] + vx[1]]
<1>1. \A s \in SUBSET S : s # {} => pick[s] \in s /\ pick[s] = Pick(s)
  BY DEF Pick
<1>2. step \in [Nat \X S -> Nat]
  OBVIOUS
<1>3. \A n \in Nat, x \in S : step[<<n, x>>] = f[x] + n
  OBVIOUS
<1>4. 0 \in Nat
  OBVIOUS
<1> HIDE DEF pick, step
<1>5. PICK g \in [SUBSET S -> Nat] : IsFold(g, S, 0, pick, step)
  BY <1>1, <1>2, <1>4, FoldExists
<1>6. ASSUME NEW s \in SUBSET S, s # {}
      PROVE  step[<<g[s \ {pick[s]}], pick[s]>>] = f[Pick(s)] + g[s \ {Pick(s)}]
  <2>1. pick[s] \in S /\ pick[s] = Pick(s) /\ s \ {pick[s]} \in SUBSET S
    BY <1>1, <1>6
  <2>2. g[s \ {pick[s]}] \in Nat
    BY <2>1
  <2>3. QED  BY <1>3, <2>1, <2>2
<1>7. \A s \in SUBSET S : g[s] = IF s = {} THEN 0 ELSE f[Pick(s)] + g[s \ {Pick(s)}]
  <2>1. \A s \in SUBSET S : g[s] = IF s = {} THEN 0 ELSE step[<<g[s \ {pick[s]}], pick[s]>>]
    BY <1>5 DEF IsFold
  <2>2. QED  BY <1>6, <2>1
<1>8. IsSum(g, f, S)
  BY <1>7 DEF IsSum
<1>9. QED  BY <1>8

\* g gives the sum of f over each subset of S.
Sums(g, f, S) ==
    /\ Total(f, S) = g[S]
    /\ g[{}] = 0
    /\ \A s \in SUBSET S : s # {} =>
         Pick(s) \in s /\ g[s] = f[Pick(s)] + g[s \ {Pick(s)}]

LEMMA SumRule ==
    ASSUME NEW S, IsFiniteSet(S), NEW f, \A x \in S : f[x] \in Nat
    PROVE  \E g : Sums(g, f, S)
<1> DEFINE g == CHOOSE g : IsSum(g, f, S)
<1>1. IsSum(g, f, S)
  BY SumExists
<1>2. \A s \in SUBSET S : s # {} => Pick(s) \in s
  BY DEF Pick
<1>3. Total(f, S) = g[S]
  BY DEF Total, MapThenSumSet, MapThenFoldSet, IsSum, Pick
<1> HIDE DEF g
<1>4. Sums(g, f, S)
  BY <1>1, <1>2, <1>3 DEF IsSum, Sums
<1>5. QED  BY <1>4

\* What is true of the empty set, and of a set when it is true of the set without
\* one of its elements, is true of every subset of a finite set.
LEMMA SubsetInduction ==
    ASSUME NEW S, IsFiniteSet(S), NEW A, {} \in A,
           \A s \in SUBSET S : s # {} /\ s \ {Pick(s)} \in A => s \in A
    PROVE  \A s \in SUBSET S : s \in A
<1> DEFINE N == {n \in Nat : \A s \in SUBSET S : Cardinality(s) <= n => s \in A}
<1>0. \A s \in SUBSET S : IsFiniteSet(s) /\ Cardinality(s) \in Nat
  BY FS_Subset, FS_CardinalityType
<1>1. 0 \in N
  <2>1. ASSUME NEW s \in SUBSET S, Cardinality(s) <= 0 PROVE s = {}
    BY <1>0, <2>1, FS_EmptySet
  <2>2. QED  BY <2>1
<1>2. ASSUME NEW n \in N PROVE n + 1 \in N
  <2>1. SUFFICES ASSUME NEW s \in SUBSET S, Cardinality(s) <= n + 1, s # {} PROVE s \in A
    OBVIOUS
  <2>2. Pick(s) \in s
    BY <2>1 DEF Pick
  <2>3. Cardinality(s \ {Pick(s)}) = Cardinality(s) - 1
    BY <1>0, <2>2, FS_RemoveElement
  <2>4. s \ {Pick(s)} \in SUBSET S /\ Cardinality(s \ {Pick(s)}) <= n
    BY <1>0, <2>1, <2>3
  <2>5. s \ {Pick(s)} \in A
    BY <2>4
  <2>6. QED  BY <2>1, <2>5
<1>3. N = Nat
  <2>1. N \in SUBSET Nat
    OBVIOUS
  <2> HIDE DEF N
  <2>2. QED  BY <1>1, <1>2, <2>1, SetInduction
<1>4. ASSUME NEW s \in SUBSET S PROVE s \in A
  <2>1. Cardinality(s) \in N /\ Cardinality(s) <= Cardinality(s)
    <3> HIDE DEF N
    <3>1. QED  BY <1>0, <1>3
  <2>2. QED  BY <2>1
<1>5. QED  BY <1>4

LEMMA TotalBounds ==
    ASSUME NEW S, IsFiniteSet(S), NEW f, \A x \in S : f[x] \in Nat
    PROVE  Total(f, S) \in Nat /\ \A x \in S : f[x] <= Total(f, S)
<1>1. PICK g : Sums(g, f, S)
  BY SumRule
<1> USE DEF Sums
<1> DEFINE A == {s \in SUBSET S : g[s] \in Nat /\ \A x \in s : f[x] <= g[s]}
<1>2. {} \in A
  BY <1>1
<1>3. ASSUME NEW s \in SUBSET S, s # {}, s \ {Pick(s)} \in A PROVE s \in A
  <2>1. /\ Pick(s) \in S /\ g[s] = f[Pick(s)] + g[s \ {Pick(s)}]
        /\ f[Pick(s)] \in Nat /\ g[s \ {Pick(s)}] \in Nat
    BY <1>1, <1>3
  <2>2. \A x \in s : f[x] \in Nat /\ (x = Pick(s) \/ f[x] <= g[s \ {Pick(s)}])
    BY <1>3
  <2>3. QED  BY <2>1, <2>2
<1>4. S \in A
  <2> HIDE DEF A
  <2>1. QED  BY <1>2, <1>3, SubsetInduction
<1>5. QED  BY <1>1, <1>4

LEMMA TotalMoves ==
    ASSUME NEW S, IsFiniteSet(S), NEW f, NEW h, NEW a, NEW d \in {0, 1},
           \A x \in S : f[x] \in Nat /\ h[x] = IF x = a THEN f[x] + d ELSE f[x]
    PROVE  Total(h, S) = IF a \in S THEN Total(f, S) + d ELSE Total(f, S)
<1>1. PICK g : Sums(g, f, S)
  BY SumRule
<1>2. PICK j : Sums(j, h, S)
  <2>1. \A x \in S : h[x] \in Nat
    OBVIOUS
  <2>2. QED  BY <2>1, SumRule
<1> USE DEF Sums
<1> DEFINE A == {s \in SUBSET S : g[s] \in Nat /\ j[s] = IF a \in s THEN g[s] + d ELSE g[s]}
<1>3. {} \in A
  BY <1>1, <1>2
<1>4. ASSUME NEW s \in SUBSET S, s # {}, s \ {Pick(s)} \in A PROVE s \in A
  <2> DEFINE x == Pick(s)
  <2>1. /\ x \in s /\ x \in S /\ g[s] = f[x] + g[s \ {x}] /\ j[s] = h[x] + j[s \ {x}]
        /\ f[x] \in Nat /\ g[s \ {x}] \in Nat
    BY <1>1, <1>2, <1>4
  <2>2. h[x] = IF x = a THEN f[x] + d ELSE f[x]
    BY <2>1
  <2>3. j[s \ {x}] = IF a \in s \ {x} THEN g[s \ {x}] + d ELSE g[s \ {x}]
    BY <1>4
  <2> HIDE DEF x
  <2>4. g[s] \in Nat
    BY <2>1
  <2>5. j[s] = IF a \in s THEN g[s] + d ELSE g[s]
    <3>1. CASE x = a
      <4>1. h[x] = f[x] + d /\ j[s \ {x}] = g[s \ {x}] /\ a \in s
        BY <2>1, <2>2, <2>3, <3>1
      <4>2. QED  BY <2>1, <4>1
    <3>2. CASE x # a /\ a \in s
      <4>1. h[x] = f[x] /\ j[s \ {x}] = g[s \ {x}] + d
        BY <2>2, <2>3, <3>2
      <4>2. QED  BY <2>1, <3>2, <4>1
    <3>3. CASE x # a /\ a \notin s
      <4>1. h[x] = f[x] /\ j[s \ {x}] = g[s \ {x}]
        BY <2>2, <2>3, <3>3
      <4>2. QED  BY <2>1, <3>3, <4>1
    <3>4. QED  BY <3>1, <3>2, <3>3
  <2>6. QED  BY <2>4, <2>5
<1>5. S \in A
  <2> HIDE DEF A
  <2>1. QED  BY <1>3, <1>4, SubsetInduction
<1>6. QED  BY <1>1, <1>2, <1>5

LEMMA TotalZero ==
    ASSUME NEW S, IsFiniteSet(S), NEW f, \A x \in S : f[x] = 0
    PROVE  Total(f, S) = 0
<1>1. PICK g : Sums(g, f, S)
  <2>1. \A x \in S : f[x] \in Nat
    OBVIOUS
  <2>2. QED  BY <2>1, SumRule
<1> USE DEF Sums
<1> DEFINE A == {s \in SUBSET S : g[s] = 0}
<1>2. {} \in A
  BY <1>1
<1>3. ASSUME NEW s \in SUBSET S, s # {}, s \ {Pick(s)} \in A PROVE s \in A
  BY <1>1, <1>3
<1>4. S \in A
  <2> HIDE DEF A
  <2>1. QED  BY <1>2, <1>3, SubsetInduction
<1>5. QED  BY <1>1, <1>4

\* h gives a one more than f does, and every other member of S the same.
OneMoreAt(h, f, S, a) ==
    \A x \in S : f[x] \in Nat /\ h[x] = IF x = a THEN f[x] + 1 ELSE f[x]

LEMMA OneMore ==
    ASSUME NEW S, IsFiniteSet(S), NEW f, NEW h, NEW a,
           OneMoreAt(h, f, S, a)
    PROVE  /\ Total(f, S) \in Nat /\ Total(h, S) \in Nat
           /\ a \in S => Total(h, S) = Total(f, S) + 1
           /\ a \notin S => Total(h, S) = Total(f, S)
<1>1. 1 \in {0, 1}
  OBVIOUS
<1>2. Total(h, S) = IF a \in S THEN Total(f, S) + 1 ELSE Total(f, S)
  BY <1>1, TotalMoves DEF OneMoreAt
<1>3. Total(f, S) \in Nat
  BY TotalBounds DEF OneMoreAt
<1>4. QED  BY <1>2, <1>3

\* The tasks of every endpoint are within its limit, and so are those of every
\* sender and of every peer.
Tasks ==
    /\ open \subseteq Endpoints /\ closing \subseteq Endpoints
    /\ pc = "creating" => open # Endpoints
    /\ fresh \in [Senders -> Nat] /\ resolving \in [Senders -> Nat]
    /\ inbox \in [Peers -> 0..MaxPending]
    /\ \A e \in Endpoints : Pending(e) <= MaxPending

LEMMA FamiliesOnly ==
    /\ IsFiniteSet(Senders) /\ Senders \in SUBSET Senders /\ MaxPending \in Nat \ {0}
    /\ \A e : PeersOf(e) \in SUBSET Peers /\ IsFiniteSet(PeersOf(e))
    /\ "client" \notin Families
    /\ \A p \in Peers : FamilyOf[p] # "client" /\ p \in PeersOf(FamilyOf[p])
<1>1. \A e : PeersOf(e) \in SUBSET Peers
  BY DEF PeersOf
<1>2. ASSUME NEW e PROVE IsFiniteSet(PeersOf(e))
  BY <1>1, PeerSets
<1>3. \A p \in Peers : FamilyOf[p] # "client" /\ p \in PeersOf(FamilyOf[p])
  BY UdpAssumption DEF PeersOf
<1>4. QED  BY <1>1, <1>2, <1>3, UdpAssumption

LEMMA PendingParts ==
    ASSUME Tasks
    PROVE  /\ Total(fresh, Senders) \in Nat /\ Total(resolving, Senders) \in Nat
           /\ \A s \in Senders : fresh[s] <= Total(fresh, Senders)
                              /\ resolving[s] <= Total(resolving, Senders)
           /\ \A e : Total(inbox, PeersOf(e)) \in Nat
           /\ \A p \in Peers : inbox[p] <= Total(inbox, PeersOf(FamilyOf[p]))
<1>1. \A s \in Senders : fresh[s] \in Nat /\ resolving[s] \in Nat
  BY DEF Tasks
<1>2. /\ Total(fresh, Senders) \in Nat /\ Total(resolving, Senders) \in Nat
      /\ \A s \in Senders : fresh[s] <= Total(fresh, Senders)
                         /\ resolving[s] <= Total(resolving, Senders)
  BY <1>1, FamiliesOnly, TotalBounds
<1>3. \A p \in Peers : inbox[p] \in Nat
  BY FamiliesOnly DEF Tasks
<1>4. ASSUME NEW e
      PROVE  /\ Total(inbox, PeersOf(e)) \in Nat
             /\ \A p \in PeersOf(e) : inbox[p] <= Total(inbox, PeersOf(e))
  <2>1. \A p \in PeersOf(e) : inbox[p] \in Nat
    BY <1>3, FamiliesOnly
  <2>2. QED  BY <2>1, FamiliesOnly, TotalBounds
<1>5. QED  BY <1>2, <1>4, FamiliesOnly

LEMMA InitTasks == Init => Tasks
<1> SUFFICES ASSUME Init PROVE Tasks
  OBVIOUS
<1>1. Total(fresh, Senders) = 0 /\ Total(resolving, Senders) = 0
  <2>1. \A s \in Senders : fresh[s] = 0 /\ resolving[s] = 0
    BY DEF Init
  <2>2. QED  BY <2>1, FamiliesOnly, TotalZero
<1>2. ASSUME NEW e PROVE Total(inbox, PeersOf(e)) = 0
  <2>1. \A p \in PeersOf(e) : inbox[p] = 0
    BY FamiliesOnly DEF Init
  <2>2. QED  BY <2>1, FamiliesOnly, TotalZero
<1>3. \A e \in Endpoints : Pending(e) <= MaxPending
  BY <1>1, <1>2, FamiliesOnly DEF Pending
<1>4. open # Endpoints
  BY DEF Init, Endpoints
<1>5. QED  BY <1>3, <1>4, FamiliesOnly DEF Init, Tasks

\* The first missing endpoint is an endpoint.
LEMMA NextIsMissing ==
    ASSUME open \subseteq Endpoints, open # Endpoints
    PROVE  NextEndpoint \in Endpoints
<1> DEFINE M == {i \in 1..3 : CreationOrder[i] \in Missing}
<1>1. M # {}
  <2>1. PICK e \in Endpoints : e \notin open
    OBVIOUS
  <2>2. e \in {"client", "ipv4", "ipv6"}
    BY UdpAssumption DEF Endpoints
  <2>3. PICK i \in 1..3 : CreationOrder[i] = e
    <3>1. CreationOrder[1] = "client" /\ CreationOrder[2] = "ipv4" /\ CreationOrder[3] = "ipv6"
      BY DEF CreationOrder
    <3>2. 1 \in 1..3 /\ 2 \in 1..3 /\ 3 \in 1..3
      OBVIOUS
    <3>3. QED  BY <2>2, <3>1, <3>2
  <2>4. i \in M
    BY <2>1, <2>3 DEF Missing
  <2>5. QED  BY <2>4
<1>2. \E i \in M : \A j \in M : i <= j
  <2>1. \A j \in M : j \in {1, 2, 3}
    OBVIOUS
  <2> HIDE DEF M
  <2>2. CASE 1 \in M
    BY <2>1, <2>2
  <2>3. CASE 1 \notin M /\ 2 \in M
    BY <2>1, <2>3
  <2>4. CASE 1 \notin M /\ 2 \notin M
    BY <1>1, <2>1, <2>4
  <2>5. QED  BY <2>2, <2>3, <2>4
<1>3. Min(M) \in M
  BY <1>2 DEF Min
<1>4. CreationOrder[Min(M)] \in Missing
  BY <1>3
<1>5. QED  BY <1>4 DEF NextEndpoint, Missing

LEMMA TasksStay ==
    ASSUME Tasks, UNCHANGED <<pc, open, closing, fresh, resolving, inbox>>
    PROVE  Tasks'
  BY DEF Tasks, Pending, PeersOf, Endpoints

\* A datagram that comes in is one task more, for an endpoint that has room.
LEMMA ClientTask ==
    ASSUME Tasks, NEW s \in Senders, ClientDatagram(s)
    PROVE  Tasks'
<1>1. /\ UNCHANGED <<pc, open, closing, resolving, inbox>>
      /\ fresh' = [fresh EXCEPT ![s] = @ + 1] /\ Pending("client") < MaxPending
  BY DEF ClientDatagram
<1>2. fresh \in [Senders -> Nat]
  BY DEF Tasks
<1>3. Total(fresh', Senders) = Total(fresh, Senders) + 1
  <2>1. OneMoreAt(fresh', fresh, Senders, s)
    BY <1>1, <1>2 DEF OneMoreAt
  <2>2. QED  BY <2>1, FamiliesOnly, OneMore
<1>4. Total(fresh', Senders) + Total(resolving, Senders) <= MaxPending
  BY <1>1, <1>3, FamiliesOnly, PendingParts DEF Pending
<1>5. \A e \in Endpoints : Pending(e)' <= MaxPending
  BY <1>1, <1>4 DEF Pending, Tasks, PeersOf
<1>6. QED  BY <1>1, <1>2, <1>5 DEF Tasks, Endpoints

LEMMA PeerTask ==
    ASSUME Tasks, NEW p \in Peers, PeerDatagram(p)
    PROVE  Tasks'
<1>1. /\ UNCHANGED <<pc, open, closing, fresh, resolving>> /\ FamilyOf[p] \in open
      /\ inbox' = [inbox EXCEPT ![p] = @ + 1] /\ Pending(FamilyOf[p]) < MaxPending
  BY DEF PeerDatagram
<1>2. inbox \in [Peers -> Nat]
  BY FamiliesOnly DEF Tasks
<1>3. ASSUME NEW e
      PROVE  /\ p \in PeersOf(e) => Total(inbox', PeersOf(e)) = Total(inbox, PeersOf(e)) + 1
             /\ p \notin PeersOf(e) => Total(inbox', PeersOf(e)) = Total(inbox, PeersOf(e))
             /\ Total(inbox', PeersOf(e)) \in Nat
  <2>1. OneMoreAt(inbox', inbox, PeersOf(e), p)
    BY <1>1, <1>2 DEF PeersOf, OneMoreAt
  <2>2. IsFiniteSet(PeersOf(e))
    BY FamiliesOnly
  <2>3. QED  BY <2>1, <2>2, OneMore
<1>4. Total(inbox, PeersOf(FamilyOf[p])) < MaxPending
  BY <1>1, FamiliesOnly DEF Pending
<1>5. ASSUME NEW e \in Endpoints PROVE Pending(e)' <= MaxPending
  <2>1. CASE e = "client"
    BY <1>1, <2>1 DEF Pending, Tasks
  <2>2. CASE e # "client" /\ e = FamilyOf[p]
    <3>1. Pending(e)' = Total(inbox', PeersOf(e))
      BY <2>2 DEF Pending, PeersOf
    <3>2. QED  BY <1>3, <1>4, <2>2, <3>1, FamiliesOnly, PendingParts
  <2>3. CASE e # "client" /\ e # FamilyOf[p]
    <3>1. Pending(e)' = Total(inbox', PeersOf(e)) /\ p \notin PeersOf(e)
      BY <2>3 DEF Pending, PeersOf
    <3>2. QED  BY <1>3, <2>3, <3>1 DEF Pending, Tasks
  <2>4. QED  BY <2>1, <2>2, <2>3
<1>6. inbox[p] + 1 <= MaxPending
  BY <1>2, <1>4, FamiliesOnly, PendingParts
<1>7. inbox' \in [Peers -> 0..MaxPending]
  BY <1>1, <1>2, <1>6, FamiliesOnly DEF Tasks
<1>8. QED  BY <1>1, <1>5, <1>7 DEF Tasks, Endpoints

\* A task of the client's that goes on takes nobody's place: it ends, or waits for
\* its resolution.
LEMMA TaskGoesOn ==
    ASSUME Tasks, UNCHANGED <<pc, open, closing, inbox>>, NEW s \in Senders,
           \/ /\ fresh[s] > 0 /\ fresh' = [fresh EXCEPT ![s] = @ - 1]
              /\ resolving' = resolving
           \/ /\ fresh[s] > 0 /\ fresh' = [fresh EXCEPT ![s] = @ - 1]
              /\ resolving' = [resolving EXCEPT ![s] = @ + 1]
           \/ /\ resolving[s] > 0 /\ resolving' = [resolving EXCEPT ![s] = @ - 1]
              /\ fresh' = fresh
    PROVE  Tasks'
<1> DEFINE F == Total(fresh, Senders)
           R == Total(resolving, Senders)
<1>1. fresh \in [Senders -> Nat] /\ resolving \in [Senders -> Nat]
  BY DEF Tasks
<1>2. F \in Nat /\ R \in Nat
  BY PendingParts
<1>3. /\ fresh[s] > 0 /\ fresh' = [fresh EXCEPT ![s] = @ - 1] => F = Total(fresh', Senders) + 1
      /\ fresh' = fresh => F = Total(fresh', Senders)
      /\ Total(fresh', Senders) \in Nat
  <2>1. CASE fresh[s] > 0 /\ fresh' = [fresh EXCEPT ![s] = @ - 1]
    <3>1. OneMoreAt(fresh, fresh', Senders, s)
      BY <1>1, <2>1 DEF OneMoreAt
    <3>2. F = Total(fresh', Senders) + 1 /\ Total(fresh', Senders) \in Nat
      BY <3>1, FamiliesOnly, OneMore
    <3>3. fresh'[s] # fresh[s]
      BY <1>1, <2>1
    <3>4. QED  BY <3>2, <3>3
  <2>2. CASE fresh' = fresh
    BY <1>1, <1>2, <2>2
  <2>3. QED  BY <2>1, <2>2
<1>4. /\ resolving[s] > 0 /\ resolving' = [resolving EXCEPT ![s] = @ - 1] => R = Total(resolving', Senders) + 1
      /\ resolving' = [resolving EXCEPT ![s] = @ + 1] => Total(resolving', Senders) = R + 1
      /\ resolving' = resolving => R = Total(resolving', Senders)
      /\ Total(resolving', Senders) \in Nat
  <2>1. CASE resolving[s] > 0 /\ resolving' = [resolving EXCEPT ![s] = @ - 1]
    <3>1. OneMoreAt(resolving, resolving', Senders, s)
      BY <1>1, <2>1 DEF OneMoreAt
    <3>2. R = Total(resolving', Senders) + 1 /\ Total(resolving', Senders) \in Nat
      BY <3>1, FamiliesOnly, OneMore
    <3>3. resolving'[s] = resolving[s] - 1 /\ resolving[s] \in Nat
      BY <1>1, <2>1
    <3>4. resolving' # resolving /\ resolving' # [resolving EXCEPT ![s] = @ + 1]
      BY <1>1, <3>3
    <3>5. QED  BY <3>2, <3>4
  <2>2. CASE resolving' = [resolving EXCEPT ![s] = @ + 1]
    <3>1. OneMoreAt(resolving', resolving, Senders, s)
      BY <1>1, <2>2 DEF OneMoreAt
    <3>2. Total(resolving', Senders) = R + 1 /\ Total(resolving', Senders) \in Nat
      BY <3>1, FamiliesOnly, OneMore
    <3>3. resolving'[s] = resolving[s] + 1 /\ resolving[s] \in Nat
      BY <1>1, <2>2
    <3>4. resolving' # resolving /\ resolving' # [resolving EXCEPT ![s] = @ - 1]
      BY <1>1, <3>3
    <3>5. QED  BY <3>2, <3>4
  <2>3. CASE resolving' = resolving
    <3>1. resolving' # [resolving EXCEPT ![s] = @ - 1] /\ resolving' # [resolving EXCEPT ![s] = @ + 1]
      BY <1>1, <2>3
    <3>2. QED  BY <1>2, <2>3, <3>1
  <2>4. QED  BY <2>1, <2>2, <2>3
<1>5. Total(fresh', Senders) + Total(resolving', Senders) <= F + R
  BY <1>2, <1>3, <1>4
<1>6. F \in Nat /\ R \in Nat
  BY <1>2
<1>7. fresh' \in [Senders -> Nat] /\ resolving' \in [Senders -> Nat]
  BY <1>1
<1>8. ASSUME NEW e \in Endpoints PROVE Pending(e)' <= MaxPending
  <2>1. CASE e = "client"
    <3>1. F + R <= MaxPending
      BY <2>1 DEF Pending, Tasks
    <3>2. Total(fresh', Senders) \in Nat /\ Total(resolving', Senders) \in Nat
      BY <1>3, <1>4
    <3>3. Pending(e)' = Total(fresh', Senders) + Total(resolving', Senders)
      BY <2>1 DEF Pending
    <3> HIDE DEF F, R
    <3>4. QED  BY <1>2, <1>5, <3>1, <3>2, <3>3, FamiliesOnly
  <2>2. CASE e # "client"
    BY <2>2 DEF Pending, Tasks, PeersOf
  <2>3. QED  BY <2>1, <2>2
<1>9. QED  BY <1>7, <1>8 DEF Tasks, Endpoints

LEMMA ReplyTask ==
    ASSUME Tasks, NEW p \in Peers, Reply(p)
    PROVE  Tasks'
<1>1. /\ UNCHANGED <<pc, open, closing, fresh, resolving>> /\ inbox[p] > 0
      /\ inbox' = [inbox EXCEPT ![p] = @ - 1]
  BY DEF Reply
<1>2. inbox \in [Peers -> Nat]
  BY FamiliesOnly DEF Tasks
<1>3. ASSUME NEW e
      PROVE  /\ p \in PeersOf(e) => Total(inbox, PeersOf(e)) = Total(inbox', PeersOf(e)) + 1
             /\ p \notin PeersOf(e) => Total(inbox, PeersOf(e)) = Total(inbox', PeersOf(e))
             /\ Total(inbox', PeersOf(e)) \in Nat
  <2>1. OneMoreAt(inbox, inbox', PeersOf(e), p)
    BY <1>1, <1>2 DEF PeersOf, OneMoreAt
  <2>2. IsFiniteSet(PeersOf(e))
    BY FamiliesOnly
  <2>3. QED  BY <2>1, <2>2, OneMore
<1>4. ASSUME NEW e \in Endpoints PROVE Pending(e)' <= MaxPending
  <2>1. CASE e = "client"
    BY <1>1, <2>1 DEF Pending, Tasks
  <2>2. CASE e # "client"
    <3>1. Pending(e)' = Total(inbox', PeersOf(e)) /\ Total(inbox, PeersOf(e)) <= MaxPending
      BY <2>2 DEF Pending, PeersOf, Tasks
    <3>2. QED  BY <1>3, <3>1, FamiliesOnly, PendingParts
  <2>3. QED  BY <2>1, <2>2
<1>5. inbox' \in [Peers -> 0..MaxPending]
  BY <1>1, FamiliesOnly DEF Tasks
<1>6. QED  BY <1>1, <1>4, <1>5 DEF Tasks, Endpoints

\* With an endpoint its tasks go, and none of another endpoint's.
LEMMA LostTasks ==
    ASSUME Tasks, NEW e \in Endpoints, ConnectionLost(e)
    PROVE  Tasks'
<1>1. UNCHANGED <<pc, open>> /\ closing' \subseteq Endpoints
  BY DEF ConnectionLost, Tasks, Endpoints
<1>2. CASE e = "client"
  <2>1. /\ fresh' = [s \in Senders |-> 0] /\ resolving' = [s \in Senders |-> 0]
        /\ inbox' = inbox
    BY <1>2 DEF ConnectionLost
  <2>2. \A s \in Senders : fresh'[s] = 0 /\ resolving'[s] = 0
    BY <2>1
  <2>3. Total(fresh', Senders) = 0 /\ Total(resolving', Senders) = 0
    BY <2>2, FamiliesOnly, TotalZero
  <2>4. \A d \in Endpoints : Pending(d)' <= MaxPending
    BY <2>1, <2>3, FamiliesOnly DEF Pending, Tasks, PeersOf
  <2>5. QED  BY <1>1, <2>1, <2>4 DEF Tasks, Endpoints
<1>3. CASE e # "client"
  <2>1. /\ inbox' = [p \in Peers |-> IF FamilyOf[p] = e THEN 0 ELSE inbox[p]]
        /\ fresh' = fresh /\ resolving' = resolving
    BY <1>3 DEF ConnectionLost
  <2>2. inbox' \in [Peers -> 0..MaxPending]
    BY <2>1, FamiliesOnly DEF Tasks
  <2>3. ASSUME NEW d \in Endpoints PROVE Pending(d)' <= MaxPending
    <3>1. CASE d = "client"
      BY <2>1, <3>1 DEF Pending, Tasks
    <3>2. CASE d # "client" /\ d = e
      <4>1. \A p \in PeersOf(d) : inbox'[p] = 0
        BY <2>1, <3>2 DEF PeersOf
      <4>2. Total(inbox', PeersOf(d)) = 0
        BY <4>1, FamiliesOnly, TotalZero
      <4>3. QED  BY <3>2, <4>2, FamiliesOnly DEF Pending, PeersOf
    <3>3. CASE d # "client" /\ d # e
      <4>1. \A p \in PeersOf(d) : inbox[p] \in Nat /\ inbox'[p] = IF p = None THEN inbox[p] + 0 ELSE inbox[p]
        BY <2>1, <3>3, FamiliesOnly DEF PeersOf, Tasks
      <4>2. 0 \in {0, 1}
        OBVIOUS
      <4>3. Total(inbox', PeersOf(d)) = IF None \in PeersOf(d) THEN Total(inbox, PeersOf(d)) + 0
                                        ELSE Total(inbox, PeersOf(d))
        BY <4>1, <4>2, FamiliesOnly, TotalMoves
      <4>4. Total(inbox', PeersOf(d)) = Total(inbox, PeersOf(d))
        BY <4>3, PendingParts
      <4>5. QED  BY <3>3, <4>4 DEF Pending, PeersOf, Tasks
    <3>4. QED  BY <3>1, <3>2, <3>3
  <2>4. QED  BY <1>1, <2>1, <2>2, <2>3 DEF Tasks, Endpoints
<1>4. QED  BY <1>2, <1>3

LEMMA StepTasks == ASSUME Tasks, [Next]_vars PROVE Tasks'
<1>1. CASE UNCHANGED vars
  BY <1>1, TasksStay DEF vars
<1>2. CASE Created
  <2>1. UNCHANGED <<closing, fresh, resolving, inbox>>
    BY <1>2 DEF Created
  <2>2. NextEndpoint \in Endpoints
    BY <1>2, NextIsMissing DEF Created, Tasks
  <2>3. open' \subseteq Endpoints /\ (pc' = "creating" => open' # Endpoints)
    BY <1>2, <2>2 DEF Created, Tasks
  <2>4. QED  BY <2>1, <2>3 DEF Tasks, Pending, PeersOf, Endpoints
<1>3. CASE CreateFails \/ AssociationEnds
  <2>1. /\ pc' = "ended" /\ open' = {} /\ closing' = closing \cup open
        /\ UNCHANGED <<fresh, resolving, inbox>>
    BY <1>3 DEF CreateFails, AssociationEnds, Close
  <2>2. QED  BY <2>1 DEF Tasks, Pending, PeersOf, Endpoints
<1>4. CASE \E e \in Endpoints : ConnectionLost(e)
  BY <1>4, LostTasks
<1>5. ASSUME NEW s \in Senders,
             Rejected(s) \/ Malformed(s) \/ NamesHost(s) \/ Unresolved(s)
      PROVE  Tasks'
  <2>1. UNCHANGED <<pc, open, closing, inbox>>
    BY <1>5 DEF Rejected, Malformed, NamesHost, Unresolved, Begins
  <2>2. CASE Rejected(s) \/ Malformed(s)
    BY <2>1, <2>2, TaskGoesOn DEF Rejected, Malformed, Begins
  <2>3. CASE NamesHost(s)
    BY <2>1, <2>3, TaskGoesOn DEF NamesHost, Begins
  <2>4. CASE Unresolved(s)
    BY <2>1, <2>4, TaskGoesOn DEF Unresolved
  <2>5. QED  BY <1>5, <2>2, <2>3, <2>4
<1>6. ASSUME NEW s \in Senders, NEW p \in Peers, NamesAddress(s, p) PROVE Tasks'
  BY <1>6, TaskGoesOn DEF NamesAddress, Begins
<1>7. ASSUME NEW s \in Senders, NEW p \in Peers, Resolved(s, p) PROVE Tasks'
  BY <1>7, TaskGoesOn DEF Resolved
<1>8. CASE \E p \in Peers : Reply(p)
  BY <1>8, ReplyTask
<1>9. CASE Tick
  BY <1>9, TasksStay DEF Tick
<1>10. CASE \/ \E s \in Senders : ClientDatagram(s)
            \/ \E p \in Peers : PeerDatagram(p)
  BY <1>10, ClientTask, PeerTask
<1>11. QED
  BY <1>1, <1>2, <1>3, <1>4, <1>5, <1>6, <1>7, <1>8, <1>9, <1>10
     DEF Next, LoopStep, ResolutionEnds

\* For any table size, TTL, limit of tasks and number of peers and senders: the
\* table and the tasks stay within their limits, every entry is the one locked
\* client's, and a peer among the max_mappings ones used last within the TTL is
\* answered for.
THEOREM AssociationKeepsItsTable == Spec => []AssociationSound
<1>1. Init => TableInv /\ Filled /\ Tasks
  BY InitTable, InitFilled, InitTasks
<1>2. (TableInv /\ Filled /\ Tasks) /\ [Next]_vars => (TableInv /\ Filled /\ Tasks)'
  BY StepTable, StepFilled, StepTasks
<1>3. TableInv /\ Filled /\ Tasks => AssociationSound
  <2> SUFFICES ASSUME TableInv, Filled, Tasks PROVE AssociationSound
    OBVIOUS
  <2>1. fresh \in [Senders -> 0..MaxPending] /\ resolving \in [Senders -> 0..MaxPending]
    <3>1. Total(fresh, Senders) + Total(resolving, Senders) <= MaxPending
      BY DEF Tasks, Pending, Endpoints
    <3>2. ASSUME NEW s \in Senders PROVE fresh[s] \in 0..MaxPending /\ resolving[s] \in 0..MaxPending
      <4>1. /\ fresh[s] \in Nat /\ resolving[s] \in Nat
            /\ fresh[s] <= Total(fresh, Senders) /\ resolving[s] <= Total(resolving, Senders)
            /\ Total(fresh, Senders) \in Nat /\ Total(resolving, Senders) \in Nat
        BY PendingParts DEF Tasks
      <4>2. QED  BY <3>1, <4>1, FamiliesOnly
    <3>3. QED  BY <3>2 DEF Tasks
  <2>2. TypeOK
    BY <2>1 DEF TypeOK, TableInv, Table, Times, Filled, Tasks
  <2>3. OneClient
    BY DEF TableInv, Owned, OneClient, Mapped
  <2>4. RecentPeersMapped
    BY FilledKeepsRecent DEF TableInv
  <2>5. QED  BY <2>2, <2>3, <2>4 DEF AssociationSound
<1>4. QED  BY <1>1, <1>2, <1>3, PTL DEF Spec

-----------------------------------------------------------------------------
(* TcpRelay: a relay is a pipe.  The buffers of a direction hold, one after *)
(* the other, the bytes that were sent and not taken; the end is written    *)
(* when all of them were read.                                              *)

\* A row of bytes that follow the first k.
Numbered(s, k) == \A i \in 1..Len(s) : s[i] = k + i

LEMMA NumberedAppend ==
  ASSUME NEW s \in Seq(Nat), NEW k \in Nat, Numbered(s, k)
  PROVE  /\ Append(s, k + Len(s) + 1) \in Seq(Nat)
         /\ Len(Append(s, k + Len(s) + 1)) = Len(s) + 1
         /\ Numbered(Append(s, k + Len(s) + 1), k)
  BY DEF Numbered

LEMMA NumberedTail ==
  ASSUME NEW s \in Seq(Nat), NEW k \in Nat, Numbered(s, k), s # << >>
  PROVE  /\ Head(s) = k + 1
         /\ Tail(s) \in Seq(Nat) /\ Len(Tail(s)) = Len(s) - 1
         /\ Numbered(Tail(s), k + 1)
  BY DEF Numbered

LEMMA NumberedSplit ==
  ASSUME NEW s \in Seq(Nat), NEW k \in Nat, Numbered(s, k), NEW n \in 0..Len(s)
  PROVE  /\ SubSeq(s, 1, n) \in Seq(Nat) /\ Len(SubSeq(s, 1, n)) = n
         /\ Numbered(SubSeq(s, 1, n), k)
         /\ SubSeq(s, n + 1, Len(s)) \in Seq(Nat) /\ Len(SubSeq(s, n + 1, Len(s))) = Len(s) - n
         /\ Numbered(SubSeq(s, n + 1, Len(s)), k + n)
<1>1. Len(s) \in Nat
  OBVIOUS
<1>2. SubSeq(s, 1, n) \in Seq(Nat) /\ Len(SubSeq(s, 1, n)) = n /\ \A i \in 1..n : SubSeq(s, 1, n)[i] = s[i]
  <2>1. \A i \in 1..n : s[i] \in Nat
    OBVIOUS
  <2>2. SubSeq(s, 1, n) = [i \in 1..n |-> s[i]]
    BY <1>1
  <2>3. QED  BY <2>1, <2>2
<1>3. SubSeq(s, n + 1, Len(s)) \in Seq(Nat) /\ Len(SubSeq(s, n + 1, Len(s))) = Len(s) - n
      /\ \A i \in 1..Len(s) - n : SubSeq(s, n + 1, Len(s))[i] = s[n + i]
  <2> DEFINE l == Len(s)
             rest == SubSeq(s, n + 1, l)
  <2>1. \A i \in n + 1..l : s[i] \in Nat
    BY <1>1
  <2>2. n + 1 \in Int /\ l \in Int
    BY <1>1
  <2>3. /\ rest \in Seq(Nat) /\ Len(rest) = (IF n + 1 <= l THEN l - (n + 1) + 1 ELSE 0)
        /\ \A i \in 1..l - (n + 1) + 1 : rest[i] = s[n + 1 + i - 1]
    BY <2>1, <2>2, SubSeqProperties
  <2> HIDE DEF l, rest
  <2>4. l \in Nat /\ n \in 0..l
    BY <1>1 DEF l
  <2>5. Len(rest) = l - n
    BY <2>3, <2>4
  <2>6. l - (n + 1) + 1 = l - n
    BY <2>4
  <2>7. \A i \in 1..l - n : n + 1 + i - 1 = n + i
    BY <2>4
  <2>8. \A i \in 1..l - n : rest[i] = s[n + i]
    BY <2>3, <2>6, <2>7
  <2>9. QED  BY <2>3, <2>5, <2>8 DEF l, rest
<1>4. Numbered(SubSeq(s, 1, n), k)
  BY <1>1, <1>2 DEF Numbered
<1>5. Numbered(SubSeq(s, n + 1, Len(s)), k + n)
  BY <1>1, <1>3 DEF Numbered
<1>6. QED  BY <1>2, <1>3, <1>4, <1>5

LEMMA NumberedConcat ==
  ASSUME NEW s \in Seq(Nat), NEW t \in Seq(Nat), NEW k \in Nat,
         Numbered(s, k), Numbered(t, k + Len(s))
  PROVE  /\ s \o t \in Seq(Nat) /\ Len(s \o t) = Len(s) + Len(t)
         /\ Numbered(s \o t, k)
  BY DEF Numbered

\* Where the bytes of a direction are: s were sent, t taken, and the buffers
\* hold the rest in order, o nearer to the destination.  What waits for a lost
\* connection is dropped, and what follows it goes nowhere.
Placed(t, o, i, s, lost) ==
    /\ t \in Seq(Nat) /\ o \in Seq(Nat) /\ i \in Seq(Nat) /\ s \in Nat
    /\ Numbered(o, Len(t))
    /\ Len(t) + Len(o) <= s
    /\ ~lost => Numbered(i, Len(t) + Len(o)) /\ Len(t) + Len(o) + Len(i) = s

LEMMA Lengths == ASSUME NEW t \in Seq(Nat) PROVE Len(t) \in Nat
  OBVIOUS

LEMMA PlacedSent ==
  ASSUME NEW t, NEW o, NEW i, NEW s, NEW lost \in BOOLEAN, Placed(t, o, i, s, lost)
  PROVE  Placed(t, o, Append(i, s + 1), s + 1, lost)
<1>1. t \in Seq(Nat) /\ o \in Seq(Nat) /\ i \in Seq(Nat) /\ s \in Nat
      /\ Numbered(o, Len(t)) /\ Len(t) + Len(o) <= s
  BY DEF Placed
<1>2. Len(t) \in Nat /\ Len(o) \in Nat /\ Len(i) \in Nat
  BY <1>1, Lengths
<1>3. Append(i, s + 1) \in Seq(Nat) /\ s + 1 \in Nat /\ Len(t) + Len(o) <= s + 1
  BY <1>1, <1>2
<1> DEFINE i2 == Append(i, s + 1)
<1>4. ASSUME ~lost PROVE Numbered(i2, Len(t) + Len(o)) /\ Len(t) + Len(o) + Len(i2) = s + 1
  <2>1. Numbered(i, Len(t) + Len(o)) /\ Len(t) + Len(o) + Len(i) = s
    BY <1>4 DEF Placed
  <2>2. Len(t) + Len(o) \in Nat /\ s + 1 = (Len(t) + Len(o)) + Len(i) + 1
    BY <1>1, <1>2, <2>1
  <2>3. i2 = Append(i, Len(t) + Len(o) + Len(i) + 1)
    BY <2>1
  <2>4. Numbered(i2, Len(t) + Len(o)) /\ Len(i2) = Len(i) + 1
    BY <1>1, <2>1, <2>2, <2>3, NumberedAppend
  <2> HIDE DEF i2
  <2>5. QED  BY <1>1, <1>2, <2>1, <2>4
<1>5. QED  BY <1>1, <1>3, <1>4 DEF Placed

LEMMA PlacedTaken ==
  ASSUME NEW t, NEW o, NEW i, NEW s, NEW lost \in BOOLEAN, Placed(t, o, i, s, lost), o # << >>
  PROVE  /\ Head(o) = Len(t) + 1 /\ Len(t) < s /\ Len(Tail(o)) <= Len(o)
         /\ Placed(Append(t, Head(o)), Tail(o), i, s, lost)
<1>1. t \in Seq(Nat) /\ o \in Seq(Nat) /\ i \in Seq(Nat) /\ s \in Nat
      /\ Numbered(o, Len(t)) /\ Len(t) + Len(o) <= s
  BY DEF Placed
<1>2. Len(t) \in Nat /\ Len(o) \in Nat /\ Len(i) \in Nat
  BY <1>1, Lengths
<1>3. /\ Head(o) = Len(t) + 1 /\ Tail(o) \in Seq(Nat) /\ Len(Tail(o)) = Len(o) - 1
      /\ Numbered(Tail(o), Len(t) + 1)
  BY <1>1, <1>2, NumberedTail
<1>4. Len(Tail(o)) \in Nat
  BY <1>3, Lengths
<1>5. Append(t, Head(o)) \in Seq(Nat) /\ Len(Append(t, Head(o))) = Len(t) + 1
  BY <1>1, <1>2, <1>3
<1>6. Len(Append(t, Head(o))) + Len(Tail(o)) = Len(t) + Len(o)
  BY <1>2, <1>3, <1>4, <1>5
<1>7. Len(t) < s /\ Len(Tail(o)) <= Len(o)
  BY <1>1, <1>2, <1>3, <1>4
<1>8. Placed(Append(t, Head(o)), Tail(o), i, s, lost)
  BY <1>1, <1>3, <1>5, <1>6 DEF Placed
<1>9. QED  BY <1>3, <1>7, <1>8

LEMMA Moved ==
  ASSUME NEW a \in Nat, NEW b \in Nat, NEW c \in Nat, NEW n \in Nat, n <= c
  PROVE  a + (b + n) <= a + b + c /\ a + (b + n) + (c - n) = a + b + c /\ a + (b + n) = a + b + n
  OBVIOUS

\* Moving n bytes from the input to the output loses and reorders nothing.
ForwardedWhole(t, o, i, s, n) ==
    /\ Placed(t, o \o SubSeq(i, 1, n), SubSeq(i, n + 1, Len(i)), s, FALSE)
    /\ Len(o \o SubSeq(i, 1, n)) = Len(o) + n

LEMMA PlacedForward ==
  ASSUME NEW t, NEW o, NEW i, NEW s, Placed(t, o, i, s, FALSE), NEW n \in 0..Len(i)
  PROVE  ForwardedWhole(t, o, i, s, n)
<1>1. t \in Seq(Nat) /\ o \in Seq(Nat) /\ i \in Seq(Nat) /\ s \in Nat
      /\ Numbered(o, Len(t)) /\ Numbered(i, Len(t) + Len(o)) /\ Len(t) + Len(o) + Len(i) = s
  BY DEF Placed
<1>2. Len(t) \in Nat /\ Len(o) \in Nat /\ Len(i) \in Nat /\ n \in Nat /\ n <= Len(i)
  BY <1>1, Lengths
<1>3. Len(t) + Len(o) \in Nat
  BY <1>2
<1> DEFINE first == SubSeq(i, 1, n)
           rest == SubSeq(i, n + 1, Len(i))
<1>4. /\ first \in Seq(Nat) /\ Len(first) = n /\ Numbered(first, Len(t) + Len(o))
      /\ rest \in Seq(Nat) /\ Len(rest) = Len(i) - n /\ Numbered(rest, Len(t) + Len(o) + n)
  BY <1>1, <1>2, <1>3, NumberedSplit
<1> HIDE DEF first, rest
<1>5. o \o first \in Seq(Nat) /\ Len(o \o first) = Len(o) + n /\ Numbered(o \o first, Len(t))
  BY <1>1, <1>2, <1>4, NumberedConcat
<1> DEFINE all == o \o first
<1> HIDE DEF all
<1>6. Len(all) = Len(o) + n /\ Len(rest) = Len(i) - n
  BY <1>4, <1>5 DEF all
<1>7. Len(t) + Len(all) = Len(t) + Len(o) + n /\ Len(t) + Len(all) <= s /\ Len(t) + Len(all) + Len(rest) = s
  <2>1. Len(t) + Len(all) = Len(t) + (Len(o) + n)
        /\ Len(t) + Len(all) + Len(rest) = Len(t) + (Len(o) + n) + (Len(i) - n)
    BY <1>6
  <2>2. /\ Len(t) + (Len(o) + n) <= Len(t) + Len(o) + Len(i)
        /\ Len(t) + (Len(o) + n) + (Len(i) - n) = Len(t) + Len(o) + Len(i)
        /\ Len(t) + (Len(o) + n) = Len(t) + Len(o) + n
    BY <1>2, Moved
  <2>3. QED  BY <1>1, <2>1, <2>2
<1>8. Placed(t, o \o first, rest, s, FALSE)
  BY <1>1, <1>4, <1>5, <1>7 DEF Placed, all
<1>9. QED  BY <1>5, <1>8 DEF first, rest, ForwardedWhole

\* What is lost is lost, whatever becomes of the two buffers.
LEMMA PlacedLost ==
  ASSUME NEW t, NEW o, NEW i, NEW s, NEW lost \in BOOLEAN, Placed(t, o, i, s, lost),
         NEW j \in Seq(Nat)
  PROVE  Placed(t, o, j, s, TRUE) /\ Placed(t, << >>, j, s, TRUE)
<1>1. t \in Seq(Nat) /\ o \in Seq(Nat) /\ s \in Nat /\ Numbered(o, Len(t)) /\ Len(t) + Len(o) <= s
  BY DEF Placed
<1>2. Len(t) \in Nat /\ Len(o) \in Nat
  BY <1>1, Lengths
<1>3. << >> \in Seq(Nat) /\ Len(<< >>) = 0 /\ Numbered(<< >>, Len(t)) /\ Len(t) + 0 <= s
  BY <1>1, <1>2 DEF Numbered
<1>4. QED  BY <1>1, <1>3 DEF Placed

LEMMA PlacedAll ==
  ASSUME NEW t, NEW s, Placed(t, << >>, << >>, s, FALSE)
  PROVE  Len(t) = s
<1>1. t \in Seq(Nat) /\ s \in Nat /\ Len(<< >>) = 0
      /\ Len(t) + Len(<< >>) + Len(<< >>) = s
  BY DEF Placed
<1>2. Len(t) \in Nat
  BY <1>1, Lengths
<1>3. QED  BY <1>1, <1>2


\* What holds of a direction: s to l are its part of sent, sourceEof, taken,
\* inBuffer, outBuffer, eof, forwarder and its destination's link.
DirectionInv(s, se, t, i, o, e, f, l) ==
    /\ Placed(t, o, i, s, l = "reset")
    /\ Len(o) <= HighWater + ReadMax
    /\ f = "reading" => Len(o) <= HighWater
    /\ f \in {"finishing", "done"} => se /\ i = << >>
    /\ e # "none" => f \notin {"reading", "draining"}
    /\ e = "written" => se /\ i = << >>
    /\ e = "seen" => o = << >>

LEMMA RelayConsts == HighWater \in Nat /\ ReadMax \in Nat /\ ReadMax > 0
  BY RelayAssumption

LEMMA DirectionArrive ==
  ASSUME NEW s, NEW se, NEW t, NEW i, NEW o, NEW e, NEW f, NEW l,
         DirectionInv(s, se, t, i, o, e, f, l), ~se
  PROVE  DirectionInv(s + 1, se, t, Append(i, s + 1), o, e, f, l)
<1>1. Placed(t, o, Append(i, s + 1), s + 1, l = "reset")
  BY PlacedSent DEF DirectionInv
<1>2. QED  BY <1>1 DEF DirectionInv

LEMMA DirectionTake ==
  ASSUME NEW s, NEW se, NEW t, NEW i, NEW o, NEW e, NEW f, NEW l,
         DirectionInv(s, se, t, i, o, e, f, l), o # << >>
  PROVE  /\ Head(o) = Len(t) + 1 /\ Len(t) < s /\ e # "seen"
         /\ DirectionInv(s, se, Append(t, Head(o)), i, Tail(o), e, f, l)
<1>1. /\ Head(o) = Len(t) + 1 /\ Len(t) < s /\ Len(Tail(o)) <= Len(o)
      /\ Placed(Append(t, Head(o)), Tail(o), i, s, l = "reset")
  BY PlacedTaken DEF DirectionInv
<1>2. Len(o) \in Nat /\ Len(Tail(o)) \in Nat
  BY <1>1, Lengths DEF DirectionInv, Placed
<1>3. \A b \in Nat : Len(o) <= b => Len(Tail(o)) <= b
  BY <1>1, <1>2
<1>4. HighWater \in Nat /\ HighWater + ReadMax \in Nat
  BY RelayConsts
<1>5. Len(Tail(o)) <= HighWater + ReadMax /\ (f = "reading" => Len(Tail(o)) <= HighWater)
  BY <1>3, <1>4 DEF DirectionInv
<1>6. QED  BY <1>1, <1>5 DEF DirectionInv

LEMMA DirectionBreak ==
  ASSUME NEW s, NEW se, NEW t, NEW i, NEW o, NEW e, NEW f, NEW l,
         DirectionInv(s, se, t, i, o, e, f, l)
  PROVE  DirectionInv(s, se, t, i, << >>, e, f, "reset")
<1>1. Placed(t, << >>, i, s, TRUE)
  <2>1. i \in Seq(Nat)
    BY DEF DirectionInv, Placed
  <2>2. QED  BY <2>1, PlacedLost DEF DirectionInv
<1>2. Len(<< >>) = 0 /\ 0 <= HighWater + ReadMax /\ 0 <= HighWater
  BY RelayConsts
<1>3. QED  BY <1>1, <1>2 DEF DirectionInv

LEMMA DirectionForward ==
  ASSUME NEW s, NEW se, NEW t, NEW i, NEW o, NEW e,
         DirectionInv(s, se, t, i, o, e, "reading", "open"),
         NEW n \in 0..Len(i), n <= ReadMax
  PROVE  DirectionInv(s, se, t, SubSeq(i, n + 1, Len(i)), o \o SubSeq(i, 1, n), e, "draining", "open")
<1>1. Placed(t, o, i, s, FALSE) /\ Len(o) <= HighWater /\ e = "none"
  BY DEF DirectionInv
<1>2. Len(o) \in Nat /\ n \in Nat
  BY <1>1, Lengths DEF Placed
<1>a. ForwardedWhole(t, o, i, s, n)
  BY <1>1, PlacedForward
<1> DEFINE all == o \o SubSeq(i, 1, n)
           rest == SubSeq(i, n + 1, Len(i))
<1>3. Placed(t, all, rest, s, FALSE) /\ Len(all) = Len(o) + n
  BY <1>a DEF ForwardedWhole
<1> HIDE DEF all, rest
<1>4. Len(all) <= HighWater + ReadMax
  BY <1>1, <1>2, <1>3, RelayConsts
<1>5. DirectionInv(s, se, t, rest, all, e, "draining", "open")
  BY <1>1, <1>3, <1>4 DEF DirectionInv
<1>6. QED  BY <1>5 DEF all, rest

LEMMA DirectionDrop ==
  ASSUME NEW s, NEW se, NEW t, NEW i, NEW o, NEW e, NEW j \in Seq(Nat),
         DirectionInv(s, se, t, i, o, e, "reading", "reset")
  PROVE  DirectionInv(s, se, t, j, o, e, "draining", "reset")
<1>1. Placed(t, o, j, s, TRUE)
  BY PlacedLost DEF DirectionInv
<1>2. QED  BY <1>1 DEF DirectionInv

\* The direction's own part of the state.
DirectionHolds(d) ==
    DirectionInv(sent[d], sourceEof[d], taken[d], inBuffer[d], outBuffer[d],
                 eof[d], forwarder[d], link[Dest(d)])

\* Nothing is closed before both tasks have ended, and without a failure they
\* are done.
TasksInv ==
    /\ relay = "waiting" => /\ \A e \in Ends : link[e] \in {"open", "reset"}
                            /\ \A d \in Directions : forwarder[d] # "cancelled"
                            /\ ~relayFailure
    /\ relay # "waiting" => \A d \in Directions : Ended(d)
    /\ relay # "waiting" /\ ~relayFailure => \A d \in Directions : forwarder[d] = "done"

RelayInv == RelayTypeOK /\ TasksInv /\ \A d \in Directions : DirectionHolds(d)

LEMMA TwoEnds ==
  /\ \A d \in Directions : Dest(d) \in Ends /\ Source(d) \in Ends
  /\ \A e \in Ends : Toward(e) \in Directions /\ Dest(Toward(e)) = e
  /\ \A d \in Directions, q \in Directions : q # d => Dest(q) # Dest(d)
<1>1. Dest("inbound") = "client" /\ Dest("outbound") = "server"
  BY DEF Dest
<1>2. \A d \in Directions, q \in Directions : Dest(q) = Dest(d) => q = d
  BY <1>1 DEF Directions
<1>3. \A d \in Directions : Dest(d) \in Ends /\ Source(d) \in Ends
  BY DEF Dest, Source, Ends, Directions
<1>4. \A e \in Ends : \E d \in Directions : Dest(d) = e
  BY <1>1 DEF Ends, Directions
<1>5. \A e \in Ends : Toward(e) \in Directions /\ Dest(Toward(e)) = e
  BY <1>4 DEF Toward
<1>6. QED  BY <1>2, <1>3, <1>5

LEMMA InitRelay == RelayInit => RelayInv
<1> SUFFICES ASSUME RelayInit PROVE RelayInv
  OBVIOUS
<1>1. RelayTypeOK
  <2>1. << >> \in Seq(Nat) /\ 0 \in Nat
    OBVIOUS
  <2>2. inBuffer \in [Directions -> Seq(Nat)] /\ outBuffer \in [Directions -> Seq(Nat)]
        /\ taken \in [Directions -> Seq(Nat)] /\ sent \in [Directions -> Nat]
    BY <2>1 DEF RelayInit
  <2>3. sourceEof \in [Directions -> BOOLEAN] /\ eof \in [Directions -> {"none", "written", "seen"}]
    BY DEF RelayInit
  <2>4. link \in [Ends -> {"open", "closing", "closed", "reset"}]
        /\ forwarder \in [Directions -> {"reading", "draining", "finishing", "done", "failed", "cancelled"}]
    BY DEF RelayInit
  <2>5. relay = "waiting" /\ relayFailure = FALSE
    BY DEF RelayInit
  <2>6. QED  BY <2>2, <2>3, <2>4, <2>5 DEF RelayTypeOK
<1>2. TasksInv
  BY DEF RelayInit, TasksInv
<1>3. ASSUME NEW d \in Directions PROVE DirectionHolds(d)
  <2>1. taken[d] = << >> /\ outBuffer[d] = << >> /\ inBuffer[d] = << >> /\ sent[d] = 0
        /\ eof[d] = "none" /\ forwarder[d] = "reading" /\ link[Dest(d)] = "open"
    BY TwoEnds DEF RelayInit
  <2>2. << >> \in Seq(Nat) /\ Len(<< >>) = 0 /\ \A k : Numbered(<< >>, k)
    BY DEF Numbered
  <2>3. Placed(<< >>, << >>, << >>, 0, "open" = "reset")
    BY <2>2 DEF Placed
  <2>4. 0 <= HighWater /\ 0 <= HighWater + ReadMax
    BY RelayConsts
  <2>5. DirectionInv(0, sourceEof[d], << >>, << >>, << >>, "none", "reading", "open")
    BY <2>2, <2>3, <2>4 DEF DirectionInv
  <2>6. QED  BY <2>1, <2>5 DEF DirectionHolds
<1>4. QED  BY <1>1, <1>2, <1>3 DEF RelayInv

\* A step of one direction leaves the other as it was.
OtherSame(d) == \A q \in Directions \ {d} :
    /\ sent'[q] = sent[q] /\ sourceEof'[q] = sourceEof[q] /\ taken'[q] = taken[q]
    /\ inBuffer'[q] = inBuffer[q] /\ outBuffer'[q] = outBuffer[q]
    /\ eof'[q] = eof[q] /\ forwarder'[q] = forwarder[q] /\ link'[Dest(q)] = link[Dest(q)]

LEMMA OneDirection ==
  ASSUME RelayInv, NEW d \in Directions, OtherSame(d), RelayTypeOK', TasksInv', DirectionHolds(d)'
  PROVE  RelayInv'
<1>1. ASSUME NEW q \in Directions, q # d PROVE DirectionHolds(q)'
  <2>1. /\ sent'[q] = sent[q] /\ sourceEof'[q] = sourceEof[q] /\ taken'[q] = taken[q]
        /\ inBuffer'[q] = inBuffer[q] /\ outBuffer'[q] = outBuffer[q]
        /\ eof'[q] = eof[q] /\ forwarder'[q] = forwarder[q] /\ link'[Dest(q)] = link[Dest(q)]
    BY <1>1 DEF OtherSame
  <2>2. DirectionHolds(q)
    BY DEF RelayInv
  <2>3. QED  BY <2>1, <2>2 DEF DirectionHolds
<1>2. QED  BY <1>1 DEF RelayInv

LEMMA ArriveRelay == ASSUME RelayInv, NEW d \in Directions, Arrive(d) PROVE RelayInv'
<1>1. sent' = [sent EXCEPT ![d] = @ + 1] /\ inBuffer' = [inBuffer EXCEPT ![d] = Append(@, sent[d] + 1)]
      /\ ~sourceEof[d]
      /\ UNCHANGED <<sourceEof, taken, outBuffer, eof, link, forwarder, relay, relayFailure>>
  BY DEF Arrive, taskVars
<1>2. RelayTypeOK /\ TasksInv /\ DirectionHolds(d)
  BY DEF RelayInv
<1>3. sent'[d] = sent[d] + 1 /\ inBuffer'[d] = Append(inBuffer[d], sent[d] + 1) /\ OtherSame(d)
  BY <1>1, <1>2 DEF RelayTypeOK, OtherSame
<1>4. RelayTypeOK'
  <2>1. sent[d] + 1 \in Nat /\ Append(inBuffer[d], sent[d] + 1) \in Seq(Nat)
    BY <1>2 DEF RelayTypeOK
  <2>2. sent' \in [Directions -> Nat] /\ inBuffer' \in [Directions -> Seq(Nat)]
    BY <1>1, <1>2, <2>1 DEF RelayTypeOK
  <2>3. QED  BY <1>1, <1>2, <2>2 DEF RelayTypeOK
<1>5. TasksInv'
  BY <1>1, <1>2 DEF TasksInv, Ended
<1>6. DirectionHolds(d)'
  BY <1>1, <1>2, <1>3, DirectionArrive DEF DirectionHolds
<1>7. QED  BY <1>3, <1>4, <1>5, <1>6, OneDirection

LEMMA HalfCloseRelay == ASSUME RelayInv, NEW d \in Directions, HalfClose(d) PROVE RelayInv'
<1>1. sourceEof' = [sourceEof EXCEPT ![d] = TRUE]
      /\ UNCHANGED <<sent, taken, inBuffer, outBuffer, eof, link, forwarder, relay, relayFailure>>
  BY DEF HalfClose, taskVars
<1>2. RelayTypeOK /\ TasksInv /\ DirectionHolds(d)
  BY DEF RelayInv
<1>3. sourceEof'[d] = TRUE /\ OtherSame(d)
  BY <1>1, <1>2 DEF RelayTypeOK, OtherSame
<1>4. RelayTypeOK'
  BY <1>1, <1>2 DEF RelayTypeOK
<1>5. TasksInv'
  BY <1>1, <1>2 DEF TasksInv, Ended
<1>6. DirectionHolds(d)'
  BY <1>1, <1>2, <1>3 DEF DirectionHolds, DirectionInv
<1>7. QED  BY <1>3, <1>4, <1>5, <1>6, OneDirection

LEMMA TakeRelay ==
  ASSUME RelayInv, NEW d \in Directions, Take(d)
  PROVE  /\ RelayInv'
         /\ Head(outBuffer[d]) = Len(taken[d]) + 1 /\ Len(taken[d]) < sent[d] /\ eof[d] # "seen"
<1>1. taken' = [taken EXCEPT ![d] = Append(@, Head(outBuffer[d]))]
      /\ outBuffer' = [outBuffer EXCEPT ![d] = Tail(@)] /\ outBuffer[d] # << >>
      /\ UNCHANGED <<sent, sourceEof, inBuffer, eof, link, forwarder, relay, relayFailure>>
  BY DEF Take, taskVars
<1>2. RelayTypeOK /\ TasksInv /\ DirectionHolds(d)
  BY DEF RelayInv
<1>3. taken'[d] = Append(taken[d], Head(outBuffer[d])) /\ outBuffer'[d] = Tail(outBuffer[d]) /\ OtherSame(d)
  BY <1>1, <1>2 DEF RelayTypeOK, OtherSame
<1>4. /\ Head(outBuffer[d]) = Len(taken[d]) + 1 /\ Len(taken[d]) < sent[d] /\ eof[d] # "seen"
      /\ DirectionInv(sent[d], sourceEof[d], Append(taken[d], Head(outBuffer[d])), inBuffer[d],
                      Tail(outBuffer[d]), eof[d], forwarder[d], link[Dest(d)])
  BY <1>1, <1>2, DirectionTake DEF DirectionHolds
<1>5. RelayTypeOK'
  <2>1. Append(taken[d], Head(outBuffer[d])) \in Seq(Nat) /\ Tail(outBuffer[d]) \in Seq(Nat)
    BY <1>4 DEF DirectionInv, Placed
  <2>2. taken' \in [Directions -> Seq(Nat)] /\ outBuffer' \in [Directions -> Seq(Nat)]
    BY <1>1, <1>2, <2>1 DEF RelayTypeOK
  <2>3. QED  BY <1>1, <1>2, <2>2 DEF RelayTypeOK
<1>6. TasksInv'
  BY <1>1, <1>2 DEF TasksInv, Ended
<1>7. DirectionHolds(d)'
  BY <1>1, <1>3, <1>4 DEF DirectionHolds
<1>8. QED  BY <1>3, <1>4, <1>5, <1>6, <1>7, OneDirection

LEMMA SeeEofRelay ==
  ASSUME RelayInv, NEW d \in Directions, SeeEof(d)
  PROVE  RelayInv' /\ (relayFailure \/ (sourceEof[d] /\ Len(taken[d]) = sent[d]))
<1>1. eof' = [eof EXCEPT ![d] = "seen"] /\ outBuffer[d] = << >>
      /\ UNCHANGED <<sent, sourceEof, taken, inBuffer, outBuffer, forwarder, relay, relayFailure>>
  BY DEF SeeEof, peerVars, taskVars
<1>2. \/ link[Dest(d)] = "open" /\ eof[d] = "written" /\ link' = link
      \/ link[Dest(d)] = "closing" /\ link' = [link EXCEPT ![Dest(d)] = "closed"]
  BY DEF SeeEof
<1>3. RelayTypeOK /\ TasksInv /\ DirectionHolds(d) /\ Dest(d) \in Ends
  BY TwoEnds DEF RelayInv
<1>4. eof'[d] = "seen" /\ OtherSame(d)
  BY <1>1, <1>2, <1>3, TwoEnds DEF RelayTypeOK, OtherSame
<1>5. link[Dest(d)] # "reset" /\ link'[Dest(d)] # "reset" /\ link' \in [Ends -> {"open", "closing", "closed", "reset"}]
  BY <1>2, <1>3 DEF RelayTypeOK
<1>6. link[Dest(d)] = "closing" => relay # "waiting" /\ Ended(d)
  BY <1>3 DEF TasksInv
<1>7. forwarder[d] \notin {"reading", "draining"}
  BY <1>2, <1>3, <1>6 DEF DirectionHolds, DirectionInv, Ended
<1>8. relayFailure \/ (sourceEof[d] /\ inBuffer[d] = << >>)
  BY <1>2, <1>3, <1>6 DEF DirectionHolds, DirectionInv, TasksInv
<1>9. relayFailure \/ (sourceEof[d] /\ Len(taken[d]) = sent[d])
  BY <1>1, <1>3, <1>5, <1>8, PlacedAll DEF DirectionHolds, DirectionInv
<1>10. RelayTypeOK'
  BY <1>1, <1>3, <1>5 DEF RelayTypeOK
<1>11. TasksInv'
  <2>1. relay = "waiting" => link' = link
    BY <1>2, <1>6
  <2>2. QED  BY <1>1, <1>3, <2>1 DEF TasksInv, Ended
<1>12. DirectionHolds(d)'
  BY <1>1, <1>3, <1>4, <1>5, <1>7 DEF DirectionHolds, DirectionInv
<1>13. QED  BY <1>4, <1>9, <1>10, <1>11, <1>12, OneDirection

LEMMA BreakRelay == ASSUME RelayInv, NEW e \in Ends, Break(e) PROVE RelayInv'
<1>1. link' = [link EXCEPT ![e] = "reset"] /\ outBuffer' = [outBuffer EXCEPT ![Toward(e)] = << >>]
      /\ UNCHANGED <<sent, sourceEof, taken, inBuffer, eof, forwarder, relay, relayFailure>>
  BY DEF Break, peerVars, taskVars
<1>2. PICK d \in Directions : d = Toward(e) /\ Dest(d) = e
  BY TwoEnds
<1>3. RelayTypeOK /\ TasksInv /\ DirectionHolds(d)
  BY DEF RelayInv
<1>4. outBuffer'[d] = << >> /\ link'[Dest(d)] = "reset" /\ OtherSame(d)
  BY <1>1, <1>2, <1>3, TwoEnds DEF RelayTypeOK, OtherSame
<1>5. RelayTypeOK'
  <2>1. << >> \in Seq(Nat)
    OBVIOUS
  <2>2. outBuffer' \in [Directions -> Seq(Nat)] /\ link' \in [Ends -> {"open", "closing", "closed", "reset"}]
    BY <1>1, <1>2, <1>3, <2>1 DEF RelayTypeOK
  <2>3. QED  BY <1>1, <1>3, <2>2 DEF RelayTypeOK
<1>6. TasksInv'
  <2>1. \A x \in Ends : link[x] \in {"open", "reset"} => link'[x] \in {"open", "reset"}
    BY <1>1, <1>3 DEF RelayTypeOK
  <2>2. QED  BY <1>1, <1>3, <2>1 DEF TasksInv, Ended
<1>7. DirectionHolds(d)'
  BY <1>1, <1>3, <1>4, DirectionBreak DEF DirectionHolds
<1>8. QED  BY <1>4, <1>5, <1>6, <1>7, OneDirection

\* Steps of a task that move nothing: what it has seen, and its end.
LEMMA DirectionTask ==
  ASSUME NEW s, NEW se, NEW t, NEW i, NEW o, NEW e, NEW f, NEW l, NEW f2, NEW l2,
         DirectionInv(s, se, t, i, o, e, f, l), (l2 = "reset") = (l = "reset"),
         \/ f2 = f \/ f2 \in {"failed", "cancelled"}
         \/ f = "finishing" /\ f2 = "done"
         \/ f = "draining" /\ f2 = "reading" /\ Len(o) <= HighWater
  PROVE  DirectionInv(s, se, t, i, o, e, f2, l2)
<1>1. Placed(t, o, i, s, l2 = "reset")
  BY DEF DirectionInv
<1>2. CASE f2 = f
  BY <1>1, <1>2 DEF DirectionInv
<1>3. CASE f2 \in {"failed", "cancelled"}
  BY <1>1, <1>3 DEF DirectionInv
<1>4. CASE f = "finishing" /\ f2 = "done"
  BY <1>1, <1>4 DEF DirectionInv
<1>5. CASE f = "draining" /\ f2 = "reading" /\ Len(o) <= HighWater
  BY <1>1, <1>5 DEF DirectionInv
<1>6. QED  BY <1>2, <1>3, <1>4, <1>5

\* A task still running means that nothing is closed yet.
LEMMA StillWaiting ==
  ASSUME RelayInv, NEW d \in Directions, ~Ended(d)
  PROVE  relay = "waiting" /\ link[Dest(d)] \in {"open", "reset"}
  BY TwoEnds DEF RelayInv, TasksInv, RelayTypeOK

LEMMA ChunkLength ==
  ASSUME NEW d \in Directions, inBuffer[d] \in Seq(Nat)
  PROVE  \E n \in 0..Len(inBuffer[d]) :
            n <= ReadMax /\ Chunk(d) = SubSeq(inBuffer[d], 1, n)
                         /\ Unread(d) = SubSeq(inBuffer[d], n + 1, Len(inBuffer[d]))
                         /\ Unread(d) \in Seq(Nat)
<1> DEFINE i == inBuffer[d]
           n == IF Len(i) < ReadMax THEN Len(i) ELSE ReadMax
<1>1. i \in Seq(Nat) /\ Len(i) \in Nat
  BY Lengths
<1>2. n \in 0..Len(i) /\ n <= ReadMax
  BY <1>1, RelayConsts
<1>3. Chunk(d) = SubSeq(i, 1, n)
  BY DEF Chunk
<1> HIDE DEF i, n
<1>4. Len(SubSeq(i, 1, n)) = n
  BY <1>1, <1>2, SubSeqProperties
<1>5. SubSeq(i, n + 1, Len(i)) \in Seq(Nat)
  BY <1>1, <1>2, SubSeqProperties
<1>6. Unread(d) = SubSeq(i, n + 1, Len(i))
  BY <1>3, <1>4 DEF Unread, i
<1>7. QED  BY <1>2, <1>3, <1>5, <1>6 DEF i

LEMMA ForwardDataRelay == ASSUME RelayInv, NEW d \in Directions, ForwardData(d) PROVE RelayInv'
<1>1. /\ forwarder[d] = "reading"
      /\ outBuffer' = IF link[Dest(d)] = "open"
                      THEN [outBuffer EXCEPT ![d] = @ \o Chunk(d)] ELSE outBuffer
      /\ inBuffer' = [inBuffer EXCEPT ![d] = Unread(d)]
      /\ forwarder' = [forwarder EXCEPT ![d] = "draining"]
      /\ UNCHANGED <<sent, sourceEof, taken, eof, link, relay, relayFailure>>
  BY DEF ForwardData, peerVars, taskVars
<1>2. RelayTypeOK /\ TasksInv /\ DirectionHolds(d)
  BY DEF RelayInv
<1>3. relay = "waiting" /\ link[Dest(d)] \in {"open", "reset"}
  BY <1>1, StillWaiting DEF Ended
<1>4. PICK n \in 0..Len(inBuffer[d]) :
         n <= ReadMax /\ Chunk(d) = SubSeq(inBuffer[d], 1, n)
                      /\ Unread(d) = SubSeq(inBuffer[d], n + 1, Len(inBuffer[d]))
                      /\ Unread(d) \in Seq(Nat)
  BY <1>2, ChunkLength DEF RelayTypeOK
<1>5. inBuffer'[d] = Unread(d) /\ forwarder'[d] = "draining" /\ OtherSame(d)
  BY <1>1, <1>2 DEF RelayTypeOK, OtherSame
<1>6. outBuffer'[d] = IF link[Dest(d)] = "open" THEN outBuffer[d] \o Chunk(d) ELSE outBuffer[d]
  BY <1>1, <1>2 DEF RelayTypeOK
<1>7. DirectionHolds(d)'
  <2>1. CASE link[Dest(d)] = "open"
    <3>1. DirectionInv(sent[d], sourceEof[d], taken[d], Unread(d), outBuffer[d] \o Chunk(d), eof[d],
                       "draining", "open")
      BY <1>1, <1>2, <1>4, <2>1, DirectionForward DEF DirectionHolds
    <3>2. QED  BY <1>1, <1>5, <1>6, <2>1, <3>1 DEF DirectionHolds
  <2>2. CASE link[Dest(d)] = "reset"
    <3>1. DirectionInv(sent[d], sourceEof[d], taken[d], Unread(d), outBuffer[d], eof[d],
                       "draining", "reset")
      BY <1>1, <1>2, <1>4, <2>2, DirectionDrop DEF DirectionHolds
    <3>2. QED  BY <1>1, <1>5, <1>6, <2>2, <3>1 DEF DirectionHolds
  <2>3. QED  BY <1>3, <2>1, <2>2
<1>8. RelayTypeOK'
  <2>1. inBuffer' \in [Directions -> Seq(Nat)]
    BY <1>1, <1>2, <1>4 DEF RelayTypeOK
  <2>2. outBuffer'[d] \in Seq(Nat)
    BY <1>7 DEF DirectionHolds, DirectionInv, Placed
  <2>3. outBuffer' \in [Directions -> Seq(Nat)]
    BY <1>1, <1>2, <2>2 DEF RelayTypeOK
  <2>4. forwarder' \in [Directions -> {"reading", "draining", "finishing", "done", "failed", "cancelled"}]
    BY <1>1, <1>2 DEF RelayTypeOK
  <2>5. QED  BY <1>1, <1>2, <2>1, <2>3, <2>4 DEF RelayTypeOK
<1>9. TasksInv'
  <2>1. \A q \in Directions : forwarder'[q] # "cancelled"
    BY <1>1, <1>2, <1>3 DEF RelayTypeOK, TasksInv
  <2>2. QED  BY <1>1, <1>2, <1>3, <2>1 DEF TasksInv
<1>10. QED  BY <1>5, <1>7, <1>8, <1>9, OneDirection

LEMMA ForwardEofRelay ==
  ASSUME RelayInv, NEW d \in Directions, ForwardEof(d)
  PROVE  RelayInv' /\ eof[d] = "none" /\ eof' \in {eof, [eof EXCEPT ![d] = "written"]}
<1>1. /\ forwarder[d] = "reading" /\ inBuffer[d] = << >> /\ sourceEof[d]
      /\ eof' \in {eof, [eof EXCEPT ![d] = "written"]}
      /\ forwarder' = [forwarder EXCEPT ![d] = "finishing"]
      /\ UNCHANGED <<sent, sourceEof, taken, inBuffer, outBuffer, link, relay, relayFailure>>
  BY DEF ForwardEof, peerVars, taskVars
<1>2. RelayTypeOK /\ TasksInv /\ DirectionHolds(d)
  BY DEF RelayInv
<1>3. relay = "waiting"
  BY <1>1, StillWaiting DEF Ended
<1>4. eof'[d] \in {eof[d], "written"} /\ forwarder'[d] = "finishing" /\ OtherSame(d)
  BY <1>1, <1>2 DEF RelayTypeOK, OtherSame
<1>5. eof[d] = "none" /\ DirectionInv(sent[d], sourceEof[d], taken[d], << >>, outBuffer[d], eof'[d],
                                      "finishing", link[Dest(d)])
  <2>1. DirectionInv(sent[d], sourceEof[d], taken[d], << >>, outBuffer[d], eof[d], "reading", link[Dest(d)])
    BY <1>1, <1>2 DEF DirectionHolds
  <2>2. eof[d] = "none"
    BY <2>1, <1>2 DEF DirectionInv
  <2>3. DirectionInv(sent[d], sourceEof[d], taken[d], << >>, outBuffer[d], eof'[d], "finishing", link[Dest(d)])
    BY <1>1, <1>4, <2>1, <2>2 DEF DirectionInv
  <2>4. QED  BY <2>2, <2>3
<1>6. DirectionHolds(d)'
  BY <1>1, <1>4, <1>5 DEF DirectionHolds
<1>7. RelayTypeOK'
  <2>1. forwarder' \in [Directions -> {"reading", "draining", "finishing", "done", "failed", "cancelled"}]
        /\ eof' \in [Directions -> {"none", "written", "seen"}]
    BY <1>1, <1>2 DEF RelayTypeOK
  <2>2. QED  BY <1>1, <1>2, <2>1 DEF RelayTypeOK
<1>8. TasksInv'
  <2>1. \A q \in Directions : forwarder'[q] # "cancelled"
    BY <1>1, <1>2, <1>3 DEF RelayTypeOK, TasksInv
  <2>2. QED  BY <1>1, <1>2, <1>3, <2>1 DEF TasksInv
<1>9. QED  BY <1>1, <1>4, <1>5, <1>6, <1>7, <1>8, OneDirection

\* ReadFails and Drain: the task alone goes on.
LEMMA TaskRelay ==
  ASSUME RelayInv, NEW d \in Directions, ReadFails(d) \/ Drain(d)
  PROVE  RelayInv'
<1>1. UNCHANGED <<sent, sourceEof, taken, inBuffer, outBuffer, eof, link, relay, relayFailure>>
  BY DEF ReadFails, Drain, peerVars, taskVars
<1>2. PICK f2 \in {"reading", "done", "failed"} :
         /\ forwarder' = [forwarder EXCEPT ![d] = f2]
         /\ \/ f2 = "failed" /\ forwarder[d] \in {"reading", "draining"}
            \/ forwarder[d] = "finishing" /\ f2 = "done"
            \/ forwarder[d] = "draining" /\ f2 = "reading" /\ Len(outBuffer[d]) <= HighWater
  BY DEF ReadFails, Drain, Drained
<1>3. RelayTypeOK /\ TasksInv /\ DirectionHolds(d)
  BY DEF RelayInv
<1>4. relay = "waiting"
  BY <1>2, StillWaiting DEF Ended
<1>5. forwarder'[d] = f2 /\ OtherSame(d)
  BY <1>1, <1>2, <1>3 DEF RelayTypeOK, OtherSame
<1>6. DirectionHolds(d)'
  <2>1. DirectionInv(sent[d], sourceEof[d], taken[d], inBuffer[d], outBuffer[d], eof[d], f2, link[Dest(d)])
    BY <1>2, <1>3, DirectionTask DEF DirectionHolds
  <2>2. QED  BY <1>1, <1>5, <2>1 DEF DirectionHolds
<1>7. RelayTypeOK'
  <2>1. forwarder' \in [Directions -> {"reading", "draining", "finishing", "done", "failed", "cancelled"}]
    BY <1>2, <1>3 DEF RelayTypeOK
  <2>2. QED  BY <1>1, <1>3, <2>1 DEF RelayTypeOK
<1>8. TasksInv'
  <2>1. \A q \in Directions : forwarder'[q] # "cancelled"
    BY <1>2, <1>3, <1>4 DEF RelayTypeOK, TasksInv
  <2>2. QED  BY <1>1, <1>3, <1>4, <2>1 DEF TasksInv
<1>9. QED  BY <1>5, <1>6, <1>7, <1>8, OneDirection

LEMMA ClosingSame ==
  ASSUME RelayTypeOK, NEW x \in Ends, link' = Closing(x)
  PROVE  /\ link' \in [Ends -> {"open", "closing", "closed", "reset"}]
         /\ \A d \in Directions : (link'[Dest(d)] = "reset") = (link[Dest(d)] = "reset")
  BY TwoEnds DEF RelayTypeOK, Closing

\* tcp_forward() stops waiting: every task has ended then.
LEMMA LeaveRelay ==
  ASSUME RelayInv, NEW failure \in BOOLEAN, LeaveWait(failure),
         ~failure => RelayOver /\ \A d \in Directions : forwarder[d] # "failed"
  PROVE  RelayInv'
<1>1. /\ relay = "waiting" /\ relay' = "closing_server" /\ relayFailure' = failure
      /\ forwarder' = [d \in Directions |-> IF Ended(d) THEN forwarder[d] ELSE "cancelled"]
      /\ link' = Closing("server")
      /\ UNCHANGED <<sent, sourceEof, taken, inBuffer, outBuffer, eof>>
  BY DEF LeaveWait, peerVars
<1>2. RelayTypeOK /\ TasksInv
  BY DEF RelayInv
<1>3. link' \in [Ends -> {"open", "closing", "closed", "reset"}]
      /\ \A d \in Directions : (link'[Dest(d)] = "reset") = (link[Dest(d)] = "reset")
  BY <1>1, <1>2, ClosingSame DEF Ends
<1>4. RelayTypeOK'
  <2>1. forwarder' \in [Directions -> {"reading", "draining", "finishing", "done", "failed", "cancelled"}]
    BY <1>1, <1>2 DEF RelayTypeOK
  <2>2. QED  BY <1>1, <1>2, <1>3, <2>1 DEF RelayTypeOK
<1>5. TasksInv'
  <2>1. \A d \in Directions : Ended(d)'
    BY <1>1 DEF Ended
  <2>2. ~failure => \A d \in Directions : forwarder[d] = "done"
    BY <1>1, <1>2 DEF RelayOver, Ended, TasksInv
  <2>3. ~failure => \A d \in Directions : forwarder'[d] = "done"
    BY <1>1, <2>2 DEF Ended
  <2>4. QED  BY <1>1, <2>1, <2>3 DEF TasksInv
<1>6. ASSUME NEW d \in Directions PROVE DirectionHolds(d)'
  <2>1. forwarder'[d] = forwarder[d] \/ forwarder'[d] \in {"failed", "cancelled"}
    BY <1>1
  <2>2. DirectionHolds(d)
    BY DEF RelayInv
  <2>3. DirectionInv(sent[d], sourceEof[d], taken[d], inBuffer[d], outBuffer[d], eof[d],
                     forwarder'[d], link'[Dest(d)])
    BY <1>3, <2>1, <2>2, DirectionTask DEF DirectionHolds
  <2>4. QED  BY <1>1, <2>3 DEF DirectionHolds
<1>7. QED  BY <1>4, <1>5, <1>6 DEF RelayInv

\* The finally block goes on.
LEMMA ClosingRelay ==
  ASSUME RelayInv, relay # "waiting", relay' \in {"closing_client", "returned"},
         link' = link \/ link' = Closing("client"),
         UNCHANGED <<sent, sourceEof, taken, inBuffer, outBuffer, eof, forwarder, relayFailure>>
  PROVE  RelayInv'
<1>1. RelayTypeOK /\ TasksInv
  BY DEF RelayInv
<1>2. link' \in [Ends -> {"open", "closing", "closed", "reset"}]
      /\ \A d \in Directions : (link'[Dest(d)] = "reset") = (link[Dest(d)] = "reset")
  <2>1. CASE link' = link
    BY <1>1, <2>1 DEF RelayTypeOK
  <2>2. CASE link' = Closing("client")
    BY <1>1, <2>2, ClosingSame DEF Ends
  <2>3. QED  BY <2>1, <2>2
<1>3. RelayTypeOK'
  BY <1>1, <1>2 DEF RelayTypeOK
<1>4. TasksInv'
  BY <1>1 DEF TasksInv, Ended
<1>5. ASSUME NEW d \in Directions PROVE DirectionHolds(d)'
  <2>1. DirectionHolds(d)
    BY DEF RelayInv
  <2>2. DirectionInv(sent[d], sourceEof[d], taken[d], inBuffer[d], outBuffer[d], eof[d],
                     forwarder[d], link'[Dest(d)])
    BY <1>2, <2>1, DirectionTask DEF DirectionHolds
  <2>3. QED  BY <2>2 DEF DirectionHolds
<1>6. QED  BY <1>3, <1>4, <1>5 DEF RelayInv

-----------------------------------------------------------------------------
(* Each step is one of the pipe, or none. *)

PipeSame == UNCHANGED <<sent, sourceEof, taken, [d \in Directions |-> eof[d] = "seen"], relayFailure>>

\* What a step of tcp_forward() is, and that it tears the pipe or leaves it.
LEMMA FinallyStep ==
  ASSUME RelayInv, RelayEnds \/ WriterClosed \/ CancelRelay
  PROVE  RelayInv' /\ (Pipe!Tear \/ PipeSame)
<1>1. ASSUME NEW failure \in BOOLEAN, LeaveWait(failure) PROVE Pipe!Tear \/ PipeSame
  <2>1. relay = "waiting" /\ relayFailure' = failure /\ UNCHANGED <<sent, sourceEof, taken, eof>>
    BY <1>1 DEF LeaveWait, peerVars
  <2>2. ~relayFailure /\ relayFailure \in BOOLEAN
    BY <2>1 DEF RelayInv, TasksInv, RelayTypeOK
  <2>3. CASE failure
    BY <2>1, <2>3 DEF Pipe!Tear
  <2>4. CASE ~failure
    <3>1. relayFailure' = relayFailure
      BY <2>1, <2>2, <2>4
    <3>2. QED  BY <2>1, <3>1 DEF PipeSame
  <2>5. QED  BY <2>3, <2>4
<1>2. CASE RelayEnds
  <2>1. PICK failure \in BOOLEAN : failure = (\E d \in Directions : forwarder[d] = "failed")
    OBVIOUS
  <2>2. RelayOver /\ LeaveWait(failure) /\ (~failure => \A d \in Directions : forwarder[d] # "failed")
    BY <1>2, <2>1 DEF RelayEnds
  <2>3. QED  BY <1>1, <2>2, LeaveRelay
<1>3. CASE CancelRelay /\ LeaveWait(TRUE)
  BY <1>1, <1>3, LeaveRelay
<1>4. CASE WriterClosed \/ (CancelRelay /\ ~LeaveWait(TRUE))
  <2>1. /\ relay # "waiting" /\ relay' \in {"closing_client", "returned"}
        /\ link' = link \/ link' = Closing("client")
        /\ UNCHANGED <<sent, sourceEof, taken, inBuffer, outBuffer, eof, forwarder, relayFailure>>
    BY <1>4 DEF WriterClosed, CancelRelay, peerVars
  <2>2. QED  BY <2>1, ClosingRelay DEF PipeSame
<1>5. QED  BY <1>2, <1>3, <1>4

LEMMA SeenSame == ASSUME UNCHANGED <<sent, sourceEof, taken, eof, relayFailure>> PROVE PipeSame
  BY DEF PipeSame

\* What a step of a direction is.
LEMMA DirectionStep ==
  ASSUME RelayInv, NEW d \in Directions,
         Arrive(d) \/ HalfClose(d) \/ Take(d) \/ SeeEof(d) \/ Forward(d)
  PROVE  RelayInv' /\ (PipeSame \/ Pipe!Write(d) \/ Pipe!Finish(d) \/ Pipe!Deliver(d) \/ Pipe!End(d))
<1>0. RelayTypeOK
  BY DEF RelayInv
<1>1. CASE Arrive(d)
  <2>1. Pipe!Write(d)
    BY <1>1 DEF Arrive, taskVars, Pipe!Write
  <2>2. QED  BY <1>1, <2>1, ArriveRelay
<1>2. CASE HalfClose(d)
  <2>1. Pipe!Finish(d)
    BY <1>2 DEF HalfClose, taskVars, Pipe!Finish
  <2>2. QED  BY <1>2, <2>1, HalfCloseRelay
<1>3. CASE Take(d)
  <2>1. /\ RelayInv'
        /\ Head(outBuffer[d]) = Len(taken[d]) + 1 /\ Len(taken[d]) < sent[d] /\ eof[d] # "seen"
    BY <1>3, TakeRelay
  <2>2. taken' = [taken EXCEPT ![d] = Append(@, Len(@) + 1)]
        /\ UNCHANGED <<sent, sourceEof, eof, relayFailure>>
    BY <1>3, <2>1 DEF Take, taskVars
  <2>3. Pipe!Deliver(d)
    BY <2>1, <2>2 DEF Pipe!Deliver
  <2>4. QED  BY <2>1, <2>3
<1>4. CASE SeeEof(d)
  <2>1. RelayInv' /\ (relayFailure \/ (sourceEof[d] /\ Len(taken[d]) = sent[d]))
    BY <1>4, SeeEofRelay
  <2>2. eof' = [eof EXCEPT ![d] = "seen"] /\ UNCHANGED <<sent, sourceEof, taken, relayFailure>>
    BY <1>4 DEF SeeEof, peerVars, taskVars
  <2>3. [q \in Directions |-> eof'[q] = "seen"]
           = [[q \in Directions |-> eof[q] = "seen"] EXCEPT ![d] = TRUE]
    BY <1>0, <2>2 DEF RelayTypeOK
  <2>4. Pipe!End(d)
    BY <2>1, <2>2, <2>3 DEF Pipe!End
  <2>5. QED  BY <2>1, <2>4
<1>5. CASE ForwardData(d)
  BY <1>5, ForwardDataRelay, SeenSame DEF ForwardData, peerVars, taskVars
<1>6. CASE ForwardEof(d)
  <2>1. RelayInv' /\ eof[d] = "none" /\ eof' \in {eof, [eof EXCEPT ![d] = "written"]}
    BY <1>6, ForwardEofRelay
  <2>2. [q \in Directions |-> eof'[q] = "seen"] = [q \in Directions |-> eof[q] = "seen"]
    BY <1>0, <2>1 DEF RelayTypeOK
  <2>3. UNCHANGED <<sent, sourceEof, taken, relayFailure>>
    BY <1>6 DEF ForwardEof, peerVars, taskVars
  <2>4. QED  BY <2>1, <2>2, <2>3 DEF PipeSame
<1>7. CASE ReadFails(d) \/ Drain(d)
  BY <1>7, TaskRelay, SeenSame DEF ReadFails, Drain, peerVars, taskVars
<1>8. QED  BY <1>1, <1>2, <1>3, <1>4, <1>5, <1>6, <1>7 DEF Forward

LEMMA StepRelay ==
  ASSUME RelayInv, [RelayNext]_relayVars
  PROVE  RelayInv' /\ (Pipe!Next \/ PipeSame)
<1>1. ASSUME NEW d \in Directions, Arrive(d) \/ HalfClose(d) \/ Take(d) \/ SeeEof(d) \/ Forward(d)
      PROVE  RelayInv' /\ (Pipe!Next \/ PipeSame)
  BY <1>1, DirectionStep DEF Pipe!Next
<1>2. ASSUME NEW e \in Ends, Break(e) PROVE RelayInv' /\ PipeSame
  BY <1>2, BreakRelay, SeenSame DEF Break, peerVars, taskVars
<1>3. CASE RelayEnds \/ WriterClosed \/ CancelRelay
  BY <1>3, FinallyStep DEF Pipe!Next
<1>4. CASE UNCHANGED relayVars
  <2>1. UNCHANGED <<sent, sourceEof, taken, inBuffer, outBuffer, eof, link, forwarder, relay, relayFailure>>
    BY <1>4 DEF relayVars, peerVars, taskVars
  <2>2. RelayTypeOK' /\ TasksInv'
    BY <2>1 DEF RelayInv, RelayTypeOK, TasksInv, Ended
  <2>3. \A d \in Directions : DirectionHolds(d)'
    BY <2>1 DEF RelayInv, DirectionHolds
  <2>4. QED  BY <2>1, <2>2, <2>3, SeenSame DEF RelayInv
<1>5. QED  BY <1>1, <1>2, <1>3, <1>4 DEF RelayNext

LEMMA InitPipe == RelayInit => Pipe!Init
<1> SUFFICES ASSUME RelayInit PROVE Pipe!Init
  OBVIOUS
<1>1. [d \in Directions |-> eof[d] = "seen"] = [d \in Directions |-> FALSE]
  BY DEF RelayInit
<1>2. QED  BY <1>1 DEF RelayInit, Pipe!Init

\* A relay is a bounded pipe in each direction, for any number of bytes and any
\* limits: whatever order data, ends of file, resets, cancellation and closing
\* come in, nothing is lost, doubled or overtaken unless the relay was torn.
THEOREM RelayImplementsPipe == RelaySpec => RelayIsBoundedPipe
<1>1. RelayInv /\ [RelayNext]_relayVars => RelayInv'
  BY StepRelay
<1>2. RelayInv /\ [RelayNext]_relayVars =>
         [Pipe!Next]_<<sent, sourceEof, taken, [d \in Directions |-> eof[d] = "seen"], relayFailure>>
  BY StepRelay DEF PipeSame
<1>3. RelayInv => RelayBuffersBounded
  BY DEF RelayInv, DirectionHolds, DirectionInv, RelayBuffersBounded
<1>4. QED  BY InitRelay, InitPipe, <1>1, <1>2, <1>3, PTL DEF RelaySpec, RelayIsBoundedPipe, RelayIsPipe, Pipe!Spec

-----------------------------------------------------------------------------
(* Socks5Handler: what a client has been told, place by place. *)

Fates == {"SUCCEEDED", "ENOTSUP", "EAFNOSUPPORT", "EHOSTUNREACH", "ERROR"}

SocksInv ==
    \/ socksPc \in {"greeting", "methods"} /\ replies = << >>
    \/ socksPc \in {"request", "address", "connecting", "creating"} /\ replies = <<"method 0">>
    \/ socksPc \in {"relaying", "associated"} /\ replies = <<"method 0", "SUCCEEDED">>
    \/ /\ socksPc \in {"closing", "closed"}
       /\ \/ replies \in {<< >>, <<"method 0">>, <<"method 255">>}
          \/ \E fate \in Fates : replies = <<"method 0", fate>>

LEMMA Pair ==
  ASSUME NEW S, NEW a \in S, NEW b \in S
  PROVE  /\ Append(<< >>, a) = <<a>> /\ Append(<<a>>, b) = <<a, b>>
         /\ Len(<<a>>) = 1 /\ DOMAIN <<a>> = {1} /\ <<a>>[1] = a
         /\ Len(<<a, b>>) = 2 /\ DOMAIN <<a, b>> = {1, 2} /\ <<a, b>>[1] = a /\ <<a, b>>[2] = b
<1>1. << >> \in Seq(S) /\ <<a>> \in Seq(S) /\ Len(<<a>>) = 1 /\ <<a>>[1] = a
  OBVIOUS
<1>2. /\ Append(<<a>>, b) \in Seq(S) /\ Len(Append(<<a>>, b)) = 2
      /\ Append(<<a>>, b)[1] = a /\ Append(<<a>>, b)[2] = b
  BY <1>1, AppendProperties
<1>3. <<a, b>> \in Seq(S) /\ Len(<<a, b>>) = 2 /\ DOMAIN <<a, b>> = 1..2
      /\ <<a, b>>[1] = a /\ <<a, b>>[2] = b
  OBVIOUS
<1>4. 1..2 = {1, 2}
  OBVIOUS
<1>5. \A i \in 1..Len(Append(<<a>>, b)) : Append(<<a>>, b)[i] = <<a, b>>[i]
  BY <1>2, <1>3, <1>4
<1>6. Append(<<a>>, b) = <<a, b>>
  BY <1>2, <1>3, <1>5, SeqEqual
<1>7. Append(<< >>, a) = <<a>>
  BY <1>1, AppendProperties
<1>8. DOMAIN <<a>> = 1..1 /\ 1..1 = {1}
  OBVIOUS
<1>9. QED  BY <1>1, <1>3, <1>4, <1>6, <1>7, <1>8

LEMMA Told ==
  ASSUME NEW a, NEW b
  PROVE  /\ Append(<< >>, a) = <<a>> /\ Append(<<a>>, b) = <<a, b>>
         /\ Len(<<a>>) = 1 /\ DOMAIN <<a>> = {1} /\ <<a>>[1] = a
         /\ Len(<<a, b>>) = 2 /\ DOMAIN <<a, b>> = {1, 2} /\ <<a, b>>[1] = a /\ <<a, b>>[2] = b
<1> DEFINE S == {a, b}
<1>1. a \in S /\ b \in S
  OBVIOUS
<1> HIDE DEF S
<1>2. QED  BY <1>1, Pair

LEMMA StepSocks == SocksInv /\ [SocksNext]_socksVars => SocksInv'
<1> SUFFICES ASSUME SocksInv, [SocksNext]_socksVars PROVE SocksInv'
  OBVIOUS
<1> USE DEF GoTo, ReplyWith
<1>1. CASE HandshakeFails
  BY <1>1 DEF HandshakeFails, Handshake, SocksInv
<1>2. CASE ReadGreeting \/ \E cmd \in 1..3 : ReadRequest(cmd)
  BY <1>2 DEF ReadGreeting, ReadRequest, SocksInv
<1>3. CASE ReadMethods
  <2>1. replies = << >>
    BY <1>3 DEF ReadMethods, SocksInv
  <2>2. \/ socksPc' = "request" /\ replies' = <<"method 0">>
        \/ socksPc' = "closing" /\ replies' = <<"method 255">>
    BY <1>3, <2>1, Told DEF ReadMethods
  <2>3. QED  BY <2>2 DEF SocksInv
<1>4. CASE ReadAddress \/ ConnectTo \/ UdpStarted \/ UdpStartFails
  <2>1. replies = <<"method 0">>
    BY <1>4 DEF ReadAddress, ConnectTo, UdpStarted, UdpStartFails, SocksInv
  <2>2. \/ socksPc' \in {"connecting", "creating"} /\ replies' = <<"method 0">>
        \/ socksPc' \in {"relaying", "associated"} /\ replies' = <<"method 0", "SUCCEEDED">>
        \/ socksPc' = "closing" /\ \E fate \in Fates : replies' = <<"method 0", fate>>
    <3>1. \A fate : Append(replies, fate) = <<"method 0", fate>>
      BY <2>1, Told
    <3>2. CASE ReadAddress
      BY <2>1, <3>1, <3>2 DEF ReadAddress, Fates
    <3>3. CASE ConnectTo
      BY <3>1, <3>3 DEF ConnectTo, Fates
    <3>4. CASE UdpStarted \/ UdpStartFails
      BY <3>1, <3>4 DEF UdpStarted, UdpStartFails, Fates
    <3>5. QED  BY <1>4, <3>2, <3>3, <3>4
  <2>3. QED  BY <2>2 DEF SocksInv
<1>5. CASE RelayOfClientEnds \/ ControlEnds \/ CloseClient
  BY <1>5 DEF RelayOfClientEnds, ControlEnds, CloseClient, SocksInv, Fates
<1>6. CASE UNCHANGED socksVars
  BY <1>6 DEF socksVars, SocksInv
<1>7. QED
  BY <1>1, <1>2, <1>3, <1>4, <1>5, <1>6 DEF SocksNext, SocksRead

LEMMA SocksTruth == SocksInv => SocksRepliesTruthful
<1> SUFFICES ASSUME SocksInv PROVE SocksRepliesTruthful
  OBVIOUS
<1> DEFINE Methods == {"method 0", "method 255"}
<1>0. 1 <= 2 /\ 2 <= 2
  OBVIOUS
<1>1. /\ socksPc \in {"relaying", "associated"} => replies = <<"method 0", "SUCCEEDED">>
      /\ socksPc \in {"connecting", "creating"} => replies = <<"method 0">>
  BY DEF SocksInv
<1>2. CASE replies = << >>
  BY <1>1, <1>2 DEF SocksRepliesTruthful
<1>3. ASSUME NEW method \in Methods, replies = <<method>> PROVE SocksRepliesTruthful
  <2>1. Len(replies) = 1 /\ DOMAIN replies = {1} /\ replies[1] = method
    BY <1>3, Told
  <2>2. \A k \in DOMAIN replies : (k = 1) <=> (replies[k] \in Methods)
    BY <1>3, <2>1
  <2>3. Len(replies) <= 2
    BY <1>0, <2>1, Zenon
  <2>4. QED  BY <1>1, <2>2, <2>3, Zenon DEF SocksRepliesTruthful
<1>4. ASSUME NEW fate \in Fates, replies = <<"method 0", fate>> PROVE SocksRepliesTruthful
  <2>1. Len(replies) = 2 /\ DOMAIN replies = {1, 2} /\ replies[1] = "method 0" /\ replies[2] = fate
    BY <1>4, Told
  <2>2. replies[1] \in Methods /\ replies[2] \notin Methods
    BY <2>1 DEF Fates
  <2>3. \A k \in DOMAIN replies : (k = 1) <=> (replies[k] \in Methods)
    BY <2>1, <2>2
  <2>4. Len(replies) <= 2
    BY <1>0, <2>1, Zenon
  <2>5. QED  BY <1>1, <2>3, <2>4, Zenon DEF SocksRepliesTruthful
<1>5. CASE replies = <<"method 0", "SUCCEEDED">>
  BY <1>4, <1>5 DEF Fates
<1>6. QED  BY <1>2, <1>3, <1>4, <1>5 DEF SocksInv

LEMMA SocksInvariant == SocksInit /\ [][SocksNext]_socksVars => []SocksInv
<1>1. SocksInit => SocksInv
  BY DEF SocksInit, SocksInv
<1>2. QED  BY <1>1, StepSocks, PTL

\* No order of the handshake's reads and failures tells a client of a success
\* that is not, or of two fates.
THEOREM SocksTellsTheTruth == SocksInit /\ [][SocksNext]_socksVars => []SocksRepliesTruthful
<1>1. QED  BY SocksInvariant, SocksTruth, PTL

-----------------------------------------------------------------------------
(* HttpHandler: where the handler stands in a body is where the upstream   *)
(* does that reads what it has been sent.                                  *)

\* Folding a request's pieces from the left gives, for one piece more, what is
\* expected after that piece.
States == {"chunk", "data", "crlf", "trailer", "body", "end", "ended", "confused"}
Expectation == [state : States, left : Int]

\* Max of a set of positions is the last of them.
LEMMA Topmost ==
    ASSUME NEW n \in Nat, NEW T \in SUBSET (1..n), T # {}
    PROVE  Max(T) \in T /\ \A y \in T : Max(T) >= y
<1> DEFINE P(k) == \A U \in SUBSET (1..k) : U # {} => \E m \in U : \A y \in U : m >= y
           N == {k \in Nat : P(k)}
<1>1. 0 \in N
  <2>1. 1..0 = {}
    OBVIOUS
  <2>2. QED  BY <2>1
<1>2. ASSUME NEW k \in N PROVE k + 1 \in N
  <2>1. SUFFICES ASSUME NEW U \in SUBSET (1..(k + 1)), U # {} PROVE \E m \in U : \A y \in U : m >= y
    OBVIOUS
  <2>2. CASE k + 1 \in U
    BY <2>2
  <2>3. CASE k + 1 \notin U
    <3>1. \A y \in U : y \in 1..k
      BY <2>3
    <3>2. U \in SUBSET (1..k) /\ P(k)
      BY <3>1
    <3>3. QED  BY <2>1, <3>2
  <2>4. QED  BY <2>2, <2>3
<1>3. N = Nat
  <2>1. N \in SUBSET Nat
    OBVIOUS
  <2> HIDE DEF N
  <2>2. QED  BY <1>1, <1>2, <2>1, SetInduction
<1>4. \E m \in T : \A y \in T : m >= y
  <2>1. n \in N
    <3> HIDE DEF N
    <3>1. QED  BY <1>3
  <2>2. QED  BY <2>1
<1>5. QED  BY <1>4 DEF Max

\* After any piece, what is expected is one of the things there are to expect.
LEMMA AfterPieceExpects ==
    ASSUME NEW r \in Expectation, NEW piece
    PROVE  AfterPiece(r, piece) \in Expectation
<1>1. \A a \in States, n \in Int : Expecting(a, n) \in Expectation
  BY DEF Expecting, Expectation
<1>2. r.left \in Int /\ r.left - 1 \in Int
  BY DEF Expectation
<1>3. ASSUME NEW n \in 1..MaxChunk, piece = <<"size", n>>
      PROVE  Expecting("data", piece[2]) \in Expectation
  <2>1. piece[2] = n /\ n \in Int /\ "data" \in States
    BY <1>3, HttpAssumption DEF States
  <2>2. QED  BY <1>1, <2>1
<1>4. /\ Expecting("trailer", 0) \in Expectation /\ Expecting("chunk", 0) \in Expectation
      /\ Expecting("end", 0) \in Expectation /\ Expecting("ended", 0) \in Expectation
      /\ Expecting("confused", 0) \in Expectation
      /\ Expecting("crlf", r.left - 1) \in Expectation /\ Expecting("data", r.left - 1) \in Expectation
      /\ Expecting("end", r.left - 1) \in Expectation /\ Expecting("body", r.left - 1) \in Expectation
  BY <1>1, <1>2 DEF States
<1>5. piece \in {<<"size", n>> : n \in 1..MaxChunk} => Expecting("data", piece[2]) \in Expectation
  BY <1>3
<1> HIDE DEF Expectation
<1>6. QED  BY <1>4, <1>5, Zenon DEF AfterPiece

\* The fold that FoldLeft(AfterPiece, base, s) is defined by.
IsReading(g, base, s) ==
    g = [T \in SUBSET DOMAIN s |-> IF T = {} THEN base ELSE AfterPiece(g[T \ {Max(T)}], s[Max(T)])]

Read(base, s) == FoldLeft(AfterPiece, base, s)

LEMMA ReadIs ==
    ASSUME NEW base, NEW s
    PROVE  Read(base, s) = (CHOOSE g : IsReading(g, base, s))[DOMAIN s]
  BY DEF Read, FoldLeft, MapThenFoldSet, IsReading

LEMMA ReadingExists ==
    ASSUME NEW base \in Expectation, NEW P, NEW s \in Seq(P)
    PROVE  \E g \in [SUBSET DOMAIN s -> Expectation] : IsReading(g, base, s)
<1> DEFINE S == DOMAIN s
           pick == [T \in SUBSET S |-> Max(T)]
           step == [ri \in Expectation \X S |-> AfterPiece(ri[1], s[ri[2]])]
<1>1. S = 1..Len(s) /\ Len(s) \in Nat /\ IsFiniteSet(S)
  BY FS_Interval
<1>2. ASSUME NEW T \in SUBSET S, T # {} PROVE pick[T] \in T /\ pick[T] = Max(T)
  BY <1>1, <1>2, Topmost
<1>3. step \in [Expectation \X S -> Expectation]
  <2>1. \A ri \in Expectation \X S : AfterPiece(ri[1], s[ri[2]]) \in Expectation
    BY AfterPieceExpects
  <2>2. QED  BY <2>1
<1>4. \A r \in Expectation, i \in S : step[<<r, i>>] = AfterPiece(r, s[i])
  OBVIOUS
<1> HIDE DEF pick, step, S
<1>5. PICK g \in [SUBSET S -> Expectation] : IsFold(g, S, base, pick, step)
  BY <1>1, <1>2, <1>3, FoldExists
<1>6. ASSUME NEW T \in SUBSET S, T # {}
      PROVE  step[<<g[T \ {pick[T]}], pick[T]>>] = AfterPiece(g[T \ {Max(T)}], s[Max(T)])
  <2>1. pick[T] \in S /\ pick[T] = Max(T) /\ T \ {pick[T]} \in SUBSET S
    BY <1>2, <1>6
  <2>2. g[T \ {pick[T]}] \in Expectation
    BY <2>1
  <2>3. QED  BY <1>4, <2>1, <2>2
<1>7. \A T \in SUBSET S : g[T] = IF T = {} THEN base ELSE AfterPiece(g[T \ {Max(T)}], s[Max(T)])
  <2>1. \A T \in SUBSET S : g[T] = IF T = {} THEN base ELSE step[<<g[T \ {pick[T]}], pick[T]>>]
    BY <1>5 DEF IsFold
  <2>2. QED  BY <1>6, <2>1
<1>8. IsReading(g, base, s)
  BY <1>7 DEF IsReading, S
<1>9. QED  BY <1>8 DEF S

\* g gives what is expected after each beginning of s.
Reads(g, base, s) ==
    /\ Read(base, s) = g[1..Len(s)]
    /\ g[{}] = base
    /\ \A k \in 1..Len(s) : g[1..k] = AfterPiece(g[1..(k - 1)], s[k])

LEMMA ReadRule ==
    ASSUME NEW base \in Expectation, NEW P, NEW s \in Seq(P)
    PROVE  \E g : Reads(g, base, s)
<1> DEFINE g == CHOOSE g : IsReading(g, base, s)
<1>1. IsReading(g, base, s)
  BY ReadingExists
<1>2. Read(base, s) = g[DOMAIN s]
  BY ReadIs
<1> HIDE DEF g
<1>3. DOMAIN s = 1..Len(s) /\ Len(s) \in Nat
  OBVIOUS
<1>4. ASSUME NEW k \in 1..Len(s)
      PROVE  g[1..k] = AfterPiece(g[1..(k - 1)], s[k])
  <2>1. 1..k \in SUBSET DOMAIN s /\ 1..k # {} /\ k \in Nat /\ k \in 1..k
    <3>1. k \in Nat /\ k >= 1 /\ k <= Len(s)
      BY <1>3
    <3>2. \A i \in 1..k : i \in 1..Len(s)
      BY <1>3, <3>1
    <3>3. k \in 1..k
      BY <3>1
    <3>4. QED  BY <1>3, <3>1, <3>2, <3>3, Zenon
  <2>2. Max(1..k) = k
    <3>1. Max(1..k) \in 1..k /\ Max(1..k) >= k
      BY <2>1, Topmost
    <3>2. QED  BY <2>1, <3>1
  <2>3. (1..k) \ {k} = 1..(k - 1)
    BY <2>1
  <2>4. g[1..k] = AfterPiece(g[(1..k) \ {Max(1..k)}], s[Max(1..k)])
    BY <1>1, <2>1 DEF IsReading
  <2>5. QED  BY <2>2, <2>3, <2>4
<1>5. g[{}] = base
  BY <1>1 DEF IsReading
<1>6. QED  BY <1>2, <1>3, <1>4, <1>5 DEF Reads

\* What has been read of nothing, and of one piece more.
LEMMA ReadNothing == ASSUME NEW base \in Expectation PROVE Read(base, << >>) = base
<1>1. << >> \in Seq({}) /\ Len(<< >>) = 0 /\ 1..0 = {}
  OBVIOUS
<1>2. PICK g : Reads(g, base, << >>)
  BY <1>1, ReadRule
<1>3. QED  BY <1>1, <1>2 DEF Reads

LEMMA ReadOneMore ==
    ASSUME NEW base \in Expectation, NEW P, NEW s \in Seq(P), NEW piece \in P
    PROVE  Read(base, Append(s, piece)) = AfterPiece(Read(base, s), piece)
<1> DEFINE t == Append(s, piece)
           n == Len(s)
<1>1. t \in Seq(P) /\ n \in Nat /\ Len(t) = n + 1 /\ t[n + 1] = piece /\ \A i \in 1..n : t[i] = s[i]
  OBVIOUS
<1> HIDE DEF t
<1>2. PICK g : Reads(g, base, s)
  BY ReadRule
<1>3. PICK h : Reads(h, base, t)
  BY <1>1, ReadRule
<1> DEFINE N == {k \in Nat : k <= n => h[1..k] = g[1..k]}
<1>4. 0 \in N
  <2>1. 1..0 = {}
    OBVIOUS
  <2>2. QED  BY <1>2, <1>3, <2>1 DEF Reads
<1>5. ASSUME NEW k \in N PROVE k + 1 \in N
  <2>1. SUFFICES ASSUME k + 1 <= n PROVE h[1..(k + 1)] = g[1..(k + 1)]
    OBVIOUS
  <2>2. k + 1 \in 1..Len(s) /\ k + 1 \in 1..Len(t) /\ (k + 1) - 1 = k /\ k <= n
    BY <1>1, <2>1
  <2>3. h[1..k] = g[1..k] /\ t[k + 1] = s[k + 1]
    BY <1>1, <2>2
  <2>4. h[1..(k + 1)] = AfterPiece(h[1..k], t[k + 1]) /\ g[1..(k + 1)] = AfterPiece(g[1..k], s[k + 1])
    BY <1>2, <1>3, <2>2 DEF Reads
  <2>5. QED  BY <2>3, <2>4
<1>6. N = Nat
  <2>1. N \in SUBSET Nat
    OBVIOUS
  <2> HIDE DEF N
  <2>2. QED  BY <1>4, <1>5, <2>1, SetInduction
<1>7. h[1..n] = g[1..n]
  <2>1. n \in N
    <3> HIDE DEF N
    <3>1. QED  BY <1>1, <1>6
  <2>2. QED  BY <1>1, <2>1
<1>8. n + 1 \in 1..Len(t) /\ (n + 1) - 1 = n
  BY <1>1
<1>9. h[1..(n + 1)] = AfterPiece(h[1..n], t[n + 1])
  BY <1>3, <1>8 DEF Reads
<1>10. QED  BY <1>1, <1>2, <1>3, <1>7, <1>9 DEF Reads, t

\* What the proxy makes of a head it accepts is what its recipient makes of it.
LEMMA FramingSent ==
    ASSUME NEW h \in RequestHeads, Framing(h) # "invalid"
    PROVE  /\ RecipientFraming(ForwardedFraming(h)) = Framing(h)
           /\ Framing(h) \in {"chunked", "length", "none"}
           /\ Framing(h) = "length" => Head(h.cl) \in Nat
           /\ Framing(h) = "chunked" => AtBody(ForwardedFraming(h)) = Expecting("chunk", 0)
           /\ Framing(h) = "length" /\ Head(h.cl) > 0 =>
                AtBody(ForwardedFraming(h)) = Expecting("body", Head(h.cl))
           /\ ~(Framing(h) = "chunked") /\ ~(Framing(h) = "length" /\ Head(h.cl) > 0) =>
                AtBody(ForwardedFraming(h)) = Expecting("end", 0)
<1> DEFINE te == IF Framing(h) = "chunked" THEN h.te ELSE << >>
           cl == IF Framing(h) = "length" THEN <<Head(h.cl)>> ELSE << >>
           f == ForwardedFraming(h)
<1>0. h.te \in Seq({h.te[i] : i \in DOMAIN h.te}) /\ h.cl \in Seq(Nat \cup {BadValue})
  BY HttpAssumption
<1>1. f = [te |-> te, cl |-> cl]
  <2>1. "content-length" \in HopByHop(h) /\ "transfer-encoding" \in HopByHop(h)
    BY DEF HopByHop, FramingFields
  <2>2. << >> \o te = te
    BY <1>0
  <2>3. << >> \o cl = cl
    OBVIOUS
  <2> HIDE DEF te, cl
  <2>4. f = [te |-> << >> \o te, cl |-> << >> \o cl]
    BY <2>1 DEF ForwardedFraming, te, cl
  <2>5. QED  BY <2>2, <2>3, <2>4
<1>2. f.te = te /\ f.cl = cl
  BY <1>1
<1> HIDE DEF f
<1>3. CASE Framing(h) = "chunked"
  <2>1. te = h.te /\ cl = << >> /\ h.te # << >> /\ ValidCodings(h.te)
    BY <1>3 DEF Framing
  <2>2. \A i \in DOMAIN te : (te[i] = "chunked") <=> (i = Len(te))
    BY <2>1 DEF ValidCodings
  <2>3. f.te # << >> /\ ~(f.cl # << >>) /\ \A i \in DOMAIN f.te : (f.te[i] = "chunked") <=> (i = Len(f.te))
    BY <1>2, <2>1, <2>2
  <2>4. RecipientFraming(f) = "chunked"
    BY <2>3 DEF RecipientFraming
  <2>5. AtBody(f) = Expecting("chunk", 0)
    BY <2>4 DEF AtBody
  <2>6. QED  BY <1>3, <2>4, <2>5 DEF f
<1>4. CASE Framing(h) = "length"
  <2>1. te = << >> /\ cl = <<Head(h.cl)>> /\ h.cl # << >> /\ ValidLengths(h.cl)
    BY <1>4 DEF Framing
  <2>2. Head(h.cl) = h.cl[1] /\ 1 \in DOMAIN h.cl /\ h.cl[1] \in Nat \cup {BadValue}
    BY <1>0, <2>1
  <2>3. Head(h.cl) \in Nat
    BY <2>1, <2>2 DEF ValidLengths
  <2>4. Len(f.cl) = 1 /\ f.cl # << >> /\ f.cl[1] = Head(h.cl) /\ f.te = << >>
    BY <1>2, <2>1
  <2>5. RecipientFraming(f) = "length"
    BY <2>4 DEF RecipientFraming
  <2>6. AtBody(f) = IF Head(h.cl) > 0 THEN Expecting("body", Head(h.cl)) ELSE Expecting("end", 0)
    BY <2>4, <2>5 DEF AtBody
  <2>7. QED  BY <1>4, <2>3, <2>5, <2>6 DEF f
<1>5. CASE Framing(h) = "none"
  <2>1. f.te = << >> /\ f.cl = << >> /\ Len(f.cl) = 0
    BY <1>2, <1>5
  <2>2. RecipientFraming(f) = "none"
    BY <2>1 DEF RecipientFraming
  <2>3. AtBody(f) = Expecting("end", 0)
    BY <2>2 DEF AtBody
  <2>4. QED  BY <1>5, <2>2, <2>3 DEF f
<1>6. QED  BY <1>3, <1>4, <1>5 DEF Framing

\* What each piece is taken for where it is expected.
LEMMA PieceRead ==
    /\ \A n \in 1..MaxChunk : AfterPiece(Expecting("chunk", 0), <<"size", n>>) = Expecting("data", n)
    /\ AfterPiece(Expecting("chunk", 0), <<"size", 0>>) = Expecting("trailer", 0)
    /\ \A n \in Nat \ {0} :
         /\ AfterPiece(Expecting("data", n), <<"data">>) =
              Expecting(IF n = 1 THEN "crlf" ELSE "data", n - 1)
         /\ AfterPiece(Expecting("body", n), <<"data">>) =
              Expecting(IF n = 1 THEN "end" ELSE "body", n - 1)
    /\ AfterPiece(Expecting("crlf", 0), <<"crlf">>) = Expecting("chunk", 0)
    /\ AfterPiece(Expecting("trailer", 0), <<"trailer">>) = Expecting("trailer", 0)
    /\ AfterPiece(Expecting("trailer", 0), <<"blank">>) = Expecting("end", 0)
    /\ AfterPiece(Expecting("end", 0), <<"eof">>) = Expecting("ended", 0)
<1>0. \A a, n : Expecting(a, n).state = a /\ Expecting(a, n).left = n
  BY DEF Expecting
<1>1. ASSUME NEW n \in 1..MaxChunk
      PROVE  AfterPiece(Expecting("chunk", 0), <<"size", n>>) = Expecting("data", n)
  <2>1. <<"size", n>> \in {<<"size", k>> : k \in 1..MaxChunk} /\ <<"size", n>>[2] = n
    OBVIOUS
  <2>2. QED  BY <1>0, <2>1 DEF AfterPiece
<1>2. AfterPiece(Expecting("chunk", 0), <<"size", 0>>) = Expecting("trailer", 0)
  <2>1. <<"size", 0>> \notin {<<"size", k>> : k \in 1..MaxChunk}
    OBVIOUS
  <2>2. QED  BY <1>0, <2>1 DEF AfterPiece
<1>3. ASSUME NEW n \in Nat \ {0}
      PROVE  /\ AfterPiece(Expecting("data", n), <<"data">>) =
                  Expecting(IF n = 1 THEN "crlf" ELSE "data", n - 1)
             /\ AfterPiece(Expecting("body", n), <<"data">>) =
                  Expecting(IF n = 1 THEN "end" ELSE "body", n - 1)
  BY <1>0 DEF AfterPiece
<1>4. /\ AfterPiece(Expecting("crlf", 0), <<"crlf">>) = Expecting("chunk", 0)
      /\ AfterPiece(Expecting("trailer", 0), <<"trailer">>) = Expecting("trailer", 0)
      /\ AfterPiece(Expecting("end", 0), <<"eof">>) = Expecting("ended", 0)
  BY <1>0 DEF AfterPiece
<1>5. AfterPiece(Expecting("trailer", 0), <<"blank">>) = Expecting("end", 0)
  <2>1. <<"blank">> # <<"trailer">>
    OBVIOUS
  <2>2. QED  BY <1>0, <2>1 DEF AfterPiece
<1>6. QED  BY <1>1, <1>2, <1>3, <1>4, <1>5

BodyStates == {"chunk", "data", "terminator", "trailer", "body", "end of body", "response"}
Pieces == {<<"head">>, <<"data">>, <<"crlf">>, <<"trailer">>, <<"blank">>, <<"eof">>}
            \cup {<<"size", n>> : n \in 0..MaxChunk}

\* While the handler reads a body it stands where the upstream stands in what it
\* has been sent.
Place ==
    /\ httpPc = "chunk" => Reception = Expecting("chunk", 0)
    /\ httpPc = "data" => remaining \in Nat \ {0} /\ Reception = Expecting("data", remaining)
    /\ httpPc = "terminator" => Reception = Expecting("crlf", 0)
    /\ httpPc = "trailer" => Reception = Expecting("trailer", 0)
    /\ httpPc = "body" => remaining \in Nat \ {0} /\ Reception = Expecting("body", remaining)
    /\ httpPc = "end of body" => Reception = Expecting("end", 0)
    /\ httpPc = "response" => Reception.state \in {"end", "ended"}

\* A request that is forwarded: its method is known and its framing is not refused.
Accepted(h) == h \in RequestHeads /\ h.kind = "verb" /\ Framing(h) # "invalid"

\* Nothing is forwarded before the head, and what is forwarded has a reading.
MessageInv ==
    /\ httpPc \in {"request line", "headers", "connecting", "tunnel", "returned"} \cup BodyStates
    /\ httpPc = "connecting" => head \in RequestHeads /\ (head.kind = "verb" => Accepted(head))
    /\ httpPc \in {"request line", "headers", "connecting", "tunnel"} => forwarded = << >>
    /\ httpPc \in BodyStates => forwarded # << >>
    /\ forwarded \in Seq(Pieces)
    /\ forwarded # << >> => Accepted(head) /\ Reception.state # "confused"
    /\ Place

LEMMA ReceptionRead ==
    Reception = Read(AtBody(ForwardedFraming(head)), Tail(forwarded))
  BY DEF Reception, Read

LEMMA ExpectingIs ==
    /\ \A a \in States, n \in Int : Expecting(a, n) \in Expectation
    /\ \A a, n : Expecting(a, n).state = a /\ Expecting(a, n).left = n
  BY DEF Expecting, Expectation

LEMMA BodyExpected == ASSUME NEW h, Accepted(h) PROVE AtBody(ForwardedFraming(h)) \in Expectation
<1>1. h \in RequestHeads /\ Framing(h) # "invalid"
  BY DEF Accepted
<1>2. "chunk" \in States /\ "body" \in States /\ "end" \in States /\ 0 \in Int
  BY DEF States
<1>3. Framing(h) = "length" => Head(h.cl) \in Int
  BY <1>1, FramingSent
<1>4. QED  BY <1>1, <1>2, <1>3, FramingSent, ExpectingIs

\* The head opens a message; each further piece is read as the next of it.
LEMMA HeadSent ==
    ASSUME forwarded = << >>, forwarded' = Append(forwarded, <<"head">>), head' = head, Accepted(head)
    PROVE  /\ forwarded' \in Seq(Pieces) /\ forwarded' # << >>
           /\ Reception' = AtBody(ForwardedFraming(head))
<1>1. forwarded' = <<<<"head">>>>
  OBVIOUS
<1>2. Tail(forwarded') = << >>
  BY <1>1
<1>3. Reception' = Read(AtBody(ForwardedFraming(head)), << >>)
  <2>1. Reception' = Read(AtBody(ForwardedFraming(head')), Tail(forwarded'))
    BY DEF Reception, Read
  <2>2. QED  BY <1>2, <2>1
<1>4. forwarded' \in Seq(Pieces)
  <2>1. <<"head">> \in Pieces
    BY DEF Pieces
  <2> DEFINE x == <<"head">>
  <2> HIDE DEF x
  <2>2. <<x>> \in Seq(Pieces)
    BY <2>1 DEF x
  <2>3. QED  BY <1>1, <2>2 DEF x
<1>5. QED  BY <1>1, <1>3, <1>4, BodyExpected, ReadNothing

LEMMA PieceSent ==
    ASSUME forwarded # << >>, forwarded \in Seq(Pieces), Accepted(head), head' = head,
           NEW piece \in Pieces, forwarded' = Append(forwarded, piece)
    PROVE  /\ forwarded' \in Seq(Pieces) /\ forwarded' # << >>
           /\ Reception' = AfterPiece(Reception, piece)
<1> DEFINE s == Tail(forwarded)
           base == AtBody(ForwardedFraming(head))
<1>1. forwarded' \in Seq(Pieces) /\ forwarded' # << >> /\ s \in Seq(Pieces)
      /\ Tail(forwarded') = Append(s, piece)
  <2>1. Len(forwarded) \in Nat /\ Len(forwarded) > 0
    OBVIOUS
  <2>2. forwarded' \in Seq(Pieces) /\ forwarded' # << >> /\ s \in Seq(Pieces)
    BY <2>1
  <2>3. Tail(forwarded') = Append(s, piece)
    <3>1. Len(Tail(forwarded')) = Len(Append(s, piece)) /\ Tail(forwarded') \in Seq(Pieces)
          /\ Append(s, piece) \in Seq(Pieces)
      BY <2>1, <2>2
    <3>2. ASSUME NEW i \in 1..Len(Tail(forwarded')) PROVE Tail(forwarded')[i] = Append(s, piece)[i]
      BY <2>1, <2>2, <3>1
    <3>3. QED  BY <3>1, <3>2, SeqEqual
  <2>4. QED  BY <2>2, <2>3
<1>2. Reception = Read(base, s)
  BY ReceptionRead
<1>3. Reception' = Read(base, Append(s, piece))
  <2>1. Reception' = Read(AtBody(ForwardedFraming(head')), Tail(forwarded'))
    BY DEF Reception, Read
  <2>2. QED  BY <1>1, <2>1
<1>4. base \in Expectation
  BY BodyExpected
<1> HIDE DEF base, s
<1>5. Read(base, Append(s, piece)) = AfterPiece(Read(base, s), piece)
  BY <1>1, <1>4, ReadOneMore
<1>6. QED  BY <1>1, <1>2, <1>3, <1>5

\* The states of the handler, and what is expected in each.
Stands(at, left, r) ==
    \/ at = "chunk" /\ r = Expecting("chunk", 0)
    \/ at = "data" /\ left \in Nat \ {0} /\ r = Expecting("data", left)
    \/ at = "terminator" /\ r = Expecting("crlf", 0)
    \/ at = "trailer" /\ r = Expecting("trailer", 0)
    \/ at = "body" /\ left \in Nat \ {0} /\ r = Expecting("body", left)
    \/ at = "end of body" /\ r = Expecting("end", 0)
    \/ at = "response" /\ r = Expecting("ended", 0)

LEMMA BodyGoesOn ==
    ASSUME Accepted(head), head' = head, forwarded' \in Seq(Pieces), forwarded' # << >>,
           Stands(httpPc', remaining', Reception')
    PROVE  MessageInv'
<1>1. Reception'.state # "confused"
  <2>1. \E a, n : Reception' = Expecting(a, n) /\ a # "confused"
    <3>1. CASE httpPc' = "data" \/ httpPc' = "body"
      <4>1. Reception' = Expecting("data", remaining') \/ Reception' = Expecting("body", remaining')
        BY <3>1 DEF Stands
      <4>2. QED  BY <4>1
    <3>2. CASE ~(httpPc' = "data" \/ httpPc' = "body")
      <4>1. PICK a \in {"chunk", "crlf", "trailer", "end", "ended"} : Reception' = Expecting(a, 0)
        BY <3>2 DEF Stands
      <4>2. QED  BY <4>1
    <3>3. QED  BY <3>1, <3>2
  <2>2. QED  BY <2>1, ExpectingIs
<1>2. Place'
  BY ExpectingIs DEF Stands, Place
<1>3. Accepted(head)'
  BY DEF Accepted
<1>4. httpPc' \in BodyStates
  BY DEF Stands, BodyStates
<1>5. QED  BY <1>1, <1>2, <1>3, <1>4 DEF MessageInv, BodyStates

LEMMA StepMessage == ASSUME MessageInv, [HttpNext]_httpVars PROVE MessageInv'
<1> USE DEF BodyStates
<1>0. UNCHANGED <<head, forwarded>> => Reception' = Reception
  BY DEF Reception
<1> DEFINE Same == UNCHANGED <<head, forwarded>>
<1>1. ASSUME Leave PROVE MessageInv'
  <2>1. httpPc' = "returned" /\ head' = head /\ forwarded' = forwarded
    BY <1>1 DEF Leave
  <2>2. QED  BY <1>0, <2>1 DEF MessageInv, Place
<1>2. ASSUME forwarded = << >>, forwarded' = forwarded,
             httpPc' \in {"headers", "connecting", "tunnel"},
             httpPc' = "connecting" => head' \in RequestHeads /\ (head'.kind = "verb" => Accepted(head'))
      PROVE  MessageInv'
  BY <1>2 DEF MessageInv, Place
<1>3. CASE UNCHANGED httpVars
  BY <1>0, <1>3 DEF httpVars, streams, MessageInv, Place
<1>4. CASE ReadRequestLine \/ ReadHeaderLine
  <2>1. CASE Leave
    BY <1>1, <2>1
  <2>2. CASE httpPc' = "headers" /\ forwarded' = forwarded
    BY <1>2, <1>4, <2>2 DEF ReadRequestLine, ReadHeaderLine, MessageInv
  <2>3. QED
    BY <1>4, <2>1, <2>2 DEF ReadRequestLine, ReadHeaderLine, GoOn, streams, LeaveSilently, LeaveWith
<1>5. ASSUME NEW h \in RequestHeads, EndOfHead(h) PROVE MessageInv'
  <2>1. CASE Leave
    BY <1>1, <2>1
  <2>2. CASE httpPc' = "connecting" /\ head' = h /\ forwarded' = forwarded /\ Refusals(h) = {}
    <3>1. h.kind = "verb" => Framing(h) # "invalid"
      BY <2>2 DEF Refusals
    <3>2. forwarded = << >>
      BY <1>5 DEF EndOfHead, MessageInv
    <3>3. QED  BY <1>2, <2>2, <3>1, <3>2 DEF Accepted
  <2>3. QED  BY <1>5, <2>1, <2>2 DEF EndOfHead, streams, LeaveWith
<1>6. CASE ConnectFails \/ EndTunnel
  BY <1>1, <1>6 DEF ConnectFails, EndTunnel, LeaveWith, LeaveSilently
<1>7. CASE BeginTunnel
  <2>1. forwarded = << >> /\ forwarded' = forwarded /\ httpPc' = "tunnel"
    BY <1>7 DEF BeginTunnel, GoOn, MessageInv
  <2>2. QED  BY <1>2, <2>1
<1>8. CASE SendHead
  <2>1. /\ forwarded = << >> /\ forwarded' = Append(forwarded, <<"head">>)
        /\ head' = head /\ Accepted(head)
    BY <1>8 DEF SendHead, Forwarding, GoOn, MessageInv
  <2>2. /\ forwarded' \in Seq(Pieces) /\ forwarded' # << >>
        /\ Reception' = AtBody(ForwardedFraming(head))
    BY <2>1, HeadSent
  <2>3. head \in RequestHeads /\ Framing(head) # "invalid"
    BY <2>1 DEF Accepted
  <2>4. CASE Framing(head) = "chunked"
    <3>1. httpPc' = "chunk"
      BY <1>8, <2>4 DEF SendHead, GoOn
    <3>2. Reception' = Expecting("chunk", 0)
      BY <2>2, <2>3, <2>4, FramingSent
    <3>3. QED  BY <2>1, <2>2, <3>1, <3>2, BodyGoesOn DEF Stands
  <2>5. CASE Framing(head) = "length" /\ Head(head.cl) > 0
    <3>1. httpPc' = "body" /\ remaining' = Head(head.cl)
      BY <1>8, <2>5 DEF SendHead, GoOn
    <3>2. Reception' = Expecting("body", Head(head.cl)) /\ Head(head.cl) \in Nat \ {0}
      BY <2>2, <2>3, <2>5, FramingSent
    <3>3. QED  BY <2>1, <2>2, <3>1, <3>2, BodyGoesOn DEF Stands
  <2>6. CASE ~(Framing(head) = "chunked") /\ ~(Framing(head) = "length" /\ Head(head.cl) > 0)
    <3>1. httpPc' = "end of body"
      BY <1>8, <2>6 DEF SendHead, GoOn
    <3>2. Reception' = Expecting("end", 0)
      BY <2>2, <2>3, <2>6, FramingSent
    <3>3. QED  BY <2>1, <2>2, <3>1, <3>2, BodyGoesOn DEF Stands
  <2>7. QED  BY <2>4, <2>5, <2>6
<1>9. CASE UpstreamLost
  BY <1>0, <1>9 DEF UpstreamLost, MessageInv, Place
<1>10. ASSUME httpPc \in BodyStates, NEW piece \in Pieces, Forwarding(piece), head' = head
       PROVE  /\ Reception' = AfterPiece(Reception, piece)
              /\ forwarded' \in Seq(Pieces) /\ forwarded' # << >> /\ Accepted(head)
  BY <1>10, PieceSent DEF Forwarding, MessageInv
<1>11. CASE ReadChunkHeader
  <2>1. CASE Leave
    BY <1>1, <2>1
  <2>2. ASSUME NEW size \in 0..MaxChunk, Forwarding(<<"size", size>>), remaining' = size,
               GoOn(IF size = 0 THEN "trailer" ELSE "data")
        PROVE  MessageInv'
    <3>1. <<"size", size>> \in Pieces
      BY DEF Pieces
    <3>2. head' = head /\ httpPc' = (IF size = 0 THEN "trailer" ELSE "data")
      BY <2>2 DEF GoOn
    <3>3. httpPc = "chunk" /\ Reception = Expecting("chunk", 0)
      BY <1>11 DEF ReadChunkHeader, MessageInv, Place
    <3>4. /\ Reception' = AfterPiece(Expecting("chunk", 0), <<"size", size>>)
          /\ forwarded' \in Seq(Pieces) /\ forwarded' # << >> /\ Accepted(head)
      BY <1>10, <2>2, <3>1, <3>2, <3>3
    <3>5. CASE size = 0
      BY <3>2, <3>4, <3>5, PieceRead, BodyGoesOn DEF Stands
    <3>6. CASE size # 0
      <4>1. size \in 1..MaxChunk /\ size \in Nat \ {0}
        BY <3>6, HttpAssumption
      <4>2. Reception' = Expecting("data", size)
        BY <3>4, <4>1, PieceRead
      <4>3. QED  BY <2>2, <3>2, <3>4, <3>6, <4>1, <4>2, BodyGoesOn DEF Stands
    <3>7. QED  BY <3>5, <3>6
  <2>3. QED  BY <1>11, <2>1, <2>2 DEF ReadChunkHeader, LeaveWith, LeaveSilently
<1>12. CASE ReadData
  <2>1. CASE Leave
    BY <1>1, <2>1
  <2>2. CASE /\ Forwarding(<<"data">>) /\ remaining' = remaining - 1
             /\ GoOn(IF remaining > 1 THEN httpPc
                     ELSE IF httpPc = "data" THEN "terminator" ELSE "end of body")
    <3>1. <<"data">> \in Pieces
      BY DEF Pieces
    <3>0. httpPc \in {"data", "body"} /\ remaining \in Nat \ {0}
      <4>1. httpPc \in {"data", "body"}
        BY <1>12 DEF ReadData
      <4>2. QED  BY <4>1 DEF MessageInv, Place
    <3>2. /\ head' = head /\ httpPc \in {"data", "body"}
          /\ remaining > 1 => httpPc' = httpPc
          /\ remaining = 1 => httpPc' = IF httpPc = "data" THEN "terminator" ELSE "end of body"
      <4>1. remaining = 1 => ~(remaining > 1)
        OBVIOUS
      <4>2. /\ head' = head
            /\ httpPc' = IF remaining > 1 THEN httpPc
                         ELSE IF httpPc = "data" THEN "terminator" ELSE "end of body"
        BY <2>2 DEF GoOn
      <4>3. QED  BY <3>0, <4>1, <4>2
    <3>3. /\ Reception' = AfterPiece(Reception, <<"data">>)
          /\ forwarded' \in Seq(Pieces) /\ forwarded' # << >> /\ Accepted(head)
      BY <1>10, <2>2, <3>1, <3>2
    <3>4. Reception = Expecting(httpPc, remaining)
      BY <3>2 DEF MessageInv, Place
    <3>5. CASE remaining > 1
      <4>1. remaining - 1 \in Nat \ {0} /\ remaining # 1
        BY <3>0, <3>5
      <4>2. Reception' = Expecting(httpPc, remaining - 1)
        BY <3>0, <3>2, <3>3, <3>4, <4>1, PieceRead
      <4>3. QED  BY <2>2, <3>2, <3>3, <3>5, <4>1, <4>2, BodyGoesOn DEF Stands
    <3>6. CASE remaining = 1
      <4>1. 1 \in Nat \ {0} /\ 1 - 1 = 0
        OBVIOUS
      <4>2. CASE httpPc = "data"
        <5>1. Reception' = Expecting("crlf", 0)
          BY <3>3, <3>4, <3>6, <4>1, <4>2, PieceRead
        <5>2. QED  BY <3>2, <3>3, <3>6, <4>2, <5>1, BodyGoesOn DEF Stands
      <4>3. CASE httpPc = "body"
        <5>1. Reception' = Expecting("end", 0)
          BY <3>3, <3>4, <3>6, <4>1, <4>3, PieceRead
        <5>2. QED  BY <3>2, <3>3, <3>6, <4>3, <5>1, BodyGoesOn DEF Stands
      <4>4. QED  BY <3>2, <4>2, <4>3
    <3>7. remaining > 1 \/ remaining = 1
      BY <3>0
    <3>8. QED  BY <3>5, <3>6, <3>7
  <2>3. QED  BY <1>12, <2>1, <2>2 DEF ReadData, LeaveSilently
<1>13. CASE ReadTerminator
  <2>1. CASE Leave
    BY <1>1, <2>1
  <2>2. CASE Forwarding(<<"crlf">>) /\ GoOn("chunk")
    <3>1. <<"crlf">> \in Pieces
      BY DEF Pieces
    <3>2. head' = head /\ httpPc' = "chunk" /\ httpPc = "terminator" /\ Reception = Expecting("crlf", 0)
      BY <1>13, <2>2 DEF GoOn, ReadTerminator, MessageInv, Place
    <3>3. /\ Reception' = AfterPiece(Expecting("crlf", 0), <<"crlf">>)
          /\ forwarded' \in Seq(Pieces) /\ forwarded' # << >> /\ Accepted(head)
      BY <1>10, <2>2, <3>1, <3>2
    <3>4. QED  BY <3>2, <3>3, PieceRead, BodyGoesOn DEF Stands
  <2>3. QED  BY <1>13, <2>1, <2>2 DEF ReadTerminator, LeaveSilently, LeaveWith
<1>14. CASE ReadTrailer
  <2>1. CASE Leave
    BY <1>1, <2>1
  <2>2. httpPc = "trailer" /\ Reception = Expecting("trailer", 0)
    BY <1>14 DEF ReadTrailer, MessageInv, Place
  <2>3. CASE Forwarding(<<"trailer">>) /\ GoOn("trailer")
    <3>1. <<"trailer">> \in Pieces /\ head' = head /\ httpPc' = "trailer"
      BY <2>3 DEF Pieces, GoOn
    <3>2. /\ Reception' = AfterPiece(Expecting("trailer", 0), <<"trailer">>)
          /\ forwarded' \in Seq(Pieces) /\ forwarded' # << >> /\ Accepted(head)
      BY <1>10, <2>2, <2>3, <3>1
    <3>3. QED  BY <3>1, <3>2, PieceRead, BodyGoesOn DEF Stands
  <2>4. CASE Forwarding(<<"blank">>) /\ GoOn("end of body")
    <3>1. <<"blank">> \in Pieces /\ head' = head /\ httpPc' = "end of body"
      BY <2>4 DEF Pieces, GoOn
    <3>2. /\ Reception' = AfterPiece(Expecting("trailer", 0), <<"blank">>)
          /\ forwarded' \in Seq(Pieces) /\ forwarded' # << >> /\ Accepted(head)
      BY <1>10, <2>2, <2>4, <3>1
    <3>3. QED  BY <3>1, <3>2, PieceRead, BodyGoesOn DEF Stands
  <2>5. QED  BY <1>14, <2>1, <2>3, <2>4 DEF ReadTrailer, LeaveSilently, LeaveWith
<1>15. CASE EndOfBody
  <2>1. /\ httpPc = "end of body" /\ Reception = Expecting("end", 0)
        /\ httpPc' = "response" /\ head' = head
    BY <1>15 DEF EndOfBody, GoOn, MessageInv, Place
  <2>2. CASE Forwarding(<<"eof">>)
    <3>1. <<"eof">> \in Pieces
      BY DEF Pieces
    <3>2. /\ Reception' = AfterPiece(Expecting("end", 0), <<"eof">>)
          /\ forwarded' \in Seq(Pieces) /\ forwarded' # << >> /\ Accepted(head)
      BY <1>10, <2>1, <2>2, <3>1
    <3>3. QED  BY <2>1, <3>2, PieceRead, BodyGoesOn DEF Stands
  <2>3. CASE forwarded' = forwarded
    BY <1>0, <2>1, <2>3, ExpectingIs DEF MessageInv, Place
  <2>4. QED  BY <1>15, <2>2, <2>3 DEF EndOfBody
<1>16. CASE ForwardResponse
  <2>1. CASE Leave
    BY <1>1, <2>1
  <2>2. CASE Same /\ httpPc' = "response"
    BY <1>0, <1>16, <2>2 DEF ForwardResponse, MessageInv, Place
  <2>3. QED  BY <1>16, <2>1, <2>2 DEF ForwardResponse, GoOn, LeaveSilently
<1>17. QED
  BY <1>3, <1>4, <1>5, <1>6, <1>7, <1>8, <1>9, <1>11, <1>12, <1>13, <1>14, <1>15, <1>16
     DEF HttpNext, HttpRead

\* Nothing has been answered as long as the handler may still answer itself.
AnswersInv ==
    /\ httpPc \in {"request line", "headers", "connecting", "tunnel", "returned"} \cup BodyStates
    /\ httpPc \notin {"tunnel", "response", "returned"} => answered = << >>
    /\ httpPc = "tunnel" => answered = <<"200">>
    /\ httpPc = "response" => answered \in Seq({"data"})
    /\ HttpOneAnswer

LEMMA StepAnswers == ASSUME AnswersInv, [HttpNext]_httpVars PROVE AnswersInv'
<1> USE DEF BodyStates
<1>1. ASSUME LeaveSilently PROVE AnswersInv'
  <2>1. httpPc' = "returned" /\ answered' = answered
    BY <1>1 DEF LeaveSilently, Leave
  <2>2. HttpOneAnswer'
    BY <2>1 DEF HttpOneAnswer, AnswersInv
  <2>3. QED  BY <2>1, <2>2 DEF AnswersInv
<1>2. ASSUME answered = << >>, NEW status, LeaveWith(status) PROVE AnswersInv'
  <2>1. httpPc' = "returned" /\ answered' = <<status>>
    BY <1>2 DEF LeaveWith, Leave, Answer
  <2>2. Len(answered') = 1
    BY <2>1
  <2>3. QED  BY <2>1, <2>2 DEF AnswersInv, HttpOneAnswer
<1>3. ASSUME answered = << >>, answered' = answered, httpPc \notin {"tunnel", "returned"},
             httpPc' \in {"headers", "connecting"} \cup BodyStates
      PROVE  AnswersInv'
  <2>0. << >> \in Seq({"data"}) /\ DOMAIN << >> = {}
    OBVIOUS
  <2>1. answered' = << >> /\ DOMAIN answered' = {} /\ << >> \in Seq({"data"})
    BY <1>3, <2>0
  <2>2. HttpOneAnswer'
    BY <2>1 DEF HttpOneAnswer
  <2>3. QED  BY <1>3, <2>1, <2>2 DEF AnswersInv
<1>4. CASE UNCHANGED httpVars
  BY <1>4 DEF httpVars, streams, AnswersInv, HttpOneAnswer
<1>5. CASE httpPc \in {"request line", "headers"}
  <2>1. answered = << >>
    BY <1>5 DEF AnswersInv
  <2>2. CASE ReadRequestLine \/ ReadHeaderLine \/ \E h \in RequestHeads : EndOfHead(h)
    BY <1>1, <1>2, <1>3, <1>5, <2>1, <2>2
       DEF ReadRequestLine, ReadHeaderLine, EndOfHead, GoOn, streams
  <2>3. CASE UpstreamLost
    BY <1>3, <1>5, <2>1, <2>3 DEF UpstreamLost, AnswersInv, HttpOneAnswer
  <2>4. QED
    BY <1>4, <1>5, <2>2, <2>3
       DEF HttpNext, HttpRead, ConnectFails, BeginTunnel, EndTunnel, SendHead, ReadChunkHeader,
           ReadData, ReadTerminator, ReadTrailer, EndOfBody, ForwardResponse
<1>6. CASE httpPc = "connecting"
  <2>1. answered = << >>
    BY <1>6 DEF AnswersInv
  <2>2. CASE ConnectFails
    BY <1>2, <2>1, <2>2 DEF ConnectFails
  <2>3. CASE BeginTunnel
    <3>1. httpPc' = "tunnel" /\ answered' = <<"200">>
      BY <2>1, <2>3 DEF BeginTunnel, GoOn, Answer
    <3>2. Len(answered') = 1
      BY <3>1
    <3>3. QED  BY <3>1, <3>2 DEF AnswersInv, HttpOneAnswer
  <2>4. CASE SendHead
    <3>1. answered' = answered /\ httpPc' \in BodyStates
      BY <2>4 DEF SendHead, GoOn
    <3>2. QED  BY <1>3, <1>6, <2>1, <3>1
  <2>5. CASE UpstreamLost
    BY <2>5, <1>6 DEF UpstreamLost, AnswersInv, HttpOneAnswer
  <2>6. QED
    BY <1>4, <1>6, <2>2, <2>3, <2>4, <2>5
       DEF HttpNext, HttpRead, ReadRequestLine, ReadHeaderLine, EndOfHead, EndTunnel, ReadChunkHeader,
           ReadData, ReadTerminator, ReadTrailer, EndOfBody, ForwardResponse
<1>7. CASE httpPc \in {"tunnel", "returned"}
  <2>1. CASE EndTunnel
    BY <1>1, <2>1 DEF EndTunnel
  <2>2. QED
    BY <1>4, <1>7, <2>1
       DEF HttpNext, HttpRead, ReadRequestLine, ReadHeaderLine, EndOfHead, ConnectFails, BeginTunnel,
           SendHead, UpstreamLost, ReadChunkHeader, ReadData, ReadTerminator, ReadTrailer,
           EndOfBody, ForwardResponse
<1>8. CASE httpPc \in BodyStates \ {"response"}
  <2>1. answered = << >>
    BY <1>8 DEF AnswersInv
  <2>2. CASE ReadChunkHeader
    <3>1. CASE LeaveSilently \/ LeaveWith("400") \/ LeaveWith("431")
      BY <1>1, <1>2, <2>1, <3>1
    <3>2. CASE answered' = answered /\ httpPc' \in {"trailer", "data"}
      BY <1>3, <1>8, <2>1, <3>2
    <3>3. QED  BY <2>2, <3>1, <3>2 DEF ReadChunkHeader, GoOn
  <2>3. CASE ReadData
    <3>1. CASE LeaveSilently
      BY <1>1, <3>1
    <3>2. CASE answered' = answered /\ httpPc' \in {httpPc, "terminator", "end of body"}
      BY <1>3, <1>8, <2>1, <3>2
    <3>3. QED  BY <2>3, <3>1, <3>2 DEF ReadData, GoOn
  <2>4. CASE ReadTerminator \/ ReadTrailer
    <3>1. CASE LeaveSilently \/ LeaveWith("400") \/ LeaveWith("431")
      BY <1>1, <1>2, <2>1, <3>1
    <3>2. CASE answered' = answered /\ httpPc' \in {"chunk", "trailer", "end of body"}
      BY <1>3, <1>8, <2>1, <3>2
    <3>3. QED  BY <2>4, <3>1, <3>2 DEF ReadTerminator, ReadTrailer, GoOn
  <2>5. CASE EndOfBody \/ UpstreamLost
    <3>1. answered' = answered /\ httpPc' \in {httpPc, "response"}
      BY <2>5 DEF EndOfBody, UpstreamLost, GoOn
    <3>2. QED  BY <1>3, <1>8, <2>1, <3>1
  <2>6. QED
    BY <1>4, <1>8, <2>2, <2>3, <2>4, <2>5
       DEF HttpNext, HttpRead, ReadRequestLine, ReadHeaderLine, EndOfHead, ConnectFails, BeginTunnel,
           EndTunnel, SendHead, ForwardResponse
<1>9. CASE httpPc = "response"
  <2>1. CASE ForwardResponse
    <3>1. CASE LeaveSilently
      BY <1>1, <3>1
    <3>2. CASE httpPc' = "response" /\ Answer("data")
      <4>1. answered \in Seq({"data"})
        BY <1>9 DEF AnswersInv
      <4>2. answered' \in Seq({"data"})
        BY <3>2, <4>1 DEF Answer
      <4>3. \A i \in DOMAIN answered' : answered'[i] = "data"
        BY <4>2
      <4>4. QED  BY <3>2, <4>2, <4>3 DEF AnswersInv, HttpOneAnswer
    <3>3. QED  BY <2>1, <3>1, <3>2 DEF ForwardResponse, GoOn
  <2>2. CASE UpstreamLost
    BY <1>9, <2>2 DEF UpstreamLost, AnswersInv, HttpOneAnswer
  <2>3. QED
    BY <1>4, <1>9, <2>1, <2>2
       DEF HttpNext, HttpRead, ReadRequestLine, ReadHeaderLine, EndOfHead, ConnectFails, BeginTunnel,
           EndTunnel, SendHead, ReadChunkHeader, ReadData, ReadTerminator, ReadTrailer, EndOfBody
<1>10. QED  BY <1>5, <1>6, <1>7, <1>8, <1>9 DEF AnswersInv

\* For any heads, lengths and chunk sizes, whatever order reads, losses and
\* refusals come in: the upstream reads out of the head the framing the proxy has
\* decided on, what it is sent is at any time the beginning of one message in
\* that framing, and the client gets one answer.
THEOREM HttpForwardsOneMessage == HttpInit /\ [][HttpNext]_httpVars => []HttpExchangeSound
<1>1. HttpInit => MessageInv /\ AnswersInv
  <2>1. << >> \in Seq(Pieces) /\ DOMAIN << >> = {}
    OBVIOUS
  <2>2. QED  BY <2>1 DEF HttpInit, MessageInv, Place, BodyStates, AnswersInv, HttpOneAnswer
<1>2. (MessageInv /\ AnswersInv) /\ [HttpNext]_httpVars => (MessageInv /\ AnswersInv)'
  BY StepMessage, StepAnswers
<1>3. MessageInv /\ AnswersInv => HttpExchangeSound
  <2> SUFFICES ASSUME MessageInv, AnswersInv PROVE HttpExchangeSound
    OBVIOUS
  <2>1. HttpFramingAgrees
    BY FramingSent DEF HttpFramingAgrees, MessageInv, Accepted
  <2>2. HttpMessageWhole
    BY ExpectingIs DEF HttpMessageWhole, MessageInv, Place
  <2>3. QED  BY <2>1, <2>2 DEF HttpExchangeSound, AnswersInv
<1>4. QED  BY <1>1, <1>2, <1>3, PTL

-----------------------------------------------------------------------------
(* ClientConnection: each step is one of a part, or leaves it alone. *)

LEMMA StepOfParts ==
  ASSUME [ConnectionNext]_connectionVars
  PROVE  [RelayNext]_relayVars /\ [Next]_vars /\ [SocksNext]_socksVars /\ [HttpNext]_httpVars
<1>1. CASE HttpAlone
  BY <1>1 DEF HttpAlone, OfHttp
<1>2. CASE SocksAlone
  BY <1>2 DEF SocksAlone, OfSocks, SocksNext
<1>3. CASE UdpStarting
  <2>1. UNCHANGED relayVars /\ UNCHANGED httpVars
    BY <1>3 DEF UdpStarting, OfSocks
  <2>2. Created \/ CreateFails \/ AssociationEnds
    BY <1>3 DEF UdpStarting, OfSocks
  <2>3. UdpStarted \/ UdpStartFails \/ ControlEnds \/ UNCHANGED socksVars
    BY <1>3 DEF UdpStarting, OfSocks
  <2>4. Next
    BY <2>2 DEF Next
  <2>5. [SocksNext]_socksVars
    BY <2>3 DEF SocksNext
  <2>6. QED  BY <2>1, <2>4, <2>5
<1>4. CASE UdpServing
  <2>1. UNCHANGED relayVars /\ UNCHANGED socksVars /\ UNCHANGED httpVars
    BY <1>4 DEF UdpServing, OnUdp, OfSocks
  <2>2. \/ LoopStep \/ ResolutionEnds \/ Tick
        \/ \E s \in Senders : ClientDatagram(s)
        \/ \E p \in Peers : PeerDatagram(p)
    BY <1>4 DEF UdpServing, OnUdp, OfSocks
  <2>3. Next
    BY <2>2 DEF Next
  <2>4. QED  BY <2>1, <2>3
<1>5. CASE OnRelay(RelayNext)
  BY <1>5 DEF OnRelay
<1>6. CASE UNCHANGED connectionVars
  BY <1>6 DEF connectionVars
<1>7. QED  BY <1>1, <1>2, <1>3, <1>4, <1>5, <1>6 DEF ConnectionNext

LEMMA ConnectionHasParts ==
  ConnectionSpec =>
    /\ RelaySpec /\ Spec
    /\ SocksInit /\ [][SocksNext]_socksVars
    /\ HttpInit /\ [][HttpNext]_httpVars
<1>1. ConnectionInit => RelayInit /\ Init /\ SocksInit /\ HttpInit
  BY DEF ConnectionInit
<1>2. QED  BY <1>1, StepOfParts, PTL DEF ConnectionSpec, RelaySpec, Spec

\* A connection, whatever it becomes, keeps what its parts promise.
THEOREM ConnectionKeepsPromises ==
  ConnectionSpec =>
    /\ RelayIsBoundedPipe
    /\ RepliesSolicited /\ []OneClient /\ []AssociationSound
    /\ []SocksRepliesTruthful
    /\ []HttpExchangeSound
<1>1. QED
  BY ConnectionHasParts, RelayImplementsPipe, OnlySolicitedReplies, AssociationHasOneClient,
     AssociationKeepsItsTable, SocksTellsTheTruth, HttpForwardsOneMessage, PTL
=============================================================================
