------------------------------ MODULE DnsCache ------------------------------
(***************************************************************************)
(* The answer caches of dns.resolver: Cache, unbounded and cleaned now and *)
(* then, and LRUCache, a dictionary whose nodes are also in a              *)
(* doubly linked list, the one used last in front.  Every method holds the *)
(* lock and is one step.  Both caches are given the same calls.            *)
(***************************************************************************)
EXTENDS Naturals, Sequences, FiniteSets

CONSTANTS
    CacheKeys,         \* (name, type, class)
    Sentinel,          \* the list's sentinel node
    CacheSize,         \* max_size of LRUCache
    CleaningInterval,
    MaxAnswerTtl, MaxTime    \* bounds of an answer's ttl and of the clock

ASSUME CacheAssumption ==
    /\ IsFiniteSet(CacheKeys) /\ Sentinel \notin CacheKeys
    /\ CacheSize \in Nat \ {0} /\ CleaningInterval \in Nat
    /\ MaxAnswerTtl \in Nat /\ MaxTime \in Nat

Nodes == CacheKeys \cup {Sentinel}

VARIABLES
    cacheTime,
    cacheData,     \* Cache.data: per key in it, the answer's expiration
    nextCleaning,
    lruData,       \* LRUCache.data: per key in it, the answer's expiration
    links,         \* the nodes' prev and next
    got            \* what the last get() of each returned, 0 for None

cacheVars == <<cacheTime, cacheData, nextCleaning, lruData, links, got>>

Without(f, K) == [k \in DOMAIN f \ K |-> f[k]]
With(f, k, v) == [j \in DOMAIN f \cup {k} |-> IF j = k THEN v ELSE f[j]]

CacheInit ==
    /\ cacheTime = 0
    /\ cacheData = << >> /\ nextCleaning = CleaningInterval
    /\ lruData = << >>
    /\ links = [n \in Nodes |-> [prev |-> n, next |-> n]]
    /\ got = [cache |-> 0, lru |-> 0]

-----------------------------------------------------------------------------
(* LRUCacheNode. *)

Unlink(l, n) ==
    LET l1 == [l EXCEPT ![l[n].next].prev = l[n].prev]
    IN  [l1 EXCEPT ![l1[n].prev].next = l1[n].next]

\* Faulty variant: the two sides are mixed up, and the node comes to stand
\* before the node it was to follow.
LinkAfter_OtherSide(l, n, to) ==
    LET l1 == [l EXCEPT ![n] = [prev |-> l[to].prev, next |-> to]]
        l2 == [l1 EXCEPT ![l1[to].prev].next = n]
    IN  [l2 EXCEPT ![to].prev = n]

LinkAfter(l, n, to) ==
    LET l1 == [l EXCEPT ![n] = [prev |-> to, next |-> l[to].next]]
        l2 == [l1 EXCEPT ![l1[to].next].prev = n]
    IN  [l2 EXCEPT ![to].next = n]

\* Where n links from the sentinel on lead to.
Follow(l, n) ==
    LET f[i \in 0..n] == IF i = 0 THEN Sentinel ELSE l[f[i - 1]].next IN f[n]
Chain(l) == [i \in 1..Cardinality(DOMAIN lruData) |-> Follow(l, i)]

-----------------------------------------------------------------------------
(* The methods. *)

\* Cache._maybe_clean().
Cleaned ==
    IF nextCleaning <= cacheTime
    THEN Without(cacheData, {k \in DOMAIN cacheData : cacheData[k] <= cacheTime})
    ELSE cacheData
Clean == nextCleaning' = IF nextCleaning <= cacheTime THEN cacheTime + CleaningInterval ELSE nextCleaning

Fresh(data, k) == k \in DOMAIN data /\ data[k] > cacheTime

GetCached(k) ==
    /\ Clean /\ cacheData' = Cleaned
    /\ IF k \notin DOMAIN lruData THEN UNCHANGED <<links, lruData>>
       ELSE IF Fresh(lruData, k)
       THEN links' = LinkAfter(Unlink(links, k), k, Sentinel) /\ UNCHANGED lruData
       ELSE links' = Unlink(links, k) /\ lruData' = Without(lruData, {k})
    /\ got' = [cache |-> IF Fresh(cacheData', k) THEN cacheData'[k] ELSE 0,
               lru   |-> IF Fresh(lruData, k) THEN lruData[k] ELSE 0]
    /\ UNCHANGED cacheTime

\* The node of an earlier answer goes first, so that it does not cost the
\* least recently used one its place.
PutCached(k, ttl) ==
    /\ Clean /\ cacheData' = With(Cleaned, k, cacheTime + ttl)
    /\ LET had == k \in DOMAIN lruData
           l1 == IF had THEN Unlink(links, k) ELSE links
           d1 == Without(lruData, {k})
           full == Cardinality(DOMAIN d1) >= CacheSize
           oldest == l1[Sentinel].prev
           l2 == IF full THEN Unlink(l1, oldest) ELSE l1
           d2 == IF full THEN Without(d1, {oldest}) ELSE d1
       IN  /\ links' = LinkAfter(l2, k, Sentinel)
           /\ lruData' = With(d2, k, cacheTime + ttl)
    /\ UNCHANGED <<cacheTime, got>>

FlushKey(k) ==
    /\ cacheData' = Without(cacheData, {k})
    /\ lruData' = Without(lruData, {k})
    /\ links' = IF k \in DOMAIN lruData THEN Unlink(links, k) ELSE links
    /\ UNCHANGED <<cacheTime, nextCleaning, got>>

\* Every node is unlinked, from the front to the back.
FlushAll ==
    /\ cacheData' = << >> /\ nextCleaning' = cacheTime + CleaningInterval
    /\ lruData' = << >>
    /\ links' = LET f[i \in 0..Cardinality(DOMAIN lruData)] ==
                      IF i = 0 THEN links ELSE Unlink(f[i - 1], Chain(links)[i])
                IN  f[Cardinality(DOMAIN lruData)]
    /\ UNCHANGED <<cacheTime, got>>

CacheTimePasses ==
    /\ cacheTime < MaxTime /\ cacheTime' = cacheTime + 1
    /\ UNCHANGED <<cacheData, nextCleaning, lruData, links, got>>

CacheNext ==
    \/ \E k \in CacheKeys : GetCached(k) \/ FlushKey(k) \/ \E ttl \in 0..MaxAnswerTtl : PutCached(k, ttl)
    \/ FlushAll \/ CacheTimePasses
CacheSpec == CacheInit /\ [][CacheNext]_cacheVars

-----------------------------------------------------------------------------
(* Properties. *)

\* The list and the dictionary of LRUCache hold the same nodes, in either
\* direction and never more than max_size; LRUCache returns an answer only
\* where Cache returns the same one, and neither returns an answer whose time
\* is over, whatever was put, used, replaced, flushed or pushed out before.
CachesAgree ==
    /\ Cardinality(DOMAIN lruData) <= CacheSize
    /\ LET n == Cardinality(DOMAIN lruData)
       IN  /\ {Follow(links, i) : i \in 1..n} = DOMAIN lruData
           /\ Follow(links, n + 1) = Sentinel
           /\ \A i \in 0..n : links[Follow(links, i + 1)].prev = Follow(links, i)
    /\ \A k \in DOMAIN lruData : Fresh(lruData, k) => Fresh(cacheData, k) /\ lruData[k] = cacheData[k]
    /\ got.lru # 0 => got.lru = got.cache

\* The nodes are in the order of their last use, and the one used least
\* recently is the one that is pushed out.
Recency == INSTANCE RecencyList WITH keys <- CacheKeys, size <- CacheSize, order <- Chain(links)
LruIsRecencyList == Recency!RecencySpec

\* LRUCache is a list by last use, and says nothing that Cache does not.
CachesSound == []CachesAgree /\ LruIsRecencyList
=============================================================================
