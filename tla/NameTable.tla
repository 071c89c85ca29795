----------------------------- MODULE NameTable -----------------------------
(***************************************************************************)
(* Names that are compared, taken apart and put together (Name of          *)
(* dns/name.py), and a NameDict (dns/namedict.py), which keeps the depth   *)
(* of its deepest keys to look for a name's closest ancestor.              *)
(***************************************************************************)
EXTENDS Integers, Sequences, SequencesExt, FiniteSetsExt

CONSTANTS
    TableNames, \* sequences of labels; an absolute one ends with RootLabel
    MaxSets     \* bound on the items that are set

\* A label is [rank, capital]: labels compare by rank, which those that differ
\* in case alone share; the empty label b"" comes before all.
RootLabel == [rank |-> 0, capital |-> FALSE]

ASSUME NameTableAssumption ==
    /\ TableNames \subseteq Seq([rank : Nat, capital : BOOLEAN]) /\ MaxSets \in Nat
    /\ \A n \in TableNames : \A i \in DOMAIN n : n[i].rank = 0 => n[i] = RootLabel /\ i = Len(n)

VARIABLES
    store,         \* the keys of the NameDict, in the case each was first set in
    depths,        \* <<max_depth, max_depth_items>>
    sets,          \* items set so far
    sought, match  \* the name last looked for, and what was found

tableVars == <<store, depths, sets, sought, match>>

EmptyName == << >>
Yields(n) == [error |-> "none", is |-> n]
Raises(e) == [error |-> e, is |-> EmptyName]

TableInit ==
    /\ store = {} /\ depths = <<0, 0>> /\ sets = 0
    /\ sought = EmptyName /\ match = Raises("KeyError")

-----------------------------------------------------------------------------
(* Names. *)

IsAbsolute(n) == n # EmptyName /\ Last(n) = RootLabel
Canonicalize(n) == [i \in DOMAIN n |-> [n[i] EXCEPT !.capital = FALSE]]

\* fullcompare() goes from the end of both names to the first labels that
\* differ, or to the end of the shorter one; order is -1, 0 or 1.
RankFrom(n, k) == n[Len(n) - k].rank
Shorter(self, other) == Min({Len(self), Len(other)})
CommonLabels(self, other) ==
    LET shorter == Shorter(self, other)
        walk[k \in 0..shorter] ==
            IF k = shorter THEN k ELSE IF RankFrom(self, k) = RankFrom(other, k) THEN walk[k + 1] ELSE k
    IN  walk[0]
SignOf(x) == IF x > 0 THEN 1 ELSE IF x < 0 THEN -1 ELSE 0

FullCompare(self, other) ==
    LET same == CommonLabels(self, other)
        ldiff == Len(self) - Len(other)
        Result(relation, order, nlabels) == [relation |-> relation, order |-> order, nlabels |-> nlabels]
    IN  CASE IsAbsolute(self) # IsAbsolute(other) ->
               Result("NONE", IF IsAbsolute(self) THEN 1 ELSE -1, 0)
          [] IsAbsolute(self) = IsAbsolute(other) /\ same < Shorter(self, other) ->
               Result(IF same > 0 THEN "COMMONANCESTOR" ELSE "NONE",
                      SignOf(RankFrom(self, same) - RankFrom(other, same)), same)
          [] OTHER ->
               Result(IF ldiff < 0 THEN "SUPERDOMAIN" ELSE IF ldiff > 0 THEN "SUBDOMAIN" ELSE "EQUAL",
                      SignOf(ldiff), same)

IsSubdomain(self, other) == FullCompare(self, other).relation \in {"SUBDOMAIN", "EQUAL"}
IsSuperdomain(self, other) == FullCompare(self, other).relation \in {"SUPERDOMAIN", "EQUAL"}

\* __eq__() and __hash__() do not see the case.
SameName(a, b) == FullCompare(a, b).order = 0

\* split() by the depth of the suffix.
SplitAt(n, depth) ==
    IF depth = 0 THEN <<n, EmptyName>>
    ELSE <<SubSeq(n, 1, Len(n) - depth), SubSeq(n, Len(n) - depth + 1, Len(n))>>
Concatenate(self, other) ==
    IF IsAbsolute(self) /\ Len(other) > 0 THEN Raises("AbsoluteConcatenation") ELSE Yields(self \o other)

\* Python's self[:-len(origin)], which is empty when the origin is.
Relativize(self, origin) ==
    IF IsSubdomain(self, origin)
    THEN Yields(SubSeq(self, 1, IF Len(origin) = 0 THEN 0 ELSE Len(self) - Len(origin)))
    ELSE Yields(self)
Derelativize(self, origin) == IF IsAbsolute(self) THEN Yields(self) ELSE Concatenate(self, origin)

\* choose_relativity(), for which an empty origin is none.
ChooseRelativity(self, origin, relativize) ==
    IF origin = EmptyName THEN Yields(self)
    ELSE IF relativize THEN Relativize(self, origin) ELSE Derelativize(self, origin)

ParentOf(n) == IF n \in {EmptyName, <<RootLabel>>} THEN Raises("NoParent") ELSE Yields(Tail(n))

-----------------------------------------------------------------------------
(* The NameDict. *)

KeyOf(n) == {k \in store : SameName(k, n)}
Unsought == sought' = EmptyName /\ match' = Raises("KeyError")

\* __update_max_depth(), for one key after another.
CountDepth(counted, key) ==
    CASE Len(key) = counted[1] -> <<counted[1], counted[2] + 1>>
      [] Len(key) > counted[1] -> <<Len(key), 1>>
      [] OTHER -> counted
Recount(keys) == FoldSet(LAMBDA key, counted : CountDepth(counted, key), <<0, 0>>, keys)

\* __setitem__(), which keeps the key it has, and counts it again.
SetItem(n) ==
    /\ sets < MaxSets /\ sets' = sets + 1
    /\ store' = IF KeyOf(n) = {} THEN store \cup {n} ELSE store
    /\ depths' = CountDepth(depths, n)
    /\ Unsought

Uncounted(n) == depths[2] - (IF Len(n) = depths[1] THEN 1 ELSE 0)

\* Faulty variant: the keys that are left are not counted.
Deleted_Uncounted(left, n) ==
    IF Uncounted(n) = 0 THEN <<0, 0>> ELSE <<depths[1], Uncounted(n)>>

\* The depths that __delitem__() leaves.
Deleted(left, n) ==
    IF Uncounted(n) = 0 THEN Recount(left) ELSE <<depths[1], Uncounted(n)>>

DelItem(n) ==
    /\ KeyOf(n) # {}
    /\ store' = store \ KeyOf(n)
    /\ depths' = Deleted(store', n)
    /\ UNCHANGED sets /\ Unsought

\* get_deepest_match(): of the suffixes no deeper than max_depth, the longest
\* that is a key, or else the empty name.
DeepestMatch(n) ==
    /\ sought' = n
    /\ LET Suffix(i) == SplitAt(n, i)[2]
           found == {i \in 1..Min({Len(n), depths[1]}) : KeyOf(Suffix(i)) # {}}
       IN  match' = CASE found # {} -> Yields(Suffix(Max(found)))
                      [] found = {} /\ KeyOf(EmptyName) # {} -> Yields(EmptyName)
                      [] OTHER -> Raises("KeyError")
    /\ UNCHANGED <<store, depths, sets>>

NameTableNext == \E n \in TableNames : SetItem(n) \/ DelItem(n) \/ DeepestMatch(n)

NameTableSpec == TableInit /\ [][NameTableNext]_tableVars

-----------------------------------------------------------------------------
(* Properties. *)

\* a is b or one of its ancestors, label by label.
AtOrAbove(a, b) ==
    IsSuffix(Canonicalize(a), Canonicalize(b)) /\ (a = EmptyName => ~IsAbsolute(b))

\* The comparisons, which end early, agree with the labels, and are an order in
\* which a name comes after its ancestors; a name taken apart, by a depth, by
\* its parent or by an origin, is put together again.  An empty origin is none
\* to choose_relativity(), but relativize() leaves nothing of a relative name.
NamesAgree ==
    \A n, m \in TableNames :
      LET order == FullCompare(n, m).order
          above == m # EmptyName /\ AtOrAbove(m, n)
      IN  /\ (IsSubdomain(n, m) <=> AtOrAbove(m, n)) /\ (IsSuperdomain(m, n) <=> AtOrAbove(m, n))
          /\ order = -FullCompare(m, n).order
          /\ AtOrAbove(m, n) => order >= 0
          /\ \A k \in TableNames :
               order < 0 /\ FullCompare(m, k).order <= 0 => FullCompare(n, k).order < 0
          /\ \A depth \in 0..Len(n) :
               Concatenate(SplitAt(n, depth)[1], SplitAt(n, depth)[2]) = Yields(n)
          /\ ParentOf(n).error = "none" => <<n[1]>> \o ParentOf(n).is = n
          /\ ~above => ChooseRelativity(n, m, TRUE) = Yields(n)
          /\ Relativize(n, EmptyName) = Yields(IF IsAbsolute(n) THEN n ELSE EmptyName)
          /\ above =>
               LET short == ChooseRelativity(n, m, TRUE).is
               IN  /\ SameName(ChooseRelativity(short, m, FALSE).is, n)
                   /\ ~IsAbsolute(short)

\* What is found is the longest key at or above the name, whatever was set, set
\* again and deleted before.  Where no key is, the empty key is found for an
\* absolute name too, though the docstring wants a superdomain and
\* fullcompare() says that it is none.
NamesSound ==
    /\ NamesAgree
    /\ LET keys  == {k \in store : AtOrAbove(k, sought)}
           found == KeyOf(match.is)
       IN  /\ match.error = "none" /\ keys # {} =>
                found # {} /\ found \subseteq keys /\ Len(match.is) = Max({Len(k) : k \in keys})
           /\ match.error = "none" /\ keys = {} => found = {EmptyName} /\ IsAbsolute(sought)
           /\ match.error # "none" /\ sought # EmptyName => keys = {} /\ KeyOf(EmptyName) = {}
=============================================================================
