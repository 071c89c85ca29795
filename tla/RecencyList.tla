---------------------------- MODULE RecencyList ----------------------------
(***************************************************************************)
(* What a bounded cache promises of its keys: they are kept in the order   *)
(* of their last use, and only the last is ever pushed out.                *)
(***************************************************************************)
EXTENDS Naturals, Sequences, SequencesExt

CONSTANTS keys, size
VARIABLE order     \* the keys held, the one used last first

Used(k) == order' = <<k>> \o RemoveFirst(order, k)
PushedOut(k) == Len(order) = size /\ ~Contains(order, k) /\ order' = <<k>> \o Front(order)
Added(k) == Len(RemoveFirst(order, k)) < size /\ Used(k)
Dropped(k) == order' = RemoveFirst(order, k)

RecencyNext == order' = << >> \/ \E k \in keys : Added(k) \/ PushedOut(k) \/ Dropped(k)
RecencySpec == order = << >> /\ [][RecencyNext]_order
=============================================================================
