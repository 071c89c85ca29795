----------------------------- MODULE DuplexPipe -----------------------------
(***************************************************************************)
(* What a relayed connection promises to its two ends: a pipe in each      *)
(* direction.  Bytes are numbered in the order they are written; they are  *)
(* delivered in that order, each once, and the end of a direction is seen  *)
(* after the last of them.  Only a pipe that is torn may end early.        *)
(***************************************************************************)
EXTENDS Naturals, Sequences

CONSTANT Directions

VARIABLES
    written,    \* how many bytes the source of a direction has written
    finished,   \* whether it has written its last
    delivered,  \* the bytes its destination has received
    ended,      \* whether the destination has seen the end
    torn        \* whether the pipe was given up

Init ==
    /\ written = [d \in Directions |-> 0]
    /\ finished = [d \in Directions |-> FALSE]
    /\ delivered = [d \in Directions |-> << >>]
    /\ ended = [d \in Directions |-> FALSE]
    /\ torn = FALSE

Write(d) ==
    /\ ~finished[d]
    /\ written' = [written EXCEPT ![d] = @ + 1]
    /\ UNCHANGED <<finished, delivered, ended, torn>>

Finish(d) ==
    /\ finished' = [finished EXCEPT ![d] = TRUE]
    /\ UNCHANGED <<written, delivered, ended, torn>>

\* The next byte, and nothing after the end.
Deliver(d) ==
    /\ Len(delivered[d]) < written[d]
    /\ ~ended[d]
    /\ delivered' = [delivered EXCEPT ![d] = Append(@, Len(@) + 1)]
    /\ UNCHANGED <<written, finished, ended, torn>>

End(d) ==
    /\ torn \/ (finished[d] /\ Len(delivered[d]) = written[d])
    /\ ended' = [ended EXCEPT ![d] = TRUE]
    /\ UNCHANGED <<written, finished, delivered, torn>>

Tear ==
    /\ torn' = TRUE
    /\ UNCHANGED <<written, finished, delivered, ended>>

Next == Tear \/ \E d \in Directions : Write(d) \/ Finish(d) \/ Deliver(d) \/ End(d)

Spec == Init /\ [][Next]_<<written, finished, delivered, ended, torn>>
=============================================================================
