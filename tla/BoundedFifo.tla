---------------------------- MODULE BoundedFifo ----------------------------
(***************************************************************************)
(* What the bus arbitrator's queue promises: a first-in first-out queue of *)
(* bounded capacity whose operations never block.  answer is what the last *)
(* call returned.                                                          *)
(***************************************************************************)
EXTENDS Integers, Sequences

CONSTANTS Commands, Capacity, Null

VARIABLES q, answer

vars == <<q, answer>>

Init == q = <<>> /\ answer = Null

\* A full queue refuses and keeps what it has.
Put(e) ==
    IF Len(q) = Capacity
    THEN answer' = FALSE /\ UNCHANGED q
    ELSE answer' = TRUE /\ q' = Append(q, e)

Take ==
    IF q = <<>> THEN answer' = Null /\ UNCHANGED q
    ELSE answer' = Head(q) /\ q' = Tail(q)

Look == answer' = (IF q = <<>> THEN Null ELSE Head(q)) /\ UNCHANGED q

Next == (\E e \in Commands : Put(e)) \/ Take \/ Look

Spec == Init /\ [][Next]_vars
=============================================================================
