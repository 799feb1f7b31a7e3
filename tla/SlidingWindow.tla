---------------------------- MODULE SlidingWindow ----------------------------
(***************************************************************************)
(* What the jitter estimator needs of its buffer: the last K values, the   *)
(* oldest first.                                                           *)
(***************************************************************************)
EXTENDS Naturals, Sequences

CONSTANTS K, Value

VARIABLE window

Init == window = <<>>

Push(x) == window' = IF Len(window) < K THEN Append(window, x)
                                        ELSE Append(Tail(window), x)

Next == \E x \in Value : Push(x)

Spec == Init /\ [][Next]_window
=============================================================================
