---------------------------- MODULE MCRiskModel ----------------------------
(* Instance of RiskModel for TLC: an idle machine, one without a single     *)
(* interrupt (or whose counters could not be read), an overloaded one, and  *)
(* a hot one with a moderate load and many interrupts.                      *)
EXTENDS RiskModel

Idle == [n \in Signals |-> IF n = "irq" THEN 20 ELSE IF n = "thermal" THEN 40 ELSE 0]
Silent == [Idle EXCEPT !["irq"] = 0]
Overload == [n \in Signals |-> IF n = "irq" THEN 900 ELSE IF n = "thermal" THEN -5 ELSE S]
Busy == [n \in Signals |-> IF n = "irq" THEN 300 ELSE IF n = "thermal" THEN 6
                           ELSE IF n \in {"cpu", "throttle", "disk"} THEN (9 * S) \div 10
                           ELSE (6 * S) \div 10]

MCFrames == {Idle, Silent, Overload, Busy}
=============================================================================
