----------------------------- MODULE MetricSink -----------------------------
(***************************************************************************)
(* What a metric sink promises to the agent loop that calls it, with no    *)
(* connection, command or server in sight.  A sink starts "trying"; it may *)
(* become "established" (the time series exist) or, only from "trying",    *)
(* "unavailable" (the store cannot hold time series), and it never leaves  *)
(* either.  A call delivers the tick's samples at most Attempts times, and *)
(* only when established; it may report success only if it delivered.      *)
(***************************************************************************)
EXTENDS Naturals

CONSTANT Attempts           \* deliveries one call may make: 1 + its retries

VARIABLES mode,             \* "trying", "established" or "unavailable"
          busy,             \* a call is in progress
          delivered,        \* deliveries made by the current or last call
          outcome           \* what the last completed call returned

vars == <<mode, busy, delivered, outcome>>

Init == /\ mode = "trying"
        /\ busy = FALSE
        /\ delivered = 0
        /\ outcome = "none"

\* The agent calls the sink; an unavailable sink answers at once.
Call == /\ ~busy
        /\ delivered' = 0
        /\ IF mode = "unavailable"
             THEN busy' = FALSE /\ outcome' = "failed"
             ELSE busy' = TRUE /\ UNCHANGED outcome
        /\ UNCHANGED mode

Establish == /\ busy
             /\ mode = "trying"
             /\ mode' = "established"
             /\ UNCHANGED <<busy, delivered, outcome>>

\* The connectivity check of the constructor establishes without delivering.
EstablishAndReturn == /\ busy
                      /\ mode = "trying"
                      /\ mode' = "established"
                      /\ busy' = FALSE
                      /\ delivered = 0
                      /\ outcome' = "connected"
                      /\ UNCHANGED delivered

GiveUp == /\ busy
          /\ mode = "trying"
          /\ mode' = "unavailable"
          /\ busy' = FALSE
          /\ outcome' = "failed"
          /\ UNCHANGED delivered

Deliver == /\ busy
           /\ mode = "established"
           /\ delivered < Attempts
           /\ delivered' = delivered + 1
           /\ \/ busy' = TRUE  /\ UNCHANGED outcome        \* unacknowledged
              \/ busy' = FALSE /\ outcome' \in {"ok", "failed"}
           /\ UNCHANGED mode

ReturnFailed == /\ busy
                /\ busy' = FALSE
                /\ outcome' = "failed"
                /\ UNCHANGED <<mode, delivered>>

Next == Call \/ Establish \/ EstablishAndReturn \/ GiveUp \/ Deliver \/ ReturnFailed

Spec == Init /\ [][Next]_vars
=============================================================================
