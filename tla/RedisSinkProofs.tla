--------------------------- MODULE RedisSinkProofs ---------------------------
(***************************************************************************)
(* For every number N of enabled metrics: the safety properties of         *)
(* RedisSink, and that it implements MetricSink.  The invariant relates    *)
(* what the sink remembers across calls (context_, schema_ready_,          *)
(* timeseries_available_) to where the call in progress is.                *)
(***************************************************************************)
EXTENDS RedisSink, TLAPS

\* Before the constructor's check nothing has happened.
Fresh == pc = "constructed" =>
  /\ context = "null" /\ op = "check" /\ timeseries_available /\ ~schema_ready
  /\ executed = 0 /\ attempt = 0

\* A live connection belongs to a context without error, and commands are
\* only sent on such a context.
ContextInv ==
  /\ session => context = "ok"
  /\ pc \in {"auth", "select", "schema", "madd"} => context = "ok"
  /\ pc = "connect" => context = "null"
  /\ op = "publish" => pc # "constructed"

\* The latch: giving up happens before the first schema, and is final.
LatchInv ==
  /\ ~timeseries_available => context = "null" /\ pc = "idle" /\ ~schema_ready
  /\ context # "null" /\ pc \in {"idle", "madd"} => schema_ready

\* The schema: the loop has confirmed the metrics before its cursor.
SchemaInv ==
  /\ schema_ready => acked = Metrics
  /\ pc = "schema" => 1..(cursor - 1) \subseteq acked
  /\ ~wiped => acked \subseteq keys

\* The retry: attempts and executed commands of the call in progress.
AttemptInv ==
  /\ pc = "madd" => op = "publish" /\ attempt \in {1, 2} /\ executed < attempt
  /\ pc \in {"connect", "auth", "select", "schema"} => attempt <= 1 /\ executed <= attempt
  /\ op = "check" => attempt = 0 /\ executed = 0
  /\ pc \in {"connect", "auth", "select", "schema"} /\ attempt = 1 => schema_ready
  /\ op = "check" /\ pc \in {"connect", "auth", "select", "schema"} => ~schema_ready

\* A call that began with a healthy server and was not disturbed.
UndisturbedInv ==
  undisturbed =>
    /\ op = "publish"
    /\ pc # "idle" => server = "up" /\ module
    /\ pc \in {"auth", "select", "schema"} => session
    /\ pc = "madd" /\ attempt = 2 => session

IInv ==
  /\ TypeOK /\ Fresh /\ ContextInv /\ LatchInv /\ SchemaInv /\ AttemptInv
  /\ UndisturbedInv /\ SuccessStores /\ StaleConnectionMasked

-----------------------------------------------------------------------------

\* Confirming the last metric completes the schema.
LEMMA IntervalStep ==
  ASSUME NEW n \in Nat \ {0}, NEW S, 1..(n - 1) \subseteq S, S \subseteq 1..n
  PROVE  S \union {n} = 1..n
<1>1. \A m \in 1..n : m \in 1..(n - 1) \/ m = n
  OBVIOUS
<1>2. n \in 1..n
  OBVIOUS
<1> QED
  BY <1>1, <1>2

\* Initially the invariant holds.
LEMMA InitIInv == Init => IInv
<1> SUFFICES ASSUME Init PROVE IInv
  OBVIOUS
<1> USE NAssumption DEF Init, Metrics
<1>1. SinkTypeOK /\ ServerTypeOK
  BY DEF SinkTypeOK, ServerTypeOK
<1>2. KeyTypeOK /\ CountTypeOK
  BY DEF KeyTypeOK, CountTypeOK
<1>3. Fresh /\ ContextInv /\ LatchInv /\ SchemaInv /\ AttemptInv
  BY DEF Fresh, ContextInv, LatchInv, SchemaInv, AttemptInv
<1>4. UndisturbedInv /\ SuccessStores /\ StaleConnectionMasked
  BY DEF UndisturbedInv, SuccessStores, StaleConnectionMasked
<1> QED
  BY <1>1, <1>2, <1>3, <1>4 DEF IInv, TypeOK

\* Every step keeps the types; the two counters stay bounded because
\* publish() retries only after its first attempt.
LEMMA TypeStep == TypeOK /\ AttemptInv /\ [Next]_vars => TypeOK'
<1> SUFFICES ASSUME TypeOK, AttemptInv, [Next]_vars PROVE TypeOK'
  OBVIOUS
<1> USE NAssumption
    DEF Metrics, TypeOK, SinkTypeOK, ServerTypeOK, KeyTypeOK, CountTypeOK,
        sinkVars, serverVars, historyVars
<1>1. CASE CheckConnectivity
  <2>1. SinkTypeOK'
    BY <1>1 DEF CheckConnectivity, Reconnect
  <2>2. ServerTypeOK'
    BY <1>1 DEF CheckConnectivity, Reconnect
  <2>3. KeyTypeOK'
    BY <1>1 DEF CheckConnectivity, Reconnect
  <2>4. CountTypeOK'
    BY <1>1 DEF AttemptInv, CheckConnectivity, Reconnect
  <2> QED
    BY <2>1, <2>2, <2>3, <2>4
<1>2. CASE Publish
  <2>1. SinkTypeOK'
    BY <1>2 DEF Publish, EnsureConnected, Reconnect, Return
  <2>2. ServerTypeOK'
    BY <1>2 DEF Publish, EnsureConnected, Reconnect, Return
  <2>3. KeyTypeOK'
    BY <1>2 DEF Publish, EnsureConnected, Reconnect, Return
  <2>4. CountTypeOK'
    BY <1>2 DEF AttemptInv, Publish, EnsureConnected, Reconnect, Return
  <2> QED
    BY <2>1, <2>2, <2>3, <2>4
<1>3. CASE Connect
  <2>1. SinkTypeOK'
    BY <1>3 DEF Connect, AbandonConnection, Return
  <2>2. ServerTypeOK'
    BY <1>3 DEF Connect, AbandonConnection, Return
  <2>3. KeyTypeOK'
    BY <1>3 DEF Connect, AbandonConnection, Return
  <2>4. CountTypeOK'
    BY <1>3 DEF AttemptInv, Connect, AbandonConnection, Return
  <2> QED
    BY <2>1, <2>2, <2>3, <2>4
<1>4. CASE Authenticate
  <2>1. SinkTypeOK'
    BY <1>4 DEF Authenticate, Handshake, AbandonConnection, Return, Answers,
       Rejects
  <2>2. ServerTypeOK'
    BY <1>4 DEF Authenticate, Handshake, AbandonConnection, Return, Answers,
       Rejects
  <2>3. KeyTypeOK'
    BY <1>4 DEF Authenticate, Handshake, AbandonConnection, Return, Answers,
       Rejects
  <2>4. CountTypeOK'
    BY <1>4 DEF AttemptInv, Authenticate, Handshake, AbandonConnection,
       Return, Answers, Rejects
  <2> QED
    BY <2>1, <2>2, <2>3, <2>4
<1>5. CASE SelectDb
  <2>1. SinkTypeOK'
    BY <1>5 DEF SelectDb, Handshake, AbandonConnection, Return, Answers,
       Rejects
  <2>2. ServerTypeOK'
    BY <1>5 DEF SelectDb, Handshake, AbandonConnection, Return, Answers,
       Rejects
  <2>3. KeyTypeOK'
    BY <1>5 DEF SelectDb, Handshake, AbandonConnection, Return, Answers,
       Rejects
  <2>4. CountTypeOK'
    BY <1>5 DEF AttemptInv, SelectDb, Handshake, AbandonConnection, Return,
       Answers, Rejects
  <2> QED
    BY <2>1, <2>2, <2>3, <2>4
<1>6. CASE SchemaKnown
  <2>1. SinkTypeOK'
    BY <1>6 DEF SchemaKnown, Reconnected, Return
  <2>2. ServerTypeOK'
    BY <1>6 DEF SchemaKnown, Reconnected, Return
  <2>3. KeyTypeOK'
    BY <1>6 DEF SchemaKnown, Reconnected, Return
  <2>4. CountTypeOK'
    BY <1>6 DEF AttemptInv, SchemaKnown, Reconnected, Return
  <2> QED
    BY <2>1, <2>2, <2>3, <2>4
<1>7. CASE CreateSeries
  <2>1. SinkTypeOK'
    BY <1>7 DEF CreateSeries, SeriesConfirmed, Reconnected, AbandonConnection,
       Return, Executes
  <2>2. ServerTypeOK'
    BY <1>7 DEF CreateSeries, SeriesConfirmed, Reconnected, AbandonConnection,
       Return, Executes
  <2>3. KeyTypeOK'
    BY <1>7 DEF CreateSeries, SeriesConfirmed, Reconnected, AbandonConnection,
       Return, Executes
  <2>4. CountTypeOK'
    <3>1. CASE SeriesConfirmed /\ cursor < N
      BY <1>7, <3>1 DEF CreateSeries, SeriesConfirmed
    <3>2. CASE SeriesConfirmed /\ ~(cursor < N)
      BY <1>7, <3>2 DEF AttemptInv, CreateSeries, SeriesConfirmed, Reconnected
    <3>3. CASE UNCHANGED <<cursor, attempt>>
      BY <1>7, <3>3 DEF CreateSeries
    <3> QED
      BY <1>7, <3>1, <3>2, <3>3 DEF CreateSeries
  <2> QED
    BY <2>1, <2>2, <2>3, <2>4
<1>8. CASE CreateSeriesFailed
  <2>1. SinkTypeOK'
    BY <1>8 DEF CreateSeriesFailed, AbandonConnection, Return, Rejects,
       UnknownCommand, Answers
  <2>2. ServerTypeOK'
    BY <1>8 DEF CreateSeriesFailed, AbandonConnection, Return, Rejects,
       UnknownCommand, Answers
  <2>3. KeyTypeOK'
    BY <1>8 DEF CreateSeriesFailed, AbandonConnection, Return, Rejects,
       UnknownCommand, Answers
  <2>4. CountTypeOK'
    BY <1>8 DEF AttemptInv, CreateSeriesFailed, AbandonConnection, Return,
       Rejects, UnknownCommand, Answers
  <2> QED
    BY <2>1, <2>2, <2>3, <2>4
<1>9. CASE Madd
  <2>1. SinkTypeOK'
    BY <1>9 DEF Madd, PublishFailed, Reconnect, Return, Executes
  <2>2. ServerTypeOK'
    BY <1>9 DEF Madd, PublishFailed, Reconnect, Return, Executes
  <2>3. KeyTypeOK'
    BY <1>9 DEF Madd, PublishFailed, Reconnect, Return, Executes
  <2>4. CountTypeOK'
    BY <1>9 DEF AttemptInv, Madd, PublishFailed, Reconnect, Return, Executes
  <2> QED
    BY <2>1, <2>2, <2>3, <2>4
<1>10. CASE MaddFailed
  <2>1. SinkTypeOK'
    BY <1>10 DEF MaddFailed, PublishFailed, Reconnect, Return, Rejects,
       UnknownCommand, Answers
  <2>2. ServerTypeOK'
    BY <1>10 DEF MaddFailed, PublishFailed, Reconnect, Return, Rejects,
       UnknownCommand, Answers
  <2>3. KeyTypeOK'
    BY <1>10 DEF MaddFailed, PublishFailed, Reconnect, Return, Rejects,
       UnknownCommand, Answers
  <2>4. CountTypeOK'
    BY <1>10 DEF AttemptInv, MaddFailed, PublishFailed, Reconnect, Return,
       Rejects, UnknownCommand, Answers
  <2> QED
    BY <2>1, <2>2, <2>3, <2>4
<1>11. CASE Crash
  <2>1. SinkTypeOK'
    BY <1>11 DEF Crash
  <2>2. ServerTypeOK'
    BY <1>11 DEF Crash
  <2>3. KeyTypeOK'
    BY <1>11 DEF Crash
  <2>4. CountTypeOK'
    BY <1>11 DEF AttemptInv, Crash
  <2> QED
    BY <2>1, <2>2, <2>3, <2>4
<1>12. CASE Restart
  <2>1. SinkTypeOK'
    BY <1>12 DEF Restart
  <2>2. ServerTypeOK'
    BY <1>12 DEF Restart
  <2>3. KeyTypeOK'
    BY <1>12 DEF Restart
  <2>4. CountTypeOK'
    BY <1>12 DEF AttemptInv, Restart
  <2> QED
    BY <2>1, <2>2, <2>3, <2>4
<1>13. CASE ChangeService
  <2>1. SinkTypeOK'
    BY <1>13 DEF ChangeService
  <2>2. ServerTypeOK'
    BY <1>13 DEF ChangeService
  <2>3. KeyTypeOK'
    BY <1>13 DEF ChangeService
  <2>4. CountTypeOK'
    BY <1>13 DEF AttemptInv, ChangeService
  <2> QED
    BY <2>1, <2>2, <2>3, <2>4
<1>14. CASE DeleteKey
  <2>1. SinkTypeOK'
    BY <1>14 DEF DeleteKey
  <2>2. ServerTypeOK'
    BY <1>14 DEF DeleteKey
  <2>3. KeyTypeOK'
    BY <1>14 DEF DeleteKey
  <2>4. CountTypeOK'
    BY <1>14 DEF AttemptInv, DeleteKey
  <2> QED
    BY <2>1, <2>2, <2>3, <2>4
<1>15. CASE DropConnection
  <2>1. SinkTypeOK'
    BY <1>15 DEF DropConnection
  <2>2. ServerTypeOK'
    BY <1>15 DEF DropConnection
  <2>3. KeyTypeOK'
    BY <1>15 DEF DropConnection
  <2>4. CountTypeOK'
    BY <1>15 DEF AttemptInv, DropConnection
  <2> QED
    BY <2>1, <2>2, <2>3, <2>4
<1>16. CASE CalmDown
  <2>1. SinkTypeOK'
    BY <1>16 DEF CalmDown
  <2>2. ServerTypeOK'
    BY <1>16 DEF CalmDown
  <2>3. KeyTypeOK'
    BY <1>16 DEF CalmDown
  <2>4. CountTypeOK'
    BY <1>16 DEF AttemptInv, CalmDown
  <2> QED
    BY <2>1, <2>2, <2>3, <2>4
<1>17. CASE UNCHANGED vars
  BY <1>17 DEF vars
<1> QED
  BY <1>1, <1>2, <1>3, <1>4, <1>5, <1>6, <1>7, <1>8, <1>9, <1>10, <1>11, <1>12, <1>13, <1>14, <1>15, <1>16, <1>17 DEF Next, SinkStep, ServerStep

\* Every step keeps the invariant.
LEMMA NextIInv == IInv /\ [Next]_vars => IInv'
<1> SUFFICES ASSUME IInv, [Next]_vars PROVE IInv'
  OBVIOUS
<1>0. TypeOK'
  BY TypeStep DEF IInv
<1> USE NAssumption
    DEF Metrics, IInv, TypeOK, SinkTypeOK, ServerTypeOK, KeyTypeOK, CountTypeOK,
        Fresh, ContextInv, LatchInv, SchemaInv, AttemptInv, UndisturbedInv,
        SuccessStores, StaleConnectionMasked, sinkVars, serverVars, historyVars
<1>1. CASE CheckConnectivity
  <2>1. (Fresh /\ ContextInv /\ LatchInv)'
    BY <1>1 DEF CheckConnectivity, Reconnect
  <2>2. SchemaInv'
    BY <1>1 DEF CheckConnectivity, Reconnect
  <2>3. AttemptInv'
    BY <1>1 DEF CheckConnectivity, Reconnect
  <2>4. UndisturbedInv'
    BY <1>1 DEF CheckConnectivity, Reconnect
  <2>5. (SuccessStores /\ StaleConnectionMasked)'
    BY <1>1 DEF CheckConnectivity, Reconnect
  <2> QED
    BY <1>0, <2>1, <2>2, <2>3, <2>4, <2>5 DEF IInv
<1>2. CASE Publish
  <2>1. (Fresh /\ ContextInv /\ LatchInv)'
    BY <1>2 DEF Publish, EnsureConnected, Reconnect, Return
  <2>2. SchemaInv'
    BY <1>2 DEF Publish, EnsureConnected, Reconnect, Return
  <2>3. AttemptInv'
    BY <1>2 DEF Publish, EnsureConnected, Reconnect, Return
  <2>4. UndisturbedInv'
    <3>1. undisturbed' => server = "up" /\ module
      BY <1>2, Zenon DEF Publish
    <3> QED BY <1>2, <3>1 DEF Publish, EnsureConnected, Reconnect, Return
  <2>5. (SuccessStores /\ StaleConnectionMasked)'
    BY <1>2 DEF Publish, EnsureConnected, Reconnect, Return
  <2> QED
    BY <1>0, <2>1, <2>2, <2>3, <2>4, <2>5 DEF IInv
<1>3. CASE Connect
  <2>1. (Fresh /\ ContextInv /\ LatchInv)'
    BY <1>3 DEF Connect, AbandonConnection, Return
  <2>2. SchemaInv'
    BY <1>3 DEF Connect, AbandonConnection, Return
  <2>3. AttemptInv'
    BY <1>3 DEF Connect, AbandonConnection, Return
  <2>4. UndisturbedInv'
    BY <1>3 DEF Connect, AbandonConnection, Return
  <2>5. (SuccessStores /\ StaleConnectionMasked)'
    BY <1>3 DEF Connect, AbandonConnection, Return
  <2> QED
    BY <1>0, <2>1, <2>2, <2>3, <2>4, <2>5 DEF IInv
<1>4. CASE Authenticate
  <2>1. (Fresh /\ ContextInv /\ LatchInv)'
    BY <1>4 DEF Authenticate, Handshake, AbandonConnection, Return, Answers,
       Rejects
  <2>2. SchemaInv'
    BY <1>4 DEF Authenticate, Handshake, AbandonConnection, Return, Answers,
       Rejects
  <2>3. AttemptInv'
    BY <1>4 DEF Authenticate, Handshake, AbandonConnection, Return, Answers,
       Rejects
  <2>4. UndisturbedInv'
    BY <1>4 DEF Authenticate, Handshake, AbandonConnection, Return, Answers,
       Rejects
  <2>5. (SuccessStores /\ StaleConnectionMasked)'
    BY <1>4 DEF Authenticate, Handshake, AbandonConnection, Return, Answers,
       Rejects
  <2> QED
    BY <1>0, <2>1, <2>2, <2>3, <2>4, <2>5 DEF IInv
<1>5. CASE SelectDb
  <2>1. (Fresh /\ ContextInv /\ LatchInv)'
    BY <1>5 DEF SelectDb, Handshake, AbandonConnection, Return, Answers,
       Rejects
  <2>2. SchemaInv'
    BY <1>5 DEF SelectDb, Handshake, AbandonConnection, Return, Answers,
       Rejects
  <2>3. AttemptInv'
    BY <1>5 DEF SelectDb, Handshake, AbandonConnection, Return, Answers,
       Rejects
  <2>4. UndisturbedInv'
    BY <1>5 DEF SelectDb, Handshake, AbandonConnection, Return, Answers,
       Rejects
  <2>5. (SuccessStores /\ StaleConnectionMasked)'
    BY <1>5 DEF SelectDb, Handshake, AbandonConnection, Return, Answers,
       Rejects
  <2> QED
    BY <1>0, <2>1, <2>2, <2>3, <2>4, <2>5 DEF IInv
<1>6. CASE SchemaKnown
  <2>1. (Fresh /\ ContextInv /\ LatchInv)'
    BY <1>6 DEF SchemaKnown, Reconnected, Return
  <2>2. SchemaInv'
    BY <1>6 DEF SchemaKnown, Reconnected, Return
  <2>3. AttemptInv'
    BY <1>6 DEF SchemaKnown, Reconnected, Return
  <2>4. UndisturbedInv'
    BY <1>6 DEF SchemaKnown, Reconnected, Return
  <2>5. (SuccessStores /\ StaleConnectionMasked)'
    BY <1>6 DEF SchemaKnown, Reconnected, Return
  <2> QED
    BY <1>0, <2>1, <2>2, <2>3, <2>4, <2>5 DEF IInv
<1>7. CASE CreateSeries
  <2>1. (Fresh /\ ContextInv /\ LatchInv)'
    BY <1>7 DEF CreateSeries, SeriesConfirmed, Reconnected, AbandonConnection,
       Return, Executes
  <2>2. SchemaInv'
    <3>1. CASE SeriesConfirmed /\ acked' = acked \union {cursor}
      <4>1. CASE cursor < N
        BY <1>7, <3>1, <4>1 DEF CreateSeries, SeriesConfirmed
      <4>2. CASE ~(cursor < N)
        <5>1. cursor = N
          BY <4>2
        <5>2. acked' = Metrics
          <6>1. 1..(N - 1) \subseteq acked /\ acked \subseteq 1..N /\ acked' = acked \union {N}
            BY <1>7, <3>1, <5>1 DEF CreateSeries
          <6> QED
            BY <6>1, IntervalStep
        <5> QED
          BY <1>7, <3>1, <4>2, <5>2 DEF CreateSeries, SeriesConfirmed, Reconnected, AbandonConnection, Return, Executes
      <4> QED
        BY <4>1, <4>2
    <3>2. CASE AbandonConnection /\ UNCHANGED <<schema_ready, cursor, acked>>
      BY <1>7, <3>2 DEF CreateSeries, AbandonConnection, Return
    <3> QED
      BY <1>7, <3>1, <3>2 DEF CreateSeries
  <2>3. AttemptInv'
    <3>1. CASE SeriesConfirmed /\ cursor < N
      BY <1>7, <3>1 DEF CreateSeries, SeriesConfirmed
    <3>2. CASE SeriesConfirmed /\ ~(cursor < N)
      BY <1>7, <3>2 DEF CreateSeries, SeriesConfirmed, Reconnected, Return
    <3>3. CASE AbandonConnection /\ UNCHANGED <<schema_ready, attempt>>
      BY <1>7, <3>3 DEF CreateSeries, AbandonConnection, Return
    <3> QED
      BY <1>7, <3>1, <3>2, <3>3 DEF CreateSeries
  <2>4. UndisturbedInv'
    BY <1>7 DEF CreateSeries, SeriesConfirmed, Reconnected, AbandonConnection,
       Return, Executes
  <2>5. (SuccessStores /\ StaleConnectionMasked)'
    BY <1>7 DEF CreateSeries, SeriesConfirmed, Reconnected, AbandonConnection,
       Return, Executes
  <2> QED
    BY <1>0, <2>1, <2>2, <2>3, <2>4, <2>5 DEF IInv
<1>8. CASE CreateSeriesFailed
  <2>1. (Fresh /\ ContextInv /\ LatchInv)'
    BY <1>8 DEF CreateSeriesFailed, AbandonConnection, Return, Rejects,
       UnknownCommand, Answers
  <2>2. SchemaInv'
    BY <1>8 DEF CreateSeriesFailed, AbandonConnection, Return, Rejects,
       UnknownCommand, Answers
  <2>3. AttemptInv'
    BY <1>8 DEF CreateSeriesFailed, AbandonConnection, Return, Rejects,
       UnknownCommand, Answers
  <2>4. UndisturbedInv'
    BY <1>8 DEF CreateSeriesFailed, AbandonConnection, Return, Rejects,
       UnknownCommand, Answers
  <2>5. (SuccessStores /\ StaleConnectionMasked)'
    BY <1>8 DEF CreateSeriesFailed, AbandonConnection, Return, Rejects,
       UnknownCommand, Answers
  <2> QED
    BY <1>0, <2>1, <2>2, <2>3, <2>4, <2>5 DEF IInv
<1>9. CASE Madd
  <2>1. (Fresh /\ ContextInv /\ LatchInv)'
    BY <1>9 DEF Madd, PublishFailed, Reconnect, Return, Executes
  <2>2. SchemaInv'
    BY <1>9 DEF Madd, PublishFailed, Reconnect, Return, Executes
  <2>3. AttemptInv'
    <3>1. executed' = executed + 1 /\ UNCHANGED <<op, attempt, schema_ready>>
      BY <1>9 DEF Madd
    <3>2. pc' = "idle" \/ (pc' = "connect" /\ attempt = 1)
      <4>1. CASE Return("ok")
        BY <4>1 DEF Return
      <4>2. CASE PublishFailed("err", FALSE)
        BY <4>2 DEF PublishFailed, Reconnect, Return
      <4> QED
        BY <1>9, <4>1, <4>2 DEF Madd
    <3>3. op = "publish" /\ schema_ready /\ executed < attempt
      BY <1>9 DEF Madd
    <3> QED BY <3>1, <3>2, <3>3
  <2>4. UndisturbedInv'
    BY <1>9 DEF Madd, PublishFailed, Reconnect, Return, Executes
  <2>5. (SuccessStores /\ StaleConnectionMasked)'
    BY <1>9 DEF Madd, PublishFailed, Reconnect, Return, Executes
  <2> QED
    BY <1>0, <2>1, <2>2, <2>3, <2>4, <2>5 DEF IInv
<1>10. CASE MaddFailed
  <2>1. (Fresh /\ ContextInv /\ LatchInv)'
    BY <1>10 DEF MaddFailed, PublishFailed, Reconnect, Return, Rejects,
       UnknownCommand, Answers
  <2>2. SchemaInv'
    BY <1>10 DEF MaddFailed, PublishFailed, Reconnect, Return, Rejects,
       UnknownCommand, Answers
  <2>3. AttemptInv'
    BY <1>10 DEF MaddFailed, PublishFailed, Reconnect, Return, Rejects,
       UnknownCommand, Answers
  <2>4. UndisturbedInv'
    BY <1>10 DEF MaddFailed, PublishFailed, Reconnect, Return, Rejects,
       UnknownCommand, Answers
  <2>5. (SuccessStores /\ StaleConnectionMasked)'
    BY <1>10 DEF MaddFailed, PublishFailed, Reconnect, Return, Rejects,
       UnknownCommand, Answers
  <2> QED
    BY <1>0, <2>1, <2>2, <2>3, <2>4, <2>5 DEF IInv
<1>11. CASE Crash
  <2>1. (Fresh /\ ContextInv /\ LatchInv)'
    BY <1>11 DEF Crash
  <2>2. SchemaInv'
    BY <1>11 DEF Crash
  <2>3. AttemptInv'
    BY <1>11 DEF Crash
  <2>4. UndisturbedInv'
    BY <1>11 DEF Crash
  <2>5. (SuccessStores /\ StaleConnectionMasked)'
    BY <1>11 DEF Crash
  <2> QED
    BY <1>0, <2>1, <2>2, <2>3, <2>4, <2>5 DEF IInv
<1>12. CASE Restart
  <2>1. (Fresh /\ ContextInv /\ LatchInv)'
    BY <1>12 DEF Restart
  <2>2. SchemaInv'
    BY <1>12 DEF Restart
  <2>3. AttemptInv'
    BY <1>12 DEF Restart
  <2>4. UndisturbedInv'
    BY <1>12 DEF Restart
  <2>5. (SuccessStores /\ StaleConnectionMasked)'
    BY <1>12 DEF Restart
  <2> QED
    BY <1>0, <2>1, <2>2, <2>3, <2>4, <2>5 DEF IInv
<1>13. CASE ChangeService
  <2>1. (Fresh /\ ContextInv /\ LatchInv)'
    BY <1>13 DEF ChangeService
  <2>2. SchemaInv'
    BY <1>13 DEF ChangeService
  <2>3. AttemptInv'
    BY <1>13 DEF ChangeService
  <2>4. UndisturbedInv'
    BY <1>13 DEF ChangeService
  <2>5. (SuccessStores /\ StaleConnectionMasked)'
    BY <1>13 DEF ChangeService
  <2> QED
    BY <1>0, <2>1, <2>2, <2>3, <2>4, <2>5 DEF IInv
<1>14. CASE DeleteKey
  <2>1. (Fresh /\ ContextInv /\ LatchInv)'
    BY <1>14 DEF DeleteKey
  <2>2. SchemaInv'
    BY <1>14 DEF DeleteKey
  <2>3. AttemptInv'
    BY <1>14 DEF DeleteKey
  <2>4. UndisturbedInv'
    BY <1>14 DEF DeleteKey
  <2>5. (SuccessStores /\ StaleConnectionMasked)'
    BY <1>14 DEF DeleteKey
  <2> QED
    BY <1>0, <2>1, <2>2, <2>3, <2>4, <2>5 DEF IInv
<1>15. CASE DropConnection
  <2>1. (Fresh /\ ContextInv /\ LatchInv)'
    BY <1>15 DEF DropConnection
  <2>2. SchemaInv'
    BY <1>15 DEF DropConnection
  <2>3. AttemptInv'
    BY <1>15 DEF DropConnection
  <2>4. UndisturbedInv'
    BY <1>15 DEF DropConnection
  <2>5. (SuccessStores /\ StaleConnectionMasked)'
    BY <1>15 DEF DropConnection
  <2> QED
    BY <1>0, <2>1, <2>2, <2>3, <2>4, <2>5 DEF IInv
<1>16. CASE CalmDown
  <2>1. (Fresh /\ ContextInv /\ LatchInv)'
    BY <1>16 DEF CalmDown
  <2>2. SchemaInv'
    BY <1>16 DEF CalmDown
  <2>3. AttemptInv'
    BY <1>16 DEF CalmDown
  <2>4. UndisturbedInv'
    BY <1>16 DEF CalmDown
  <2>5. (SuccessStores /\ StaleConnectionMasked)'
    BY <1>16 DEF CalmDown
  <2> QED
    BY <1>0, <2>1, <2>2, <2>3, <2>4, <2>5 DEF IInv
<1>17. CASE UNCHANGED vars
  BY <1>17 DEF vars
<1> QED
  BY <1>1, <1>2, <1>3, <1>4, <1>5, <1>6, <1>7, <1>8, <1>9, <1>10, <1>11, <1>12, <1>13, <1>14, <1>15, <1>16, <1>17 DEF Next, SinkStep, ServerStep

-----------------------------------------------------------------------------

\* The invariant holds in every state of every behaviour of the sink.
LEMMA SpecIInv == Spec => []IInv
  BY InitIInv, NextIInv, PTL DEF Spec

\* All variables keep their types; in particular one publish() never makes
\* more than two attempts nor has more than two TS.MADDs executed.
THEOREM TypeCorrect == Spec => []TypeOK
<1>1. IInv => TypeOK
  BY DEF IInv
<1> QED
  BY <1>1, SpecIInv, PTL

\* reconnect() drops the context on every failure, so no command is sent on a
\* null context, and a sink that gave up holds no connection and stays idle.
THEOREM ContextSafety == Spec => []ConnectionSound
<1>1. IInv => ConnectionSound
  BY DEF IInv, ContextInv, LatchInv, ConnectionSound
<1> QED
  BY <1>1, SpecIInv, PTL

\* Samples are only sent once Redis has confirmed every enabled series.
THEOREM SchemaSafety == Spec => []SchemaBeforeMadd
<1>1. IInv => SchemaBeforeMadd
  BY DEF IInv, ContextInv, LatchInv, SchemaInv, SchemaBeforeMadd
<1> QED
  BY <1>1, SpecIInv, PTL

\* A publish() that returned true stored every metric if no key was lost.
THEOREM StorageSafety == Spec => []SuccessStores
<1>1. IInv => SuccessStores
  BY DEF IInv
<1> QED
  BY <1>1, SpecIInv, PTL

\* A connection that died between two ticks never fails an otherwise healthy
\* publish().
THEOREM RetryMasksStaleConnection == Spec => []StaleConnectionMasked
<1>1. IInv => StaleConnectionMasked
  BY DEF IInv
<1> QED
  BY <1>1, SpecIInv, PTL

-----------------------------------------------------------------------------

\* Every step of the sink is a step of MetricSink or leaves it unchanged.
LEMMA StepRefines == IInv /\ [Next]_vars => [Sink!Next]_Sink!vars
<1> SUFFICES ASSUME IInv, [Next]_vars PROVE [Sink!Next]_Sink!vars
  OBVIOUS
<1> USE DEF IInv, TypeOK, SinkTypeOK, CountTypeOK, Sink!Next, Sink!vars,
        sinkVars, serverVars, historyVars
<1>1. CASE CheckConnectivity
  BY <1>1 DEF CheckConnectivity, Reconnect, Fresh, Sink!Call
<1>2. CASE Publish
  BY <1>2 DEF Publish, EnsureConnected, Reconnect, Return, Sink!Call
<1>3. CASE Connect
  BY <1>3 DEF Connect, AbandonConnection, Return, Sink!ReturnFailed
<1>4. CASE Authenticate
  BY <1>4 DEF Authenticate, Handshake, AbandonConnection, Return, Sink!ReturnFailed
<1>5. CASE SelectDb
  BY <1>5 DEF SelectDb, Handshake, AbandonConnection, Return, Sink!ReturnFailed
<1>6. CASE SchemaKnown
  BY <1>6 DEF SchemaKnown, Reconnected, Return, AttemptInv
<1>7. CASE CreateSeries
  <2>1. CASE SeriesConfirmed /\ cursor < N
    BY <1>7, <2>1 DEF CreateSeries, SeriesConfirmed
  <2>2. CASE SeriesConfirmed /\ ~(cursor < N)
    BY <1>7, <2>2 DEF CreateSeries, SeriesConfirmed, Reconnected, Return, LatchInv,
       AttemptInv, Sink!Establish, Sink!EstablishAndReturn
  <2>3. CASE AbandonConnection /\ UNCHANGED schema_ready
    BY <1>7, <2>3 DEF CreateSeries, AbandonConnection, Return, Sink!ReturnFailed
  <2> QED
    BY <1>7, <2>1, <2>2, <2>3 DEF CreateSeries
<1>8. CASE CreateSeriesFailed
  BY <1>8 DEF CreateSeriesFailed, AbandonConnection, Return, LatchInv,
     Sink!GiveUp, Sink!ReturnFailed
<1>9. CASE Madd
  BY <1>9 DEF Madd, PublishFailed, Reconnect, Return, ContextInv, LatchInv, AttemptInv,
     Sink!Deliver
<1>10. CASE MaddFailed
  BY <1>10 DEF MaddFailed, PublishFailed, Reconnect, Return, Sink!ReturnFailed
<1>11. CASE ServerStep
  BY <1>11 DEF ServerStep, Crash, Restart, ChangeService, DeleteKey, DropConnection, CalmDown
<1>12. CASE UNCHANGED vars
  BY <1>12 DEF vars
<1> QED
  BY <1>1, <1>2, <1>3, <1>4, <1>5, <1>6, <1>7, <1>8, <1>9, <1>10, <1>11, <1>12
  DEF Next, SinkStep

\* RedisTsSink implements the abstract sink the agent loop relies on.
THEOREM SinkRefinement == Spec => ImplementsMetricSink
<1>1. Init => Sink!Init
  BY DEF Init, Sink!Init
<1> QED
  BY <1>1, StepRefines, SpecIInv, PTL DEF Spec, ImplementsMetricSink, Sink!Spec
=============================================================================
