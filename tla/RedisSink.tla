------------------------------ MODULE RedisSink ------------------------------
(***************************************************************************)
(* The RedisTimeSeries sink of hw-agent (RedisTsSink) talking to a Redis   *)
(* server that crashes, restarts with or without its keys and its module,  *)
(* refuses commands, hangs and drops connections between and during the    *)
(* commands of one publish call.  The sink runs on the agent's only        *)
(* thread: a call is a chain of blocking hiredis commands, so each command *)
(* is one step and the server may move between any two of them.            *)
(*                                                                         *)
(* Metric keys are the positions 1..N of enabled_metrics_.  Sample values  *)
(* do not matter here; which keys receive the call's sample does.          *)
(***************************************************************************)
EXTENDS Naturals

CONSTANT N                  \* enabled_metrics_.size()

ASSUME NAssumption == N \in Nat \ {0}

Metrics == 1..N

VARIABLES
  options,                  \* options_: is a password set, is db non-zero
  context,                  \* context_: "null", "ok" or "err" (context_->err)
  timeseries_available,     \* timeseries_available_
  schema_ready,             \* schema_ready_
  pc,                       \* the step the call in progress is at
  op,                       \* the call: "check" (constructor) or "publish"
  cursor,                   \* position of the loop of ensure_schema()
  attempt,                  \* publish_impl() calls made by this publish()
  result,                   \* what the last completed call returned
  server,                   \* Redis: "down", "up", "refusing" or "hung"
  module,                   \* the RedisTimeSeries module is loaded
  keys,                     \* the time series that exist
  session,                  \* the sink's connection is alive
  calm,                     \* no further fault will happen
  executed,                 \* history: TS.MADDs of this call Redis executed
  stored,                   \* history: keys holding this call's sample
  acked,                    \* history: keys Redis confirmed to the sink
  wiped,                    \* history: a key confirmed to the sink was lost
  undisturbed               \* history: Redis was healthy when the call began
                            \* and nothing went wrong since

sinkVars    == <<options, context, timeseries_available, schema_ready,
                 pc, op, cursor, attempt, result>>
serverVars  == <<server, module, keys, session, calm>>
historyVars == <<executed, stored, acked, wiped, undisturbed>>
vars        == <<sinkVars, serverVars, historyVars>>

SinkTypeOK ==
  /\ options \in [password : BOOLEAN, db : BOOLEAN]
  /\ context \in {"null", "ok", "err"}
  /\ timeseries_available \in BOOLEAN
  /\ schema_ready \in BOOLEAN
  /\ pc \in {"constructed", "connect", "auth", "select", "schema", "madd", "idle"}
  /\ op \in {"check", "publish"}
  /\ result \in {"none", "connected", "ok", "failed"}

ServerTypeOK ==
  /\ server \in {"down", "up", "refusing", "hung"}
  /\ module \in BOOLEAN
  /\ session \in BOOLEAN
  /\ calm \in BOOLEAN
  /\ wiped \in BOOLEAN
  /\ undisturbed \in BOOLEAN

KeyTypeOK ==
  /\ keys \in SUBSET Metrics
  /\ stored \in SUBSET Metrics
  /\ acked \in SUBSET Metrics

CountTypeOK == cursor \in Metrics /\ attempt \in 0..2 /\ executed \in 0..2

\* Every variable of the sink, the server and the history has its type; the
\* bounds of attempt and executed say that a publish() tries at most twice.
TypeOK == SinkTypeOK /\ ServerTypeOK /\ KeyTypeOK /\ CountTypeOK

Init ==
  /\ options \in [password : BOOLEAN, db : BOOLEAN]
  /\ context = "null"
  /\ timeseries_available = TRUE
  /\ schema_ready = FALSE
  /\ pc = "constructed"
  /\ op = "check"
  /\ cursor = 1
  /\ attempt = 0
  /\ result = "none"
  /\ server \in {"down", "up", "refusing", "hung"}
  /\ module \in BOOLEAN
  /\ keys \in SUBSET Metrics
  /\ session = FALSE
  /\ calm = FALSE
  /\ executed = 0
  /\ stored = {}
  /\ acked = {}
  /\ wiped = FALSE
  /\ undisturbed = FALSE

-----------------------------------------------------------------------------
(* How the sink's functions return into one another.                       *)

Return(r) == pc' = "idle" /\ result' = r

\* reconnect() starts by closing the connection it has.
Reconnect == context' = "null" /\ session' = FALSE /\ pc' = "connect"

\* A step of reconnect() failed: the new context is dropped, the call fails.
AbandonConnection ==
  context' = "null" /\ session' = FALSE /\ Return("failed")

\* reconnect() returned true: check_connectivity() is done, publish() goes on
\* to publish_impl().
Reconnected ==
  IF op = "check"
    THEN Return("connected") /\ UNCHANGED attempt
    ELSE pc' = "madd" /\ attempt' = attempt + 1 /\ UNCHANGED result

\* Mutants of PublishFailed: retry without end, retry on the same context,
\* report success anyway, no retry.
PublishFailedThrice(errState, alive) ==
  IF attempt <= 2
    THEN Reconnect /\ UNCHANGED result
    ELSE Return("failed") /\ context' = errState /\ session' = alive
PublishFailedSpins(errState, alive) ==
  UNCHANGED <<pc, result>> /\ context' = errState /\ session' = alive
PublishFailedSwallowed(errState, alive) ==
  IF attempt = 1
    THEN Reconnect /\ UNCHANGED result
    ELSE Return("ok") /\ context' = errState /\ session' = alive
PublishFailedOnce(errState, alive) ==
  Return("failed") /\ context' = errState /\ session' = alive

\* publish_impl() returned false: publish() reconnects and tries once more.
PublishFailed(errState, alive) ==
  IF attempt = 1
    THEN Reconnect /\ UNCHANGED result
    ELSE Return("failed") /\ context' = errState /\ session' = alive

\* A reply arrives only over a live connection from a server that runs; with
\* no command timeout a hung server leaves the sink blocked in redisCommand().
Answers == session /\ server \in {"up", "refusing"}

Executes == session /\ server = "up" /\ module

\* An ERROR reply other than "unknown command": loading, OOM, no permission.
Rejects == session /\ server = "refusing"

UnknownCommand == Answers /\ ~module

-----------------------------------------------------------------------------
(* The calls the agent makes, and the commands they are made of.           *)

\* Mutants of EnsureConnected: context_ not examined, latch not examined.
EnsureConnectedBlindly ==
  /\ IF timeseries_available
       THEN pc' = "madd" /\ attempt' = 1 /\ UNCHANGED result
       ELSE Return("failed") /\ attempt' = 0
  /\ UNCHANGED <<context, session>>
EnsureConnectedUnlatched ==
  IF context = "ok"
    THEN pc' = "madd" /\ attempt' = 1 /\ UNCHANGED <<context, session, result>>
    ELSE Reconnect /\ attempt' = 0 /\ UNCHANGED result

\* ensure_connected(), as called by publish() before its first attempt.
EnsureConnected ==
  \/ /\ ~timeseries_available
     /\ Return("failed")
     /\ attempt' = 0
     /\ UNCHANGED <<context, session>>
  \/ /\ timeseries_available /\ context = "ok"
     /\ pc' = "madd" /\ attempt' = 1
     /\ UNCHANGED <<context, session, result>>
  \/ /\ timeseries_available /\ context # "ok"
     /\ Reconnect
     /\ attempt' = 0
     /\ UNCHANGED result

\* The constructor of Agent calls check_connectivity() once, with no context.
CheckConnectivity ==
  /\ pc = "constructed"
  /\ Reconnect
  /\ UNCHANGED <<options, timeseries_available, schema_ready, op, cursor, attempt,
                 result, server, module, keys, calm, historyVars>>

Publish ==
  /\ pc = "idle"
  /\ op' = "publish"
  /\ executed' = 0 /\ stored' = {}
  /\ undisturbed' = (server = "up" /\ module)
  /\ EnsureConnected
  /\ UNCHANGED <<options, timeseries_available, schema_ready, cursor,
                 server, module, keys, calm, acked, wiped>>

\* redisConnectWithTimeout(): the kernel accepts for a hung process too.
Connect ==
  /\ pc = "connect"
  /\ \/ /\ server = "down"
        /\ AbandonConnection
     \/ /\ server # "down"
        /\ context' = "ok" /\ session' = TRUE /\ pc' = "auth"
        /\ UNCHANGED result
  /\ UNCHANGED <<options, timeseries_available, schema_ready, op, cursor, attempt,
                 server, module, keys, calm, historyVars>>

\* AUTH and SELECT are skipped when not configured; a server that refuses the
\* data commands may still accept them.
Handshake(here, configured, next) ==
  /\ pc = here
  /\ \/ /\ configured => Answers
        /\ pc' = next
        /\ UNCHANGED <<context, session, result>>
     \/ /\ configured
        /\ Rejects \/ ~session
        /\ AbandonConnection
  /\ cursor' = 1
  /\ UNCHANGED <<options, timeseries_available, schema_ready, op, attempt,
                 server, module, keys, calm, historyVars>>

Authenticate == Handshake("auth", options.password, "select")

SelectDb == Handshake("select", options.db, "schema")

\* ensure_schema() on a sink whose schema was created before.
SchemaKnown ==
  /\ pc = "schema" /\ schema_ready
  /\ Reconnected
  /\ UNCHANGED <<options, context, timeseries_available, schema_ready, op, cursor,
                 serverVars, historyVars>>

\* Mutant of SeriesConfirmed: the loop stops one metric early.
SeriesConfirmedEarly ==
  IF cursor + 1 < N
    THEN cursor' = cursor + 1 /\ UNCHANGED <<schema_ready, pc, attempt, result>>
    ELSE schema_ready' = TRUE /\ Reconnected /\ UNCHANGED cursor

\* TS.CREATE answered OK or "already exists": on to the next metric, or done.
SeriesConfirmed ==
  IF cursor < N
    THEN cursor' = cursor + 1 /\ UNCHANGED <<schema_ready, pc, attempt, result>>
    ELSE schema_ready' = TRUE /\ Reconnected /\ UNCHANGED cursor

CreateSeries ==
  /\ pc = "schema" /\ ~schema_ready
  /\ Executes
  /\ keys' = keys \union {cursor}
  /\ \/ /\ SeriesConfirmed
        /\ acked' = acked \union {cursor}
        /\ UNCHANGED <<context, session, undisturbed>>
     \/ /\ ~calm                       \* executed, but the reply is lost
        /\ AbandonConnection
        /\ undisturbed' = FALSE
        /\ UNCHANGED <<schema_ready, cursor, attempt, acked>>
  /\ UNCHANGED <<options, timeseries_available, op, server, module, calm,
                 executed, stored, wiped>>

\* Mutant of CreateSeriesFailed: every error clears timeseries_available_.
CreateSeriesFailedLatches ==
  /\ pc = "schema" /\ ~schema_ready
  /\ Rejects \/ UnknownCommand \/ ~session
  /\ timeseries_available' = FALSE
  /\ AbandonConnection
  /\ UNCHANGED <<options, schema_ready, op, cursor, attempt,
                 server, module, keys, calm, historyVars>>

\* TS.CREATE failed; "unknown command" makes the sink give up for good.
CreateSeriesFailed ==
  /\ pc = "schema" /\ ~schema_ready
  /\ Rejects \/ UnknownCommand \/ ~session
  /\ timeseries_available' = ~UnknownCommand
  /\ AbandonConnection
  /\ UNCHANGED <<options, schema_ready, op, cursor, attempt,
                 server, module, keys, calm, historyVars>>

\* TS.MADD answers an array: success to publish_impl(), although the entry of
\* a key that does not exist is an error and stores nothing.
Madd ==
  /\ pc = "madd"
  /\ Executes
  /\ executed' = executed + 1
  /\ stored' = stored \union keys
  /\ \/ /\ Return("ok")
        /\ UNCHANGED <<context, session, undisturbed>>
     \/ /\ ~calm                       \* executed, but the reply is lost
        /\ undisturbed' = FALSE
        /\ PublishFailed("err", FALSE)
  /\ UNCHANGED <<options, timeseries_available, schema_ready, op, cursor, attempt,
                 server, module, keys, calm, acked, wiped>>

\* publish_impl() got an ERROR reply, or none because the connection is gone.
MaddFailed ==
  /\ pc = "madd"
  /\ \/ /\ Rejects \/ UnknownCommand
        /\ PublishFailed("ok", TRUE)
     \/ /\ ~session
        /\ PublishFailed("err", FALSE)
  /\ UNCHANGED <<options, timeseries_available, schema_ready, op, cursor, attempt,
                 server, module, keys, calm, historyVars>>

SinkStep ==
  \/ CheckConnectivity \/ Publish \/ Connect \/ Authenticate \/ SelectDb
  \/ SchemaKnown \/ CreateSeries \/ CreateSeriesFailed \/ Madd \/ MaddFailed

-----------------------------------------------------------------------------
(* The Redis server and the network: external, modelled from the replies    *)
(* and the failures the sink's code distinguishes.                         *)

Crash ==
  /\ ~calm /\ server # "down"
  /\ server' = "down" /\ session' = FALSE
  /\ keys' \in SUBSET keys             \* what the last snapshot kept
  /\ wiped' = (wiped \/ ~(acked \subseteq keys'))
  /\ undisturbed' = FALSE
  /\ UNCHANGED <<sinkVars, module, calm, executed, stored, acked>>

Restart ==
  /\ ~calm /\ server = "down"
  /\ server' \in {"up", "refusing"}
  /\ module' \in BOOLEAN
  /\ undisturbed' = FALSE
  /\ UNCHANGED <<sinkVars, keys, session, calm, executed, stored, acked, wiped>>

\* Starts or stops refusing commands, hangs or resumes.
ChangeService ==
  /\ ~calm /\ server # "down"
  /\ server' \in {"up", "refusing", "hung"} \ {server}
  /\ undisturbed' = FALSE
  /\ UNCHANGED <<sinkVars, module, keys, session, calm, executed, stored, acked, wiped>>

\* DEL, FLUSHALL or eviction.
DeleteKey ==
  /\ ~calm /\ server \in {"up", "refusing"}
  /\ \E k \in keys : keys' = keys \ {k}
  /\ wiped' = (wiped \/ ~(acked \subseteq keys'))
  /\ undisturbed' = FALSE
  /\ UNCHANGED <<sinkVars, server, module, session, calm, executed, stored, acked>>

DropConnection ==
  /\ ~calm /\ session
  /\ session' = FALSE
  /\ undisturbed' = FALSE
  /\ UNCHANGED <<sinkVars, server, module, keys, calm, executed, stored, acked, wiped>>

\* The faults end with a server that works.
CalmDown ==
  /\ ~calm /\ server = "up" /\ module
  /\ calm' = TRUE
  /\ UNCHANGED <<sinkVars, server, module, keys, session, historyVars>>

ServerStep ==
  Crash \/ Restart \/ ChangeService \/ DeleteKey \/ DropConnection \/ CalmDown

Next == SinkStep \/ ServerStep

\* The agent's thread runs whenever it is not blocked, and its loop publishes
\* every tick; nothing is assumed of the server.
Spec == Init /\ [][Next]_vars /\ WF_vars(SinkStep)

-----------------------------------------------------------------------------
(* Properties.                                                             *)

\* redisCommand() is never given the null context that every failed step of
\* reconnect() leaves behind (it would dereference it), and once
\* timeseries_available_ is cleared the sink holds no connection and starts no
\* command again.
ConnectionSound ==
  /\ pc \in {"auth", "select", "schema", "madd"} => context = "ok"
  /\ ~timeseries_available => context = "null" /\ ~session /\ pc = "idle"

\* schema_ready_ is never reset and TS.CREATE never repeated, so before any
\* sample is sent Redis must have confirmed every enabled series once, over
\* however many interrupted connections.
SchemaBeforeMadd == pc = "madd" => schema_ready /\ acked = Metrics

\* A publish() that returned true stored a sample for every enabled metric,
\* as long as Redis kept the keys it had confirmed.
SuccessStores == pc = "idle" /\ result = "ok" /\ ~wiped => stored = Metrics

\* A connection lost between two ticks costs no tick: context_->err is stale,
\* yet with a healthy server the single retry always delivers.
StaleConnectionMasked ==
  pc = "idle" /\ op = "publish" /\ undisturbed /\ timeseries_available
    => result = "ok"

\* The sink keeps the promise the agent loop relies on: at most two
\* deliveries per call, success only after a delivery, giving up only before
\* the first schema.
Sink == INSTANCE MetricSink WITH
  Attempts  <- 2,
  mode      <- IF ~timeseries_available THEN "unavailable"
               ELSE IF schema_ready THEN "established" ELSE "trying",
  busy      <- pc \notin {"constructed", "idle"},
  delivered <- executed,
  outcome   <- result

ImplementsMetricSink == Sink!Spec

\* Every call returns, unless Redis keeps hanging.
CallReturns == <>[](server # "hung") => []<>(pc = "idle")

\* When the faults end, publishing succeeds from some call on, whatever state
\* they left the sink in, if no server without the module was ever met.
Recovers == <>calm /\ []module => <>[](pc = "idle" => result = "ok")

\* docs/redis-timeseries-metrics.md: "`TS.MADD` writes all listed keys every
\* cycle": a cycle whose publish() returned true wrote all keys.
WritesAllListedKeys == pc = "idle" /\ result = "ok" => stored = Metrics
=============================================================================
