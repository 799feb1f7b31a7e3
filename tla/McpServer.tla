----------------------------- MODULE McpServer -----------------------------
(***************************************************************************)
(* tools/hw-agent-mcp: a JSON-RPC server that answers one line of input at *)
(* a time, and whose two tools read the metrics from Redis on a connection *)
(* of their own per call.                                                  *)
(*                                                                         *)
(* Requests are reduced to what decides the path they take: whether the    *)
(* line is JSON and a well-formed request, its id, its method, and whether *)
(* the handler accepts its parameters.  Redis may stop, come back or hang, *)
(* and its keys change, between any two commands of a call.  An empty line *)
(* is skipped without a trace and is left out.                             *)
(***************************************************************************)
EXTENDS Integers, Sequences, FiniteSets

CONSTANTS
    Keys,       \* metric keys under the server's prefix
    Ids,        \* the ids that clients send
    None,       \* a request without an id
    BadId,      \* an id that is neither a string, an integer nor null
    Null,       \* the JSON null
    MaxLines,   \* bound on the lines of input
    MaxSamples  \* bound on the samples of a series

ASSUME McpAssumption == /\ IsFiniteSet(Keys)
                        /\ {None, BadId} \cap (Ids \cup {Null}) = {}
                        /\ None # BadId /\ Null \notin Ids
                        /\ MaxLines \in Nat /\ MaxSamples \in Nat

VARIABLES
    env,            \* which HW_AGENT_REDIS_* variables are set, and how
    pc,             \* where run() is
    line,           \* the line in progress, or NoLine
    lines_read,     \* history: the number of lines read so far
    owed,           \* history: the ids of those that call for a response
    should_respond, \* of run()
    id,             \* of handle_request()
    context,        \* the connection: "none", "open", or "dead"
    keys,           \* the keys the call will query
    todo,           \* those it has not queried yet
    series,         \* the series collected so far
    out,            \* the responses written
    redis,          \* Redis: "up", "down" or "hung"
    keyspace        \* what Redis stores under each key

inputVars == <<lines_read, owed>>
callVars == <<context, keys, todo, series>>
redisVars == <<redis, keyspace>>
vars == <<env, pc, line, inputVars, should_respond, id, callVars, out, redisVars>>

-----------------------------------------------------------------------------
(***************************************************************************)
(* A line of input.  form tells how far json::parse and parse_request get, *)
(* apart from the id; params whether the method's handler accepts its      *)
(* parameters ("overflow" is a window whose number std::stoll() refuses as *)
(* out of range); wanted the keys the filters match or the query names.    *)
(***************************************************************************)
Tools == {"metrics.summary", "metrics.timeseries.query"}
IgnoresParams == {"tools/list", "resources/list"}
ReadsParams == {"initialize", "resources/read"}

Line(form, i, method, params, wanted) ==
    [form |-> form, id |-> i, method |-> method, params |-> params, wanted |-> wanted]

Requests(ids, methods, params, wanted) ==
    {Line("request", i, m, p, w) : i \in ids, m \in methods, p \in params, w \in wanted}

Lines ==
    LET ids == Ids \cup {None}
    IN  {Line("garbage", None, "unknown", "rejected", {})}
          \cup {Line("invalid", i, "unknown", "rejected", {}) : i \in ids}
          \cup Requests(ids \cup {BadId, Null}, IgnoresParams \cup {"unknown"}, {"accepted"}, {{}})
          \cup Requests(ids, ReadsParams, {"accepted", "rejected"}, {{}})
          \cup Requests(ids, Tools, {"rejected", "overflow"}, {{}})
          \cup Requests(ids, {"metrics.summary"}, {"accepted"}, SUBSET Keys)
          \cup Requests(ids, {"metrics.timeseries.query"}, {"accepted"}, SUBSET Keys \ {{}})

\* what the JSON-RPC layer takes for a notification: no id, and accepted by
\* parse_request()
Notification(l) == l.form = "request" /\ l.id = None

NoLine == Line("none", None, "unknown", "rejected", {})

\* what Redis has under a key: nothing, some other type, or a series of that
\* many samples in the window
Absent == -1
Other == -2
Stored == {Absent, Other} \cup 0..MaxSamples

Response(i, code) == [id |-> i, code |-> code]
Result == 0             \* the "code" of a response that is no error

-----------------------------------------------------------------------------
Init ==
    /\ env \in [password : BOOLEAN, db : BOOLEAN, numbers : {"valid", "text", "huge"}]
    /\ pc = "getline"
    /\ line = NoLine
    /\ lines_read = 0 /\ owed = <<>>
    /\ should_respond = TRUE
    /\ id = Null
    /\ context = "none" /\ keys = {} /\ todo = {} /\ series = {}
    /\ out = <<>>
    /\ redis = "up"
    /\ keyspace \in [Keys -> Stored]

(***************************************************************************)
(* Writing the response ends the iteration; the call's connection is       *)
(* closed by its destructor.                                               *)
(***************************************************************************)
Respond(response) ==
    /\ out' = IF should_respond THEN Append(out, response) ELSE out
    /\ pc' = "getline"
    /\ line' = NoLine
    /\ context' = "none" /\ keys' = {} /\ todo' = {} /\ series' = {}
    /\ UNCHANGED <<env, inputVars, should_respond, id, redisVars>>

InvalidArgument == Respond(Response(id, -32602))

\* any other exception is caught in run(), which does not know the id
InternalError == Respond(Response(Null, -32603))

\* mutant: what a line leaves behind is not forgotten with it
ResetIdNever == id' = id

ResetId == id' = Null

ReadLine(l) ==
    /\ pc = "getline" /\ lines_read < MaxLines
    /\ line' = l
    /\ lines_read' = lines_read + 1
    /\ owed' = IF Notification(l) THEN owed ELSE Append(owed, l.id)
    /\ should_respond' = TRUE
    /\ ResetId
    /\ pc' = "parse"
    /\ UNCHANGED <<env, callVars, out, redisVars>>

\* end of input: run() returns 0
EndOfInput ==
    /\ pc = "getline"
    /\ pc' = "exited"
    /\ UNCHANGED <<env, line, inputVars, should_respond, id, callVars, out, redisVars>>

\* json::parse throws
NotJson == pc = "parse" /\ line.form = "garbage" /\ InternalError

ValidateId(i) == i # BadId

ParseRequest ==
    /\ pc = "parse" /\ line.form # "garbage"
    /\ IF line.form = "invalid" \/ ~ValidateId(line.id)
       THEN InvalidArgument
       ELSE /\ should_respond' = (line.id # None)
            /\ id' = IF line.id = None THEN Null ELSE line.id
            /\ pc' = "dispatch"
            /\ UNCHANGED <<env, line, inputVars, callVars, out, redisVars>>

(***************************************************************************)
(* handle_request(): the methods that need no Redis.                       *)
(***************************************************************************)
HandleStatic ==
    /\ pc = "dispatch" /\ line.method \in IgnoresParams \cup ReadsParams
    /\ IF line.method \in ReadsParams /\ line.params = "rejected"
       THEN InvalidArgument
       ELSE Respond(Response(id, Result))

MethodNotFound ==
    /\ pc = "dispatch" /\ line.method = "unknown"
    /\ Respond(Response(id, -32601))

(***************************************************************************)
(* handle_tools_call(): the arguments are checked, then the environment is *)
(* read, where std::stoi() throws invalid_argument or out_of_range, and    *)
(* only then Redis is contacted.                                           *)
(***************************************************************************)
HandleToolsCall ==
    /\ pc = "dispatch" /\ line.method \in Tools
    /\ CASE line.params = "rejected" -> InvalidArgument
         [] line.params = "overflow" -> InternalError
         [] OTHER ->
              CASE env.numbers = "text" -> InvalidArgument
                [] env.numbers = "huge" -> InternalError
                [] OTHER -> /\ pc' = "connect"
                            /\ UNCHANGED <<env, line, inputVars, should_respond, id, callVars, out, redisVars>>

\* AUTH and SELECT are sent only when configured
AfterConnect == IF env.password THEN "auth" ELSE IF env.db THEN "select" ELSE "list"
AfterAuth == IF env.db THEN "select" ELSE "list"

GoTo(step) ==
    /\ pc' = step
    /\ UNCHANGED <<env, line, inputVars, should_respond, id, keys, todo, series, out, redisVars>>

\* mutant: connect until it works
ConnectFailedRetries == redis # "up" /\ GoTo("connect") /\ UNCHANGED context

ConnectFailed == redis # "up" /\ InternalError

\* RedisConnection::connect(): an error or the timeout, or a connection, which
\* the kernel may accept for a hung process too
Connect ==
    /\ pc = "connect"
    /\ \/ redis # "down" /\ context' = "open" /\ GoTo(AfterConnect)
       \/ ConnectFailed

\* RedisConnection::command(): without a timeout, a hung Redis is waited for
Replies == context = "open" /\ redis = "up"
NoReply == context = "dead"

\* AUTH and SELECT, which Redis may refuse
Handshake ==
    /\ pc \in {"auth", "select"}
    /\ \/ Replies /\ GoTo(IF pc = "auth" THEN AfterAuth ELSE "list") /\ UNCHANGED context
       \/ (Replies \/ NoReply) /\ InternalError

(***************************************************************************)
(* metrics.summary selects among the keys Redis lists now; a query takes   *)
(* the keys it was given.                                                  *)
(***************************************************************************)
ListMetricKeys ==
    /\ pc = "list" /\ line.method = "metrics.summary"
    /\ \/ /\ Replies
          /\ keys' = {k \in line.wanted : keyspace[k] # Absent}
          /\ todo' = keys'
          /\ pc' = "range"
          /\ UNCHANGED <<env, line, inputVars, should_respond, id, context, series, out, redisVars>>
       \/ Replies /\ InternalError     \* an error, or not an array
       \/ NoReply /\ InternalError

TakeGivenKeys ==
    /\ pc = "list" /\ line.method = "metrics.timeseries.query"
    /\ keys' = line.wanted
    /\ todo' = line.wanted
    /\ pc' = "range"
    /\ UNCHANGED <<env, line, inputVars, should_respond, id, context, series, out, redisVars>>

(***************************************************************************)
(* One TS.RANGE.  Redis answers an array of [timestamp, value] pairs: the  *)
(* timestamp as an integer reply, the value as a string.  hiredis fills    *)
(* str for string replies only, and a point without it is passed over.     *)
(***************************************************************************)
RangeReply(k) == [i \in 1..keyspace[k] |-> [ts |-> "integer", value |-> "string"]]
HasStr(reply) == reply = "string"
Counted(points) == {i \in DOMAIN points : HasStr(points[i].ts) /\ HasStr(points[i].value)}

IsSeries(k) == keyspace[k] \notin {Absent, Other}

\* mutant: a key that cannot be read is left out
RangeFailedSkips(k) ==
    /\ todo' = todo \ {k}
    /\ UNCHANGED <<env, pc, line, inputVars, should_respond, id, context, keys, series, out, redisVars>>

RangeFailed(k) == InternalError

QueryTimeseries(k) ==
    /\ pc = "range" /\ k \in todo
    /\ \/ /\ Replies /\ IsSeries(k)
          /\ todo' = todo \ {k}
          /\ series' = series \cup {[key |-> k, sample_count |-> Cardinality(Counted(RangeReply(k))),
                                     stored |-> keyspace[k]]}
          /\ UNCHANGED <<env, pc, line, inputVars, should_respond, id, context, keys, out, redisVars>>
       \/ Replies /\ ~IsSeries(k) /\ RangeFailed(k)
       \/ NoReply /\ InternalError

\* the tool's result
QueryDone ==
    /\ pc = "range" /\ todo = {}
    /\ Respond(Response(id, Result))

-----------------------------------------------------------------------------
(***************************************************************************)
(* Redis and the agents that write to it.                                  *)
(***************************************************************************)
serverVars == <<env, pc, line, inputVars, should_respond, id, keys, todo, series, out>>

RedisStops ==
    /\ redis = "up"
    /\ redis' = "down"
    /\ context' = IF context = "open" THEN "dead" ELSE context
    /\ UNCHANGED <<serverVars, keyspace>>

RedisHangs == redis = "up" /\ redis' = "hung" /\ UNCHANGED <<serverVars, context, keyspace>>

RedisIsBack == redis # "up" /\ redis' = "up" /\ UNCHANGED <<serverVars, context, keyspace>>

ChangeKey(k) ==
    /\ redis = "up"
    /\ \/ keyspace[k] = Absent /\ keyspace' = [keyspace EXCEPT ![k] = 0]
       \/ IsSeries(k) /\ keyspace[k] < MaxSamples /\ keyspace' = [keyspace EXCEPT ![k] = @ + 1]
       \/ keyspace[k] # Absent /\ keyspace' = [keyspace EXCEPT ![k] = Absent]
    /\ UNCHANGED <<serverVars, context, redis>>

Run ==
    \/ NotJson \/ ParseRequest
    \/ HandleStatic \/ MethodNotFound \/ HandleToolsCall
    \/ Connect \/ Handshake \/ ListMetricKeys \/ TakeGivenKeys
    \/ \E k \in Keys : QueryTimeseries(k)
    \/ QueryDone

Next ==
    \/ \E l \in Lines : ReadLine(l)
    \/ EndOfInput
    \/ Run
    \/ RedisStops \/ RedisHangs \/ RedisIsBack
    \/ \E k \in Keys : ChangeKey(k)

(***************************************************************************)
(* The server's one thread runs whenever it can; the client need not send  *)
(* anything and Redis need not recover.                                    *)
(***************************************************************************)
Spec == Init /\ [][Next]_vars /\ WF_vars(Run)

-----------------------------------------------------------------------------
(***************************************************************************)
(* Between two lines, the responses written are those to the lines read,   *)
(* one each and in their order, with none for a notification; a response   *)
(* carries the id of its own line or null, and a result always the id.  So *)
(* no failure on the way, in the client's input, the environment or Redis, *)
(* loses a response, writes two, or answers with what another line left.   *)
(* A line without an id that parse_request() refuses is no notification    *)
(* here: the code answers it with the id null, against the README's        *)
(* sentence on notifications (see NotificationsUnanswered).                *)
(***************************************************************************)
AnswersMatch ==
    pc \in {"getline", "exited"} =>
        /\ Len(out) = Len(owed)
        /\ \A i \in DOMAIN out :
              /\ out[i].id \in {owed[i], Null}
              /\ out[i].code = Result => out[i].id = owed[i]

(***************************************************************************)
(* A tool answers with all of what it was asked for or with an error: when *)
(* it writes its result, that has one series for every selected key, also  *)
(* if keys come and go, or Redis stops, between its commands.              *)
(***************************************************************************)
ResultIsWhole ==
    pc = "range" => {s.key : s \in series} = keys \ todo

(***************************************************************************)
(* A line that was read is processed to its end, unless Redis hangs for    *)
(* ever: neither a Redis that is down nor one that fails in the middle of  *)
(* a call keeps the server from its next line.                             *)
(***************************************************************************)
LineProcessed == (<>[](redis # "hung")) => (pc = "parse" ~> pc = "getline")

(***************************************************************************)
(* What the tools' descriptions say: a query returns the recent points of  *)
(* its keys, so as many as TS.RANGE found.                                 *)
(***************************************************************************)
PointsReturned == \A s \in series : s.sample_count = s.stored

(***************************************************************************)
(* What the README says of notifications: a line that omits the id gets no *)
(* response.  parse_request() throws before handle_request() has looked at *)
(* the id, so should_respond is still TRUE when it refuses such a line.    *)
(***************************************************************************)
NotificationsUnanswered ==
    [][line.form \in {"request", "invalid"} /\ line.id = None => out' = out]_vars

=============================================================================
