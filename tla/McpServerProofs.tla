--------------------------- MODULE McpServerProofs ---------------------------
(***************************************************************************)
(* Proofs about McpServer, for every set of ids and keys, every input and  *)
(* every behaviour of Redis: responses match their lines, and the result   *)
(* of a tool is whole.                                                     *)
(***************************************************************************)
EXTENDS McpServer, TLAPS

\* The places of run() within a tool's call, and all of them.
InCall == {"connect", "auth", "select", "list", "range"}
Steps == {"getline", "parse", "dispatch", "exited"} \cup InCall

\* Whatever may be an id, the absent one included.
SentIds == Ids \cup {None, BadId, Null}

\* A response that fits the id that calls for it.
Fits(response, i) ==
    /\ response.id \in {i, Null}
    /\ response.code = Result => response.id = i

\* What the line in progress has left in run() and handle_request().
LineInv ==
    /\ pc \in Steps
    /\ pc \notin {"getline", "exited"} => line \in Lines
    /\ pc = "parse" => id = Null /\ should_respond = TRUE
    /\ pc \in {"dispatch"} \cup InCall =>
         /\ line.form = "request"
         /\ should_respond = (line.id # None)
         /\ id = IF line.id = None THEN Null ELSE line.id

\* The responses answer the lines before the one in progress.
OwedInv ==
    /\ owed \in Seq(SentIds)
    /\ out \in Seq([id : SentIds, code : Int])
    /\ IF pc \in {"getline", "exited"} \/ Notification(line)
         THEN Len(owed) = Len(out)
         ELSE Len(owed) = Len(out) + 1 /\ owed[Len(owed)] = line.id
    /\ \A i \in 1..Len(out) : Fits(out[i], owed[i])

AnswerInv == LineInv /\ OwedInv

\* The steps that end no line and start none.
Within ==
    /\ UNCHANGED <<line, owed, out, should_respond, id>>
    /\ pc \in {"dispatch"} \cup InCall /\ pc' \in {"dispatch"} \cup InCall

\* They keep it.
LEMMA WithinKeeps == AnswerInv /\ Within => AnswerInv'
  BY DEF AnswerInv, LineInv, OwedInv, Within, InCall, Steps, Notification, Fits

\* Writing the response to the line in progress, if it is no notification,
\* leaves nothing owed.
LEMMA RespondKeeps ==
    ASSUME AnswerInv, pc \in {"parse", "dispatch"} \cup InCall,
           NEW r \in [id : SentIds, code : Int],
           Notification(line) <=> ~should_respond,
           ~Notification(line) => Fits(r, line.id),
           Respond(r)
    PROVE  AnswerInv'
<1> DEFINE R == [id : SentIds, code : Int]
<1>1. pc' = "getline" /\ owed' = owed /\ out' = IF should_respond THEN Append(out, r) ELSE out
  BY DEF Respond, inputVars
<1>2. LineInv'  BY <1>1 DEF LineInv, Steps, InCall
<1>3. /\ owed \in Seq(SentIds) /\ out \in Seq(R) /\ pc \notin {"getline", "exited"}
      /\ \A i \in 1..Len(out) : Fits(out[i], owed[i])
  BY DEF AnswerInv, OwedInv, InCall
<1>4. CASE should_respond
  <2>1. /\ Len(owed) = Len(out) + 1 /\ owed[Len(owed)] = line.id /\ Fits(r, line.id)
        /\ out' = Append(out, r)
    BY <1>1, <1>3, <1>4 DEF AnswerInv, OwedInv
  <2>2. /\ out' \in Seq(R) /\ Len(out') = Len(out) + 1 /\ Len(out) \in Nat
        /\ \A i \in 1..Len(out) : out'[i] = out[i]
        /\ out'[Len(out) + 1] = r
    BY <1>3, <2>1
  <2>3. \A i \in 1..Len(out') : Fits(out'[i], owed[i])
    BY <1>3, <2>1, <2>2
  <2> QED  BY <1>1, <1>2, <1>3, <2>1, <2>2, <2>3 DEF AnswerInv, OwedInv, Fits
<1>5. CASE ~should_respond
  <2>1. Len(owed) = Len(out) /\ out' = out  BY <1>1, <1>5 DEF AnswerInv, OwedInv
  <2> QED  BY <1>1, <1>2, <1>3, <2>1 DEF AnswerInv, OwedInv, Fits
<1> QED  BY <1>4, <1>5

\* The fields of a line of input.
LEMMA LineFields ==
    ASSUME NEW l \in Lines
    PROVE  l.id \in SentIds /\ l.form \in {"garbage", "invalid", "request"}
  BY DEF Lines, Requests, Line, SentIds

\* The errors and results a tool or a method ends with, all written by Respond.
LEMMA ErrorKeeps ==
    ASSUME AnswerInv, pc \in {"dispatch"} \cup InCall,
           NEW code \in Int, NEW i \in {id, Null}, i = id \/ code # Result,
           Respond(Response(i, code))
    PROVE  AnswerInv'
<1>1. /\ line.form = "request" /\ should_respond = (line.id # None)
      /\ id = (IF line.id = None THEN Null ELSE line.id) /\ line.id \in SentIds
  BY LineFields DEF AnswerInv, LineInv, InCall
<1>2. Response(i, code) \in [id : SentIds, code : Int]
  BY <1>1 DEF Response, SentIds
<1>3. Notification(line) <=> ~should_respond  BY <1>1 DEF Notification
<1>4. ~Notification(line) => Fits(Response(i, code), line.id)
  BY <1>1 DEF Notification, Fits, Response
<1> QED  BY <1>2, <1>3, <1>4, RespondKeeps

\* A line is refused before its id is known.
LEMMA RefusalKeeps ==
    ASSUME AnswerInv, pc = "parse", ~Notification(line),
           NEW code \in Int, code # Result, Respond(Response(Null, code))
    PROVE  AnswerInv'
<1>1. should_respond = TRUE  BY DEF AnswerInv, LineInv
<1>2. Response(Null, code) \in [id : SentIds, code : Int] /\ Fits(Response(Null, code), line.id)
  BY DEF Response, SentIds, Fits
<1> QED  BY <1>1, <1>2, RespondKeeps

\* The next line is owed its response, unless it is a notification.
LEMMA ReadLineKeeps ==
    ASSUME AnswerInv, NEW l \in Lines, ReadLine(l)
    PROVE  AnswerInv'
<1>1. /\ pc = "getline" /\ pc' = "parse" /\ line' = l /\ id' = Null /\ should_respond' = TRUE
      /\ out' = out /\ owed' = IF Notification(l) THEN owed ELSE Append(owed, l.id)
  BY DEF ReadLine, ResetId
<1>2. LineInv'  BY <1>1 DEF LineInv, Steps, InCall, Lines
<1>3. l.id \in SentIds  BY LineFields
<1>4. /\ owed \in Seq(SentIds) /\ Len(owed) = Len(out)
      /\ \A i \in 1..Len(out) : Fits(out[i], owed[i])
  BY <1>1 DEF AnswerInv, OwedInv
<1>5. Notification(line)' <=> Notification(l)  BY <1>1 DEF Notification
<1>6. CASE Notification(l)
  BY <1>1, <1>2, <1>4, <1>5, <1>6 DEF AnswerInv, OwedInv, Fits
<1>7. CASE ~Notification(l)
  <2>1. /\ owed' \in Seq(SentIds) /\ Len(owed') = Len(out) + 1 /\ owed'[Len(owed')] = l.id
        /\ \A i \in 1..Len(out) : owed'[i] = owed[i]
    BY <1>1, <1>3, <1>4, <1>7
  <2> QED  BY <1>1, <1>2, <1>4, <1>5, <1>7, <2>1 DEF AnswerInv, OwedInv, Fits
<1> QED  BY <1>6, <1>7

\* Every step of the server and of Redis keeps it.
LEMMA NextAnswer == AnswerInv /\ [Next]_vars => AnswerInv'
<1> SUFFICES ASSUME AnswerInv, [Next]_vars PROVE AnswerInv'  OBVIOUS
<1> USE DEF Result
<1>1. ASSUME NEW l \in Lines, ReadLine(l) PROVE AnswerInv'
  BY <1>1, ReadLineKeeps
<1>2. CASE EndOfInput
  BY <1>2 DEF EndOfInput, inputVars, AnswerInv, LineInv, OwedInv, Steps, InCall, Fits
<1>3. CASE NotJson
  BY <1>3, RefusalKeeps DEF NotJson, InternalError, Notification
<1>4. CASE ParseRequest
  <2>1. pc = "parse" /\ line.form # "garbage" /\ line \in Lines /\ id = Null
    BY <1>4 DEF ParseRequest, AnswerInv, LineInv
  <2>2. CASE line.form = "invalid" \/ ~ValidateId(line.id)
    <3>1. ~Notification(line)
      BY <2>2, McpAssumption DEF Notification, ValidateId
    <3>2. Respond(Response(Null, -32602))
      BY <1>4, <2>1, <2>2 DEF ParseRequest, InvalidArgument
    <3> QED  BY <2>1, <3>1, <3>2, RefusalKeeps
  <2>3. CASE ~(line.form = "invalid" \/ ~ValidateId(line.id))
    <3>1. /\ should_respond' = (line.id # None) /\ pc' = "dispatch"
          /\ id' = (IF line.id = None THEN Null ELSE line.id)
          /\ UNCHANGED <<line, owed, out>>
      BY <1>4, <2>3 DEF ParseRequest, inputVars
    <3>2. line.form = "request"  BY <2>1, <2>3, LineFields
    <3> QED
      BY <2>1, <3>1, <3>2
      DEF AnswerInv, LineInv, OwedInv, Steps, InCall, Notification, Fits, Lines
  <2> QED  BY <2>2, <2>3
<1>5. CASE HandleStatic
  BY <1>5, ErrorKeeps DEF HandleStatic, InvalidArgument
<1>6. CASE MethodNotFound
  BY <1>6, ErrorKeeps DEF MethodNotFound
<1>7. CASE HandleToolsCall
  <2>1. CASE InvalidArgument
    BY <1>7, <2>1, ErrorKeeps DEF HandleToolsCall, InvalidArgument
  <2>2. CASE InternalError
    BY <1>7, <2>2, ErrorKeeps DEF HandleToolsCall, InternalError
  <2>3. CASE /\ pc' = "connect"
             /\ UNCHANGED <<env, line, inputVars, should_respond, id, callVars, out, redisVars>>
    BY <1>7, <2>3, WithinKeeps DEF HandleToolsCall, Within, InCall, inputVars
  <2> QED  BY <1>7, <2>1, <2>2, <2>3 DEF HandleToolsCall
<1>8. CASE Connect \/ Handshake
  <2>1. CASE InternalError
    BY <1>8, <2>1, ErrorKeeps DEF Connect, Handshake, InternalError, InCall
  <2>2. CASE GoTo(AfterConnect) \/ GoTo(AfterAuth) \/ GoTo("list")
    BY <1>8, <2>2, WithinKeeps
    DEF Connect, Handshake, GoTo, AfterConnect, AfterAuth, Within, InCall, inputVars
  <2> QED  BY <1>8, <2>1, <2>2 DEF Connect, Handshake, ConnectFailed
<1>9. CASE ListMetricKeys \/ TakeGivenKeys
  <2>1. CASE InternalError
    BY <1>9, <2>1, ErrorKeeps DEF ListMetricKeys, TakeGivenKeys, InternalError, InCall
  <2>2. CASE ~InternalError
    BY <1>9, <2>2, WithinKeeps DEF ListMetricKeys, TakeGivenKeys, Within, InCall, inputVars
  <2> QED  BY <2>1, <2>2
<1>10. ASSUME NEW k \in Keys, QueryTimeseries(k) PROVE AnswerInv'
  <2>1. CASE InternalError
    BY <1>10, <2>1, ErrorKeeps DEF QueryTimeseries, InternalError, InCall
  <2>2. CASE ~InternalError
    BY <1>10, <2>2, WithinKeeps DEF QueryTimeseries, RangeFailed, Within, InCall, inputVars
  <2> QED  BY <2>1, <2>2
<1>11. CASE QueryDone
  BY <1>11, ErrorKeeps DEF QueryDone, InCall
<1>12. CASE RedisStops \/ RedisHangs \/ RedisIsBack \/ (\E k \in Keys : ChangeKey(k))
            \/ UNCHANGED vars
  <2>1. UNCHANGED <<pc, line, owed, out, should_respond, id>>
    BY <1>12 DEF RedisStops, RedisHangs, RedisIsBack, ChangeKey, vars, serverVars, inputVars
  <2> QED
    BY <2>1 DEF AnswerInv, LineInv, OwedInv, Steps, InCall, Notification, Fits, Lines
<1> QED
  BY <1>1, <1>2, <1>3, <1>4, <1>5, <1>6, <1>7, <1>8, <1>9, <1>10, <1>11, <1>12 DEF Next, Run

\* run() writes one response for each line that calls for one, in their order,
\* with the line's own id or null, whatever fails on the way.
THEOREM AnswerSafety == Spec => []AnswersMatch
<1>1. Init => AnswerInv
  BY DEF Init, AnswerInv, LineInv, OwedInv, Steps, InCall
<1>2. AnswerInv => AnswersMatch
  BY DEF AnswerInv, OwedInv, AnswersMatch, Fits
<1> QED  BY <1>1, <1>2, NextAnswer, PTL DEF Spec

-----------------------------------------------------------------------------
(* The tools' results.                                                     *)

\* What has been collected is what has been queried, and only keys of the call
\* are queried; outside it nothing is left of the last call.
SeriesInv ==
    /\ pc \in Steps /\ todo \subseteq keys
    /\ IF pc = "range" THEN {s.key : s \in series} = keys \ todo
                       ELSE series = {} /\ keys = {} /\ todo = {}

\* A response takes the call's state with it.
LEMMA RespondClears ==
    ASSUME NEW r, Respond(r) PROVE SeriesInv'
  BY DEF Respond, SeriesInv, Steps, InCall

\* Every step of the call keeps it.
LEMMA NextSeries == SeriesInv /\ [Next]_vars => SeriesInv'
<1> SUFFICES ASSUME SeriesInv, [Next]_vars PROVE SeriesInv'  OBVIOUS
<1>1. ASSUME NEW r, Respond(r) PROVE SeriesInv'  BY <1>1, RespondClears
<1>2. CASE InternalError  BY <1>2, RespondClears DEF InternalError
<1>3. CASE InvalidArgument  BY <1>3, RespondClears DEF InvalidArgument
<1>4. CASE /\ UNCHANGED <<keys, todo, series>> /\ pc # "range"
           /\ pc' \in Steps \ {"range"}
  BY <1>4 DEF SeriesInv
<1>5. ASSUME NEW l \in Lines, ReadLine(l) PROVE SeriesInv'
  BY <1>4, <1>5 DEF ReadLine, callVars, Steps
<1>6. CASE EndOfInput
  BY <1>4, <1>6 DEF EndOfInput, callVars, Steps
<1>7. CASE NotJson \/ HandleStatic \/ MethodNotFound \/ QueryDone
  BY <1>1, <1>2, <1>3, <1>7 DEF NotJson, HandleStatic, MethodNotFound, QueryDone
<1>8. CASE ParseRequest
  BY <1>3, <1>4, <1>8 DEF ParseRequest, callVars, Steps
<1>9. CASE HandleToolsCall
  BY <1>2, <1>3, <1>4, <1>9 DEF HandleToolsCall, callVars, Steps, InCall
<1>10. CASE Connect \/ Handshake
  BY <1>2, <1>4, <1>10
  DEF Connect, ConnectFailed, Handshake, GoTo, AfterConnect, AfterAuth, Steps, InCall
<1>11. CASE ListMetricKeys \/ TakeGivenKeys
  <2>1. CASE ~InternalError
    <3>1. /\ pc = "list" /\ pc' = "range" /\ todo' = keys' /\ series' = series
      BY <1>11, <2>1 DEF ListMetricKeys, TakeGivenKeys
    <3> QED  BY <3>1 DEF SeriesInv, Steps, InCall
  <2> QED  BY <1>2, <2>1
<1>12. ASSUME NEW k \in Keys, QueryTimeseries(k) PROVE SeriesInv'
  <2>1. CASE ~InternalError
    <3> DEFINE new == [key |-> k, sample_count |-> Cardinality(Counted(RangeReply(k))),
                       stored |-> keyspace[k]]
    <3>1. /\ pc = "range" /\ k \in todo /\ todo' = todo \ {k}
          /\ series' = series \cup {new}
          /\ UNCHANGED <<pc, keys>>
      BY <1>12, <2>1 DEF QueryTimeseries, RangeFailed
    <3>2. new.key = k  OBVIOUS
    <3> HIDE DEF new
    <3>3. {s.key : s \in series'} = {s.key : s \in series} \cup {k}
      BY <3>1, <3>2
    <3> QED  BY <3>1, <3>3 DEF SeriesInv
  <2> QED  BY <1>2, <2>1
<1>13. CASE RedisStops \/ RedisHangs \/ RedisIsBack \/ (\E k \in Keys : ChangeKey(k))
            \/ UNCHANGED vars
  <2>1. UNCHANGED <<pc, keys, todo, series>>
    BY <1>13
    DEF RedisStops, RedisHangs, RedisIsBack, ChangeKey, vars, serverVars, callVars
  <2> QED  BY <2>1 DEF SeriesInv, Steps, InCall
<1> QED
  BY <1>5, <1>6, <1>7, <1>8, <1>9, <1>10, <1>11, <1>12, <1>13 DEF Next, Run

\* handle_metrics_summary() and handle_metrics_timeseries_query() collect one
\* series for every key of the call, or answer with an error.
THEOREM WholeResults == Spec => []ResultIsWhole
<1>1. Init => SeriesInv  BY DEF Init, SeriesInv, Steps
<1>2. SeriesInv => ResultIsWhole  BY DEF SeriesInv, ResultIsWhole
<1> QED  BY <1>1, <1>2, NextSeries, PTL DEF Spec
=============================================================================
