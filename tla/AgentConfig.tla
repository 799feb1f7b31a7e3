----------------------------- MODULE AgentConfig -----------------------------
(***************************************************************************)
(* How the agent comes up: load_agent_config() reads its file line by      *)
(* line, keeping a stack of sections by indentation, and applies each      *)
(* setting as it comes; a setting it rejects ends the program, and the     *)
(* rest configures the agent.                                              *)
(*                                                                         *)
(* A line is its depth (leading spaces / 2), its key and its value; a line *)
(* without a value opens a section.  Names joined by dots are a sequence   *)
(* of names, so a dotted key and a nested one are the same, as they are to *)
(* the code.  Blank lines, comments and lines without a colon leave no     *)
(* trace.  A value is kept by kind and number:                             *)
(*    number n      reads as the integer or float n                        *)
(*    nan           reads as a float, but not as an integer                *)
(*    true          true, yes or on                                        *)
(*    word          any other text; as an address, the bare host n         *)
(*    unix          unix://p or /p, n = 0 for the empty path               *)
(*    hostport      h:p with port n, 0 if the port is no number            *)
(***************************************************************************)
EXTENDS MetricCatalogue, Integers, SequencesExt

CONSTANTS
    Lines,          \* the lines a file may have
    MaxLines,       \* bound on the length of a file
    Width           \* 2^32, scaled down

NoValue == [kind |-> "none", n |-> 0]
Kinds == {"none", "number", "nan", "true", "word", "unix", "hostport"}

ASSUME ConfigAssumption ==
    /\ \A l \in Lines : /\ l.depth \in Nat
                        /\ l.key \in Seq(STRING)
                        /\ l.value \in [kind : Kinds, n : Int]
                        /\ l.value.kind = "none" => l.value = NoValue
    /\ MaxLines \in Nat
    /\ Width \in Nat \ {0}

VARIABLES
    pc,             \* "reading", "rejected", "crashed" or "running"
    sections,       \* sections
    config,         \* the AgentConfig so far
    agent,          \* what the Agent made of it
    lines,          \* history: the lines read
    wild            \* history: sections was written out of its bounds

vars == <<pc, sections, config, agent, lines, wild>>

Float(n) == [kind |-> "number", n |-> n]

\* The host is 0 if there is none, 2 for one with a port.
DefaultAddress == [kind |-> "word", n |-> 1]

NoSwitch == [name \in {} |-> TRUE]

Defaults ==
    [tick_interval |-> 100, throttle |-> Float(85), window |-> Float(30), device |-> 0,
     publish_health |-> TRUE, stdout_debug |-> TRUE,
     redis |-> [enabled |-> FALSE, host |-> DefaultAddress.n, port |-> 6379, unix_socket |-> 0],
     sensor_enabled |-> NoSwitch]

NoAgent == [tick_interval |-> 1, window |-> 1, sampled |-> {}, created |-> {}, written |-> {}]

Init ==
    /\ pc = "reading"
    /\ sections = <<>>
    /\ config = Defaults
    /\ agent = NoAgent
    /\ lines = <<>>
    /\ wild = FALSE

-----------------------------------------------------------------------------
(***************************************************************************)
(* apply_key_value().                                                      *)
(***************************************************************************)
TickRate == <<"tick_rate_hz">>
ThrottleTemp == <<"thermal_throttle_temp_c">>
WarningWindow == <<"thermal_pressure_warning_window_c">>
DeviceIndex == <<"gpu", "device_index">>
PublishHealth == <<"agent", "publish_health">>
StdoutDebug == <<"agent", "stdout_debug">>
Address == <<"redis", "address">>

MaxPort == 65535

IsSwitch(key) == Len(key) > 1 /\ Head(key) = "sensors"

IsNumber(v) == v.kind = "number"
IsFloat(v) == v.kind \in {"number", "nan"}

ParseBool(v) == v.kind = "true" \/ (IsNumber(v) /\ v.n = 1)

\* mutant: the upper limit of the rate is not checked
RejectsNoLimit(key, v) ==
    \/ key = TickRate /\ (~IsNumber(v) \/ v.n <= 0)
    \/ key = ThrottleTemp /\ ~IsFloat(v)
    \/ key = WarningWindow /\ (~IsFloat(v) \/ (IsNumber(v) /\ v.n <= 0))
    \/ key = DeviceIndex /\ (~IsNumber(v) \/ v.n < 0)
    \/ key = Address /\ v.kind = "hostport" /\ v.n \notin 1..MaxPort

\* The settings that throw.  Not a number is not at most 0, and passes.
Rejects(key, v) ==
    \/ key = TickRate /\ (~IsNumber(v) \/ v.n <= 0 \/ v.n > 1000)
    \/ key = ThrottleTemp /\ ~IsFloat(v)
    \/ key = WarningWindow /\ (~IsFloat(v) \/ (IsNumber(v) /\ v.n <= 0))
    \/ key = DeviceIndex /\ (~IsNumber(v) \/ v.n < 0)
    \/ key = Address /\ v.kind = "hostport" /\ v.n \notin 1..MaxPort

\* mutant: a host does not replace the socket of an earlier address
ApplyAddressKeeps(r, v) ==
    [enabled     |-> TRUE,
     unix_socket |-> IF v.kind = "unix" THEN v.n ELSE r.unix_socket,
     host        |-> IF v.kind = "unix" THEN 0 ELSE IF v.kind = "hostport" THEN 2 ELSE v.n,
     port        |-> IF v.kind = "unix" THEN 0 ELSE IF v.kind = "hostport" THEN v.n ELSE r.port]

\* A bare host leaves the port as it is.
ApplyAddress(r, v) ==
    [enabled     |-> TRUE,
     unix_socket |-> IF v.kind = "unix" THEN v.n ELSE 0,
     host        |-> IF v.kind = "unix" THEN 0 ELSE IF v.kind = "hostport" THEN 2 ELSE v.n,
     port        |-> IF v.kind = "unix" THEN 0 ELSE IF v.kind = "hostport" THEN v.n ELSE r.port]

\* a map with one entry set
With(f, x, y) == [z \in DOMAIN f \union {x} |-> IF z = x THEN y ELSE f[z]]

Apply(c, key, v) ==
    [tick_interval  |-> IF key = TickRate THEN 1000 \div v.n ELSE c.tick_interval,
     throttle       |-> IF key = ThrottleTemp THEN v ELSE c.throttle,
     window         |-> IF key = WarningWindow THEN v ELSE c.window,
     device         |-> IF key = DeviceIndex THEN v.n % Width ELSE c.device,
     publish_health |-> IF key = PublishHealth THEN ParseBool(v) ELSE c.publish_health,
     stdout_debug   |-> IF key = StdoutDebug THEN ParseBool(v) ELSE c.stdout_debug,
     redis          |-> IF key = Address THEN ApplyAddress(c.redis, v) ELSE c.redis,
     sensor_enabled |-> IF IsSwitch(key) THEN With(c.sensor_enabled, Tail(key), ParseBool(v))
                        ELSE c.sensor_enabled]

-----------------------------------------------------------------------------
(***************************************************************************)
(* load_agent_config().                                                    *)
(***************************************************************************)
Least(a, b) == IF a <= b THEN a ELSE b

\* mutant: a section ends only where a shallower one begins
EnclosingLoose(depth) == SubSeq(sections, 1, Least(Len(sections), depth + 1))

\* the sections left open by a line at this depth
Enclosing(depth) == SubSeq(sections, 1, Least(Len(sections), depth))

\* A line without a value opens a section.  One that skips a depth writes
\* sections[depth] beyond its end: that may end the program, or be lost in
\* memory nobody reads.
OpenSection(l) ==
    \/ /\ Len(Enclosing(l.depth)) = l.depth
       /\ sections' = Append(Enclosing(l.depth), l.key)
       /\ UNCHANGED <<pc, wild>>
    \/ /\ Len(Enclosing(l.depth)) # l.depth
       /\ sections' = Enclosing(l.depth)
       /\ pc' \in {"reading", "crashed"}
       /\ wild' = TRUE

\* A line with a value is a setting; one that is rejected ends the program.
ApplyLine(l) ==
    LET key == FlattenSeq(Enclosing(l.depth)) \o l.key
    IN  /\ sections' = Enclosing(l.depth)
        /\ IF Rejects(key, l.value)
             THEN pc' = "rejected" /\ UNCHANGED config
             ELSE config' = Apply(config, key, l.value) /\ UNCHANGED pc
        /\ UNCHANGED wild

ReadLine(l) ==
    /\ pc = "reading"
    /\ Len(lines) < MaxLines
    /\ lines' = Append(lines, l)
    /\ \/ l.value = NoValue /\ OpenSection(l) /\ UNCHANGED config
       \/ l.value # NoValue /\ ApplyLine(l)
    /\ UNCHANGED agent

-----------------------------------------------------------------------------
(***************************************************************************)
(* The Agent's constructor.                                                *)
(***************************************************************************)
\* is_sensor_enabled()
EnabledSensors(c) ==
    {s \in SensorNames : <<s>> \in DOMAIN c.sensor_enabled => c.sensor_enabled[<<s>>]}

\* a window that is not above 0 gives way to 30 degrees
WindowUsed(w) == IF IsNumber(w) /\ w.n > 0 THEN w.n ELSE 30

\* the keys the sink creates: all it knows if it is told none
SinkMetrics(m) == IF m = {} THEN Appended \union Health ELSE m

Start ==
    LET enabled == EnabledSensors(config)
        metrics == SinkMetrics(EnabledRedisMetrics(enabled, config.publish_health))
    IN  /\ pc = "reading"
        /\ pc' = "running"
        /\ agent' =
             [tick_interval |-> config.tick_interval,
              window        |-> WindowUsed(config.window),
              sampled       |-> enabled,
              created       |-> IF config.redis.enabled THEN metrics ELSE {},
              written       |-> IF config.redis.enabled
                                  THEN AppendMetrics(metrics, config.publish_health) ELSE {}]
        /\ UNCHANGED <<sections, config, lines, wild>>

Next == (\E l \in Lines : ReadLine(l)) \/ Start

Spec == Init /\ [][Next]_vars

-----------------------------------------------------------------------------
(***************************************************************************)
(* What a file means, without a stack: a line belongs to the last line     *)
(* before it that is less indented.                                        *)
(***************************************************************************)
Before(file, i) == {j \in 1..(i - 1) : file[j].depth < file[i].depth}

LastOf(is) == CHOOSE i \in is : \A j \in is : j <= i

Parent(file, i) == LastOf(Before(file, i))

\* every line is one level below a section, or at the margin
WellIndented(file) ==
    \A i \in 1..Len(file) :
        file[i].depth > 0 => /\ Before(file, i) # {}
                             /\ file[Parent(file, i)].value = NoValue
                             /\ file[Parent(file, i)].depth = file[i].depth - 1

Path(file) ==
    LET path[i \in 1..Len(file)] ==
            IF file[i].depth = 0 THEN file[i].key ELSE path[Parent(file, i)] \o file[i].key
    IN  path

\* the settings of a key, and the last of them
Settings(file, key, kinds) ==
    {i \in 1..Len(file) : file[i].value.kind \in kinds \ {"none"} /\ Path(file)[i] = key}

LastValue(file, key, kinds, default) ==
    LET is == Settings(file, key, kinds)
    IN  IF is = {} THEN default ELSE file[LastOf(is)].value

\* true, not, or by default so
LastBool(file, key) ==
    Settings(file, key, Kinds) = {} \/ ParseBool(LastValue(file, key, Kinds, NoValue))

\* Host and socket are those of the last address; the port is that of the last
\* address that had one, or 0 after a socket.
AddressSays(file, r) ==
    LET v == LastValue(file, Address, Kinds, DefaultAddress)
        w == LastValue(file, Address, {"unix", "hostport"}, NoValue)
    IN  /\ r.unix_socket = IF v.kind = "unix" THEN v.n ELSE 0
        /\ r.host = IF v.kind = "unix" THEN 0 ELSE IF v.kind = "hostport" THEN 2 ELSE v.n
        /\ r.port = IF w.kind = "hostport" THEN w.n ELSE IF w.kind = "unix" THEN 0 ELSE 6379

\* Each setting of a configuration is that of the last line for it, or the
\* default; apply_key_value() reduces a device index.
Says(file, c) ==
    /\ c.tick_interval = 1000 \div LastValue(file, TickRate, Kinds, Float(10)).n
    /\ c.throttle = LastValue(file, ThrottleTemp, Kinds, Float(85))
    /\ c.window = LastValue(file, WarningWindow, Kinds, Float(30))
    /\ c.device = LastValue(file, DeviceIndex, Kinds, Float(0)).n % Width
    /\ c.publish_health = LastBool(file, PublishHealth)
    /\ c.stdout_debug = LastBool(file, StdoutDebug)
    /\ c.redis.enabled = (Settings(file, Address, Kinds) # {})
    /\ AddressSays(file, c.redis)
    /\ EnabledSensors(c) = {s \in SensorNames : LastBool(file, <<"sensors", s>>)}

\* In a file whose every line is one level below the section it is in, each
\* setting has the value of the last line for it and nothing else does, and
\* sections is never written out of its bounds: load_agent_config()'s stack
\* agrees with the indentation, over any sequence of openings and returns.
NestingMatchesIndentation ==
    WellIndented(lines) /\ pc \in {"reading", "crashed", "running"} =>
        ~wild /\ pc # "crashed" /\ Says(lines, config)

\* Whatever the file says, an agent that runs has a tick of 1 ms to 1 s and a
\* thermal window above 0: the loop does not spin and no pressure divides by
\* zero, for which the parser's checks and the constructor's must both hold.
StartsValid ==
    pc = "running" => agent.tick_interval \in 1..1000 /\ agent.window > 0

\* Three lists that are kept apart agree: the keys the sink creates are those
\* it writes, and the raw ones among them are all that the sensors that are
\* sampled write, except the seven fields in FrameOnly: no key stays silent and
\* no other reading is dropped; with health, if that is switched on, and none
\* at all without an address.
PublishedIffSampled ==
    pc = "running" =>
        /\ agent.created = agent.written
        /\ agent.written =
             IF ~config.redis.enabled THEN {}
             ELSE Derived \union Risk
                  \union Readings(agent.sampled)
                  \union IF config.publish_health THEN Health ELSE {}

\* The repository's README lists the metric suffixes of the output data model.
\* An agent with every sensor and its health switched on publishes all of them.
DocumentedPublished ==
    pc = "running" /\ config.redis.enabled /\ config.publish_health
      /\ agent.sampled = SensorNames => Documented \subseteq agent.written
=============================================================================
