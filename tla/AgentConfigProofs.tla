-------------------------- MODULE AgentConfigProofs --------------------------
(***************************************************************************)
(* Proofs about AgentConfig, for any lines and files of any length: what   *)
(* the parser lets through makes an agent that can run, the lists of keys  *)
(* agree, and the stack of sections follows the indentation.               *)
(***************************************************************************)
EXTENDS AgentConfig, SequenceTheorems, WellFoundedInduction, TLAPS

\* The settings the parser has let through so far.
ConfigInv ==
    /\ config.tick_interval \in 1..1000
    /\ config.publish_health \in BOOLEAN

\* The agent that runs was made from the configuration as it is.
AgentInv ==
    pc = "running" =>
        LET enabled == EnabledSensors(config)
            metrics == SinkMetrics(EnabledRedisMetrics(enabled, config.publish_health))
        IN  agent = [tick_interval |-> config.tick_interval,
                     window        |-> WindowUsed(config.window),
                     sampled       |-> enabled,
                     created       |-> IF config.redis.enabled THEN metrics ELSE {},
                     written       |-> IF config.redis.enabled
                                         THEN AppendMetrics(metrics, config.publish_health)
                                         ELSE {}]

\* A rate the parser accepts makes a tick of at least a millisecond.
LEMMA IntervalBounds ==
  ASSUME NEW hz \in Int, hz > 0, hz <= 1000
  PROVE  1000 \div hz \in 1..1000
  OBVIOUS

\* apply_key_value() of a setting it does not reject.
LEMMA ApplyKeeps ==
  ASSUME ConfigInv, NEW key, NEW v, v.n \in Int, ~Rejects(key, v)
  PROVE  /\ Apply(config, key, v).tick_interval \in 1..1000
         /\ Apply(config, key, v).publish_health \in BOOLEAN
<1>0. Apply(config, key, v).publish_health \in BOOLEAN
  BY DEF Apply, ConfigInv, ParseBool
<1>1. CASE key = TickRate
  <2>1. v.n > 0 /\ v.n <= 1000  BY <1>1 DEF Rejects
  <2>2. 1000 \div v.n \in 1..1000  BY <2>1, IntervalBounds
  <2> QED  BY <1>0, <1>1, <2>2 DEF Apply
<1>2. CASE key # TickRate
  BY <1>0, <1>2 DEF Apply, ConfigInv
<1> QED  BY <1>1, <1>2

\* A line leaves the settings in range, and does not start the agent.
LEMMA ReadLineKeeps ==
  ASSUME ConfigInv, NEW l \in Lines, ReadLine(l)
  PROVE  ConfigInv' /\ pc' # "running"
<1>1. CASE l.value = NoValue
  BY <1>1 DEF ReadLine, OpenSection, ConfigInv
<1>2. CASE l.value # NoValue
  <2> DEFINE key == FlattenSeq(Enclosing(l.depth)) \o l.key
  <2>1. ApplyLine(l) /\ pc = "reading"  BY <1>2 DEF ReadLine
  <2>2. l.value.n \in Int  BY ConfigAssumption
  <2>3. CASE Rejects(key, l.value)
    BY <2>1, <2>3 DEF ApplyLine, ConfigInv
  <2>4. CASE ~Rejects(key, l.value)
    <3>1. config' = Apply(config, key, l.value) /\ pc' = pc  BY <2>1, <2>4 DEF ApplyLine
    <3> HIDE DEF key
    <3>2. config'.tick_interval \in 1..1000 /\ config'.publish_health \in BOOLEAN
      BY <2>2, <2>4, <3>1, ApplyKeeps
    <3> QED  BY <2>1, <3>1, <3>2 DEF ConfigInv
  <2> QED  BY <2>3, <2>4
<1> QED  BY <1>1, <1>2

\* What the parser accepts and what the constructor makes of it.
LEMMA Inductive == Spec => [](ConfigInv /\ AgentInv)
<1>1. Init => ConfigInv /\ AgentInv
  BY DEF Init, ConfigInv, AgentInv, Defaults
<1>2. ASSUME ConfigInv, AgentInv, [Next]_vars
      PROVE  ConfigInv' /\ AgentInv'
  <2>1. ASSUME NEW l \in Lines, ReadLine(l)  PROVE ConfigInv' /\ AgentInv'
    BY <1>2, <2>1, ReadLineKeeps DEF AgentInv
  <2>2. CASE Start
    BY <1>2, <2>2 DEF Start, ConfigInv, AgentInv
  <2>3. CASE UNCHANGED vars
    BY <1>2, <2>3 DEF vars, ConfigInv, AgentInv
  <2> QED  BY <1>2, <2>1, <2>2, <2>3 DEF Next
<1> QED  BY <1>1, <1>2, PTL DEF Spec

\* No configuration file makes an agent whose loop spins or whose thermal
\* pressure divides by a window that is not above 0.
THEOREM StartSafety == Spec => []StartsValid
<1>1. ASSUME ConfigInv, AgentInv PROVE StartsValid
  <2> SUFFICES ASSUME pc = "running" PROVE agent.tick_interval \in 1..1000 /\ agent.window > 0
    BY DEF StartsValid
  <2>1. /\ agent.tick_interval = config.tick_interval
        /\ agent.window = WindowUsed(config.window)
    BY <1>1 DEF AgentInv
  <2>2. WindowUsed(config.window) > 0  BY DEF WindowUsed
  <2> QED  BY <1>1, <2>1, <2>2 DEF ConfigInv
<1> QED  BY Inductive, <1>1, PTL

\* The agent's list for a set of sensors is what those sensors write, FrameOnly
\* apart, and the derived metrics, and no more than the sink knows.
LEMMA ListsAgree ==
  ASSUME NEW enabled \in SUBSET SensorNames, NEW health \in BOOLEAN
  PROVE  LET m == SinkMetrics(EnabledRedisMetrics(enabled, health))
         IN  /\ AppendMetrics(m, health) = m
             /\ m = Derived \union Risk
                    \union Readings(enabled)
                    \union IF health THEN Health ELSE {}
<1> DEFINE m == EnabledRedisMetrics(enabled, health)
           Known == Appended \union IF health THEN Health ELSE {}
<1>1. SinkMetrics(m) = m
  <2>1. "state" \in m  BY DEF EnabledRedisMetrics, Risk
  <2> QED  BY <2>1 DEF SinkMetrics
<1>2. m \subseteq Known  BY DEF EnabledRedisMetrics, Appended
<1>3. AppendMetrics(m, health) = m  BY <1>2 DEF AppendMetrics
<1>4. m = Derived \union Risk \union Readings(enabled) \union IF health THEN Health ELSE {}
  <2> DEFINE written == (UNION {FieldsWritten[s] : s \in enabled}) \ FrameOnly
  <2>1. SensorNames = {"psi", "cpu", "interrupts", "softirqs", "memory", "disk", "network",
                       "tegrastats", "thermal", "cpu_throttle", "cpufreq", "gpu"}
    BY DEF SensorNames, Registry
  <2>2. m \subseteq Derived \union Risk \union written \union IF health THEN Health ELSE {}
    BY DEF EnabledRedisMetrics, FieldsWritten, FrameOnly
  <2>3. ASSUME NEW s \in enabled PROVE FieldsWritten[s] \ FrameOnly \subseteq m
    BY <2>1 DEF EnabledRedisMetrics, FieldsWritten, FrameOnly
  <2>4. Derived \union Risk \union (IF health THEN Health ELSE {}) \subseteq m
    BY DEF EnabledRedisMetrics
  <2>5. written \subseteq m  BY <2>3
  <2> HIDE DEF m, written
  <2>6. m = Derived \union Risk \union written \union IF health THEN Health ELSE {}
    BY <2>2, <2>4, <2>5
  <2> QED  BY <2>6 DEF written, Readings
<1> QED  BY <1>1, <1>3, <1>4

\* For every configuration, the keys created and the keys written are the same,
\* and are those of all fields of the sensors that are sampled but seven.
THEOREM CatalogueSafety == Spec => []PublishedIffSampled
<1>1. ASSUME ConfigInv, AgentInv PROVE PublishedIffSampled
  <2> SUFFICES ASSUME pc = "running"
               PROVE  /\ agent.created = agent.written
                      /\ agent.written =
                           IF ~config.redis.enabled THEN {}
                           ELSE Derived \union Risk
                                \union Readings(agent.sampled)
                                \union IF config.publish_health THEN Health ELSE {}
    BY DEF PublishedIffSampled
  <2> DEFINE enabled == EnabledSensors(config)
             metrics == SinkMetrics(EnabledRedisMetrics(enabled, config.publish_health))
  <2>1. /\ agent.sampled = enabled
        /\ agent.created = IF config.redis.enabled THEN metrics ELSE {}
        /\ agent.written = IF config.redis.enabled
                             THEN AppendMetrics(metrics, config.publish_health) ELSE {}
    BY <1>1 DEF AgentInv
  <2>2. enabled \in SUBSET SensorNames /\ config.publish_health \in BOOLEAN
    BY <1>1 DEF ConfigInv, EnabledSensors
  <2>3. /\ AppendMetrics(metrics, config.publish_health) = metrics
        /\ metrics = Derived \union Risk
                     \union Readings(enabled)
                     \union IF config.publish_health THEN Health ELSE {}
    BY <2>2, ListsAgree
  <2> HIDE DEF enabled, metrics
  <2> QED  BY <2>1, <2>3
<1> QED  BY Inductive, <1>1, PTL

-----------------------------------------------------------------------------
(***************************************************************************)
(* The stack of sections against the indentation.  Both join names along a *)
(* chain: FlattenSeq from each section to the one below it in the stack,   *)
(* Path from each line to its parent.  p[i] is the link before i in the    *)
(* chain, 0 where it starts, and a[i] what i adds.                         *)
(***************************************************************************)
Joins(f, p, a, n) ==
    f = [i \in 1..n |-> IF p[i] = 0 THEN a[i] ELSE f[p[i]] \o a[i]]

\* Every link goes back.
Links(p, n) == \A i \in 1..n : p[i] \in 0..(i - 1)

\* Two chains are the same up to n.
Agree(p, a, q, b, n) == \A i \in 1..n : p[i] = q[i] /\ a[i] = b[i]

\* Every set of naturals has a least element.
LEMMA LeastNat ==
  ASSUME NEW T, T \subseteq Nat, T # {}
  PROVE  \E n \in T : \A m \in T : n <= m
<1>1. PICK n \in T : \A m \in T : <<m, n>> \notin OpToRel(<, Nat)
  BY NatLessThanWellFounded, WFMin
<1>2. \A m \in T : ~(m < n)  BY <1>1 DEF OpToRel
<1> QED  BY <1>2

\* A bounded set of naturals has a greatest element, and LastOf is it.
LEMMA LastOfIs ==
  ASSUME NEW n \in Nat, NEW T, T \subseteq 1..n, T # {}
  PROVE  LastOf(T) \in T /\ \A j \in T : j <= LastOf(T)
<1> DEFINE Bounds == {k \in Nat : \A j \in T : j <= k}
<1>1. n \in Bounds  OBVIOUS
<1>2. PICK k \in Bounds : \A m \in Bounds : k <= m
  <2>1. Bounds \subseteq Nat /\ Bounds # {}  BY <1>1
  <2> HIDE DEF Bounds
  <2> QED  BY <2>1, LeastNat
<1>3. k \in T
  <2> SUFFICES ASSUME k \notin T PROVE FALSE  OBVIOUS
  <2>1. PICK j \in T : j \in 1..n  OBVIOUS
  <2>2. k - 1 \in Nat  BY <1>2, <2>1
  <2>3. \A i \in T : i <= k - 1  BY <1>2
  <2> QED  BY <1>2, <2>2, <2>3
<1>4. \E i \in T : \A j \in T : j <= i  BY <1>2, <1>3
<1> QED  BY <1>4 DEF LastOf

\* One that is above all the others is LastOf.
LEMMA LastOfTop ==
  ASSUME NEW n \in Nat, NEW T, T \subseteq 1..n, NEW m \in T, \A j \in T : j <= m
  PROVE  LastOf(T) = m
<1>1. LastOf(T) \in T /\ m <= LastOf(T)  BY LastOfIs
<1>2. LastOf(T) \in 1..n /\ m \in 1..n /\ LastOf(T) <= m  BY <1>1
<1> QED  BY <1>1, <1>2

\* Names can be joined along any chain that goes back to its start.
LEMMA JoinExists ==
  ASSUME NEW n \in Nat, NEW p, NEW a, Links(p, n)
  PROVE  \E f : Joins(f, p, a, n)
<1> DEFINE Bad == {k \in 0..n : ~\E f : Joins(f, p, a, k)}
<1> SUFFICES ASSUME Bad # {} PROVE FALSE
  <2>1. n \in 0..n  OBVIOUS
  <2> QED  BY <2>1
<1>1. PICK k \in Bad : \A m \in Bad : k <= m
  <2>1. Bad \subseteq Nat  OBVIOUS
  <2> HIDE DEF Bad
  <2> QED  BY <2>1, LeastNat
<1>2. k # 0
  <2> DEFINE e == [i \in 1..0 |-> 0]
  <2>1. e = [i \in 1..0 |-> IF p[i] = 0 THEN a[i] ELSE e[p[i]] \o a[i]]  OBVIOUS
  <2> HIDE DEF e
  <2>2. Joins(e, p, a, 0)  BY <2>1 DEF Joins
  <2> QED  BY <1>1, <2>2
<1>3. k \in 1..n /\ k - 1 \in 0..n  BY <1>1, <1>2
<1>4. PICK f : Joins(f, p, a, k - 1)  BY <1>1, <1>3
<1> DEFINE g == [i \in 1..k |-> IF i = k THEN IF p[k] = 0 THEN a[k] ELSE f[p[k]] \o a[k]
                                ELSE f[i]]
<1>5. \A i \in 1..(k - 1) : g[i] = f[i]  BY <1>3
<1>6. ASSUME NEW i \in 1..k PROVE g[i] = IF p[i] = 0 THEN a[i] ELSE g[p[i]] \o a[i]
  <2>1. p[i] # 0 => p[i] \in 1..(k - 1) /\ p[i] < i  BY <1>3 DEF Links
  <2>2. CASE i = k  BY <1>5, <2>1, <2>2
  <2>3. CASE i # k
    <3>1. i \in 1..(k - 1)  BY <1>3, <2>3
    <3>2. f[i] = IF p[i] = 0 THEN a[i] ELSE f[p[i]] \o a[i]  BY <1>4, <3>1 DEF Joins
    <3> HIDE DEF g
    <3> QED  BY <1>5, <2>1, <3>1, <3>2
  <2> QED  BY <2>2, <2>3
<1>7. g = [i \in 1..k |-> g[i]]  OBVIOUS
<1> HIDE DEF g
<1>8. Joins(g, p, a, k)
  <2>1. g = [i \in 1..k |-> IF p[i] = 0 THEN a[i] ELSE g[p[i]] \o a[i]]  BY <1>6, <1>7
  <2> QED  BY <2>1 DEF Joins
<1> QED  BY <1>1, <1>8

\* What a chain joins up to one of its links depends only on what is before it.
LEMMA JoinUnique ==
  ASSUME NEW n \in Nat, NEW m \in Nat, n <= m,
         NEW f, NEW p, NEW a, Joins(f, p, a, n), Links(p, n),
         NEW g, NEW q, NEW b, Joins(g, q, b, m), Agree(p, a, q, b, n)
  PROVE  \A i \in 1..n : f[i] = g[i]
<1> DEFINE Bad == {i \in 1..n : f[i] # g[i]}
<1> SUFFICES ASSUME Bad # {} PROVE FALSE  OBVIOUS
<1>1. PICK k \in Bad : \A i \in Bad : k <= i
  <2>1. Bad \subseteq Nat  OBVIOUS
  <2> HIDE DEF Bad
  <2> QED  BY <2>1, LeastNat
<1>2. p[k] # 0 => f[p[k]] = g[p[k]]
  <2>1. p[k] # 0 => p[k] \in 1..n /\ p[k] < k  BY <1>1 DEF Links
  <2> QED  BY <1>1, <2>1
<1>3. k \in 1..n /\ k \in 1..m  BY <1>1
<1>4. f[k] = IF p[k] = 0 THEN a[k] ELSE f[p[k]] \o a[k]  BY <1>3 DEF Joins
<1>5. g[k] = IF q[k] = 0 THEN b[k] ELSE g[q[k]] \o b[k]  BY <1>3 DEF Joins
<1>6. f[k] = g[k]  BY <1>2, <1>3, <1>4, <1>5 DEF Agree
<1> QED  BY <1>1, <1>6

\* the chain of a stack: each section is joined to all that is below it
Below(n) == [i \in 1..n |-> i - 1]

\* FlattenSeq joins along that chain.
LEMMA FlattenIs ==
  ASSUME NEW S, NEW s \in Seq(S), Len(s) > 0
  PROVE  \E f : Joins(f, Below(Len(s)), s, Len(s)) /\ FlattenSeq(s) = f[Len(s)]
<1> DEFINE n == Len(s)
           Is(f) == f = [i \in 1..n |-> IF i = 1 THEN s[i] ELSE f[i - 1] \o s[i]]
<1>1. n \in Nat  OBVIOUS
<1> HIDE DEF n
<1>2. ASSUME NEW f PROVE Is(f) <=> Joins(f, Below(n), s, n)
  <2>1. \A i \in 1..n : (IF i = 1 THEN s[i] ELSE f[i - 1] \o s[i])
                      = (IF Below(n)[i] = 0 THEN s[i] ELSE f[Below(n)[i]] \o s[i])
    BY <1>1 DEF Below
  <2> QED  BY <2>1 DEF Joins
<1>3. \E f : Is(f)
  <2>1. Links(Below(n), n)  BY <1>1 DEF Below, Links
  <2>2. \E f : Joins(f, Below(n), s, n)  BY <1>1, <2>1, JoinExists
  <2> HIDE DEF Is
  <2> QED  BY <1>2, <2>2
<1> DEFINE flatten == CHOOSE f : Is(f)
<1>4. Is(flatten)
  <2> HIDE DEF Is
  <2> QED  BY <1>3
<1>5. FlattenSeq(s) = flatten[n]  BY DEF FlattenSeq, n
<1> HIDE DEF Is, flatten
<1>6. Joins(flatten, Below(n), s, n)  BY <1>2, <1>4
<1> QED  BY <1>5, <1>6 DEF n

\* A section on top of the stack adds its key at the end.
LEMMA FlattenAppend ==
  ASSUME NEW S, NEW s \in Seq(Seq(S)), NEW x \in Seq(S)
  PROVE  FlattenSeq(Append(s, x)) = FlattenSeq(s) \o x
<1> DEFINE n == Len(s)
           t == Append(s, x)
<1>1. n \in Nat /\ t \in Seq(Seq(S)) /\ Len(t) = n + 1 /\ Len(t) > 0  OBVIOUS
<1>2. t[n + 1] = x /\ \A i \in 1..n : t[i] = s[i]  OBVIOUS
<1>3. s # <<>> => n > 0  OBVIOUS
<1>s. s \in Seq(Seq(S))  OBVIOUS
<1> HIDE DEF t
<1>4. PICK g : Joins(g, Below(n + 1), t, n + 1) /\ FlattenSeq(t) = g[n + 1]
  BY <1>1, FlattenIs
<1>5. n + 1 \in 1..(n + 1)  BY <1>1
<1>6. g[n + 1] = IF Below(n + 1)[n + 1] = 0 THEN t[n + 1] ELSE g[Below(n + 1)[n + 1]] \o t[n + 1]
  BY <1>4, <1>5 DEF Joins
<1>7. Below(n + 1)[n + 1] = n  BY <1>1, <1>5 DEF Below
<1>8. CASE s = <<>>
  <2>1. FlattenSeq(s) = <<>> /\ n = 0  BY <1>8 DEF FlattenSeq
  <2>2. FlattenSeq(t) = x  BY <1>2, <1>4, <1>6, <1>7, <2>1
  <2>3. <<>> \o x = x  OBVIOUS
  <2> QED  BY <2>1, <2>2, <2>3 DEF t
<1>9. CASE s # <<>>
  <2>1. n > 0  BY <1>3, <1>9
  <2>2. PICK f : Joins(f, Below(n), s, n) /\ FlattenSeq(s) = f[n]
    BY <1>s, <2>1, FlattenIs
  <2>3. Links(Below(n), n)  BY <1>1 DEF Below, Links
  <2>4. Agree(Below(n), s, Below(n + 1), t, n)  BY <1>1, <1>2 DEF Below, Agree
  <2>5. n \in Nat /\ n # 0 /\ n <= n + 1 /\ n + 1 \in Nat /\ n \in 1..n  BY <1>1, <2>1
  <2> HIDE DEF n
  <2>6. \A i \in 1..n : f[i] = g[i]  BY <1>4, <2>2, <2>3, <2>4, <2>5, JoinUnique
  <2>7. f[n] = g[n]  BY <2>5, <2>6
  <2>8. g[n + 1] = g[n] \o x  BY <1>2, <1>6, <1>7, <2>5
  <2> QED  BY <1>4, <2>2, <2>7, <2>8 DEF t
<1> QED  BY <1>8, <1>9

\* the chain of a file: each line is joined to its parent's
Up(file) == [i \in 1..Len(file) |-> IF file[i].depth = 0 THEN 0 ELSE Parent(file, i)]

Names(file) == [i \in 1..Len(file) |-> file[i].key]

\* The parent of an indented line is a line before it.
LEMMA ParentIs ==
  ASSUME NEW file \in Seq(Lines), WellIndented(file), NEW i \in 1..Len(file),
         file[i].depth > 0
  PROVE  /\ Parent(file, i) \in 1..(i - 1)
         /\ file[Parent(file, i)].depth = file[i].depth - 1
         /\ file[Parent(file, i)].value = NoValue
         /\ \A j \in Before(file, i) : j <= Parent(file, i)
<1>1. Before(file, i) # {} /\ Before(file, i) \subseteq 1..(i - 1)
  BY DEF WellIndented, Before
<1>2. Parent(file, i) \in Before(file, i) /\ \A j \in Before(file, i) : j <= Parent(file, i)
  <2>1. i - 1 \in Nat  OBVIOUS
  <2> QED  BY <1>1, <2>1, LastOfIs DEF Parent
<1> QED  BY <1>1, <1>2 DEF WellIndented

\* Path joins along the chain of the file.
LEMMA PathIs ==
  ASSUME NEW file \in Seq(Lines), WellIndented(file)
  PROVE  /\ Joins(Path(file), Up(file), Names(file), Len(file))
         /\ Links(Up(file), Len(file))
         /\ \A i \in 1..Len(file) : Path(file)[i] \in Seq(STRING)
<1> DEFINE n == Len(file)
           Is(f) == f = [i \in 1..n |-> IF file[i].depth = 0 THEN file[i].key
                                        ELSE f[Parent(file, i)] \o file[i].key]
<1>1. n \in Nat  OBVIOUS
<1>2. \A i \in 1..n : file[i] \in Lines  OBVIOUS
<1>3. \A i \in 1..n : file[i].depth \in Nat /\ file[i].key \in Seq(STRING)
  BY <1>2, ConfigAssumption
<1>4. ASSUME NEW i \in 1..n PROVE /\ Up(file)[i] \in 0..(i - 1)
                                  /\ Up(file)[i] = 0 <=> file[i].depth = 0
                                  /\ file[i].depth # 0 => Up(file)[i] = Parent(file, i)
                                  /\ Names(file)[i] = file[i].key
  <2>1. file[i].depth # 0 => Parent(file, i) \in 1..(i - 1)  BY <1>3, ParentIs
  <2>2. Up(file)[i] = IF file[i].depth = 0 THEN 0 ELSE Parent(file, i)  BY DEF Up
  <2>3. Names(file)[i] = file[i].key  BY DEF Names
  <2> QED  BY <2>1, <2>2, <2>3
<1>5. ASSUME NEW f PROVE Is(f) <=> Joins(f, Up(file), Names(file), n)
  <2>1. \A i \in 1..n : (IF file[i].depth = 0 THEN file[i].key
                         ELSE f[Parent(file, i)] \o file[i].key)
                      = (IF Up(file)[i] = 0 THEN Names(file)[i]
                         ELSE f[Up(file)[i]] \o Names(file)[i])
    BY <1>4
  <2> QED  BY <2>1 DEF Joins
<1>6. Is(Path(file))
  <2>1. \E f : Joins(f, Up(file), Names(file), n)
    <3>1. Links(Up(file), n)  BY <1>4 DEF Links
    <3> HIDE DEF n
    <3> QED  BY <1>1, <3>1, JoinExists
  <2> HIDE DEF Is
  <2>2. \E f : Is(f)  BY <1>5, <2>1
  <2>3. Path(file) = CHOOSE f : Is(f)  BY DEF Path, Is
  <2> QED  BY <2>2, <2>3
<1>7. Joins(Path(file), Up(file), Names(file), n)
  <2> HIDE DEF Is
  <2> QED  BY <1>5, <1>6
<1>8. \A i \in 1..n : Path(file)[i] \in Seq(STRING)
  <2> DEFINE Bad == {i \in 1..n : Path(file)[i] \notin Seq(STRING)}
  <2> SUFFICES ASSUME Bad # {} PROVE FALSE  OBVIOUS
  <2>1. PICK k \in Bad : \A i \in Bad : k <= i
    <3>1. Bad \subseteq Nat  OBVIOUS
    <3> HIDE DEF Bad
    <3> QED  BY <3>1, LeastNat
  <2>2. k \in 1..n  BY <2>1
  <2>3. Path(file)[k] = IF Up(file)[k] = 0 THEN Names(file)[k]
                        ELSE Path(file)[Up(file)[k]] \o Names(file)[k]
    BY <1>7, <2>2 DEF Joins
  <2>4. Up(file)[k] # 0 => Path(file)[Up(file)[k]] \in Seq(STRING)
    <3>1. Up(file)[k] \in 0..(k - 1)  BY <1>4, <2>2
    <3>2. Up(file)[k] # 0 => Up(file)[k] \in 1..n /\ Up(file)[k] < k  BY <1>1, <2>2, <3>1
    <3> QED  BY <2>1, <2>2, <3>2
  <2>5. Names(file)[k] \in Seq(STRING)  BY <1>3, <1>4, <2>2
  <2>6. Path(file)[k] \in Seq(STRING)
    <3>1. CASE Up(file)[k] = 0  BY <2>3, <2>5, <3>1
    <3>2. CASE Up(file)[k] # 0
      <4>1. Path(file)[k] = Path(file)[Up(file)[k]] \o Names(file)[k]  BY <2>3, <3>2
      <4>2. \A u, w \in Seq(STRING) : u \o w \in Seq(STRING)  BY ConcatProperties
      <4> QED  BY <2>4, <2>5, <3>2, <4>1, <4>2
    <3> QED  BY <3>1, <3>2
  <2> QED  BY <2>1, <2>6
<1>9. Links(Up(file), n)  BY <1>4 DEF Links
<1> QED  BY <1>7, <1>8, <1>9

\* Another line changes nothing in what the lines before it mean.
LEMMA PathGrows ==
  ASSUME NEW file \in Seq(Lines), NEW l \in Lines,
         NEW long, long = Append(file, l), WellIndented(long)
  PROVE  /\ WellIndented(file)
         /\ \A i \in 1..Len(file) : Path(long)[i] = Path(file)[i]
         /\ Path(long)[Len(file) + 1] =
              IF l.depth = 0 THEN l.key
              ELSE Path(file)[Parent(long, Len(file) + 1)] \o l.key
         /\ Path(long)[Len(file) + 1] \in Seq(STRING)
<1> DEFINE n == Len(file)
<1>1. /\ n \in Nat /\ long \in Seq(Lines) /\ Len(long) = n + 1
      /\ long[n + 1] = l /\ \A i \in 1..n : long[i] = file[i]
  OBVIOUS
<1>t. file \in Seq(Lines) /\ \A i \in 1..(n + 1) : long[i] \in Lines  BY <1>1
<1>d. \A i \in 1..(n + 1) : long[i].depth \in Nat  BY <1>t, ConfigAssumption
<1>2. ASSUME NEW i \in 1..n PROVE Before(long, i) = Before(file, i)
  BY <1>1 DEF Before
<1>3. ASSUME NEW i \in 1..n PROVE Parent(long, i) = Parent(file, i)
  BY <1>2 DEF Parent
<1>4. ASSUME NEW i \in 1..(n + 1), long[i].depth > 0
      PROVE  Parent(long, i) \in 1..(i - 1) /\ Parent(long, i) \in 1..n
  <2>1. Parent(long, i) \in 1..(i - 1)
    <3>1. i \in 1..Len(long)  BY <1>1
    <3> QED  BY <1>1, <1>4, <3>1, ParentIs
  <2> QED  BY <1>1, <2>1
<1>5. WellIndented(file)
  <2> SUFFICES ASSUME NEW i \in 1..n, file[i].depth > 0
               PROVE  /\ Before(file, i) # {}
                      /\ file[Parent(file, i)].value = NoValue
                      /\ file[Parent(file, i)].depth = file[i].depth - 1
    BY DEF WellIndented
  <2>1. i \in 1..Len(long) /\ long[i] = file[i] /\ long[i].depth > 0  BY <1>1
  <2>2. /\ Before(long, i) # {}
        /\ long[Parent(long, i)].value = NoValue
        /\ long[Parent(long, i)].depth = long[i].depth - 1
    BY <2>1 DEF WellIndented
  <2>3. long[Parent(long, i)] = file[Parent(long, i)]  BY <1>1, <1>4, <2>1
  <2> QED  BY <1>2, <1>3, <2>1, <2>2, <2>3
<1> HIDE DEF n
<1>6. /\ Joins(Path(file), Up(file), Names(file), n) /\ Links(Up(file), n)
  BY <1>t, <1>5, PathIs DEF n
<1>7. Joins(Path(long), Up(long), Names(long), n + 1) /\ Path(long)[n + 1] \in Seq(STRING)
  <2>1. n + 1 \in 1..(n + 1)  BY <1>1
  <2> QED  BY <1>1, <2>1, PathIs
<1>8. Agree(Up(file), Names(file), Up(long), Names(long), n)
  <2>1. \A i \in 1..n : i \in 1..(n + 1)  BY <1>1
  <2> QED  BY <1>1, <1>3, <2>1 DEF Agree, Up, Names, n
<1>9. \A i \in 1..n : Path(long)[i] = Path(file)[i]
  <2>1. n \in Nat /\ n + 1 \in Nat /\ n <= n + 1  BY <1>1
  <2>2. \A i \in 1..n : Path(file)[i] = Path(long)[i]  BY <1>6, <1>7, <1>8, <2>1, JoinUnique
  <2> QED  BY <2>2
<1>10. Path(long)[n + 1] = IF l.depth = 0 THEN l.key ELSE Path(file)[Parent(long, n + 1)] \o l.key
  <2>1. n + 1 \in 1..(n + 1)  BY <1>1
  <2>2. Up(long)[n + 1] = IF l.depth = 0 THEN 0 ELSE Parent(long, n + 1)  BY <1>1, <2>1 DEF Up
  <2>3. Names(long)[n + 1] = l.key  BY <1>1, <2>1 DEF Names
  <2>4. Path(long)[n + 1] = IF Up(long)[n + 1] = 0 THEN Names(long)[n + 1]
                            ELSE Path(long)[Up(long)[n + 1]] \o Names(long)[n + 1]
    BY <1>7, <2>1 DEF Joins
  <2>5. CASE l.depth = 0  BY <2>2, <2>3, <2>4, <2>5
  <2>6. CASE l.depth # 0
    <3>1. l.depth > 0  BY <1>1, <1>d, <2>1, <2>6
    <3>2. Parent(long, n + 1) \in 1..n  BY <1>1, <1>4, <2>1, <3>1
    <3>3. Parent(long, n + 1) # 0  BY <1>1, <3>2
    <3> QED  BY <1>9, <2>2, <2>3, <2>4, <2>6, <3>2, <3>3
  <2> QED  BY <2>5, <2>6
<1> QED  BY <1>5, <1>7, <1>9, <1>10 DEF n

\* The last line is a setting of this key.
Sets(file, key, kinds) ==
    file[Len(file)].value.kind \in kinds \ {"none"} /\ Path(file)[Len(file)] = key

\* The last line sets a key, or leaves it as it was.
LastFollows(file, l, long, key, kinds, default) ==
    /\ Sets(long, key, kinds) =>
         /\ Settings(long, key, kinds) # {}
         /\ LastValue(long, key, kinds, default) = l.value
    /\ ~Sets(long, key, kinds) =>
         /\ Settings(long, key, kinds) = Settings(file, key, kinds)
         /\ LastValue(long, key, kinds, default) = LastValue(file, key, kinds, default)

\* The last value of a key changes only with a line that sets it.
LEMMA LastGrows ==
  ASSUME NEW file \in Seq(Lines), NEW l \in Lines,
         NEW long, long = Append(file, l), WellIndented(long),
         NEW key, NEW kinds, NEW default
  PROVE  LastFollows(file, l, long, key, kinds, default)
<1> DEFINE n == Len(file)
           old == Settings(file, key, kinds)
           new == Settings(long, key, kinds)
<1>1. /\ n \in Nat /\ Len(long) = n + 1
      /\ long[n + 1] = l /\ \A i \in 1..n : long[i] = file[i]
  OBVIOUS
<1>2. \A i \in 1..n : Path(long)[i] = Path(file)[i]  BY PathGrows
<1>3. new \subseteq 1..(n + 1) /\ old \subseteq 1..n  BY <1>1 DEF Settings
<1>4. \A i \in 1..n : i \in new <=> i \in old  BY <1>1, <1>2 DEF Settings
<1>5. n + 1 \in new <=> Sets(long, key, kinds)  BY <1>1 DEF Settings, Sets
<1>6. /\ LastValue(long, key, kinds, default) =
           IF new = {} THEN default ELSE long[LastOf(new)].value
      /\ LastValue(file, key, kinds, default) =
           IF old = {} THEN default ELSE file[LastOf(old)].value
  BY DEF LastValue
<1> HIDE DEF n, old, new
<1>7. ASSUME Sets(long, key, kinds)
      PROVE  new # {} /\ LastValue(long, key, kinds, default) = l.value
  <2>1. n + 1 \in new  BY <1>5, <1>7
  <2>2. \A j \in new : j <= n + 1  BY <1>1, <1>3
  <2>3. LastOf(new) = n + 1
    <3>1. n + 1 \in Nat  BY <1>1
    <3> QED  BY <1>3, <2>1, <2>2, <3>1, LastOfTop
  <2> QED  BY <1>1, <1>6, <1>7, <2>1, <2>3 DEF new
<1>8. ASSUME ~Sets(long, key, kinds)
      PROVE  /\ new = old
             /\ LastValue(long, key, kinds, default) = LastValue(file, key, kinds, default)
  <2>1. new = old
    <3>1. new \subseteq 1..n  BY <1>1, <1>3, <1>5, <1>8
    <3> QED  BY <1>3, <1>4, <3>1
  <2>2. CASE old = {}  BY <1>6, <1>8, <2>1, <2>2 DEF old, new
  <2>3. CASE old # {}
    <3>1. LastOf(old) \in 1..n  BY <1>1, <1>3, <2>3, LastOfIs
    <3>2. long[LastOf(old)] = file[LastOf(old)]  BY <1>1, <3>1
    <3> QED  BY <1>6, <1>8, <2>1, <3>2 DEF old, new
  <2> QED  BY <2>2, <2>3
<1> QED  BY <1>7, <1>8 DEF LastFollows, old, new

\* What was read, and the keys of the sections left open.
FileInv == lines \in Seq(Lines) /\ sections \in Seq(Seq(STRING))

\* A section that no line has ended yet is on the stack at its depth, above
\* those it is in.
OpenSections ==
    \A m \in 1..Len(lines) :
        /\ lines[m].value = NoValue
        /\ \A j \in (m + 1)..Len(lines) : lines[j].depth > lines[m].depth
        => /\ lines[m].depth < Len(sections)
           /\ FlattenSeq(SubSeq(sections, 1, lines[m].depth + 1)) = Path(lines)[m]

\* The sections a line leaves open.
LEMMA EnclosingIs ==
  ASSUME FileInv, NEW d \in Nat
  PROVE  /\ Enclosing(d) \in Seq(Seq(STRING))
         /\ Len(Enclosing(d)) = Least(Len(sections), d)
         /\ \A i \in 1..Len(Enclosing(d)) : Enclosing(d)[i] = sections[i]
  BY DEF FileInv, Enclosing, Least

\* The key that the code puts together is the path of the line.
LEMMA KeyIsPath ==
  ASSUME FileInv, OpenSections, NEW l \in Lines,
         NEW long, long = Append(lines, l), WellIndented(long)
  PROVE  /\ Len(Enclosing(l.depth)) = l.depth
         /\ FlattenSeq(Enclosing(l.depth)) \o l.key = Path(long)[Len(lines) + 1]
<1> DEFINE n == Len(lines)
           d == l.depth
<1>1. /\ n \in Nat /\ long \in Seq(Lines) /\ Len(long) = n + 1
      /\ long[n + 1] = l /\ \A i \in 1..n : long[i] = lines[i]
  BY DEF FileInv
<1>2. d \in Nat /\ l.key \in Seq(STRING) /\ \A i \in 1..n : lines[i].depth \in Nat
  <2>1. \A i \in 1..n : lines[i] \in Lines  BY DEF FileInv
  <2> QED  BY <2>1, ConfigAssumption
<1>3. Path(long)[n + 1] = IF d = 0 THEN l.key ELSE Path(lines)[Parent(long, n + 1)] \o l.key
  BY PathGrows DEF FileInv
<1>4. CASE d = 0
  <2>1. Enclosing(d) = <<>>  BY <1>2, <1>4, EnclosingIs DEF Least, FileInv
  <2>2. FlattenSeq(<<>>) = <<>>  BY DEF FlattenSeq
  <2>3. <<>> \o l.key = l.key  BY <1>2
  <2> QED  BY <1>3, <1>4, <2>1, <2>2, <2>3
<1>5. CASE d # 0
  <2> DEFINE p == Parent(long, n + 1)
  <2>1. n + 1 \in 1..Len(long) /\ long[n + 1].depth > 0  BY <1>1, <1>2, <1>5
  <2>2. /\ p \in 1..n
        /\ long[p].depth = d - 1
        /\ long[p].value = NoValue
        /\ \A j \in Before(long, n + 1) : j <= p
    <3>1. (n + 1) - 1 = n  BY <1>1
    <3> QED  BY <1>1, <2>1, <3>1, ParentIs
  <2> HIDE DEF p
  <2>3. lines[p].depth = d - 1 /\ lines[p].value = NoValue  BY <1>1, <2>2
  <2>4. ASSUME NEW j \in (p + 1)..n PROVE lines[j].depth > lines[p].depth
    <3>1. j \in 1..n /\ ~(j <= p)  BY <1>1, <2>2
    <3>2. j \notin Before(long, n + 1)  BY <2>2, <3>1
    <3>3. ~(lines[j].depth < d)  BY <1>1, <3>1, <3>2 DEF Before
    <3> QED  BY <1>2, <2>3, <3>1, <3>3
  <2>5. /\ lines[p].depth < Len(sections)
        /\ FlattenSeq(SubSeq(sections, 1, lines[p].depth + 1)) = Path(lines)[p]
    BY <2>2, <2>3, <2>4 DEF OpenSections
  <2>6. lines[p].depth + 1 = d /\ d <= Len(sections)  BY <1>2, <2>3, <2>5 DEF FileInv
  <2>7. Least(Len(sections), d) = d  BY <1>2, <2>6 DEF Least, FileInv
  <2>8. Enclosing(d) = SubSeq(sections, 1, d)  BY <2>7 DEF Enclosing
  <2>9. Len(Enclosing(d)) = d  BY <1>2, <2>7, EnclosingIs
  <2> QED  BY <1>3, <1>5, <2>5, <2>6, <2>8, <2>9 DEF p
<1> QED  BY <1>4, <1>5

\* A line keeps the sections above its depth and, if it opens one, adds it.
LEMMA StackKeeps ==
  ASSUME FileInv, OpenSections, NEW l \in Lines, ReadLine(l), WellIndented(lines')
  PROVE  /\ OpenSections'
         /\ l.value = NoValue => pc' = pc /\ wild' = wild
<1> DEFINE n == Len(lines)
           d == l.depth
           enc == Enclosing(d)
<1>1. /\ lines' = Append(lines, l) /\ n \in Nat /\ Len(lines') = n + 1
      /\ lines'[n + 1] = l /\ \A i \in 1..n : lines'[i] = lines[i]
  BY DEF ReadLine, FileInv
<1>2. d \in Nat /\ l.key \in Seq(STRING) /\ \A i \in 1..n : lines[i].depth \in Nat
  <2>1. \A i \in 1..n : lines[i] \in Lines  BY DEF FileInv
  <2> QED  BY <2>1, ConfigAssumption
<1>3. /\ Len(enc) = d
      /\ FlattenSeq(enc) \o l.key = Path(lines')[n + 1]
  BY <1>1, KeyIsPath
<1>4. \A i \in 1..n : Path(lines')[i] = Path(lines)[i]
  BY <1>1, PathGrows DEF FileInv
<1>5. /\ enc \in Seq(Seq(STRING))
      /\ d <= Len(sections)
      /\ \A i \in 1..d : enc[i] = sections[i]
  <2>1. FileInv  OBVIOUS
  <2>2. /\ enc \in Seq(Seq(STRING))
        /\ d = Least(Len(sections), d)
        /\ \A i \in 1..Len(enc) : enc[i] = sections[i]
    BY <1>2, <1>3, <2>1, EnclosingIs
  <2>3. d <= Len(sections)  BY <1>2, <2>2 DEF Least, FileInv
  <2> QED  BY <1>3, <2>2, <2>3
<1>6. /\ l.value = NoValue => sections' = Append(enc, l.key) /\ pc' = pc /\ wild' = wild
      /\ l.value # NoValue => sections' = enc
  BY <1>3 DEF ReadLine, OpenSection, ApplyLine
<1>7. /\ sections' \in Seq(Seq(STRING)) /\ Len(sections') >= d
      /\ \A i \in 1..d : sections'[i] = sections[i]
  <2> HIDE DEF enc, d
  <2>1. CASE l.value = NoValue
    <3>1. /\ Append(enc, l.key) \in Seq(Seq(STRING))
          /\ Len(Append(enc, l.key)) = d + 1
          /\ \A i \in 1..d : Append(enc, l.key)[i] = enc[i]
      BY <1>2, <1>3, <1>5, AppendProperties
    <3>2. sections' = Append(enc, l.key)  BY <1>6, <2>1
    <3>3. /\ sections' \in Seq(Seq(STRING))
          /\ Len(sections') = d + 1
          /\ \A i \in 1..d : sections'[i] = enc[i]
      BY <3>1, <3>2, Zenon
    <3>4. Len(sections') >= d  BY <1>2, <3>3
    <3> QED  BY <1>5, <3>3, <3>4
  <2>2. CASE l.value # NoValue  BY <1>2, <1>3, <1>5, <1>6, <2>2
  <2> QED  BY <2>1, <2>2
<1>8. ASSUME NEW m \in 1..Len(lines'), lines'[m].value = NoValue,
             \A j \in (m + 1)..Len(lines') : lines'[j].depth > lines'[m].depth
      PROVE  /\ lines'[m].depth < Len(sections')
             /\ FlattenSeq(SubSeq(sections', 1, lines'[m].depth + 1)) = Path(lines')[m]
  <2>1. CASE m = n + 1
    <3>1. lines'[m] = l /\ sections' = Append(enc, l.key)  BY <1>1, <1>6, <1>8, <2>1
    <3>2. Len(sections') = d + 1
      <4> HIDE DEF enc, d
      <4> QED  BY <1>2, <1>3, <1>5, <3>1
    <3>3. SubSeq(sections', 1, d + 1) = sections'
      <4> HIDE DEF enc, d
      <4> QED  BY <1>2, <1>7, <3>2
    <3>4. FlattenSeq(sections') = FlattenSeq(enc) \o l.key
      <4> HIDE DEF enc
      <4> QED  BY <1>2, <1>5, <3>1, FlattenAppend
    <3> HIDE DEF n, d, enc
    <3>5. lines'[m].depth = d  BY <3>1 DEF d
    <3>6. d < Len(sections')  BY <1>2, <3>2
    <3> QED  BY <1>3, <2>1, <3>3, <3>4, <3>5, <3>6
  <2>2. CASE m # n + 1
    <3> DEFINE e == lines[m].depth
    <3>1. m \in 1..n /\ lines'[m] = lines[m]  BY <1>1, <2>2
    <3>2. e \in Nat /\ e < d
      <4>1. n + 1 \in (m + 1)..Len(lines')  BY <1>1, <3>1
      <4>2. lines'[n + 1].depth > lines'[m].depth  BY <1>8, <4>1
      <4> QED  BY <1>1, <1>2, <3>1, <4>2
    <3>3. \A j \in (m + 1)..n : lines[j].depth > lines[m].depth
      <4>1. \A j \in (m + 1)..n : j \in (m + 1)..Len(lines') /\ j \in 1..n  BY <1>1, <3>1
      <4> QED  BY <1>1, <1>8, <3>1, <4>1
    <3>4. FlattenSeq(SubSeq(sections, 1, e + 1)) = Path(lines)[m]
      BY <1>8, <3>1, <3>3 DEF OpenSections
    <3>5. SubSeq(sections', 1, e + 1) = SubSeq(sections, 1, e + 1)
      <4>1. sections \in Seq(Seq(STRING))  BY DEF FileInv
      <4> HIDE DEF e, d, enc
      <4>2. e + 1 \in Nat /\ e + 1 <= d /\ e + 1 <= Len(sections) /\ e + 1 <= Len(sections')
        BY <1>2, <1>5, <1>7, <3>2, <4>1
      <4>3. \A i \in 1..(e + 1) : sections'[i] = sections[i]  BY <1>2, <1>7, <4>2
      <4> QED  BY <1>7, <4>1, <4>2, <4>3
    <3>6. e < Len(sections')  BY <1>2, <1>7, <3>2
    <3> QED  BY <1>4, <3>1, <3>4, <3>5, <3>6
  <2> QED  BY <2>1, <2>2
<1>9. OpenSections'  BY <1>8 DEF OpenSections
<1> QED  BY <1>6, <1>9

\* A line that opens a section sets nothing.
LEMMA SectionSays ==
  ASSUME NEW file \in Seq(Lines), NEW l \in Lines,
         NEW long, long = Append(file, l), WellIndented(long),
         l.value = NoValue, NEW c, Says(file, c)
  PROVE  Says(long, c)
<1>1. ASSUME NEW key, NEW kinds PROVE ~Sets(long, key, kinds)
  <2>1. long[Len(long)] = l  OBVIOUS
  <2>2. l.value.kind = "none"  BY DEF NoValue
  <2> QED  BY <2>1, <2>2 DEF Sets
<1>2. ASSUME NEW key, NEW kinds, NEW default
      PROVE  /\ Settings(long, key, kinds) = Settings(file, key, kinds)
             /\ LastValue(long, key, kinds, default) = LastValue(file, key, kinds, default)
  <2>1. LastFollows(file, l, long, key, kinds, default)  BY LastGrows
  <2> QED  BY <1>1, <2>1 DEF LastFollows
<1>3. ASSUME NEW key PROVE LastBool(long, key) = LastBool(file, key)
  BY <1>2 DEF LastBool
<1>4. AddressSays(long, c.redis)
  <2>1. AddressSays(file, c.redis)  BY DEF Says
  <2>2. /\ LastValue(long, Address, Kinds, DefaultAddress) =
             LastValue(file, Address, Kinds, DefaultAddress)
        /\ LastValue(long, Address, {"unix", "hostport"}, NoValue) =
             LastValue(file, Address, {"unix", "hostport"}, NoValue)
    BY <1>2
  <2> QED  BY <2>1, <2>2 DEF AddressSays
<1>5. /\ c.tick_interval = 1000 \div LastValue(long, TickRate, Kinds, Float(10)).n
      /\ c.throttle = LastValue(long, ThrottleTemp, Kinds, Float(85))
      /\ c.window = LastValue(long, WarningWindow, Kinds, Float(30))
      /\ c.device = LastValue(long, DeviceIndex, Kinds, Float(0)).n % Width
      /\ c.redis.enabled = (Settings(long, Address, Kinds) # {})
  <2>1. /\ LastValue(long, TickRate, Kinds, Float(10)) = LastValue(file, TickRate, Kinds, Float(10))
        /\ LastValue(long, ThrottleTemp, Kinds, Float(85)) =
             LastValue(file, ThrottleTemp, Kinds, Float(85))
        /\ LastValue(long, WarningWindow, Kinds, Float(30)) =
             LastValue(file, WarningWindow, Kinds, Float(30))
        /\ LastValue(long, DeviceIndex, Kinds, Float(0)) = LastValue(file, DeviceIndex, Kinds, Float(0))
        /\ Settings(long, Address, Kinds) = Settings(file, Address, Kinds)
    BY <1>2
  <2>2. /\ c.tick_interval = 1000 \div LastValue(file, TickRate, Kinds, Float(10)).n
        /\ c.throttle = LastValue(file, ThrottleTemp, Kinds, Float(85))
        /\ c.window = LastValue(file, WarningWindow, Kinds, Float(30))
        /\ c.device = LastValue(file, DeviceIndex, Kinds, Float(0)).n % Width
    BY DEF Says
  <2>3. c.redis.enabled = (Settings(file, Address, Kinds) # {})  BY Zenon DEF Says
  <2>4. c.redis.enabled = (Settings(long, Address, Kinds) # {})  BY <2>1, <2>3, Zenon
  <2> QED  BY <2>1, <2>2, <2>4
<1>6. /\ c.publish_health = LastBool(long, PublishHealth)
      /\ c.stdout_debug = LastBool(long, StdoutDebug)
  <2>1. /\ LastBool(long, PublishHealth) = LastBool(file, PublishHealth)
        /\ LastBool(long, StdoutDebug) = LastBool(file, StdoutDebug)
    BY <1>3
  <2>2. /\ c.publish_health = LastBool(file, PublishHealth)
        /\ c.stdout_debug = LastBool(file, StdoutDebug)
    BY Zenon DEF Says
  <2> QED  BY <2>1, <2>2, Zenon
<1>7. EnabledSensors(c) = {s \in SensorNames : LastBool(long, <<"sensors", s>>)}
  <2>1. \A s \in SensorNames : LastBool(long, <<"sensors", s>>) = LastBool(file, <<"sensors", s>>)
    BY <1>3
  <2>2. {s \in SensorNames : LastBool(long, <<"sensors", s>>)}
          = {s \in SensorNames : LastBool(file, <<"sensors", s>>)}
    BY <2>1, Zenon
  <2>3. EnabledSensors(c) = {s \in SensorNames : LastBool(file, <<"sensors", s>>)}
    BY Zenon DEF Says
  <2> QED  BY <2>2, <2>3, Zenon
<1> QED  BY <1>4, <1>5, <1>6, <1>7, Zenon DEF Says

\* A switch of the code is one for this sensor exactly if it is written
\* sensors.<name>.
LEMMA SwitchIs ==
  ASSUME NEW key \in Seq(STRING), NEW s
  PROVE  IsSwitch(key) /\ Tail(key) = <<s>> <=> key = <<"sensors", s>>
<1>1. ASSUME IsSwitch(key), Tail(key) = <<s>> PROVE key = <<"sensors", s>>
  <2>1. Len(key) > 1 /\ key[1] = "sensors" /\ Len(key) \in Nat  BY <1>1 DEF IsSwitch
  <2> DEFINE t == Tail(key)
  <2>2. Len(t) = Len(key) - 1 /\ \A i \in 1..(Len(key) - 1) : t[i] = key[i + 1]  BY <2>1
  <2>3. Len(<<s>>) = 1 /\ <<s>>[1] = s  OBVIOUS
  <2>4. Len(key) = 2
    <3>1. Len(key) - 1 = 1  BY <1>1, <2>2, <2>3, Zenon
    <3> QED  BY <2>1, <3>1
  <2>5. key[2] = s
    <3>1. 1 \in 1..(Len(key) - 1) /\ 1 + 1 = 2  BY <2>4
    <3>2. t[1] = key[2]  BY <2>2, <3>1
    <3> QED  BY <1>1, <2>3, <3>2, Zenon
  <2> QED  BY <2>1, <2>4, <2>5
<1>2. ASSUME key = <<"sensors", s>> PROVE IsSwitch(key) /\ Tail(key) = <<s>>
  BY <1>2 DEF IsSwitch
<1> QED  BY <1>1, <1>2

\* A setting that is accepted sets what its path says and nothing else.
LEMMA SettingSays ==
  ASSUME NEW file \in Seq(Lines), NEW l \in Lines,
         NEW long, long = Append(file, l), WellIndented(long),
         l.value # NoValue, NEW c, Says(file, c),
         NEW key, key = Path(long)[Len(file) + 1], ~Rejects(key, l.value)
  PROVE  Says(long, Apply(c, key, l.value))
<1> DEFINE v == l.value
           after == Apply(c, key, v)
<1>1. Len(long) = Len(file) + 1 /\ long[Len(long)] = l  OBVIOUS
<1>2. v.kind \in Kinds \ {"none"} /\ key \in Seq(STRING)
  BY ConfigAssumption, PathGrows
<1>3. ASSUME NEW k, NEW kinds PROVE Sets(long, k, kinds) <=> v.kind \in kinds /\ key = k
  BY <1>1, <1>2 DEF Sets
<1>4. ASSUME NEW k, NEW kinds, NEW default
      PROVE  /\ v.kind \in kinds /\ key = k =>
                  /\ Settings(long, k, kinds) # {}
                  /\ LastValue(long, k, kinds, default) = v
             /\ ~(v.kind \in kinds /\ key = k) =>
                  /\ Settings(long, k, kinds) = Settings(file, k, kinds)
                  /\ LastValue(long, k, kinds, default) = LastValue(file, k, kinds, default)
  <2>1. LastFollows(file, l, long, k, kinds, default)  BY LastGrows
  <2> QED  BY <1>3, <2>1 DEF LastFollows
<1>5. ASSUME NEW k, NEW default
      PROVE  /\ key = k => /\ Settings(long, k, Kinds) # {}
                           /\ LastValue(long, k, Kinds, default) = v
             /\ key # k => /\ Settings(long, k, Kinds) = Settings(file, k, Kinds)
                           /\ LastValue(long, k, Kinds, default) =
                                LastValue(file, k, Kinds, default)
  BY <1>2, <1>4
<1>6. ASSUME NEW k
      PROVE  LastBool(long, k) = IF key = k THEN ParseBool(v) ELSE LastBool(file, k)
  <2>1. CASE key = k
    <3>1. Settings(long, k, Kinds) # {} /\ LastValue(long, k, Kinds, NoValue) = v  BY <1>5, <2>1
    <3> HIDE DEF v
    <3> QED  BY <2>1, <3>1 DEF LastBool, ParseBool
  <2>2. CASE key # k
    <3>1. /\ Settings(long, k, Kinds) = Settings(file, k, Kinds)
          /\ LastValue(long, k, Kinds, NoValue) = LastValue(file, k, Kinds, NoValue)
      BY <1>5, <2>2
    <3> QED  BY <2>2, <3>1 DEF LastBool, ParseBool
  <2> QED  BY <2>1, <2>2
<1> HIDE DEF v
<1>7. after.tick_interval = 1000 \div LastValue(long, TickRate, Kinds, Float(10)).n
  <2>1. after.tick_interval = IF key = TickRate THEN 1000 \div v.n ELSE c.tick_interval
    BY DEF Apply
  <2> QED  BY <1>5, <2>1 DEF Says
<1>8. /\ after.throttle = LastValue(long, ThrottleTemp, Kinds, Float(85))
      /\ after.window = LastValue(long, WarningWindow, Kinds, Float(30))
  BY <1>5 DEF Apply, Says
<1>9. after.device = LastValue(long, DeviceIndex, Kinds, Float(0)).n % Width
  <2>1. after.device = IF key = DeviceIndex THEN v.n % Width ELSE c.device  BY DEF Apply
  <2> QED  BY <1>5, <2>1 DEF Says
<1>10. /\ after.publish_health = LastBool(long, PublishHealth)
       /\ after.stdout_debug = LastBool(long, StdoutDebug)
  BY <1>6 DEF Apply, Says
<1>11. after.redis.enabled = (Settings(long, Address, Kinds) # {})
  <2>1. CASE key = Address
    <3>1. after.redis = ApplyAddress(c.redis, v)  BY <2>1 DEF Apply
    <3>2. after.redis.enabled = TRUE  BY <3>1 DEF ApplyAddress
    <3>3. Settings(long, Address, Kinds) # {}  BY <1>5, <2>1
    <3> HIDE DEF after
    <3> QED  BY <3>2, <3>3
  <2>2. CASE key # Address
    <3>1. after.redis = c.redis  BY <2>2 DEF Apply
    <3>2. Settings(long, Address, Kinds) = Settings(file, Address, Kinds)  BY <1>5, <2>2
    <3> HIDE DEF after
    <3> QED  BY <3>1, <3>2 DEF Says
  <2> QED  BY <2>1, <2>2
<1>12. AddressSays(long, after.redis)
  <2>1. CASE key = Address
    <3>1. after.redis = ApplyAddress(c.redis, v)  BY <2>1 DEF Apply
    <3>2. /\ after.redis.unix_socket = IF v.kind = "unix" THEN v.n ELSE 0
          /\ after.redis.host = IF v.kind = "unix" THEN 0
                                ELSE IF v.kind = "hostport" THEN 2 ELSE v.n
          /\ after.redis.port = IF v.kind = "unix" THEN 0
                                ELSE IF v.kind = "hostport" THEN v.n ELSE c.redis.port
      BY <3>1 DEF ApplyAddress
    <3>3. LastValue(long, Address, Kinds, DefaultAddress) = v  BY <1>5, <2>1
    <3>4. LastValue(long, Address, {"unix", "hostport"}, NoValue) =
            IF v.kind \in {"unix", "hostport"} THEN v
            ELSE LastValue(file, Address, {"unix", "hostport"}, NoValue)
      BY <1>4, <2>1
    <3>5. AddressSays(file, c.redis)  BY DEF Says
    <3> HIDE DEF after
    <3> QED  BY <3>2, <3>3, <3>4, <3>5 DEF AddressSays
  <2>2. CASE key # Address
    <3>1. after.redis = c.redis  BY <2>2 DEF Apply
    <3>2. LastValue(long, Address, Kinds, DefaultAddress) =
            LastValue(file, Address, Kinds, DefaultAddress)
      BY <1>5, <2>2
    <3>3. LastValue(long, Address, {"unix", "hostport"}, NoValue) =
            LastValue(file, Address, {"unix", "hostport"}, NoValue)
      BY <1>4, <2>2
    <3>4. AddressSays(file, c.redis)  BY DEF Says
    <3> HIDE DEF after
    <3> QED  BY <3>1, <3>2, <3>3, <3>4 DEF AddressSays
  <2> QED  BY <2>1, <2>2
<1>13. EnabledSensors(after) = {s \in SensorNames : LastBool(long, <<"sensors", s>>)}
  <2>1. ASSUME NEW s \in SensorNames
        PROVE  (<<s>> \in DOMAIN after.sensor_enabled => after.sensor_enabled[<<s>>])
               <=> LastBool(long, <<"sensors", s>>)
    <3> DEFINE old == c.sensor_enabled
               new == after.sensor_enabled
    <3>1. (<<s>> \in DOMAIN old => old[<<s>>]) <=> LastBool(file, <<"sensors", s>>)
      BY DEF Says, EnabledSensors
    <3>3. new = IF IsSwitch(key) THEN With(old, Tail(key), ParseBool(v)) ELSE old
      BY DEF Apply
    <3>4. CASE key = <<"sensors", s>>
      <4>1. IsSwitch(key) /\ Tail(key) = <<s>>  BY <1>2, <3>4, SwitchIs
      <4>2. <<s>> \in DOMAIN new /\ new[<<s>>] = ParseBool(v)  BY <3>3, <4>1 DEF With
      <4>3. LastBool(long, <<"sensors", s>>) = ParseBool(v)  BY <1>6, <3>4
      <4> QED  BY <4>2, <4>3
    <3>5. CASE key # <<"sensors", s>>
      <4>1. ~(IsSwitch(key) /\ Tail(key) = <<s>>)  BY <1>2, <3>5, SwitchIs
      <4>2. LastBool(long, <<"sensors", s>>) = LastBool(file, <<"sensors", s>>)  BY <1>6, <3>5
      <4>3. /\ <<s>> \in DOMAIN new <=> <<s>> \in DOMAIN old
            /\ <<s>> \in DOMAIN old => new[<<s>>] = old[<<s>>]
        BY <3>3, <4>1 DEF With
      <4> QED  BY <3>1, <4>2, <4>3
    <3> QED  BY <3>4, <3>5
  <2> QED  BY <2>1 DEF EnabledSensors
<1> HIDE DEF after
<1>14. Says(long, after)  BY <1>7, <1>8, <1>9, <1>10, <1>11, <1>12, <1>13 DEF Says
<1> QED  BY <1>14 DEF after, v

\* The stack follows the indentation as long as the file does.
StackInv == WellIndented(lines) => OpenSections

NestInv == FileInv /\ StackInv /\ NestingMatchesIndentation

\* A line is typed, and so are the sections it leaves.
LEMMA FileKeeps ==
  ASSUME FileInv, NEW l \in Lines, ReadLine(l)
  PROVE  FileInv'
<1> DEFINE enc == Enclosing(l.depth)
<1>1. lines' = Append(lines, l) /\ l.depth \in Nat /\ l.key \in Seq(STRING)
  BY ConfigAssumption DEF ReadLine
<1>2. lines' \in Seq(Lines)  BY <1>1 DEF FileInv
<1>3. enc \in Seq(Seq(STRING))  BY <1>1, EnclosingIs
<1>4. sections' = enc \/ sections' = Append(enc, l.key)
  BY DEF ReadLine, OpenSection, ApplyLine
<1> HIDE DEF enc
<1>5. Append(enc, l.key) \in Seq(Seq(STRING))  BY <1>1, <1>3, AppendProperties
<1> QED  BY <1>2, <1>3, <1>4, <1>5 DEF FileInv

\* A line read while the file is well indented keeps the configuration what
\* the file says, unless it is rejected.
LEMMA ReadLineNests ==
  ASSUME NestInv, NEW l \in Lines, ReadLine(l)
  PROVE  NestInv'
<1>1. FileInv'  BY FileKeeps DEF NestInv
<1> SUFFICES ASSUME WellIndented(lines')
             PROVE  /\ OpenSections'
                    /\ pc' # "rejected" => ~wild' /\ pc' # "crashed" /\ Says(lines', config')
  BY <1>1 DEF NestInv, StackInv, NestingMatchesIndentation
<1>2. lines' = Append(lines, l) /\ pc = "reading" /\ lines \in Seq(Lines)
  BY DEF ReadLine, NestInv, FileInv
<1>3. WellIndented(lines)  BY <1>2, PathGrows
<1>4. OpenSections /\ ~wild /\ Says(lines, config)
  BY <1>2, <1>3 DEF NestInv, StackInv, NestingMatchesIndentation
<1>5. OpenSections' /\ (l.value = NoValue => pc' = pc /\ wild' = wild)
  BY <1>4, StackKeeps DEF NestInv
<1>6. CASE l.value = NoValue
  <2>1. config' = config  BY <1>6 DEF ReadLine
  <2>2. Says(lines', config)  BY <1>2, <1>4, <1>6, SectionSays
  <2> QED  BY <1>2, <1>4, <1>5, <1>6, <2>1, <2>2
<1>7. CASE l.value # NoValue
  <2> DEFINE key == FlattenSeq(Enclosing(l.depth)) \o l.key
  <2>1. /\ wild' = wild
        /\ IF Rejects(key, l.value) THEN pc' = "rejected"
           ELSE config' = Apply(config, key, l.value) /\ pc' = pc
    BY <1>7 DEF ReadLine, ApplyLine
  <2>2. key = Path(lines')[Len(lines) + 1]  BY <1>2, <1>4, KeyIsPath DEF NestInv
  <2> HIDE DEF key
  <2>3. ~Rejects(key, l.value) => Says(lines', Apply(config, key, l.value))
    BY <1>2, <1>4, <1>7, <2>2, SettingSays
  <2> QED  BY <1>2, <1>4, <1>5, <2>1, <2>3
<1> QED  BY <1>6, <1>7

\* The defaults are what an empty file says.
LEMMA DefaultsSaid == Says(<<>>, Defaults)
<1>1. ASSUME NEW key, NEW kinds PROVE Settings(<<>>, key, kinds) = {}
  BY DEF Settings
<1>2. ASSUME NEW key, NEW kinds, NEW default PROVE LastValue(<<>>, key, kinds, default) = default
  BY <1>1 DEF LastValue
<1>3. ASSUME NEW key PROVE LastBool(<<>>, key)
  BY <1>1 DEF LastBool
<1>4. 1000 \div Float(10).n = 100  BY DEF Float
<1>5. Float(0).n % Width = 0  BY ConfigAssumption DEF Float
<1>6. EnabledSensors(Defaults) = SensorNames  BY DEF EnabledSensors, Defaults, NoSwitch
<1>7. EnabledSensors(Defaults) = {s \in SensorNames : LastBool(<<>>, <<"sensors", s>>)}
  BY <1>3, <1>6
<1>8. /\ Defaults.tick_interval = 1000 \div LastValue(<<>>, TickRate, Kinds, Float(10)).n
      /\ Defaults.throttle = LastValue(<<>>, ThrottleTemp, Kinds, Float(85))
      /\ Defaults.window = LastValue(<<>>, WarningWindow, Kinds, Float(30))
      /\ Defaults.device = LastValue(<<>>, DeviceIndex, Kinds, Float(0)).n % Width
  BY <1>2, <1>4, <1>5 DEF Defaults
<1>9. /\ Defaults.publish_health = LastBool(<<>>, PublishHealth)
      /\ Defaults.stdout_debug = LastBool(<<>>, StdoutDebug)
  BY <1>3 DEF Defaults, LastBool
<1>10. /\ Defaults.redis.enabled = (Settings(<<>>, Address, Kinds) # {})
       /\ Defaults.redis.unix_socket = 0
       /\ Defaults.redis.host = 1
       /\ Defaults.redis.port = 6379
  BY <1>1 DEF Defaults, DefaultAddress
<1>11. /\ LastValue(<<>>, Address, {"unix", "hostport"}, NoValue).kind = "none"
       /\ LastValue(<<>>, Address, Kinds, DefaultAddress).kind = "word"
       /\ LastValue(<<>>, Address, Kinds, DefaultAddress).n = 1
  BY <1>2 DEF NoValue, DefaultAddress
<1>12. AddressSays(<<>>, Defaults.redis)  BY <1>10, <1>11 DEF AddressSays
<1> QED  BY <1>7, <1>8, <1>9, <1>10, <1>12 DEF Says

\* For files of any length and depth: in a file that is indented level by
\* level, the stack of load_agent_config() gives every setting the section its
\* indentation says, and is never written out of its bounds.
THEOREM NestingSafety == Spec => []NestingMatchesIndentation
<1>1. ASSUME Init PROVE NestInv
  <2>1. lines = <<>> /\ sections = <<>> /\ config = Defaults /\ pc = "reading" /\ ~wild
    BY <1>1 DEF Init
  <2>2. FileInv  BY <2>1 DEF FileInv
  <2>3. OpenSections  BY <2>1 DEF OpenSections
  <2> QED  BY <2>1, <2>2, <2>3, DefaultsSaid DEF NestInv, StackInv, NestingMatchesIndentation
<1>2. ASSUME NestInv, [Next]_vars PROVE NestInv'
  <2>1. ASSUME NEW l \in Lines, ReadLine(l) PROVE NestInv'
    BY <1>2, <2>1, ReadLineNests
  <2>2. ASSUME Start \/ UNCHANGED vars PROVE NestInv'
    <3>1. /\ UNCHANGED <<sections, config, lines, wild>>
          /\ pc' = pc \/ (pc = "reading" /\ pc' = "running")
      BY <2>2 DEF Start, vars
    <3>2. FileInv' /\ StackInv'
      BY <1>2, <3>1 DEF NestInv, FileInv, StackInv, OpenSections
    <3>3. NestingMatchesIndentation'
      BY <1>2, <3>1 DEF NestInv, NestingMatchesIndentation
    <3> QED  BY <3>2, <3>3 DEF NestInv
  <2> QED  BY <1>2, <2>1, <2>2 DEF Next
<1>3. NestInv => NestingMatchesIndentation  BY DEF NestInv
<1> QED  BY <1>1, <1>2, <1>3, PTL DEF Spec
=============================================================================
