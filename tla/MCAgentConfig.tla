---------------------------- MODULE MCAgentConfig ----------------------------
(***************************************************************************)
(* Lines for every setting, good and bad, the sections they belong to, and *)
(* the same keys a level too deep or at the margin.                        *)
(***************************************************************************)
EXTENDS AgentConfig

Section(d, k) == [depth |-> d, key |-> k, value |-> NoValue]
Setting(d, k, kind, n) == [depth |-> d, key |-> k, value |-> [kind |-> kind, n |-> n]]

Sections == {Section(0, <<"redis">>), Section(0, <<"sensors">>), Section(0, <<"gpu">>),
             Section(0, <<"agent">>), Section(1, <<"sensors">>), Section(2, <<"redis">>)}

Margin == {Setting(0, TickRate, "number", 10), Setting(0, TickRate, "number", 1000),
           Setting(0, TickRate, "number", 2000), Setting(0, TickRate, "number", 0),
           Setting(0, ThrottleTemp, "nan", 0), Setting(0, ThrottleTemp, "word", 3),
           Setting(0, WarningWindow, "nan", 0), Setting(0, WarningWindow, "number", 20),
           Setting(0, Address, "word", 3)}

Nested == {Setting(1, <<"address">>, "unix", 5), Setting(1, <<"address">>, "word", 3),
           Setting(1, <<"address">>, "hostport", 7000), Setting(1, <<"address">>, "hostport", 0),
           Setting(1, <<"psi">>, "word", 4), Setting(1, <<"psi">>, "true", 0),
           Setting(1, <<"gpu">>, "number", 0), Setting(2, <<"cpu">>, "word", 4),
           Setting(1, <<"device_index">>, "number", 17), Setting(1, <<"device_index">>, "number", -1),
           Setting(1, <<"publish_health">>, "word", 4), Setting(1, <<"stdout_debug">>, "number", 0)}

MCLines == Sections \union Margin \union Nested
=============================================================================
