---------------------------- MODULE GaugeSensors ----------------------------
(***************************************************************************)
(* The four sensors that report what a file says now: PsiSensor,           *)
(* MemorySensor, ThermalSensor and CpuFreqSensor.  They share nothing, so  *)
(* a behaviour follows one of them, chosen in the initial state.           *)
(*                                                                         *)
(* Each opens its files in the constructor, or is handed them, and reads   *)
(* them from the start at every sample.  Any file may be missing then or   *)
(* fail later, on its own; only the thermal sensor opens a missing file    *)
(* again.  Of a file's text only the number looked for is kept; for        *)
(* meminfo that is Dirty + Writeback, for vmstat the pgsteal total.        *)
(***************************************************************************)
EXTENDS Integers, FiniteSets, FiniteSetsExt, Functions

CONSTANTS
    Devices,        \* thermal zones or cores
    Temps,          \* temperatures a zone may report
    Levels,         \* other readings: avg10, kB, MHz
    Throttle,       \* throttle_temp_c
    MaxCount        \* bound on the pgsteal counter

ASSUME GaugeAssumption ==
    /\ IsFiniteSet(Devices)
    /\ Temps \subseteq Int /\ Throttle \in Int
    /\ Levels \subseteq Nat \ {0}
    /\ MaxCount \in Nat

VARIABLES
    gauge,          \* the sensor this behaviour follows
    life,           \* "new", "alive" or "destroyed"
    owns_files,     \* owns_files_
    zones,          \* the files it knows: sources_, zones_, files_
    open,           \* the files open on its account
    field,          \* the fields of the frame it writes
    ok,             \* what the last sample() returned
    prev, has_prev, \* MemorySensor: prev_pgsteal_total_, has_prev_
    reclaim,        \* MemorySensor: raw_.reclaim_activity
    ema, has_ema,   \* CpuFreqSensor: ema_mhz_, has_ema_
    pgsteal,        \* the kernel's counter
    given,          \* history: the files open after the constructor
    reads,          \* history: what each file gave at the last sample
    since,          \* history: pages stolen since prev was read
    rewound,        \* history: the counter went back, or read as 0, since
    range           \* history: all frequencies ever read

gaugeVars == <<gauge, life, owns_files, zones, open, field, ok, prev, has_prev, reclaim,
               ema, has_ema, pgsteal, given, reads, since, rewound, range>>

Gauges == {"psi", "memory", "thermal", "cpufreq"}
PsiFiles == {"cpu", "memory", "io"}

FilesOf(g) == IF g = "psi" THEN PsiFiles
              ELSE IF g = "memory" THEN {"meminfo", "vmstat"} ELSE Devices

FieldsOf(g) == IF g = "psi" THEN PsiFiles ELSE {g}

\* what reading a file may give: an error, text without the number, a number
Error == [kind |-> "error", n |-> 0]
Text == [kind |-> "text", n |-> 0]
Number(n) == [kind |-> "number", n |-> n]
IsNumber(r) == r.kind = "number"

NumbersIn(g, f) == IF g = "thermal" THEN Temps
                   ELSE IF g = "memory" /\ f = "vmstat" THEN {pgsteal} ELSE Levels

Outcomes(g, f) == {Error, Text} \union {Number(n) : n \in NumbersIn(g, f)}

Unread == [f \in FilesOf(gauge) |-> Error]
Blank == [f \in FieldsOf(gauge) |-> 0]

GaugeInit ==
    /\ gauge \in Gauges
    /\ life = "new"
    /\ owns_files \in BOOLEAN
    /\ zones = {} /\ open = {} /\ given = {}
    /\ field = Blank
    /\ ok = FALSE
    /\ prev = 0 /\ has_prev = FALSE /\ reclaim = 0
    /\ ema = 0 /\ has_ema = FALSE
    /\ pgsteal = 0 /\ since = 0 /\ rewound = FALSE
    /\ reads = Unread
    /\ range = {}

-----------------------------------------------------------------------------
(***************************************************************************)
(* Construction and destruction.                                           *)
(***************************************************************************)
memoryVars == <<prev, has_prev, reclaim, since, rewound>>
freqVars == <<ema, has_ema, range>>
restVars == <<gauge, owns_files, field, ok, memoryVars, freqVars, pgsteal, reads>>

\* The files in found can be opened, or are handed over.
Construct(found) ==
    /\ life = "new"
    /\ life' = "alive"
    /\ zones' = FilesOf(gauge)
    /\ open' = found
    /\ given' = found
    /\ UNCHANGED restVars

\* discover_zones() fails in the middle of the directory: the zones found so
\* far are dropped, their files stay open.
DiscoveryFails(found) ==
    /\ gauge = "thermal" /\ owns_files
    /\ life = "new"
    /\ life' = "alive"
    /\ open' = found
    /\ given' = found
    /\ UNCHANGED <<zones, restVars>>

\* the destructors
Destroy ==
    /\ life = "alive"
    /\ life' = "destroyed"
    /\ open' = IF owns_files THEN open \ zones ELSE open
    /\ UNCHANGED <<zones, given, restVars>>

-----------------------------------------------------------------------------
(***************************************************************************)
(* sample(), with r the outcome of reading each file.                      *)
(***************************************************************************)
\* What is obtained when the files in readable can be read at all.
Obtained(r, readable) == [f \in FilesOf(gauge) |-> IF f \in readable THEN r[f] ELSE Error]

\* Every sample leaves the fields v and the result good.
Report(v, good, obtained) ==
    /\ life = "alive"
    /\ field' = v
    /\ ok' = good
    /\ reads' = obtained
    /\ UNCHANGED <<gauge, life, owns_files, zones, given, pgsteal>>

\* mutant: gives up at the first file that fails and keeps the other fields
PsiFieldsKept(got) ==
    IF got["cpu"].kind = "error" THEN [field EXCEPT !["cpu"] = 0]
                                 ELSE [f \in PsiFiles |-> got[f].n]

\* read_avg10() of the three files; text without "avg10=" reads as 0.
PsiFields(got) == [f \in PsiFiles |-> got[f].n]

SamplePsi(r) ==
    /\ gauge = "psi"
    /\ LET got == Obtained(r, open)
       IN  Report(PsiFields(got), \A f \in PsiFiles : got[f].kind # "error", got)
    /\ UNCHANGED <<open, memoryVars, freqVars>>

\* mutant: the counter is remembered although the sample fails
KeepBaselineLoses(total) == prev' = total /\ UNCHANGED <<has_prev, reclaim, since, rewound>>
\* a failed sample leaves the baseline of reclaim_activity alone
KeepBaseline(total) == UNCHANGED memoryVars

\* meminfo must name a MemTotal; a vmstat without the counters reads as 0.
SampleMemory(r) ==
    /\ gauge = "memory"
    /\ LET got   == Obtained(r, open)
           good  == IsNumber(got["meminfo"]) /\ got["vmstat"].kind # "error"
           total == got["vmstat"].n
       IN  /\ Report([memory |-> IF good THEN got["meminfo"].n ELSE 0], good, got)
           /\ IF good
                THEN /\ reclaim' = IF has_prev /\ total >= prev THEN total - prev ELSE 0
                     /\ prev' = total /\ has_prev' = TRUE
                     /\ since' = 0
                     /\ rewound' = (total # pgsteal)
                ELSE KeepBaseline(total)
    /\ UNCHANGED <<open, freqVars>>

\* mutant: the search for the hottest zone starts at 0 degrees
HottestAboveZero(temps) == Max(temps \union {0})
Hottest(temps) == Max(temps)

\* A zone without a file is opened again if it can be; among borrowed files
\* it is closed before the sample ends, read or not.
SampleThermal(r, openable) ==
    /\ gauge = "thermal"
    /\ LET got   == Obtained(r, zones \intersect (open \union openable))
           temps == {got[z].n : z \in {y \in Devices : IsNumber(got[y])}}
       IN  Report([thermal |-> IF temps = {} THEN 0 ELSE Throttle - Hottest(temps)],
                  temps # {}, got)
    /\ open' = IF owns_files THEN open \union (zones \intersect openable) ELSE open
    /\ UNCHANGED <<memoryVars, freqVars>>

\* mutant: divides by the number of files instead of the number read
AverageOfAll(got, cores) ==
    SumFunction([c \in cores |-> got[c].n]) \div Cardinality(zones)
Average(got, cores) == SumFunction([c \in cores |-> got[c].n]) \div Cardinality(cores)

SampleCpuFreq(r) ==
    /\ gauge = "cpufreq"
    /\ LET got   == Obtained(r, open)
           cores == {c \in Devices : IsNumber(got[c])}
           avg   == Average(got, cores)
       IN  IF cores = {}
             THEN /\ Report([cpufreq |-> 0], FALSE, got)
                  /\ UNCHANGED freqVars
             ELSE /\ ema' = IF has_ema THEN (3 * ema + avg) \div 4 ELSE avg
                  /\ has_ema' = TRUE
                  /\ Report([cpufreq |-> ema'], TRUE, got)
                  /\ range' = range \union {got[c].n : c \in cores}
    /\ UNCHANGED <<open, memoryVars>>

(***************************************************************************)
(* The kernel steals pages, or starts its counter anew: external.          *)
(***************************************************************************)
Steal(n) ==
    /\ gauge = "memory" /\ n # pgsteal
    /\ pgsteal' = n
    /\ since' = IF n > pgsteal THEN since + (n - pgsteal) ELSE since
    /\ rewound' = (rewound \/ n < pgsteal)
    /\ since' <= MaxCount
    /\ UNCHANGED <<gauge, life, owns_files, zones, open, given, field, ok, prev, has_prev,
                   reclaim, freqVars, reads>>

Readings == {r \in [FilesOf(gauge) -> UNION {Outcomes(gauge, f) : f \in FilesOf(gauge)}] :
                 \A f \in FilesOf(gauge) : r[f] \in Outcomes(gauge, f)}

GaugeNext ==
    \/ \E found \in SUBSET FilesOf(gauge) : Construct(found) \/ DiscoveryFails(found)
    \/ \E r \in Readings :
           \/ SamplePsi(r) \/ SampleMemory(r) \/ SampleCpuFreq(r)
           \/ \E openable \in SUBSET Devices : SampleThermal(r, openable)
    \/ \E n \in 0..MaxCount : Steal(n)
    \/ Destroy

GaugeSpec == GaugeInit /\ [][GaugeNext]_gaugeVars

-----------------------------------------------------------------------------
\* the last sample could read what its sensor needs
Enough ==
    IF gauge = "psi" THEN \A f \in PsiFiles : reads[f].kind # "error"
    ELSE IF gauge = "memory" THEN IsNumber(reads["meminfo"]) /\ reads["vmstat"].kind # "error"
    ELSE \E d \in Devices : IsNumber(reads[d])

(***************************************************************************)
(* A failed read shows: the sample is counted as a failure exactly when    *)
(* its sensor could not read what it needs, and no field of the frame      *)
(* keeps the value of an earlier sample then.  The three pressures of PSI  *)
(* fail one by one, so two stay right while the third reads 0.             *)
(***************************************************************************)
FailureShows ==
    /\ ok <=> Enough
    /\ gauge # "psi" /\ ~Enough => field[gauge] = 0
    /\ gauge = "psi" => \A f \in PsiFiles : field[f] = reads[f].n

(***************************************************************************)
(* The thermal headroom is that of the hottest zone that can be read, also *)
(* when all are below zero, and a zone that could not be opened when the   *)
(* agent started counts as soon as it can.                                 *)
(***************************************************************************)
HeadroomOfReadable ==
    gauge = "thermal" /\ ok =>
        LET temps == {reads[z].n : z \in {y \in Devices : IsNumber(reads[y])}}
        IN  /\ \A t \in temps : field["thermal"] <= Throttle - t
            /\ \E t \in temps : field["thermal"] = Throttle - t

(***************************************************************************)
(* reclaim_activity covers everything stolen since the last sample that    *)
(* succeeded, whatever failed in between, as long as the counter did not   *)
(* go back.                                                                *)
(***************************************************************************)
ReclaimTrue ==
    [][gauge = "memory" /\ life' = "alive" /\ pgsteal' = pgsteal /\ ok'
         /\ has_prev /\ ~rewound /\ ~rewound'
       => reclaim' = since]_gaugeVars

(***************************************************************************)
(* The smoothed frequency lies between the lowest and the highest          *)
(* frequency ever read, whichever cores fail to answer and however many    *)
(* samples fail as a whole: missing cores do not drag it down.             *)
(***************************************************************************)
FreqWithinSeen ==
    gauge = "cpufreq" /\ ok => /\ \E n \in range : n <= field["cpufreq"]
                               /\ \E n \in range : field["cpufreq"] <= n

(***************************************************************************)
(* Files borrowed are neither kept nor closed: after every sample and      *)
(* after the destructor the files open are those handed over.  Files owned *)
(* are all closed by the destructor of a sensor that knows its files.  The *)
(* thermal sensor whose discovery failed half-way knows none: the files it *)
(* had opened by then, and no others, stay open when it is gone.           *)
(***************************************************************************)
HandlesReturned ==
    /\ ~owns_files => open = given
    /\ life = "destroyed" /\ owns_files =>
          open = IF zones = FilesOf(gauge) THEN {} ELSE given
=============================================================================
