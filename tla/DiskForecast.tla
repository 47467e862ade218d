---------------------------- MODULE DiskForecast ----------------------------
(***************************************************************************)
(* The disk forecast of the workstation dashboard, inference-api's main.py:*)
(* each forecast measures the disk, reads a journal of earlier readings,   *)
(* and writes the journal back with its own; GET /api/system/predictions   *)
(* keeps a second journal, of the risks it found, and GET /api/trends      *)
(* reads that.  Forecasts run in threads and in the event loop at once and *)
(* nothing guards the files.  One disk of the two is modelled.             *)
(***************************************************************************)
EXTENDS Clock, Integers, Sequences, Ranking

CONSTANTS
  Loops, Handlers,    \* forecasts in asyncio.to_thread, and in a request's handler
  Percents,           \* how full the disk may be
  Keep,               \* the samples a journal keeps (2000)
  Soon,               \* a disk full within this time is critical (7 days)
  Spans,              \* the windows of /api/trends
  Slowest,            \* bound: the time a forecast takes
  MaxForecasts        \* bound: forecasts begun

ASSUME ForecastAssumption ==
  /\ Percents \subseteq 0..100 /\ Keep \in Nat \ {0}
  /\ Soon \in Nat /\ Spans \subseteq Nat /\ Slowest \in Nat

VARIABLES
  percent,    \* how full the disk is
  held,       \* [0..MaxTime -> the percents the disk has had in that tick]
  journal,    \* [{"disk", "risk"} -> {its samples}, {} when unreadable]
  runs,       \* [Loops \union Handlers -> where its forecast has got to]
  begun       \* forecasts begun

forecastVars == << now, percent, held, journal, runs, begun >>

idle == [stage |-> "idle", on |-> "disk", value |-> 0, since |-> 0, copy |-> << >>, rank |-> 0]

ForecastInit ==
  /\ now = 0 /\ percent \in Percents
  /\ held = [t \in 0..MaxTime |-> IF t = 0 THEN {percent} ELSE {}]
  /\ journal = [j \in {"disk", "risk"} |-> {<< >>}]
  /\ runs = [r \in Loops \union Handlers |-> idle]
  /\ begun = 0

DiskFills(p) ==
  /\ percent' = p /\ held' = [held EXCEPT ![now] = @ \union {p}]
  /\ UNCHANGED << now, journal, runs, begun >>

\* no forecast outlasts Slowest
TimePasses ==
  /\ \A r \in DOMAIN runs : runs[r].stage # "idle" => now < runs[r].since + Slowest
  /\ Passes
  /\ held' = [held EXCEPT ![now'] = {percent}]
  /\ UNCHANGED << percent, journal, runs, begun >>

-----------------------------------------------------------------------------
(* _predictive_monitoring                                                  *)

\* low, med, high and critical; the trend is that of the journal's first and
\* last samples, and a disk that is full already is never called critical
Rank(value, samples) ==
  LET first == samples[1]  last == samples[Len(samples)]
      rises == /\ Len(samples) >= 2 /\ last.ts > first.ts
               /\ last.value > first.value /\ value < 100
  IN  IF rises /\ (100 - value) * (last.ts - first.ts) < Soon * (last.value - first.value) THEN 3
      ELSE IF value >= 85 THEN 2 ELSE IF value >= 75 THEN 1 ELSE 0

Measured(on, value, since, rank) ==
  [stage |-> "measured", on |-> on, value |-> value, since |-> since, copy |-> << >>, rank |-> rank]

Measure(r) ==
  /\ runs[r].stage = "idle" /\ begun < MaxForecasts /\ begun' = begun + 1
  /\ runs' = [runs EXCEPT ![r] = Measured("disk", percent, now, 0)]
  /\ UNCHANGED << now, percent, held, journal >>

\* a file that cannot be read is an empty history
Samples(j) == IF journal[j] = {} THEN << >> ELSE CHOOSE s \in journal[j] : TRUE

Load(r) ==
  /\ runs[r].stage = "measured"
  /\ LET run == runs[r] IN
       runs' = [runs EXCEPT ![r] =
         [run EXCEPT !.stage = "loaded", !.copy = Samples(run.on),
                     !.rank = IF run.on = "disk" THEN Rank(run.value, Samples("disk")) ELSE @]]
  /\ UNCHANGED << now, percent, held, journal, begun >>

\* mutant: a sample bears the time of its measuring
StampedEarly(run) == [ts |-> run.since, value |-> run.value]

Stamped(run) == [ts |-> now, value |-> run.value]

\* write_text empties the file first
Open(r) ==
  /\ runs[r].stage = "loaded"
  /\ journal' = [journal EXCEPT ![runs[r].on] = {}]
  /\ LET run == runs[r] IN
       runs' = [runs EXCEPT ![r] = [run EXCEPT !.stage = "writing", !.copy = Append(run.copy, Stamped(run))]]
  /\ UNCHANGED << now, percent, held, begun >>

Latest(samples) == SubSeq(samples, Max({1, Len(samples) - Keep + 1}), Len(samples))

\* A write that fails leaves the empty file and is passed over.  A handler
\* goes on to record what risk it found.
Store(r, failed) ==
  /\ runs[r].stage = "writing"
  /\ LET run == runs[r] IN
       /\ journal' = IF failed THEN journal
                     ELSE [journal EXCEPT ![run.on] = {Latest(run.copy)}]
       /\ runs' = [runs EXCEPT ![r] =
            IF r \in Handlers /\ run.on = "disk"
            THEN Measured("risk", run.rank, run.since, run.rank)
            ELSE idle]
  /\ UNCHANGED << now, percent, held, begun >>

\* the process stops, in the middle of a write it may be, and starts again
ForecastRestart ==
  /\ runs' = [r \in DOMAIN runs |-> idle]
  /\ UNCHANGED << now, percent, held, journal, begun >>

-----------------------------------------------------------------------------
(* GET /api/trends                                                         *)

TrendWindow(samples, span) ==
  LET inside == Ascending({i \in DOMAIN samples : samples[i].ts >= now - span})
      bucket == [i \in 1..Len(inside) |-> samples[inside[i]]]
      values == {bucket[i].value : i \in DOMAIN bucket}
  IN  IF bucket = << >> THEN {}
      ELSE {[min |-> Min(values), max |-> Max(values), last |-> bucket[Len(bucket)], count |-> Len(bucket)]}

Trend(span) == TrendWindow(Samples("risk"), span)

ForecastNext ==
  \/ TimePasses \/ ForecastRestart
  \/ \E p \in Percents \ {percent} : DiskFills(p)
  \/ \E r \in Loops \union Handlers :
       Measure(r) \/ Load(r) \/ Open(r) \/ \E failed \in BOOLEAN : Store(r, failed)

ForecastSpec == ForecastInit /\ [][ForecastNext]_forecastVars

-----------------------------------------------------------------------------
(* Properties                                                              *)

\* Forecasts that overlap, lose each other's samples and read torn files: a
\* journal that can be read has its samples in the order of their stamps, the
\* disk has been as full as a sample says within a forecast's time of its
\* stamp, and the windows of /api/trends end in the same sample, the longer
\* one spanning the shorter (_predictive_monitoring, _trend_windows).
JournalsTellTheStory ==
  /\ \A j \in DOMAIN journal : \A samples \in journal[j] :
       \A i \in 2..Len(samples) : samples[i - 1].ts <= samples[i].ts
  /\ \A samples \in journal["disk"] : \A i \in DOMAIN samples :
       \E t \in Max({0, samples[i].ts - Slowest})..samples[i].ts : samples[i].value \in held[t]
  /\ \A s, u \in Spans : s < u => \A a \in Trend(s) : \E b \in Trend(u) :
       a.last = b.last /\ b.min <= a.min /\ a.max <= b.max /\ a.count <= b.count
=============================================================================
