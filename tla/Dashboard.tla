----------------------------- MODULE Dashboard -----------------------------
(***************************************************************************)
(* What the dashboard shows beyond the sums of Metrics: per provider and   *)
(* model the numbers of ended requests (ProviderStatsMap,                  *)
(* src/src/metrics/counters.rs), rates over a sliding window of the wall   *)
(* clock, and time series of bounded length (SnapshotBuilder,              *)
(* src/src/metrics/snapshot.rs).  The aggregator is the only writer.       *)
(*                                                                         *)
(* The wall clock may be set, forward and back.                            *)
(*                                                                         *)
(* Abstracted: the channel, which Metrics has: here are the events         *)
(* received; averages, which are quotients of the sums; tokens.            *)
(***************************************************************************)
EXTENDS Naturals, Sequences, FiniteSets

CONSTANTS
    Pairs,      \* [provider, model]: names are sequences of words and ":"
    Window,     \* RPM_WINDOW_SECS, 60 in the code
    MaxPoints,  \* MAX_TIMESERIES_POINTS, 300 in the code
    MaxEvents,  \* bound: starts, and ends
    MaxTicks,   \* bound: snapshots
    MaxTime,    \* bound: the time that passes
    MaxClock    \* bound: what the wall clock is set to

ASSUME DashboardAssumption ==
    /\ Pairs \subseteq [provider : Seq(STRING), model : Seq(STRING)]
    /\ {Window, MaxEvents, MaxTicks, MaxTime, MaxClock} \subseteq Nat
    /\ MaxPoints \in Nat \ {0}

VARIABLES
    clock,      \* the wall clock, in seconds
    now,        \* the time, which nobody sees
    global,     \* GlobalCounters: starts, and ends by their outcome
    stats,      \* ProviderStatsMap: a key is there once it has requests
    recent,     \* SnapshotBuilder.recent_totals, and .per_model_recent
    series,     \* SnapshotBuilder.timeseries, and .per_model_series
    shown,      \* the MetricsSnapshot
    ended,      \* history: the ends received of each pair, and the failed
    ticks       \* history: of each snapshot the clock, the time and the sums

vars == <<clock, now, global, stats, recent, series, shown, ended, ticks>>

Key(pair) == pair.provider \o <<":">> \o pair.model

Keys == {Key(pair) : pair \in Pairs}

\* The key of the totals: they are kept like those of a pair.
Total == <<>>

Lowest(S) == CHOOSE i \in S : \A j \in S : i <= j

Colons(key) == {j \in DOMAIN key : key[j] = ":"}

\* Variant of Split that splits a key at the last colon.
Split_AtLast(key) ==
    LET i == CHOOSE i \in Colons(key) : \A j \in Colons(key) : j <= i
    IN  [provider |-> SubSeq(key, 1, i - 1), model |-> SubSeq(key, i + 1, Len(key))]

\* split_once(':').
Split(key) ==
    LET i == Lowest(Colons(key))
    IN  [provider |-> SubSeq(key, 1, i - 1), model |-> SubSeq(key, i + 1, Len(key))]

NoRate == [requests |-> 0, seconds |-> 0]

Init ==
    /\ clock = Window
    /\ now = 0
    /\ global = [total |-> 0, success |-> 0, failed |-> 0]
    /\ stats = [key \in Keys |-> [requests |-> 0, failures |-> 0]]
    /\ recent = [key \in Keys \cup {Total} |-> <<>>]
    /\ series = [key \in Keys \cup {Total} |-> <<>>]
    /\ shown = [rate |-> NoRate, rows |-> {}]
    /\ ended = [pair \in Pairs |-> [requests |-> 0, failures |-> 0]]
    /\ ticks = <<>>

-----------------------------------------------------------------------------
(* process_event.                                                          *)

Start ==
    /\ global.total < MaxEvents
    /\ global' = [global EXCEPT !.total = @ + 1]
    /\ UNCHANGED <<clock, now, stats, recent, series, shown, ended, ticks>>

\* Variant of Counted that counts a request that failed as a failure only.
Counted_Apart(count, success) ==
    IF success THEN [count EXCEPT !.requests = @ + 1]
    ELSE [count EXCEPT !.failures = @ + 1]

\* What ProviderStatsMap::record adds.
Counted(count, success) ==
    [count EXCEPT !.requests = @ + 1, !.failures = IF success THEN @ ELSE @ + 1]

End ==
    /\ global.success + global.failed < MaxEvents
    /\ \E pair \in Pairs, success \in BOOLEAN :
          /\ global' = IF success THEN [global EXCEPT !.success = @ + 1]
                       ELSE [global EXCEPT !.failed = @ + 1]
          /\ stats' = [stats EXCEPT ![Key(pair)] = Counted(@, success)]
          /\ ended' = [ended EXCEPT
                          ![pair] = [requests |-> @.requests + 1,
                                     failures |-> IF success THEN @.failures
                                                  ELSE @.failures + 1]]
    /\ UNCHANGED <<clock, now, recent, series, shown, ticks>>

-----------------------------------------------------------------------------
(* SnapshotBuilder::build.                                                 *)

Minus(a, b) == IF a > b THEN a - b ELSE 0

\* Variant of Kept that keeps what is out of the window.
Kept_All(samples) == samples

\* The samples within the window.
Kept(samples) ==
    LET kept[i \in 0 .. Len(samples)] ==
            IF i = 0 THEN <<>>
            ELSE IF samples[i].at >= Minus(clock, Window)
                 THEN Append(kept[i - 1], samples[i])
            ELSE kept[i - 1]
    IN  kept[Len(samples)]

\* The growth from the first sample to the last; the rate per minute is
\* requests / seconds * 60, and 0 if no second passed.
Rate(samples) ==
    LET first == samples[1]
        last == samples[Len(samples)]
        seconds == Minus(last.at, first.at)
    IN  IF Len(samples) < 2 \/ seconds = 0 THEN NoRate
        ELSE [requests |-> Minus(last.requests, first.requests), seconds |-> seconds]

\* Variant of Capped that leaves out the youngest points.
Capped_Youngest(points) ==
    SubSeq(points, 1, IF Len(points) < MaxPoints THEN Len(points) ELSE MaxPoints)

\* The last MaxPoints points.
Capped(points) ==
    SubSeq(points, Minus(Len(points), MaxPoints) + 1, Len(points))

\* The keys that are there, with the sums to add to their window and series.
Present ==
    {key \in Keys : stats[key].requests > 0} \cup {Total}

Sums(key) ==
    IF key = Total
    THEN [requests |-> global.total, failures |-> global.failed]
    ELSE stats[key]

Sample(key) == [at |-> clock, requests |-> Sums(key).requests]

Point(key, rate) ==
    [at |-> clock, requests |-> Sums(key).requests, failures |-> Sums(key).failures,
     rate |-> rate]

Row(key) ==
    [pair |-> Split(key), requests |-> stats[key].requests,
     failures |-> stats[key].failures]

Tick ==
    /\ Len(ticks) < MaxTicks
    /\ recent' = [key \in DOMAIN recent |->
                     IF key \in Present THEN Kept(Append(recent[key], Sample(key)))
                     ELSE recent[key]]
    /\ series' = [key \in DOMAIN series |->
                     IF key \in Present
                     THEN Capped(Append(series[key], Point(key, Rate(recent'[key]))))
                     ELSE series[key]]
    /\ shown' = [rate |-> Rate(recent'[Total]),
                 rows |-> {Row(key) : key \in Present \ {Total}}]
    /\ ticks' = Append(ticks, [clock |-> clock, now |-> now, total |-> global.total,
                               failed |-> global.failed])
    /\ UNCHANGED <<clock, now, global, stats, ended>>

Second ==
    /\ now < MaxTime
    /\ clock' = clock + 1
    /\ now' = now + 1
    /\ UNCHANGED <<global, stats, recent, series, shown, ended, ticks>>

\* The clock is set; bound: once.
SetClock ==
    /\ clock = now + Window
    /\ clock' \in 0 .. MaxClock
    /\ UNCHANGED <<now, global, stats, recent, series, shown, ended, ticks>>

Next == Start \/ End \/ Tick \/ Second \/ SetClock

Spec == Init /\ [][Next]_vars
-----------------------------------------------------------------------------
(* Properties.                                                             *)

\* No other pair has the same key.
Unmistakable(pair) == \A other \in Pairs \ {pair} : Key(other) # Key(pair)

\* The rows of a pair say what ended of it: here, for a pair that has its key
\* for itself and no colon in the name of its provider.
RowsTell ==
    \A pair \in Pairs :
        /\ Unmistakable(pair)
        /\ \A i \in DOMAIN pair.provider : pair.provider[i] # ":"
        /\ ended[pair].requests > 0
        => {row \in shown'.rows : row.pair = pair}
              = {[pair |-> pair, requests |-> ended[pair].requests,
                  failures |-> ended[pair].failures]}

\* Every snapshot shows a request under the provider and the model it ended
\* with, also if there are colons in their names, and with no other's numbers;
\* only pairs that have the same key, which takes a provider with a colon in
\* its name, are taken for one another.
StatsAttributed == [][Tick => RowsTell]_vars

\* The sum of the values of f: each x has f[x] units.
Units(f) == UNION {{x} \X (1 .. f[x]) : x \in DOMAIN f}

SumOver(f) == Cardinality(Units(f))

RowsAddUp ==
    /\ SumOver([row \in shown'.rows |-> row.requests]) = global.success + global.failed
    /\ SumOver([row \in shown'.rows |-> row.failures]) = global.failed
    /\ \A row \in shown'.rows : row.failures <= row.requests

PointsAddUp ==
    SumOver([key \in Present \ {Total} |-> series'[key][Len(series'[key])].requests])
        = global.success + global.failed

\* Every snapshot's rows add up to the requests that ended and to those that
\* failed, and so do the last points of the models' series, whatever the names.
SumsAgree == [][Tick => RowsAddUp /\ PointsAddUp]_vars

\* The ticks since the clock was set last.
Since == {k \in DOMAIN ticks :
             \A j \in k .. Len(ticks) :
                 ticks[j].clock + ticks[k].now = ticks[k].clock + ticks[j].now}

\* The rate shown is that of the requests since the first snapshot of the last
\* minute, by true time: always, if the clock was not set, and again once what
\* was sampled before the clock was set is out of the window.
RateHeals ==
    ticks # <<>> =>
        LET n == Len(ticks)
            within == {k \in Since : ticks[k].now + Window >= ticks[n].now}
            first == ticks[Lowest(within)]
            seconds == ticks[n].now - first.now
        IN  (\A k \in DOMAIN ticks \ Since : ticks[k].clock + Window < ticks[n].clock)
            => shown.rate
                  = IF seconds = 0 THEN NoRate
                    ELSE [requests |-> ticks[n].total - first.total, seconds |-> seconds]

\* The series shown is that of the last snapshots, whatever the clock did: in
\* the order they were made, up to the newest, and no more than its bound.
SeriesIsLast ==
    LET points == series[Total]
        skipped == Len(ticks) - Len(points)
    IN  /\ Len(points) = Lowest({Len(ticks), MaxPoints})
        /\ \A i \in DOMAIN points :
              /\ points[i].at = ticks[skipped + i].clock
              /\ points[i].requests = ticks[skipped + i].total
              /\ points[i].failures = ticks[skipped + i].failed
=============================================================================
