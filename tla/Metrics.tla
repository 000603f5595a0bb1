------------------------------- MODULE Metrics -------------------------------
(***************************************************************************)
(* A histogram of internal/metrics, observed by requests that run at the   *)
(* same time and scraped meanwhile. All its observations carry the same    *)
(* labels, so the first ones race for the creation of the series. A        *)
(* counter and a gauge find or create their series in the same way.        *)
(*                                                                         *)
(* Every step is one critical section or one atomic operation.             *)
(***************************************************************************)
EXTENDS Naturals, Sequences, FiniteSets, FiniteSetsExt

CONSTANTS
    Observers,  \* goroutines, each with one observation
    Bounds,     \* number of bucket boundaries: value v fits the boundaries >= v
    NoSeries

ASSUME MetricsAssumption ==
    /\ IsFiniteSet(Observers)
    /\ Bounds \in Nat
    /\ NoSeries \notin Observers

\* The values that are told apart; the last one fits no boundary.
Values == 1..Bounds + 1

\* The lines of a series: a bucket per boundary, +Inf, the sum and the count.
SumLine == Bounds + 2
CountLine == Bounds + 3
Lines == 1..Bounds + 3

VARIABLES
    value,     \* per observer, what it observes
    step,      \* per observer, its next step
    mine,      \* per observer, the series it works on
    old,       \* per observer, the sum it has loaded
    series,    \* HistogramVec.series for the labels; an object is named after
               \* the observer that made it
    counts,    \* per object, histogram.counts
    total,     \* per object, histogram.total
    sum,       \* per object, histogram.sum
    scraped,   \* the lines of the scrape that is under way
    before     \* history: observations that were over when it began

observerVars == <<value, step, mine, old>>
seriesVars   == <<series, counts, total, sum>>
scrapeVars   == <<scraped, before>>
metricsVars  == <<observerVars, seriesVars, scrapeVars>>

Steps == {"find", "create", "count", "total", "load", "swap", "done"}

\* Every variable has its type.
MetricsTypeOK ==
    /\ value \in [Observers -> Values]
    /\ step \in [Observers -> Steps]
    /\ mine \in [Observers -> Observers \cup {NoSeries}]
    /\ old \in [Observers -> Nat]
    /\ series \in Observers \cup {NoSeries}
    /\ counts \in [Observers -> [Values -> Nat]]
    /\ total \in [Observers -> Nat]
    /\ sum \in [Observers -> Nat]
    /\ scraped \in Seq(Nat)
    /\ before \subseteq Observers

MetricsInit ==
    /\ value \in [Observers -> Values]
    /\ step = [o \in Observers |-> "find"]
    /\ mine = [o \in Observers |-> NoSeries]
    /\ old = [o \in Observers |-> 0]
    /\ series = NoSeries
    /\ counts = [o \in Observers |-> [v \in Values |-> 0]]
    /\ total = [o \in Observers |-> 0]
    /\ sum = [o \in Observers |-> 0]
    /\ scraped = <<>>
    /\ before = {}

-----------------------------------------------------------------------------

Goes(o, from, to) == step[o] = from /\ step' = [step EXCEPT ![o] = to]

\* slot, under the read lock.
FindSeries(o) ==
    /\ Goes(o, "find", IF series = NoSeries THEN "create" ELSE "count")
    /\ mine' = [mine EXCEPT ![o] = series]
    /\ UNCHANGED <<value, old, seriesVars, scrapeVars>>

\* Mutant: nobody else is expected to have created it.
CreatedUnchecked(o) == o

\* What slot finds or makes under the write lock: it looks again.
Created(o) == IF series = NoSeries THEN o ELSE series

CreateSeries(o) ==
    /\ Goes(o, "create", "count")
    /\ series' = Created(o)
    /\ mine' = [mine EXCEPT ![o] = series']
    /\ UNCHANGED <<value, old, counts, total, sum, scrapeVars>>

\* Exactly one slot is incremented.
SlotOf(v) == {v}

CountValue(o) ==
    /\ Goes(o, "count", "total")
    /\ counts' = [counts EXCEPT ![mine[o]] =
                    [v \in Values |-> @[v] + IF v \in SlotOf(value[o]) THEN 1 ELSE 0]]
    /\ UNCHANGED <<value, mine, old, series, total, sum, scrapeVars>>

AddTotal(o) ==
    /\ Goes(o, "total", "load")
    /\ total' = [total EXCEPT ![mine[o]] = @ + 1]
    /\ UNCHANGED <<value, mine, old, series, counts, sum, scrapeVars>>

\* addFloat: load, and then swap if nothing has changed.
LoadSum(o) ==
    /\ Goes(o, "load", "swap")
    /\ old' = [old EXCEPT ![o] = sum[mine[o]]]
    /\ UNCHANGED <<value, mine, seriesVars, scrapeVars>>

SwapSucceeds(o) == sum[mine[o]] = old[o]

SwapSum(o) ==
    /\ step[o] = "swap"
    /\ IF SwapSucceeds(o)
       THEN /\ Goes(o, "swap", "done")
            /\ sum' = [sum EXCEPT ![mine[o]] = old[o] + value[o]]
       ELSE Goes(o, "swap", "load") /\ UNCHANGED sum
    /\ UNCHANGED <<value, mine, old, series, counts, total, scrapeVars>>

\* The scrape: the series is looked up under the read lock, and its numbers are
\* loaded one after the other, cumulatively.
LineValue(i) ==
    CASE i = SumLine -> sum[series]
      [] i = CountLine -> total[series]
      [] OTHER -> (IF i = 1 THEN 0 ELSE scraped[i - 1]) + counts[series][i]

Over == {o \in Observers : step[o] = "done"}

ScrapeLine ==
    /\ series # NoSeries
    /\ Len(scraped) < CountLine
    /\ scraped' = Append(scraped, LineValue(Len(scraped) + 1))
    /\ before' = IF scraped = <<>> THEN Over ELSE before
    /\ UNCHANGED <<observerVars, seriesVars>>

EndScrape ==
    /\ Len(scraped) = CountLine
    /\ scraped' = <<>>
    /\ before' = {}
    /\ UNCHANGED <<observerVars, seriesVars>>

MetricsNext ==
    \/ \E o \in Observers :
         \/ FindSeries(o) \/ CreateSeries(o) \/ CountValue(o) \/ AddTotal(o)
         \/ LoadSum(o) \/ SwapSum(o)
    \/ ScrapeLine
    \/ EndScrape

MetricsSpec == MetricsInit /\ [][MetricsNext]_metricsVars

-----------------------------------------------------------------------------
(* Properties                                                              *)

\* What the line with this number says of some observations.
Told(obs, i) ==
    IF i = SumLine THEN MapThenSumSet(LAMBDA o : value[o], obs)
    ELSE Cardinality({o \in obs : i = CountLine \/ value[o] <= i})

\* "No observation is lost" (metrics.go:450-453, 161-164), to a race for a new
\* series or for the sum, and none counts twice: every line of a scrape tells of
\* all observations that were over when it began, and of none that has not begun.
ScrapesAreCurrent ==
    LET begun == {o \in Observers : step[o] \notin {"find", "create", "count"}} IN
    \A i \in DOMAIN scraped :
        /\ Told(before, i) <= scraped[i]
        /\ scraped[i] <= Told(begun, i)

=============================================================================
