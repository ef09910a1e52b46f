---------------------------- MODULE CounterRates ---------------------------
(***************************************************************************)
(* Rates from the snapshots of a gateway's counters (useMetricsSnapshot,   *)
(* snapshotRates, rates).  A counter counts up until the gateway restarts; *)
(* a labelled series does not exist before its first increment.  A page    *)
(* keeps a ring of the snapshots it has seen and shows the difference of   *)
(* the last two, for each group of series, as traffic.  Scrapes fail, tabs *)
(* are hidden, and the operator goes from one instance to another.         *)
(***************************************************************************)
EXTENDS Naturals, Sequences, FiniteSetsExt

CONSTANTS
    RateInstances,    \* instances the page may be of
    RateSeries,       \* label sets of the counter family
    MaxTraffic,       \* bound: requests in all
    MaxRateClock,     \* bound: the clock
    MaxGap            \* rateMaxGapMs, in ticks

ASSUME RateAssumption ==
    /\ IsFiniteSet(RateInstances) /\ IsFiniteSet(RateSeries)
    /\ MaxTraffic \in Nat /\ MaxRateClock \in Nat /\ MaxGap \in Nat \ {0}

Retention == 2        \* of the SNAPSHOT_RETENTION entries two are looked at
RateCounters == RateInstances \X RateSeries
SeriesCounts == [RateSeries -> 0..MaxTraffic]

(* The sum over a group of series; aggregateSum, of finite values. *)
SumOver(counts, group) == MapThenSumSet(LAMBDA s : counts[s], group)

(* A snapshot: when it was received, whether the exposition was healthy,   *)
(* its counters (0: no such series), and the requests there had been.      *)
Snapshot == [at : 1..MaxRateClock, healthy : BOOLEAN, counters : SeriesCounts,
             requests : SeriesCounts]
NoSnapshot == [at |-> 0]

VARIABLES
    crCounter,   \* the counters of every instance
    crRequests,  \* ghost: the requests they have counted, restarts or not
    crNow,       \* the clock
    crCache,     \* the query's data: the last snapshot of every instance
    crInst,      \* the instance of the page
    crRing       \* the ring: whose it is, and its snapshots
crvars == <<crCounter, crRequests, crNow, crCache, crInst, crRing>>

----------------------------------------------------------------------------
CounterRatesTypeOK ==
    /\ crCounter \in [RateCounters -> 0..MaxTraffic]
    /\ crRequests \in [RateCounters -> 0..MaxTraffic]
    /\ crNow \in 0..MaxRateClock
    /\ crCache \in [RateInstances -> Snapshot \cup {NoSnapshot}]
    /\ crInst \in RateInstances
    /\ crRing \in [of : RateInstances, entries : Seq(Snapshot)]
    /\ Len(crRing.entries) <= Retention

CounterRatesInit ==
    /\ crCounter = [c \in RateCounters |-> 0]
    /\ crRequests = [c \in RateCounters |-> 0]
    /\ crNow = 0
    /\ crCache = [i \in RateInstances |-> NoSnapshot]
    /\ crInst \in RateInstances /\ crRing = [of |-> crInst, entries |-> <<>>]

(* The effect after a render: the ring is that of the page's instance, and *)
(* an observation enters it once.                                          *)
KeepsRing(inst) == [crRing EXCEPT !.of = inst]      \* mutant: no ringKey
RingOf(inst) == IF crRing.of = inst THEN crRing
                ELSE [of |-> inst, entries |-> <<>>]

RecordedForGood(entries, snapshot) ==            \* mutant: no retention
    IF entries # <<>> /\ entries[Len(entries)].at = snapshot.at THEN entries
    ELSE Append(entries, snapshot)
Recorded(entries, snapshot) ==
    IF entries # <<>> /\ entries[Len(entries)].at = snapshot.at THEN entries
    ELSE LET all == Append(entries, snapshot)
         IN IF Len(all) > Retention THEN Tail(all) ELSE all

RenderRates(inst, cache) ==
    /\ crInst' = inst /\ crCache' = cache
    /\ crRing' = IF cache[inst] = NoSnapshot THEN RingOf(inst)
                 ELSE [RingOf(inst) EXCEPT !.entries =
                          Recorded(@, cache[inst])]

----------------------------------------------------------------------------
CountRequest(c) ==
    /\ SumOver(crRequests, RateCounters) < MaxTraffic
    /\ crRequests' = [crRequests EXCEPT ![c] = @ + 1]
    /\ crCounter' = [crCounter EXCEPT ![c] = @ + 1]
    /\ UNCHANGED <<crNow, crCache, crInst, crRing>>

GatewayRestarts(inst) ==
    /\ crCounter' = [c \in RateCounters |-> IF c[1] = inst THEN 0
                                            ELSE crCounter[c]]
    /\ UNCHANGED <<crRequests, crNow, crCache, crInst, crRing>>

(* The poll brings a snapshot, of a healthy exposition or of none.         *)
ReceiveSnapshot ==
    /\ crNow < MaxRateClock /\ crNow' = crNow + 1
    /\ \E healthy \in BOOLEAN :
         RenderRates(crInst, [crCache EXCEPT ![crInst] =
            [at |-> crNow', healthy |-> healthy,
             counters |-> [s \in RateSeries |->
                              IF healthy THEN crCounter[<<crInst, s>>] ELSE 0],
             requests |-> [s \in RateSeries |-> crRequests[<<crInst, s>>]]]])
    /\ UNCHANGED <<crCounter, crRequests>>

(* The tab is hidden, or polls are missed. *)
NoSnapshotComes ==
    /\ crNow < MaxRateClock /\ crNow' = crNow + 1
    /\ UNCHANGED <<crCounter, crRequests, crCache, crInst, crRing>>

(* The page is of another instance, whose last snapshot may be cached.     *)
SwitchInstance(inst) ==
    /\ inst # crInst /\ RenderRates(inst, crCache)
    /\ UNCHANGED <<crCounter, crRequests, crNow>>

CounterRatesNext ==
    \/ \E c \in RateCounters : CountRequest(c)
    \/ \E inst \in RateInstances : GatewayRestarts(inst) \/ SwitchInstance(inst)
    \/ ReceiveSnapshot \/ NoSnapshotComes

CounterRatesSpec == CounterRatesInit /\ [][CounterRatesNext]_crvars

----------------------------------------------------------------------------
(* What is shown.  The sum of a group is undefined without a sample.       *)
HasSample(snapshot, group) ==
    snapshot.healthy /\ \E s \in group : snapshot.counters[s] > 0

(* computeCounterRate: whether the difference of two sums is a rate.       *)
IsRate(previous, current, before, now) ==
    /\ current.at > previous.at /\ current.at - previous.at <= MaxGap
    /\ now >= before

(* groupRates needs a sample of the group in both snapshots; partitionRate *)
(* takes a part without one for 0 where the family itself is there.        *)
GroupIsKnown(previous, current, group) ==
    HasSample(previous, group) /\ HasSample(current, group)
PartIsKnown(previous, current) ==
    HasSample(previous, RateSeries) /\ HasSample(current, RateSeries)

(* A rate that is shown is of requests that the instance shown has counted *)
(* between the two snapshots it names: never more than there were, across  *)
(* restarts, new series, failed scrapes and changes of the instance.       *)
RatesAreTraffic ==
    Len(crRing.entries) = Retention =>
       LET previous == crRing.entries[1]
           current  == crRing.entries[2]
       IN \A group \in SUBSET RateSeries :
             LET before == SumOver(previous.counters, group)
                 now    == SumOver(current.counters, group)
             IN /\ \/ GroupIsKnown(previous, current, group)
                   \/ PartIsKnown(previous, current)
                /\ IsRate(previous, current, before, now)
                => now - before <= SumOver(current.requests, group)
                                   - SumOver(previous.requests, group)
=============================================================================
