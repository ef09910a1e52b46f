------------------------- MODULE CounterRatesProofs -------------------------
(***************************************************************************)
(* Rates, for any finite sets of instances and series and any traffic.  A  *)
(* shown rate counts requests that there were: never more of a group of    *)
(* series than were made between its two snapshots.                        *)
(***************************************************************************)
EXTENDS CounterRates, FiniteSetTheorems, SequenceTheorems, TLAPS

(* Sums over finite sets.  SumOver folds in an order of its own; it is the *)
(* sum of its parts in any.  A least set without a sum, which there would  *)
(* be if there were one at all, cannot be.                                 *)

Picked(s) == CHOOSE x \in s : TRUE

(* f gives every part of a group its sum. *)
IsSum(counts, group, f) ==
    \A s \in SUBSET group :
       f[s] = IF s = {} THEN 0 ELSE counts[Picked(s)] + f[s \ {Picked(s)}]

LEMMA FiniteMinimum ==
    ASSUME NEW group, IsFiniteSet(group), NEW T \in SUBSET (SUBSET group),
           T # {}
    PROVE  \E s \in T : \A t \in T : ~(t \subseteq s /\ t # s)
<1> DEFINE R == StrictSubsetOrdering(group)
           F == FiniteSubsetsOf(group)
<1>1. IsWellFoundedOn(R, F)
  BY FS_StrictSubsetOrderingWellFounded
<1>2. T \subseteq F
  BY FS_Subset DEF FiniteSubsetsOf
<1>3. \E s \in T : \A t \in T : ~(<<t, s>> \in R)
  <2> HIDE DEF R, F
  <2> QED BY <1>1, <1>2, WFMin, Zenon
<1>4. \A s, t \in T : (t \subseteq s /\ t # s) => <<t, s>> \in R
  BY DEF StrictSubsetOrdering
<1> HIDE DEF R
<1> QED BY <1>3, <1>4

LEMMA PickedIs ==
    ASSUME NEW s, s # {}
    PROVE  Picked(s) \in s /\ s \ {Picked(s)} \subseteq s
           /\ s \ {Picked(s)} # s
  BY DEF Picked

LEMMA SumsAgree ==
    ASSUME NEW counts, NEW group, IsFiniteSet(group), NEW f, NEW g,
           IsSum(counts, group, f), IsSum(counts, group, g),
           NEW s \in SUBSET group
    PROVE  f[s] = g[s]
<1> DEFINE T == {t \in SUBSET group : f[t] # g[t]}
<1> SUFFICES ASSUME T # {} PROVE FALSE
  OBVIOUS
<1>1. PICK t \in T : \A u \in T : ~(u \subseteq t /\ u # t)
  <2>1. T \in SUBSET (SUBSET group)
    OBVIOUS
  <2> HIDE DEF T
  <2> QED BY <2>1, FiniteMinimum
<1>2. t # {}
  BY DEF IsSum
<1>3. t \ {Picked(t)} \in SUBSET group /\ t \ {Picked(t)} \notin T
  BY <1>1, <1>2, PickedIs
<1> QED BY <1>2, <1>3 DEF IsSum

LEMMA SumsOfParts ==
    ASSUME NEW counts, NEW group, NEW f, IsSum(counts, group, f),
           NEW part \in SUBSET group
    PROVE  IsSum(counts, part, f)
  BY DEF IsSum

(* The sum of every part of a group, from the sums of its smaller parts.   *)
LEMMA SumsExist ==
    ASSUME NEW group, IsFiniteSet(group), NEW counts,
           \A x \in group : counts[x] \in Nat, NEW s \in SUBSET group
    PROVE  \E f \in [SUBSET group -> Nat] : IsSum(counts, s, f)
<1> DEFINE Sums(t) == {f \in [SUBSET group -> Nat] : IsSum(counts, t, f)}
           T == {t \in SUBSET group : Sums(t) = {}}
<1> SUFFICES ASSUME T # {} PROVE FALSE
  OBVIOUS
<1>1. PICK t \in T : \A u \in T : ~(u \subseteq t /\ u # t)
  <2>1. T \in SUBSET (SUBSET group)
    OBVIOUS
  <2> HIDE DEF T
  <2> QED BY <2>1, FiniteMinimum
<1>2. t \in SUBSET group /\ Sums(t) = {}
  OBVIOUS
<1>3. \A u \in SUBSET t : u # t => \E f \in Sums(u) : TRUE
  BY <1>1, <1>2
<1> DEFINE val == [u \in SUBSET group |-> (CHOOSE f \in Sums(u) : TRUE)[u]]
<1>4. ASSUME NEW u \in SUBSET t, u # t
      PROVE  \E f \in [SUBSET group -> Nat] :
                /\ IsSum(counts, u, f) /\ val[u] = f[u]
  <2>1. (CHOOSE f \in Sums(u) : TRUE) \in Sums(u)
    BY <1>3, <1>4
  <2>2. val[u] = (CHOOSE f \in Sums(u) : TRUE)[u]
    BY <1>2
  <2> HIDE DEF val
  <2> QED BY <2>1, <2>2
<1> DEFINE top == IF t = {} THEN 0
                  ELSE counts[Picked(t)] + val[t \ {Picked(t)}]
           h == [u \in SUBSET group |->
                    IF u = t THEN top
                    ELSE IF u \in SUBSET t THEN val[u] ELSE 0]
<1>5. \A u \in SUBSET t : u # t => val[u] \in Nat
  <2> HIDE DEF val
  <2> QED BY <1>2, <1>4
<1>6. top \in Nat
  <2>1. CASE t = {}
    BY <2>1
  <2>2. CASE t # {}
    <3>1. Picked(t) \in group /\ counts[Picked(t)] \in Nat
      BY <1>2, <2>2, PickedIs
    <3>2. val[t \ {Picked(t)}] \in Nat
      <4> HIDE DEF val
      <4> QED BY <1>5, <2>2, PickedIs
    <3> HIDE DEF val
    <3> QED BY <2>2, <3>1, <3>2
  <2> QED BY <2>1, <2>2
<1> HIDE DEF val, top
<1>7. h \in [SUBSET group -> Nat]
  BY <1>5, <1>6
<1>8. /\ h[t] = top
      /\ \A u \in SUBSET t : u # t => h[u] = val[u]
  BY <1>2
<1> HIDE DEF h
<1>9. ASSUME NEW u \in SUBSET t
      PROVE  h[u] = IF u = {} THEN 0 ELSE counts[Picked(u)] + h[u \ {Picked(u)}]
  <2>1. CASE u = t
    <3>1. t # {} => h[t \ {Picked(t)}] = val[t \ {Picked(t)}]
      BY <1>8, PickedIs
    <3> QED BY <1>8, <2>1, <3>1 DEF top
  <2>2. CASE u # t
    <3>1. PICK f \in [SUBSET group -> Nat] :
             IsSum(counts, u, f) /\ val[u] = f[u]
      BY <1>4, <2>2
    <3>2. CASE u = {}
      BY <1>8, <2>2, <3>1, <3>2 DEF IsSum
    <3>3. CASE u # {}
      <4> DEFINE less == u \ {Picked(u)}
      <4>1. less \in SUBSET u /\ less \in SUBSET t /\ less # t
        BY <2>2, <3>3, PickedIs
      <4>2. PICK g \in [SUBSET group -> Nat] :
               IsSum(counts, less, g) /\ val[less] = g[less]
        BY <1>4, <4>1
      <4>3. IsSum(counts, less, f) /\ IsFiniteSet(less) /\ less \in SUBSET less
        BY <1>2, <3>1, <4>1, SumsOfParts, FS_Subset
      <4>4. f[less] = g[less]
        BY <4>2, <4>3, SumsAgree
      <4>5. f[u] = counts[Picked(u)] + f[less]
        BY <3>1, <3>3 DEF IsSum
      <4> QED BY <1>8, <2>2, <3>1, <3>3, <4>1, <4>2, <4>4, <4>5
    <3> QED BY <3>2, <3>3
  <2> QED BY <2>1, <2>2
<1>10. h \in Sums(t)
  BY <1>7, <1>9 DEF IsSum
<1> QED BY <1>2, <1>10

LEMMA SumIs ==
    ASSUME NEW group, IsFiniteSet(group), NEW counts,
           \A x \in group : counts[x] \in Nat
    PROVE  \E f \in [SUBSET group -> Nat] :
              IsSum(counts, group, f) /\ SumOver(counts, group) = f[group]
<1> DEFINE Body(f) == [s \in SUBSET group |->
                         IF s = {} THEN 0
                         ELSE counts[Picked(s)] + f[s \ {Picked(s)}]]
           sum == CHOOSE f : f = Body(f)
<1>1. SumOver(counts, group) = sum[group]
  BY DEF SumOver, MapThenSumSet, MapThenFoldSet, Picked
<1>2. PICK f \in [SUBSET group -> Nat] : IsSum(counts, group, f)
  BY SumsExist
<1>3. f = Body(f)
  BY <1>2 DEF IsSum
<1>4. sum = Body(sum)
  <2> HIDE DEF Body
  <2> QED BY <1>3
<1>5. IsSum(counts, group, sum)
  <2> HIDE DEF sum
  <2> QED BY <1>4 DEF IsSum
<1>6. \A s \in SUBSET group : sum[s] = f[s]
  <2> HIDE DEF sum, Body
  <2> QED BY <1>2, <1>5, SumsAgree
<1>7. sum[group] = f[group]
  BY <1>6
<1> HIDE DEF sum
<1> QED BY <1>1, <1>2, <1>7

(* What a sum is known by: its type, its summands, and how sums compare.   *)
LEMMA SumType ==
    ASSUME NEW group, IsFiniteSet(group), NEW counts,
           \A x \in group : counts[x] \in Nat
    PROVE  SumOver(counts, group) \in Nat
<1>1. PICK f \in [SUBSET group -> Nat] :
         IsSum(counts, group, f) /\ SumOver(counts, group) = f[group]
  BY SumIs
<1> QED BY <1>1

LEMMA SumCovers ==
    ASSUME NEW group, IsFiniteSet(group), NEW counts,
           \A x \in group : counts[x] \in Nat, NEW x \in group
    PROVE  counts[x] <= SumOver(counts, group)
<1>1. PICK f \in [SUBSET group -> Nat] :
         IsSum(counts, group, f) /\ SumOver(counts, group) = f[group]
  BY SumIs
<1> DEFINE T == {s \in SUBSET group : x \in s /\ ~(counts[x] <= f[s])}
<1> SUFFICES ASSUME T # {} PROVE FALSE
  BY <1>1
<1>2. PICK t \in T : \A u \in T : ~(u \subseteq t /\ u # t)
  <2>1. T \in SUBSET (SUBSET group)
    OBVIOUS
  <2> HIDE DEF T
  <2> QED BY <2>1, FiniteMinimum
<1> DEFINE y == Picked(t)
           less == t \ {y}
<1>3. /\ t \in SUBSET group /\ x \in t /\ y \in t /\ less \in SUBSET group
      /\ less \notin T
  BY <1>2, PickedIs
<1>4. f[t] = counts[y] + f[less]
  BY <1>1, <1>3 DEF IsSum
<1>5. f[less] \in Nat /\ counts[y] \in Nat /\ counts[x] \in Nat /\ f[t] \in Nat
  BY <1>1, <1>3
<1>6. ~(counts[x] <= f[t])
  OBVIOUS
<1>7. y # x => counts[x] <= f[less]
  BY <1>3
<1> HIDE DEF T, y, less
<1> QED BY <1>4, <1>5, <1>6, <1>7

LEMMA SumsKeepOrder ==
    ASSUME NEW group, IsFiniteSet(group), NEW a, NEW b, NEW c, NEW d,
           \A x \in group : /\ a[x] \in Nat /\ b[x] \in Nat
                            /\ c[x] \in Nat /\ d[x] \in Nat
                            /\ a[x] + b[x] <= c[x] + d[x]
    PROVE  SumOver(a, group) + SumOver(b, group)
              <= SumOver(c, group) + SumOver(d, group)
<1>1. PICK fa \in [SUBSET group -> Nat] :
         IsSum(a, group, fa) /\ SumOver(a, group) = fa[group]
  BY SumIs
<1>2. PICK fb \in [SUBSET group -> Nat] :
         IsSum(b, group, fb) /\ SumOver(b, group) = fb[group]
  BY SumIs
<1>3. PICK fc \in [SUBSET group -> Nat] :
         IsSum(c, group, fc) /\ SumOver(c, group) = fc[group]
  BY SumIs
<1>4. PICK fd \in [SUBSET group -> Nat] :
         IsSum(d, group, fd) /\ SumOver(d, group) = fd[group]
  BY SumIs
<1> DEFINE T == {s \in SUBSET group : ~(fa[s] + fb[s] <= fc[s] + fd[s])}
<1> SUFFICES ASSUME T # {} PROVE FALSE
  BY <1>1, <1>2, <1>3, <1>4
<1>5. PICK t \in T : \A u \in T : ~(u \subseteq t /\ u # t)
  <2>1. T \in SUBSET (SUBSET group)
    OBVIOUS
  <2> HIDE DEF T
  <2> QED BY <2>1, FiniteMinimum
<1>6. t \in SUBSET group /\ ~(fa[t] + fb[t] <= fc[t] + fd[t])
  OBVIOUS
<1>7. t # {}
  <2> SUFFICES ASSUME t = {} PROVE FALSE
    OBVIOUS
  <2>1. fa[t] = 0 /\ fb[t] = 0 /\ fc[t] = 0 /\ fd[t] = 0
    BY <1>1, <1>2, <1>3, <1>4, <1>6 DEF IsSum
  <2> HIDE DEF T
  <2> QED BY <1>6, <2>1
<1> DEFINE y == Picked(t)
           less == t \ {y}
<1>8. y \in group /\ less \in SUBSET group /\ less \notin T
  BY <1>5, <1>6, <1>7, PickedIs
<1>9. fa[less] + fb[less] <= fc[less] + fd[less]
  BY <1>8
<1>10. /\ fa[t] = a[y] + fa[less] /\ fb[t] = b[y] + fb[less]
       /\ fc[t] = c[y] + fc[less] /\ fd[t] = d[y] + fd[less]
  BY <1>1, <1>2, <1>3, <1>4, <1>6, <1>7 DEF IsSum
<1>11. /\ a[y] \in Nat /\ b[y] \in Nat /\ c[y] \in Nat /\ d[y] \in Nat
       /\ a[y] + b[y] <= c[y] + d[y]
       /\ fa[less] \in Nat /\ fb[less] \in Nat
       /\ fc[less] \in Nat /\ fd[less] \in Nat
  BY <1>8
<1> HIDE DEF T, y, less
<1> QED BY <1>6, <1>9, <1>10, <1>11

-----------------------------------------------------------------------------
(* What is remembered of the counters, and what is shown.                  *)

(* A snapshot against the counters now: none of its requests is forgotten, *)
(* and a counter has gained no more than there were requests.              *)
IsPast(counter, requests, inst, snapshot) ==
    \A s \in RateSeries :
       /\ snapshot.requests[s] <= requests[<<inst, s>>]
       /\ snapshot.healthy =>
             counter[<<inst, s>>] + snapshot.requests[s]
                <= snapshot.counters[s] + requests[<<inst, s>>]

(* The same of a snapshot against a later one.                             *)
Follows(previous, current) ==
    previous.healthy /\ current.healthy =>
       \A s \in RateSeries :
          current.counters[s] + previous.requests[s]
             <= previous.counters[s] + current.requests[s]

RingIs(counter, requests, inst, entries) ==
    /\ \A k \in 1..Len(entries) : IsPast(counter, requests, inst, entries[k])
    /\ Len(entries) = Retention => Follows(entries[1], entries[2])

CachesArePast(counter, requests, cache) ==
    \A i \in RateInstances :
       cache[i] # NoSnapshot => IsPast(counter, requests, i, cache[i])

RatesInv ==
    /\ CounterRatesTypeOK
    /\ \A c \in RateCounters : crCounter[c] <= crRequests[c]
    /\ crRing.of = crInst
    /\ CachesArePast(crCounter, crRequests, crCache)
    /\ RingIs(crCounter, crRequests, crInst, crRing.entries)

LEMMA SnapshotFields ==
    ASSUME NEW snapshot \in Snapshot, NEW s \in RateSeries
    PROVE  /\ snapshot # NoSnapshot
           /\ snapshot.counters[s] \in 0..MaxTraffic
           /\ snapshot.requests[s] \in 0..MaxTraffic
           /\ snapshot.healthy \in BOOLEAN
  BY DEF Snapshot, NoSnapshot, SeriesCounts

LEMMA SnapshotIsOne ==
    ASSUME NEW snapshot \in Snapshot
    PROVE  snapshot # NoSnapshot
<1>1. snapshot.at \in 1..MaxRateClock
  BY DEF Snapshot
<1>2. NoSnapshot.at = 0
  BY DEF NoSnapshot
<1> QED BY <1>1, <1>2

(* Keeping what is in the ring, without the oldest if there were too many. *)
LEMMA RecordedIs ==
    ASSUME NEW entries \in Seq(Snapshot), Len(entries) <= Retention,
           NEW snapshot \in Snapshot, NEW inst, NEW counter, NEW requests,
           RingIs(counter, requests, inst, entries), IsPast(counter, requests, inst, snapshot),
           \A k \in 1..Len(entries) : Follows(entries[k], snapshot)
    PROVE  /\ Recorded(entries, snapshot) \in Seq(Snapshot)
           /\ Len(Recorded(entries, snapshot)) <= Retention
           /\ RingIs(counter, requests, inst, Recorded(entries, snapshot))
<1> DEFINE n == Len(entries)
           all == Append(entries, snapshot)
<1>1. n \in Nat /\ n <= 2 /\ Retention = 2
  BY LenProperties DEF Retention
<1>2. /\ all \in Seq(Snapshot) /\ Len(all) = n + 1
      /\ \A k \in 1..n : all[k] = entries[k]
      /\ all[n + 1] = snapshot
  OBVIOUS
<1>3. \A k \in 1..(n + 1) : IsPast(counter, requests, inst, all[k])
  <2> SUFFICES ASSUME NEW k \in 1..(n + 1) PROVE IsPast(counter, requests, inst, all[k])
    OBVIOUS
  <2>1. k \in 1..n \/ k = n + 1
    BY <1>1
  <2> HIDE DEF all
  <2> QED BY <1>2, <2>1 DEF RingIs
<1>4. CASE entries # <<>> /\ entries[Len(entries)].at = snapshot.at
  BY <1>4 DEF Recorded
<1>5. CASE ~(entries # <<>> /\ entries[Len(entries)].at = snapshot.at)
  <2>1. CASE n < 2
    <3>1. Recorded(entries, snapshot) = all
      BY <1>1, <1>2, <1>5, <2>1 DEF Recorded
    <3> HIDE DEF all
    <3>2. Len(all) = Retention => Follows(all[1], all[2])
      <4> SUFFICES ASSUME Len(all) = Retention PROVE Follows(all[1], all[2])
        OBVIOUS
      <4>1. n = 1 /\ 1 \in 1..n
        <5>1. Len(all) = n + 1 /\ Len(all) = 2
          BY <1>1, <1>2
        <5> HIDE DEF n
        <5> QED BY <1>1, <5>1
      <4> QED BY <1>2, <4>1
    <3> QED BY <1>1, <1>2, <1>3, <2>1, <3>1, <3>2 DEF RingIs
  <2>2. CASE n = 2
    <3>1. Recorded(entries, snapshot) = Tail(all)
      BY <1>1, <1>2, <1>5, <2>2 DEF Recorded
    <3> HIDE DEF all
    <3>2. all # <<>>
      <4>1. Len(all) = 3
        BY <1>2, <2>2
      <4> QED BY <4>1, EmptySeq
    <3> DEFINE kept == Tail(all)
    <3>3. /\ kept \in Seq(Snapshot) /\ Len(kept) = 2
          /\ kept[1] = all[2] /\ kept[2] = all[3]
      <4>1. all \in Seq(Snapshot) /\ all # <<>>
        BY <1>2, <3>2
      <4>2. /\ kept \in Seq(Snapshot) /\ Len(kept) = Len(all) - 1
            /\ \A i \in 1..Len(kept) : kept[i] = all[i + 1]
        BY ONLY <4>1, HeadTailProperties, Zenon
      <4> HIDE DEF kept, n
      <4>3. Len(all) = 3 /\ Len(kept) = 2
        BY <1>2, <2>2, <4>2
      <4>4. \A i \in 1..2 : kept[i] = all[i + 1]
        BY <4>2, <4>3
      <4>5. kept[1] = all[1 + 1] /\ kept[2] = all[2 + 1]
        BY <4>4
      <4>6. 1 + 1 = 2 /\ 2 + 1 = 3
        OBVIOUS
      <4>7. kept[1] = all[2] /\ kept[2] = all[3]
        BY <4>5, <4>6
      <4> QED BY <4>2, <4>3, <4>7
    <3>k. Recorded(entries, snapshot) = kept
      BY <3>1
    <3> HIDE DEF kept
    <3>4. /\ all[2] = entries[2] /\ all[3] = snapshot
          /\ IsPast(counter, requests, inst, all[2]) /\ IsPast(counter, requests, inst, all[3])
          /\ Follows(entries[2], snapshot)
      BY <1>2, <1>3, <2>2
    <3>5. Follows(kept[1], kept[2])
      BY <3>3, <3>4
    <3>6. \A k \in 1..2 : IsPast(counter, requests, inst, kept[k])
      <4>1. \A k \in 1..2 : k = 1 \/ k = 2
        OBVIOUS
      <4> QED BY <3>3, <3>4, <4>1
    <3> QED BY <1>1, <3>k, <3>3, <3>5, <3>6 DEF RingIs
  <2>3. n < 2 \/ n = 2
    <3> HIDE DEF n
    <3> QED BY <1>1
  <2> QED BY <2>1, <2>2, <2>3
<1> QED BY <1>4, <1>5

(* What steps of the counters do to a snapshot of before.                  *)
LEMMA PastStaysPast ==
    ASSUME NEW counter \in [RateCounters -> 0..MaxTraffic],
           NEW requests \in [RateCounters -> 0..MaxTraffic],
           NEW counter2 \in [RateCounters -> 0..MaxTraffic],
           NEW requests2 \in [RateCounters -> 0..MaxTraffic],
           NEW inst \in RateInstances, NEW snapshot \in Snapshot,
           IsPast(counter, requests, inst, snapshot),
           \A c \in RateCounters :
              /\ requests[c] <= requests2[c]
              /\ \/ counter2[c] = 0
                 \/ counter2[c] - counter[c] = requests2[c] - requests[c]
    PROVE  IsPast(counter2, requests2, inst, snapshot)
<1> SUFFICES ASSUME NEW s \in RateSeries
             PROVE  /\ snapshot.requests[s] <= requests2[<<inst, s>>]
                    /\ snapshot.healthy =>
                          counter2[<<inst, s>>] + snapshot.requests[s]
                             <= snapshot.counters[s] + requests2[<<inst, s>>]
  BY DEF IsPast
<1> DEFINE c == <<inst, s>>
<1>1. c \in RateCounters
  BY DEF RateCounters
<1>2. /\ requests[c] \in Nat /\ requests2[c] \in Nat
      /\ counter[c] \in Nat /\ counter2[c] \in Nat
  BY <1>1, RateAssumption
<1>3. snapshot.requests[s] \in Nat /\ snapshot.counters[s] \in Nat
  BY SnapshotFields
<1>4. /\ snapshot.requests[s] <= requests[c]
      /\ snapshot.healthy =>
            counter[c] + snapshot.requests[s]
               <= snapshot.counters[s] + requests[c]
  BY DEF IsPast
<1>5. /\ requests[c] <= requests2[c]
      /\ \/ counter2[c] = 0
         \/ counter2[c] - counter[c] = requests2[c] - requests[c]
  BY <1>1
<1> HIDE DEF c
<1>6. snapshot.requests[s] <= requests2[c]
  BY <1>2, <1>3, <1>4, <1>5
<1>7. ASSUME snapshot.healthy
      PROVE  counter2[c] + snapshot.requests[s]
                <= snapshot.counters[s] + requests2[c]
  BY <1>2, <1>3, <1>4, <1>5, <1>7
<1> QED BY <1>6, <1>7 DEF c

LEMMA RenderKeepsRates ==
    ASSUME CounterRatesTypeOK, NEW counter, NEW requests,
           crRing.of = crInst,
           RingIs(counter, requests, crInst, crRing.entries),
           NEW inst \in RateInstances,
           NEW cache \in [RateInstances -> Snapshot \cup {NoSnapshot}],
           RenderRates(inst, cache),
           CachesArePast(counter, requests, cache),
           inst = crInst /\ cache[inst] # NoSnapshot =>
              \A k \in 1..Len(crRing.entries) :
                 Follows(crRing.entries[k], cache[inst])
    PROVE  /\ crInst' \in RateInstances
           /\ crCache' \in [RateInstances -> Snapshot \cup {NoSnapshot}]
           /\ crRing' \in [of : RateInstances, entries : Seq(Snapshot)]
           /\ Len(crRing'.entries) <= Retention
           /\ crRing'.of = crInst'
           /\ CachesArePast(counter, requests, crCache')
           /\ RingIs(counter, requests, crInst', crRing'.entries)
<1> DEFINE ring == RingOf(inst)
           new == IF cache[inst] = NoSnapshot THEN ring.entries
                  ELSE Recorded(ring.entries, cache[inst])
<1>1. /\ crInst' = inst /\ crCache' = cache
      /\ crRing' = IF cache[inst] = NoSnapshot THEN ring
                   ELSE [ring EXCEPT !.entries = Recorded(@, cache[inst])]
  BY DEF RenderRates
<1>3. /\ ring \in [of : RateInstances, entries : Seq(Snapshot)]
      /\ ring.of = inst /\ Len(ring.entries) <= Retention
      /\ RingIs(counter, requests, inst, ring.entries)
      /\ cache[inst] # NoSnapshot =>
            \A k \in 1..Len(ring.entries) :
               Follows(ring.entries[k], cache[inst])
  <2>1. CASE inst = crInst
    <3>1. ring = crRing
      BY <2>1 DEF RingOf
    <3> HIDE DEF ring
    <3> QED BY <2>1, <3>1 DEF CounterRatesTypeOK
  <2>2. CASE inst # crInst
    <3>1. ring = [of |-> inst, entries |-> <<>>]
      BY <2>2 DEF RingOf
    <3>2. <<>> \in Seq(Snapshot) /\ Len(<<>>) = 0
      BY EmptySeq
    <3> HIDE DEF ring
    <3>3. ring.entries = <<>> /\ ring.of = inst
      BY <3>1
    <3> QED BY <3>1, <3>2, <3>3 DEF RingIs, Retention
  <2> QED BY <2>1, <2>2
<1> HIDE DEF ring
<1>4. /\ crRing' = [of |-> inst, entries |-> new]
  BY <1>1, <1>3
<1>5. new \in Seq(Snapshot) /\ Len(new) <= Retention /\ RingIs(counter, requests, inst, new)
  <2>1. CASE cache[inst] = NoSnapshot
    BY <1>3, <2>1
  <2>2. CASE cache[inst] # NoSnapshot
    <3>1. /\ ring.entries \in Seq(Snapshot) /\ Len(ring.entries) <= Retention
          /\ RingIs(counter, requests, inst, ring.entries) /\ cache[inst] \in Snapshot
          /\ IsPast(counter, requests, inst, cache[inst])
          /\ \A k \in 1..Len(ring.entries) :
                Follows(ring.entries[k], cache[inst])
      BY <1>3, <2>2 DEF CachesArePast
    <3> DEFINE entries == ring.entries
               snapshot == cache[inst]
    <3> HIDE DEF entries, snapshot
    <3>2. /\ entries \in Seq(Snapshot) /\ Len(entries) <= Retention
          /\ RingIs(counter, requests, inst, entries) /\ snapshot \in Snapshot
          /\ IsPast(counter, requests, inst, snapshot)
          /\ \A k \in 1..Len(entries) : Follows(entries[k], snapshot)
      BY <3>1 DEF entries, snapshot
    <3>3. /\ Recorded(entries, snapshot) \in Seq(Snapshot)
          /\ Len(Recorded(entries, snapshot)) <= Retention
          /\ RingIs(counter, requests, inst, Recorded(entries, snapshot))
      BY ONLY <3>2, RecordedIs, Zenon
    <3> QED BY <2>2, <3>3 DEF entries, snapshot
  <2> QED BY <2>1, <2>2
<1> HIDE DEF new
<1>6. /\ crRing'.of = inst /\ crRing'.entries = new
  BY <1>4
<1>7. crRing' \in [of : RateInstances, entries : Seq(Snapshot)]
  BY <1>4, <1>5
<1> QED BY <1>1, <1>5, <1>6, <1>7

LEMMA CountersStart == CounterRatesInit => RatesInv
<1> SUFFICES ASSUME CounterRatesInit PROVE RatesInv
  OBVIOUS
<1>1. 0 \in 0..MaxTraffic /\ 0 \in 0..MaxRateClock
  BY RateAssumption
<1>2. <<>> \in Seq(Snapshot) /\ Len(<<>>) = 0
  BY EmptySeq
<1>3. crRing.of = crInst /\ crRing.entries = <<>>
  BY DEF CounterRatesInit
<1>4. CounterRatesTypeOK
  BY <1>1, <1>2, <1>3 DEF CounterRatesInit, CounterRatesTypeOK, Retention
<1>5. RingIs(crCounter, crRequests, crInst, crRing.entries)
  BY <1>2, <1>3 DEF RingIs, Retention
<1>6. CachesArePast(crCounter, crRequests, crCache)
  BY DEF CounterRatesInit, CachesArePast
<1>7. \A c \in RateCounters : crCounter[c] <= crRequests[c]
  BY DEF CounterRatesInit
<1> QED BY <1>3, <1>4, <1>5, <1>6, <1>7 DEF RatesInv

(* Counting and restarting: the snapshots stay, the counters move.         *)
LEMMA CountersMove ==
    ASSUME RatesInv, UNCHANGED <<crCache, crInst, crRing, crNow>>,
           crCounter' \in [RateCounters -> 0..MaxTraffic],
           crRequests' \in [RateCounters -> 0..MaxTraffic],
           \A c \in RateCounters :
              /\ crCounter'[c] <= crRequests'[c]
              /\ crRequests[c] <= crRequests'[c]
              /\ \/ crCounter'[c] = 0
                 \/ crCounter'[c] - crCounter[c]
                       = crRequests'[c] - crRequests[c]
    PROVE  RatesInv'
<1>1. /\ crCounter \in [RateCounters -> 0..MaxTraffic]
      /\ crRequests \in [RateCounters -> 0..MaxTraffic]
      /\ crCache \in [RateInstances -> Snapshot \cup {NoSnapshot}]
      /\ crInst \in RateInstances /\ crRing.entries \in Seq(Snapshot)
  BY DEF RatesInv, CounterRatesTypeOK
<1>2. ASSUME NEW inst \in RateInstances, NEW snapshot \in Snapshot,
             IsPast(crCounter, crRequests, inst, snapshot)
      PROVE  IsPast(crCounter', crRequests', inst, snapshot)
  BY <1>1, <1>2, PastStaysPast
<1>3. CachesArePast(crCounter', crRequests', crCache)
  BY <1>1, <1>2 DEF RatesInv, CachesArePast
<1>4. RingIs(crCounter', crRequests', crInst, crRing.entries)
  <2>1. ASSUME NEW k \in 1..Len(crRing.entries)
        PROVE  IsPast(crCounter', crRequests', crInst, crRing.entries[k])
    <3>1. crRing.entries[k] \in Snapshot
      BY <1>1, ElementOfSeq
    <3> QED BY <1>1, <1>2, <3>1 DEF RatesInv, RingIs
  <2> QED BY <2>1 DEF RatesInv, RingIs
<1>5. CounterRatesTypeOK'
  BY DEF RatesInv, CounterRatesTypeOK
<1> QED BY <1>3, <1>4, <1>5 DEF RatesInv

(* A request counted: the sum of all bounds the counter of each.           *)
LEMMA CountedIsTyped ==
    ASSUME RatesInv, NEW c \in RateCounters, CountRequest(c)
    PROVE  RatesInv'
<1>1. /\ crCounter \in [RateCounters -> 0..MaxTraffic]
      /\ crRequests \in [RateCounters -> 0..MaxTraffic]
      /\ \A d \in RateCounters : crCounter[d] <= crRequests[d]
      /\ MaxTraffic \in Nat
  BY RateAssumption DEF RatesInv, CounterRatesTypeOK
<1>2. IsFiniteSet(RateCounters) /\ \A d \in RateCounters : crRequests[d] \in Nat
  BY <1>1, RateAssumption, FS_Product DEF RateCounters
<1>3. crRequests[c] <= SumOver(crRequests, RateCounters)
  BY <1>2, SumCovers
<1>4. SumOver(crRequests, RateCounters) \in Nat
  BY <1>2, SumType
<1>5. /\ SumOver(crRequests, RateCounters) < MaxTraffic
      /\ crRequests' = [crRequests EXCEPT ![c] = @ + 1]
      /\ crCounter' = [crCounter EXCEPT ![c] = @ + 1]
      /\ UNCHANGED <<crCache, crInst, crRing, crNow>>
  BY DEF CountRequest
<1>6. /\ crRequests[c] + 1 \in 0..MaxTraffic
      /\ crCounter[c] + 1 \in 0..MaxTraffic
  BY <1>1, <1>2, <1>3, <1>4, <1>5
<1>7. /\ crRequests' \in [RateCounters -> 0..MaxTraffic]
      /\ crCounter' \in [RateCounters -> 0..MaxTraffic]
  BY <1>1, <1>5, <1>6
<1>8. ASSUME NEW d \in RateCounters
      PROVE  /\ crCounter'[d] <= crRequests'[d]
             /\ crRequests[d] <= crRequests'[d]
             /\ crCounter'[d] - crCounter[d] = crRequests'[d] - crRequests[d]
  BY <1>1, <1>5
<1> QED BY <1>5, <1>7, <1>8, CountersMove

LEMMA RatesStep == RatesInv /\ [CounterRatesNext]_crvars => RatesInv'
<1> SUFFICES ASSUME RatesInv, [CounterRatesNext]_crvars
             PROVE  RatesInv'
  OBVIOUS
<1>0. /\ CounterRatesTypeOK
      /\ crCounter \in [RateCounters -> 0..MaxTraffic]
      /\ crRequests \in [RateCounters -> 0..MaxTraffic]
      /\ crCache \in [RateInstances -> Snapshot \cup {NoSnapshot}]
      /\ crNow \in 0..MaxRateClock /\ MaxRateClock \in Nat /\ MaxTraffic \in Nat
      /\ crInst \in RateInstances /\ crRing.of = crInst
      /\ crRing.entries \in Seq(Snapshot)
      /\ CachesArePast(crCounter, crRequests, crCache)
      /\ RingIs(crCounter, crRequests, crInst, crRing.entries)
      /\ \A c \in RateCounters : crCounter[c] <= crRequests[c]
  BY RateAssumption DEF RatesInv, CounterRatesTypeOK
<1>1. ASSUME NEW c \in RateCounters, CountRequest(c)
      PROVE  RatesInv'
  BY <1>1, CountedIsTyped
<1>2. ASSUME NEW inst \in RateInstances, GatewayRestarts(inst)
      PROVE  RatesInv'
  <2>1. /\ crCounter' = [c \in RateCounters |-> IF c[1] = inst THEN 0
                                                ELSE crCounter[c]]
        /\ crRequests' = crRequests
        /\ UNCHANGED <<crCache, crInst, crRing, crNow>>
    BY <1>2 DEF GatewayRestarts
  <2>2. crCounter' \in [RateCounters -> 0..MaxTraffic]
    BY <1>0, <2>1
  <2>3. ASSUME NEW c \in RateCounters
        PROVE  /\ crCounter'[c] <= crRequests'[c]
               /\ crRequests[c] <= crRequests'[c]
               /\ \/ crCounter'[c] = 0
                  \/ crCounter'[c] - crCounter[c]
                        = crRequests'[c] - crRequests[c]
    <3>1. crRequests[c] \in Nat /\ crCounter[c] \in Nat
      BY <1>0
    <3> QED BY <1>0, <2>1, <3>1
  <2> QED BY <1>0, <2>1, <2>2, <2>3, CountersMove
<1>3. ASSUME NEW inst \in RateInstances, SwitchInstance(inst)
      PROVE  RatesInv'
  <2>1. /\ inst # crInst /\ RenderRates(inst, crCache)
        /\ UNCHANGED <<crCounter, crRequests, crNow>>
    BY <1>3 DEF SwitchInstance
  <2>2. /\ crInst' \in RateInstances
        /\ crCache' \in [RateInstances -> Snapshot \cup {NoSnapshot}]
        /\ crRing' \in [of : RateInstances, entries : Seq(Snapshot)]
        /\ Len(crRing'.entries) <= Retention
        /\ crRing'.of = crInst'
        /\ CachesArePast(crCounter, crRequests, crCache')
        /\ RingIs(crCounter, crRequests, crInst', crRing'.entries)
    BY <1>0, <2>1, RenderKeepsRates
  <2> QED BY <1>0, <2>1, <2>2 DEF RatesInv, CounterRatesTypeOK
<1>4. ASSUME ReceiveSnapshot
      PROVE  RatesInv'
  <2> DEFINE of(healthy) ==
        [at |-> crNow + 1, healthy |-> healthy,
         counters |-> [s \in RateSeries |->
                          IF healthy THEN crCounter[<<crInst, s>>] ELSE 0],
         requests |-> [s \in RateSeries |-> crRequests[<<crInst, s>>]]]
  <2>1. PICK healthy \in BOOLEAN :
           RenderRates(crInst, [crCache EXCEPT ![crInst] = of(healthy)])
    BY <1>4 DEF ReceiveSnapshot
  <2>2. /\ crNow < MaxRateClock /\ crNow' = crNow + 1
        /\ UNCHANGED <<crCounter, crRequests>>
    BY <1>4 DEF ReceiveSnapshot
  <2> DEFINE snapshot == of(healthy)
             cache == [crCache EXCEPT ![crInst] = snapshot]
  <2>3. \A s \in RateSeries : /\ <<crInst, s>> \in RateCounters
                              /\ crCounter[<<crInst, s>>] \in 0..MaxTraffic
                              /\ crRequests[<<crInst, s>>] \in 0..MaxTraffic
    BY <1>0 DEF RateCounters
  <2>4. snapshot \in Snapshot
    <3>1. crNow + 1 \in 1..MaxRateClock /\ 0 \in 0..MaxTraffic
      BY <1>0, <2>2
    <3>2. /\ snapshot.counters \in SeriesCounts
          /\ snapshot.requests \in SeriesCounts
      BY <2>3, <3>1 DEF SeriesCounts
    <3> QED BY <3>1, <3>2 DEF Snapshot
  <2>5. /\ snapshot.healthy = healthy
        /\ \A s \in RateSeries :
              /\ snapshot.requests[s] = crRequests[<<crInst, s>>]
              /\ healthy => snapshot.counters[s] = crCounter[<<crInst, s>>]
    OBVIOUS
  <2> HIDE DEF of, snapshot
  <2>6. IsPast(crCounter, crRequests, crInst, snapshot)
    BY <2>3, <2>5 DEF IsPast
  <2>7. ASSUME NEW previous \in Snapshot,
               IsPast(crCounter, crRequests, crInst, previous)
        PROVE  Follows(previous, snapshot)
    <3> SUFFICES ASSUME previous.healthy, snapshot.healthy, NEW s \in RateSeries
                 PROVE  snapshot.counters[s] + previous.requests[s]
                           <= previous.counters[s] + snapshot.requests[s]
      BY DEF Follows
    <3> QED BY <2>5, <2>7 DEF IsPast
  <2>8. cache \in [RateInstances -> Snapshot \cup {NoSnapshot}]
        /\ cache[crInst] = snapshot
    BY <1>0, <2>4
  <2>9. CachesArePast(crCounter, crRequests, cache)
    <3>1. \A i \in RateInstances : i # crInst => cache[i] = crCache[i]
      BY <1>0
    <3> HIDE DEF cache
    <3> QED BY <1>0, <2>6, <2>8, <3>1 DEF CachesArePast
  <2>10. RenderRates(crInst, cache)
    BY <2>1 DEF snapshot
  <2> HIDE DEF cache
  <2>11. \A k \in 1..Len(crRing.entries) :
            Follows(crRing.entries[k], cache[crInst])
    <3> SUFFICES ASSUME NEW k \in 1..Len(crRing.entries)
                 PROVE  Follows(crRing.entries[k], snapshot)
      BY <2>8
    <3>1. crRing.entries[k] \in Snapshot
      BY <1>0, ElementOfSeq
    <3>2. IsPast(crCounter, crRequests, crInst, crRing.entries[k])
      BY <1>0 DEF RingIs
    <3> QED BY <2>7, <3>1, <3>2
  <2>12. /\ crInst' \in RateInstances
         /\ crCache' \in [RateInstances -> Snapshot \cup {NoSnapshot}]
         /\ crRing' \in [of : RateInstances, entries : Seq(Snapshot)]
         /\ Len(crRing'.entries) <= Retention
         /\ crRing'.of = crInst'
         /\ CachesArePast(crCounter, crRequests, crCache')
         /\ RingIs(crCounter, crRequests, crInst', crRing'.entries)
    BY <1>0, <2>8, <2>9, <2>10, <2>11, RenderKeepsRates
  <2>13. crNow' \in 0..MaxRateClock
    BY <1>0, <2>2
  <2> QED BY <1>0, <2>2, <2>12, <2>13 DEF RatesInv, CounterRatesTypeOK
<1>5. ASSUME NoSnapshotComes
      PROVE  RatesInv'
  <2>1. crNow' \in 0..MaxRateClock
    BY <1>0, <1>5 DEF NoSnapshotComes
  <2> QED BY <1>0, <1>5, <2>1 DEF NoSnapshotComes, RatesInv, CounterRatesTypeOK
<1>6. CASE UNCHANGED crvars
  BY <1>0, <1>6 DEF crvars, RatesInv, CounterRatesTypeOK
<1> QED BY <1>1, <1>2, <1>3, <1>4, <1>5, <1>6 DEF CounterRatesNext

LEMMA RatesInvImplies == RatesInv => RatesAreTraffic
<1> SUFFICES ASSUME RatesInv, Len(crRing.entries) = Retention,
                    NEW group \in SUBSET RateSeries
             PROVE  LET previous == crRing.entries[1]
                        current == crRing.entries[2]
                        before == SumOver(previous.counters, group)
                        now == SumOver(current.counters, group)
                    IN  /\ \/ GroupIsKnown(previous, current, group)
                           \/ PartIsKnown(previous, current)
                        /\ IsRate(previous, current, before, now)
                        => now - before <= SumOver(current.requests, group)
                                           - SumOver(previous.requests, group)
  BY DEF RatesAreTraffic
<1> DEFINE previous == crRing.entries[1]
           current == crRing.entries[2]
<1>1. /\ crRing.entries \in Seq(Snapshot)
      /\ 1 \in 1..Len(crRing.entries) /\ 2 \in 1..Len(crRing.entries)
  BY DEF RatesInv, CounterRatesTypeOK, Retention
<1>2. previous \in Snapshot /\ current \in Snapshot
  BY <1>1, ElementOfSeq
<1>3. Follows(previous, current)
  BY DEF RatesInv, RingIs
<1>4. IsFiniteSet(group)
  BY RateAssumption, FS_Subset
<1> HIDE DEF previous, current
<1>5. \/ GroupIsKnown(previous, current, group) \/ PartIsKnown(previous, current)
      => previous.healthy /\ current.healthy
  BY DEF GroupIsKnown, PartIsKnown, HasSample
<1>6. ASSUME previous.healthy, current.healthy
      PROVE  SumOver(current.counters, group) + SumOver(previous.requests, group)
                <= SumOver(previous.counters, group)
                   + SumOver(current.requests, group)
  <2>1. \A s \in group :
           /\ current.counters[s] \in Nat /\ previous.requests[s] \in Nat
           /\ previous.counters[s] \in Nat /\ current.requests[s] \in Nat
           /\ current.counters[s] + previous.requests[s]
                 <= previous.counters[s] + current.requests[s]
    BY <1>2, <1>3, <1>6, SnapshotFields DEF Follows
  <2> QED BY <1>4, <2>1, SumsKeepOrder
<1>7. /\ SumOver(current.counters, group) \in Nat
      /\ SumOver(previous.counters, group) \in Nat
      /\ SumOver(current.requests, group) \in Nat
      /\ SumOver(previous.requests, group) \in Nat
  <2>1. \A s \in group :
           /\ current.counters[s] \in Nat /\ previous.requests[s] \in Nat
           /\ previous.counters[s] \in Nat /\ current.requests[s] \in Nat
    BY <1>2, SnapshotFields
  <2> QED BY <1>4, <2>1, SumType
<1>8. previous.healthy /\ current.healthy =>
         SumOver(current.counters, group) - SumOver(previous.counters, group)
            <= SumOver(current.requests, group)
               - SumOver(previous.requests, group)
  BY <1>6, <1>7
<1> QED BY <1>5, <1>8 DEF previous, current

THEOREM RatesAreTyped == CounterRatesSpec => []CounterRatesTypeOK
<1>1. RatesInv => CounterRatesTypeOK
  BY DEF RatesInv
<1> QED BY <1>1, CountersStart, RatesStep, PTL DEF CounterRatesSpec

THEOREM ShownRatesAreTraffic == CounterRatesSpec => []RatesAreTraffic
  BY RatesInvImplies, CountersStart, RatesStep, PTL DEF CounterRatesSpec
=============================================================================
