---------------------------- MODULE PerfMeasure -----------------------------
(***************************************************************************)
(* How the performance client turns what it recorded into the numbers it   *)
(* reports (src/clients/c++/perf_client.cc), as operators: the window that *)
(* is measured, the latencies in it, the change of the server's counters,  *)
(* and whether the last measurements are stable.                           *)
(*                                                                         *)
(* A timestamp is a record [start, end, last], "last" for the last request *)
(* of a sequence.  The tolerance is in per cent.                           *)
(***************************************************************************)
EXTENDS Naturals, Integers, Sequences, FiniteSets, SequencesExt, FiniteSetsExt

Recent == 3
Total(s) == FoldLeft(LAMBDA a, b : a + b, 0, s)

(* MeasurementTimestamp: a window in the middle of what was recorded; a      *)
(* first start of 0 counts as none yet.                                      *)
MeasurementTimestamp(stamps, window) ==
  LET first == FoldLeft(LAMBDA m, s : IF m > s.start \/ m = 0 THEN s.start ELSE m, 0, stamps)
      last == FoldLeft(LAMBDA m, s : IF m < s.end \/ m = 0 THEN s.end ELSE m, 0, stamps)
      offset == IF first + window > last THEN 0 ELSE (last - (first + window)) \div 2
  IN  <<first + offset, first + offset + window>>

(* ValidLatencyMeasurement: the requests that ended inside the window.       *)
Counted(stamps, range) ==
  SelectSeq(stamps, LAMBDA s : s.start <= s.end /\ s.end >= range[1] /\ s.end <= range[2])
Latencies(stamps, range, sorted) ==
  LET l == [i \in DOMAIN Counted(stamps, range) |->
              Counted(stamps, range)[i].end - Counted(stamps, range)[i].start]
  IN  IF sorted THEN SortSeq(l, <) ELSE l
SequencesEnded(stamps, range) == Len(SelectSeq(Counted(stamps, range), LAMBDA s : s.last))

(* SummarizeLatency: nothing without a request; an average, or the latency   *)
(* at the percentile, whose index is rounded to the nearest.                 *)
PercentileIndex(percentile, n) == 1 + (2 * percentile * (n - 1) + 100) \div 200
SummarizeLatency(latencies, percentile) ==
  IF latencies = <<>> THEN [ok |-> FALSE, latency |-> 0]
  ELSE [ok |-> TRUE,
        latency |-> IF percentile = -1 THEN Total(latencies) \div Len(latencies)
                    ELSE latencies[PercentileIndex(percentile, Len(latencies))]]

(* SummarizeClientStat: requests, and inferences per window.                 *)
SummarizeClientStat(latencies, batch, window, before, after) ==
  [requests |-> Len(latencies), infer |-> (Len(latencies) * batch) \div window,
   average |-> IF after.count = before.count THEN 0
               ELSE (after.time - before.time) \div (after.count - before.count)]

(* SummarizeServerStat: the counters of the version that is measured, the    *)
(* highest one the server reports if none was asked for.                     *)
SummarizeServerStat(version, before, after, batch) ==
  LET v == IF version >= 0 THEN version ELSE Max(DOMAIN after \cup {0})
      counters(status) == IF v \in DOMAIN status /\ batch \in DOMAIN status[v]
                          THEN status[v][batch] ELSE [count |-> 0, time |-> 0]
  IN  IF v \notin DOMAIN after THEN [ok |-> FALSE, count |-> 0, time |-> 0]
      ELSE IF batch \notin DOMAIN after[v] THEN [ok |-> FALSE, count |-> 0, time |-> 0]
      ELSE [ok |-> TRUE, count |-> counters(after).count - counters(before).count,
            time |-> counters(after).time - counters(before).time]

(* Report divides by the number of requests the server counted.              *)
ReportAverages(server) ==
  IF server.count = 0 THEN "division by zero" ELSE server.time \div server.count

(* Summarize.                                                                *)
Summarize(stamps, window, percentile, batch, client, server) ==
  LET range == MeasurementTimestamp(stamps, window)
      l == Latencies(stamps, range, percentile # -1)
      s == SummarizeLatency(l, percentile)
      v == SummarizeServerStat(-1, server.before, server.after, batch)
  IN  [ok |-> s.ok /\ v.ok, latency |-> s.latency,
       client |-> SummarizeClientStat(l, batch, window, client.before, client.after),
       server |-> v]

(* Profile: after every measurement it adds the new one, divided by three,   *)
(* to the averages and takes the fourth last away; stable is what lies       *)
(* within the tolerance.  With fewer measurements than three allowed,        *)
(* whatever was measured counts as stable.                                   *)
Within(x, total, tolerance) ==
  /\ Recent * 100 * x >= total * (100 - tolerance)
  /\ Recent * 100 * x <= total * (100 + tolerance)

StableNow(ips, latencies, tolerance) ==
  LET n == Len(ips)
      add(a, i) == IF i > Recent THEN a + ips[i] - ips[i - Recent] ELSE a + ips[i]
      addl(a, i) == LET l == a + latencies[i] \div Recent
                    IN  IF i > Recent THEN l - latencies[i - Recent] \div Recent ELSE l
      idx == [i \in 1..n |-> i]
      sum == FoldLeft(add, 0, idx)
      avg == FoldLeft(addl, 0, idx)
  IN  /\ n >= Recent
      /\ \A i \in (n - Recent + 1)..n :
           /\ Within(ips[i], sum, tolerance)
           /\ Within(latencies[i], Recent * avg, tolerance)

Profile(ips, latencies, tolerance, tries) ==
  LET stops == {n \in 1..tries : n = tries \/ StableNow(SubSeq(ips, 1, n), SubSeq(latencies, 1, n), tolerance)}
      n == Min(stops)
  IN  [passes |-> n,
       stable |-> tries < Recent \/ StableNow(SubSeq(ips, 1, n), SubSeq(latencies, 1, n), tolerance)]

(* GetRandomLength: the length asked for and a fifth up or down, at least 1. *)
RandomLengths(length) ==
  {IF length + d <= 0 THEN 1 ELSE length + d : d \in (-(length \div 5))..(length \div 5)}

(* ContextFactory: a sequence model gives every context a correlation        *)
(* identifier of its own, another model 0.                                   *)
CreateFactory(status, model) ==
  IF model \notin DOMAIN status THEN [ok |-> FALSE, sequence |-> FALSE]
  ELSE [ok |-> TRUE, sequence |-> status[model]]
CreateInferContext(factory) ==
  IF factory.sequence THEN [factory |-> [factory EXCEPT !.current = @ + 1], id |-> factory.current + 1]
  ELSE [factory |-> factory, id |-> 0]

(* PrepareInfer: what a context of the model is refused for.                 *)
PrepareInfer(max, batch, sizes) ==
  /\ IF max = 0 THEN batch = 1 ELSE batch <= max
  /\ \A s \in sizes : s >= 0

(* main: the calls that are refused, and what becomes of a length of 0.      *)
Usage(call) ==
  \/ call.model = "" \/ call.batch <= 0 \/ call.window <= 0 \/ call.concurrency <= 0
  \/ call.streaming /\ call.protocol # "grpc"
  \/ call.threads = 0
  \/ call.percentile # -1 /\ (call.percentile > 99 \/ call.percentile < 1)

-----------------------------------------------------------------------------
(* Reference definitions, checked over all cases of a small size.            *)

Stamps == {s \in [start : 1..4, end : 1..6, last : BOOLEAN] : s.start <= s.end}

(* The window lies inside what was recorded when enough was recorded, with   *)
(* as much left out before as after it, give or take one, and only then.     *)
ASSUME WindowCentred ==
  \A a, b \in Stamps, w \in 1..3 :
    LET r == MeasurementTimestamp(<<a, b>>, w)
        first == Min({a.start, b.start})  last == Max({a.end, b.end})
    IN  /\ r[2] - r[1] = w
        /\ first + w <= last => /\ r[1] >= first /\ r[2] <= last
                                /\ (last - r[2]) - (r[1] - first) \in {0, 1}

(* The percentile latency is one that was measured, and at most the share    *)
(* of requests the percentile says are faster.                               *)
ASSUME PercentileMeasured ==
  \A l \in UNION {[1..n -> 1..3] : n \in 1..4}, p \in {1, 50, 90, 99} :
    LET sorted == SortSeq(l, <)  x == SummarizeLatency(sorted, p).latency
    IN  /\ x \in ToSet(l)
        /\ Cardinality({i \in DOMAIN l : l[i] < x}) * 100 <= p * Len(l) + 50

(* What is called stable is three measurements in a row of which none is     *)
(* off the average by more than the tolerance; never fewer, if three fit.    *)
ASSUME StableIsRecent ==
  \A ips \in [1..4 -> {10, 12, 30}], tries \in 1..4 :
    LET p == Profile(ips, [i \in 1..4 |-> 6], 20, tries)
        recent == {ips[i] : i \in (p.passes - 2)..p.passes}
    IN  (p.stable /\ tries >= 3) =>
          /\ p.passes >= 3
          /\ \A x, y \in recent : x - y <= 2

(* No two contexts of a sequence model share a correlation identifier.       *)
ASSUME IdentifiersDiffer ==
  LET one == CreateInferContext([sequence |-> TRUE, current |-> 0])
      two == CreateInferContext(one.factory)
  IN  one.id # two.id /\ 0 \notin {one.id, two.id}
=============================================================================
