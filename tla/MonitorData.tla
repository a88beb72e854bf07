----------------------------- MODULE MonitorData -----------------------------
(***************************************************************************)
(* What the System Monitor computes from the samples it has: totals over    *)
(* servers (aggregate.ts), the history of a server and the combined one     *)
(* (format.ts, aggregate.ts).                                               *)
(*                                                                         *)
(* A sample is a record of natural numbers, or None where the server did    *)
(* not report; a percentage stays the fraction used / total, with `used`    *)
(* in hundredths for CPUs.  The four metrics go the same way: CPU stands    *)
(* for the one that is weighted by capacity, memory for the byte counts.    *)
(***************************************************************************)
EXTENDS Filters, SequencesExt, Nothing

CONSTANTS
  MaxPoints,   \* the 360 points kept of a server
  Near         \* the 400 ms within which a point takes the place of the last one

(* What a server measures.                                                   *)
Reading == Int \cup {None}
Infos == [cpu : Reading, cpus : Reading, used : Reading, bytes : Reading, rx : Reading, tx : Reading]

SumOf(s) ==
  LET n == Len(s)
      sum[i \in 0..n] == IF i = 0 THEN 0 ELSE sum[i - 1] + s[i]
  IN sum[n]
Field(samples, f) == [i \in DOMAIN samples |-> samples[i][f]]

positive(v) == IF v # None /\ v > 0 THEN v ELSE None

----------------------------------------------------------------------------
\* mutant
aggregateCpuBare(samples) ==
  LET good == Keep(samples, {m \in ToSet(samples) : m.cpu # None /\ m.cpu \in 0..100})
      cpus(m) == IF m.cpus = None THEN 1 ELSE m.cpus
  IN [used |-> SumOf([i \in DOMAIN good |-> good[i].cpu * cpus(good[i])]),
      total |-> SumOf([i \in DOMAIN good |-> IF good[i].cpus = None THEN 0 ELSE good[i].cpus]),
      reporting |-> Len(good)]
(* CPU is weighted by capacity; a server that misses either is left out.     *)
aggregateCpu(samples) ==
  LET good == Keep(samples, {m \in ToSet(samples) :
                m.cpu # None /\ m.cpus # None /\ m.cpu \in 0..100})
  IN [used |-> SumOf([i \in DOMAIN good |-> good[i].cpu * good[i].cpus]),
      total |-> SumOf(Field(good, "cpus")),
      reporting |-> Len(good)]

(* Bytes are summed; used above total is not believed.                       *)
aggregateBytes(samples) ==
  LET good == Keep(samples, {m \in ToSet(samples) :
                m.used # None /\ m.bytes # None /\ m.used \in 0..m.bytes})
  IN [used |-> SumOf(Field(good, "used")), total |-> SumOf(Field(good, "bytes")),
      reporting |-> Len(good)]

(* Rates are summed where both are known, and never become a percentage.     *)
aggregateNetwork(samples) ==
  LET good == Keep(samples, {m \in ToSet(samples) :
                m.rx # None /\ m.tx # None /\ m.rx >= 0 /\ m.tx >= 0})
  IN [rxBps |-> SumOf(Field(good, "rx")), txBps |-> SumOf(Field(good, "tx")),
      reporting |-> Len(good)]

(* The sample an answer of the server gives.                                 *)
sampleFromInfo(info) ==
  [info EXCEPT !.cpus = positive(@), !.bytes = positive(@)]

(* A stored point has its own capacity or, for the collector's, the latest.  *)
sampleFromPoint(point, series) ==
  [point.info EXCEPT
     !.cpus = IF positive(@) # None THEN @ ELSE positive(series.cpus),
     !.bytes = IF positive(@) # None THEN @ ELSE positive(series.bytes)]

----------------------------------------------------------------------------
(* What is missing in a stored point is 0, and the collector's points come   *)
(* without capacity.                                                         *)
Zeroed(info) ==
  [info EXCEPT !.cpu = IF @ = None THEN 0 ELSE @, !.used = IF @ = None THEN 0 ELSE @,
               !.rx = IF @ = None THEN 0 ELSE @, !.tx = IF @ = None THEN 0 ELSE @]

mapHistory(point) ==
  [t |-> point.t, info |-> [Zeroed(point.info) EXCEPT !.cpus = None, !.bytes = None]]

liveSample(info, now) ==
  [t |-> now, info |-> [Zeroed(info) EXCEPT !.cpus = positive(@), !.bytes = positive(@)]]

Latest(s, n) == SubSeq(s, IF Len(s) > n THEN Len(s) - n + 1 ELSE 1, Len(s))

\* mutant
mergeHistoryTwice(prev, incoming, live) ==
  LET base == IF Len(incoming) >= Len(prev) THEN incoming ELSE prev
  IN Latest(Append(base, live), MaxPoints)
(* The longer of what is kept and what comes, and the live point: in place of*)
(* the last one when the two are less than 400 ms apart.                     *)
mergeHistory(prev, incoming, live) ==
  LET base == IF Len(incoming) >= Len(prev) THEN incoming ELSE prev
      IsNear(t) == live.t - Near < t /\ t < live.t + Near
  IN IF base # <<>> /\ IsNear(Last(base).t)
     THEN Append(Front(base), live)
     ELSE Latest(Append(base, live), MaxPoints)

(* The order of a history: first what the collector took, by the clock of    *)
(* ServerUI's server, then the window's own points, by the browser's.  Where *)
(* the two meet the times may go back.                                       *)
Before(p, q) == (p.own => q.own) /\ (p.own = q.own => p.t < q.t)

(* The points of the chosen range, or the last two.                          *)
filterHistory(points, range, now) ==
  LET good == Keep(points, {p \in ToSet(points) : p.t >= now - range})
  IN IF Len(good) > 1 THEN good ELSE Latest(points, 2)

(* Math.round of a quotient.                                                 *)
Rounded(n, d) == (2 * n + d) \div (2 * d)

(* One combined reading per stored one: the series are laid over each other  *)
(* by index, the longest at its own density.                                 *)
At(series, index, count) ==
  1 + Rounded((index - 1) * (Len(series.points) - 1), IF count > 2 THEN count - 1 ELSE 1)

sparkHistory(all) ==
  LET count == Max({0} \cup {Len(all[k].points) : k \in DOMAIN all})
      filled == Keep(all, {s \in ToSet(all) : s.points # <<>>})
      Point(index) ==
        LET samples == [k \in DOMAIN filled |->
              sampleFromPoint(filled[k].points[At(filled[k], index, count)], filled[k])]
        IN [t |-> Last(filled).points[At(Last(filled), index, count)].t,
            cpu |-> aggregateCpu(samples), memory |-> aggregateBytes(samples),
            net |-> aggregateNetwork(samples)]
      points == [i \in 1..count |-> Point(i)]
  IN Keep(points, {p \in ToSet(points) :
            p.cpu.total > 0 \/ p.memory.total > 0 \/ p.net.reporting > 0})

=============================================================================
