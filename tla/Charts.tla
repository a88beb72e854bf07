-------------------------------- MODULE Charts --------------------------------
(***************************************************************************)
(* The charts of a Monitor window (monitor/charts.tsx, chart-path.ts, and   *)
(* serverLines and ServerHistory of DashboardApp.tsx): which points of the    *)
(* histories they draw, what the pointer reads from them, and the animation  *)
(* of a sparkline.  One server has the AreaChart, several have a line each    *)
(* in the ServerLineChart; the sparkline is the one of the first server.      *)
(*                                                                         *)
(* A point is known by its time and by whose clock that is: the collector's,  *)
(* or the browser's for the window's own.  A drawn one is known by its place *)
(* in the series: it stands at that fraction of the width.  Values, pixels,  *)
(* paths, ticks and labels are left out; so is the averaging of a sparkline  *)
(* (downsampleAvg), known by the series it shows.  Histories are those of    *)
(* module Monitor.                                                         *)
(***************************************************************************)
EXTENDS MonitorData, FiniteSets

CONSTANTS
  Views,     \* the servers shown, in their order
  Histories, \* by server, the points it has at first
  MaxDrawn,  \* the 120 points drawn of a server
  RangeOf    \* the ranges of the charts, in time

VARIABLES
  appearance, asks,
  viewed,     \* a member of Views
  kept,      \* server -> the points kept of it
  clock,     \* the browser's
  range, metric,
  hover,     \* None, or the index the pointer is at
  display,   \* of the sparkline: what stands on the page
  frame      \* the series its animation is on the way to, if there is one

vars == <<appearance, asks, viewed, kept, clock, range, metric, hover, display, frame>>

Asked == asks > 0 /\ asks' = asks - 1
Servers == {viewed[i] : i \in DOMAIN viewed}
single == Len(viewed) = 1

----------------------------------------------------------------------------
(* What is drawn.                                                            *)
chartFor(s) == filterHistory(kept[s], RangeOf[range], clock)

\* mutant: one step for all groups, rounded down
pickByStep(points, count) ==
  IF Len(points) <= count THEN points
  ELSE LET step == Len(points) \div count
       IN [i \in 1..count |-> points[1 + (i - 1) * step]]
(* Of many points, the middle one of each of `count` groups.                 *)
pickPoints(points, count) ==
  IF Len(points) <= count THEN points
  ELSE LET Begin(i) == (i * Len(points)) \div count
           Middle(i) == Begin(i) + (Begin(i + 1) - Begin(i)) \div 2
       IN [i \in 1..count |-> points[1 + Middle(i - 1)]]

serverLines == [i \in DOMAIN viewed |-> chartFor(viewed[i])]
drawn == [i \in DOMAIN viewed |-> pickPoints(serverLines[i], MaxDrawn)]

(* The longest line, the first of them, has the time.                         *)
Guide(lines) ==
  lines[CHOOSE i \in DOMAIN lines : \A j \in DOMAIN lines :
          Len(lines[j]) < Len(lines[i]) \/ (Len(lines[j]) = Len(lines[i]) /\ i <= j)]
guideCount == Len(Guide(drawn))

(* The pointer is at the place of a point of the guide, from 0: indexAt.      *)
Under(index, samples, count) ==
  LET at == Rounded(index * (IF samples = <<>> THEN 0 ELSE Len(samples) - 1),
                    IF count > 2 THEN count - 1 ELSE 1)
  IN IF at < Len(samples) THEN samples[at + 1] ELSE None

(* The box beside the pointer.  With one server there is none where there is   *)
(* no point any more; with several, the time falls back to the first point.   *)
AreaTip(index, points) ==
  IF index < Len(points) THEN [t |-> points[index + 1].t, rows |-> <<points[index + 1]>>] ELSE None
LineTip(index, lines) ==
  LET guide == Guide(lines)
  IN [t |-> (IF index < Len(guide) THEN guide[index + 1] ELSE guide[1]).t,
      rows |-> [i \in DOMAIN lines |-> Under(index, lines[i], Len(guide))]]
tip ==
  IF hover = None \/ guideCount = 0 THEN None
  ELSE IF single THEN AreaTip(hover, drawn[1]) ELSE LineTip(hover, drawn)

----------------------------------------------------------------------------
(* The sparkline.  display: whether anything stands there, and which series;   *)
(* None on the way from one to another.                                      *)
NoSeries == [of |-> None, points |-> <<>>]
target == [of |-> <<Head(viewed), metric>>, points |-> chartFor(Head(viewed))]
Empty(series) == series.points = <<>>
Standing(series) == [empty |-> Empty(series), at |-> series]

onPage ==
  IF Empty(target) THEN NoSeries ELSE IF display.empty THEN target ELSE display.at

\* mutant: an animation under way is not started again
animateOnce(next) == IF frame # {} \/ display.empty \/ Empty(next) THEN frame ELSE {next}
(* The effect of a new series: the animation begins again from what stands     *)
(* there; where nothing stands, or would, there is none.                     *)
animate(next) == IF display.empty \/ Empty(next) THEN {} ELSE {next}

Animated == frame' = animate(target') /\ UNCHANGED display

tick ==
  /\ frame # {}
  /\ \/ display' = [empty |-> FALSE, at |-> None] /\ UNCHANGED frame
     \/ (\E series \in frame : display' = Standing(series)) /\ frame' = {}
  /\ UNCHANGED <<appearance, asks, viewed, kept, clock, range, metric, hover>>

----------------------------------------------------------------------------
(* Samples of some servers arrive, or only time goes by.                     *)
Sampled ==
  /\ Asked /\ clock' = clock + 1
  /\ \E reporting \in SUBSET Servers :
       kept' = [s \in DOMAIN kept |->
                  IF s \in reporting THEN mergeHistory(kept[s], <<>>, [t |-> clock', own |-> TRUE])
                  ELSE kept[s]]
  /\ UNCHANGED <<appearance, viewed, range, metric, hover>>
  /\ Animated

setRange ==
  /\ Asked /\ range' \in DOMAIN RangeOf \ {range}
  /\ UNCHANGED <<appearance, viewed, kept, clock, metric, hover>>
  /\ Animated

(* The tabs over the lines of several servers.                               *)
onMetric ==
  /\ Asked /\ ~single
  /\ metric' = IF metric = "cpu" THEN "network" ELSE "cpu"
  /\ UNCHANGED <<appearance, viewed, kept, clock, range, hover>>
  /\ Animated

Mount ==
  metric' = "cpu" /\ hover' = None /\ display' = Standing(target') /\ frame' = {}

(* Other servers are chosen: a single one takes the place of another, one and  *)
(* several have charts of their own.                                         *)
Choose ==
  /\ Asked /\ viewed' \in Views \ {viewed}
  /\ UNCHANGED <<appearance, kept, clock, range>>
  /\ IF single' = single THEN UNCHANGED <<metric, hover>> /\ Animated ELSE Mount

onMove ==
  /\ Asked /\ guideCount > 0
  /\ hover' \in (0..(guideCount - 1)) \ {hover}
  /\ UNCHANGED <<appearance, viewed, kept, clock, range, metric, display, frame>>

onPointerLeave ==
  /\ hover # None /\ guideCount > 0 /\ hover' = None
  /\ UNCHANGED <<appearance, asks, viewed, kept, clock, range, metric, display, frame>>

(* The other appearance mounts the Monitor anew, without a sample.            *)
Remount ==
  /\ kept' = [s \in DOMAIN kept |-> <<>>] /\ range' = 1
  /\ UNCHANGED <<viewed, clock>>
  /\ Mount

----------------------------------------------------------------------------
Init ==
  /\ viewed \in Views /\ kept \in Histories /\ clock = MaxPoints
  /\ range = 1 /\ metric = "cpu" /\ hover = None
  /\ display = Standing(target) /\ frame = {}

Next == tick \/ Sampled \/ setRange \/ onMetric \/ Choose \/ onMove \/ onPointerLeave

----------------------------------------------------------------------------
(* However many points there are, the ones drawn are in their order, no        *)
(* more than fit, and none of the line is left without one: both ends and      *)
(* every stretch of two groups have theirs.                                  *)
PicksSpread ==
  LET lines == serverLines
  IN \A i \in DOMAIN lines :
       LET picks == pickPoints(lines[i], MaxDrawn)
           all == Len(lines[i])
           place == [k \in DOMAIN picks |-> CHOOSE n \in 1..all : lines[i][n] = picks[k]]
           group == (all + MaxDrawn - 1) \div MaxDrawn
           last == Len(picks)
       IN /\ last <= MaxDrawn /\ (all <= MaxDrawn => picks = lines[i])
          /\ \A k \in 2..last : place[k] - place[k - 1] \in 1..(2 * group)
          /\ last > 0 => place[1] <= group /\ all - place[last] < group

(* From the left to the right end of the chart the pointer reads every line    *)
(* from its first to its last point, never back along it and never a gap, and   *)
(* an index left over from a longer history reads no point that is not there.  *)
(* Its times go back only where the collector's points end and the window's    *)
(* own begin, which the two clocks may date differently.                      *)
ReadsAcross ==
  LET lines == drawn
      guide == Guide(lines)
      count == Len(guide)
      box == tip
  IN /\ \A i \in DOMAIN lines :
          LET read == [k \in 0..(count - 1) |-> Under(k, lines[i], count)]
          IN (lines[i] # <<>> /\ count > 1) =>
               /\ read[0] = lines[i][1] /\ read[count - 1] = Last(lines[i])
               /\ \A k \in 1..(count - 1) : read[k - 1] = read[k] \/ Before(read[k - 1], read[k])
     /\ box # None =>
          /\ \E k \in DOMAIN guide : guide[k].t = box.t
          /\ hover < count => \A i \in DOMAIN lines : box.rows[i] = None <=> lines[i] = <<>>

(* A sparkline comes to stand on the newest series: with no frame to come it    *)
(* is what is on the page.                                                   *)
NoFrozenChart == frame = {} => onPage = IF Empty(target) THEN NoSeries ELSE target

ChartsInv == PicksSpread /\ ReadsAcross /\ NoFrozenChart
=============================================================================
