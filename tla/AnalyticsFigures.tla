-------------------------- MODULE AnalyticsFigures --------------------------
(***************************************************************************)
(* The figures of the analytics page: AnalyticsService sums the latest     *)
(* snapshot over a range, AnalyticsOverview reloads it every 15 seconds,   *)
(* when a range is applied and when its run succeeds, and DeepAnalytics    *)
(* opens a drawer for a region of the chart.  Orders are counted;          *)
(* delivered orders and delivery minutes are sums over the same rows, the  *)
(* rates and averages quotients of these sums.                             *)
(***************************************************************************)
EXTENDS Integers, FiniteSets, FiniteSetsExt

CONSTANTS Regions,     \* region names as stored on orders
          English,     \* region -> the name the pages show (formatLocationInEnglish)
          Snapshots,   \* a sequence of snapshots: day -> region -> orders
          Ranges,      \* ranges a dispatcher applies
          MaxLoads,    \* bound: loads of one page in flight
          MaxApplies,  \* bound: ranges applied
          None

VARIABLES
  latest,  \* the snapshot at analytics/latest/overview.json, or None
  page,    \* range applied, figures shown, skeleton on screen, ranges applied so far
  loads,   \* loads of the page whose answers are on their way
  drawer   \* the region drawer

vars == <<latest, page, loads, drawer>>

Closed == [region |-> None, data |-> None, asked |-> {}]

Init ==
  /\ latest \in {None, 1}
  /\ page = [range |-> None, shown |-> None, loading |-> TRUE, applies |-> 0]
  /\ loads = {} /\ drawer = Closed

-----------------------------------------------------------------------------
(* AnalyticsService.getOverview                                            *)

Days == DOMAIN Snapshots[1]

\* The 30 days up to the last one covered, unless a range is asked for.
Period(range) == IF range = None THEN [from |-> Max(Days) - 29, to |-> Max(Days)] ELSE range

\* A day's row, or that of one region; a region it does not list counts nothing.
SelectRollup(v, d, region) ==
  IF region = None THEN MapThenSumSet(LAMBDA r : Snapshots[v][d][r], Regions)
  ELSE IF region \in Regions THEN Snapshots[v][d][region] ELSE 0

AggregatePeriod(v, from, to, region) ==
  MapThenSumSet(LAMBDA d : SelectRollup(v, d, region), Days \cap from .. to)

Overview(v, range, region) ==
  LET p == Period(range)
      length == p.to - p.from + 1
  IN [snapshot |-> v, period |-> p,
      total |-> AggregatePeriod(v, p.from, p.to, region),
      previous |-> AggregatePeriod(v, p.from - length, p.from - 1, region),
      regions |-> {[name |-> r, orders |-> AggregatePeriod(v, p.from, p.to, r)] : r \in Regions}]

\* The page shows the regions under their English names.
InEnglish(overview) ==
  [overview EXCEPT !.regions = {[row EXCEPT !.name = English[@]] : row \in @}]

\* A Spark job replaces the snapshot; that of an older export may come last.
Publish ==
  /\ latest' \in DOMAIN Snapshots
  /\ UNCHANGED <<page, loads, drawer>>

-----------------------------------------------------------------------------
(* The page.                                                               *)

ReadSnapshot == latest

Ask(range) == loads \cup {[range |-> range, of |-> ReadSnapshot]}

\* Fault: the interval keeps the range it was set up with first.
IntervalRangeOfMount == None

\* The effect that sets the interval up depends on the range.
IntervalRange == page.range

\* The interval, and the reload after a run of this page succeeded.
Refresh ==
  /\ loads' = Ask(IntervalRange)
  /\ Cardinality(loads') <= MaxLoads
  /\ UNCHANGED <<latest, page, drawer>>

\* A range that is applied is loaded, and as the loader is another one now, loaded once
\* more behind a skeleton.
ApplyAnalyticsRange(range) ==
  /\ page' = [page EXCEPT !.range = range, !.loading = TRUE, !.applies = @ + 1]
  /\ loads' = Ask(range)

\* Under the skeleton the drawer and its state are gone.
Apply(range) ==
  /\ ~page.loading /\ page.applies < MaxApplies /\ range # page.range
  /\ ApplyAnalyticsRange(range)
  /\ Cardinality(loads') <= MaxLoads
  /\ drawer' = Closed
  /\ UNCHANGED latest

\* Without a snapshot (404) an error is shown beside the figures there were.
Shows(l) == IF l.of = None THEN page.shown ELSE InEnglish(Overview(l.of, l.range, None))

\* Whichever answer comes lets the skeleton go.
Land ==
  /\ \E l \in loads :
       /\ loads' = loads \ {l}
       /\ page' = [page EXCEPT !.loading = FALSE, !.shown = Shows(l)]
  /\ UNCHANGED <<latest, drawer>>

LoadFails ==
  /\ \E l \in loads : loads' = loads \ {l}
  /\ page' = [page EXCEPT !.loading = FALSE]
  /\ UNCHANGED <<latest, drawer>>

\* A bar is clicked: the drawer is cleared and the region asked for by the name shown.
OpenRegion ==
  /\ ~page.loading /\ page.shown # None /\ latest # None
  /\ \E row \in page.shown.regions :
       drawer' = [region |-> row.name, data |-> None,
                  asked |-> drawer.asked \cup {Overview(ReadSnapshot, page.shown.period, row.name)}]
  /\ Cardinality(drawer'.asked) <= MaxLoads
  /\ UNCHANGED <<latest, page, loads>>

\* The answer to whichever click comes is shown, or an error.
FillDrawer ==
  /\ \E a \in drawer.asked :
       drawer' \in {[drawer EXCEPT !.data = a, !.asked = @ \ {a}],
                    [drawer EXCEPT !.asked = @ \ {a}]}
  /\ UNCHANGED <<latest, page, loads>>

CloseDrawer ==
  /\ drawer.region # None
  /\ drawer' = [drawer EXCEPT !.region = None]
  /\ UNCHANGED <<latest, page, loads>>

-----------------------------------------------------------------------------
Next ==
  \/ Publish \/ Refresh \/ Land \/ LoadFails \/ OpenRegion \/ FillDrawer \/ CloseDrawer
  \/ \E range \in Ranges : Apply(range)

\* The interval fires, and a load that is repeated is answered in the end.
Fairness ==
  /\ WF_vars(Refresh) /\ SF_vars(Land)

Spec == Init /\ [][Next]_vars /\ Fairness

-----------------------------------------------------------------------------
\* After the last change of the range, with answers overtaking each other, the
\* figures are those of the range applied, and stay so.
RangeSettles == <>[](page.shown # None => page.shown.period = Period(page.range))
=============================================================================
