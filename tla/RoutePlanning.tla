--------------------------- MODULE RoutePlanning ---------------------------
(***************************************************************************)
(* RoutingService.plan: the matrix is asked of OSRM (or estimated from     *)
(* straight lines), the stops are put in order by optimizeSequence or as   *)
(* the dispatcher wants them, a schedule is worked out, and the geometry   *)
(* is asked for.  Stops are 1..n and the driver starts from point 0.       *)
(***************************************************************************)
EXTENDS Integers, Sequences, FiniteSets, SequencesExt

CONSTANTS
  Worlds,       \* requests to plan: roads, straight lines, windows and service times
  LastDate,     \* the last date that can be formatted
  NoRoad,       \* what a missing road takes: null becomes MAX_SAFE_INTEGER
  None

VARIABLES
  world,  \* the request: [road, straight, opens, closes, service, manual]
  plan    \* what the service has made of it so far

vars == <<world, plan>>

Stops(w) == DOMAIN w.opens
Positive(x) == IF x > 0 THEN x ELSE 0
-----------------------------------------------------------------------------
(* Driving a sequence of stops: the time, the place, and the figures.      *)

Departure == [time |-> 0, at |-> 0, score |-> 0, arrivals |-> <<>>]

Late(w, stop, arrival) ==
  IF w.closes[stop] = None THEN 0 ELSE Positive(arrival - w.closes[stop])

\* A window that is not open yet is waited for; lateness weighs twenty times.
Serve(w, matrix, s, stop) ==
  LET travel == matrix[s.at][stop]
      arrival == Max({s.time + travel, w.opens[stop]})
  IN [time |-> arrival + w.service, at |-> stop,
      score |-> s.score + travel + 20 * Late(w, stop, arrival),
      arrivals |-> Append(s.arrivals, arrival)]

Drive(w, matrix, sequence) ==
  LET driven[k \in 0 .. Len(sequence)] ==
        IF k = 0 THEN Departure ELSE Serve(w, matrix, driven[k - 1], sequence[k])
  IN driven[Len(sequence)]

ScoreOrder(w, matrix, sequence) == Drive(w, matrix, sequence).score
-----------------------------------------------------------------------------
(* optimizeSequence                                                        *)

\* What the greedy choice costs; a second of waiting counts a twentieth.
CandidateScore(w, matrix, s, stop) ==
  LET travel == matrix[s.at][stop]
      arrival == s.time + travel
  IN 20 * travel + 400 * Late(w, stop, arrival) + Positive(w.opens[stop] - arrival)

\* The cheapest stop that remains; of equal ones, the first.
Nearest(w, matrix, s, remaining) ==
  LET score(stop) == CandidateScore(w, matrix, s, stop)
  IN CHOOSE best \in remaining :
       \A stop \in remaining :
         \/ score(best) < score(stop)
         \/ score(best) = score(stop) /\ best <= stop

Greedy(w, matrix) ==
  LET found[k \in 0 .. Len(w.opens)] ==
        IF k = 0 THEN <<>>
        ELSE LET before == found[k - 1] IN
             Append(before,
                    Nearest(w, matrix, Drive(w, matrix, before), Stops(w) \ ToSet(before)))
  IN found[Len(w.opens)]

\* Fault: the reversed slice takes one stop too few.
FlipShort(sequence, left, right) ==
  SubSeq(sequence, 1, left - 1) \o Reverse(SubSeq(sequence, left, right - 1))
    \o SubSeq(sequence, right + 1, Len(sequence))

\* The segment from left to right reversed.
Flip(sequence, left, right) ==
  [i \in DOMAIN sequence |->
     IF i \in left .. right THEN sequence[left + right - i] ELSE sequence[i]]

Better(w, matrix, best, left, right) ==
  LET candidate == Flip(best, left, right)
  IN IF ScoreOrder(w, matrix, candidate) < ScoreOrder(w, matrix, best) THEN candidate ELSE best

\* A pass of 2-opt: every segment in turn, keeping what is better so far.
Improve(w, matrix, sequence) ==
  LET n == Len(sequence)
      left(k) == 1 + ((k - 1) \div n)
      right(k) == 1 + ((k - 1) % n)
      best[k \in 0 .. n * n] ==
        IF k = 0 THEN sequence
        ELSE LET before == best[k - 1] IN
             IF left(k) < right(k) THEN Better(w, matrix, before, left(k), right(k)) ELSE before
  IN best[n * n]

\* Up to three passes; one that improves nothing is the last.
OptimizeSequence(w, matrix) ==
  Improve(w, matrix, Improve(w, matrix, Improve(w, matrix, Greedy(w, matrix))))
-----------------------------------------------------------------------------
(* The service.                                                            *)

\* What is asked for: at most 25 stops, as the schema has it, in the dispatcher's order a
\* list of them all; windows and roads that are nowhere near the last date, which is some
\* 270,000 years away, while a missing road takes a thousand times longer than that.
WorldOK(w) ==
  LET n == Len(w.opens)
      passable(travel) == 50 * (travel + w.service) <= LastDate
  IN
  /\ LastDate \in Nat /\ NoRoad \in Nat /\ NoRoad > 1001 * LastDate
  /\ n \in 0 .. 25 /\ w.service \in Nat
  /\ w.opens \in [1 .. n -> Int] /\ w.closes \in [1 .. n -> Int \cup {None}]
  /\ \A stop \in 1 .. n : /\ 2 * w.opens[stop] <= LastDate
                          /\ w.closes[stop] # None => w.closes[stop] >= -LastDate
  /\ w.road \in [0 .. n -> [1 .. n -> Nat]] /\ w.straight \in [0 .. n -> [1 .. n -> Nat]]
  /\ \A i \in 0 .. n, j \in 1 .. n :
       passable(w.straight[i][j]) /\ (w.road[i][j] >= NoRoad \/ passable(w.road[i][j]))
  /\ w.manual # None => w.manual \in [1 .. n -> 1 .. n] /\ ToSet(w.manual) = 1 .. n

Init ==
  /\ world \in Worlds
  /\ plan = [phase |-> "matrix", provider |-> None, sequence |-> <<>>, arrivals |-> <<>>,
             road |-> FALSE]

\* OSRM answers, or the straight lines do when it is down or refuses the points.
GetMatrix(provider) ==
  /\ plan.phase = "matrix"
  /\ plan' = [plan EXCEPT !.phase = "sequence", !.provider = provider]
  /\ UNCHANGED world

Matrix == IF plan.provider = "osrm" THEN world.road ELSE world.straight

Sequence == IF world.manual # None THEN world.manual ELSE OptimizeSequence(world, Matrix)

\* A date past the last one cannot be formatted: the request fails.
Schedule ==
  LET driven == Drive(world, Matrix, Sequence) IN
  /\ plan.phase = "sequence"
  /\ plan' = IF driven.time > LastDate THEN [plan EXCEPT !.phase = "failed"]
             ELSE [plan EXCEPT !.phase = IF plan.provider = "osrm" THEN "geometry" ELSE "done",
                               !.sequence = Sequence, !.arrivals = driven.arrivals]
  /\ UNCHANGED world

\* The road's line, or straight lines between the stops.
GetGeometry ==
  /\ plan.phase = "geometry"
  /\ \E road \in BOOLEAN : plan' = [plan EXCEPT !.phase = "done", !.road = road]
  /\ UNCHANGED world

Next == (\E p \in {"osrm", "straight-line-fallback"} : GetMatrix(p)) \/ Schedule \/ GetGeometry

Spec == Init /\ [][Next]_vars
-----------------------------------------------------------------------------
\* Where the vehicle comes from on its way to a stop of the sequence.
Before(seq, i) == IF i = 1 THEN 0 ELSE seq[i - 1]

MissesRoad(seq) == \E i \in DOMAIN seq : Matrix[Before(seq, i)][seq[i]] >= NoRoad

\* A plan visits every stop once, never before its window opens and never sooner than
\* the roads allow, and what 2-opt made of the greedy order is no worse than that order.
\* A request fails only for a road that OSRM does not have: a provider that is down fails
\* none, and 2-opt never trades an order with all its roads for one without.
PlanIsSound ==
  LET seq == plan.sequence
      n == Len(seq)
      greedy == Greedy(world, Matrix)
  IN
  /\ plan.phase = "done" =>
       /\ n = Cardinality(Stops(world)) /\ ToSet(seq) = Stops(world)
       /\ \A i \in 1 .. n :
            /\ plan.arrivals[i] >= world.opens[seq[i]]
            /\ plan.arrivals[i] >= Matrix[Before(seq, i)][seq[i]] +
                 (IF i = 1 THEN 0 ELSE plan.arrivals[i - 1] + world.service)
       /\ world.manual = None =>
            ScoreOrder(world, Matrix, seq) <= ScoreOrder(world, Matrix, greedy)
  /\ plan.phase = "failed" =>
       /\ plan.provider = "osrm" /\ MissesRoad(Sequence)
       /\ world.manual = None => MissesRoad(greedy)

=============================================================================
