------------------------------- MODULE DeskMC -------------------------------
(***************************************************************************)
(* The dispatcher's desk in one run: a behaviour follows one of its parts, *)
(* the planning of a route, the progress of routes, the page of a route,   *)
(* the list of orders, the files of orders, the dispatch board or the push *)
(* messages to a driver, and the others stand still.  Each part leaves to  *)
(* the rest of the system what that may do at any time, so that nothing is *)
(* lost by following one part alone.                                       *)
(***************************************************************************)
EXTENDS Integers, Sequences, FiniteSets

CONSTANTS
  Worlds, LastDate, NoRoad,                                                             \* plan
  Parcels, Trips, OpensAt, ClosesAt, Offsets, Askers, AskedFor, Soon, Limits,
  MaxClock, Never,                                                                      \* progress
  Places, Saves, MaxRevision,                                                           \* sheet
  Ids, MaxRows, MaxLoads, MaxSends,                                                       \* list
  Batches, Letters,                                                                     \* csv
  Jobs, Crew, MaxBoardLoads,                                                            \* board
  Devices, Endpoints, MaxNotices,                                                       \* push
  None

IssueRecords ==
  [type : {"CUSTOMER_RESCHEDULE_REQUEST", "DELIVERY_EXCEPTION", "RESCHEDULE_REQUIRED",
           "SLA_BREACH", "SLA_RISK", "UNASSIGNED_URGENT"},
   severity : {"CRITICAL", "WARNING"}, due : Int]

ASSUME ProgressAssumption ==
  /\ ClosesAt \in [Parcels -> Int] /\ AskedFor \in Int /\ Offsets \subseteq Int
  /\ None \notin Int \cup {"PLANNED", "IN_PROGRESS"}
  /\ None \notin IssueRecords

ASSUME PushAssumption == None \notin Endpoints

VARIABLES
  part,
  world, plan,
  clock, parcels, trips,
  plans, status, sheet, save,
  table, list, loads, sends, dialog, selected,
  orders, file, input,
  jobs, crew, board, boardLoads, pick, work,
  device, used, gone, rows, shown, switch, late, notices, kept

planVars == <<world, plan>>
progressVars == <<clock, parcels, trips>>
sheetVars == <<plans, status, sheet, save>>
listVars == <<table, list, loads, sends, dialog, selected>>
csvVars == <<orders, file, input>>
boardVars == <<jobs, crew, board, boardLoads, pick, work>>
pushVars == <<device, used, gone, rows, shown, switch, late, notices, kept>>

-----------------------------------------------------------------------------
(* Three stops one or three minutes apart; roads are all there, or one is  *)
(* missing, or the third stop is hard to reach or cut off.  The windows of *)
(* two stops are open, closing soon or still closed.  And four stops of    *)
(* which the nearest leads away from the only order that has its roads.    *)

Pairs(n) == {p \in (0 .. n) \X (1 .. n) : p[1] < p[2]}
Symmetric(f, n) ==
  [i \in 0 .. n |-> [j \in 1 .. n |-> IF i = j THEN 0 ELSE f[IF i < j THEN <<i, j>> ELSE <<j, i>>]]]

World(f, n, missing, windows, manual) ==
  [road |-> Symmetric([p \in Pairs(n) |-> IF p \in missing THEN NoRoad ELSE f[p]], n),
   straight |-> Symmetric(f, n),
   opens |-> [i \in 1 .. n |-> windows[i][1]], closes |-> [i \in 1 .. n |-> windows[i][2]],
   service |-> 1, manual |-> manual]

Missing == {{}, {<<1, 2>>}, {<<0, 3>>, <<2, 3>>}, {<<0, 3>>, <<1, 3>>, <<2, 3>>}}
Open == <<0, None>>
Windows == {Open, <<0, 2>>, <<4, 9>>}

Near == [p \in Pairs(3) |-> 1]
Trap ==
  World([p \in Pairs(4) |-> IF p \in {<<0, 3>>, <<1, 3>>, <<1, 4>>} THEN 3 ELSE 1], 4,
        {<<0, 4>>, <<2, 3>>, <<3, 4>>}, <<Open, Open, Open, Open>>, None)

SmallWorlds ==
  {World(f, 3, m, <<Open, w, v>>, None) : f \in [Pairs(3) -> {1, 3}], m \in Missing, w, v \in Windows}
    \cup {World(Near, 3, m, <<Open, w, v>>, <<3, 1, 2>>) : m \in Missing, w, v \in Windows}
    \cup {Trap}

P == INSTANCE RoutePlanning

ASSUME WorldsAssumption == \A w \in Worlds : P!WorldOK(w)

(* Of the orders on routes one has its window over at once and the others  *)
(* have none.                                                              *)

Overdue == CHOOSE o \in Parcels : TRUE
Opening == [o \in Parcels |-> IF o = Overdue THEN 0 ELSE Never]
Closing == Opening

R == INSTANCE RouteProgress

(* Stops in any order, planned again and again.                            *)

H == INSTANCE RouteSheet WITH Stops <- Places

(* An order that several requests may create, list and take.               *)

L == INSTANCE OrderDesk

(* Texts of up to two characters in either column, one order or two.       *)

Signs == {"x", "quote", "comma", "return", "newline"}
Texts == {<<>>} \cup {<<c>> : c \in Signs} \cup {<<c, d>> : c, d \in Signs}
SmallBatches ==
  {<<<<n, a, <<"x">>>>>> : n, a \in Texts}
    \cup {<<<<n, <<>>, <<>>>>, <<a, <<"x">>, <<>>>>>> : n, a \in Texts \ {<<>>}}

F == INSTANCE OrderCsv

ASSUME BatchesAssumption == \A batch \in Batches : F!BatchOK(batch)

(* Any order has the drivers at the same distances.                        *)

Distances == CHOOSE s \in [1 .. Cardinality(Crew) -> Crew] : {s[i] : i \in DOMAIN s} = Crew

B == INSTANCE DispatchBoard
       WITH Nearest <- [o \in Jobs |-> Distances], MaxLoads <- MaxBoardLoads, loads <- boardLoads

(* Devices of a driver, any of which may be given another endpoint.        *)

N == INSTANCE DriverPush

-----------------------------------------------------------------------------
Parts == {"plan", "progress", "sheet", "list", "csv", "board", "push"}

\* A part that is not followed is in one state.
Init ==
  /\ part \in Parts
  /\ IF part = "plan" THEN P!Init ELSE world = None /\ plan = None
  /\ IF part = "csv" THEN F!Init ELSE orders = None /\ file = None /\ input = None
  /\ H!Init /\ (part # "sheet" => plans = <<CHOOSE order \in H!Orders : TRUE>>)
  /\ R!Init /\ L!Init /\ B!Init /\ N!Init

vars == <<part, planVars, progressVars, sheetVars, listVars, csvVars, boardVars, pushVars>>

Plans ==
  /\ part = "plan" /\ P!Next
  /\ UNCHANGED <<part, progressVars, sheetVars, listVars, csvVars, boardVars, pushVars>>
Progresses ==
  /\ part = "progress" /\ R!Next
  /\ UNCHANGED <<part, planVars, sheetVars, listVars, csvVars, boardVars, pushVars>>
Sheets ==
  /\ part = "sheet" /\ H!Next
  /\ UNCHANGED <<part, planVars, progressVars, listVars, csvVars, boardVars, pushVars>>
Lists ==
  /\ part = "list" /\ L!Next
  /\ UNCHANGED <<part, planVars, progressVars, sheetVars, csvVars, boardVars, pushVars>>
Files ==
  /\ part = "csv" /\ F!Next
  /\ UNCHANGED <<part, planVars, progressVars, sheetVars, listVars, boardVars, pushVars>>
Dispatches ==
  /\ part = "board" /\ B!Next
  /\ UNCHANGED <<part, planVars, progressVars, sheetVars, listVars, csvVars, pushVars>>
Notifies ==
  /\ part = "push" /\ N!Next
  /\ UNCHANGED <<part, planVars, progressVars, sheetVars, listVars, csvVars, boardVars>>

Next == Plans \/ Progresses \/ Sheets \/ Lists \/ Files \/ Dispatches \/ Notifies

\* The fairness of the board and of the list, each for its own part: a behaviour is in one
\* of them for good.
Either(ofBoard, ofList) ==
  \/ part = "board" /\ ofBoard /\ UNCHANGED listVars
  \/ part = "list" /\ ofList /\ UNCHANGED boardVars

Fairness ==
  /\ SF_<<boardVars, listVars>>(Either(B!Load, L!Poll))
  /\ SF_<<boardVars, listVars>>(Either(B!Land, L!Land))
  /\ SF_boardVars(part = "board" /\ B!Reads)
  /\ SF_boardVars(part = "board" /\ B!LastReads)

Spec == Init /\ [][Next]_vars /\ Fairness

-----------------------------------------------------------------------------
\* A plan serves every stop once, within what windows and roads allow.
PlanIsSound == part = "plan" => P!PlanIsSound

\* What a route shows late or at risk is in the list of issues.
LateIsListed == R!LateIsListed

\* The status of a route never falls back.
RouteNeverFallsBack == R!RouteNeverFallsBack

\* The page of a route goes on to later plans only.
ShownPlanAdvances == H!ShownPlanAdvances

\* The list comes to show every order once, as it is stored.
ListSettles == part = "list" => L!ListSettles

\* What was exported is read back.
CsvRoundTrips == part = "csv" => F!CsvRoundTrips

\* A switch turned on is kept.
SwitchedOnIsStored == N!SwitchedOnIsStored

\* The board comes to show what is stored.
BoardSettles == part = "board" => B!BoardSettles
=============================================================================
