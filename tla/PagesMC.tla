------------------------------ MODULE PagesMC ------------------------------
(***************************************************************************)
(* The analytics page, the page of an order and the accounts of a device   *)
(* in one run: a behaviour follows one of them and the others stand still. *)
(* Each leaves to the rest of the system what that may do at any time.     *)
(* The analytics page has three faces, of which a behaviour follows one:   *)
(* a refresh and the page that follows it, two refreshes nobody follows    *)
(* (both AnalyticsRuns), or the figures (AnalyticsFigures).  They touch    *)
(* through the snapshot alone.  Two days and two regions, one of them      *)
(* stored under its Vietnamese name.                                       *)
(***************************************************************************)
EXTENDS AnalyticsRuns, Sequences, FiniteSets

CONSTANTS
  MaxLoads, MaxApplies,                     \* of the figures
  MaxSteps, Failed,                         \* of the order's page
  Admins, Orders, MaxTaps, MaxSessions, MaxFaults,  \* of the accounts
  Drivers                                   \* of both

ASSUME DriversAssumption == None \notin Drivers /\ Drivers # {}

VARIABLES
  part,
  face, latest, page, loads, drawer,
  journal, proof, orderPage, flow,
  tab, token, outbox, requests, holder, past

figureVars == <<latest, page, loads, drawer>>
analyticsVars == <<face, pipeline, follow, figureVars>>
orderVars == <<journal, proof, orderPage, flow>>
sessionVars == <<tab, token, outbox, requests, holder, past>>

RegionNames == {"Quan 1", "District 7"}
EnglishNames == [r \in RegionNames |-> IF r = "Quan 1" THEN "District 1" ELSE r]

\* The second snapshot has one more order, on the last day.
TwoSnapshots ==
  <<<<[r \in RegionNames |-> 1], [r \in RegionNames |-> IF r = "Quan 1" THEN 2 ELSE 1]>>,
    <<[r \in RegionNames |-> 1], [r \in RegionNames |-> 2]>>>>

TwoRanges == {[from |-> 2, to |-> 2], [from |-> 1, to |-> 2]}

F == INSTANCE AnalyticsFigures
       WITH Regions <- RegionNames, English <- EnglishNames,
            Snapshots <- TwoSnapshots, Ranges <- TwoRanges

O == INSTANCE OrderPage WITH page <- orderPage
S == INSTANCE Session

-----------------------------------------------------------------------------
\* A face that is not followed has one initial state.
FaceInit ==
  /\ face \in {"refresh", "starts", "figures"} /\ Init /\ F!Init
  /\ face = "figures" => engine = "emr"
  /\ face # "figures" => latest = None

Refreshes ==
  /\ face = "refresh" /\ Next /\ UNCHANGED <<face, figureVars>>
  /\ Cardinality({r \in Runs : exec'[r].stage # "none"}) <= 1

Starts ==
  /\ face = "starts" /\ Next /\ UNCHANGED <<face, figureVars>>
  /\ caller'["page"] = "idle"

Figures == face = "figures" /\ F!Next /\ UNCHANGED <<face, pipeline, follow>>

\* A part that is not followed is in one state.
PagesInit ==
  /\ part \in {"analytics", "order", "session"}
  /\ FaceInit /\ O!Init /\ S!Init
  /\ part # "analytics" => face = "figures" /\ latest = None
  /\ part # "order" => journal[1].status = "PENDING"
  /\ holder = CHOOSE h \in [Orders -> Drivers] : TRUE

Analyses ==
  /\ part = "analytics" /\ (Refreshes \/ Starts \/ Figures)
  /\ UNCHANGED <<part, orderVars, sessionVars>>
\* The drivers are alike: the one that is chosen first is the same.
FirstDriver == CHOOSE d \in Drivers : TRUE

Opens ==
  /\ part = "order" /\ O!Next
  /\ LET chosen == {journal'[i].driver : i \in DOMAIN journal'} \ {None}
     IN chosen # {} => FirstDriver \in chosen
  /\ UNCHANGED <<part, analyticsVars, sessionVars>>
SignsIn ==
  /\ part = "session" /\ S!Next
  /\ UNCHANGED <<part, analyticsVars, orderVars>>

PagesNext == Analyses \/ Opens \/ SignsIn

\* The fairness of the figures for their own face.
PagesFairness ==
  /\ WF_figureVars(part = "analytics" /\ face = "figures" /\ F!Refresh)
  /\ SF_figureVars(part = "analytics" /\ face = "figures" /\ F!Land)

PagesSpec ==
  /\ PagesInit
  /\ [][PagesNext]_<<part, analyticsVars, orderVars, sessionVars>>
  /\ PagesFairness

-----------------------------------------------------------------------------
\* The figures come to the range applied, and stay there.
RangeSettles == F!RangeSettles

\* A page at rest shows what belongs to the order it shows.
PageAgrees == O!PageAgrees

\* No status is admitted in the wrong hands or after it was cleared.
AdmittedInItsPlace == S!AdmittedInItsPlace
=============================================================================
