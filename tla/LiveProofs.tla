----------------------------- MODULE LiveProofs -----------------------------
(***************************************************************************)
(* Proofs about LiveLocation.  A position is in the history from the step  *)
(* that stores it, and history only grows; so it is enough that whatever   *)
(* may still reach a page, a fix about to be published, the driver's row   *)
(* or an answer on its way, is in the history already.                     *)
(***************************************************************************)
EXTENDS LiveMC, TLAPS

\* The fixes a page may come to show have been stored.
OnTheirWay ==
  /\ row \in history \cup {0}
  /\ \A f \in Fixes : <<f, "stored">> \in api => f \in history
  /\ \A p \in Pages : load[p] \subseteq history \cup {0}

LiveInvariant == TypeOK /\ OnTheirWay /\ ShownIsStored

-----------------------------------------------------------------------------
LEMMA ConstantTypes ==
  /\ 0 \notin Fixes /\ None \notin Fixes /\ None # 0
  /\ Over \in Handshake /\ Off \in Stream
  <1>1. Fixes \subseteq Nat \ {0}
    BY BoundAssumption DEF Fixes
  <1>2. 0 \in Nat /\ 0 \notin Fixes
    BY <1>1
  <1>3. None \notin Fixes /\ None # 0
    BY <1>1, <1>2, NoneAssumption, Zenon
  <1>4. Over \in Handshake /\ Off \in Stream
    BY DEF Over, Off, Handshake, Stream
  <1> QED BY <1>2, <1>3, <1>4

LEMMA InitialTypes == Init => LiveInvariant
  <1> SUFFICES ASSUME Init PROVE LiveInvariant
    OBVIOUS
  <1>1. TypeOK
    BY ConstantTypes DEF Init, TypeOK, FixStages
  <1>2. OnTheirWay /\ ShownIsStored
    BY DEF Init, OnTheirWay, ShownIsStored, FixStages
  <1> QED BY <1>1, <1>2 DEF LiveInvariant

(* The device and the API.                                                 *)
LEMMA FixSteps ==
  ASSUME LiveInvariant, NEW f \in Fixes,
         SendFix(f) \/ NetworkFails(f) \/ Replay(f) \/ Store(f) \/ Refuse(f) \/ Publish(f)
  PROVE  LiveInvariant'
  <1> USE DEF LiveInvariant, OnTheirWay, ShownIsStored, TypeOK, streamVars, pageVars
  <1>1. CASE SendFix(f) \/ NetworkFails(f) \/ Replay(f) \/ Refuse(f)
    <2>1. PICK s \in FixStages : fix' = [fix EXCEPT ![f] = s]
      <3>1. CASE Refuse(f)
        BY <3>1 DEF Refuse, Hears, FixStages
      <3>2. CASE SendFix(f) \/ NetworkFails(f) \/ Replay(f)
        BY <3>2 DEF SendFix, NetworkFails, Replay, Unanswered, FixStages
      <3> QED BY <1>1, <3>1, <3>2
    <2>2. api' \subseteq Calls /\ (\A g \in Fixes : <<g, "stored">> \in api' => <<g, "stored">> \in api)
      BY <1>1 DEF SendFix, NetworkFails, Replay, Refuse, Calls
    <2>3. UNCHANGED <<row, history, streamVars, pageVars>>
      BY <1>1 DEF SendFix, NetworkFails, Replay, Refuse
    <2> QED BY <2>1, <2>2, <2>3
  <1>2. CASE Store(f)
    <2>1. api' \subseteq Calls /\ (\A g \in Fixes \ {f} : <<g, "stored">> \in api' => <<g, "stored">> \in api)
      BY <1>2 DEF Store, Calls
    <2>2. row' = f /\ history' = history \cup {f} /\ UNCHANGED <<fix, streamVars, pageVars>>
      BY <1>2 DEF Store
    <2> QED BY <2>1, <2>2
  <1>3. CASE Publish(f)
    <2>1. f \in history /\ api' = api \ {<<f, "stored">>} /\ fix' \in [Fixes -> FixStages]
      BY <1>3 DEF Publish, Publishes, Hears, FixStages
    <2>2. /\ listed' \subseteq Connections
          /\ shown' \in [Pages -> Fixes \cup {0, None}]
          /\ \A p \in Pages : shown'[p] \in {f, shown[p]}
      BY <1>3 DEF Publish
    <2>3. UNCHANGED <<row, history, gate, stream, load>>
      BY <1>3 DEF Publish
    <2> QED BY <2>1, <2>2, <2>3
  <1> QED BY <1>1, <1>2, <1>3

(* The hook and the handshake move connections only; a page that is left   *)
(* forgets what it showed.                                                 *)
LEMMA StreamSteps ==
  ASSUME LiveInvariant, NEW p \in Pages,
         \/ Mount(p) \/ OpenSocket(p) \/ TicketFails(p) \/ OnOpen(p)
         \/ OnClose(p) \/ Retry(p) \/ Unmount(p)
  PROVE  LiveInvariant'
  <1> USE DEF LiveInvariant, OnTheirWay, ShownIsStored, TypeOK, fixVars, pageVars
  <1>1. CASE Mount(p) \/ TicketFails(p) \/ OnOpen(p) \/ Retry(p) \/ OnClose(p)
    <2>1. stream' \in [Pages -> Stream]
      BY <1>1 DEF Mount, TicketFails, AfterFailedTicket, OnOpen, Retry, OnClose, Stream
    <2>2. UNCHANGED <<fixVars, listed, gate, pageVars>>
      BY <1>1 DEF Mount, TicketFails, OnOpen, Retry, OnClose
    <2> QED BY <2>1, <2>2
  <1>2. CASE OpenSocket(p)
    <2>1. stream' \in [Pages -> Stream] /\ gate' \in [Connections -> Handshake]
      BY <1>2 DEF OpenSocket, Stream, Handshake
    <2> QED BY <1>2, <2>1 DEF OpenSocket
  <1>3. CASE Unmount(p)
    <2>1. gate' \in [Connections -> Handshake]
      BY <1>3, ConstantTypes DEF Unmount, Stream, Handshake
    <2> QED BY <1>3, <2>1, ConstantTypes DEF Unmount
  <1> QED BY <1>1, <1>2, <1>3

LEMMA ConnectionSteps ==
  ASSUME LiveInvariant, NEW c \in Connections,
         Connect(c) \/ Admit(c) \/ Turn(c) \/ Cut(c) \/ ExpireListing(c)
  PROVE  LiveInvariant'
  <1> USE DEF LiveInvariant, OnTheirWay, ShownIsStored, TypeOK, fixVars, pageVars
  <1>1. gate' \in [Connections -> Handshake] /\ listed' \subseteq Connections
    BY ConstantTypes DEF Connect, Admit, Turn, Cut, ExpireListing, Handshake
  <1>2. UNCHANGED <<fixVars, stream, pageVars>>
    BY DEF Connect, Admit, Turn, Cut, ExpireListing
  <1> QED BY <1>1, <1>2

(* Polls carry what the row was when they were answered.                   *)
LEMMA PollSteps ==
  ASSUME LiveInvariant, NEW p \in Pages, Poll(p) \/ Show(p) \/ LoadFails(p)
  PROVE  LiveInvariant'
  <1> USE DEF LiveInvariant, OnTheirWay, ShownIsStored, TypeOK, fixVars, streamVars
  <1>1. CASE Poll(p)
    BY <1>1 DEF Poll
  <1>2. CASE Show(p)
    <2>1. PICK r \in load[p] : /\ shown' = [shown EXCEPT ![p] = r]
                               /\ load' = [load EXCEPT ![p] = @ \ {r}]
      BY <1>2 DEF Show
    <2>2. r \in history \cup {0} /\ r \in Fixes \cup {0}
      BY <2>1
    <2>3. UNCHANGED <<fixVars, streamVars>>
      BY <1>2 DEF Show
    <2> QED BY <2>1, <2>2, <2>3
  <1>3. CASE LoadFails(p)
    BY <1>3 DEF LoadFails
  <1> QED BY <1>1, <1>2, <1>3

-----------------------------------------------------------------------------
LEMMA LiveStep == LiveInvariant /\ [Next]_vars => LiveInvariant'
  <1> SUFFICES ASSUME LiveInvariant, [Next]_vars PROVE LiveInvariant'
    OBVIOUS
  <1>1. CASE UNCHANGED vars
    BY <1>1 DEF vars, fixVars, streamVars, pageVars, LiveInvariant, TypeOK, OnTheirWay, ShownIsStored
  <1>2. CASE Next
    BY <1>2, FixSteps, StreamSteps, ConnectionSteps, PollSteps DEF Next
  <1> QED BY <1>1, <1>2

(* Whatever the device, the API, the sockets and the polls do: what a page *)
(* may come to show has been stored.                                       *)
THEOREM PositionsAreStored == Spec => []LiveInvariant
  <1>1. Init => LiveInvariant
    BY InitialTypes
  <1>2. LiveInvariant /\ [Next]_vars => LiveInvariant'
    BY LiveStep
  <1> QED BY <1>1, <1>2, PTL DEF Spec

(* A dispatcher never sees a position that was not stored, however posts,  *)
(* polls and failing requests overlap.                                     *)
THEOREM ShownPositionsAreStored == Spec => []ShownIsStored
  <1>1. LiveInvariant => ShownIsStored
    BY DEF LiveInvariant
  <1> QED BY <1>1, PositionsAreStored, PTL

(* So it is in the run that follows the position, the shell, the drivers   *)
(* or the orders of a device: it implements the first of them.             *)
THEOREM LiveIsSafe == LiveSpec => []ShownIsStored
  <1>1. LiveInit => Init
    BY DEF LiveInit
  <1>2. [LiveNext]_<<part, vars, shellVars, fleetVars, cacheVars>> => [Next]_vars
    BY DEF LiveNext, Tracks, Serves, Hires, Keeps
  <1>3. Init => LiveInvariant
    BY InitialTypes
  <1>4. LiveInvariant /\ [Next]_vars => LiveInvariant'
    BY LiveStep
  <1>5. LiveInvariant => ShownIsStored
    BY DEF LiveInvariant
  <1> QED BY <1>1, <1>2, <1>3, <1>4, <1>5, PTL DEF LiveSpec
=============================================================================
