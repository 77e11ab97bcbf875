----------------------------- MODULE DeskProofs -----------------------------
(***************************************************************************)
(* What the parts of the dispatcher's desk guarantee for any number of     *)
(* devices, stops, orders, routes and requests.                            *)
(***************************************************************************)
EXTENDS DeskMC, FiniteSetTheorems, WellFoundedInduction, TLAPS

-----------------------------------------------------------------------------
(* Induction and recursion over the natural numbers, from the least        *)
(* element of a set of them.                                               *)

\* A set of numbers has a least one.
LEMMA Least ==
  ASSUME NEW T, T \subseteq Nat, T # {}
  PROVE  \E m \in T : \A y \in T : m <= y
  <1> DEFINE less == OpToRel(<, Nat)
  <1>1. \E x \in T : \A y \in T : ~ (<<y, x>> \in less)
    <2> HIDE DEF less
    <2>1. IsWellFoundedOn(less, Nat)
      BY NatLessThanWellFounded, Zenon DEF less
    <2> QED BY <2>1, WFMin
  <1>2. PICK x \in T : \A y \in T : ~ (<<y, x>> \in less)
    BY <1>1
  <1>3. \A y \in T : ~(y < x)
    BY <1>2, Zenon DEF OpToRel
  <1> QED BY <1>3

\* What 0 is in, and k + 1 whenever k is, has every number in it.
LEMMA Induction ==
  ASSUME NEW T, 0 \in T, \A n \in Nat : n \in T => n + 1 \in T
  PROVE  Nat \subseteq T
  <1> SUFFICES ASSUME Nat \ T # {} PROVE FALSE
    OBVIOUS
  <1>1. PICK m \in Nat \ T : \A y \in Nat \ T : m <= y
    <2> DEFINE M == Nat \ T
    <2>1. M \subseteq Nat /\ M # {}
      OBVIOUS
    <2> HIDE DEF M
    <2>2. \E m \in M : \A y \in M : m <= y
      BY <2>1, Least
    <2> QED BY <2>2 DEF M
  <1>2. m # 0 /\ m - 1 \in Nat /\ ~(m <= m - 1)
    OBVIOUS
  <1>3. m - 1 \in T
    BY <1>1, <1>2
  <1> QED BY <1>2, <1>3, m - 1 + 1 = m

\* What is kept from each step to the next holds all along.
LEMMA Along ==
  ASSUME NEW n \in Nat, NEW K, 0 \in K, \A k \in 1 .. n : k - 1 \in K => k \in K
  PROVE  0 .. n \subseteq K
  <1> DEFINE T == {k \in Nat : k <= n => k \in K}
  <1>1. 0 \in T
    OBVIOUS
  <1>2. \A k \in Nat : k \in T => k + 1 \in T
    <2> SUFFICES ASSUME NEW k \in Nat, k <= n => k \in K, k + 1 <= n PROVE k + 1 \in K
      OBVIOUS
    <2>1. k + 1 \in 1 .. n /\ (k + 1) - 1 = k /\ k <= n
      OBVIOUS
    <2> QED BY <2>1
  <1> HIDE DEF T
  <1>3. Nat \subseteq T
    BY <1>1, <1>2, Induction
  <1>4. \A k \in 0 .. n : k \in T
    BY <1>3
  <1> QED BY <1>4 DEF T

\* A function may be defined by its first value and by what follows from each.
Within(h, S, n) == \A k \in 0 .. n : h[k] \in S[k]
Keeps(step, S, n) == \A k \in 1 .. n : \A s \in S[k - 1] : step[k][s] \in S[k]
Recurs(h, b, step, n) == h = [k \in 0 .. n |-> IF k = 0 THEN b ELSE step[k][h[k - 1]]]

LEMMA Recursion ==
  ASSUME NEW n \in Nat, NEW S, NEW b \in S[0], NEW step, Keeps(step, S, n)
  PROVE  \E h : Recurs(h, b, step, n) /\ Within(h, S, n)
  <1> DEFINE Good(h, m) == /\ h = [k \in 0 .. m |-> IF k = 0 THEN b ELSE step[k][h[k - 1]]]
                           /\ \A k \in 0 .. m : h[k] \in S[k]
             K == {m \in 0 .. n : \E h : Good(h, m)}
  <1>1. 0 \in K
    <2> DEFINE h == [k \in 0 .. 0 |-> b]
    <2>1. h = [k \in 0 .. 0 |-> IF k = 0 THEN b ELSE step[k][h[k - 1]]]
      OBVIOUS
    <2>2. \A k \in 0 .. 0 : h[k] \in S[k]
      OBVIOUS
    <2>3. Good(h, 0)
      BY <2>1, <2>2
    <2> HIDE DEF Good, h
    <2> QED BY <2>3
  <1>2. ASSUME NEW m \in 1 .. n, m - 1 \in K PROVE m \in K
    <2>1. PICK g : Good(g, m - 1)
      BY <1>2
    <2>2. \A k \in 0 .. m - 1 : g[k] = IF k = 0 THEN b ELSE step[k][g[k - 1]]
      BY <2>1
    <2> DEFINE h == [k \in 0 .. m |-> IF k = m THEN step[m][g[m - 1]] ELSE g[k]]
    <2>3. \A k \in 0 .. m - 1 : h[k] = g[k]
      OBVIOUS
    <2>4. h[m] = step[m][h[m - 1]]
      BY <2>3
    <2>5. ASSUME NEW k \in 0 .. m
          PROVE  h[k] = IF k = 0 THEN b ELSE step[k][h[k - 1]]
      <3>1. CASE k = m
        BY <3>1, <2>4
      <3>2. CASE k # m
        <4>1. k \in 0 .. m - 1 /\ (k # 0 => k - 1 \in 0 .. m - 1)
          BY <3>2
        <4> HIDE DEF h
        <4> QED BY <4>1, <2>2, <2>3
      <3> QED BY <3>1, <3>2
    <2>6. h = [k \in 0 .. m |-> IF k = 0 THEN b ELSE step[k][h[k - 1]]]
      <3>1. h = [k \in 0 .. m |-> h[k]]
        OBVIOUS
      <3> HIDE DEF h
      <3> QED BY <3>1, <2>5
    <2>7. \A k \in 0 .. m : h[k] \in S[k]
      <3>1. \A k \in 0 .. m - 1 : h[k] \in S[k]
        BY <2>1, <2>3
      <3>2. h[m] \in S[m]
        <4>1. m - 1 \in 0 .. m - 1 /\ m \in 1 .. n
          OBVIOUS
        <4>2. g[m - 1] \in S[m - 1]
          BY <2>1, <4>1
        <4> QED BY <4>1, <4>2 DEF Keeps
      <3> HIDE DEF h
      <3>3. \A k \in 0 .. m : k = m \/ k \in 0 .. m - 1
        OBVIOUS
      <3> QED BY <3>1, <3>2, <3>3
    <2>8. Good(h, m) /\ m \in 0 .. n
      <3> HIDE DEF h
      <3> QED BY <2>6, <2>7
    <2> HIDE DEF Good, h
    <2> QED BY <2>8
  <1>3. n \in K
    <2> HIDE DEF K
    <2>1. 0 .. n \subseteq K
      BY <1>1, <1>2, Along
    <2> QED BY <2>1
  <1> QED BY <1>3 DEF Recurs, Within

-----------------------------------------------------------------------------
(* Push messages.  An endpoint is held by one device, and a request to     *)
(* delete the row of an endpoint still held leaves the switch shown on and *)
(* nothing kept: the switch can then only be turned off, which ends with   *)
(* the endpoint given back.                                                *)

Held(d) == {device[d], switch[d].endpoint} \ {None}

PushTypeOK ==
  /\ device \in [Devices -> Endpoints \cup {None}]
  /\ switch \in [Devices -> [at : {"still", "storing", "deleting", "unsubscribing"},
                             endpoint : Endpoints \cup {None}]]
  /\ shown \in [Devices -> BOOLEAN] /\ kept \in [Devices -> Endpoints \cup {None}]
  /\ \A d \in Devices : Held(d) \cup ({kept[d]} \ {None}) \subseteq used
  /\ used \subseteq Endpoints /\ late \subseteq {"storing", "deleting"} \X used

HeldByOne == \A c, d \in Devices : c # d => Held(c) \cap Held(d) = {}

\* A switch that stores is shown off; one that deletes is shown on and keeps nothing, and
\* goes on with the endpoint of its browser.
SwitchedAsShown ==
  \A d \in Devices :
    /\ switch[d].at = "still" => switch[d].endpoint = None
    /\ switch[d].at = "storing" => ~shown[d]
    /\ switch[d].at \in {"deleting", "unsubscribing"} => shown[d] /\ kept[d] = None
    /\ switch[d].at # "still" => switch[d].endpoint # None /\ device[d] \in {None, switch[d].endpoint}

LateDeletions ==
  \A d \in Devices :
    device[d] # None /\ <<"deleting", device[d]>> \in late => shown[d] /\ kept[d] # device[d]

PushInvariant ==
  PushTypeOK /\ HeldByOne /\ SwitchedAsShown /\ LateDeletions /\ N!SwitchedOnIsStored

LEMMA PushInitially == N!Init => PushInvariant
  BY DEF N!Init, N!Still, PushInvariant, PushTypeOK, HeldByOne, SwitchedAsShown, LateDeletions,
         N!SwitchedOnIsStored, Held

\* Whether a device may come to hold x, with its switch as s, shown as h, and k kept.
Sound(d, x, s, h, k) ==
  /\ {x, k} \subseteq Endpoints \cup {None} /\ h \in BOOLEAN
  /\ s \in [at : {"still", "storing", "deleting", "unsubscribing"}, endpoint : Endpoints \cup {None}]
  /\ {x, s.endpoint, k} \ {None} \subseteq used'
  /\ {x, s.endpoint} \ {None} \subseteq Held(d) \cup (used' \ used)
  /\ s.at = "still" => s.endpoint = None
  /\ s.at = "storing" => ~h
  /\ s.at \in {"deleting", "unsubscribing"} => h /\ k = None
  /\ s.at # "still" => s.endpoint # None /\ x \in {None, s.endpoint}
  /\ x # None /\ <<"deleting", x>> \in late' => h /\ k # x
  /\ k # None /\ k = x /\ k \notin gone' => k \in rows'

LEMMA DeviceMoves ==
  ASSUME PushInvariant, NEW d \in Devices, NEW x, NEW s, NEW h, NEW k, Sound(d, x, s, h, k),
         device' = [device EXCEPT ![d] = x], switch' = [switch EXCEPT ![d] = s],
         shown' = [shown EXCEPT ![d] = h], kept' = [kept EXCEPT ![d] = k],
         used \subseteq used', used' \subseteq Endpoints, gone \subseteq gone',
         rows \ rows' \subseteq Held(d) \cup gone,
         late' \ late \subseteq {"storing", "deleting"} \X Held(d)
  PROVE  PushInvariant'
  <1> USE DEF PushInvariant, PushTypeOK
  <1>1. /\ device'[d] = x /\ switch'[d] = s /\ shown'[d] = h /\ kept'[d] = k
        /\ \A c \in Devices \ {d} : /\ device'[c] = device[c] /\ switch'[c] = switch[c]
                                    /\ shown'[c] = shown[c] /\ kept'[c] = kept[c]
    OBVIOUS
  <1>2. /\ Held(d)' = {x, s.endpoint} \ {None}
        /\ \A c \in Devices \ {d} : Held(c)' = Held(c) /\ Held(c) \cap Held(d) = {}
    BY <1>1 DEF Held, HeldByOne
  <1>3. PushTypeOK'
    <2>1. /\ device' \in [Devices -> Endpoints \cup {None}]
          /\ switch' \in [Devices -> [at : {"still", "storing", "deleting", "unsubscribing"},
                                      endpoint : Endpoints \cup {None}]]
          /\ shown' \in [Devices -> BOOLEAN] /\ kept' \in [Devices -> Endpoints \cup {None}]
      BY DEF Sound
    <2>2. \A c \in Devices : Held(c)' \cup ({kept'[c]} \ {None}) \subseteq used'
      BY <1>1, <1>2 DEF Sound
    <2>3. late' \subseteq {"storing", "deleting"} \X used'
      <3>1. Held(d) \subseteq used
        OBVIOUS
      <3> QED BY <3>1
    <2>4. used' \subseteq Endpoints
      OBVIOUS
    <2> QED BY <2>1, <2>2, <2>3, <2>4
  <1>4. HeldByOne'
    <2>1. \A c \in Devices \ {d} : Held(c)' \cap Held(d)' = {}
      BY <1>2 DEF Sound
    <2>2. \A b, c \in Devices \ {d} : b # c => Held(b)' \cap Held(c)' = {}
      BY <1>2 DEF HeldByOne
    <2> QED BY <2>1, <2>2 DEF HeldByOne
  <1>5. SwitchedAsShown'
    BY <1>1 DEF SwitchedAsShown, Sound
  <1>6. LateDeletions'
    <2> SUFFICES ASSUME NEW c \in Devices \ {d}, device[c] # None, <<"deleting", device[c]>> \in late'
                 PROVE  shown[c] /\ kept[c] # device[c]
      BY <1>1 DEF LateDeletions, Sound
    <2>1. device[c] \in Held(c) /\ device[c] \notin Held(d)
      BY <1>2 DEF Held
    <2>2. <<"deleting", device[c]>> \in late
      BY <2>1
    <2> QED BY <2>2 DEF LateDeletions
  <1>7. N!SwitchedOnIsStored'
    <2> SUFFICES ASSUME NEW c \in Devices \ {d}, kept[c] # None, kept[c] = device[c],
                        kept[c] \notin gone'
                 PROVE  kept[c] \in rows'
      BY <1>1 DEF N!SwitchedOnIsStored, Sound
    <2>1. kept[c] \in rows /\ kept[c] \notin gone /\ kept[c] \notin Held(d)
      BY <1>2 DEF Held, N!SwitchedOnIsStored
    <2> QED BY <2>1
  <1> QED BY <1>3, <1>4, <1>5, <1>6, <1>7

LEMMA SwitchMoves ==
  ASSUME PushInvariant, NEW d \in Devices,
         \/ N!Enable(d) \/ N!Subscribe(d) \/ N!Disable(d) \/ N!Unsubscribe(d)
         \/ N!LeaveBrowser(d) \/ N!SwitchFails(d) \/ N!Reopen(d) \/ N!Lapse(d)
  PROVE  PushInvariant'
  <1> USE DEF N!Still, N!Does, N!Rests, PushInvariant, PushTypeOK
  <1> DEFINE e == switch[d].endpoint
  <1>0. /\ device[d] \in Endpoints \cup {None} /\ switch[d].endpoint \in Endpoints \cup {None}
        /\ shown[d] \in BOOLEAN /\ kept[d] \in Endpoints \cup {None}
        /\ {device[d], e, kept[d]} \ {None} \subseteq used
        /\ switch[d] \in [at : {"still", "storing", "deleting", "unsubscribing"},
                          endpoint : Endpoints \cup {None}]
        /\ {device[d], e} \ {None} \subseteq Held(d)
    BY DEF Held
  <1>1. CASE N!Enable(d)
    <2>1. PICK x \in IF device[d] = None THEN Endpoints \ used ELSE {device[d]} :
            /\ device' = [device EXCEPT ![d] = x] /\ used' = used \cup {x}
            /\ switch' = [switch EXCEPT ![d] = [at |-> "storing", endpoint |-> x]]
      BY <1>1 DEF N!Enable
    <2> DEFINE s == [at |-> "storing", endpoint |-> x]
    <2>2. /\ shown' = [shown EXCEPT ![d] = shown[d]] /\ kept' = [kept EXCEPT ![d] = kept[d]]
          /\ UNCHANGED <<gone, rows, late>> /\ ~shown[d]
      BY <1>1 DEF N!Enable
    <2>3. x \in Endpoints /\ x # None
      BY <1>0, <2>1, PushAssumption
    <2>4. <<"deleting", x>> \notin late
      BY <2>1, <2>2, <2>3 DEF LateDeletions
    <2>5. kept[d] = x => device[d] = x
      BY <1>0, <2>1, <2>3
    <2>6. kept[d] # None /\ kept[d] = x /\ kept[d] \notin gone => kept[d] \in rows
      BY <2>5 DEF N!SwitchedOnIsStored
    <2>7. Sound(d, x, s, shown[d], kept[d])
      BY <1>0, <2>1, <2>2, <2>3, <2>4, <2>6 DEF Sound
    <2>8. used \subseteq used' /\ used' \subseteq Endpoints
      BY <2>1, <2>3
    <2>9. switch' = [switch EXCEPT ![d] = s]
      BY <2>1
    <2> HIDE DEF s
    <2> QED BY <2>1, <2>2, <2>7, <2>8, <2>9, DeviceMoves
  <1>2. CASE N!Subscribe(d)
    <2>1. /\ device' = [device EXCEPT ![d] = device[d]] /\ switch' = [switch EXCEPT ![d] = N!Still]
          /\ shown' = [shown EXCEPT ![d] = TRUE] /\ kept' = [kept EXCEPT ![d] = e]
          /\ rows' = rows \cup {e} /\ UNCHANGED <<used, gone, late>>
      BY <1>2 DEF N!Subscribe
    <2>2. device[d] # None => <<"deleting", device[d]>> \notin late
      BY <1>2 DEF N!Subscribe, SwitchedAsShown, LateDeletions
    <2>3. Sound(d, device[d], N!Still, TRUE, e)
      BY <1>0, <2>1, <2>2 DEF Sound
    <2> QED BY <2>1, <2>3, DeviceMoves
  <1>3. CASE N!Disable(d)
    <2>1. CASE device[d] = None
      <3>1. /\ device' = [device EXCEPT ![d] = None] /\ switch' = [switch EXCEPT ![d] = N!Still]
            /\ shown' = [shown EXCEPT ![d] = FALSE] /\ kept' = [kept EXCEPT ![d] = None]
            /\ UNCHANGED <<used, gone, rows, late>>
        BY <1>3, <2>1 DEF N!Disable
      <3>2. Sound(d, None, N!Still, FALSE, None)
        BY DEF Sound
      <3> QED BY <3>1, <3>2, DeviceMoves
    <2>2. CASE device[d] # None
      <3> DEFINE s == [at |-> "deleting", endpoint |-> device[d]]
      <3>1. /\ device' = [device EXCEPT ![d] = device[d]] /\ switch' = [switch EXCEPT ![d] = s]
            /\ shown' = [shown EXCEPT ![d] = TRUE] /\ kept' = [kept EXCEPT ![d] = None]
            /\ UNCHANGED <<used, gone, rows, late>>
        BY <1>3, <2>2 DEF N!Disable
      <3>2. Sound(d, device[d], s, TRUE, None)
        BY <1>0, <2>2, <3>1 DEF Sound
      <3> HIDE DEF s
      <3> QED BY <3>1, <3>2, DeviceMoves
    <2> QED BY <2>1, <2>2
  <1>4. CASE N!Unsubscribe(d)
    <2> DEFINE s == [at |-> "unsubscribing", endpoint |-> e]
    <2>1. /\ device' = [device EXCEPT ![d] = device[d]] /\ switch' = [switch EXCEPT ![d] = s]
          /\ shown' = [shown EXCEPT ![d] = shown[d]] /\ kept' = [kept EXCEPT ![d] = kept[d]]
          /\ rows' = rows \ {e} /\ UNCHANGED <<used, gone, late>>
      BY <1>4 DEF N!Unsubscribe
    <2>2. shown[d] /\ kept[d] = None /\ e # None /\ device[d] \in {None, e}
      BY <1>4 DEF N!Unsubscribe, SwitchedAsShown
    <2>3. Sound(d, device[d], s, shown[d], kept[d])
      BY <1>0, <2>1, <2>2 DEF Sound
    <2>4. rows \ rows' \subseteq Held(d)
      BY <1>0, <2>1, <2>2
    <2> HIDE DEF s
    <2> QED BY <2>1, <2>3, <2>4, DeviceMoves
  <1>5. CASE N!LeaveBrowser(d)
    <2>1. /\ device' = [device EXCEPT ![d] = None] /\ switch' = [switch EXCEPT ![d] = N!Still]
          /\ shown' = [shown EXCEPT ![d] = FALSE] /\ kept' = [kept EXCEPT ![d] = kept[d]]
          /\ gone' = gone \cup {e} /\ UNCHANGED <<used, rows, late>>
      BY <1>5 DEF N!LeaveBrowser, N!Unsubscribed
    <2>2. Sound(d, None, N!Still, FALSE, kept[d])
      BY <1>0, <2>1 DEF Sound
    <2> QED BY <2>1, <2>2, DeviceMoves
  <1>6. ASSUME NEW h, \/ N!SwitchFails(d) /\ h = shown[d]
                      \/ N!Reopen(d) /\ h = (device[d] # None)
        PROVE  PushInvariant'
    <2>1. /\ device' = [device EXCEPT ![d] = device[d]] /\ switch' = [switch EXCEPT ![d] = N!Still]
          /\ shown' = [shown EXCEPT ![d] = h] /\ kept' = [kept EXCEPT ![d] = kept[d]]
          /\ late' = late \cup N!Awaited(d) /\ UNCHANGED <<used, gone, rows>>
      BY <1>6 DEF N!SwitchFails, N!Reopen
    <2>2. /\ late' \ late \subseteq {"storing", "deleting"} \X Held(d)
          /\ \A request \in late' \ late : request[1] = "deleting" => shown[d] /\ kept[d] = None
      BY <1>0, <2>1 DEF N!Awaited, SwitchedAsShown
    <2>3. device[d] # None /\ <<"deleting", device[d]>> \in late' => h /\ kept[d] # device[d]
      BY <1>6, <2>2 DEF LateDeletions
    <2>4. Sound(d, device[d], N!Still, h, kept[d])
      BY <1>0, <1>6, <2>1, <2>3 DEF Sound, N!SwitchedOnIsStored
    <2> QED BY <2>1, <2>2, <2>4, DeviceMoves
  <1>7. CASE N!Lapse(d)
    <2>1. /\ device' = [device EXCEPT ![d] = None] /\ switch' = [switch EXCEPT ![d] = switch[d]]
          /\ shown' = [shown EXCEPT ![d] = shown[d]] /\ kept' = [kept EXCEPT ![d] = kept[d]]
          /\ gone' = gone \cup {device[d]} /\ UNCHANGED <<used, rows, late>>
      BY <1>7 DEF N!Lapse
    <2>2. Sound(d, None, switch[d], shown[d], kept[d])
      BY <1>0, <2>1 DEF Sound, SwitchedAsShown
    <2> QED BY <2>1, <2>2, DeviceMoves
  <1> QED BY <1>1, <1>2, <1>3, <1>4, <1>5, <1>6, <1>7

LEMMA PushStep == PushInvariant /\ [N!Next]_(N!vars) => PushInvariant'
  <1> SUFFICES ASSUME PushInvariant, [N!Next]_(N!vars) PROVE PushInvariant'
    OBVIOUS
  <1> USE DEF PushInvariant, PushTypeOK
  <1>1. ASSUME UNCHANGED <<device, used, shown, switch, kept>>, gone \subseteq gone',
               late' \subseteq late,
               \A e \in rows \ rows' : e \in gone \/ <<"deleting", e>> \in late
        PROVE  PushInvariant'
    <2>1. PushTypeOK' /\ HeldByOne' /\ SwitchedAsShown'
      BY <1>1 DEF HeldByOne, SwitchedAsShown, Held
    <2>2. LateDeletions'
      BY <1>1 DEF LateDeletions
    <2>3. N!SwitchedOnIsStored'
      BY <1>1 DEF N!SwitchedOnIsStored, LateDeletions
    <2> QED BY <2>1, <2>2, <2>3
  <1>2. CASE UNCHANGED N!vars
    BY <1>1, <1>2 DEF N!vars
  <1>3. CASE N!ServeLate
    <2>1. PICK request \in late : rows \ rows' \subseteq {request[2]}
                                  /\ (rows \ rows' # {} => request[1] # "storing")
      BY <1>3 DEF N!ServeLate
    <2> QED BY <1>1, <1>3, <2>1 DEF N!ServeLate
  <1>4. CASE \E e \in Endpoints : N!Expire(e)
    BY <1>1, <1>4 DEF N!Expire
  <1>5. CASE N!NotifyDriver
    BY <1>1, <1>5 DEF N!NotifyDriver
  <1>6. CASE N!SendNotification
    <2>1. \A e \in rows \ rows' : e \in gone
      BY <1>6 DEF N!SendNotification, N!Drops
    <2> QED BY <1>1, <1>6, <2>1 DEF N!SendNotification
  <1> QED BY <1>2, <1>3, <1>4, <1>5, <1>6, SwitchMoves DEF N!Next

\* A switch that was turned on and not touched since has its row, for any number of devices,
\* endpoints and notices, whatever requests are given up and carried out late.
THEOREM SwitchedOnStaysStored == N!Spec => []SwitchedOnIsStored
  <1>1. PushInvariant => SwitchedOnIsStored
    BY DEF PushInvariant, SwitchedOnIsStored
  <1> QED BY PushInitially, PushStep, <1>1, PTL DEF N!Spec

-----------------------------------------------------------------------------
(* The page of a route.  A save is under way only on a page that shows a   *)
(* plan and loads nothing, and at most one of them; what it is answered    *)
(* was read after the page last changed its plan.                          *)

SheetFields == {"revision", "order", "status", "loading", "error"}

SheetTypeOK ==
  /\ \E S : plans \in Seq(S)
  /\ DOMAIN sheet = SheetFields /\ sheet.revision \in 0..Len(plans)
  /\ DOMAIN save = Saves

SavesFromAPlan ==
  \A s \in Saves : save[s].stage # "idle" => sheet.revision # 0 /\ ~sheet.loading

OneSave == \A s, t \in Saves : save[s].stage # "idle" /\ save[t].stage # "idle" => s = t

AnswersAreLater ==
  \A s \in Saves :
    save[s].stage = "answered" => save[s].revision \in sheet.revision..Len(plans)

SheetInvariant == SheetTypeOK /\ SavesFromAPlan /\ OneSave /\ AnswersAreLater

LEMMA PlansGrow ==
  ASSUME SheetTypeOK, NEW order, plans' = Append(plans, order)
  PROVE  (\E S : plans' \in Seq(S)) /\ Len(plans') = Len(plans) + 1 /\ Len(plans) \in Nat
  <1>1. PICK S : plans \in Seq(S)
    BY DEF SheetTypeOK
  <1>2. plans \in Seq(S \cup {order})
    BY <1>1
  <1>3. Append(plans, order) \in Seq(S \cup {order}) /\ Len(plans') = Len(plans) + 1
    BY <1>2
  <1> QED BY <1>1, <1>3

LEMMA SheetInitially == H!Init => SheetInvariant
  <1> SUFFICES ASSUME H!Init PROVE SheetInvariant
    OBVIOUS
  <1>1. PICK order : plans = <<order>>
    BY DEF H!Init
  <1>2. plans \in Seq({order}) /\ Len(plans) = 1
    BY <1>1
  <1>3. DOMAIN sheet = SheetFields /\ sheet.revision = 0
    BY DEF H!Init, SheetFields
  <1>4. DOMAIN save = Saves /\ \A s \in Saves : save[s].stage = "idle"
    BY DEF H!Init, H!Idle
  <1> QED BY <1>2, <1>3, <1>4
          DEF SheetInvariant, SheetTypeOK, SavesFromAPlan, OneSave, AnswersAreLater

LEMMA SheetKeepsShape ==
  ASSUME SheetTypeOK, AnswersAreLater, [H!Next]_(H!vars)
  PROVE  SheetTypeOK' /\ Len(plans) \in Nat /\ Len(plans') \in Nat /\ Len(plans) <= Len(plans')
  <1> USE DEF SheetTypeOK
  <1>1. Len(plans) \in Nat
    BY DEF SheetTypeOK
  <1>2. CASE UNCHANGED H!vars
    BY <1>1, <1>2 DEF H!vars
  <1>3. CASE H!LoadFails \/ H!Retry
    <2>1. plans' = plans /\ save' = save
      BY <1>3 DEF H!LoadFails, H!Retry
    <2>2. DOMAIN sheet' = DOMAIN sheet /\ sheet'.revision = sheet.revision
      BY <1>3 DEF H!LoadFails, H!Retry, SheetFields
    <2> QED BY <2>1, <2>2, <1>1
  <1>9. CASE H!Move
    <2>1. PICK i \in 1 .. Len(sheet.order) - 1 :
            sheet' = [sheet EXCEPT !.order[i] = sheet.order[i + 1], !.order[i + 1] = sheet.order[i]]
      BY <1>9 DEF H!Move
    <2>2. DOMAIN sheet' = DOMAIN sheet /\ sheet'.revision = sheet.revision
      BY <2>1 DEF SheetFields
    <2> QED BY <2>2, <1>1, <1>9 DEF H!Move
  <1>4. CASE H!Load
    <2>1. PICK r \in H!Found :
            sheet' = [revision |-> r, order |-> plans[r], status |-> status,
                      loading |-> FALSE, error |-> FALSE]
      BY <1>4 DEF H!Load
    <2> QED BY <2>1, <1>1, <1>4 DEF H!Load, H!Found, H!Revision, SheetFields
  <1>5. CASE H!Elsewhere
    BY <1>1, <1>5, PlansGrow DEF H!Elsewhere
  <1>6. ASSUME NEW s \in Saves, H!Mutate(s) \/ H!SaveFails(s) \/ H!LoadStored(s) \/ H!GetRoute(s)
        PROVE  SheetTypeOK' /\ Len(plans) <= Len(plans')
    BY <1>1, <1>6 DEF H!Mutate, H!Manual, H!Auto, H!SaveFails, H!LoadStored, H!GetRoute,
                      SheetFields
  <1>7. ASSUME NEW s \in Saves, H!UpdatePlan(s)
        PROVE  SheetTypeOK' /\ Len(plans) <= Len(plans')
    <2>1. PICK order : plans' = Append(plans, order)
      BY <1>7 DEF H!UpdatePlan
    <2> QED BY <2>1, <1>1, <1>7, PlansGrow DEF H!UpdatePlan
  <1>8. ASSUME NEW s \in Saves, H!Saved(s)
        PROVE  SheetTypeOK' /\ Len(plans) <= Len(plans')
    BY <1>1, <1>8 DEF H!Saved, AnswersAreLater, SheetFields
  <1> QED BY <1>1, <1>2, <1>3, <1>4, <1>5, <1>6, <1>7, <1>8, <1>9 DEF H!Next

\* What the steps that leave requests alone do to the page.
LEMMA SheetMoves ==
  ASSUME SheetInvariant, H!LoadFails \/ H!Retry \/ H!Move
  PROVE  /\ SavesFromAPlan' /\ OneSave' /\ AnswersAreLater'
         /\ sheet'.revision >= sheet.revision
  <1> USE DEF SheetInvariant
  <1>1. plans' = plans /\ save' = save
    BY DEF H!LoadFails, H!Retry, H!Move
  <1>2. sheet'.revision = sheet.revision /\ sheet.revision \in Nat
    <2>1. CASE H!LoadFails
      BY <2>1 DEF H!LoadFails, SheetFields, SheetTypeOK
    <2>3. CASE H!Retry
      BY <2>3 DEF H!Retry, SheetFields, SheetTypeOK
    <2>2. CASE H!Move
      <3>1. PICK i \in 1 .. Len(sheet.order) - 1 :
              sheet' = [sheet EXCEPT !.order[i] = sheet.order[i + 1],
                                     !.order[i + 1] = sheet.order[i]]
        BY <2>2 DEF H!Move
      <3> QED BY <3>1 DEF SheetFields, SheetTypeOK
    <2> QED BY <2>1, <2>2, <2>3
  <1>3. sheet'.loading => sheet.loading \/ sheet.revision = 0
    <2>1. CASE H!LoadFails
      BY <2>1 DEF H!LoadFails, SheetFields, SheetTypeOK
    <2>2. CASE H!Retry
      BY <2>2 DEF H!Retry
    <2>3. CASE H!Move
      <3>1. PICK i \in 1 .. Len(sheet.order) - 1 :
              sheet' = [sheet EXCEPT !.order[i] = sheet.order[i + 1],
                                     !.order[i + 1] = sheet.order[i]]
        BY <2>3 DEF H!Move
      <3> QED BY <3>1 DEF SheetFields, SheetTypeOK
    <2> QED BY <2>1, <2>2, <2>3
  <1> QED BY <1>1, <1>2, <1>3 DEF SavesFromAPlan, OneSave, AnswersAreLater

LEMMA SheetRequests ==
  ASSUME SheetInvariant, NEW s \in Saves,
         \/ H!Mutate(s) \/ H!Saved(s) \/ H!SaveFails(s)
         \/ H!LoadStored(s) \/ H!UpdatePlan(s) \/ H!GetRoute(s)
  PROVE  /\ SavesFromAPlan' /\ OneSave' /\ AnswersAreLater'
         /\ sheet'.revision >= sheet.revision
  <1> USE DEF SheetInvariant
  <1>0. sheet.revision \in Nat /\ Len(plans) \in Nat
    BY DEF SheetTypeOK
  <1>1. CASE H!Mutate(s)
    <2>1. /\ sheet.revision # 0 /\ ~sheet.loading
          /\ \A t \in Saves : save[t].stage = "idle"
      BY <1>1 DEF H!Mutate, H!MaySave, H!Offers, H!Idle
    <2>2. sheet' = [sheet EXCEPT !.error = FALSE]
      BY <1>1 DEF H!Mutate
    <2>3. sheet'.revision = sheet.revision /\ sheet'.loading = sheet.loading
      BY <2>2 DEF SheetFields, SheetTypeOK
    <2>4. \A t \in Saves : save'[t].stage = "idle" \/ (t = s /\ save'[t].stage = "sent")
      BY <1>1, <2>1 DEF H!Mutate, H!Manual, H!Auto, SheetTypeOK
    <2> QED BY <2>1, <2>3, <2>4, <1>0 DEF SavesFromAPlan, OneSave, AnswersAreLater
  <1>2. CASE H!Saved(s)
    <2>1. save[s].stage = "answered" /\ save[s].revision \in sheet.revision..Len(plans)
      BY <1>2 DEF H!Saved, AnswersAreLater
    <2>2. \A t \in Saves : save'[t].stage = "idle"
      BY <1>2, <2>1 DEF H!Saved, H!Idle, OneSave, SheetTypeOK
    <2>3. sheet'.revision = save[s].revision
      BY <1>2 DEF H!Saved, SheetFields, SheetTypeOK
    <2> QED BY <2>1, <2>2, <2>3, <1>0 DEF SavesFromAPlan, OneSave, AnswersAreLater
  <1>3. CASE H!SaveFails(s)
    <2>1. \A t \in Saves : save'[t].stage = "idle" \/ save'[t] = save[t]
      BY <1>3 DEF H!SaveFails, H!Idle, SheetTypeOK
    <2>2. sheet'.revision = sheet.revision /\ sheet'.loading = sheet.loading /\ plans' = plans
      BY <1>3 DEF H!SaveFails, SheetFields, SheetTypeOK
    <2> QED BY <2>1, <2>2, <1>0 DEF SavesFromAPlan, OneSave, AnswersAreLater
  <1>4. CASE H!LoadStored(s)
    <2>1. save[s].stage = "sent" /\ plans' = plans /\ sheet' = sheet
      BY <1>4 DEF H!LoadStored
    <2>2. \A t \in Saves : save'[t] = save[t] \/ (t = s /\ save'[t].stage = "loaded")
      BY <1>4 DEF H!LoadStored, SheetTypeOK
    <2> QED BY <2>1, <2>2, <1>0 DEF SavesFromAPlan, OneSave, AnswersAreLater
  <1>5. CASE H!UpdatePlan(s)
    <2>1. save[s].stage = "loaded" /\ sheet' = sheet
      BY <1>5 DEF H!UpdatePlan
    <2>2. \A t \in Saves : save'[t] = save[t] \/ (t = s /\ save'[t].stage = "stored")
      BY <1>5 DEF H!UpdatePlan, SheetTypeOK
    <2>3. PICK order : plans' = Append(plans, order)
      BY <1>5 DEF H!UpdatePlan
    <2>4. Len(plans') = Len(plans) + 1
      BY <2>3, PlansGrow
    <2> QED BY <2>1, <2>2, <2>4, <1>0 DEF SavesFromAPlan, OneSave, AnswersAreLater
  <1>6. CASE H!GetRoute(s)
    <2>1. save[s].stage = "stored" /\ plans' = plans /\ sheet' = sheet
      BY <1>6 DEF H!GetRoute
    <2>2. \A t \in Saves :
            \/ save'[t] = save[t]
            \/ t = s /\ save'[t].stage = "answered" /\ save'[t].revision = Len(plans)
      BY <1>6 DEF H!GetRoute, H!Found, H!Revision, SheetTypeOK
    <2>3. sheet.revision <= Len(plans)
      BY <1>0 DEF SheetTypeOK
    <2> QED BY <2>1, <2>2, <2>3, <1>0 DEF SavesFromAPlan, OneSave, AnswersAreLater
  <1> QED BY <1>1, <1>2, <1>3, <1>4, <1>5, <1>6

LEMMA SheetStep ==
  ASSUME SheetInvariant, [H!Next]_(H!vars)
  PROVE  SheetInvariant' /\ [sheet'.revision >= sheet.revision]_(H!vars)
  <1> SUFFICES /\ SavesFromAPlan' /\ OneSave' /\ AnswersAreLater'
               /\ [sheet'.revision >= sheet.revision]_(H!vars)
    BY SheetKeepsShape DEF SheetInvariant
  <1>0. sheet.revision \in Nat /\ Len(plans) \in Nat /\ sheet.revision <= Len(plans)
    BY DEF SheetInvariant, SheetTypeOK
  <1>1. CASE UNCHANGED H!vars
    BY <1>1 DEF H!vars, SheetInvariant, SavesFromAPlan, OneSave, AnswersAreLater
  <1>2. CASE H!LoadFails \/ H!Retry \/ H!Move
    BY <1>2, SheetMoves
  <1>3. CASE H!Load
    <2>1. PICK r \in H!Found :
            sheet' = [revision |-> r, order |-> plans[r], status |-> status,
                      loading |-> FALSE, error |-> FALSE]
      BY <1>3 DEF H!Load
    <2>2. sheet'.revision = Len(plans)
      BY <2>1 DEF H!Found, H!Revision
    <2>3. \A s \in Saves : save'[s].stage = "idle"
      BY <1>3 DEF H!Load, SheetInvariant, SavesFromAPlan
    <2> QED BY <2>2, <2>3, <1>0 DEF SavesFromAPlan, OneSave, AnswersAreLater
  <1>4. CASE H!Elsewhere
    <2>1. sheet' = sheet /\ save' = save
      BY <1>4 DEF H!Elsewhere
    <2>2. Len(plans) <= Len(plans') /\ Len(plans') \in Nat
      BY SheetKeepsShape DEF SheetInvariant
    <2> QED BY <2>1, <2>2, <1>0
            DEF SheetInvariant, SavesFromAPlan, OneSave, AnswersAreLater
  <1>5. ASSUME NEW s \in Saves,
               \/ H!Mutate(s) \/ H!Saved(s) \/ H!SaveFails(s)
               \/ H!LoadStored(s) \/ H!UpdatePlan(s) \/ H!GetRoute(s)
        PROVE  /\ SavesFromAPlan' /\ OneSave' /\ AnswersAreLater'
               /\ sheet'.revision >= sheet.revision
    BY <1>5, SheetRequests
  <1> QED BY <1>1, <1>2, <1>3, <1>4, <1>5 DEF H!Next

\* The page of a route goes on to later plans only, however many requests it sends and
\* whatever is planned elsewhere: updatePlan answers with what is stored then, and the page
\* shows nothing else while it waits.
THEOREM PlansAreShownInOrder == H!Spec => ShownPlanAdvances
  <1>1. SheetInvariant /\ [H!Next]_(H!vars) => SheetInvariant'
    BY SheetStep
  <1>2. SheetInvariant /\ [H!Next]_(H!vars) => [sheet'.revision >= sheet.revision]_(H!vars)
    BY SheetStep
  <1> QED BY SheetInitially, <1>1, <1>2, PTL DEF H!Spec, ShownPlanAdvances, H!ShownPlanAdvances

-----------------------------------------------------------------------------
(* The progress of routes.  The order and its stop agree on the plan as    *)
(* long as the order is on the route, and a stored route that is PLANNED   *)
(* still has every order, waiting or cancelled.                            *)

ParcelRows ==
  [status : R!Statuses, trip : Trips \cup {None}, plannedAt : Int \cup {None},
   arrivedAt : Int \cup {None}, asked : BOOLEAN]

ProgressTypeOK ==
  /\ clock \in Int
  /\ DOMAIN parcels = Parcels /\ \A o \in Parcels : parcels[o] \in ParcelRows
  /\ DOMAIN trips = Trips
  /\ \A t \in Trips :
       /\ DOMAIN trips[t] = {"status", "planned"}
       /\ R!Exists(t) => /\ trips[t].status \in {"PLANNED", "IN_PROGRESS"}
                         /\ R!On(t) \subseteq Parcels
                         /\ \A o \in R!On(t) : trips[t].planned[o] \in Int

StopsOfOrders ==
  \A o \in Parcels, t \in Trips :
    parcels[o].trip = t /\ t # None =>
      /\ R!Exists(t) /\ o \in R!On(t) /\ parcels[o].plannedAt = trips[t].planned[o]

WaitingTrips ==
  \A t \in Trips :
    trips[t].status = "PLANNED" =>
      \A o \in R!On(t) : parcels[o].trip = t /\ parcels[o].status \in {"ASSIGNED", "CANCELLED"}

RescheduledHaveLeft ==
  \A o \in Parcels : parcels[o].status = "RESCHEDULED" => parcels[o].trip = None

ArrivalsArePast ==
  \A o \in Parcels : parcels[o].arrivedAt # None => parcels[o].arrivedAt <= clock

ProgressInvariant ==
  ProgressTypeOK /\ StopsOfOrders /\ WaitingTrips /\ RescheduledHaveLeft /\ ArrivalsArePast

\* What no step takes back.
Onward ==
  /\ \A t \in Trips : R!Exists(t) =>
       /\ R!Exists(t)' /\ R!On(t)' = R!On(t)
       /\ trips[t].status = "IN_PROGRESS" => trips'[t].status = "IN_PROGRESS"
  /\ \A o \in Parcels : parcels[o].status \in R!TerminalStatuses =>
       parcels'[o].status \in R!TerminalStatuses

LEMMA ProgressInitially == R!Init => ProgressInvariant
  <1> SUFFICES ASSUME R!Init PROVE ProgressInvariant
    OBVIOUS
  <1>1. /\ clock = 0 /\ DOMAIN parcels = Parcels /\ DOMAIN trips = Trips
        /\ \A o \in Parcels : /\ parcels[o] \in ParcelRows /\ parcels[o].trip = None
                              /\ parcels[o].status = "PENDING" /\ parcels[o].arrivedAt = None
        /\ \A t \in Trips : DOMAIN trips[t] = {"status", "planned"} /\ trips[t].status = None
    BY DEF R!Init, ParcelRows, R!Statuses
  <1>2. None # "PLANNED"
    BY ProgressAssumption
  <1> QED BY <1>1, <1>2
          DEF ProgressInvariant, ProgressTypeOK, StopsOfOrders, WaitingTrips,
              RescheduledHaveLeft, ArrivalsArePast, R!Exists

\* A route as its orders see it goes forward with them.
LEMMA RoutesGoForward ==
  ASSUME ProgressInvariant, Onward, ProgressTypeOK', NEW t \in Trips, R!Exists(t)
  PROVE  R!Rank(R!RouteStatus(t)) <= R!Rank(R!RouteStatus(t)')
  <1>1. /\ R!Exists(t)' /\ R!On(t)' = R!On(t) /\ R!On(t) \subseteq Parcels
        /\ trips[t].status \in {"PLANNED", "IN_PROGRESS"}
        /\ trips'[t].status \in {"PLANNED", "IN_PROGRESS"}
    BY DEF ProgressInvariant, ProgressTypeOK, Onward
  <1>2. CASE \A o \in R!On(t) : parcels[o].status \in R!TerminalStatuses
    <2>1. \A o \in R!On(t)' : parcels'[o].status \in R!TerminalStatuses
      BY <1>1, <1>2 DEF Onward
    <2>2. R!RouteStatus(t)' = "COMPLETED"
      BY <2>1 DEF R!RouteStatus
    <2> QED BY <2>2, <1>2 DEF R!RouteStatus, R!Rank
  <1>3. CASE /\ ~\A o \in R!On(t) : parcels[o].status \in R!TerminalStatuses
             /\ R!RouteStatus(t) = "IN_PROGRESS"
    <2>1. trips[t].status = "IN_PROGRESS"
      <3> SUFFICES ASSUME trips[t].status = "PLANNED" PROVE FALSE
        BY <1>1
      <3>1. \A o \in R!On(t) : parcels[o].status \in {"ASSIGNED", "CANCELLED"}
        BY DEF ProgressInvariant, WaitingTrips
      <3> QED BY <1>3, <3>1 DEF R!RouteStatus
    <2>2. trips'[t].status = "IN_PROGRESS"
      BY <2>1 DEF Onward
    <2>3. R!RouteStatus(t)' \in {"COMPLETED", "IN_PROGRESS"}
      BY <2>2 DEF R!RouteStatus
    <2> QED BY <1>3, <2>3 DEF R!Rank
  <1>4. CASE R!RouteStatus(t) = "PLANNED"
    <2>1. R!RouteStatus(t)' \in {"COMPLETED", "IN_PROGRESS", "PLANNED"}
      BY <1>1 DEF R!RouteStatus
    <2> QED BY <1>4, <2>1 DEF R!Rank
  <1> QED BY <1>1, <1>2, <1>3, <1>4 DEF R!RouteStatus

\* What is late is critical for the list of issues, and what is at risk an issue.
LEMMA LateIsCritical ==
  ASSUME ProgressInvariant, NEW o \in Parcels, parcels[o].trip # None,
         parcels[o].status \notin R!TerminalStatuses
  PROVE  /\ R!SlaStatus(parcels[o].trip, o) = "LATE" =>
              R!Issue(o) # None /\ R!Issue(o).severity = "CRITICAL"
         /\ R!SlaStatus(parcels[o].trip, o) = "AT_RISK" => R!Issue(o) # None
  <1> DEFINE row == parcels[o]
             t == parcels[o].trip
  <1>1. /\ row.plannedAt = trips[t].planned[o] /\ trips[t].planned[o] \in Int
        /\ row.status # "RESCHEDULED"
        /\ row.arrivedAt # None => row.arrivedAt \in Int /\ row.arrivedAt <= clock
        /\ clock \in Int /\ ClosesAt[o] \in Int
    BY ProgressAssumption
       DEF ProgressInvariant, ProgressTypeOK, StopsOfOrders, RescheduledHaveLeft,
           ArrivalsArePast, ParcelRows
  <1>2. None \notin IssueRecords
    BY ProgressAssumption
  <1>3. AskedFor \in Int
    BY ProgressAssumption
  <1>4. ASSUME R!SlaStatus(t, o) = "LATE"
        PROVE  R!Issue(o) # None /\ R!Issue(o).severity = "CRITICAL"
    <2>1. ClosesAt[o] # Never /\ clock > ClosesAt[o]
      BY <1>1, <1>4 DEF R!SlaStatus
    <2>2. \/ R!Issue(o) = [type |-> "CUSTOMER_RESCHEDULE_REQUEST", severity |-> "CRITICAL",
                           due |-> AskedFor]
          \/ R!Issue(o) = [type |-> "DELIVERY_EXCEPTION", severity |-> "CRITICAL",
                           due |-> ClosesAt[o]]
          \/ R!Issue(o) = [type |-> "SLA_BREACH", severity |-> "CRITICAL",
                           due |-> ClosesAt[o]]
      BY <1>1, <2>1 DEF R!Issue
    <2> QED BY <1>1, <1>2, <1>3, <2>2 DEF IssueRecords
  <1>5. ASSUME R!SlaStatus(t, o) = "AT_RISK"
        PROVE  R!Issue(o) # None
    <2>1. ClosesAt[o] # Never /\ row.plannedAt > ClosesAt[o] /\ row.plannedAt # None
      BY <1>1, <1>5, ProgressAssumption DEF R!SlaStatus
    <2>2. \/ R!Issue(o) = [type |-> "CUSTOMER_RESCHEDULE_REQUEST", severity |-> "CRITICAL",
                           due |-> AskedFor]
          \/ R!Issue(o) = [type |-> "DELIVERY_EXCEPTION", severity |-> "CRITICAL",
                           due |-> ClosesAt[o]]
          \/ R!Issue(o) = [type |-> "SLA_BREACH", severity |-> "CRITICAL",
                           due |-> ClosesAt[o]]
          \/ R!Issue(o) = [type |-> "SLA_RISK", severity |-> "WARNING", due |-> ClosesAt[o]]
      BY <1>1, <2>1 DEF R!Issue
    <2> QED BY <1>1, <1>2, <1>3, <2>2 DEF IssueRecords
  <1> QED BY <1>4, <1>5

LEMMA LateFromInvariant == ProgressInvariant => LateIsListed
  <1> SUFFICES ASSUME ProgressInvariant, NEW o \in Parcels, parcels[o].trip # None,
                      parcels[o].status \notin R!TerminalStatuses
               PROVE  /\ R!SlaStatus(parcels[o].trip, o) = "LATE" =>
                           \A limit \in Limits : \A Q \in R!Answers(limit) :
                             o \in Q \/ \A p \in Q : R!Issue(p).severity = "CRITICAL"
                      /\ R!SlaStatus(parcels[o].trip, o) = "AT_RISK" => R!Issue(o) # None
    BY DEF LateIsListed, R!LateIsListed
  <1>1. ASSUME R!SlaStatus(parcels[o].trip, o) = "LATE",
               NEW limit \in Limits, NEW Q \in R!Answers(limit), o \notin Q, NEW p \in Q
        PROVE  R!Issue(p).severity = "CRITICAL"
    <2>1. R!Issue(o) # None /\ R!Issue(o).severity = "CRITICAL"
      BY <1>1, LateIsCritical
    <2>2. ~R!Precedes(o, p)
      BY <1>1, <2>1 DEF R!Answers
    <2> QED BY <2>1, <2>2 DEF R!Precedes
  <1> QED BY <1>1, LateIsCritical

LEMMA TripsAreGiven ==
  ASSUME ProgressTypeOK, NEW S \in SUBSET Parcels, R!CreateRoute(S)
  PROVE  \E t \in Trips, planned \in [S -> Int] :
           /\ trips[t].status = None
           /\ trips' = [trips EXCEPT ![t] = [status |-> "PLANNED", planned |-> planned]]
           /\ parcels' = [o \in Parcels |->
                            IF o \in S THEN R!Placed(parcels[o], t, planned[o])
                            ELSE parcels[o]]
           /\ \A o \in S : R!Waits(o)
           /\ clock' = clock
  <1> DEFINE t == CHOOSE t \in Trips : trips[t].status = None
  <1>1. t \in Trips /\ trips[t].status = None
    BY DEF R!CreateRoute
  <1>2. PICK planned \in R!Schedules(S) :
          /\ trips' = [trips EXCEPT ![t] = [status |-> "PLANNED", planned |-> planned]]
          /\ parcels' = [o \in Parcels |->
                           IF o \in S THEN R!Placed(parcels[o], t, planned[o]) ELSE parcels[o]]
    BY DEF R!CreateRoute
  <1>3. planned \in [S -> Int]
    <2>1. {clock + k : k \in Offsets} \subseteq Int
      BY ProgressAssumption DEF ProgressTypeOK
    <2>2. planned \in [S -> {clock + k : k \in Offsets}]
      BY DEF R!Schedules
    <2> QED BY <2>1, <2>2
  <1>4. (\A o \in S : R!Waits(o)) /\ clock' = clock
    BY DEF R!CreateRoute
  <1> HIDE DEF t
  <1> QED BY <1>1, <1>2, <1>3, <1>4

LEMMA ProgressCreates ==
  ASSUME ProgressInvariant, NEW S \in SUBSET Parcels, R!CreateRoute(S)
  PROVE  ProgressInvariant' /\ Onward
  <1>1. PICK t \in Trips, planned \in [S -> Int] :
           /\ trips[t].status = None
           /\ trips' = [trips EXCEPT ![t] = [status |-> "PLANNED", planned |-> planned]]
           /\ parcels' = [o \in Parcels |->
                            IF o \in S THEN R!Placed(parcels[o], t, planned[o])
                            ELSE parcels[o]]
           /\ \A o \in S : R!Waits(o)
           /\ clock' = clock
    BY TripsAreGiven DEF ProgressInvariant
  <1>2. /\ DOMAIN parcels = Parcels /\ \A o \in Parcels : parcels[o] \in ParcelRows
        /\ DOMAIN trips = Trips
    BY DEF ProgressInvariant, ProgressTypeOK
  <1>3. /\ DOMAIN trips' = Trips /\ DOMAIN parcels' = Parcels
        /\ trips'[t] = [status |-> "PLANNED", planned |-> planned]
        /\ \A u \in Trips : u # t => trips'[u] = trips[u]
    BY <1>1, <1>2
  <1>4. ASSUME NEW o \in S
        PROVE  /\ parcels[o].status \in {"PENDING", "RESCHEDULED"} /\ parcels[o].trip = None
               /\ parcels'[o].status = "ASSIGNED" /\ parcels'[o].trip = t
               /\ parcels'[o].plannedAt = planned[o]
               /\ parcels'[o].arrivedAt = parcels[o].arrivedAt
               /\ parcels'[o] \in ParcelRows
    <2>1. parcels[o] \in ParcelRows /\ parcels'[o] = R!Placed(parcels[o], t, planned[o])
      BY <1>1, <1>2
    <2>2. planned[o] \in Int /\ "ASSIGNED" \in R!Statuses
      BY DEF R!Statuses
    <2> QED BY <1>1, <2>1, <2>2 DEF R!Waits, R!Placed, ParcelRows
  <1>5. \A o \in Parcels : o \notin S => parcels'[o] = parcels[o]
    BY <1>1
  <1>6. None \notin {"PLANNED", "IN_PROGRESS"}
    BY ProgressAssumption
  <1>7. ProgressTypeOK'
    BY <1>1, <1>2, <1>3, <1>4, <1>5 DEF ProgressInvariant, ProgressTypeOK, R!Exists, R!On
  <1>8. StopsOfOrders'
    <2> SUFFICES ASSUME NEW o \in Parcels, NEW u \in Trips, parcels'[o].trip = u, u # None
                 PROVE  /\ R!Exists(u)' /\ o \in R!On(u)'
                        /\ parcels'[o].plannedAt = trips'[u].planned[o]
      BY DEF StopsOfOrders
    <2>1. CASE o \in S
      <3>1. u = t
        BY <2>1, <1>4
      <3> QED BY <2>1, <3>1, <1>3, <1>4, <1>6 DEF R!Exists, R!On
    <2>2. CASE o \notin S
      <3>1. /\ parcels'[o] = parcels[o] /\ R!Exists(u) /\ o \in R!On(u)
            /\ parcels[o].plannedAt = trips[u].planned[o]
        BY <2>2, <1>5 DEF ProgressInvariant, StopsOfOrders
      <3>2. trips'[u] = trips[u]
        BY <3>1, <1>1, <1>3 DEF R!Exists
      <3> QED BY <3>1, <3>2 DEF R!Exists, R!On
    <2> QED BY <2>1, <2>2
  <1>9. WaitingTrips'
    <2> SUFFICES ASSUME NEW u \in Trips, trips'[u].status = "PLANNED", NEW o \in R!On(u)'
                 PROVE  parcels'[o].trip = u /\ parcels'[o].status \in {"ASSIGNED", "CANCELLED"}
      BY DEF WaitingTrips
    <2>1. CASE u = t
      BY <2>1, <1>3, <1>4 DEF R!On
    <2>2. CASE u # t
      <3>1. /\ o \in R!On(u) /\ parcels[o].trip = u
            /\ parcels[o].status \in {"ASSIGNED", "CANCELLED"}
        BY <2>2, <1>3 DEF ProgressInvariant, WaitingTrips, R!On
      <3>2. o \in Parcels
        BY <2>2, <3>1, <1>3, <1>6 DEF ProgressInvariant, ProgressTypeOK, R!Exists
      <3> QED BY <3>1, <3>2, <1>4, <1>5
    <2> QED BY <2>1, <2>2
  <1>10. RescheduledHaveLeft' /\ ArrivalsArePast'
    BY <1>1, <1>4, <1>5 DEF ProgressInvariant, RescheduledHaveLeft, ArrivalsArePast
  <1>11. Onward
    <2>1. \A u \in Trips : R!Exists(u) => trips'[u] = trips[u]
      BY <1>1, <1>3 DEF R!Exists
    <2>2. \A o \in Parcels : parcels[o].status \in R!TerminalStatuses => parcels'[o] = parcels[o]
      BY <1>4, <1>5 DEF R!TerminalStatuses
    <2> QED BY <2>1, <2>2 DEF Onward, R!Exists, R!On
  <1> QED BY <1>7, <1>8, <1>9, <1>10, <1>11 DEF ProgressInvariant

LEMMA ProgressReplans ==
  ASSUME ProgressInvariant, NEW t \in Trips, R!Replan(t)
  PROVE  ProgressInvariant' /\ Onward
  <1>1. PICK planned \in R!Schedules(R!On(t)) :
          /\ trips' = [trips EXCEPT ![t].planned = planned]
          /\ parcels' = [o \in Parcels |->
                           IF o \in DOMAIN planned
                           THEN [parcels[o] EXCEPT !.plannedAt = R!RevisedPlan(o, planned)]
                           ELSE parcels[o]]
    BY DEF R!Replan, R!On
  <1>2. /\ trips[t].status = "PLANNED" /\ clock' = clock
        /\ \A o \in R!On(t) : parcels[o].status = "ASSIGNED" /\ parcels[o].trip = t
    BY DEF R!Replan, R!On
  <1>3. /\ DOMAIN parcels = Parcels /\ \A o \in Parcels : parcels[o] \in ParcelRows
        /\ DOMAIN trips = Trips /\ \A u \in Trips : DOMAIN trips[u] = {"status", "planned"}
        /\ clock \in Int
    BY DEF ProgressInvariant, ProgressTypeOK
  <1>4. planned \in [R!On(t) -> Int]
    <2>1. {clock + k : k \in Offsets} \subseteq Int
      BY <1>3, ProgressAssumption
    <2>2. planned \in [R!On(t) -> {clock + k : k \in Offsets}]
      BY DEF R!Schedules
    <2> QED BY <2>1, <2>2
  <1>5. /\ DOMAIN trips' = Trips /\ DOMAIN parcels' = Parcels
        /\ DOMAIN trips'[t] = {"status", "planned"}
        /\ trips'[t].status = "PLANNED" /\ trips'[t].planned = planned
        /\ \A u \in Trips : u # t => trips'[u] = trips[u]
    BY <1>1, <1>2, <1>3
  <1>6. R!On(t) \subseteq Parcels /\ R!Exists(t)
    <2>1. R!Exists(t)
      BY <1>2, ProgressAssumption DEF R!Exists
    <2> QED BY <2>1 DEF ProgressInvariant, ProgressTypeOK
  <1>7. ASSUME NEW o \in R!On(t)
        PROVE  /\ parcels'[o].status = parcels[o].status /\ parcels'[o].trip = parcels[o].trip
               /\ parcels'[o].plannedAt = planned[o]
               /\ parcels'[o].arrivedAt = parcels[o].arrivedAt
               /\ parcels'[o] \in ParcelRows
    <2>1. parcels[o] \in ParcelRows /\ planned[o] \in Int
      BY <1>3, <1>4, <1>6
    <2>2. parcels'[o] = [parcels[o] EXCEPT !.plannedAt = planned[o]]
      BY <1>1, <1>4, <1>6 DEF R!RevisedPlan
    <2> QED BY <2>1, <2>2 DEF ParcelRows
  <1>8. \A o \in Parcels : o \notin R!On(t) => parcels'[o] = parcels[o]
    BY <1>1, <1>4
  <1>9. \A u \in Trips : R!On(u)' = R!On(u) /\ trips'[u].status = trips[u].status
    BY <1>2, <1>4, <1>5 DEF R!On
  <1>10. ProgressTypeOK'
    BY <1>2, <1>3, <1>4, <1>5, <1>7, <1>8, <1>9
       DEF ProgressInvariant, ProgressTypeOK, R!Exists, R!On
  <1>11. StopsOfOrders'
    <2> SUFFICES ASSUME NEW o \in Parcels, NEW u \in Trips, parcels'[o].trip = u, u # None
                 PROVE  /\ R!Exists(u)' /\ o \in R!On(u)'
                        /\ parcels'[o].plannedAt = trips'[u].planned[o]
      BY DEF StopsOfOrders
    <2>1. parcels[o].trip = u
      BY <1>7, <1>8
    <2>2. R!Exists(u) /\ o \in R!On(u) /\ parcels[o].plannedAt = trips[u].planned[o]
      BY <2>1 DEF ProgressInvariant, StopsOfOrders
    <2>3. R!Exists(u)' /\ o \in R!On(u)'
      BY <2>2, <1>9 DEF R!Exists
    <2>4. CASE o \in R!On(t)
      BY <2>1, <2>3, <2>4, <1>2, <1>5, <1>7
    <2>5. CASE o \notin R!On(t)
      BY <2>2, <2>3, <2>5, <1>5, <1>8
    <2> QED BY <2>4, <2>5
  <1>12. WaitingTrips'
    <2> SUFFICES ASSUME NEW u \in Trips, trips'[u].status = "PLANNED", NEW o \in R!On(u)'
                 PROVE  parcels'[o].trip = u /\ parcels'[o].status \in {"ASSIGNED", "CANCELLED"}
      BY DEF WaitingTrips
    <2>1. /\ o \in R!On(u) /\ parcels[o].trip = u
          /\ parcels[o].status \in {"ASSIGNED", "CANCELLED"}
      BY <1>9 DEF ProgressInvariant, WaitingTrips
    <2>2. o \in Parcels
      BY <2>1, <1>9, ProgressAssumption DEF ProgressInvariant, ProgressTypeOK, R!Exists
    <2> QED BY <2>1, <2>2, <1>7, <1>8
  <1>13. RescheduledHaveLeft' /\ ArrivalsArePast'
    BY <1>2, <1>7, <1>8 DEF ProgressInvariant, RescheduledHaveLeft, ArrivalsArePast
  <1>14. Onward
    BY <1>6, <1>7, <1>8, <1>9 DEF Onward, R!Exists
  <1> QED BY <1>10, <1>11, <1>12, <1>13, <1>14 DEF ProgressInvariant

\* A route that an order starts is the one the order is on; the others keep their status.
LEMMA TripsStart ==
  ASSUME ProgressInvariant, NEW o \in Parcels, NEW next \in R!UpdatableStatuses,
         R!ChangeStatus(o, next)
  PROVE  /\ DOMAIN trips' = Trips
         /\ \A t \in Trips :
              /\ DOMAIN trips'[t] = {"status", "planned"}
              /\ trips'[t].planned = trips[t].planned
              /\ R!Exists(t)' <=> R!Exists(t)
              /\ R!On(t)' = R!On(t)
              /\ \/ trips'[t].status = trips[t].status
                 \/ /\ R!Exists(t) /\ trips'[t].status = "IN_PROGRESS"
              /\ next = "IN_PROGRESS" /\ parcels[o].trip = t => trips'[t].status = "IN_PROGRESS"
         /\ next = "IN_PROGRESS" => parcels[o].trip \in Trips
  <1>1. /\ trips' = R!TripAfter(o, next)
        /\ next = "IN_PROGRESS" => parcels[o].trip # None
    BY DEF R!ChangeStatus, R!NeedsDriver
  <1>2. /\ DOMAIN trips = Trips /\ \A t \in Trips : DOMAIN trips[t] = {"status", "planned"}
        /\ parcels[o].trip \in Trips \cup {None}
    BY DEF ProgressInvariant, ProgressTypeOK, ParcelRows
  <1>3. CASE next # "IN_PROGRESS"
    <2>1. trips' = trips
      BY <1>1, <1>3 DEF R!TripAfter
    <2> QED BY <2>1, <1>2, <1>3 DEF R!Exists, R!On
  <1>4. CASE next = "IN_PROGRESS"
    <2>1. /\ parcels[o].trip \in Trips /\ R!Exists(parcels[o].trip)
          /\ trips' = [trips EXCEPT ![parcels[o].trip].status = "IN_PROGRESS"]
      BY <1>1, <1>2, <1>4 DEF R!TripAfter, ProgressInvariant, StopsOfOrders
    <2>2. None # "IN_PROGRESS"
      BY ProgressAssumption
    <2> QED BY <2>1, <2>2, <1>2 DEF R!Exists, R!On
  <1> QED BY <1>3, <1>4

LEMMA ProgressChanges ==
  ASSUME ProgressInvariant, NEW o \in Parcels, NEW next \in R!UpdatableStatuses,
         R!ChangeStatus(o, next)
  PROVE  ProgressInvariant' /\ Onward
  <1>1. /\ parcels' = [parcels EXCEPT ![o] = R!Stamp(parcels[o], next)] /\ clock' = clock
        /\ R!CanTransition(parcels[o].status, next)
    BY DEF R!ChangeStatus
  <1>2. /\ DOMAIN parcels = Parcels /\ \A p \in Parcels : parcels[p] \in ParcelRows
        /\ clock \in Int
    BY DEF ProgressInvariant, ProgressTypeOK
  <1>3. /\ parcels'[o] = R!Stamp(parcels[o], next) /\ DOMAIN parcels' = Parcels
        /\ \A p \in Parcels : p # o => parcels'[p] = parcels[p]
    BY <1>1, <1>2
  <1>4. next \in R!Statuses /\ parcels[o] \in ParcelRows
    BY <1>2 DEF R!UpdatableStatuses
  <1>5. /\ parcels'[o] \in ParcelRows /\ parcels'[o].status = next
        /\ next # "RESCHEDULED" => /\ parcels'[o].trip = parcels[o].trip
                                   /\ parcels'[o].plannedAt = parcels[o].plannedAt
        /\ next = "RESCHEDULED" => parcels'[o].trip = None
        /\ parcels'[o].arrivedAt \in {parcels[o].arrivedAt, clock}
    BY <1>2, <1>3, <1>4 DEF R!Stamp, ParcelRows
  <1>6. /\ DOMAIN trips' = Trips
        /\ \A t \in Trips :
             /\ DOMAIN trips'[t] = {"status", "planned"}
             /\ trips'[t].planned = trips[t].planned
             /\ R!Exists(t)' <=> R!Exists(t)
             /\ R!On(t)' = R!On(t)
             /\ \/ trips'[t].status = trips[t].status
                \/ /\ R!Exists(t) /\ trips'[t].status = "IN_PROGRESS"
             /\ next = "IN_PROGRESS" /\ parcels[o].trip = t => trips'[t].status = "IN_PROGRESS"
        /\ next = "IN_PROGRESS" => parcels[o].trip \in Trips
    BY TripsStart
  <1>7. ProgressTypeOK'
    BY <1>1, <1>2, <1>3, <1>5, <1>6 DEF ProgressInvariant, ProgressTypeOK
  <1>8. StopsOfOrders'
    <2> SUFFICES ASSUME NEW p \in Parcels, NEW t \in Trips, parcels'[p].trip = t, t # None
                 PROVE  /\ R!Exists(t)' /\ p \in R!On(t)'
                        /\ parcels'[p].plannedAt = trips'[t].planned[p]
      BY DEF StopsOfOrders
    <2>1. parcels[p].trip = t /\ parcels'[p].plannedAt = parcels[p].plannedAt
      BY <1>3, <1>5
    <2> QED BY <2>1, <1>6 DEF ProgressInvariant, StopsOfOrders
  <1>9. WaitingTrips'
    <2> SUFFICES ASSUME NEW t \in Trips, trips'[t].status = "PLANNED", NEW p \in R!On(t)'
                 PROVE  parcels'[p].trip = t /\ parcels'[p].status \in {"ASSIGNED", "CANCELLED"}
      BY DEF WaitingTrips
    <2>1. trips[t].status = "PLANNED" /\ p \in R!On(t)
      BY <1>6
    <2>2. parcels[p].trip = t /\ parcels[p].status \in {"ASSIGNED", "CANCELLED"}
      BY <2>1 DEF ProgressInvariant, WaitingTrips
    <2>3. CASE p = o
      <3>1. next \in {"IN_PROGRESS", "CANCELLED"}
        BY <2>2, <2>3, <1>1 DEF R!CanTransition, R!Transitions
      <3>2. next # "IN_PROGRESS"
        BY <2>2, <2>3, <1>6
      <3> QED BY <3>1, <3>2, <2>2, <2>3, <1>5
    <2>4. CASE p # o
      <3>1. p \in Parcels
        BY <2>1, ProgressAssumption DEF ProgressInvariant, ProgressTypeOK, R!Exists
      <3> QED BY <3>1, <2>2, <2>4, <1>3
    <2> QED BY <2>3, <2>4
  <1>10. RescheduledHaveLeft' /\ ArrivalsArePast'
    BY <1>1, <1>2, <1>3, <1>5 DEF ProgressInvariant, RescheduledHaveLeft, ArrivalsArePast
  <1>11. Onward
    <2>1. parcels[o].status \notin R!TerminalStatuses
      BY <1>1 DEF R!CanTransition, R!Transitions, R!TerminalStatuses
    <2> QED BY <2>1, <1>3, <1>6 DEF Onward
  <1> QED BY <1>7, <1>8, <1>9, <1>10, <1>11 DEF ProgressInvariant

LEMMA ProgressAsks ==
  ASSUME ProgressInvariant, NEW o \in Parcels, R!AskReschedule(o)
  PROVE  ProgressInvariant' /\ Onward
  <1>1. clock' = clock /\ trips' = trips /\ parcels' = [parcels EXCEPT ![o].asked = TRUE]
    BY DEF R!AskReschedule
  <1>2. /\ DOMAIN parcels = Parcels /\ \A p \in Parcels : parcels[p] \in ParcelRows
    BY DEF ProgressInvariant, ProgressTypeOK
  <1>3. /\ DOMAIN parcels' = Parcels
        /\ \A p \in Parcels : /\ parcels'[p] \in ParcelRows
                              /\ parcels'[p].status = parcels[p].status
                              /\ parcels'[p].trip = parcels[p].trip
                              /\ parcels'[p].plannedAt = parcels[p].plannedAt
                              /\ parcels'[p].arrivedAt = parcels[p].arrivedAt
    <2>1. parcels[o] \in ParcelRows
      BY <1>2
    <2>2. [parcels[o] EXCEPT !.asked = TRUE] \in ParcelRows
      BY <2>1 DEF ParcelRows
    <2> QED BY <1>1, <1>2, <2>1, <2>2 DEF ParcelRows
  <1>4. ProgressTypeOK'
    BY <1>1, <1>3 DEF ProgressInvariant, ProgressTypeOK, R!Exists, R!On
  <1>5. StopsOfOrders'
    BY <1>1, <1>3 DEF ProgressInvariant, StopsOfOrders, R!Exists, R!On
  <1>6. WaitingTrips'
    <2>1. \A t \in Trips : trips[t].status = "PLANNED" => R!On(t) \subseteq Parcels
      BY ProgressAssumption DEF ProgressInvariant, ProgressTypeOK, R!Exists
    <2> QED BY <2>1, <1>1, <1>3 DEF ProgressInvariant, WaitingTrips, R!On
  <1>7. RescheduledHaveLeft' /\ ArrivalsArePast'
    BY <1>1, <1>3 DEF ProgressInvariant, RescheduledHaveLeft, ArrivalsArePast
  <1>8. Onward
    BY <1>1, <1>3 DEF Onward, R!Exists, R!On
  <1> QED BY <1>4, <1>5, <1>6, <1>7, <1>8 DEF ProgressInvariant

LEMMA ProgressStep ==
  ASSUME ProgressInvariant, [R!Next]_(R!vars)
  PROVE  /\ ProgressInvariant'
         /\ \A t \in Trips : R!Exists(t) => R!Rank(R!RouteStatus(t)) <= R!Rank(R!RouteStatus(t)')
  <1> SUFFICES ProgressInvariant' /\ Onward
    BY RoutesGoForward DEF ProgressInvariant
  <1>1. CASE UNCHANGED <<parcels, trips>> /\ (clock' = clock \/ clock' = clock + 1)
    BY <1>1 DEF ProgressInvariant, ProgressTypeOK, StopsOfOrders, WaitingTrips,
                RescheduledHaveLeft, ArrivalsArePast, Onward, R!Exists, R!On, ParcelRows
  <1>2. CASE R!Tick \/ UNCHANGED R!vars
    BY <1>1, <1>2 DEF R!Tick, R!vars
  <1>3. CASE \E t \in Trips : R!Replan(t)
    BY <1>3, ProgressReplans
  <1>4. CASE \E S \in SUBSET Parcels : R!CreateRoute(S)
    BY <1>4, ProgressCreates
  <1>5. CASE \E o \in Parcels : \/ R!AskReschedule(o)
                                \/ \E next \in R!UpdatableStatuses : R!ChangeStatus(o, next)
    BY <1>5, ProgressAsks, ProgressChanges
  <1> QED BY <1>2, <1>3, <1>4, <1>5 DEF R!Next

\* What the page of a route shows late is in the list of issues or crowded out by critical
\* ones, and what it shows at risk is an issue, though the two are read from different rows.
THEOREM LateOrdersAreListed == R!Spec => []LateIsListed
  <1>1. ProgressInvariant /\ [R!Next]_(R!vars) => ProgressInvariant'
    BY ProgressStep
  <1> QED BY ProgressInitially, <1>1, LateFromInvariant, PTL DEF R!Spec

\* The status getRoute computes from a route and its orders never falls back, wherever the
\* orders of its stops go.
THEOREM RoutesNeverFallBack == R!Spec => RouteNeverFallsBack
  <1>1. ProgressInvariant /\ [R!Next]_(R!vars) => ProgressInvariant'
    BY ProgressStep
  <1>2. ProgressInvariant /\ [R!Next]_(R!vars) =>
          [\A t \in Trips : R!Exists(t) =>
             R!Rank(R!RouteStatus(t)) <= R!Rank(R!RouteStatus(t))']_(R!vars)
    <2> SUFFICES ASSUME ProgressInvariant, [R!Next]_(R!vars), NEW t \in Trips, R!Exists(t)
                 PROVE  R!Rank(R!RouteStatus(t)) <= R!Rank(R!RouteStatus(t))'
      OBVIOUS
    <2> QED BY ProgressStep DEF R!Rank
  <1> QED BY ProgressInitially, <1>1, <1>2, PTL
          DEF R!Spec, RouteNeverFallsBack, R!RouteNeverFallsBack

-----------------------------------------------------------------------------
(* The planning of a route.  A leg is missing or short, so that the score  *)
(* of an order tells whether it uses a missing leg.                        *)

\* The first k stops of a sequence have been driven.
Driven(w, matrix, seq, k) ==
  {s \in [time : Nat, at : 0 .. Len(w.opens), score : Nat, arrivals : Seq(Nat)] :
     /\ Len(s.arrivals) = k
     /\ s.at = IF k = 0 THEN 0 ELSE seq[k]
     /\ s.time = IF k = 0 THEN 0 ELSE s.arrivals[k] + w.service
     /\ \A i \in 1 .. k :
          /\ s.arrivals[i] >= w.opens[seq[i]]
          /\ s.arrivals[i] >= matrix[P!Before(seq, i)][seq[i]]
               + (IF i = 1 THEN 0 ELSE s.arrivals[i - 1] + w.service)
     /\ IF \E i \in 1 .. k : matrix[P!Before(seq, i)][seq[i]] >= NoRoad THEN s.score >= NoRoad
        ELSE 50 * s.time <= (25 + k) * LastDate /\ s.score <= s.time + (40 * k) * LastDate}

\* At most 25 stops are asked for, and an order of them is no longer.
StopLists(n) == {seq \in Seq(1 .. n) : Len(seq) <= 25}

\* Every leg is missing or short.
Matrices(w) ==
  {m \in [0 .. Len(w.opens) -> [1 .. Len(w.opens) -> Nat]] :
     \A i \in 0 .. Len(w.opens), j \in 1 .. Len(w.opens) :
       m[i][j] >= NoRoad \/ 50 * (m[i][j] + w.service) <= LastDate}

LEMMA MaxOfTwo == ASSUME NEW a \in Int, NEW b \in Int
                  PROVE  P!Max({a, b}) = IF a >= b THEN a ELSE b
  <1> DEFINE m == IF a >= b THEN a ELSE b
  <1>1. m \in {a, b} /\ \A y \in {a, b} : m >= y
    OBVIOUS
  <1>2. \A x \in {a, b} : (\A y \in {a, b} : x >= y) => x = m
    OBVIOUS
  <1> HIDE DEF m
  <1>3. P!Max({a, b}) = m
    BY <1>1, <1>2 DEF P!Max
  <1> QED BY <1>3 DEF m

\* How late an arrival is: a number, and in time no more than the windows allow.
LEMMA LateIs ==
  ASSUME NEW w, P!WorldOK(w), NEW stop \in 1 .. Len(w.opens), NEW arrival \in Nat
  PROVE  /\ P!Late(w, stop, arrival) \in Nat
         /\ arrival <= LastDate => P!Late(w, stop, arrival) <= 2 * LastDate
  <1>1. w.closes[stop] \in Int \cup {None} /\ LastDate \in Nat
        /\ (w.closes[stop] # None => w.closes[stop] >= -LastDate)
    BY DEF P!WorldOK
  <1>2. CASE w.closes[stop] = None
    BY <1>1, <1>2 DEF P!Late
  <1>3. CASE w.closes[stop] # None
    <2>1. w.closes[stop] \in Int /\ arrival - w.closes[stop] \in Int
      BY <1>1, <1>3
    <2> QED BY <1>1, <1>3, <2>1 DEF P!Late, P!Positive
  <1> QED BY <1>2, <1>3

\* The bounds of the time and of the score, from one stop to the next.
LEMMA ServedInTime ==
  ASSUME NEW last \in Nat, NEW k \in 1 .. 25
  PROVE  /\ (25 + k) * last = (25 + (k - 1)) * last + last
         /\ (40 * k) * last = (40 * (k - 1)) * last + 40 * last
         /\ (25 + k) * last <= 50 * last
         /\ (25 + k) * last \in Nat /\ (40 * k) * last \in Nat /\ 25 * last <= (25 + k) * last
         /\ (25 + (k - 1)) * last \in Nat /\ (40 * (k - 1)) * last \in Nat
  OBVIOUS

LEMMA ServedArithmetic ==
  ASSUME NEW last \in Nat, NEW k \in 1 .. 25, NEW time \in Nat, NEW score \in Nat,
         NEW travel \in Nat, NEW service \in Nat, NEW lateness \in Nat, NEW arrival \in Nat,
         NEW opens \in Int, 2 * opens <= last, 50 * (travel + service) <= last,
         arrival = time + travel \/ arrival = opens, arrival >= time + travel,
         arrival <= last => lateness <= 2 * last,
         50 * time <= (25 + (k - 1)) * last, score <= time + (40 * (k - 1)) * last
  PROVE  /\ 50 * (arrival + service) <= (25 + k) * last
         /\ score + travel + 20 * lateness <= arrival + service + (40 * k) * last
  <1> DEFINE a == (25 + (k - 1)) * last
             b == (40 * (k - 1)) * last
             a1 == (25 + k) * last
             b1 == (40 * k) * last
  <1>1. /\ a \in Nat /\ b \in Nat /\ a1 \in Nat /\ b1 \in Nat
        /\ a1 = a + last /\ b1 = b + 40 * last /\ a1 <= 50 * last
    BY ServedInTime
  <1>2. 25 * last <= a
    <2>1. (k - 1) * last \in Nat /\ a = 25 * last + (k - 1) * last
      OBVIOUS
    <2> HIDE DEF a
    <2> QED BY <2>1
  <1>3. 50 * time <= a /\ score <= time + b
    OBVIOUS
  <1> HIDE DEF a, b, a1, b1
  <1>4. 50 * (arrival + service) <= a1
    <2>1. CASE arrival = time + travel
      BY <1>1, <1>3, <2>1
    <2>2. CASE arrival = opens
      BY <1>1, <1>2, <2>2
    <2> QED BY <2>1, <2>2
  <1>5. arrival <= last
    BY <1>4, <1>1
  <1>6. score + travel + 20 * lateness <= arrival + service + b1
    BY <1>1, <1>3, <1>5
  <1> QED BY <1>4, <1>6 DEF a1, b1

\* One more stop is driven to: the arrival and the figures are those of the whole list.
LEMMA ServeNext ==
  ASSUME NEW w, P!WorldOK(w), NEW matrix \in Matrices(w),
         NEW seq \in StopLists(Len(w.opens)), NEW k \in 1 .. Len(seq),
         NEW s \in Driven(w, matrix, seq, k - 1)
  PROVE  P!Serve(w, matrix, s, seq[k]) \in Driven(w, matrix, seq, k)
  <1> DEFINE n == Len(w.opens)
             stop == seq[k]
             travel == matrix[s.at][stop]
             arrival == P!Max({s.time + travel, w.opens[stop]})
             lateness == P!Late(w, stop, arrival)
             t == [time |-> arrival + w.service, at |-> stop,
                   score |-> s.score + travel + 20 * lateness,
                   arrivals |-> Append(s.arrivals, arrival)]
             leg(i) == matrix[P!Before(seq, i)][seq[i]]
  <1>1. /\ LastDate \in Nat /\ NoRoad \in Nat /\ NoRoad > 1001 * LastDate
        /\ n \in 0 .. 25 /\ w.service \in Nat
        /\ w.opens \in [1 .. n -> Int] /\ \A i \in 1 .. n : 2 * w.opens[i] <= LastDate
    BY DEF P!WorldOK
  <1>2. /\ stop \in 1 .. n /\ k \in 1 .. 25 /\ Len(seq) \in Nat /\ seq \in Seq(1 .. n)
    BY DEF StopLists
  <1>3. /\ s.time \in Nat /\ s.at \in 0 .. n /\ s.score \in Nat /\ s.arrivals \in Seq(Nat)
        /\ Len(s.arrivals) = k - 1
        /\ s.at = IF k - 1 = 0 THEN 0 ELSE seq[k - 1]
        /\ s.time = IF k - 1 = 0 THEN 0 ELSE s.arrivals[k - 1] + w.service
    BY DEF Driven
  <1>4. travel \in Nat /\ travel = leg(k)
        /\ (travel >= NoRoad \/ 50 * (travel + w.service) <= LastDate)
    <2>1. P!Before(seq, k) = s.at
      BY <1>2, <1>3 DEF P!Before
    <2> QED BY <1>2, <1>3, <2>1 DEF Matrices
  <1>5. /\ arrival \in Nat /\ arrival >= s.time + travel /\ arrival >= w.opens[stop]
        /\ arrival = s.time + travel \/ arrival = w.opens[stop]
    <2> HIDE DEF travel, stop
    <2>1. w.opens[stop] \in Int
      BY <1>1, <1>2 DEF stop
    <2>2. s.time \in Nat /\ travel \in Nat
      BY <1>3, <1>4
    <2>3. s.time + travel \in Nat
      BY <2>2
    <2> QED BY <2>1, <2>3, MaxOfTwo
  <1>6. lateness \in Nat /\ (arrival <= LastDate => lateness <= 2 * LastDate)
    <2> HIDE DEF arrival, stop
    <2> QED BY <1>2, <1>5, LateIs DEF n
  <1>7. P!Serve(w, matrix, s, seq[k]) = t
    BY DEF P!Serve
  <1> HIDE DEF travel, arrival, lateness
  <1>8. t \in [time : Nat, at : 0 .. n, score : Nat, arrivals : Seq(Nat)]
    <2>1. arrival + w.service \in Nat
      BY <1>1, <1>5
    <2>4. stop \in 0 .. n
      <3> HIDE DEF stop
      <3> QED BY <1>1, <1>2
    <2>2. s.score + travel + 20 * lateness \in Nat
      BY <1>3, <1>4, <1>6
    <2>3. Append(s.arrivals, arrival) \in Seq(Nat)
      BY <1>3, <1>5
    <2> HIDE DEF n, stop
    <2> QED BY <2>1, <2>2, <2>3, <2>4
  <1>9. /\ Len(t.arrivals) = k /\ t.arrivals[k] = arrival
        /\ \A i \in 1 .. k - 1 : t.arrivals[i] = s.arrivals[i]
    BY <1>2, <1>3, <1>5
  <1>10. t.at = (IF k = 0 THEN 0 ELSE seq[k])
         /\ t.time = IF k = 0 THEN 0 ELSE t.arrivals[k] + w.service
    BY <1>2, <1>9
  <1>11. ASSUME NEW i \in 1 .. k
         PROVE  /\ t.arrivals[i] >= w.opens[seq[i]]
                /\ t.arrivals[i] >= leg(i) + (IF i = 1 THEN 0 ELSE t.arrivals[i - 1] + w.service)
    <2> HIDE DEF leg, t
    <2>1. CASE i = k
      <3>1. k # 1 => k - 1 \in 1 .. k - 1 /\ k - 1 # 0
        BY <1>2
      <3>2. s.time = IF k = 1 THEN 0 ELSE t.arrivals[k - 1] + w.service
        BY <1>2, <1>3, <1>9, <3>1
      <3>3. t.arrivals[i] = arrival /\ seq[i] = stop /\ leg(i) = travel
        BY <1>4, <1>9, <2>1
      <3>4. s.time = IF i = 1 THEN 0 ELSE t.arrivals[i - 1] + w.service
        BY <2>1, <3>2
      <3> HIDE DEF stop
      <3> QED BY <1>5, <3>3, <3>4, <1>3, <1>4
    <2>2. CASE i # k
      <3>1. i \in 1 .. k - 1 /\ (i # 1 => i - 1 \in 1 .. k - 1)
        BY <2>2, <1>2
      <3>2. /\ s.arrivals[i] >= w.opens[seq[i]]
            /\ s.arrivals[i] >= leg(i) + (IF i = 1 THEN 0 ELSE s.arrivals[i - 1] + w.service)
        BY <3>1 DEF Driven, leg
      <3> QED BY <1>9, <3>1, <3>2
    <2> QED BY <2>1, <2>2
  <1>12. IF \E i \in 1 .. k : leg(i) >= NoRoad THEN t.score >= NoRoad
         ELSE 50 * t.time <= (25 + k) * LastDate /\ t.score <= t.time + (40 * k) * LastDate
    <2>1. IF \E i \in 1 .. k - 1 : leg(i) >= NoRoad THEN s.score >= NoRoad
          ELSE /\ 50 * s.time <= (25 + (k - 1)) * LastDate
               /\ s.score <= s.time + (40 * (k - 1)) * LastDate
      BY DEF Driven
    <2>2. t.score = s.score + travel + 20 * lateness /\ t.time = arrival + w.service
      OBVIOUS
    <2> HIDE DEF t, leg
    <2>3. \A i \in 1 .. k : i = k \/ i \in 1 .. k - 1
      BY <1>2
    <2>4. \A i \in 1 .. k - 1 : i \in 1 .. k
      BY <1>2
    <2>5. CASE \E i \in 1 .. k : leg(i) >= NoRoad
      <3>1. CASE leg(k) >= NoRoad
        BY <1>1, <1>3, <1>4, <1>6, <2>2, <2>5, <3>1
      <3>2. CASE \E i \in 1 .. k - 1 : leg(i) >= NoRoad
        <4>1. s.score >= NoRoad
          BY <2>1, <3>2
        <4>2. t.score >= NoRoad
          BY <1>1, <1>3, <1>4, <1>6, <2>2, <4>1
        <4> QED BY <2>5, <4>2
      <3> QED BY <2>3, <2>5, <3>1, <3>2
    <2>6. CASE ~ \E i \in 1 .. k : leg(i) >= NoRoad
      <3>1. /\ 50 * s.time <= (25 + (k - 1)) * LastDate
            /\ s.score <= s.time + (40 * (k - 1)) * LastDate
        BY <2>1, <2>4, <2>6
      <3>2. ~(leg(k) >= NoRoad)
        BY <1>2, <2>6
      <3>3. 50 * (travel + w.service) <= LastDate
        BY <1>4, <3>2
      <3>4. w.opens[stop] \in Int /\ 2 * w.opens[stop] <= LastDate
        BY <1>1, <1>2
      <3>5. LastDate \in Nat /\ w.service \in Nat /\ k \in 1 .. 25
        BY <1>1, <1>2
      <3>6. s.time \in Nat /\ s.score \in Nat /\ travel \in Nat
        BY <1>3, <1>4
      <3> HIDE DEF stop
      <3>7. /\ 50 * (arrival + w.service) <= (25 + k) * LastDate
            /\ s.score + travel + 20 * lateness <= arrival + w.service + (40 * k) * LastDate
        BY <1>5, <1>6, <3>1, <3>3, <3>4, <3>5, <3>6, ServedArithmetic
      <3> QED BY <2>2, <2>6, <3>7
    <2> QED BY <2>5, <2>6
  <1> HIDE DEF t
  <1>13. t \in Driven(w, matrix, seq, k)
    BY <1>8, <1>9, <1>10, <1>11, <1>12 DEF Driven
  <1> QED BY <1>7, <1>13

\* The whole of a list of stops is driven, by induction over its length.
LEMMA DriveIsDriven ==
  ASSUME NEW w, P!WorldOK(w), NEW matrix \in Matrices(w), NEW seq \in StopLists(Len(w.opens))
  PROVE  P!Drive(w, matrix, seq) \in Driven(w, matrix, seq, Len(seq))
  <1> DEFINE n == Len(seq)
             S == [k \in 0 .. n |-> Driven(w, matrix, seq, k)]
             step == [k \in 1 .. n |-> [s \in S[k - 1] |-> P!Serve(w, matrix, s, seq[k])]]
             b == P!Departure
             IsIt(d) == d = [k \in 0 .. n |->
                              IF k = 0 THEN b ELSE P!Serve(w, matrix, d[k - 1], seq[k])]
  <1>1. n \in Nat
    BY DEF StopLists
  <1>2. b \in S[0]
    <2>1. Len(w.opens) \in Nat /\ LastDate \in Nat
      BY DEF P!WorldOK
    <2>2. b \in [time : Nat, at : 0 .. Len(w.opens), score : Nat, arrivals : Seq(Nat)]
      BY <2>1 DEF P!Departure
    <2>3. b.time = 0 /\ b.score = 0 /\ b.at = 0 /\ b.arrivals = <<>> /\ Len(b.arrivals) = 0
      BY DEF P!Departure
    <2>4. 50 * 0 <= (25 + 0) * LastDate /\ 0 <= 0 + (40 * 0) * LastDate
      BY <2>1
    <2>5. \A i \in 1 .. 0 : FALSE
      OBVIOUS
    <2> HIDE DEF b
    <2>6. b \in Driven(w, matrix, seq, 0)
      BY <2>2, <2>3, <2>4, <2>5 DEF Driven
    <2> QED BY <1>1, <2>6
  <1>3. ASSUME NEW k \in 1 .. n, NEW s \in S[k - 1]
        PROVE  step[k][s] = P!Serve(w, matrix, s, seq[k]) /\ step[k][s] \in S[k]
    <2>1. step[k][s] = P!Serve(w, matrix, s, seq[k])
      OBVIOUS
    <2>2. k - 1 \in 0 .. n /\ k \in 0 .. n
      BY <1>1
    <2>3. s \in Driven(w, matrix, seq, k - 1)
      BY <2>2
    <2>4. P!Serve(w, matrix, s, seq[k]) \in Driven(w, matrix, seq, k)
      BY <2>3, ServeNext
    <2> HIDE DEF step
    <2> QED BY <2>1, <2>2, <2>4
  <1>4. P!Drive(w, matrix, seq) = (CHOOSE d : IsIt(d))[n]
    BY DEF P!Drive
  <1>5. PICK h : Recurs(h, b, step, n) /\ Within(h, S, n)
    <2> HIDE DEF n, S, step, b
    <2>1. Keeps(step, S, n)
      BY <1>3 DEF Keeps
    <2> QED BY <1>1, <1>2, <2>1, Recursion
  <1>6. \A k \in 0 .. n : k = 0 \/ (k \in 1 .. n /\ k - 1 \in 0 .. n)
    BY <1>1
  <1>7. IsIt(h)
    <2> HIDE DEF n, S, step, b
    <2>1. \A k \in 0 .. n : k # 0 => step[k][h[k - 1]] = P!Serve(w, matrix, h[k - 1], seq[k])
      BY <1>3, <1>5, <1>6 DEF Within
    <2>2. h = [k \in 0 .. n |-> IF k = 0 THEN b ELSE P!Serve(w, matrix, h[k - 1], seq[k])]
      BY <1>5, <2>1 DEF Recurs
    <2> QED BY <2>2
  <1> DEFINE d == CHOOSE d : IsIt(d)
  <1>8. IsIt(d)
    <2> HIDE DEF IsIt
    <2> QED BY <1>7
  <1> HIDE DEF d
  <1>9. \A k \in 0 .. n : d[k] \in S[k]
    <2> DEFINE K == {k \in 0 .. n : d[k] \in S[k]}
    <2>1. 0 \in K
      BY <1>1, <1>2, <1>8
    <2>2. \A k \in 1 .. n : k - 1 \in K => k \in K
      <3> SUFFICES ASSUME NEW k \in 1 .. n, k - 1 \in K PROVE k \in K
        OBVIOUS
      <3>1. d[k - 1] \in S[k - 1]
        OBVIOUS
      <3>2. d[k] = P!Serve(w, matrix, d[k - 1], seq[k])
        BY <1>8, <1>1
      <3>3. step[k][d[k - 1]] \in S[k]
            /\ step[k][d[k - 1]] = P!Serve(w, matrix, d[k - 1], seq[k])
        <4> HIDE DEF S, step
        <4> QED BY <1>3, <3>1
      <3> HIDE DEF S, step
      <3> QED BY <3>2, <3>3, <1>1
    <2> HIDE DEF K
    <2>3. 0 .. n \subseteq K
      BY <1>1, <2>1, <2>2, Along
    <2> QED BY <2>3 DEF K
  <1>10. d[n] \in Driven(w, matrix, seq, n)
    <2>1. n \in 0 .. n
      BY <1>1
    <2> HIDE DEF n
    <2> QED BY <1>9, <2>1
  <1> QED BY <1>4, <1>10 DEF d

\* A candidate has a cost, so there is a cheapest one among those that remain.
LEMMA NearestRemains ==
  ASSUME NEW w, P!WorldOK(w), NEW matrix \in Matrices(w), NEW s,
         s.time \in Nat, s.at \in 0 .. Len(w.opens),
         NEW remaining, remaining \subseteq 1 .. Len(w.opens), remaining # {}
  PROVE  P!Nearest(w, matrix, s, remaining) \in remaining
  <1> DEFINE n == Len(w.opens)
             score(stop) == P!CandidateScore(w, matrix, s, stop)
             costs == {score(stop) : stop \in remaining}
             IsBest(best) == \A stop \in remaining :
                               \/ score(best) < score(stop)
                               \/ score(best) = score(stop) /\ best <= stop
  <1>1. n \in Nat /\ w.opens \in [1 .. n -> Int]
    BY DEF P!WorldOK
  <1>2. ASSUME NEW stop \in remaining PROVE score(stop) \in Nat /\ stop \in Nat
    <2>1. stop \in 1 .. n
      OBVIOUS
    <2>2. matrix[s.at][stop] \in Nat
      BY <2>1 DEF Matrices
    <2> DEFINE arrival == s.time + matrix[s.at][stop]
    <2>3. arrival \in Nat
      BY <2>2
    <2> HIDE DEF arrival
    <2>4. P!Late(w, stop, arrival) \in Nat
      BY <2>1, <2>3, LateIs
    <2>5. P!Positive(w.opens[stop] - arrival) \in Nat
      <3>1. w.opens[stop] - arrival \in Int
        BY <1>1, <2>1, <2>3
      <3> QED BY <3>1 DEF P!Positive
    <2> DEFINE travel == matrix[s.at][stop]
               lateness == P!Late(w, stop, arrival)
               wait == P!Positive(w.opens[stop] - arrival)
    <2>6. score(stop) = 20 * travel + 400 * lateness + wait
      BY DEF P!CandidateScore, arrival
    <2>7. score(stop) \in Nat
      <3>1. travel \in Nat /\ lateness \in Nat /\ wait \in Nat
        BY <2>2, <2>4, <2>5
      <3> HIDE DEF score, travel, lateness, wait
      <3> QED BY <2>6, <3>1
    <2> QED BY <2>1, <2>7
  <1>3. P!Nearest(w, matrix, s, remaining) = CHOOSE best \in remaining : IsBest(best)
    BY DEF P!Nearest
  <1> HIDE DEF score
  <1>4. costs \subseteq Nat /\ costs # {}
    BY <1>2
  <1>5. PICK least \in costs : \A cost \in costs : least <= cost
    <2> HIDE DEF costs
    <2> QED BY <1>4, Least
  <1> DEFINE cheapest == {stop \in remaining : score(stop) = least}
  <1>6. cheapest \subseteq Nat /\ cheapest # {}
    BY <1>2, <1>5
  <1>7. PICK best \in cheapest : \A stop \in cheapest : best <= stop
    <2> HIDE DEF cheapest
    <2> QED BY <1>6, Least
  <1>8. best \in remaining /\ IsBest(best)
    <2> SUFFICES ASSUME NEW stop \in remaining
                 PROVE  \/ score(best) < score(stop)
                        \/ score(best) = score(stop) /\ best <= stop
      OBVIOUS
    <2>1. score(best) = least /\ score(stop) \in costs /\ least <= score(stop)
      BY <1>5
    <2>2. score(best) \in Nat /\ score(stop) \in Nat
      BY <1>2
    <2>3. CASE score(stop) = least
      BY <1>7, <2>1, <2>3
    <2>4. CASE score(stop) # least
      BY <2>1, <2>2, <2>4
    <2> QED BY <2>3, <2>4
  <1> HIDE DEF IsBest
  <1> QED BY <1>3, <1>8

\* The stops, each of them once.
Orders(n) == {seq \in [1 .. n -> 1 .. n] : {seq[i] : i \in 1 .. n} = 1 .. n}

\* The first k stops of an order: so many that n - k remain.
Begun(n, k) ==
  {seq \in [1 .. k -> 1 .. n] : Cardinality((1 .. n) \ {seq[i] : i \in 1 .. k}) = n - k}

\* An order that is begun is a list of stops.
LEMMA BegunIsList ==
  ASSUME NEW n \in 0 .. 25, NEW k \in 0 .. n, NEW seq \in Begun(n, k)
  PROVE  seq \in StopLists(n) /\ Len(seq) = k /\ P!ToSet(seq) = {seq[i] : i \in 1 .. k}
  <1>1. seq \in [1 .. k -> 1 .. n] /\ DOMAIN seq = 1 .. k /\ k \in Nat /\ k <= 25
    BY DEF Begun
  <1>2. seq \in Seq(1 .. n) /\ Len(seq) = k
    BY <1>1
  <1> QED BY <1>1, <1>2 DEF StopLists, P!ToSet

\* The next stop of the greedy order is one that remains.
LEMMA GreedyNext ==
  ASSUME NEW n \in 0 .. 25, NEW k \in 1 .. n, NEW seq \in Begun(n, k - 1),
         NEW best \in (1 .. n) \ {seq[i] : i \in 1 .. k - 1}
  PROVE  Append(seq, best) \in Begun(n, k)
  <1> DEFINE next == Append(seq, best)
             rest == (1 .. n) \ {seq[i] : i \in 1 .. k - 1}
  <1>1. seq \in [1 .. k - 1 -> 1 .. n] /\ k - 1 \in Nat /\ Len(seq) = k - 1 /\ seq \in Seq(1 .. n)
    <2>1. k - 1 \in 0 .. n
      OBVIOUS
    <2>2. seq \in StopLists(n) /\ Len(seq) = k - 1
      BY <2>1, BegunIsList
    <2>3. seq \in [1 .. k - 1 -> 1 .. n]
      BY DEF Begun
    <2> QED BY <2>2, <2>3 DEF StopLists
  <1>2. /\ next \in Seq(1 .. n) /\ Len(next) = k /\ next[k] = best
        /\ \A i \in 1 .. k - 1 : next[i] = seq[i]
    BY <1>1
  <1>3. next \in [1 .. k -> 1 .. n]
    <2> HIDE DEF next
    <2> QED BY <1>2
  <1>4. (1 .. n) \ {next[i] : i \in 1 .. k} = rest \ {best}
    <2> HIDE DEF next
    <2>1. \A i \in 1 .. k : i = k \/ i \in 1 .. k - 1
      OBVIOUS
    <2>2. k \in 1 .. k /\ \A i \in 1 .. k - 1 : i \in 1 .. k
      OBVIOUS
    <2>3. {next[i] : i \in 1 .. k} = {seq[i] : i \in 1 .. k - 1} \cup {best}
      BY <1>2, <2>1, <2>2
    <2> QED BY <2>3
  <1>5. IsFiniteSet(rest) /\ Cardinality(rest) = n - (k - 1)
    <2>1. IsFiniteSet(1 .. n)
      BY FS_Interval
    <2> QED BY <2>1, FS_Subset DEF Begun
  <1>6. Cardinality(rest \ {best}) = Cardinality(rest) - 1
    BY <1>5, FS_RemoveElement
  <1>7. Cardinality(rest \ {best}) = n - k
    <2> HIDE DEF rest
    <2> QED BY <1>5, <1>6
  <1> HIDE DEF next, rest
  <1> QED BY <1>3, <1>4, <1>7 DEF Begun, next

\* With each step one stop fewer remains, and the order ends when none does.
LEMMA GreedyStep ==
  ASSUME NEW w, P!WorldOK(w), NEW matrix \in Matrices(w), NEW k \in 1 .. Len(w.opens),
         NEW before \in Begun(Len(w.opens), k - 1)
  PROVE  Append(before, P!Nearest(w, matrix, P!Drive(w, matrix, before),
                                  P!Stops(w) \ P!ToSet(before)))
           \in Begun(Len(w.opens), k)
  <1> DEFINE n == Len(w.opens)
             rest == (1 .. n) \ {before[i] : i \in 1 .. k - 1}
             driven == P!Drive(w, matrix, before)
  <1>1. n \in 0 .. 25 /\ P!Stops(w) = 1 .. n
    BY DEF P!WorldOK, P!Stops
  <1>2. k - 1 \in 0 .. n /\ k - 1 < n
    BY <1>1
  <1>3. before \in StopLists(n) /\ P!Stops(w) \ P!ToSet(before) = rest
    <2>1. before \in Begun(n, k - 1)
      OBVIOUS
    <2> HIDE DEF n
    <2>2. before \in StopLists(n) /\ P!ToSet(before) = {before[i] : i \in 1 .. k - 1}
      BY <1>1, <1>2, <2>1, BegunIsList
    <2> QED BY <1>1, <2>2
  <1>4. driven.time \in Nat /\ driven.at \in 0 .. n
    BY <1>3, DriveIsDriven DEF Driven
  <1>5. rest # {}
    <2>1. Cardinality(rest) = n - (k - 1) /\ n - (k - 1) # 0
      BY <1>1, <1>2 DEF Begun
    <2> HIDE DEF rest, n
    <2> QED BY <2>1, FS_EmptySet
  <1>6. rest \subseteq 1 .. n
    OBVIOUS
  <1> HIDE DEF rest, driven
  <1>7. P!Nearest(w, matrix, driven, rest) \in rest
    BY <1>4, <1>5, <1>6, NearestRemains
  <1>8. Append(before, P!Nearest(w, matrix, driven, rest)) \in Begun(n, k)
    <2> HIDE DEF n
    <2> QED BY <1>1, <1>7, GreedyNext DEF n, rest
  <1> QED BY <1>3, <1>8 DEF driven

\* The greedy order visits every stop once.
LEMMA GreedyVisitsAll ==
  ASSUME NEW w, P!WorldOK(w), NEW matrix \in Matrices(w)
  PROVE  P!Greedy(w, matrix) \in Orders(Len(w.opens))
  <1> DEFINE n == Len(w.opens)
             S == [k \in 0 .. n |-> Begun(n, k)]
             next(before) == Append(before, P!Nearest(w, matrix, P!Drive(w, matrix, before),
                                                      P!Stops(w) \ P!ToSet(before)))
             step == [k \in 1 .. n |-> [s \in S[k - 1] |-> next(s)]]
             IsIt(d) == d = [k \in 0 .. n |-> IF k = 0 THEN <<>> ELSE next(d[k - 1])]
  <1>1. n \in Nat /\ n \in 0 .. 25
    BY DEF P!WorldOK
  <1>2. <<>> \in S[0]
    <2>1. Cardinality(1 .. n) = n
      <3> HIDE DEF n
      <3> QED BY <1>1, FS_Interval
    <2>2. (1 .. n) \ {<<>>[i] : i \in 1 .. 0} = 1 .. n
      OBVIOUS
    <2>3. <<>> \in [1 .. 0 -> 1 .. n]
      OBVIOUS
    <2> DEFINE none == <<>>
               left == (1 .. n) \ {none[i] : i \in 1 .. 0}
    <2>4. Cardinality(left) = n - 0 /\ none \in [1 .. 0 -> 1 .. n]
      <3>1. n - 0 = n
        BY <1>1
      <3> HIDE DEF n
      <3> QED BY <2>1, <2>2, <2>3, <3>1
    <2>5. none \in Begun(n, 0)
      <3> HIDE DEF none, n
      <3> QED BY <2>4 DEF Begun
    <2> QED BY <1>1, <2>5
  <1>3. ASSUME NEW k \in 1 .. n, NEW s \in S[k - 1]
        PROVE  step[k][s] = next(s) /\ next(s) \in S[k]
    <2>1. step[k][s] = next(s)
      OBVIOUS
    <2>2. k - 1 \in 0 .. n /\ k \in 0 .. n
      BY <1>1
    <2>3. s \in Begun(n, k - 1)
      BY <2>2
    <2>4. next(s) \in Begun(n, k)
      BY <2>3, GreedyStep
    <2> HIDE DEF step, next
    <2> QED BY <2>1, <2>2, <2>4
  <1>4. P!Greedy(w, matrix) = (CHOOSE d : IsIt(d))[n]
    BY DEF P!Greedy
  <1> HIDE DEF next
  <1>5. PICK h : Recurs(h, <<>>, step, n) /\ Within(h, S, n)
    <2> HIDE DEF n, S, step
    <2>1. Keeps(step, S, n)
      BY <1>3 DEF Keeps
    <2> QED BY <1>1, <1>2, <2>1, Recursion
  <1>6. \A k \in 0 .. n : k = 0 \/ (k \in 1 .. n /\ k - 1 \in 0 .. n)
    BY <1>1
  <1>7. IsIt(h)
    <2> HIDE DEF n, S, step
    <2>1. \A k \in 0 .. n : k # 0 => step[k][h[k - 1]] = next(h[k - 1])
      BY <1>3, <1>5, <1>6 DEF Within
    <2>2. h = [k \in 0 .. n |-> IF k = 0 THEN <<>> ELSE next(h[k - 1])]
      BY <1>5, <2>1 DEF Recurs
    <2> QED BY <2>2
  <1> DEFINE d == CHOOSE d : IsIt(d)
  <1>8. IsIt(d)
    <2> HIDE DEF IsIt
    <2> QED BY <1>7
  <1> HIDE DEF d
  <1> DEFINE K == {k \in 0 .. n : d[k] \in S[k]}
  <1>9. 0 .. n \subseteq K
    <2>1. 0 \in K
      BY <1>1, <1>2, <1>8
    <2>2. \A k \in 1 .. n : k - 1 \in K => k \in K
      <3> SUFFICES ASSUME NEW k \in 1 .. n, k - 1 \in K PROVE k \in K
        OBVIOUS
      <3>1. d[k - 1] \in S[k - 1]
        OBVIOUS
      <3>2. d[k] = next(d[k - 1])
        BY <1>8, <1>1
      <3>3. next(d[k - 1]) \in S[k]
        <4> HIDE DEF S, step
        <4> QED BY <1>3, <3>1
      <3> HIDE DEF S, step
      <3> QED BY <3>2, <3>3, <1>1
    <2> HIDE DEF K
    <2> QED BY <1>1, <2>1, <2>2, Along
  <1>10. d[n] \in Begun(n, n)
    <2>1. n \in 0 .. n
      BY <1>1
    <2> HIDE DEF n
    <2> QED BY <1>9, <2>1
  <1>11. d[n] \in Orders(n)
    <2> DEFINE seq == d[n]
               visited == {seq[i] : i \in 1 .. n}
    <2>1. seq \in [1 .. n -> 1 .. n] /\ Cardinality((1 .. n) \ visited) = n - n
      BY <1>10 DEF Begun
    <2>2. IsFiniteSet((1 .. n) \ visited)
      <3>1. IsFiniteSet(1 .. n)
        BY <1>1, FS_Interval
      <3> HIDE DEF visited, n
      <3> QED BY <3>1, FS_Subset
    <2>3. (1 .. n) \ visited = {}
      <3> HIDE DEF visited, n, d
      <3>1. n - n = 0
        BY <1>1
      <3> QED BY <2>1, <2>2, <3>1, FS_EmptySet
    <2>4. visited \subseteq 1 .. n
      BY <2>1
    <2>5. visited = 1 .. n
      <3> HIDE DEF visited, n
      <3> QED BY <2>3, <2>4
    <2> QED BY <2>1, <2>5 DEF Orders
  <1> QED BY <1>4, <1>11 DEF d

LEMMA OrderIsList ==
  ASSUME NEW n \in 0 .. 25, NEW seq \in Orders(n)
  PROVE  /\ seq \in StopLists(n) /\ Len(seq) = n /\ DOMAIN seq = 1 .. n
         /\ P!ToSet(seq) = 1 .. n
  <1>1. seq \in [1 .. n -> 1 .. n] /\ DOMAIN seq = 1 .. n /\ n \in Nat /\ n <= 25
    BY DEF Orders
  <1>2. seq \in Seq(1 .. n) /\ Len(seq) = n
    BY <1>1
  <1> QED BY <1>1, <1>2 DEF StopLists, P!ToSet, Orders

\* What is turned round is still an order of the stops.
LEMMA FlipKeepsOrders ==
  ASSUME NEW n \in 0 .. 25, NEW seq \in Orders(n), NEW l \in 1 .. n, NEW r \in 1 .. n
  PROVE  P!Flip(seq, l, r) \in Orders(n)
  <1> DEFINE turned == P!Flip(seq, l, r)
             at(i) == IF i \in l .. r THEN l + r - i ELSE i
  <1>1. seq \in [1 .. n -> 1 .. n] /\ {seq[i] : i \in 1 .. n} = 1 .. n
    BY DEF Orders
  <1>2. \A i \in 1 .. n : at(i) \in 1 .. n /\ at(at(i)) = i
    OBVIOUS
  <1>3. turned = [i \in 1 .. n |-> seq[at(i)]]
    BY <1>1 DEF P!Flip
  <1> HIDE DEF turned, at
  <1>4. turned \in [1 .. n -> 1 .. n] /\ \A i \in 1 .. n : turned[i] = seq[at(i)]
    BY <1>1, <1>2, <1>3
  <1>5. ASSUME NEW v \in 1 .. n PROVE v \in {turned[i] : i \in 1 .. n}
    <2>1. PICK i \in 1 .. n : seq[i] = v
      BY <1>1
    <2>2. at(i) \in 1 .. n /\ turned[at(i)] = v
      BY <1>2, <1>4, <2>1
    <2> QED BY <2>2
  <1>6. {turned[i] : i \in 1 .. n} = 1 .. n
    BY <1>4, <1>5
  <1> QED BY <1>4, <1>6 DEF Orders, turned

\* The score of an order of the stops is a number.
LEMMA ScoreIsNat ==
  ASSUME NEW w, P!WorldOK(w), NEW matrix \in Matrices(w), NEW seq \in Orders(Len(w.opens))
  PROVE  P!ScoreOrder(w, matrix, seq) \in Nat
  <1>1. Len(w.opens) \in 0 .. 25
    BY DEF P!WorldOK
  <1>2. seq \in StopLists(Len(w.opens))
    BY <1>1, OrderIsList
  <1> QED BY <1>2, DriveIsDriven DEF Driven, P!ScoreOrder

\* The orders that cost no more than a given one.
NoWorse(w, matrix, seq) ==
  {o \in Orders(Len(w.opens)) : P!ScoreOrder(w, matrix, o) <= P!ScoreOrder(w, matrix, seq)}

\* An order is replaced only by a cheaper one.
LEMMA BetterIsNoWorse ==
  ASSUME NEW w, P!WorldOK(w), NEW matrix \in Matrices(w), NEW seq \in Orders(Len(w.opens)),
         NEW best \in NoWorse(w, matrix, seq),
         NEW l \in 1 .. Len(w.opens), NEW r \in 1 .. Len(w.opens)
  PROVE  P!Better(w, matrix, best, l, r) \in NoWorse(w, matrix, seq)
  <1> DEFINE n == Len(w.opens)
             candidate == P!Flip(best, l, r)
             score(o) == P!ScoreOrder(w, matrix, o)
  <1>1. n \in 0 .. 25
    BY DEF P!WorldOK
  <1>2. best \in Orders(n) /\ score(best) <= score(seq)
    BY DEF NoWorse
  <1>3. candidate \in Orders(n)
    <2>1. l \in 1 .. n /\ r \in 1 .. n
      OBVIOUS
    <2> HIDE DEF n
    <2> QED BY <1>1, <1>2, <2>1, FlipKeepsOrders
  <1>4. score(best) \in Nat /\ score(candidate) \in Nat /\ score(seq) \in Nat
    <2> HIDE DEF candidate
    <2> QED BY <1>2, <1>3, ScoreIsNat
  <1>5. P!Better(w, matrix, best, l, r) = IF score(candidate) < score(best) THEN candidate ELSE best
    BY DEF P!Better
  <1> HIDE DEF candidate, score
  <1>6. score(candidate) < score(best) => score(candidate) <= score(seq)
    BY <1>2, <1>4
  <1> QED BY <1>2, <1>3, <1>5, <1>6 DEF NoWorse, score

\* A pass over all pairs of stops leaves an order that costs no more.
LEMMA ImproveIsNoWorse ==
  ASSUME NEW w, P!WorldOK(w), NEW matrix \in Matrices(w), NEW seq \in Orders(Len(w.opens))
  PROVE  P!Improve(w, matrix, seq) \in NoWorse(w, matrix, seq)
  <1> DEFINE n == Len(seq)
             m == n * n
             left(k) == 1 + ((k - 1) \div n)
             right(k) == 1 + ((k - 1) % n)
             S == [k \in 0 .. m |-> NoWorse(w, matrix, seq)]
             next(k, best) == IF left(k) < right(k)
                              THEN P!Better(w, matrix, best, left(k), right(k)) ELSE best
             step == [k \in 1 .. m |-> [s \in S[k - 1] |-> next(k, s)]]
             IsIt(d) == d = [k \in 0 .. m |-> IF k = 0 THEN seq ELSE next(k, d[k - 1])]
  <1>1. n \in 0 .. 25 /\ n = Len(w.opens) /\ m \in Nat
    <2>1. Len(w.opens) \in 0 .. 25
      BY DEF P!WorldOK
    <2>2. n = Len(w.opens)
      BY <2>1, OrderIsList
    <2> QED BY <2>1, <2>2
  <1>2. seq \in S[0]
    <2>1. P!ScoreOrder(w, matrix, seq) \in Nat
      BY ScoreIsNat
    <2>2. seq \in NoWorse(w, matrix, seq)
      BY <2>1 DEF NoWorse
    <2> HIDE DEF m
    <2> QED BY <1>1, <2>2
  <1>3. ASSUME NEW k \in 1 .. m, NEW s \in S[k - 1]
        PROVE  step[k][s] = next(k, s) /\ next(k, s) \in S[k]
    <2>1. k - 1 \in 0 .. m /\ k \in 0 .. m
      <3> HIDE DEF m
      <3> QED BY <1>1
    <2>2. s \in NoWorse(w, matrix, seq)
      <3> HIDE DEF m
      <3> QED BY <2>1
    <2>3. step[k][s] = next(k, s)
      <3> HIDE DEF m, next
      <3> QED OBVIOUS
    <2>4. n # 0
      BY <1>1
    <2>5. left(k) >= 1 /\ right(k) \in 1 .. n /\ left(k) \in Int
      <3>1. n \in Nat \ {0} /\ k - 1 \in Nat
        <4> HIDE DEF m, n
        <4> QED BY <1>1, <2>1, <2>4
      <3> HIDE DEF n
      <3> QED BY <3>1
    <2>6. next(k, s) \in NoWorse(w, matrix, seq)
      <3>1. CASE left(k) < right(k)
        <4>1. left(k) \in 1 .. n
          <5> HIDE DEF left, right, n
          <5> QED BY <1>1, <2>5, <3>1
        <4>2. left(k) \in 1 .. Len(w.opens) /\ right(k) \in 1 .. Len(w.opens)
          <5> HIDE DEF left, right, n
          <5> QED BY <1>1, <2>5, <4>1
        <4> HIDE DEF left, right
        <4>3. P!Better(w, matrix, s, left(k), right(k)) \in NoWorse(w, matrix, seq)
          BY <2>2, <4>2, BetterIsNoWorse
        <4> QED BY <3>1, <4>3
      <3>2. CASE ~(left(k) < right(k))
        BY <2>2, <3>2
      <3> HIDE DEF next
      <3> QED BY <3>1, <3>2
    <2> HIDE DEF step, next, m
    <2> QED BY <2>1, <2>3, <2>6
  <1>4. P!Improve(w, matrix, seq) = (CHOOSE d : IsIt(d))[m]
    BY DEF P!Improve
  <1> HIDE DEF next
  <1>5. PICK h : Recurs(h, seq, step, m) /\ Within(h, S, m)
    <2> HIDE DEF m, S, step
    <2>1. Keeps(step, S, m)
      BY <1>3 DEF Keeps
    <2> QED BY <1>1, <1>2, <2>1, Recursion
  <1> HIDE DEF m
  <1>6. \A k \in 0 .. m : k = 0 \/ (k \in 1 .. m /\ k - 1 \in 0 .. m)
    BY <1>1
  <1>7. IsIt(h)
    <2> HIDE DEF S, step
    <2>1. \A k \in 0 .. m : k # 0 => step[k][h[k - 1]] = next(k, h[k - 1])
      BY <1>3, <1>5, <1>6 DEF Within
    <2>2. h = [k \in 0 .. m |-> IF k = 0 THEN seq ELSE next(k, h[k - 1])]
      BY <1>5, <2>1 DEF Recurs
    <2> QED BY <2>2
  <1> DEFINE d == CHOOSE d : IsIt(d)
  <1>8. IsIt(d)
    <2> HIDE DEF IsIt
    <2> QED BY <1>7
  <1> HIDE DEF d
  <1> DEFINE K == {k \in 0 .. m : d[k] \in S[k]}
  <1>9. 0 .. m \subseteq K
    <2>1. 0 \in K
      BY <1>1, <1>2, <1>8
    <2>2. \A k \in 1 .. m : k - 1 \in K => k \in K
      <3> SUFFICES ASSUME NEW k \in 1 .. m, k - 1 \in K PROVE k \in K
        OBVIOUS
      <3>1. d[k - 1] \in S[k - 1]
        OBVIOUS
      <3>2. d[k] = next(k, d[k - 1])
        BY <1>8, <1>1
      <3>3. next(k, d[k - 1]) \in S[k]
        <4> HIDE DEF S, step
        <4> QED BY <1>3, <3>1
      <3> HIDE DEF S, step
      <3> QED BY <3>2, <3>3, <1>1
    <2> HIDE DEF K
    <2> QED BY <1>1, <2>1, <2>2, Along
  <1>10. d[m] \in NoWorse(w, matrix, seq)
    <2>1. m \in 0 .. m
      BY <1>1
    <2> QED BY <1>9, <2>1
  <1> QED BY <1>4, <1>10 DEF d

\* So do the three passes that are made.
LEMMA OptimizedIsNoWorse ==
  ASSUME NEW w, P!WorldOK(w), NEW matrix \in Matrices(w)
  PROVE  P!OptimizeSequence(w, matrix) \in NoWorse(w, matrix, P!Greedy(w, matrix))
  <1> DEFINE zero == P!Greedy(w, matrix)
             one == P!Improve(w, matrix, zero)
             two == P!Improve(w, matrix, one)
             three == P!Improve(w, matrix, two)
             score(o) == P!ScoreOrder(w, matrix, o)
  <1>1. P!OptimizeSequence(w, matrix) = three
    BY DEF P!OptimizeSequence
  <1>2. zero \in Orders(Len(w.opens))
    BY GreedyVisitsAll
  <1> HIDE DEF zero
  <1>3. one \in Orders(Len(w.opens)) /\ score(one) <= score(zero)
    BY <1>2, ImproveIsNoWorse DEF NoWorse
  <1> HIDE DEF one
  <1>4. two \in Orders(Len(w.opens)) /\ score(two) <= score(one)
    BY <1>3, ImproveIsNoWorse DEF NoWorse
  <1> HIDE DEF two
  <1>5. three \in Orders(Len(w.opens)) /\ score(three) <= score(two)
    BY <1>4, ImproveIsNoWorse DEF NoWorse
  <1> HIDE DEF three
  <1>6. /\ score(zero) \in Nat /\ score(one) \in Nat /\ score(two) \in Nat
        /\ score(three) \in Nat
    BY <1>2, <1>3, <1>4, <1>5, ScoreIsNat
  <1> HIDE DEF score
  <1>7. score(three) <= score(zero)
    BY <1>3, <1>4, <1>5, <1>6
  <1> QED BY <1>1, <1>5, <1>7 DEF NoWorse, score, zero

\* A leg of the order is missing.
Misses(matrix, seq) == \E i \in DOMAIN seq : matrix[P!Before(seq, i)][seq[i]] >= NoRoad

\* An order with all its roads is in time, and cheaper than any that misses one.
LEMMA OrderWithRoads ==
  ASSUME NEW w, P!WorldOK(w), NEW matrix \in Matrices(w), NEW seq \in Orders(Len(w.opens))
  PROVE  LET driven == P!Drive(w, matrix, seq) IN
         /\ Misses(matrix, seq) => driven.score >= NoRoad
         /\ ~Misses(matrix, seq) => driven.time <= LastDate /\ driven.score < NoRoad
  <1> DEFINE n == Len(w.opens)
             driven == P!Drive(w, matrix, seq)
             missing == \E i \in 1 .. n : matrix[P!Before(seq, i)][seq[i]] >= NoRoad
  <1>1. n \in 0 .. 25 /\ LastDate \in Nat /\ NoRoad \in Nat /\ NoRoad > 1001 * LastDate
    BY DEF P!WorldOK
  <1>2. seq \in StopLists(n) /\ Len(seq) = n /\ DOMAIN seq = 1 .. n
    <2>1. seq \in Orders(n)
      OBVIOUS
    <2> HIDE DEF n
    <2> QED BY <1>1, <2>1, OrderIsList
  <1>3. driven \in Driven(w, matrix, seq, n)
    BY <1>2, DriveIsDriven
  <1>4. /\ driven.time \in Nat /\ driven.score \in Nat
        /\ IF missing THEN driven.score >= NoRoad
           ELSE /\ 50 * driven.time <= (25 + n) * LastDate
                /\ driven.score <= driven.time + (40 * n) * LastDate
    <2> HIDE DEF n, driven
    <2> QED BY <1>3 DEF Driven
  <1>5. missing <=> Misses(matrix, seq)
    BY <1>2 DEF Misses
  <1>6. (25 + n) * LastDate <= 50 * LastDate /\ (40 * n) * LastDate <= 1000 * LastDate
        /\ (25 + n) * LastDate \in Nat /\ (40 * n) * LastDate \in Nat
    <2> HIDE DEF n
    <2> QED BY <1>1
  <1>7. ~missing => driven.time <= LastDate /\ driven.score < NoRoad
    <2> DEFINE a == (25 + n) * LastDate
               b == (40 * n) * LastDate
    <2>1. a <= 50 * LastDate /\ b <= 1000 * LastDate /\ a \in Nat /\ b \in Nat
      BY <1>6
    <2>2. ~missing => 50 * driven.time <= a /\ driven.score <= driven.time + b
      BY <1>4
    <2> HIDE DEF a, b, n, missing, driven
    <2> QED BY <2>1, <2>2, <1>1, <1>4
  <1> QED BY <1>4, <1>5, <1>7

-----------------------------------------------------------------------------

PlanFields == {"phase", "provider", "sequence", "arrivals", "road"}

\* What has been planned is what the provider asked for makes of the world.
PlanInvariant ==
  /\ world \in Worlds /\ DOMAIN plan = PlanFields
  /\ plan.phase \in {"geometry", "done"} =>
       /\ plan.sequence = P!Sequence
       /\ plan.arrivals = P!Drive(world, P!Matrix, P!Sequence).arrivals
  /\ plan.phase = "failed" => P!Drive(world, P!Matrix, P!Sequence).time > LastDate

LEMMA PlanStarts == P!Init => PlanInvariant
  BY DEF P!Init, PlanInvariant, PlanFields

LEMMA PlanStep == PlanInvariant /\ [P!Next]_(P!vars) => PlanInvariant'
  <1> SUFFICES ASSUME PlanInvariant, [P!Next]_(P!vars) PROVE PlanInvariant'
    OBVIOUS
  <1>1. ASSUME world' = world, plan'.provider = plan.provider
        PROVE  P!Matrix' = P!Matrix /\ P!Sequence' = P!Sequence
    BY <1>1 DEF P!Matrix, P!Sequence
  <1>2. ASSUME NEW provider, P!GetMatrix(provider) PROVE PlanInvariant'
    <2>1. world' = world /\ plan'.phase = "sequence" /\ DOMAIN plan' = PlanFields
      BY <1>2 DEF P!GetMatrix, PlanInvariant, PlanFields
    <2> QED BY <2>1 DEF PlanInvariant
  <1>3. CASE P!Schedule
    <2> DEFINE driven == P!Drive(world, P!Matrix, P!Sequence)
    <2>1. /\ world' = world /\ DOMAIN plan' = PlanFields /\ plan'.provider = plan.provider
          /\ IF driven.time > LastDate THEN plan'.phase = "failed"
             ELSE /\ plan'.phase # "failed"
                  /\ plan'.sequence = P!Sequence /\ plan'.arrivals = driven.arrivals
      BY <1>3 DEF P!Schedule, PlanInvariant, PlanFields
    <2>2. P!Matrix' = P!Matrix /\ P!Sequence' = P!Sequence
      BY <1>1, <2>1
    <2> QED BY <2>1, <2>2 DEF PlanInvariant
  <1>4. CASE P!GetGeometry
    <2>1. /\ world' = world /\ DOMAIN plan' = PlanFields /\ plan'.provider = plan.provider
          /\ plan.phase = "geometry" /\ plan'.phase = "done"
          /\ plan'.sequence = plan.sequence /\ plan'.arrivals = plan.arrivals
      BY <1>4 DEF P!GetGeometry, PlanInvariant, PlanFields
    <2>2. P!Matrix' = P!Matrix /\ P!Sequence' = P!Sequence
      BY <1>1, <2>1
    <2> QED BY <2>1, <2>2 DEF PlanInvariant
  <1>5. CASE UNCHANGED P!vars
    <2>1. world' = world /\ plan' = plan
      BY <1>5 DEF P!vars
    <2> QED BY <2>1, <1>1 DEF PlanInvariant
  <1> QED BY <1>2, <1>3, <1>4, <1>5 DEF P!Next

LEMMA PlanMakesSense == PlanInvariant => P!PlanIsSound
  <1> SUFFICES ASSUME PlanInvariant PROVE P!PlanIsSound
    OBVIOUS
  <1> DEFINE n == Len(world.opens)
             seq == P!Sequence
             matrix == P!Matrix
             driven == P!Drive(world, matrix, seq)
             greedy == P!Greedy(world, matrix)
  <1>1. P!WorldOK(world)
    BY WorldsAssumption DEF PlanInvariant
  <1>2. n \in 0 .. 25 /\ P!Stops(world) = 1 .. n /\ P!Cardinality(P!Stops(world)) = n
    <2>1. n \in 0 .. 25 /\ P!Stops(world) = 1 .. n
      BY <1>1 DEF P!WorldOK, P!Stops
    <2>2. Cardinality(1 .. n) = n
      <3>1. n \in Int /\ ~(1 > n /\ n # 0)
        BY <2>1
      <3>2. Cardinality(1 .. n) = IF 1 > n THEN 0 ELSE n - 1 + 1
        <4> HIDE DEF n
        <4> QED BY <3>1, FS_Interval
      <3> HIDE DEF n
      <3> QED BY <3>1, <3>2
    <2>3. P!Cardinality(1 .. n) = Cardinality(1 .. n)
      BY DEF P!Cardinality, Cardinality
    <2> QED BY <2>1, <2>2, <2>3
  <1>3. matrix \in Matrices(world)
    BY <1>1 DEF P!Matrix, P!WorldOK, Matrices
  <1>4. /\ seq \in Orders(n) /\ greedy \in Orders(n)
        /\ world.manual = None => P!ScoreOrder(world, matrix, seq) <= P!ScoreOrder(world, matrix, greedy)
    <2> HIDE DEF matrix
    <2>1. greedy \in Orders(n)
      BY <1>1, <1>3, GreedyVisitsAll
    <2>2. CASE world.manual = None
      <3>1. seq = P!OptimizeSequence(world, matrix)
        BY <2>2 DEF P!Sequence, matrix
      <3> HIDE DEF seq
      <3> QED BY <1>1, <1>3, <2>1, <3>1, OptimizedIsNoWorse DEF NoWorse
    <2>3. CASE world.manual # None
      <3>1. seq = world.manual
        BY <2>3 DEF P!Sequence
      <3>2. world.manual \in [1 .. n -> 1 .. n] /\ P!ToSet(world.manual) = 1 .. n
        BY <1>1, <2>3 DEF P!WorldOK
      <3>3. world.manual \in Orders(n)
        BY <3>2 DEF Orders, P!ToSet
      <3> QED BY <2>1, <2>3, <3>1, <3>3
    <2> QED BY <2>2, <2>3
  <1>5. /\ seq \in StopLists(n) /\ Len(seq) = n /\ DOMAIN seq = 1 .. n /\ P!ToSet(seq) = 1 .. n
        /\ driven \in Driven(world, matrix, seq, n)
    <2> HIDE DEF seq, n, matrix
    <2>1. seq \in StopLists(n) /\ Len(seq) = n /\ DOMAIN seq = 1 .. n /\ P!ToSet(seq) = 1 .. n
      BY <1>2, <1>4, OrderIsList
    <2> QED BY <1>1, <1>3, <2>1, DriveIsDriven DEF n
  <1> HIDE DEF seq, matrix
  <1>6. ASSUME plan.phase = "done"
        PROVE  /\ plan.sequence = seq
               /\ Len(seq) = P!Cardinality(P!Stops(world)) /\ P!ToSet(seq) = P!Stops(world)
               /\ \A i \in 1 .. n :
                    /\ plan.arrivals[i] >= world.opens[seq[i]]
                    /\ plan.arrivals[i] >= matrix[P!Before(seq, i)][seq[i]] +
                         (IF i = 1 THEN 0 ELSE plan.arrivals[i - 1] + world.service)
    <2>1. plan.sequence = seq /\ plan.arrivals = driven.arrivals
      BY <1>6 DEF PlanInvariant, seq, matrix
    <2> HIDE DEF n, driven
    <2> QED BY <1>2, <1>5, <2>1 DEF Driven
  <1>7. ASSUME plan.phase = "failed"
        PROVE  /\ plan.provider = "osrm" /\ Misses(matrix, seq)
               /\ world.manual = None => Misses(matrix, greedy)
    <2>1. driven.time > LastDate
      BY <1>7 DEF PlanInvariant, seq, matrix
    <2>2. Misses(matrix, seq) /\ driven.score >= NoRoad
      <3>1. driven.time \in Nat /\ LastDate \in Nat
        BY <1>1, <1>5 DEF Driven, P!WorldOK
      <3>2. ~Misses(matrix, seq) => driven.time <= LastDate
        BY <1>1, <1>3, <1>4, OrderWithRoads
      <3>3. Misses(matrix, seq) => driven.score >= NoRoad
        BY <1>1, <1>3, <1>4, OrderWithRoads
      <3> HIDE DEF driven
      <3> QED BY <2>1, <3>1, <3>2, <3>3
    <2>3. plan.provider = "osrm"
      <3> SUFFICES ASSUME plan.provider # "osrm" PROVE FALSE
        OBVIOUS
      <3>1. matrix = world.straight
        BY DEF matrix, P!Matrix
      <3>2. PICK i \in 1 .. n : matrix[P!Before(seq, i)][seq[i]] >= NoRoad
        BY <1>5, <2>2 DEF Misses
      <3>3. P!Before(seq, i) \in 0 .. n /\ seq[i] \in 1 .. n
        <4> HIDE DEF n
        <4>1. \A k \in 1 .. n : seq[k] \in 1 .. n
          BY <1>4 DEF Orders
        <4>2. i # 1 => i - 1 \in 1 .. n
          BY <1>2
        <4>3. \A k \in 1 .. n : k \in 0 .. n
          BY <1>2
        <4>4. 0 \in 0 .. n
          BY <1>2
        <4> QED BY <4>1, <4>2, <4>3, <4>4 DEF P!Before
      <3> DEFINE leg == world.straight[P!Before(seq, i)][seq[i]]
      <3>4. /\ LastDate \in Nat /\ NoRoad \in Nat /\ NoRoad > 1001 * LastDate /\ world.service \in Nat
            /\ leg \in Nat /\ 50 * (leg + world.service) <= LastDate
        BY <1>1, <3>3 DEF P!WorldOK
      <3>5. leg >= NoRoad
        BY <3>1, <3>2
      <3> HIDE DEF leg
      <3> QED BY <3>4, <3>5
    <2>4. ASSUME world.manual = None PROVE Misses(matrix, greedy)
      <3> SUFFICES ASSUME ~Misses(matrix, greedy) PROVE FALSE
        OBVIOUS
      <3>1. P!ScoreOrder(world, matrix, greedy) < NoRoad
        <4> HIDE DEF greedy
        <4> QED BY <1>1, <1>3, <1>4, OrderWithRoads DEF P!ScoreOrder
      <3>2. P!ScoreOrder(world, matrix, seq) >= NoRoad
        BY <2>2 DEF P!ScoreOrder
      <3>3. P!ScoreOrder(world, matrix, seq) <= P!ScoreOrder(world, matrix, greedy)
        BY <1>4, <2>4
      <3>4. /\ P!ScoreOrder(world, matrix, seq) \in Nat /\ P!ScoreOrder(world, matrix, greedy) \in Nat
            /\ NoRoad \in Nat
        <4> HIDE DEF greedy
        <4>1. NoRoad \in Nat
          BY <1>1 DEF P!WorldOK
        <4> QED BY <1>1, <1>3, <1>4, <4>1, ScoreIsNat
      <3> HIDE DEF greedy
      <3> QED BY <3>1, <3>2, <3>3, <3>4
    <2> QED BY <2>2, <2>3, <2>4
  <1>8. \A s : P!MissesRoad(s) <=> Misses(matrix, s)
    BY DEF P!MissesRoad, Misses, matrix
  <1> QED BY <1>4, <1>5, <1>6, <1>7, <1>8 DEF P!PlanIsSound, seq, matrix

\* Whatever the roads, the windows and the order asked for, a plan visits every stop once, in
\* time the roads allow, is no worse than the greedy order, and fails only for want of a road.
THEOREM PlansAreSound == P!Spec => []PlanIsSound
  <1>1. P!Init => PlanInvariant
    BY PlanStarts
  <1>2. PlanInvariant /\ [P!Next]_(P!vars) => PlanInvariant'
    BY PlanStep
  <1>3. PlanInvariant => PlanIsSound
    BY PlanMakesSense DEF PlanIsSound
  <1> QED BY <1>1, <1>2, <1>3, PTL DEF P!Spec

-----------------------------------------------------------------------------
(* Files of orders.  Texts are read as they were written, part by part.    *)

\* A part of the text, from the place after o on.
At(t, o, part1) ==
  /\ o \in Nat /\ o + Len(part1) <= Len(t)
  /\ \A j \in 1 .. Len(part1) : t[o + j] = part1[j]

\* Texts written one after the other.
LEMMA Concat ==
  ASSUME NEW S, NEW a \in Seq(S), NEW b \in Seq(S)
  PROVE  /\ a \o b \in Seq(S) /\ Len(a \o b) = Len(a) + Len(b)
         /\ Len(a) \in Nat /\ Len(b) \in Nat
  OBVIOUS

LEMMA AtConcat ==
  ASSUME NEW S, NEW t \in Seq(S), NEW a \in Seq(S), NEW b \in Seq(S), NEW o, At(t, o, a \o b)
  PROVE  At(t, o, a) /\ At(t, o + Len(a), b)
  <1>1. /\ Len(a) \in Nat /\ Len(b) \in Nat /\ o \in Nat /\ Len(t) \in Nat
        /\ Len(a \o b) = Len(a) + Len(b) /\ o + Len(a \o b) <= Len(t)
        /\ \A j \in 1 .. Len(a \o b) : t[o + j] = (a \o b)[j]
    BY DEF At
  <1>2. \A j \in 1 .. Len(a) : (a \o b)[j] = a[j]
    OBVIOUS
  <1>3. \A j \in 1 .. Len(b) : (a \o b)[Len(a) + j] = b[j]
    OBVIOUS
  <1> DEFINE ab == a \o b
  <1> HIDE DEF ab
  <1>4. \A j \in 1 .. Len(a) : t[o + j] = a[j]
    <2>1. \A j \in 1 .. Len(a) : j \in 1 .. Len(a) + Len(b)
      BY <1>1
    <2> QED BY <1>1, <1>2, <2>1 DEF ab
  <1>5. \A j \in 1 .. Len(b) : t[o + Len(a) + j] = b[j]
    <2> SUFFICES ASSUME NEW j \in 1 .. Len(b) PROVE t[o + Len(a) + j] = b[j]
      OBVIOUS
    <2>1. Len(a) + j \in 1 .. Len(a) + Len(b) /\ o + Len(a) + j = o + (Len(a) + j)
      BY <1>1
    <2> QED BY <1>1, <1>3, <2>1 DEF ab
  <1>6. At(t, o, a)
    BY <1>1, <1>4 DEF At
  <1>7. At(t, o + Len(a), b)
    BY <1>1, <1>5 DEF At
  <1> QED BY <1>6, <1>7

-----------------------------------------------------------------------------
(* What the recursive definitions say.                                     *)

\* A recursion all of whose values are of one kind.
ClosedOn(step, A, n) == \A k \in 1 .. n : \A s \in A : step[k][s] \in A
Iterates(h, b, step, n) == h[0] = b /\ \A k \in 1 .. n : h[k] = step[k][h[k - 1]]

LEMMA RecursionIn ==
  ASSUME NEW n \in Nat, NEW A, NEW b \in A, NEW step, ClosedOn(step, A, n)
  PROVE  \E h \in [0 .. n -> A] : Iterates(h, b, step, n)
  <1> DEFINE S == [k \in 0 .. n |-> A]
  <1>1. b \in S[0]
    OBVIOUS
  <1>2. Keeps(step, S, n)
    BY DEF Keeps, ClosedOn
  <1> HIDE DEF S
  <1>3. PICK h : Recurs(h, b, step, n) /\ Within(h, S, n)
    BY <1>1, <1>2, Recursion
  <1>4. \A k \in 0 .. n : h[k] \in A
    BY <1>3 DEF Within, S
  <1>5. h = [k \in 0 .. n |-> h[k]] /\ h[0] = b
    BY <1>3 DEF Recurs
  <1>6. \A k \in 1 .. n : h[k] = step[k][h[k - 1]]
    BY <1>3 DEF Recurs
  <1>7. h \in [0 .. n -> A]
    BY <1>4, <1>5
  <1> QED BY <1>5, <1>6, <1>7 DEF Iterates

LEMMA StaysIn ==
  ASSUME NEW n \in Nat, NEW A, NEW d, d[0] \in A,
         \A k \in 1 .. n : d[k - 1] \in A => d[k] \in A
  PROVE  \A k \in 0 .. n : d[k] \in A
  <1> DEFINE K == {k \in 0 .. n : d[k] \in A}
  <1>1. 0 \in K
    OBVIOUS
  <1>2. \A k \in 1 .. n : k - 1 \in K => k \in K
    OBVIOUS
  <1>3. 0 .. n \subseteq K
    <2> HIDE DEF K
    <2> QED BY <1>1, <1>2, Along
  <1> QED BY <1>3

\* The doubled quotes, the joined parts and the parser, character by character.
LEMMA DoubledIs ==
  ASSUME NEW C, F!Quote \in C, NEW text \in Seq(C)
  PROVE  \E d \in [0 .. Len(text) -> Seq(C)] :
           /\ d[0] = <<>> /\ F!Doubled(text) = d[Len(text)]
           /\ \A k \in 1 .. Len(text) :
                d[k] = d[k - 1] \o (IF text[k] = F!Quote THEN <<F!Quote, F!Quote>> ELSE <<text[k]>>)
  <1> DEFINE A == Seq(C)
             n == Len(text)
             next(k, s) == s \o (IF text[k] = F!Quote THEN <<F!Quote, F!Quote>> ELSE <<text[k]>>)
             step == [k \in 1 .. n |-> [s \in A |-> next(k, s)]]
             IsIt(d) == d = [k \in 0 .. n |-> IF k = 0 THEN <<>> ELSE next(k, d[k - 1])]
  <1>1. n \in Nat /\ <<>> \in A
    OBVIOUS
  <1>2. ASSUME NEW k \in 1 .. n, NEW s \in A PROVE next(k, s) \in A
    OBVIOUS
  <1> HIDE DEF A, next
  <1>3. \A k \in 1 .. n : \A s \in A : step[k][s] = next(k, s) /\ step[k][s] \in A
    BY <1>2
  <1>4. PICK h \in [0 .. n -> A] : Iterates(h, <<>>, step, n)
    <2> HIDE DEF step, n
    <2>1. ClosedOn(step, A, n)
      BY <1>3 DEF ClosedOn
    <2> QED BY <1>1, <2>1, RecursionIn
  <1>5. h[0] = <<>> /\ \A k \in 1 .. n : h[k] = next(k, h[k - 1])
    <2> HIDE DEF step, n
    <2>1. \A k \in 1 .. n : k - 1 \in 0 .. n
      BY <1>1
    <2>2. \A k \in 1 .. n : h[k - 1] \in A
      BY <2>1
    <2> QED BY <1>3, <1>4, <2>2 DEF Iterates
  <1>6. IsIt(h)
    <2> HIDE DEF n, step
    <2>1. \A k \in 0 .. n : k = 0 \/ k \in 1 .. n
      BY <1>1
    <2>2. h = [k \in 0 .. n |-> h[k]]
      OBVIOUS
    <2> QED BY <1>5, <2>1, <2>2
  <1> DEFINE d == CHOOSE d : IsIt(d)
  <1>7. IsIt(d)
    <2> HIDE DEF IsIt
    <2> QED BY <1>6
  <1>8. F!Doubled(text) = d[n]
    BY DEF F!Doubled, next
  <1> HIDE DEF d, n
  <1>9. d[0] = <<>> /\ \A k \in 1 .. n : d[k] = next(k, d[k - 1])
    BY <1>1, <1>7
  <1>10. \A k \in 0 .. n : d[k] \in A
    <2>1. d[0] \in A
      BY <1>1, <1>9
    <2>2. \A k \in 1 .. n : d[k - 1] \in A => d[k] \in A
      BY <1>2, <1>9
    <2> QED BY <1>1, <2>1, <2>2, StaysIn
  <1>11. d \in [0 .. n -> A]
    <2>1. d = [k \in 0 .. n |-> d[k]]
      BY <1>7
    <2> QED BY <1>10, <2>1
  <1> QED BY <1>8, <1>9, <1>11 DEF next, n, A

\* The text as it is joined.
Joining(d, C, parts, separator) ==
  /\ d \in [0 .. Len(parts) -> Seq(C)] /\ d[0] = <<>>
  /\ F!Join(parts, separator) = d[Len(parts)]
  /\ \A k \in 1 .. Len(parts) :
       d[k] = d[k - 1] \o (IF k = 1 THEN <<>> ELSE separator) \o parts[k]

LEMMA JoinIs ==
  ASSUME NEW C, NEW parts \in Seq(Seq(C)), NEW separator \in Seq(C)
  PROVE  \E d : Joining(d, C, parts, separator)
  <1> DEFINE A == Seq(C)
             n == Len(parts)
             next(k, s) == s \o (IF k = 1 THEN <<>> ELSE separator) \o parts[k]
             step == [k \in 1 .. n |-> [s \in A |-> next(k, s)]]
             IsIt(d) == d = [k \in 0 .. n |-> IF k = 0 THEN <<>> ELSE next(k, d[k - 1])]
  <1>1. n \in Nat /\ <<>> \in A
    OBVIOUS
  <1>2. ASSUME NEW k \in 1 .. n, NEW s \in A PROVE next(k, s) \in A
    <2>1. (IF k = 1 THEN <<>> ELSE separator) \in Seq(C) /\ parts[k] \in Seq(C)
      BY <1>1
    <2> QED BY <2>1
  <1> HIDE DEF A, next
  <1>3. \A k \in 1 .. n : \A s \in A : step[k][s] = next(k, s) /\ step[k][s] \in A
    BY <1>2
  <1>4. PICK h \in [0 .. n -> A] : Iterates(h, <<>>, step, n)
    <2> HIDE DEF step, n
    <2>1. ClosedOn(step, A, n)
      BY <1>3 DEF ClosedOn
    <2> QED BY <1>1, <2>1, RecursionIn
  <1>5. h[0] = <<>> /\ \A k \in 1 .. n : h[k] = next(k, h[k - 1])
    <2> HIDE DEF step, n
    <2>1. \A k \in 1 .. n : k - 1 \in 0 .. n
      BY <1>1
    <2>2. \A k \in 1 .. n : h[k - 1] \in A
      BY <2>1
    <2> QED BY <1>3, <1>4, <2>2 DEF Iterates
  <1>6. IsIt(h)
    <2> HIDE DEF n, step
    <2>1. \A k \in 0 .. n : k = 0 \/ k \in 1 .. n
      BY <1>1
    <2>2. h = [k \in 0 .. n |-> h[k]]
      OBVIOUS
    <2> QED BY <1>5, <2>1, <2>2
  <1> DEFINE d == CHOOSE d : IsIt(d)
  <1>7. IsIt(d)
    <2> HIDE DEF IsIt
    <2> QED BY <1>6
  <1>8. F!Join(parts, separator) = d[n]
    BY DEF F!Join, next
  <1> HIDE DEF d, n
  <1>9. d[0] = <<>> /\ \A k \in 1 .. n : d[k] = next(k, d[k - 1])
    BY <1>1, <1>7
  <1>10. \A k \in 0 .. n : d[k] \in A
    <2>1. d[0] \in A
      BY <1>1, <1>9
    <2>2. \A k \in 1 .. n : d[k - 1] \in A => d[k] \in A
      BY <1>2, <1>9
    <2> QED BY <1>1, <2>1, <2>2, StaysIn
  <1>11. d \in [0 .. n -> A]
    <2>1. d = [k \in 0 .. n |-> d[k]]
      BY <1>7
    <2> QED BY <1>10, <2>1
  <1>12. Joining(d, C, parts, separator)
    BY <1>8, <1>9, <1>11 DEF Joining, next, n, A
  <1> QED BY <1>12

\* What the parser knows, over an alphabet.
States(C) ==
  [rows : Seq(Seq(Seq(C))), row : Seq(Seq(C)), field : Seq(C),
   quotes : {"outside", "inside", "pair"}]

LEMMA ReadInStates ==
  ASSUME NEW C, F!Quote \in C, NEW text \in Seq(C), NEW k \in 1 .. Len(text), NEW s \in States(C)
  PROVE  F!Read(text, s, k) \in States(C)
  <1>1. text[k] \in C
    OBVIOUS
  <1>2. /\ s.rows \in Seq(Seq(Seq(C))) /\ s.row \in Seq(Seq(C)) /\ s.field \in Seq(C)
        /\ s.quotes \in {"outside", "inside", "pair"}
        /\ DOMAIN s = {"rows", "row", "field", "quotes"}
    BY DEF States
  <1>3. \A c \in C : Append(s.field, c) \in Seq(C)
    BY <1>2
  <1>4. F!EndField(s) \in States(C)
    <2>1. Append(s.row, s.field) \in Seq(Seq(C)) /\ <<>> \in Seq(C)
      BY <1>2
    <2> QED BY <1>2, <2>1 DEF F!EndField, States
  <1>5. F!EndRow(s) \in States(C)
    <2> DEFINE row == Append(s.row, F!NoReturnAtEnd(s.field))
    <2>1. F!NoReturnAtEnd(s.field) \in Seq(C)
      BY <1>2 DEF F!NoReturnAtEnd, F!Front
    <2>2. row \in Seq(Seq(C)) /\ <<>> \in Seq(C) /\ <<>> \in Seq(Seq(C))
      BY <1>2, <2>1
    <2> HIDE DEF row
    <2>3. Append(s.rows, row) \in Seq(Seq(Seq(C)))
      BY <1>2, <2>2
    <2>4. F!EndRow(s) = [s EXCEPT !.rows = IF \E i \in DOMAIN row : row[i] # <<>> THEN Append(@, row) ELSE @,
                                 !.row = <<>>, !.field = <<>>]
      BY DEF F!EndRow, row
    <2> QED BY <1>2, <2>2, <2>3, <2>4 DEF States
  <1>6. /\ [s EXCEPT !.field = Append(@, F!Quote), !.quotes = "pair"] \in States(C)
        /\ [s EXCEPT !.quotes = "outside"] \in States(C)
        /\ [s EXCEPT !.quotes = "inside"] \in States(C)
        /\ [s EXCEPT !.field = Append(@, text[k])] \in States(C)
    BY <1>1, <1>2, <1>3 DEF States
  <1> HIDE DEF F!EndRow
  <1> QED BY <1>4, <1>5, <1>6 DEF F!Read

LEMMA ParseIs ==
  ASSUME NEW C, F!Quote \in C, NEW text \in Seq(C)
  PROVE  \E d \in [0 .. Len(text) -> States(C)] :
           /\ d[0] = F!Start /\ \A k \in 1 .. Len(text) : d[k] = F!Read(text, d[k - 1], k)
           /\ F!ParseCsv(text) =
                IF d[Len(text)].quotes = "inside" THEN <<>> ELSE F!EndRow(d[Len(text)]).rows
  <1> DEFINE A == States(C)
             n == Len(text)
             next(k, s) == F!Read(text, s, k)
             step == [k \in 1 .. n |-> [s \in A |-> next(k, s)]]
             IsIt(d) == d = [k \in 0 .. n |-> IF k = 0 THEN F!Start ELSE next(k, d[k - 1])]
  <1>1. n \in Nat /\ F!Start \in A
    BY DEF F!Start, States
  <1>2. ASSUME NEW k \in 1 .. n, NEW s \in A PROVE next(k, s) \in A
    BY ReadInStates
  <1> HIDE DEF A, next
  <1>3. \A k \in 1 .. n : \A s \in A : step[k][s] = next(k, s) /\ step[k][s] \in A
    BY <1>2
  <1>4. PICK h \in [0 .. n -> A] : Iterates(h, F!Start, step, n)
    <2> HIDE DEF step, n
    <2>1. ClosedOn(step, A, n)
      BY <1>3 DEF ClosedOn
    <2> QED BY <1>1, <2>1, RecursionIn
  <1>5. h[0] = F!Start /\ \A k \in 1 .. n : h[k] = next(k, h[k - 1])
    <2> HIDE DEF step, n
    <2>1. \A k \in 1 .. n : k - 1 \in 0 .. n
      BY <1>1
    <2>2. \A k \in 1 .. n : h[k - 1] \in A
      BY <2>1
    <2> QED BY <1>3, <1>4, <2>2 DEF Iterates
  <1>6. IsIt(h)
    <2> HIDE DEF n, step
    <2>1. \A k \in 0 .. n : k = 0 \/ k \in 1 .. n
      BY <1>1
    <2>2. h = [k \in 0 .. n |-> h[k]]
      OBVIOUS
    <2> QED BY <1>5, <2>1, <2>2
  <1> DEFINE d == CHOOSE d : IsIt(d)
  <1>7. IsIt(d)
    <2> HIDE DEF IsIt
    <2> QED BY <1>6
  <1>8. F!ParseCsv(text) = IF d[n].quotes = "inside" THEN <<>> ELSE F!EndRow(d[n]).rows
    BY DEF F!ParseCsv, next
  <1> HIDE DEF d, n
  <1>9. d[0] = F!Start /\ \A k \in 1 .. n : d[k] = next(k, d[k - 1])
    BY <1>1, <1>7
  <1>10. \A k \in 0 .. n : d[k] \in A
    <2>1. d[0] \in A
      BY <1>1, <1>9
    <2>2. \A k \in 1 .. n : d[k - 1] \in A => d[k] \in A
      BY <1>2, <1>9
    <2> QED BY <1>1, <2>1, <2>2, StaysIn
  <1>11. d \in [0 .. n -> A]
    <2>1. d = [k \in 0 .. n |-> d[k]]
      BY <1>7
    <2> QED BY <1>10, <2>1
  <1> QED BY <1>8, <1>9, <1>11 DEF next, n, A

-----------------------------------------------------------------------------
(* Reading what was written.                                               *)

\* A state of the parser from its parts, and how the parts change.
State(r, w, f, q) == [rows |-> r, row |-> w, field |-> f, quotes |-> q]

LEMMA FieldGrows ==
  ASSUME NEW r, NEW w, NEW f, NEW q, NEW x
  PROVE  [State(r, w, f, q) EXCEPT !.field = Append(@, x)] = State(r, w, Append(f, x), q)
  BY DEF State

LEMMA QuotesChange ==
  ASSUME NEW r, NEW w, NEW f, NEW q, NEW x
  PROVE  [State(r, w, f, q) EXCEPT !.quotes = x] = State(r, w, f, x)
  BY DEF State

Paired(s) == [s EXCEPT !.field = Append(@, F!Quote), !.quotes = "pair"]

LEMMA PairGrows ==
  ASSUME NEW r, NEW w, NEW f, NEW q
  PROVE  Paired(State(r, w, f, q)) = State(r, w, Append(f, F!Quote), "pair")
  <1> DEFINE u == Paired(State(r, w, f, q))
  <1>1. DOMAIN u = {"rows", "row", "field", "quotes"}
    BY DEF State, Paired
  <1>2. u.rows = r /\ u.row = w /\ u.field = Append(f, F!Quote) /\ u.quotes = "pair"
    BY DEF State, Paired
  <1>3. u = [z \in DOMAIN u |-> u[z]]
    BY DEF State, Paired
  <1> HIDE DEF u
  <1>4. u = State(r, w, Append(f, F!Quote), "pair")
    BY <1>1, <1>2, <1>3 DEF State
  <1> QED BY <1>4 DEF u

LEMMA FieldEnds ==
  ASSUME NEW r, NEW w, NEW f, NEW q
  PROVE  F!EndField(State(r, w, f, q)) = State(r, Append(w, f), <<>>, q)
  <1> DEFINE u == F!EndField(State(r, w, f, q))
  <1>1. DOMAIN u = {"rows", "row", "field", "quotes"}
    BY DEF State, F!EndField
  <1>2. u.rows = r /\ u.row = Append(w, f) /\ u.field = <<>> /\ u.quotes = q
    BY DEF State, F!EndField
  <1>3. u = [z \in DOMAIN u |-> u[z]]
    BY DEF State, F!EndField
  <1> HIDE DEF u
  <1>4. u = State(r, Append(w, f), <<>>, q)
    BY <1>1, <1>2, <1>3 DEF State
  <1> QED BY <1>4 DEF u

\* The end of a line whose last cell is followed by a return.
Closes(row, w, f) == row = Append(w, F!NoReturnAtEnd(f)) /\ \E i \in DOMAIN row : row[i] # <<>>
Ended(r, row, q) == State(Append(r, row), <<>>, <<>>, q)

LEMMA RowEnds ==
  ASSUME NEW r, NEW w, NEW f, NEW q, NEW row, Closes(row, w, f)
  PROVE  F!EndRow(State(r, w, f, q)) = Ended(r, row, q)
  <1> DEFINE s == State(r, w, f, q)
             u == [s EXCEPT !.rows = IF \E i \in DOMAIN row : row[i] # <<>> THEN Append(@, row) ELSE @,
                            !.row = <<>>, !.field = <<>>]
  <1>1. F!EndRow(s) = u
    <2>1. s.row = w /\ s.field = f
      BY DEF State
    <2> QED BY <2>1 DEF F!EndRow, Closes
  <1>2. DOMAIN u = {"rows", "row", "field", "quotes"}
    BY DEF State
  <1>3. u.rows = Append(r, row) /\ u.row = <<>> /\ u.field = <<>> /\ u.quotes = q
    BY DEF State, Closes
  <1>4. u = [z \in DOMAIN u |-> u[z]]
    OBVIOUS
  <1> HIDE DEF u
  <1>5. u = State(Append(r, row), <<>>, <<>>, q)
    BY <1>2, <1>3, <1>4 DEF State
  <1> QED BY <1>1, <1>5 DEF Ended

\* Outside quotes.
LEMMA ReadOutside ==
  ASSUME NEW text, NEW k, NEW r, NEW w, NEW f
  PROVE  LET s == State(r, w, f, "outside") IN
         /\ text[k] \notin {F!Quote, F!Comma, F!LF} =>
              F!Read(text, s, k) = State(r, w, Append(f, text[k]), "outside")
         /\ text[k] = F!Quote => F!Read(text, s, k) = State(r, w, f, "inside")
         /\ text[k] = F!Comma => F!Read(text, s, k) = State(r, Append(w, f), <<>>, "outside")
         /\ text[k] = F!LF => F!Read(text, s, k) = F!EndRow(s)
  <1> DEFINE s == State(r, w, f, "outside")
  <1>1. s.quotes = "outside"
    BY DEF State
  <1>2. F!Quote # F!Comma /\ F!Quote # F!LF /\ F!Comma # F!LF
    BY DEF F!Quote, F!Comma, F!LF
  <1>3. ASSUME text[k] \notin {F!Quote, F!Comma, F!LF}
        PROVE  F!Read(text, s, k) = [s EXCEPT !.field = Append(@, text[k])]
    <2> HIDE DEF s
    <2> QED BY <1>1, <1>3 DEF F!Read
  <1>4. text[k] = F!Quote => F!Read(text, s, k) = [s EXCEPT !.quotes = "inside"]
    <2> HIDE DEF s
    <2> QED BY <1>1, <1>2 DEF F!Read
  <1>5. text[k] = F!Comma => F!Read(text, s, k) = F!EndField(s)
    <2> HIDE DEF s
    <2> QED BY <1>1, <1>2 DEF F!Read
  <1>6. text[k] = F!LF => F!Read(text, s, k) = F!EndRow(s)
    <2> HIDE DEF s
    <2> QED BY <1>1, <1>2 DEF F!Read
  <1>7. [s EXCEPT !.field = Append(@, text[k])] = State(r, w, Append(f, text[k]), "outside")
    BY FieldGrows
  <1>8. [s EXCEPT !.quotes = "inside"] = State(r, w, f, "inside")
    BY QuotesChange
  <1>9. F!EndField(s) = State(r, Append(w, f), <<>>, "outside")
    BY FieldEnds
  <1> HIDE DEF s
  <1> QED BY <1>3, <1>4, <1>5, <1>6, <1>7, <1>8, <1>9 DEF s

\* Inside quotes.
LEMMA ReadInside ==
  ASSUME NEW text, NEW k, NEW r, NEW w, NEW f
  PROVE  LET s == State(r, w, f, "inside")
             pair == k < Len(text) /\ text[k + 1] = F!Quote IN
         /\ text[k] # F!Quote => F!Read(text, s, k) = State(r, w, Append(f, text[k]), "inside")
         /\ text[k] = F!Quote /\ pair =>
              F!Read(text, s, k) = State(r, w, Append(f, F!Quote), "pair")
         /\ text[k] = F!Quote /\ ~pair => F!Read(text, s, k) = State(r, w, f, "outside")
         /\ F!Read(text, State(r, w, f, "pair"), k) = s
  <1> DEFINE s == State(r, w, f, "inside")
             t == State(r, w, f, "pair")
             pair == k < Len(text) /\ text[k + 1] = F!Quote
  <1>1. s.quotes = "inside" /\ t.quotes = "pair"
    BY DEF State
  <1>2. ASSUME text[k] # F!Quote PROVE F!Read(text, s, k) = [s EXCEPT !.field = Append(@, text[k])]
    <2> HIDE DEF s
    <2> QED BY <1>1, <1>2 DEF F!Read
  <1>3. text[k] = F!Quote /\ pair => F!Read(text, s, k) = Paired(s)
    <2> HIDE DEF s
    <2> QED BY <1>1 DEF F!Read, Paired
  <1>4. text[k] = F!Quote /\ ~pair => F!Read(text, s, k) = [s EXCEPT !.quotes = "outside"]
    <2> HIDE DEF s
    <2> QED BY <1>1 DEF F!Read
  <1>5. F!Read(text, t, k) = [t EXCEPT !.quotes = "inside"]
    <2> HIDE DEF t
    <2> QED BY <1>1 DEF F!Read
  <1>6. [s EXCEPT !.field = Append(@, text[k])] = State(r, w, Append(f, text[k]), "inside")
    BY FieldGrows
  <1>7. Paired(s) = State(r, w, Append(f, F!Quote), "pair")
    BY PairGrows
  <1>8. [s EXCEPT !.quotes = "outside"] = State(r, w, f, "outside")
    BY QuotesChange
  <1>9. [t EXCEPT !.quotes = "inside"] = s
    BY QuotesChange
  <1> HIDE DEF s, t, pair
  <1> QED BY <1>2, <1>3, <1>4, <1>5, <1>6, <1>7, <1>8, <1>9 DEF s, t, pair

\* A list grows by its next element.
LEMMA SubSeqGrows ==
  ASSUME NEW C, NEW c \in Seq(C), NEW j \in 1 .. Len(c)
  PROVE  Append(SubSeq(c, 1, j - 1), c[j]) = SubSeq(c, 1, j)
  <1> DEFINE a == SubSeq(c, 1, j - 1)
             b == SubSeq(c, 1, j)
  <1>1. Len(c) \in Nat /\ j \in Nat /\ j - 1 \in Nat /\ c[j] \in C
    OBVIOUS
  <1>2. a \in Seq(C) /\ Len(a) = j - 1 /\ \A i \in 1 .. j - 1 : a[i] = c[i]
    BY <1>1
  <1>3. b \in Seq(C) /\ Len(b) = j /\ \A i \in 1 .. j : b[i] = c[i]
    BY <1>1
  <1> HIDE DEF a, b
  <1> DEFINE e == Append(a, c[j])
  <1>4. e \in Seq(C) /\ Len(e) = j /\ e[j] = c[j] /\ \A i \in 1 .. j - 1 : e[i] = a[i]
    BY <1>1, <1>2
  <1> HIDE DEF e
  <1>5. \A i \in 1 .. j : e[i] = b[i]
    <2>1. \A i \in 1 .. j : i = j \/ i \in 1 .. j - 1
      BY <1>1
    <2>2. j \in 1 .. j
      BY <1>1
    <2> QED BY <1>2, <1>3, <1>4, <2>1, <2>2
  <1>6. e = b
    BY <1>3, <1>4, <1>5
  <1> QED BY <1>6 DEF a, b, e

LEMMA WholeSubSeq ==
  ASSUME NEW C, NEW c \in Seq(C)
  PROVE  SubSeq(c, 1, 0) = <<>> /\ SubSeq(c, 1, Len(c)) = c
  OBVIOUS

\* What a list starts with stands where the list stands.
LEMMA AtBegins ==
  ASSUME NEW C, NEW t \in Seq(C), NEW n \in Nat, NEW d \in [0 .. n -> Seq(C)],
         \A k \in 1 .. n : \E e \in Seq(C) : d[k] = d[k - 1] \o e,
         NEW o, At(t, o, d[n])
  PROVE  \A k \in 0 .. n : At(t, o, d[k])
  <1> DEFINE K == {k \in 0 .. n : At(t, o, d[n - k])}
  <1>1. 0 \in K
    OBVIOUS
  <1>2. ASSUME NEW k \in 1 .. n, k - 1 \in K PROVE k \in K
    <2> DEFINE m == n - (k - 1)
    <2>1. m \in 1 .. n /\ m - 1 = n - k /\ n - k \in 0 .. n /\ m \in 0 .. n
      OBVIOUS
    <2>2. At(t, o, d[m])
      BY <1>2
    <2> HIDE DEF m
    <2>3. PICK e \in Seq(C) : d[m] = d[m - 1] \o e
      BY <2>1
    <2>4. d[m - 1] \in Seq(C)
      BY <2>1
    <2>5. At(t, o, d[m - 1])
      BY <2>2, <2>3, <2>4, AtConcat
    <2> QED BY <2>1, <2>5
  <1>3. 0 .. n \subseteq K
    <2> HIDE DEF K
    <2> QED BY <1>1, <1>2, Along
  <1>4. \A k \in 0 .. n : n - k \in 0 .. n /\ n - (n - k) = k
    OBVIOUS
  <1>5. ASSUME NEW k \in 0 .. n PROVE At(t, o, d[k])
    <2>1. n - k \in K
      BY <1>3, <1>4
    <2>2. At(t, o, d[n - (n - k)])
      BY <2>1
    <2> QED BY <2>2, <1>4
  <1> QED BY <1>5

\* The states of the parser along a text.
Reading(t, d) == d[0] = F!Start /\ \A k \in 1 .. Len(t) : d[k] = F!Read(t, d[k - 1], k)

\* Characters that mean nothing to the format are read as they are.
LEMMA PlainIsRead ==
  ASSUME NEW C, NEW t \in Seq(C), NEW d, Reading(t, d), NEW o, NEW c \in Seq(C), At(t, o, c),
         \A j \in 1 .. Len(c) : c[j] \notin {F!Quote, F!Comma, F!LF},
         NEW r, NEW w, d[o] = State(r, w, <<>>, "outside")
  PROVE  d[o + Len(c)] = State(r, w, c, "outside")
  <1> DEFINE n == Len(c)
             K == {j \in 0 .. n : d[o + j] = State(r, w, SubSeq(c, 1, j), "outside")}
  <1>1. n \in Nat /\ o \in Nat /\ o + n <= Len(t) /\ Len(t) \in Nat
    BY DEF At
  <1>2. 0 \in K
    <2>1. d[o + 0] = State(r, w, <<>>, "outside")
      <3>1. o + 0 = o
        BY <1>1
      <3> QED BY <3>1
    <2>2. SubSeq(c, 1, 0) = <<>>
      BY WholeSubSeq
    <2>3. 0 \in 0 .. n
      BY <1>1
    <2> QED BY <2>1, <2>2, <2>3
  <1>3. ASSUME NEW j \in 1 .. n, j - 1 \in K PROVE j \in K
    <2>1. d[o + (j - 1)] = State(r, w, SubSeq(c, 1, j - 1), "outside")
      BY <1>3
    <2>2. o + j \in 1 .. Len(t) /\ (o + j) - 1 = o + (j - 1)
      BY <1>1
    <2>3. d[o + j] = F!Read(t, d[o + (j - 1)], o + j)
      BY <2>2 DEF Reading
    <2>4. t[o + j] = c[j] /\ c[j] \notin {F!Quote, F!Comma, F!LF}
      BY DEF At
    <2>5. d[o + j] = State(r, w, Append(SubSeq(c, 1, j - 1), c[j]), "outside")
      BY <2>1, <2>3, <2>4, ReadOutside
    <2>6. Append(SubSeq(c, 1, j - 1), c[j]) = SubSeq(c, 1, j)
      BY SubSeqGrows
    <2>7. j \in 0 .. n
      BY <1>1
    <2> QED BY <2>5, <2>6, <2>7
  <1>4. 0 .. n \subseteq K
    <2> HIDE DEF K
    <2> QED BY <1>1, <1>2, <1>3, Along
  <1>5. n \in K
    <2> HIDE DEF K
    <2> QED BY <1>1, <1>4
  <1> QED BY <1>5, WholeSubSeq

\* What stands somewhere in a text, character by character.
LEMMA AtOne ==
  ASSUME NEW t, NEW o, NEW a, At(t, o, <<a>>)
  PROVE  t[o + 1] = a /\ o \in Nat /\ o + 1 \in 1 .. Len(t)
  <1>1. Len(<<a>>) = 1 /\ <<a>>[1] = a /\ 1 \in 1 .. 1
    OBVIOUS
  <1>2. o \in Nat /\ o + 1 <= Len(t) /\ t[o + 1] = <<a>>[1]
    BY <1>1 DEF At
  <1> QED BY <1>1, <1>2 DEF At

LEMMA AtTwo ==
  ASSUME NEW t, NEW o, NEW a, NEW b, At(t, o, <<a, b>>), Len(t) \in Nat
  PROVE  t[o + 1] = a /\ t[o + 2] = b /\ o \in Nat /\ o + 1 \in 1 .. Len(t) /\ o + 2 \in 1 .. Len(t)
  <1>1. Len(<<a, b>>) = 2 /\ <<a, b>>[1] = a /\ <<a, b>>[2] = b /\ 1 \in 1 .. 2 /\ 2 \in 1 .. 2
    OBVIOUS
  <1>2. o \in Nat /\ o + 2 <= Len(t) /\ t[o + 1] = <<a, b>>[1] /\ t[o + 2] = <<a, b>>[2]
    BY <1>1 DEF At
  <1> QED BY <1>1, <1>2

\* A character of a quoted cell, as it is or doubled.
Inside(ch) == IF ch = F!Quote THEN <<F!Quote, F!Quote>> ELSE <<ch>>

LEMMA InsideIs ==
  ASSUME NEW C, F!Quote \in C, NEW ch \in C
  PROVE  /\ Inside(ch) \in Seq(C)
         /\ ch = F!Quote => Inside(ch) = <<F!Quote, F!Quote>> /\ Len(Inside(ch)) = 2
         /\ ch # F!Quote => Inside(ch) = <<ch>> /\ Len(Inside(ch)) = 1
  BY DEF Inside

\* Inside quotes a character is read back, a doubled quote as one.
LEMMA InsideIsRead ==
  ASSUME NEW C, F!Quote \in C, NEW t \in Seq(C), NEW d, Reading(t, d), NEW ch \in C,
         NEW o, At(t, o, Inside(ch)),
         NEW r, NEW w, NEW f, d[o] = State(r, w, f, "inside")
  PROVE  d[o + Len(Inside(ch))] = State(r, w, Append(f, ch), "inside")
  <1>1. CASE ch # F!Quote
    <2>1. Inside(ch) = <<ch>> /\ Len(Inside(ch)) = 1
      BY <1>1, InsideIs
    <2>2. t[o + 1] = ch /\ o \in Nat /\ o + 1 \in 1 .. Len(t)
      BY <2>1, AtOne
    <2>3. (o + 1) - 1 = o
      BY <2>2
    <2>4. d[o + 1] = F!Read(t, State(r, w, f, "inside"), o + 1)
      BY <2>2, <2>3 DEF Reading
    <2> QED BY <1>1, <2>1, <2>2, <2>4, ReadInside
  <1>2. CASE ch = F!Quote
    <2>1. Inside(ch) = <<F!Quote, F!Quote>> /\ Len(Inside(ch)) = 2
      BY <1>2, InsideIs
    <2>2. /\ t[o + 1] = F!Quote /\ t[o + 2] = F!Quote
          /\ o \in Nat /\ o + 1 \in 1 .. Len(t) /\ o + 2 \in 1 .. Len(t)
      BY <2>1, AtTwo
    <2>3. (o + 1) - 1 = o /\ (o + 2) - 1 = o + 1 /\ (o + 1) + 1 = o + 2 /\ o + 1 < Len(t)
      BY <2>2
    <2>4. d[o + 1] = F!Read(t, State(r, w, f, "inside"), o + 1)
      BY <2>2, <2>3 DEF Reading
    <2>5. d[o + 1] = State(r, w, Append(f, F!Quote), "pair")
      BY <2>2, <2>3, <2>4, ReadInside
    <2>6. d[o + 2] = F!Read(t, State(r, w, Append(f, F!Quote), "pair"), o + 2)
      BY <2>2, <2>3, <2>5 DEF Reading
    <2>7. d[o + 2] = State(r, w, Append(f, F!Quote), "inside")
      BY <2>6, ReadInside
    <2> QED BY <1>2, <2>1, <2>7
  <1> QED BY <1>1, <1>2

\* A cell is read as it was before it was written, whatever is in it.
LEMMA CellIsRead ==
  ASSUME NEW C, F!Quote \in C, NEW t \in Seq(C), NEW d, Reading(t, d), NEW c \in Seq(C),
         NEW o, At(t, o, F!CsvCell(c)),
         o + Len(F!CsvCell(c)) < Len(t) => t[o + Len(F!CsvCell(c)) + 1] # F!Quote,
         NEW r, NEW w, d[o] = State(r, w, <<>>, "outside")
  PROVE  /\ F!CsvCell(c) \in Seq(C)
         /\ d[o + Len(F!CsvCell(c))] = State(r, w, c, "outside")
  <1>1. CASE ~F!NeedsQuotes(c)
    <2>1. F!CsvCell(c) = c
      BY <1>1 DEF F!CsvCell
    <2>2. \A j \in 1 .. Len(c) : c[j] \notin {F!Quote, F!Comma, F!LF}
      BY <1>1 DEF F!NeedsQuotes, F!Contains
    <2> QED BY <2>1, <2>2, PlainIsRead
  <1>2. CASE F!NeedsQuotes(c)
    <2> DEFINE n == Len(c)
               D == F!Doubled(c)
               one == <<F!Quote>>
    <2>1. PICK q \in [0 .. n -> Seq(C)] :
            /\ q[0] = <<>> /\ D = q[n]
            /\ \A k \in 1 .. n : q[k] = q[k - 1] \o Inside(c[k])
      BY DoubledIs DEF Inside
    <2>2. n \in Nat /\ D \in Seq(C) /\ one \in Seq(C) /\ Len(one) = 1
      BY <2>1
    <2>3. F!CsvCell(c) = (one \o D) \o one
      BY <1>2 DEF F!CsvCell
    <2> HIDE DEF D, one
    <2>4. one \o D \in Seq(C) /\ Len(one \o D) = 1 + Len(D) /\ Len(D) \in Nat
      BY <2>2, Concat
    <2>5. (one \o D) \o one \in Seq(C) /\ Len((one \o D) \o one) = 2 + Len(D)
      <3>1. (one \o D) \o one \in Seq(C) /\ Len((one \o D) \o one) = Len(one \o D) + Len(one)
        BY <2>2, <2>4, Concat
      <3> QED BY <2>2, <2>4, <3>1
    <2>6. At(t, o, one \o D) /\ At(t, o + Len(one \o D), one)
      BY <2>2, <2>3, <2>4, AtConcat
    <2>7. At(t, o, one) /\ At(t, o + Len(one), D)
      BY <2>2, <2>6, AtConcat
    <2>8. t[o + 1] = F!Quote /\ o \in Nat /\ o + 1 \in 1 .. Len(t) /\ (o + 1) - 1 = o
      BY <2>7, AtOne DEF one
    <2>9. d[o + 1] = State(r, w, <<>>, "inside")
      <3>1. d[o + 1] = F!Read(t, State(r, w, <<>>, "outside"), o + 1)
        BY <2>8 DEF Reading
      <3> QED BY <2>8, <3>1, ReadOutside
    <2>10. \A k \in 0 .. n : At(t, o + 1, q[k])
      <3>1. \A k \in 1 .. n : c[k] \in C /\ Inside(c[k]) \in Seq(C)
        BY InsideIs
      <3>2. \A k \in 1 .. n : \E e \in Seq(C) : q[k] = q[k - 1] \o e
        BY <2>1, <3>1
      <3>3. At(t, o + 1, q[n])
        BY <2>1, <2>2, <2>7
      <3> HIDE DEF n
      <3> QED BY <2>1, <2>2, <3>2, <3>3, AtBegins
    <2> DEFINE K == {j \in 0 .. n : d[(o + 1) + Len(q[j])] = State(r, w, SubSeq(c, 1, j), "inside")}
    <2>11. 0 \in K
      <3>1. (o + 1) + Len(q[0]) = o + 1
        BY <2>1, <2>8
      <3>2. SubSeq(c, 1, 0) = <<>>
        BY WholeSubSeq
      <3>3. 0 \in 0 .. n
        BY <2>2
      <3> QED BY <2>9, <3>1, <3>2, <3>3
    <2>12. ASSUME NEW j \in 1 .. n, j - 1 \in K PROVE j \in K
      <3> DEFINE p == (o + 1) + Len(q[j - 1])
                 f == SubSeq(c, 1, j - 1)
      <3>1. d[p] = State(r, w, f, "inside")
        BY <2>12
      <3>2. /\ c[j] \in C /\ Inside(c[j]) \in Seq(C) /\ j - 1 \in 0 .. n /\ j \in 0 .. n
            /\ q[j - 1] \in Seq(C) /\ q[j] = q[j - 1] \o Inside(c[j])
        <4>1. c[j] \in C /\ j - 1 \in 0 .. n /\ j \in 0 .. n
          BY <2>2
        <4> QED BY <2>1, <4>1, InsideIs
      <3>3. At(t, o + 1, q[j - 1] \o Inside(c[j]))
        BY <2>10, <3>2
      <3>4. At(t, p, Inside(c[j]))
        BY <3>2, <3>3, AtConcat
      <3>5. d[p + Len(Inside(c[j]))] = State(r, w, Append(f, c[j]), "inside")
        <4> HIDE DEF p, f
        <4> QED BY <3>1, <3>2, <3>4, InsideIsRead
      <3>6. Append(f, c[j]) = SubSeq(c, 1, j)
        BY SubSeqGrows
      <3>7. (o + 1) + Len(q[j]) = p + Len(Inside(c[j]))
        <4> DEFINE e == Inside(c[j])
        <4>1. e \in Seq(C) /\ q[j - 1] \in Seq(C) /\ q[j] = q[j - 1] \o e
          BY <3>2
        <4> HIDE DEF e
        <4>2. Len(q[j]) = Len(q[j - 1]) + Len(e) /\ Len(q[j - 1]) \in Nat /\ Len(e) \in Nat
          BY <4>1, Concat
        <4> DEFINE x == Len(q[j])
                   y == Len(q[j - 1])
                   z == Len(e)
        <4>3. x = y + z /\ y \in Nat /\ z \in Nat /\ o \in Nat
          BY <2>8, <4>2
        <4> HIDE DEF x, y, z
        <4>4. (o + 1) + x = ((o + 1) + y) + z
          BY <4>3
        <4> QED BY <4>4 DEF e, x, y, z
      <3> HIDE DEF p, f
      <3> QED BY <3>2, <3>5, <3>6, <3>7
    <2>13. n \in K
      <3> HIDE DEF K
      <3>1. 0 .. n \subseteq K
        BY <2>2, <2>11, <2>12, Along
      <3> QED BY <2>2, <3>1
    <2> DEFINE p == (o + 1) + Len(D)
    <2>14. d[p] = State(r, w, c, "inside")
      BY <2>1, <2>13, WholeSubSeq
    <2>15. t[p + 1] = F!Quote /\ p \in Nat /\ p + 1 \in 1 .. Len(t) /\ (p + 1) - 1 = p
      <3>1. At(t, p, one)
        BY <2>4, <2>6, <2>8
      <3> HIDE DEF p
      <3>2. t[p + 1] = F!Quote /\ p \in Nat /\ p + 1 \in 1 .. Len(t)
        BY <3>1, AtOne DEF one
      <3> QED BY <3>2
    <2>16. o + Len(F!CsvCell(c)) = p + 1
      BY <2>3, <2>4, <2>5, <2>8
    <2> HIDE DEF p
    <2>17. d[p + 1] = F!Read(t, State(r, w, c, "inside"), p + 1)
      BY <2>14, <2>15 DEF Reading
    <2>18. ~(p + 1 < Len(t) /\ t[(p + 1) + 1] = F!Quote)
      BY <2>16
    <2>19. d[p + 1] = State(r, w, c, "outside")
      BY <2>15, <2>17, <2>18, ReadInside
    <2> QED BY <2>3, <2>5, <2>16, <2>19
  <1> QED BY <1>1, <1>2

\* Where the parts of a joined text stand, one after the other.
Laid(t, o, parts, separator, from, to) ==
  /\ \A k \in 1 .. Len(parts) : /\ from[k] \in Nat /\ to[k] \in Nat
                               /\ At(t, from[k], parts[k]) /\ to[k] = from[k] + Len(parts[k])
  /\ \A k \in 2 .. Len(parts) : At(t, to[k - 1], separator) /\ from[k] = to[k - 1] + Len(separator)
  /\ from[1] = o /\ to[Len(parts)] = o + Len(F!Join(parts, separator))

LEMMA JoinedIsLaid ==
  ASSUME NEW C, NEW parts \in Seq(Seq(C)), NEW separator \in Seq(C), Len(parts) >= 1,
         NEW t \in Seq(C), NEW o, At(t, o, F!Join(parts, separator))
  PROVE  \E from, to : Laid(t, o, parts, separator, from, to)
  <1> DEFINE n == Len(parts)
             sep(k) == IF k = 1 THEN <<>> ELSE separator
  <1>0. PICK j : Joining(j, C, parts, separator)
    BY JoinIs
  <1>1. /\ j \in [0 .. n -> Seq(C)] /\ j[0] = <<>> /\ F!Join(parts, separator) = j[n]
        /\ \A k \in 1 .. n : j[k] = (j[k - 1] \o sep(k)) \o parts[k]
    BY <1>0 DEF Joining
  <1>2. n \in Nat /\ o \in Nat /\ n >= 1
    BY DEF At
  <1>3. \A k \in 1 .. n : /\ parts[k] \in Seq(C) /\ sep(k) \in Seq(C) /\ k - 1 \in 0 .. n /\ k \in 0 .. n
                          /\ j[k - 1] \in Seq(C) /\ j[k] \in Seq(C)
    <2> SUFFICES ASSUME NEW k \in 1 .. n
                 PROVE  /\ parts[k] \in Seq(C) /\ sep(k) \in Seq(C) /\ k - 1 \in 0 .. n /\ k \in 0 .. n
                        /\ j[k - 1] \in Seq(C) /\ j[k] \in Seq(C)
      OBVIOUS
    <2>1. k - 1 \in 0 .. n /\ k \in 0 .. n /\ parts[k] \in Seq(C)
      BY <1>2
    <2>2. sep(k) \in Seq(C)
      OBVIOUS
    <2> QED BY <1>1, <2>1, <2>2
  <1> HIDE DEF sep, n
  <1>4. \A k \in 0 .. n : At(t, o, j[k])
    <2>1. ASSUME NEW k \in 1 .. n PROVE \E e \in Seq(C) : j[k] = j[k - 1] \o e
      <3> DEFINE x == j[k - 1]
                 y == sep(k)
                 z == parts[k]
      <3>1. x \in Seq(C) /\ y \in Seq(C) /\ z \in Seq(C)
        BY <1>3
      <3> HIDE DEF x, y, z
      <3>2. (x \o y) \o z = x \o (y \o z)
        BY <3>1
      <3>3. (j[k - 1] \o sep(k)) \o parts[k] = j[k - 1] \o (sep(k) \o parts[k])
        BY <3>2 DEF x, y, z
      <3>4. sep(k) \o parts[k] \in Seq(C)
        BY <1>3, Concat
      <3> QED BY <1>1, <3>3, <3>4
    <2>2. At(t, o, j[n])
      BY <1>1
    <2> QED BY <1>1, <1>2, <2>1, <2>2, AtBegins
  <1> DEFINE from == [k \in 1 .. n |-> o + Len(j[k - 1] \o sep(k))]
             to == [k \in 1 .. n |-> o + Len(j[k])]
  <1>5. ASSUME NEW k \in 1 .. n
        PROVE  /\ from[k] \in Nat /\ to[k] \in Nat /\ At(t, from[k], parts[k])
               /\ to[k] = from[k] + Len(parts[k])
               /\ from[k] = (o + Len(j[k - 1])) + Len(sep(k)) /\ At(t, o + Len(j[k - 1]), sep(k))
    <2> DEFINE a == j[k - 1] \o sep(k)
    <2>1. a \in Seq(C) /\ Len(a) = Len(j[k - 1]) + Len(sep(k))
      BY <1>3, Concat
    <2>2. Len(a) \in Nat /\ Len(j[k - 1]) \in Nat /\ Len(sep(k)) \in Nat /\ Len(parts[k]) \in Nat
      BY <1>3, <2>1, Concat
    <2>3. j[k] = a \o parts[k] /\ At(t, o, j[k])
      BY <1>1, <1>3, <1>4
    <2>4. from[k] = o + Len(a) /\ to[k] = o + Len(j[k])
      OBVIOUS
    <2>5. Len(j[k]) = Len(a) + Len(parts[k])
      <3> DEFINE z == parts[k]
      <3>1. a \in Seq(C) /\ z \in Seq(C) /\ j[k] = a \o z
        BY <1>3, <2>1, <2>3
      <3> HIDE DEF a, z
      <3>2. Len(j[k]) = Len(a) + Len(z)
        BY <3>1, Concat
      <3> QED BY <3>2 DEF z
    <2>6. At(t, o, a) /\ At(t, o + Len(a), parts[k])
      <3> HIDE DEF a
      <3> QED BY <1>3, <2>1, <2>3, AtConcat
    <2>7. At(t, o + Len(j[k - 1]), sep(k))
      BY <1>3, <2>6, AtConcat
    <2> DEFINE x == Len(j[k - 1])
               y == Len(sep(k))
               z == Len(parts[k])
    <2>8. from[k] = o + (x + y) /\ to[k] = o + ((x + y) + z) /\ x \in Nat /\ y \in Nat /\ z \in Nat
      BY <2>1, <2>2, <2>4, <2>5
    <2>9. At(t, from[k], parts[k])
      BY <2>4, <2>6
    <2> HIDE DEF a, from, to, x, y, z
    <2>10. /\ from[k] \in Nat /\ to[k] \in Nat /\ to[k] = from[k] + z
           /\ from[k] = (o + x) + y
      BY <1>2, <2>8
    <2> QED BY <2>7, <2>9, <2>10 DEF x, y, z
  <1> HIDE DEF from
  <1>6. ASSUME NEW k \in 2 .. n
        PROVE  At(t, to[k - 1], separator) /\ from[k] = to[k - 1] + Len(separator)
    <2>1. k \in 1 .. n /\ k - 1 \in 1 .. n /\ k # 1
      BY <1>2
    <2>2. sep(k) = separator
      BY <2>1 DEF sep
    <2>3. to[k - 1] = o + Len(j[k - 1])
      BY <2>1
    <2> HIDE DEF to
    <2> QED BY <1>5, <2>1, <2>2, <2>3
  <1>7. to[n] = o + Len(F!Join(parts, separator))
    BY <1>1, <1>2
  <1>8. from[1] = o
    <2>1. 1 \in 1 .. n /\ sep(1) = <<>> /\ 1 - 1 = 0
      BY <1>2 DEF sep
    <2>2. from[1] = (o + Len(j[0])) + Len(<<>>)
      BY <1>5, <2>1
    <2> QED BY <1>1, <1>2, <2>2
  <1> HIDE DEF to
  <1>9. Laid(t, o, parts, separator, from, to)
    BY <1>5, <1>6, <1>7, <1>8 DEF Laid, n
  <1> QED BY <1>9

\* What is written is a text over the same alphabet.
LEMMA JoinIn ==
  ASSUME NEW C, NEW parts \in Seq(Seq(C)), NEW separator \in Seq(C)
  PROVE  F!Join(parts, separator) \in Seq(C)
  <1>1. PICK d : Joining(d, C, parts, separator)
    BY JoinIs
  <1>2. Len(parts) \in 0 .. Len(parts)
    OBVIOUS
  <1> QED BY <1>1, <1>2 DEF Joining

LEMMA CellIn ==
  ASSUME NEW C, F!Quote \in C, NEW c \in Seq(C)
  PROVE  F!CsvCell(c) \in Seq(C)
  <1>1. F!Doubled(c) \in Seq(C)
    <2>1. PICK d \in [0 .. Len(c) -> Seq(C)] : F!Doubled(c) = d[Len(c)]
      BY DoubledIs
    <2>2. Len(c) \in 0 .. Len(c)
      OBVIOUS
    <2> QED BY <2>1, <2>2
  <1>2. (<<F!Quote>> \o F!Doubled(c)) \o <<F!Quote>> \in Seq(C)
    <2> DEFINE D == F!Doubled(c)
               one == <<F!Quote>>
    <2>1. D \in Seq(C) /\ one \in Seq(C)
      BY <1>1
    <2> HIDE DEF D, one
    <2>2. (one \o D) \o one \in Seq(C)
      BY <2>1
    <2> QED BY <2>2 DEF D, one
  <1> QED BY <1>2 DEF F!CsvCell

LEMMA CellsIn ==
  ASSUME NEW C, F!Quote \in C, NEW cells \in Seq(Seq(C))
  PROVE  LET parts == [i \in DOMAIN cells |-> F!CsvCell(cells[i])] IN
         /\ parts \in Seq(Seq(C)) /\ Len(parts) = Len(cells)
         /\ \A i \in 1 .. Len(cells) : parts[i] = F!CsvCell(cells[i])
  <1> DEFINE n == Len(cells)
             parts == [i \in 1 .. n |-> F!CsvCell(cells[i])]
  <1>1. n \in Nat /\ DOMAIN cells = 1 .. n /\ \A i \in 1 .. n : cells[i] \in Seq(C)
    OBVIOUS
  <1>2. \A i \in 1 .. n : F!CsvCell(cells[i]) \in Seq(C)
    BY <1>1, CellIn
  <1> HIDE DEF n
  <1>3. parts \in Seq(Seq(C)) /\ Len(parts) = n
    BY <1>1, <1>2
  <1> QED BY <1>1, <1>3 DEF n

\* A quote that ends a cell is not taken for the first of a pair.
NoQuoteAfter(t, e) == e < Len(t) => t[e + 1] # F!Quote

\* Where a line has been read but for what ends it.
AtLast(r, cells) == State(r, SubSeq(cells, 1, Len(cells) - 1), cells[Len(cells)], "outside")

\* A row is read cell by cell; its last cell is being read where it ends.
RowToRead(C, t, d, cells, o, r) ==
  /\ F!Quote \in C /\ F!Comma \in C /\ t \in Seq(C) /\ Reading(t, d)
  /\ cells \in Seq(Seq(C)) /\ Len(cells) >= 1 /\ At(t, o, F!CsvRow(cells))
  /\ NoQuoteAfter(t, o + Len(F!CsvRow(cells)))
  /\ d[o] = State(r, <<>>, <<>>, "outside")

LEMMA RowIsRead ==
  ASSUME NEW C, NEW t, NEW d, NEW cells, NEW o, NEW r, RowToRead(C, t, d, cells, o, r)
  PROVE  d[o + Len(F!CsvRow(cells))] = AtLast(r, cells)
  <1> DEFINE n == Len(cells)
             parts == [i \in DOMAIN cells |-> F!CsvCell(cells[i])]
             comma == <<F!Comma>>
  <1>0. /\ {F!Quote, F!Comma} \subseteq C /\ t \in Seq(C) /\ Reading(t, d)
        /\ cells \in Seq(Seq(C)) /\ Len(cells) >= 1 /\ At(t, o, F!CsvRow(cells))
        /\ NoQuoteAfter(t, o + Len(F!CsvRow(cells)))
        /\ d[o] = State(r, <<>>, <<>>, "outside")
    BY DEF RowToRead
  <1> USE <1>0
  <1>1. parts \in Seq(Seq(C)) /\ Len(parts) = n /\ \A i \in 1 .. n : parts[i] = F!CsvCell(cells[i])
    BY CellsIn
  <1>2. n \in Nat /\ n >= 1 /\ comma \in Seq(C) /\ Len(comma) = 1 /\ Len(t) \in Nat
    OBVIOUS
  <1>3. F!CsvRow(cells) = F!Join(parts, comma)
    BY DEF F!CsvRow
  <1> HIDE DEF parts, comma, n
  <1>4. PICK from, to : Laid(t, o, parts, comma, from, to)
    BY <1>1, <1>2, <1>3, JoinedIsLaid
  <1>5. \A k \in 1 .. n : /\ from[k] \in Nat /\ to[k] \in Nat
                          /\ At(t, from[k], parts[k]) /\ to[k] = from[k] + Len(parts[k])
    BY <1>1, <1>4 DEF Laid
  <1>6. \A k \in 2 .. n : At(t, to[k - 1], comma) /\ from[k] = to[k - 1] + 1
    BY <1>1, <1>2, <1>4 DEF Laid
  <1>7. from[1] = o /\ to[n] = o + Len(F!CsvRow(cells))
    BY <1>1, <1>3, <1>4 DEF Laid
  <1>8. \A k \in 2 .. n : t[to[k - 1] + 1] = F!Comma /\ to[k - 1] + 1 \in 1 .. Len(t)
    BY <1>6, AtOne DEF comma
  <1>9. ASSUME NEW k \in 1 .. n, to[k] < Len(t) PROVE t[to[k] + 1] # F!Quote
    <2>1. CASE k = n
      BY <1>7, <1>9, <2>1 DEF NoQuoteAfter
    <2>2. CASE k # n
      <3>1. k + 1 \in 2 .. n /\ (k + 1) - 1 = k
        BY <1>2, <2>2
      <3>2. t[to[k] + 1] = F!Comma
        BY <1>8, <3>1
      <3> QED BY <3>2 DEF F!Quote, F!Comma
    <2> QED BY <2>1, <2>2
  <1>10. \A k \in 1 .. n : cells[k] \in Seq(C)
    BY DEF n
  \* A cell is read once its place is reached.
  <1>11. ASSUME NEW k \in 1 .. n, NEW w, d[from[k]] = State(r, w, <<>>, "outside")
         PROVE  d[to[k]] = State(r, w, cells[k], "outside")
    <2>1. At(t, from[k], F!CsvCell(cells[k])) /\ to[k] = from[k] + Len(F!CsvCell(cells[k]))
      BY <1>1, <1>5
    <2>2. from[k] + Len(F!CsvCell(cells[k])) < Len(t) =>
            t[from[k] + Len(F!CsvCell(cells[k])) + 1] # F!Quote
      BY <1>9, <2>1
    <2> QED BY <1>10, <1>11, <2>1, <2>2, CellIsRead
  <1> DEFINE K == {k \in 0 .. n : k # 0 => d[to[k]] = State(r, SubSeq(cells, 1, k - 1), cells[k], "outside")}
  <1>12. 0 \in K
    BY <1>2
  <1>13. ASSUME NEW k \in 1 .. n, k - 1 \in K PROVE k \in K
    <2>1. k \in 0 .. n /\ k # 0
      BY <1>2
    <2>2. d[from[k]] = State(r, SubSeq(cells, 1, k - 1), <<>>, "outside")
      <3>1. CASE k = 1
        <4>1. SubSeq(cells, 1, k - 1) = <<>>
          BY <3>1, WholeSubSeq
        <4> QED BY <1>7, <3>1, <4>1
      <3>2. CASE k # 1
        <4> DEFINE p == to[k - 1]
                   w == SubSeq(cells, 1, (k - 1) - 1)
                   f == cells[k - 1]
        <4>1. k \in 2 .. n /\ k - 1 # 0 /\ k - 1 \in 1 .. n
          BY <1>2, <3>2
        <4>2. d[p] = State(r, w, f, "outside")
          BY <1>13, <4>1
        <4>3. t[p + 1] = F!Comma /\ p + 1 \in 1 .. Len(t) /\ from[k] = p + 1 /\ p \in Nat
          BY <1>5, <1>6, <1>8, <4>1
        <4>4. Append(w, f) = SubSeq(cells, 1, k - 1)
          BY <4>1, SubSeqGrows DEF n
        <4> HIDE DEF p, w, f
        <4>5. d[p + 1] = F!Read(t, State(r, w, f, "outside"), p + 1)
          <5>1. (p + 1) - 1 = p
            BY <4>3
          <5> QED BY <4>2, <4>3, <5>1 DEF Reading
        <4>6. d[p + 1] = State(r, Append(w, f), <<>>, "outside")
          BY <4>3, <4>5, ReadOutside
        <4> QED BY <4>3, <4>4, <4>6
      <3> QED BY <3>1, <3>2
    <2>3. d[to[k]] = State(r, SubSeq(cells, 1, k - 1), cells[k], "outside")
      BY <1>11, <2>2
    <2> QED BY <2>1, <2>3
  <1>14. n \in K
    <2> HIDE DEF K
    <2>1. 0 .. n \subseteq K
      BY <1>2, <1>12, <1>13, Along
    <2> QED BY <1>2, <2>1
  <1>15. d[to[n]] = State(r, SubSeq(cells, 1, n - 1), cells[n], "outside")
    BY <1>2, <1>14
  <1> QED BY <1>7, <1>15 DEF n, AtLast

LEMMA RowIn ==
  ASSUME NEW C, {F!Quote, F!Comma} \subseteq C, NEW cells \in Seq(Seq(C))
  PROVE  F!CsvRow(cells) \in Seq(C)
  <1>1. [i \in DOMAIN cells |-> F!CsvCell(cells[i])] \in Seq(Seq(C))
    BY CellsIn
  <1>2. <<F!Comma>> \in Seq(C)
    OBVIOUS
  <1> QED BY <1>1, <1>2, JoinIn DEF F!CsvRow

\* A line that may be written: its last cell has no sign in it and some cell is filled in.
Line(C, cells) ==
  /\ cells \in Seq(Seq(C)) /\ Len(cells) >= 1
  /\ F!Plain(cells[Len(cells)])
  /\ \E i \in 1 .. Len(cells) : cells[i] # <<>>

\* The return written after a line is no part of its last cell.
LEMMA ReturnIsStripped ==
  ASSUME NEW C, NEW f \in Seq(C), F!Plain(f)
  PROVE  F!NoReturnAtEnd(Append(f, F!CR)) = f /\ F!NoReturnAtEnd(f) = f
  <1>1. F!NoReturnAtEnd(f) = f
    <2>1. CASE f = <<>>
      BY <2>1 DEF F!NoReturnAtEnd
    <2>2. CASE f # <<>>
      <3>1. Len(f) \in DOMAIN f
        BY <2>2
      <3>2. F!Last(f) # F!CR
        BY <3>1 DEF F!Last, F!Plain
      <3> QED BY <3>2 DEF F!NoReturnAtEnd
    <2> QED BY <2>1, <2>2
  <1>2. F!NoReturnAtEnd(Append(f, F!CR)) = f
    <2> DEFINE D == C \cup {F!CR}
               g == Append(f, F!CR)
    <2>1. g \in Seq(D) /\ Len(g) = Len(f) + 1 /\ g[Len(f) + 1] = F!CR /\ Len(f) \in Nat
      OBVIOUS
    <2>2. f \in Seq(D) /\ \A i \in 1 .. Len(f) : g[i] = f[i]
      OBVIOUS
    <2> HIDE DEF g, D
    <2>3. g # <<>> /\ F!Last(g) = F!CR /\ Len(g) - 1 = Len(f)
      BY <2>1 DEF F!Last
    <2> DEFINE h == SubSeq(g, 1, Len(f))
    <2>4. h \in Seq(D) /\ Len(h) = Len(f) /\ \A i \in 1 .. Len(f) : h[i] = g[i]
      BY <2>1
    <2>5. F!NoReturnAtEnd(g) = h
      BY <2>3 DEF F!NoReturnAtEnd, F!Front
    <2> HIDE DEF h
    <2>6. h = f
      BY <2>2, <2>4
    <2> QED BY <2>5, <2>6 DEF g
  <1> QED BY <1>1, <1>2

\* Where a line ends, with its return or with the file, its row is complete.
LEMMA LineEnds ==
  ASSUME NEW C, NEW cells, Line(C, cells), NEW r
  PROVE  LET w == SubSeq(cells, 1, Len(cells) - 1)
             f == cells[Len(cells)]
         IN /\ F!EndRow(State(r, w, Append(f, F!CR), "outside")) = Ended(r, cells, "outside")
            /\ F!EndRow(State(r, w, f, "outside")) = Ended(r, cells, "outside")
  <1> DEFINE n == Len(cells)
             w == SubSeq(cells, 1, n - 1)
             f == cells[n]
  <1>1. cells \in Seq(Seq(C)) /\ n \in 1 .. n /\ f \in Seq(C) /\ F!Plain(f)
    BY DEF Line
  <1>2. \E i \in DOMAIN cells : cells[i] # <<>>
    BY DEF Line
  <1>3. Append(w, f) = cells
    <2>1. Append(w, f) = SubSeq(cells, 1, n)
      BY <1>1, SubSeqGrows
    <2>2. SubSeq(cells, 1, n) = cells
      BY <1>1, WholeSubSeq
    <2> QED BY <2>1, <2>2
  <1>4. F!NoReturnAtEnd(Append(f, F!CR)) = f /\ F!NoReturnAtEnd(f) = f
    BY <1>1, ReturnIsStripped
  <1> HIDE DEF w, f, n
  <1>5. F!EndRow(State(r, w, Append(f, F!CR), "outside")) = Ended(r, cells, "outside")
    <2>1. Closes(cells, w, Append(f, F!CR))
      BY <1>2, <1>3, <1>4 DEF Closes
    <2> QED BY <2>1, RowEnds
  <1>6. F!EndRow(State(r, w, f, "outside")) = Ended(r, cells, "outside")
    <2>1. Closes(cells, w, f)
      BY <1>2, <1>3, <1>4 DEF Closes
    <2> QED BY <2>1, RowEnds
  <1> QED BY <1>5, <1>6 DEF w, f, n

\* The file of some lines.
Written(lines) == F!Join([i \in 1 .. Len(lines) |-> F!CsvRow(lines[i])], <<F!CR, F!LF>>)

LEMMA RowsIn ==
  ASSUME NEW C, {F!Quote, F!Comma} \subseteq C, NEW lines \in Seq(Seq(Seq(C)))
  PROVE  LET parts == [i \in 1 .. Len(lines) |-> F!CsvRow(lines[i])] IN
         /\ parts \in Seq(Seq(C)) /\ Len(parts) = Len(lines)
         /\ \A i \in 1 .. Len(lines) : parts[i] = F!CsvRow(lines[i])
  <1> DEFINE n == Len(lines)
             parts == [i \in 1 .. n |-> F!CsvRow(lines[i])]
  <1>1. n \in Nat /\ \A i \in 1 .. n : lines[i] \in Seq(Seq(C))
    OBVIOUS
  <1>2. \A i \in 1 .. n : F!CsvRow(lines[i]) \in Seq(C)
    BY <1>1, RowIn
  <1> HIDE DEF n
  <1>3. parts \in Seq(Seq(C)) /\ Len(parts) = n
    BY <1>1, <1>2
  <1> QED BY <1>1, <1>3 DEF n

\* A file is read line by line, and gives back the lines it was written from.
LEMMA LinesAreRead ==
  ASSUME NEW C, {F!Quote, F!Comma, F!CR, F!LF} \subseteq C, NEW lines \in Seq(Seq(Seq(C))),
         Len(lines) >= 1, \A i \in 1 .. Len(lines) : Line(C, lines[i])
  PROVE  F!ParseCsv(Written(lines)) = lines
  <1> DEFINE n == Len(lines)
             parts == [i \in 1 .. n |-> F!CsvRow(lines[i])]
             mark == <<F!CR, F!LF>>
             t == Written(lines)
  <1>1. parts \in Seq(Seq(C)) /\ Len(parts) = n /\ \A i \in 1 .. n : parts[i] = F!CsvRow(lines[i])
    BY RowsIn
  <1>2. n \in Nat /\ n >= 1 /\ mark \in Seq(C) /\ Len(mark) = 2
    OBVIOUS
  <1>3. t = F!Join(parts, mark)
    BY DEF Written
  <1>4. t \in Seq(C) /\ Len(t) \in Nat
    <2> HIDE DEF t, parts, mark, n
    <2>1. t \in Seq(C)
      BY <1>1, <1>2, <1>3, JoinIn
    <2> QED BY <2>1
  <1> HIDE DEF t, parts, mark, n
  <1>5. At(t, 0, t)
    BY <1>4 DEF At
  <1>6. PICK from, to : Laid(t, 0, parts, mark, from, to)
    BY <1>1, <1>2, <1>3, <1>4, <1>5, JoinedIsLaid
  <1>7. \A k \in 1 .. n : /\ from[k] \in Nat /\ to[k] \in Nat
                          /\ At(t, from[k], parts[k]) /\ to[k] = from[k] + Len(parts[k])
    BY <1>1, <1>6 DEF Laid
  <1>8. \A k \in 2 .. n : At(t, to[k - 1], mark) /\ from[k] = to[k - 1] + 2
    BY <1>1, <1>2, <1>6 DEF Laid
  <1>9. from[1] = 0 /\ to[n] = Len(t)
    <2>1. from[1] = 0 /\ to[n] = 0 + Len(t)
      BY <1>1, <1>3, <1>6 DEF Laid
    <2> QED BY <1>4, <2>1
  <1>10. ASSUME NEW k \in 2 .. n
         PROVE  /\ t[to[k - 1] + 1] = F!CR /\ t[to[k - 1] + 2] = F!LF
                /\ to[k - 1] + 1 \in 1 .. Len(t) /\ to[k - 1] + 2 \in 1 .. Len(t)
    <2>1. At(t, to[k - 1], <<F!CR, F!LF>>)
      BY <1>8 DEF mark
    <2> QED BY <1>4, <2>1, AtTwo
  <1>11. ASSUME NEW k \in 1 .. n, to[k] < Len(t) PROVE t[to[k] + 1] # F!Quote
    <2>1. k # n
      BY <1>4, <1>9, <1>11
    <2>2. k + 1 \in 2 .. n /\ (k + 1) - 1 = k
      BY <1>2, <2>1
    <2>3. t[to[k] + 1] = F!CR
      BY <1>10, <2>2
    <2> QED BY <2>3 DEF F!Quote, F!CR
  <1>12. PICK d \in [0 .. Len(t) -> States(C)] :
           /\ d[0] = F!Start /\ \A k \in 1 .. Len(t) : d[k] = F!Read(t, d[k - 1], k)
           /\ F!ParseCsv(t) = IF d[Len(t)].quotes = "inside" THEN <<>> ELSE F!EndRow(d[Len(t)]).rows
    BY <1>4, ParseIs
  <1>13. Reading(t, d)
    BY <1>12 DEF Reading
  <1> DEFINE before(k) == SubSeq(lines, 1, k - 1)
             front(k) == SubSeq(lines[k], 1, Len(lines[k]) - 1)
             last(k) == lines[k][Len(lines[k])]
  <1>14. \A k \in 1 .. n : Line(C, lines[k]) /\ lines[k] \in Seq(Seq(C)) /\ Len(lines[k]) >= 1
    BY DEF n, Line
  \* A row is read once its place is reached.
  <1>15. ASSUME NEW k \in 1 .. n, NEW r, d[from[k]] = State(r, <<>>, <<>>, "outside")
         PROVE  d[to[k]] = State(r, front(k), last(k), "outside")
    <2>1. At(t, from[k], F!CsvRow(lines[k])) /\ to[k] = from[k] + Len(F!CsvRow(lines[k]))
      BY <1>1, <1>7
    <2>2. NoQuoteAfter(t, to[k])
      BY <1>11 DEF NoQuoteAfter
    <2>3. {F!Quote, F!Comma} \subseteq C /\ lines[k] \in Seq(Seq(C)) /\ Len(lines[k]) >= 1
      BY <1>14
    <2> DEFINE cells == lines[k]
               o == from[k]
    <2>4. /\ At(t, o, F!CsvRow(cells)) /\ d[o] = State(r, <<>>, <<>>, "outside")
          /\ cells \in Seq(Seq(C)) /\ Len(cells) >= 1 /\ to[k] = o + Len(F!CsvRow(cells))
          /\ NoQuoteAfter(t, o + Len(F!CsvRow(cells)))
      BY <1>15, <2>1, <2>2, <2>3
    <2> HIDE DEF cells, o
    <2>5. d[o + Len(F!CsvRow(cells))] = AtLast(r, cells)
      <3>1. RowToRead(C, t, d, cells, o, r)
        BY <1>4, <1>13, <2>3, <2>4 DEF RowToRead
      <3> QED BY <3>1, RowIsRead
    <2>6. d[to[k]] = AtLast(r, cells)
      BY <2>4, <2>5
    <2> QED BY <2>6 DEF cells, AtLast
  <1> HIDE DEF front, last
  <1> DEFINE K == {k \in 0 .. n : k # 0 => d[to[k]] = State(before(k), front(k), last(k), "outside")}
  <1>16. 0 \in K
    BY <1>2
  <1>17. ASSUME NEW k \in 1 .. n, k - 1 \in K PROVE k \in K
    <2>1. k \in 0 .. n /\ k # 0
      BY <1>2
    <2>2. d[from[k]] = State(before(k), <<>>, <<>>, "outside")
      <3>1. CASE k = 1
        <4>1. before(k) = <<>>
          BY <3>1, WholeSubSeq
        <4> QED BY <1>9, <1>12, <3>1, <4>1 DEF F!Start, State
      <3>2. CASE k # 1
        <4> DEFINE p == to[k - 1]
                   r == before(k - 1)
                   w == front(k - 1)
                   f == last(k - 1)
        <4>1. k \in 2 .. n /\ k - 1 # 0 /\ k - 1 \in 1 .. n
          BY <1>2, <3>2
        <4>2. d[p] = State(r, w, f, "outside")
          BY <1>17, <4>1
        <4>3. /\ t[p + 1] = F!CR /\ t[p + 2] = F!LF /\ from[k] = p + 2 /\ p \in Nat
              /\ p + 1 \in 1 .. Len(t) /\ p + 2 \in 1 .. Len(t)
          BY <1>7, <1>8, <1>10, <4>1
        <4>4. Append(r, lines[k - 1]) = before(k)
          BY <4>1, SubSeqGrows DEF n
        <4>5. F!EndRow(State(r, w, Append(f, F!CR), "outside")) = Ended(r, lines[k - 1], "outside")
          BY <1>14, <4>1, LineEnds DEF front, last
        <4> HIDE DEF p, w, f, r
        <4>6. (p + 1) - 1 = p /\ (p + 2) - 1 = p + 1
          BY <4>3
        <4>7. d[p + 1] = F!Read(t, State(r, w, f, "outside"), p + 1)
          BY <1>13, <4>2, <4>3, <4>6 DEF Reading
        <4>8. d[p + 1] = State(r, w, Append(f, F!CR), "outside")
          <5>1. F!CR \notin {F!Quote, F!Comma, F!LF}
            BY DEF F!Quote, F!Comma, F!CR, F!LF
          <5> QED BY <4>3, <4>7, <5>1, ReadOutside
        <4>9. d[p + 2] = F!Read(t, State(r, w, Append(f, F!CR), "outside"), p + 2)
          BY <1>13, <4>3, <4>6, <4>8 DEF Reading
        <4>10. d[p + 2] = F!EndRow(State(r, w, Append(f, F!CR), "outside"))
          BY <4>3, <4>9, ReadOutside
        <4> QED BY <4>3, <4>4, <4>5, <4>10 DEF Ended
      <3> QED BY <3>1, <3>2
    <2>3. d[to[k]] = State(before(k), front(k), last(k), "outside")
      BY <1>15, <2>2
    <2> QED BY <2>1, <2>3
  <1>18. n \in K
    <2> HIDE DEF K
    <2>1. 0 .. n \subseteq K
      BY <1>2, <1>16, <1>17, Along
    <2> QED BY <1>2, <2>1
  <1>19. d[Len(t)] = State(before(n), front(n), last(n), "outside")
    BY <1>2, <1>9, <1>18
  <1>20. F!EndRow(d[Len(t)]) = State(lines, <<>>, <<>>, "outside")
    <2>1. n \in 1 .. n
      BY <1>2
    <2>2. F!EndRow(d[Len(t)]) = Ended(before(n), lines[n], "outside")
      BY <1>14, <1>19, <2>1, LineEnds DEF front, last
    <2>3. Append(before(n), lines[n]) = SubSeq(lines, 1, n)
      BY <2>1, SubSeqGrows DEF n
    <2>4. SubSeq(lines, 1, n) = lines
      BY WholeSubSeq DEF n
    <2> QED BY <2>2, <2>3, <2>4 DEF Ended
  <1>21. d[Len(t)].quotes # "inside" /\ F!EndRow(d[Len(t)]).rows = lines
    BY <1>19, <1>20 DEF State
  <1>22. F!ParseCsv(t) = lines
    BY <1>12, <1>21
  <1> QED BY <1>22 DEF t

-----------------------------------------------------------------------------
(* A file of orders.                                                       *)

\* The characters of orders, and the names of the columns as one each.
Alphabet == F!Characters \cup {"name", "address", "time"}
\* The header and the orders.
LinesOf(batch) == [i \in 1 .. Len(batch) + 1 |-> IF i = 1 THEN F!Header ELSE batch[i - 1]]

\* White space apart, a cell of one character stays as it is.
LEMMA TrimOfOne ==
  ASSUME NEW x, ~F!IsSpace(x)
  PROVE  F!Trim(<<x>>) = <<x>>
  <1> DEFINE text == <<x>>
             solid == {i \in DOMAIN text : ~F!IsSpace(text[i])}
  <1>1. DOMAIN text = 1 .. 1 /\ text[1] = x /\ text \in Seq({x}) /\ Len(text) = 1
    OBVIOUS
  <1>2. solid = {1}
    <2> HIDE DEF text
    <2>1. \A i \in 1 .. 1 : i = 1
      OBVIOUS
    <2>2. 1 \in 1 .. 1
      OBVIOUS
    <2> QED BY <1>1, <2>1, <2>2
  <1>3. F!Min(solid) = 1 /\ F!Max(solid) = 1
    BY <1>2 DEF F!Min, F!Max
  <1>4. F!Trim(text) = SubSeq(text, 1, 1)
    <2>1. solid # {}
      BY <1>2
    <2> HIDE DEF text
    <2> QED BY <1>3, <2>1 DEF F!Trim
  <1>5. SubSeq(text, 1, 1) = text
    <2> HIDE DEF text
    <2> QED BY <1>1, WholeSubSeq
  <1> QED BY <1>4, <1>5

\* The header has the columns, and reading it finds them.
LEMMA HeaderIsRead ==
  /\ Line(Alphabet, F!Header) /\ F!Trimmed(F!Header) = F!Header
  <1>1. F!Header \in Seq(Seq(Alphabet)) /\ Len(F!Header) = 3
    BY DEF F!Header, Alphabet
  <1>2. F!Header[3] = <<"time">> /\ F!Header[1] = <<"name">> /\ F!Header[2] = <<"address">>
    BY DEF F!Header
  <1>3. F!Plain(<<"time">>)
    BY DEF F!Plain, F!Quote, F!Comma, F!CR, F!LF
  <1>4. Line(Alphabet, F!Header)
    <2>1. 1 \in 1 .. 3 /\ <<"name">> # <<>>
      OBVIOUS
    <2> QED BY <1>1, <1>2, <1>3, <2>1 DEF Line
  <1>5. ~F!IsSpace("name") /\ ~F!IsSpace("address") /\ ~F!IsSpace("time")
    BY DEF F!IsSpace, F!CR, F!LF
  <1>6. F!Trim(<<"name">>) = <<"name">> /\ F!Trim(<<"address">>) = <<"address">> /\ F!Trim(<<"time">>) = <<"time">>
    BY <1>5, TrimOfOne
  <1> DEFINE h == F!Header
  <1>7. DOMAIN h = 1 .. 3 /\ h = [i \in 1 .. 3 |-> h[i]]
    BY <1>1
  <1>8. \A i \in 1 .. 3 : F!Trim(h[i]) = h[i]
    <2>1. \A i \in 1 .. 3 : i = 1 \/ i = 2 \/ i = 3
      OBVIOUS
    <2> HIDE DEF h
    <2>2. F!Trim(h[1]) = h[1] /\ F!Trim(h[2]) = h[2] /\ F!Trim(h[3]) = h[3]
      BY <1>2, <1>6 DEF h
    <2> QED BY <2>1, <2>2
  <1>9. F!Trimmed(h) = h
    <2> HIDE DEF h
    <2>1. F!Trimmed(h) = [i \in 1 .. 3 |-> F!Trim(h[i])]
      BY <1>7 DEF F!Trimmed
    <2>2. [i \in 1 .. 3 |-> F!Trim(h[i])] = [i \in 1 .. 3 |-> h[i]]
      BY <1>8
    <2> QED BY <1>7, <2>1, <2>2
  <1> QED BY <1>4, <1>9

\* An export writes those lines.
LEMMA LinesOfBatch ==
  ASSUME NEW batch, F!BatchOK(batch)
  PROVE  /\ Len(batch) \in Nat /\ DOMAIN batch = 1 .. Len(batch)
         /\ LinesOf(batch) \in Seq(Seq(Seq(Alphabet))) /\ Len(LinesOf(batch)) = Len(batch) + 1
         /\ LinesOf(batch)[1] = F!Header
         /\ \A i \in 1 .. Len(batch) : LinesOf(batch)[i + 1] = batch[i]
         /\ \A i \in 1 .. Len(batch) + 1 : Line(Alphabet, LinesOf(batch)[i])
         /\ F!OrdersToCsv(batch) = Written(LinesOf(batch))
  <1> DEFINE n == Len(batch)
             lines == LinesOf(batch)
  <1>1. /\ batch \in Seq(Seq(Seq(F!Characters)))
        /\ \A i \in DOMAIN batch : /\ Len(batch[i]) = 3 /\ F!Plain(batch[i][3])
                                  /\ \E j \in DOMAIN batch[i] : batch[i][j] # <<>>
    BY DEF F!BatchOK
  <1>2. n \in Nat /\ DOMAIN batch = 1 .. n /\ \A i \in 1 .. n : batch[i] \in Seq(Seq(F!Characters))
    BY <1>1
  <1>3. Seq(Seq(F!Characters)) \subseteq Seq(Seq(Alphabet))
    <2>1. F!Characters \subseteq Alphabet
      BY DEF Alphabet
    <2>2. Seq(F!Characters) \subseteq Seq(Alphabet)
      BY <2>1
    <2> DEFINE A == Seq(F!Characters)
               B1 == Seq(Alphabet)
    <2> HIDE DEF A, B1
    <2>3. A \subseteq B1 => Seq(A) \subseteq Seq(B1)
      OBVIOUS
    <2> QED BY <2>2, <2>3 DEF A, B1
  <1>4. ASSUME NEW i \in 1 .. n PROVE Line(Alphabet, batch[i])
    <2> DEFINE cells == batch[i]
    <2>1. cells \in Seq(Seq(Alphabet)) /\ Len(cells) = 3 /\ F!Plain(cells[3])
      BY <1>1, <1>2, <1>3
    <2>2. \E j \in DOMAIN cells : cells[j] # <<>>
      BY <1>1, <1>2
    <2> HIDE DEF cells
    <2>3. DOMAIN cells = 1 .. Len(cells)
      BY <2>1
    <2>4. Line(Alphabet, cells)
      BY <2>1, <2>2, <2>3 DEF Line
    <2> QED BY <2>4 DEF cells
  <1> HIDE DEF n
  <1>5. lines = [i \in 1 .. n + 1 |-> IF i = 1 THEN F!Header ELSE batch[i - 1]]
    BY DEF LinesOf, n
  <1> HIDE DEF lines
  <1>6. lines[1] = F!Header
    BY <1>2, <1>5
  <1>7. \A i \in 1 .. n : lines[i + 1] = batch[i]
    <2> SUFFICES ASSUME NEW i \in 1 .. n PROVE lines[i + 1] = batch[i]
      OBVIOUS
    <2>1. i + 1 \in 1 .. n + 1 /\ i + 1 # 1 /\ (i + 1) - 1 = i
      BY <1>2
    <2> QED BY <1>5, <2>1
  <1>8. \A i \in 1 .. n + 1 : Line(Alphabet, lines[i])
    <2> SUFFICES ASSUME NEW i \in 1 .. n + 1 PROVE Line(Alphabet, lines[i])
      OBVIOUS
    <2>1. CASE i = 1
      BY <1>6, <2>1, HeaderIsRead
    <2>2. CASE i # 1
      <3>1. i - 1 \in 1 .. n /\ (i - 1) + 1 = i
        BY <1>2, <2>2
      <3> QED BY <1>4, <1>7, <3>1
    <2> QED BY <2>1, <2>2
  <1>9. lines \in Seq(Seq(Seq(Alphabet))) /\ Len(lines) = n + 1
    <2> DEFINE A == Seq(Seq(Alphabet))
               m == n + 1
    <2>1. \A i \in 1 .. m : lines[i] \in A
      BY <1>8 DEF Line
    <2>2. m \in Nat
      BY <1>2
    <2>3. lines = [i \in 1 .. m |-> lines[i]]
      BY <1>5
    <2> HIDE DEF A, m
    <2>4. lines \in Seq(A) /\ Len(lines) = m
      BY <2>1, <2>2, <2>3
    <2> QED BY <2>4 DEF A, m
  <1>10. F!OrdersToCsv(batch) = Written(lines)
    <2>1. [i \in 1 .. n + 1 |-> F!CsvRow(IF i = 1 THEN F!Header ELSE batch[i - 1])] =
            [i \in 1 .. n + 1 |-> F!CsvRow(lines[i])]
      BY <1>5
    <2> QED BY <1>9, <2>1 DEF F!OrdersToCsv, Written, n
  <1> QED BY <1>2, <1>6, <1>7, <1>8, <1>9, <1>10 DEF n, lines

\* What a file of orders gives back.
LEMMA OrdersAreRead ==
  ASSUME NEW batch, F!BatchOK(batch)
  PROVE  F!ParseOrderCsv(F!OrdersToCsv(batch)) = [i \in DOMAIN batch |-> F!Trimmed(batch[i])]
  <1> DEFINE n == Len(batch)
             lines == LinesOf(batch)
             parsed == F!ParseCsv(F!OrdersToCsv(batch))
  <1>1. /\ n \in Nat /\ DOMAIN batch = 1 .. n
        /\ lines \in Seq(Seq(Seq(Alphabet))) /\ Len(lines) = n + 1
        /\ lines[1] = F!Header /\ \A i \in 1 .. n : lines[i + 1] = batch[i]
        /\ \A i \in 1 .. n + 1 : Line(Alphabet, lines[i])
        /\ F!OrdersToCsv(batch) = Written(lines)
    BY LinesOfBatch
  <1> HIDE DEF n, lines
  <1>2. {F!Quote, F!Comma, F!CR, F!LF} \subseteq Alphabet
    BY DEF Alphabet, F!Characters
  <1>3. parsed = lines
    BY <1>1, <1>2, LinesAreRead
  <1> HIDE DEF parsed
  <1>4. F!Trimmed(parsed[1]) = F!Header
    BY <1>1, <1>3, HeaderIsRead
  <1>5. F!ParseOrderCsv(F!OrdersToCsv(batch)) =
          IF Len(parsed) < 2 \/ F!Trimmed(parsed[1]) # F!Header THEN <<>>
          ELSE [i \in 1 .. Len(parsed) - 1 |-> F!Trimmed(parsed[i + 1])]
    BY DEF F!ParseOrderCsv, parsed
  <1>6. CASE n = 0
    <2>1. [i \in DOMAIN batch |-> F!Trimmed(batch[i])] = <<>>
      BY <1>1, <1>6
    <2>2. Len(lines) = 1
      BY <1>1, <1>6
    <2>3. Len(parsed) < 2
      BY <1>3, <2>2
    <2> QED BY <1>5, <2>1, <2>3
  <1>7. CASE n # 0
    <2>1. Len(parsed) - 1 = n /\ ~(Len(parsed) < 2)
      BY <1>1, <1>3, <1>7
    <2>2. [i \in 1 .. n |-> F!Trimmed(parsed[i + 1])] = [i \in DOMAIN batch |-> F!Trimmed(batch[i])]
      BY <1>1, <1>3
    <2> QED BY <1>4, <1>5, <2>1, <2>2
  <1> QED BY <1>6, <1>7

-----------------------------------------------------------------------------
(* What is in the file and in the input.                                   *)

\* The file is what was exported and the input what is parsed from it.
CsvInv ==
  /\ orders \in Batches
  /\ file # <<>> => file = F!OrdersToCsv(orders)
  /\ input.read => input.rows = F!ParseOrderCsv(F!OrdersToCsv(orders))

LEMMA FilesStart == F!Init => CsvInv
  BY DEF F!Init, CsvInv

LEMMA FilesStep == CsvInv /\ [F!Next]_(F!vars) => CsvInv'
  <1> SUFFICES ASSUME CsvInv, [F!Next]_(F!vars) PROVE CsvInv'
    OBVIOUS
  <1>1. CASE F!Export
    BY <1>1 DEF CsvInv, F!Export
  <1>2. CASE F!Import
    BY <1>2 DEF CsvInv, F!Import
  <1>3. CASE UNCHANGED F!vars
    BY <1>3 DEF CsvInv, F!vars
  <1> QED BY <1>1, <1>2, <1>3 DEF F!Next

LEMMA FilesMakeSense == CsvInv => F!CsvRoundTrips
  <1> SUFFICES ASSUME CsvInv, input.read
               PROVE  input.rows = [i \in DOMAIN orders |-> F!Trimmed(orders[i])]
    BY DEF F!CsvRoundTrips
  <1>1. F!BatchOK(orders)
    BY BatchesAssumption DEF CsvInv
  <1> QED BY <1>1, OrdersAreRead DEF CsvInv

\* Whatever orders are exported, the import finds each of their cells again, whatever quotes,
\* commas and line ends are in them, but for white space at the ends.
THEOREM FilesRoundTrip == F!Spec => []CsvRoundTrips
  <1>1. CsvInv => CsvRoundTrips
    BY FilesMakeSense DEF CsvRoundTrips
  <1> QED BY FilesStart, FilesStep, <1>1, PTL DEF F!Spec

-----------------------------------------------------------------------------
(* The desk as a whole, as it is run.                                      *)

\* Each part that is not followed stands still.
LEMMA PartsRun ==
  ASSUME [Next]_vars
  PROVE  /\ [R!Next]_(R!vars) /\ [H!Next]_(H!vars) /\ [L!Next]_(L!vars) /\ [N!Next]_(N!vars)
         /\ part' = part
         /\ part = "plan" => [P!Next]_(P!vars)
         /\ part = "csv" => [F!Next]_(F!vars)
  <1> USE DEF R!vars, H!vars, L!vars, N!vars, P!vars, F!vars,
              planVars, progressVars, sheetVars, listVars, csvVars, boardVars, pushVars
  <1>1. CASE UNCHANGED vars
    BY <1>1 DEF vars
  <1>2. CASE Plans
    BY <1>2 DEF Plans
  <1>3. CASE Progresses
    BY <1>3 DEF Progresses
  <1>4. CASE Sheets
    BY <1>4 DEF Sheets
  <1>5. CASE Lists
    BY <1>5 DEF Lists
  <1>6. CASE Files
    BY <1>6 DEF Files
  <1>7. CASE Dispatches
    BY <1>7 DEF Dispatches
  <1>8. CASE Notifies
    BY <1>8 DEF Notifies
  <1> QED BY <1>1, <1>2, <1>3, <1>4, <1>5, <1>6, <1>7, <1>8 DEF Next

\* The desk implements each of the parts that have a state of their own at any time, the
\* list but for its fairness.
THEOREM DeskRunsItsParts ==
  Spec => R!Spec /\ H!Spec /\ N!Spec /\ L!Init /\ [][L!Next]_(L!vars)
  <1>1. Init => R!Init /\ H!Init /\ L!Init /\ N!Init
    BY DEF Init
  <1>2. [Next]_vars => [R!Next]_(R!vars) /\ [H!Next]_(H!vars) /\ [L!Next]_(L!vars) /\ [N!Next]_(N!vars)
    BY PartsRun
  <1> QED BY <1>1, <1>2, PTL DEF Spec, R!Spec, H!Spec, N!Spec

\* What holds of the parts holds of the desk, whichever of them is followed.
THEOREM DeskIsSafe ==
  Spec => /\ []PlanIsSound /\ []CsvRoundTrips /\ []LateIsListed /\ []SwitchedOnIsStored
          /\ RouteNeverFallsBack /\ ShownPlanAdvances
  <1> DEFINE Followed == (part = "plan" => PlanInvariant) /\ (part = "csv" => CsvInv)
  <1>1. Init => Followed
    BY PlanStarts, FilesStart DEF Init
  <1>2. Followed /\ [Next]_vars => Followed'
    BY PartsRun, PlanStep, FilesStep
  <1>3. Followed => PlanIsSound /\ CsvRoundTrips
    BY PlanMakesSense, FilesMakeSense DEF PlanIsSound, CsvRoundTrips
  <1>4. Spec => []PlanIsSound /\ []CsvRoundTrips
    BY <1>1, <1>2, <1>3, PTL DEF Spec
  <1> QED
    BY <1>4, DeskRunsItsParts, SwitchedOnStaysStored, PlansAreShownInOrder, LateOrdersAreListed,
       RoutesNeverFallBack, PTL
=============================================================================
