--------------------------- MODULE CustomerProofs ---------------------------
(***************************************************************************)
(* Proofs about what the customer gets: the links of TrackingTokens, the   *)
(* feedback of CustomerTracking, and the messages of DeliveryNotification. *)
(***************************************************************************)
EXTENDS CustomerMC, TLAPS

-----------------------------------------------------------------------------
(* Tokens.  A public lookup is written once: the transaction that saves a  *)
(* token refuses a hash that is taken, and the table removes it only when  *)
(* its date is over.  So whatever is dated in the future, the order's own  *)
(* token, an answer of `ensure` or a link, stands behind a lookup of that  *)
(* very order and date.                                                    *)

Stands(token, o, expiresAt) ==
  expiresAt > now => lookup[token] = [order |-> o, expiresAt |-> expiresAt]

CurrentStands ==
  \A o \in Orders : current[o] # None => Stands(current[o].token, o, current[o].expiresAt)

AnswersStand ==
  \A c \in Callers : call[c] # None /\ call[c].stage = "have" =>
    Stands(call[c].token, call[c].order, call[c].expiresAt)

LinksStand == \A l \in links : Stands(l.token, l.order, l.expiresAt)

TokenInvariant == TokenTypeOK /\ CurrentStands /\ AnswersStand /\ LinksStand

LEMMA TokensInitially == TokenInit => TokenInvariant
  BY DEF TokenInit, TokenInvariant, TokenTypeOK, CurrentStands, AnswersStand, LinksStand

LEMMA SaveKeepsLookups ==
  ASSUME TokenInvariant, NEW o \in Orders, NEW row \in TokenRow, Save(o, row), now' = now
  PROVE  /\ current' \in [Orders -> TokenRow \cup {None}]
         /\ lookup' \in [Tokens -> LookupRow \cup {None}]
         /\ CurrentStands'
         /\ lookup'[row.token] = [order |-> o, expiresAt |-> row.expiresAt]
         /\ \A t \in Tokens, p \in Orders, e \in Nat : Stands(t, p, e) => Stands(t, p, e)'
  <1>1. /\ current' = [current EXCEPT ![o] = row]
        /\ lookup' = [lookup EXCEPT ![row.token] = [order |-> o, expiresAt |-> row.expiresAt]]
        /\ lookup[row.token] = None
    BY DEF Save, LookupsAfter
  <1>2. row.token \in Tokens /\ row.expiresAt \in Nat
        /\ [order |-> o, expiresAt |-> row.expiresAt] \in LookupRow
    BY DEF TokenRow, LookupRow
  <1>3. /\ current' \in [Orders -> TokenRow \cup {None}]
        /\ lookup' \in [Tokens -> LookupRow \cup {None}]
    BY <1>1, <1>2 DEF TokenInvariant, TokenTypeOK
  <1>4. lookup'[row.token] = [order |-> o, expiresAt |-> row.expiresAt]
    BY <1>1, <1>2 DEF TokenInvariant, TokenTypeOK
  <1>5. ASSUME NEW t \in Tokens, NEW p \in Orders, NEW e \in Nat, Stands(t, p, e)
        PROVE  Stands(t, p, e)'
    <2>1. [order |-> p, expiresAt |-> e] \in LookupRow
      BY DEF LookupRow
    <2>2. e > now => t # row.token
      BY <1>1, <1>5, <2>1, NoneAssumption DEF Stands
    <2>3. t # row.token => lookup'[t] = lookup[t]
      BY <1>1 DEF TokenInvariant, TokenTypeOK
    <2> QED BY <1>5, <2>2, <2>3 DEF Stands
  <1>6. CurrentStands'
    <2> SUFFICES ASSUME NEW p \in Orders, current'[p] # None
                 PROVE  Stands(current[p].token, p, current[p].expiresAt)'
      BY DEF CurrentStands
    <2>1. CASE p = o
      BY <1>1, <1>4, <2>1 DEF Stands, TokenInvariant, TokenTypeOK
    <2>2. CASE p # o
      <3>1. current'[p] = current[p] /\ current[p] \in TokenRow
        BY <1>1, <2>2 DEF TokenInvariant, TokenTypeOK
      <3>2. Stands(current[p].token, p, current[p].expiresAt)
        BY <3>1 DEF TokenInvariant, CurrentStands
      <3> QED BY <1>5, <3>1, <3>2 DEF TokenRow
    <2> QED BY <2>1, <2>2
  <1> QED BY <1>3, <1>4, <1>5, <1>6

LEMMA CreationKeepsTokens ==
  ASSUME TokenInvariant, NEW o \in Orders, CreateWithToken(o)
  PROVE  TokenInvariant'
  <1>1. PICK t \in Tokens : Save(o, [token |-> t, expiresAt |-> now + Lifetime])
    BY DEF CreateWithToken, Fresh
  <1>2. [token |-> t, expiresAt |-> now + Lifetime] \in TokenRow
    BY LifetimeAssumption DEF TokenRow, TokenInvariant, TokenTypeOK
  <1>3. UNCHANGED <<now, call, links>>
    BY DEF CreateWithToken
  <1>4. TokenTypeOK' /\ CurrentStands'
    BY <1>1, <1>2, <1>3, SaveKeepsLookups DEF TokenInvariant, TokenTypeOK
  <1>5. \A k \in Tokens, p \in Orders, e \in Nat : Stands(k, p, e) => Stands(k, p, e)'
    BY <1>1, <1>2, <1>3, SaveKeepsLookups
  <1>6. LinksStand'
    BY <1>3, <1>5 DEF TokenInvariant, TokenTypeOK, LinksStand, Link
  <1>7. AnswersStand'
    BY <1>3, <1>5 DEF TokenInvariant, TokenTypeOK, AnswersStand, Calls
  <1> QED BY <1>4, <1>6, <1>7 DEF TokenInvariant

LEMMA EnsureReadKeepsTokens ==
  ASSUME TokenInvariant, NEW c \in Callers, NEW o \in Orders, EnsureRead(c, o)
  PROVE  TokenInvariant'
  <1>1. UNCHANGED <<now, current, lookup, links>>
    BY DEF EnsureRead
  <1>2. PICK k \in Calls : /\ call' = [call EXCEPT ![c] = k]
                           /\ k.stage = "have" => Stands(k.token, k.order, k.expiresAt)
    <2>1. CASE Unexpired(o)
      <3>1. current[o] # None /\ current[o] \in TokenRow
        BY <2>1 DEF Unexpired, TokenInvariant, TokenTypeOK
      <3> DEFINE k == [stage |-> "have", order |-> o, token |-> current[o].token,
                       expiresAt |-> current[o].expiresAt]
      <3>2. k \in Calls
        BY <3>1 DEF TokenRow, Calls
      <3>3. call' = [call EXCEPT ![c] = k]
        BY <2>1 DEF EnsureRead
      <3>4. Stands(k.token, k.order, k.expiresAt)
        BY <3>1 DEF TokenInvariant, CurrentStands
      <3> QED BY <3>2, <3>3, <3>4
    <2>2. CASE ~Unexpired(o)
      <3>1. PICK t \in Tokens :
              call' = [call EXCEPT ![c] = [stage |-> "save", order |-> o, token |-> t,
                                           expiresAt |-> now + Lifetime]]
        BY <2>2 DEF EnsureRead, Fresh
      <3>2. now + Lifetime \in Nat
        BY LifetimeAssumption DEF TokenInvariant, TokenTypeOK
      <3> DEFINE k == [stage |-> "save", order |-> o, token |-> t, expiresAt |-> now + Lifetime]
      <3>3. k \in Calls /\ k.stage # "have"
        BY <3>2 DEF Calls
      <3> HIDE DEF k
      <3> QED BY <3>1, <3>3 DEF k
    <2> QED BY <2>1, <2>2
  <1>3. AnswersStand'
    <2> SUFFICES ASSUME NEW d \in Callers, call'[d] # None, call'[d].stage = "have"
                 PROVE  Stands(call[d].token, call[d].order, call[d].expiresAt)'
      BY DEF AnswersStand
    <2>1. CASE d = c
      <3>1. call'[d] = k
        BY <1>2, <2>1 DEF TokenInvariant, TokenTypeOK
      <3> QED BY <1>1, <1>2, <3>1 DEF Stands
    <2>2. CASE d # c
      <3>1. call'[d] = call[d]
        BY <1>2, <2>2 DEF TokenInvariant, TokenTypeOK
      <3> QED BY <1>1, <3>1 DEF Stands, TokenInvariant, AnswersStand
    <2> QED BY <2>1, <2>2
  <1>4. TokenTypeOK'
    BY <1>1, <1>2 DEF TokenInvariant, TokenTypeOK
  <1> QED BY <1>1, <1>3, <1>4 DEF TokenInvariant, CurrentStands, LinksStand, Stands

LEMMA EnsureSaveKeepsTokens ==
  ASSUME TokenInvariant, NEW c \in Callers, EnsureSave(c)
  PROVE  TokenInvariant'
  <1> DEFINE k == call[c]
             row == [token |-> k.token, expiresAt |-> k.expiresAt]
  <1>1. k \in Calls /\ k.stage = "save" /\ Save(k.order, row)
    BY DEF EnsureSave, TokenInvariant, TokenTypeOK
  <1>2. k.order \in Orders /\ row \in TokenRow /\ k.token \in Tokens /\ k.expiresAt \in Nat
    BY <1>1 DEF Calls, TokenRow
  <1>3. UNCHANGED <<now, links>> /\ call' = [call EXCEPT ![c].stage = "have"]
    BY DEF EnsureSave
  <1>4. /\ CurrentStands'
        /\ lookup'[k.token] = [order |-> k.order, expiresAt |-> k.expiresAt]
        /\ \A t \in Tokens, p \in Orders, e \in Nat : Stands(t, p, e) => Stands(t, p, e)'
        /\ current' \in [Orders -> TokenRow \cup {None}]
        /\ lookup' \in [Tokens -> LookupRow \cup {None}]
    <2> HIDE DEF k
    <2> QED BY <1>1, <1>2, <1>3, SaveKeepsLookups
  <1>5. call' \in [Callers -> Calls \cup {None}]
    BY <1>1, <1>3 DEF TokenInvariant, TokenTypeOK, Calls
  <1>6. AnswersStand'
    <2> SUFFICES ASSUME NEW d \in Callers, call'[d] # None, call'[d].stage = "have"
                 PROVE  Stands(call[d].token, call[d].order, call[d].expiresAt)'
      BY DEF AnswersStand
    <2>1. CASE d = c
      <3>1. /\ call'[d].token = k.token /\ call'[d].order = k.order
            /\ call'[d].expiresAt = k.expiresAt
        BY <1>1, <1>3, <2>1 DEF TokenInvariant, TokenTypeOK, Calls
      <3> QED BY <1>4, <3>1 DEF Stands
    <2>2. CASE d # c
      <3>1. call'[d] = call[d] /\ call[d] \in Calls
        BY <1>3, <2>2 DEF TokenInvariant, TokenTypeOK
      <3>2. Stands(call[d].token, call[d].order, call[d].expiresAt)
        BY <3>1 DEF TokenInvariant, AnswersStand
      <3> QED BY <1>4, <3>1, <3>2 DEF Calls
    <2> QED BY <2>1, <2>2
  <1>7. LinksStand'
    BY <1>3, <1>4 DEF TokenInvariant, TokenTypeOK, LinksStand, Link
  <1>8. TokenTypeOK'
    BY <1>3, <1>4, <1>5 DEF TokenInvariant, TokenTypeOK
  <1> QED BY <1>4, <1>6, <1>7, <1>8 DEF TokenInvariant

(* A call that ends, with a link in somebody's hands or without.           *)
LEMMA EndOfCallKeepsTokens ==
  ASSUME TokenInvariant, NEW c \in Callers, call' = [call EXCEPT ![c] = None],
         UNCHANGED <<now, current, lookup>>,
         \/ links' = links
         \/ HandOut(c)
  PROVE  TokenInvariant'
  <1>1. TokenTypeOK'
    BY DEF HandOut, TokenInvariant, TokenTypeOK, Calls, Link
  <1>2. LinksStand'
    BY DEF HandOut, TokenInvariant, LinksStand, AnswersStand, Stands
  <1>3. CurrentStands' /\ AnswersStand'
    BY DEF TokenInvariant, TokenTypeOK, CurrentStands, AnswersStand, Stands
  <1> QED BY <1>1, <1>2, <1>3 DEF TokenInvariant

LEMMA TextLinkKeepsTokens ==
  ASSUME TokenInvariant, NEW o \in Orders, TextLink(o)
  PROVE  TokenInvariant'
  <1>1. TokenTypeOK'
    BY DEF TextLink, Unexpired, TokenInvariant, TokenTypeOK, TokenRow, Link
  <1>2. LinksStand'
    BY DEF TextLink, Unexpired, TokenInvariant, LinksStand, CurrentStands, Stands
  <1>3. CurrentStands' /\ AnswersStand'
    BY DEF TextLink, TokenInvariant, CurrentStands, AnswersStand, Stands
  <1> QED BY <1>1, <1>2, <1>3 DEF TokenInvariant

(* Time passes and the table forgets: a lookup goes after its date only.   *)
LEMMA TimeKeepsTokens ==
  ASSUME TokenInvariant, Tick \/ Reap
  PROVE  TokenInvariant'
  <1>1. TokenTypeOK'
    BY DEF Tick, Reap, TokenInvariant, TokenTypeOK
  <1>2. /\ now' \in Nat /\ now \in Nat /\ now' >= now
        /\ UNCHANGED <<call, links>>
        /\ \A o \in Orders : current'[o] # None => current'[o] = current[o]
    BY DEF Tick, Reap, TokenInvariant, TokenTypeOK
  <1>3. ASSUME NEW t \in Tokens, NEW p \in Orders, NEW e \in Nat, Stands(t, p, e)
        PROVE  Stands(t, p, e)'
    <2> SUFFICES ASSUME e > now' PROVE lookup'[t] = [order |-> p, expiresAt |-> e]
      BY DEF Stands
    <2>1. lookup[t] = [order |-> p, expiresAt |-> e]
      BY <1>2, <1>3 DEF Stands
    <2>2. lookup'[t] = lookup[t]
      BY <1>2, <2>1 DEF Tick, Reap, TokenInvariant, TokenTypeOK
    <2> QED BY <2>1, <2>2
  <1>4. CurrentStands'
    BY <1>2, <1>3 DEF TokenInvariant, TokenTypeOK, CurrentStands, TokenRow
  <1>5. AnswersStand'
    BY <1>2, <1>3 DEF TokenInvariant, TokenTypeOK, AnswersStand, Calls
  <1>6. LinksStand'
    BY <1>2, <1>3 DEF TokenInvariant, TokenTypeOK, LinksStand, Link
  <1> QED BY <1>1, <1>4, <1>5, <1>6 DEF TokenInvariant

LEMMA OthersKeepTokens == TokenInvariant /\ UNCHANGED tokenVars => TokenInvariant'
  BY DEF tokenVars, TokenInvariant, TokenTypeOK, CurrentStands, AnswersStand, LinksStand, Stands

(* What an unexpired link stands behind is what the public routes ask for. *)
LEMMA StandingLinksResolve == TokenInvariant => LinksResolveUntilTheyExpire
  <1> SUFFICES ASSUME TokenInvariant, NEW l \in links, l.expiresAt > now
               PROVE  Resolves(l.token, l.order)
    BY DEF LinksResolveUntilTheyExpire
  <1>1. l.order \in Orders /\ l.expiresAt \in Nat
    BY DEF TokenInvariant, TokenTypeOK, Link
  <1>2. lookup[l.token] = [order |-> l.order, expiresAt |-> l.expiresAt]
    BY DEF TokenInvariant, LinksStand, Stands
  <1>3. lookup[l.token] \in LookupRow
    BY <1>1, <1>2 DEF LookupRow
  <1> QED BY <1>2, <1>3, NoneAssumption DEF Resolves

-----------------------------------------------------------------------------
(* Orders.  Whoever holds a link or asks for a token means an order that   *)
(* is stored, a status change is legal from the status it was read with,   *)
(* and a delivered order stays delivered.                                  *)

Stored(o) == order[o] \in TrackedRow

CallsExist == \A c \in Callers : call[c] # None => Stored(call[c].order)
LinksExist == \A l \in links : Stored(l.order)
ChangesLegal == \A c \in Callers : change[c] # None => CanTransition(change[c].from, change[c].to)

ThankedOnce(row) ==
  /\ row.thanked = IF row.feedback = None THEN 0 ELSE 1
  /\ row.feedback # None => row.status = "DELIVERED"

Thanked == \A o \in Orders : Stored(o) => ThankedOnce(order[o])

OrdersInvariant ==
  TokenInvariant /\ OrdersTypeOK /\ CallsExist /\ LinksExist /\ ChangesLegal /\ Thanked

\* What every step does to the rows.
RowsAdvance ==
  \A o \in Orders : Stored(o) =>
    Stored(o)' /\ (order[o].status = "DELIVERED" => order'[o].status = "DELIVERED")

\* A step that leaves feedback alone, but for new rows, which have none.
FeedbackKept ==
  \A o \in Orders : Stored(o)' =>
    \/ order'[o].feedback = None /\ order'[o].thanked = 0
    \/ /\ Stored(o)
       /\ order'[o].feedback = order[o].feedback /\ order'[o].thanked = order[o].thanked

LEMMA NewRows ==
  /\ New \in TrackedRow /\ New.feedback = None /\ New.thanked = 0
  /\ LET row == [New EXCEPT !.status = "ASSIGNED", !.events = @ \cup {"DRIVER_ASSIGNED"}]
     IN  row \in TrackedRow /\ row.feedback = None /\ row.thanked = 0
  /\ \A s \in Statuses : LET row == [New EXCEPT !.status = s, !.events = {}]
                         IN  row \in TrackedRow /\ row.feedback = None /\ row.thanked = 0
  <1>1. /\ New.feedback = None /\ New.thanked = 0
        /\ New = [status |-> "PENDING", request |-> None, feedback |-> None, thanked |-> 0,
                  proof |-> FALSE, events |-> {"ORDER_CREATED"}]
    BY DEF New
  <1>2. New \in TrackedRow
    BY <1>1 DEF TrackedRow, Statuses, Milestones
  <1>3. LET row == [New EXCEPT !.status = "ASSIGNED", !.events = @ \cup {"DRIVER_ASSIGNED"}]
        IN  row \in TrackedRow /\ row.feedback = None /\ row.thanked = 0
    BY <1>1, <1>2 DEF TrackedRow, Statuses, Milestones
  <1>4. ASSUME NEW s \in Statuses
        PROVE  LET row == [New EXCEPT !.status = s, !.events = {}]
               IN  row \in TrackedRow /\ row.feedback = None /\ row.thanked = 0
    BY <1>1, <1>2 DEF TrackedRow
  <1> QED BY <1>1, <1>2, <1>3, <1>4

LEMMA DeliveredIsFinal == \A next : ~CanTransition("DELIVERED", next)
  BY DEF CanTransition, Transitions

LEMMA OrdersInitially == OrdersInit => OrdersInvariant
  <1> SUFFICES ASSUME OrdersInit PROVE OrdersInvariant
    OBVIOUS
  <1>1. TokenInvariant
    BY TokensInitially DEF OrdersInit
  <1>2. order \in [Orders -> {None} \cup {[New EXCEPT !.status = s, !.events = {}] : s \in Legacy}]
    BY DEF OrdersInit
  <1> DEFINE old(s) == [New EXCEPT !.status = s, !.events = {}]
  <1>a. \A s \in Legacy : old(s) \in TrackedRow /\ old(s).feedback = None /\ old(s).thanked = 0
    BY NewRows, LegacyAssumption
  <1>b. order \in [Orders -> {None} \cup {old(s) : s \in Legacy}]
    BY <1>2
  <1> HIDE DEF old
  <1>c. \A o \in Orders : order[o] = None \/ \E s \in Legacy : order[o] = old(s)
    BY <1>b
  <1>3. order \in [Orders -> TrackedRow \cup {None}]
    BY <1>a, <1>b
  <1>4. change = [c \in Callers |-> None] /\ call = [c \in Callers |-> None] /\ links = {}
    BY DEF OrdersInit, TokenInit
  <1>5. ASSUME NEW o \in Orders, Stored(o) PROVE ThankedOnce(order[o])
    <2>1. CASE order[o] = None
      <3>1. None \in TrackedRow
        BY <1>5, <2>1 DEF Stored
      <3> QED BY <3>1, RowsAssumption
    <2>2. CASE order[o] # None
      <3>1. PICK s \in Legacy : order[o] = old(s)
        BY <1>c, <2>2
      <3> QED BY <3>1, <1>a DEF ThankedOnce
    <2> QED BY <2>1, <2>2
  <1> QED BY <1>1, <1>3, <1>4, <1>5
          DEF OrdersInvariant, OrdersTypeOK, TokenInvariant, CallsExist, LinksExist,
              ChangesLegal, Thanked

(* One row is written, by a step that neither undoes a delivery nor breaks *)
(* the bookkeeping of feedback.                                            *)
LEMMA RowWritten ==
  ASSUME OrdersInvariant, NEW o \in Orders, NEW row \in TrackedRow,
         order' = [order EXCEPT ![o] = row], ThankedOnce(row),
         Stored(o) /\ order[o].status = "DELIVERED" => row.status = "DELIVERED"
  PROVE  order' \in [Orders -> TrackedRow \cup {None}] /\ RowsAdvance /\ Thanked'
  BY DEF OrdersInvariant, OrdersTypeOK, RowsAdvance, Thanked, Stored

LEMMA RowsUntouched ==
  ASSUME OrdersInvariant, order' = order
  PROVE  order' \in [Orders -> TrackedRow \cup {None}] /\ RowsAdvance /\ Thanked' /\ FeedbackKept
  BY DEF OrdersInvariant, OrdersTypeOK, RowsAdvance, Thanked, Stored, FeedbackKept

\* An order that is not None is stored.
LEMMA RowsAreStored ==
  ASSUME OrdersInvariant, NEW o \in Orders
  PROVE  order[o] # None <=> Stored(o)
  BY RowsAssumption DEF OrdersInvariant, OrdersTypeOK, Stored

\* What a step on orders proves about orders, given the tokens.
LEMMA OrdersKept ==
  ASSUME OrdersInvariant, TokenInvariant',
         order' \in [Orders -> TrackedRow \cup {None}], RowsAdvance, Thanked',
         change' = change,
         \A c \in Callers : call'[c] # None =>
           \/ call[c] # None /\ call'[c].order = call[c].order
           \/ Stored(call'[c].order),
         \A l \in links' : l \in links \/ Stored(l.order)
  PROVE  OrdersInvariant'
  <1>1. CallsExist'
    BY DEF OrdersInvariant, CallsExist, RowsAdvance, TokenInvariant, TokenTypeOK, Calls
  <1>2. LinksExist'
    BY DEF OrdersInvariant, LinksExist, RowsAdvance, TokenInvariant, TokenTypeOK, Link
  <1> QED BY <1>1, <1>2 DEF OrdersInvariant, OrdersTypeOK, TokenInvariant, ChangesLegal

LEMMA CreateKeeps ==
  ASSUME OrdersInvariant, NEW o \in Orders, Create(o)
  PROVE  OrdersInvariant' /\ RowsAdvance /\ FeedbackKept
  <1>1. ~Stored(o) /\ TokenInvariant' /\ UNCHANGED <<call, links, change>>
    BY RowsAreStored, CreationKeepsTokens DEF Create, CreateWithToken, OrdersInvariant
  <1>2. PICK row \in TrackedRow : /\ order' = [order EXCEPT ![o] = row]
                                  /\ row.feedback = None /\ row.thanked = 0
    BY NewRows DEF Create
  <1>3. order' \in [Orders -> TrackedRow \cup {None}] /\ RowsAdvance /\ Thanked'
    BY <1>1, <1>2, RowWritten DEF ThankedOnce
  <1>4. FeedbackKept
    BY <1>2 DEF FeedbackKept, Stored, OrdersInvariant, OrdersTypeOK
  <1> QED BY <1>1, <1>3, <1>4, OrdersKept

(* Assignment and the registration of a proof change a stored row that is  *)
(* not delivered.                                                          *)
LEMMA StoredRowChanged ==
  ASSUME OrdersInvariant, NEW o \in Orders, Stored(o), order[o].status # "DELIVERED",
         NEW row \in TrackedRow, order' = [order EXCEPT ![o] = row],
         row.feedback = order[o].feedback, row.thanked = order[o].thanked,
         UNCHANGED tokenVars, UNCHANGED change
  PROVE  OrdersInvariant' /\ RowsAdvance /\ FeedbackKept
  <1>1. ThankedOnce(row)
    BY DEF OrdersInvariant, Thanked, ThankedOnce
  <1>2. order' \in [Orders -> TrackedRow \cup {None}] /\ RowsAdvance /\ Thanked'
    BY <1>1, RowWritten
  <1>3. FeedbackKept
    BY DEF FeedbackKept, Stored, OrdersInvariant, OrdersTypeOK
  <1>4. TokenInvariant'
    BY OthersKeepTokens DEF OrdersInvariant
  <1> QED BY <1>2, <1>3, <1>4, OrdersKept DEF tokenVars

LEMMA AssignKeeps ==
  ASSUME OrdersInvariant, NEW o \in Orders, Assign(o)
  PROVE  OrdersInvariant' /\ RowsAdvance /\ FeedbackKept
  <1>1. Stored(o) /\ order[o].status # "DELIVERED"
    BY RowsAreStored, DeliveredIsFinal DEF Assign
  <1> DEFINE row == [order[o] EXCEPT !.status = "ASSIGNED", !.request = None,
                                     !.events = @ \cup {"DRIVER_ASSIGNED"}]
  <1>2. /\ row \in TrackedRow /\ row.feedback = order[o].feedback
        /\ row.thanked = order[o].thanked
    BY <1>1 DEF Stored, TrackedRow, Milestones, Statuses
  <1>3. order' = [order EXCEPT ![o] = row]
    BY <1>1 DEF Assign, OrdersInvariant, OrdersTypeOK
  <1>4. UNCHANGED tokenVars /\ UNCHANGED change
    BY DEF Assign
  <1> HIDE DEF row
  <1> QED BY <1>1, <1>2, <1>3, <1>4, StoredRowChanged

LEMMA RegisterProofKeeps ==
  ASSUME OrdersInvariant, NEW o \in Orders, RegisterProof(o)
  PROVE  OrdersInvariant' /\ RowsAdvance /\ FeedbackKept
  <1>1. Stored(o) /\ order[o].status # "DELIVERED"
    BY RowsAreStored DEF RegisterProof
  <1> DEFINE row == [order[o] EXCEPT !.proof = TRUE, !.events = @ \cup {"PROOF_UPLOADED"}]
  <1>2. /\ row \in TrackedRow /\ row.feedback = order[o].feedback
        /\ row.thanked = order[o].thanked
    BY <1>1 DEF Stored, TrackedRow, Milestones
  <1>3. order' = [order EXCEPT ![o] = row]
    BY <1>1 DEF RegisterProof, OrdersInvariant, OrdersTypeOK
  <1>4. UNCHANGED tokenVars /\ UNCHANGED change
    BY DEF RegisterProof
  <1> HIDE DEF row
  <1> QED BY <1>1, <1>2, <1>3, <1>4, StoredRowChanged

(* A call begins, for an order that is stored.                             *)
LEMMA CallBegins ==
  ASSUME OrdersInvariant, NEW c \in Callers, NEW o \in Orders, Stored(o), EnsureRead(c, o)
  PROVE  /\ TokenInvariant' /\ UNCHANGED links
         /\ \A d \in Callers : call'[d] # None =>
              (call[d] # None /\ call'[d].order = call[d].order) \/ Stored(call'[d].order)
  <1>1. TokenInvariant'
    BY EnsureReadKeepsTokens DEF OrdersInvariant
  <1>2. \A d \in Callers : d # c => call'[d] = call[d]
    BY DEF EnsureRead, OrdersInvariant, TokenInvariant, TokenTypeOK
  <1>3. call'[c].order = o
    BY DEF EnsureRead, OrdersInvariant, TokenInvariant, TokenTypeOK
  <1> QED BY <1>1, <1>2, <1>3 DEF EnsureRead

LEMMA CopyLinkKeeps ==
  ASSUME OrdersInvariant, NEW c \in Callers, NEW o \in Orders, CopyLink(c, o)
  PROVE  OrdersInvariant' /\ RowsAdvance /\ FeedbackKept
  <1>1. Stored(o)
    BY RowsAreStored DEF CopyLink
  <1> QED BY <1>1, CallBegins, RowsUntouched, OrdersKept DEF CopyLink

LEMMA ReadStatusKeeps ==
  ASSUME OrdersInvariant, NEW c \in Callers, NEW o \in Orders, NEW to, ReadStatus(c, o, to)
  PROVE  OrdersInvariant' /\ RowsAdvance /\ FeedbackKept
  <1>1. Stored(o) /\ order' = order
    BY RowsAreStored DEF ReadStatus
  <1>2. /\ TokenInvariant' /\ links' = links
        /\ \A d \in Callers : call'[d] # None =>
             (call[d] # None /\ call'[d].order = call[d].order) \/ Stored(call'[d].order)
    BY <1>1, CallBegins DEF ReadStatus
  <1>3. /\ order' \in [Orders -> TrackedRow \cup {None}] /\ RowsAdvance /\ Thanked'
        /\ FeedbackKept
    BY <1>1, RowsUntouched
  <1> DEFINE ch == [from |-> order[o].status, to |-> to]
  <1>4. ch \in [from : Statuses, to : UpdatableStatuses] /\ CanTransition(ch.from, ch.to)
    BY <1>1 DEF ReadStatus, Stored, TrackedRow
  <1>5. change' = [change EXCEPT ![c] = ch]
    BY DEF ReadStatus
  <1> HIDE DEF ch
  <1>6. change' \in [Callers -> [from : Statuses, to : UpdatableStatuses] \cup {None}]
        /\ ChangesLegal'
    BY <1>4, <1>5 DEF OrdersInvariant, OrdersTypeOK, ChangesLegal
  <1>7. CallsExist'
    BY <1>2, <1>3 DEF OrdersInvariant, CallsExist, RowsAdvance, TokenInvariant, TokenTypeOK, Calls
  <1>8. LinksExist'
    BY <1>1, <1>2 DEF OrdersInvariant, LinksExist, Stored
  <1> QED BY <1>2, <1>3, <1>6, <1>7, <1>8 DEF OrdersInvariant, OrdersTypeOK, TokenInvariant

(* The transaction applies when the status is the one the change was       *)
(* judged against, and a delivered order admits no change.                 *)
LEMMA CommitStatusKeeps ==
  ASSUME OrdersInvariant, NEW c \in Callers, CommitStatus(c)
  PROVE  OrdersInvariant' /\ RowsAdvance /\ FeedbackKept
  <1> DEFINE o == call[c].order
  <1>1. o \in Orders /\ Stored(o)
    BY DEF CommitStatus, OrdersInvariant, CallsExist, TokenInvariant, TokenTypeOK, Calls
  <1>2. /\ change[c].to \in Statuses /\ CanTransition(change[c].from, change[c].to)
    BY DEF CommitStatus, OrdersInvariant, OrdersTypeOK, ChangesLegal, UpdatableStatuses
  <1>3. TokenInvariant'
    BY EndOfCallKeepsTokens DEF CommitStatus, OrdersInvariant
  <1>4. /\ order' \in [Orders -> TrackedRow \cup {None}] /\ RowsAdvance /\ Thanked'
        /\ FeedbackKept
    <2>1. CASE order[o].status # change[c].from
      BY <2>1, RowsUntouched DEF CommitStatus
    <2>2. CASE order[o].status = change[c].from
      <3> DEFINE row == [order[o] EXCEPT !.status = change[c].to,
                                         !.events = @ \cup StatusEvent(change[c].to)]
      <3>1. StatusEvent(change[c].to) \subseteq Milestones
        BY DEF StatusEvent, Milestones
      <3>2. /\ row \in TrackedRow /\ row.feedback = order[o].feedback
            /\ row.thanked = order[o].thanked
        BY <1>1, <1>2, <3>1 DEF Stored, TrackedRow
      <3>3. order[o].status # "DELIVERED"
        BY <1>2, <2>2, DeliveredIsFinal
      <3>4. ThankedOnce(row)
        BY <1>1, <3>2, <3>3 DEF OrdersInvariant, Thanked, ThankedOnce
      <3>5. order' = [order EXCEPT ![o] = row]
        BY <2>2, <1>1 DEF CommitStatus, OrdersInvariant, OrdersTypeOK
      <3> HIDE DEF row, o
      <3>6. order' \in [Orders -> TrackedRow \cup {None}] /\ RowsAdvance /\ Thanked'
        BY <1>1, <3>2, <3>3, <3>4, <3>5, RowWritten
      <3>7. FeedbackKept
        BY <1>1, <3>2, <3>5 DEF FeedbackKept, Stored, OrdersInvariant, OrdersTypeOK
      <3> QED BY <3>6, <3>7
    <2> QED BY <2>1, <2>2
  <1>5. /\ change' \in [Callers -> [from : Statuses, to : UpdatableStatuses] \cup {None}]
        /\ ChangesLegal'
    BY DEF CommitStatus, OrdersInvariant, OrdersTypeOK, ChangesLegal
  <1>6. CallsExist' /\ LinksExist'
    BY <1>4 DEF CommitStatus, OrdersInvariant, CallsExist, LinksExist, RowsAdvance,
                TokenInvariant, TokenTypeOK, Calls, Link
  <1> QED BY <1>3, <1>4, <1>5, <1>6 DEF OrdersInvariant, OrdersTypeOK, TokenInvariant

LEMMA GiveLinkKeeps ==
  ASSUME OrdersInvariant, NEW c \in Callers, GiveLink(c)
  PROVE  OrdersInvariant' /\ RowsAdvance /\ FeedbackKept
  <1>1. TokenInvariant'
    BY EndOfCallKeepsTokens DEF GiveLink, HandOut, OrdersInvariant
  <1>2. \A l \in links' : l \in links \/ Stored(l.order)
    BY DEF GiveLink, HandOut, OrdersInvariant, CallsExist
  <1>3. \A d \in Callers : call'[d] # None => call'[d] = call[d]
    BY DEF GiveLink, HandOut, OrdersInvariant, TokenInvariant, TokenTypeOK
  <1> QED BY <1>1, <1>2, <1>3, RowsUntouched, OrdersKept DEF GiveLink

LEMMA SaveTokenKeeps ==
  ASSUME OrdersInvariant, NEW c \in Callers, SaveToken(c)
  PROVE  OrdersInvariant' /\ RowsAdvance /\ FeedbackKept
  <1>1. TokenInvariant'
    BY EnsureSaveKeepsTokens DEF SaveToken, OrdersInvariant
  <1>2. \A d \in Callers : call'[d] # None => call[d] # None /\ call'[d].order = call[d].order
    BY DEF SaveToken, EnsureSave, OrdersInvariant, TokenInvariant, TokenTypeOK, Calls
  <1> QED BY <1>1, <1>2, RowsUntouched, OrdersKept DEF SaveToken, EnsureSave

LEMMA FailTokenKeeps ==
  ASSUME OrdersInvariant, NEW c \in Callers, FailToken(c)
  PROVE  OrdersInvariant' /\ RowsAdvance /\ FeedbackKept
  <1>1. TokenInvariant'
    BY EndOfCallKeepsTokens DEF FailToken, EnsureFails, OrdersInvariant
  <1>2. /\ order' \in [Orders -> TrackedRow \cup {None}] /\ RowsAdvance /\ Thanked'
        /\ FeedbackKept
    BY RowsUntouched DEF FailToken
  <1>3. /\ change' \in [Callers -> [from : Statuses, to : UpdatableStatuses] \cup {None}]
        /\ ChangesLegal'
    BY DEF FailToken, OrdersInvariant, OrdersTypeOK, ChangesLegal
  <1>4. CallsExist' /\ LinksExist'
    BY DEF FailToken, EnsureFails, OrdersInvariant, CallsExist, LinksExist, Stored,
           TokenInvariant, TokenTypeOK
  <1> QED BY <1>1, <1>2, <1>3, <1>4 DEF OrdersInvariant, OrdersTypeOK, TokenInvariant

LEMMA ClockKeeps ==
  ASSUME OrdersInvariant, Clock
  PROVE  OrdersInvariant' /\ RowsAdvance /\ FeedbackKept
  <1>1. TokenInvariant' /\ UNCHANGED <<call, links>>
    BY TimeKeepsTokens DEF Clock, Tick, Reap, OrdersInvariant
  <1> QED BY <1>1, RowsUntouched, OrdersKept DEF Clock

LEMMA OrderStepKeeps ==
  ASSUME OrdersInvariant, OrderStep
  PROVE  OrdersInvariant' /\ RowsAdvance /\ FeedbackKept
  BY CreateKeeps, AssignKeeps, RegisterProofKeeps, CopyLinkKeeps, ReadStatusKeeps,
     CommitStatusKeeps, GiveLinkKeeps, SaveTokenKeeps, FailTokenKeeps, ClockKeeps
  DEF OrderStep

-----------------------------------------------------------------------------
(* Pages.  A page that asks or submits was opened with a link, so its      *)
(* order is stored; feedback on its way into the transaction is about an   *)
(* order that was seen delivered, and delivered orders stay so.            *)

OpenWithLink(p) == tab[p].token # None

TabsOpen ==
  \A p \in Tabs :
    /\ OpenWithLink(p) => tab[p].order \in Orders /\ Stored(tab[p].order)
    /\ load[p] # {} => OpenWithLink(p)
    /\ tab[p].view # None => OpenWithLink(p)
    /\ \A f \in Forms : post[p][f] # None => OpenWithLink(p) /\ tab[p].view \in View

FeedbackReady ==
  \A p \in Tabs :
    post[p]["feedback"] # None /\ post[p]["feedback"].stage = "commit" =>
      order[tab[p].order].status = "DELIVERED"

PageInvariant == OrdersInvariant /\ TypeOK /\ TabsOpen /\ FeedbackReady

LEMMA PagesInitially == Init => PageInvariant
  <1> SUFFICES ASSUME Init PROVE PageInvariant
    OBVIOUS
  <1>1. OrdersInvariant
    BY OrdersInitially DEF Init
  <1>2. /\ tab = [p \in Tabs |-> [token |-> None, order |-> None, view |-> None]]
        /\ load = [p \in Tabs |-> {}]
        /\ post = [p \in Tabs |-> [f \in Forms |-> None]]
    BY DEF Init, PagesInit
  <1>3. TypeOK
    BY <1>1, <1>2 DEF TypeOK, OrdersInvariant
  <1>4. TabsOpen
    BY <1>2 DEF TabsOpen, OpenWithLink
  <1>5. FeedbackReady
    BY <1>2 DEF FeedbackReady, Forms
  <1> QED BY <1>1, <1>3, <1>4, <1>5 DEF PageInvariant

(* The orders move and no page does.                                       *)
LEMMA PagesRest ==
  ASSUME PageInvariant, OrdersInvariant', RowsAdvance, UNCHANGED pageVars
  PROVE  PageInvariant'
  <1>1. tab' = tab /\ load' = load /\ post' = post
    BY DEF pageVars
  <1>2. TypeOK'
    BY <1>1 DEF PageInvariant, TypeOK, OrdersInvariant
  <1>3. TabsOpen'
    BY <1>1 DEF PageInvariant, TabsOpen, OpenWithLink, RowsAdvance
  <1>4. FeedbackReady'
    BY <1>1 DEF PageInvariant, TabsOpen, FeedbackReady, RowsAdvance, Forms
  <1> QED BY <1>2, <1>3, <1>4 DEF PageInvariant

LEMMA TextKeeps ==
  ASSUME PageInvariant, NEW o \in Orders, Text(o)
  PROVE  PageInvariant'
  <1>1. TokenInvariant' /\ UNCHANGED call
    BY TextLinkKeepsTokens DEF Text, TextLink, PageInvariant, OrdersInvariant
  <1>2. \A l \in links' : l \in links \/ Stored(l.order)
    BY RowsAreStored DEF Text, TextLink, PageInvariant
  <1>3. OrdersInvariant' /\ RowsAdvance
    BY <1>1, <1>2, RowsUntouched, OrdersKept DEF Text, PageInvariant
  <1> QED BY <1>3, PagesRest DEF Text

(* A page moves and no order does.                                         *)
LEMMA OrdersRest ==
  ASSUME OrdersInvariant, UNCHANGED tokenVars, UNCHANGED order, UNCHANGED change
  PROVE  OrdersInvariant'
  <1>1. TokenInvariant'
    BY OthersKeepTokens DEF OrdersInvariant
  <1> QED BY <1>1, RowsUntouched, OrdersKept DEF tokenVars

(* Only the requests of one page change.                                   *)
LEMMA RequestsChange ==
  ASSUME PageInvariant, NEW p \in Tabs, OpenWithLink(p), NEW requests \in SUBSET Request,
         load' = [load EXCEPT ![p] = requests],
         UNCHANGED tokenVars, UNCHANGED order, UNCHANGED change, UNCHANGED tab, UNCHANGED post
  PROVE  PageInvariant'
  <1>1. OrdersInvariant'
    BY OrdersRest DEF PageInvariant
  <1>2. TypeOK'
    BY <1>1 DEF PageInvariant, TypeOK, OrdersInvariant
  <1>3. TabsOpen'
    BY DEF PageInvariant, TypeOK, TabsOpen, OpenWithLink, Stored
  <1>4. FeedbackReady'
    BY DEF PageInvariant, FeedbackReady
  <1> QED BY <1>1, <1>2, <1>3, <1>4 DEF PageInvariant

LEMMA OpenKeeps ==
  ASSUME PageInvariant, NEW p \in Tabs, Open(p)
  PROVE  PageInvariant'
  <1>1. OrdersInvariant'
    BY OrdersRest DEF Open, PageInvariant
  <1>2. PICK l \in links : tab' = [tab EXCEPT ![p].token = l.token, ![p].order = l.order]
    BY DEF Open
  <1>3. l.token \in Tokens /\ l.order \in Orders /\ Stored(l.order) /\ l.token # None
    BY NoneAssumption DEF PageInvariant, OrdersInvariant, LinksExist, TokenInvariant,
                          TokenTypeOK, Link
  <1>4. /\ tab' \in [Tabs -> [token : Tokens \cup {None}, order : Orders \cup {None},
                             view : View \cup {None}]]
        /\ \A q \in Tabs : q # p => tab'[q] = tab[q]
        /\ tab'[p].token = l.token /\ tab'[p].order = l.order
    <2> DEFINE opened == [tab[p] EXCEPT !.token = l.token, !.order = l.order]
    <2>1. tab \in [Tabs -> [token : Tokens \cup {None}, order : Orders \cup {None},
                           view : View \cup {None}]]
      BY DEF PageInvariant, TypeOK
    <2>2. /\ opened \in [token : Tokens \cup {None}, order : Orders \cup {None},
                         view : View \cup {None}]
          /\ opened.token = l.token /\ opened.order = l.order
      BY <1>3, <2>1
    <2>3. tab' = [tab EXCEPT ![p] = opened]
      BY <1>2, <2>1
    <2> HIDE DEF opened
    <2> QED BY <2>1, <2>2, <2>3
  <1>5. load' = [load EXCEPT ![p] = {[stage |-> "sent"]}] /\ post' = post /\ order' = order
    BY DEF Open
  <1>6. [stage |-> "sent"] \in Request
    BY DEF Request
  <1>7. TypeOK'
    BY <1>1, <1>4, <1>5, <1>6 DEF PageInvariant, TypeOK, OrdersInvariant
  <1>8. \A f \in Forms : post[p][f] = None
    BY DEF Open, PageInvariant, TabsOpen, OpenWithLink
  <1>9. TabsOpen'
    BY <1>3, <1>4, <1>5, <1>8 DEF PageInvariant, TypeOK, TabsOpen, OpenWithLink, Stored
  <1>10. FeedbackReady'
    BY <1>4, <1>5, <1>8 DEF PageInvariant, FeedbackReady, Forms
  <1> QED BY <1>1, <1>7, <1>9, <1>10 DEF PageInvariant

LEMMA PollKeeps ==
  ASSUME PageInvariant, NEW p \in Tabs, Poll(p)
  PROVE  PageInvariant'
  <1>1. OpenWithLink(p)
    BY DEF Poll, MayPoll, OpenWithLink
  <1>2. load[p] \cup {[stage |-> "sent"]} \in SUBSET Request
    BY DEF PageInvariant, TypeOK, Request
  <1>3. load' = [load EXCEPT ![p] = load[p] \cup {[stage |-> "sent"]}]
    BY DEF Poll
  <1> QED BY <1>1, <1>2, <1>3, RequestsChange DEF Poll

LEMMA ReadOrderKeeps ==
  ASSUME PageInvariant, NEW p \in Tabs, ReadOrder(p)
  PROVE  PageInvariant'
  <1> DEFINE o == tab[p].order
             view == [status |-> order[o].status, request |-> order[o].request,
                      feedback |-> None, proof |-> FALSE, timeline |-> {}]
             read == [stage |-> "order", view |-> view]
             requests == (load[p] \ {[stage |-> "sent"]}) \cup {read}
  <1>1. OpenWithLink(p) /\ o \in Orders /\ Stored(o)
    BY DEF ReadOrder, PageInvariant, TabsOpen
  <1>2. order[o].status \in Statuses /\ order[o].request \in Windows \cup {None}
    BY <1>1 DEF Stored, TrackedRow
  <1>3. view \in View
    BY <1>2 DEF View
  <1>4. requests \in SUBSET Request
    <2> HIDE DEF view
    <2> QED BY <1>3 DEF PageInvariant, TypeOK, Request
  <1>5. load' = [load EXCEPT ![p] = requests]
    BY DEF ReadOrder
  <1> HIDE DEF requests
  <1> QED BY <1>1, <1>4, <1>5, RequestsChange DEF ReadOrder

LEMMA PayloadIsAView ==
  ASSUME NEW view \in View, NEW row \in TrackedRow
  PROVE  Payload(view, row) \in View
  <1>1. Timeline(view, row.events) \in SUBSET Milestones
    BY DEF Timeline, TrackedRow, Milestones
  <1>2. row.feedback \in Ratings \cup {None} /\ row.proof \in BOOLEAN
    BY DEF TrackedRow
  <1> QED BY <1>1, <1>2 DEF Payload, View

LEMMA ReadRestKeeps ==
  ASSUME PageInvariant, NEW p \in Tabs, ReadRest(p)
  PROVE  PageInvariant'
  <1>1. PICK l \in load[p] : /\ l.stage = "order"
                             /\ load' = [load EXCEPT ![p] = (@ \ {l}) \cup
                                  {[stage |-> "answer",
                                    view |-> Payload(l.view, order[tab[p].order])]}]
    BY DEF ReadRest
  <1>2. OpenWithLink(p) /\ order[tab[p].order] \in TrackedRow
    BY DEF PageInvariant, TabsOpen, Stored
  <1>3. l.view \in View
    BY <1>1 DEF PageInvariant, TypeOK, Request
  <1> DEFINE answer == Payload(l.view, order[tab[p].order])
             requests == (load[p] \ {l}) \cup {[stage |-> "answer", view |-> answer]}
  <1>4. answer \in View
    BY <1>2, <1>3, PayloadIsAView
  <1>5. load' = [load EXCEPT ![p] = requests]
    BY <1>1
  <1>6. requests \in SUBSET Request
    <2> HIDE DEF answer
    <2> QED BY <1>4 DEF PageInvariant, TypeOK, Request
  <1> HIDE DEF requests
  <1> QED BY <1>2, <1>5, <1>6, RequestsChange DEF ReadRest

LEMMA LoadFailsKeeps ==
  ASSUME PageInvariant, NEW p \in Tabs, LoadFails(p)
  PROVE  PageInvariant'
  <1>1. PICK l \in load[p] : load' = [load EXCEPT ![p] = load[p] \ {l}]
    BY DEF LoadFails
  <1>2. OpenWithLink(p) /\ load[p] \ {l} \in SUBSET Request
    BY DEF PageInvariant, TabsOpen, TypeOK
  <1> QED BY <1>1, <1>2, RequestsChange DEF LoadFails

(* What one page shows changes.                                            *)
LEMMA ViewChanges ==
  ASSUME PageInvariant, NEW p \in Tabs, OpenWithLink(p), NEW shown \in View,
         tab' = [tab EXCEPT ![p].view = shown], OrdersInvariant', RowsAdvance,
         load' \in [Tabs -> SUBSET Request],
         \A q \in Tabs : load'[q] # {} => load[q] # {},
         DOMAIN post' = Tabs,
         \A q \in Tabs : /\ DOMAIN post'[q] = Forms
                         /\ \A f \in Forms : \/ post'[q][f] = None
                                             \/ post'[q][f] = post[q][f]
  PROVE  PageInvariant'
  <1> DEFINE Pages == [token : Tokens \cup {None}, order : Orders \cup {None},
                       view : View \cup {None}]
             row == [tab[p] EXCEPT !.view = shown]
  <1>1. tab \in [Tabs -> Pages]
    BY DEF PageInvariant, TypeOK
  <1>2. row \in Pages /\ row.view = shown /\ row.token = tab[p].token /\ row.order = tab[p].order
    BY <1>1
  <1>3. tab' = [tab EXCEPT ![p] = row]
    BY <1>1
  <1> HIDE DEF row
  <1>4. /\ tab' \in [Tabs -> Pages]
        /\ \A q \in Tabs : /\ tab'[q].token = tab[q].token
                           /\ tab'[q].order = tab[q].order
                           /\ tab'[q].view = tab[q].view \/ tab'[q].view \in View
    <2> HIDE DEF Pages
    <2>1. tab' \in [Tabs -> Pages] /\ \A q \in Tabs : tab'[q] = IF q = p THEN row ELSE tab[q]
      BY <1>1, <1>2, <1>3
    <2> QED BY <1>2, <2>1
  <1>5. TypeOK'
    BY <1>4 DEF PageInvariant, TypeOK, OrdersInvariant
  <1>6. TabsOpen'
    BY <1>4 DEF PageInvariant, TabsOpen, OpenWithLink, RowsAdvance
  <1>7. FeedbackReady'
    BY <1>4 DEF PageInvariant, TabsOpen, FeedbackReady, OpenWithLink, RowsAdvance, Forms
  <1> QED BY <1>5, <1>6, <1>7 DEF PageInvariant

LEMMA ShowKeeps ==
  ASSUME PageInvariant, NEW p \in Tabs, Show(p)
  PROVE  PageInvariant'
  <1>1. PICK l \in load[p] : /\ l.stage = "answer"
                             /\ tab' = [tab EXCEPT ![p].view = l.view]
                             /\ load' = [load EXCEPT ![p] = load[p] \ {l}]
    BY DEF Show
  <1>2. OpenWithLink(p) /\ l.view \in View
    BY <1>1 DEF PageInvariant, TabsOpen, TypeOK, Request
  <1>3. OrdersInvariant' /\ RowsAdvance
    BY OrdersRest, RowsUntouched DEF Show, PageInvariant
  <1>4. /\ load' \in [Tabs -> SUBSET Request]
        /\ \A q \in Tabs : load'[q] # {} => load[q] # {}
    BY <1>1 DEF PageInvariant, TypeOK
  <1>5. post' = post /\ DOMAIN post = Tabs /\ \A q \in Tabs : DOMAIN post[q] = Forms
    BY DEF Show, PageInvariant, TypeOK
  <1> QED BY <1>1, <1>2, <1>3, <1>4, <1>5, ViewChanges

(* One submission of one page changes.                                     *)
LEMMA SubmissionChanges ==
  ASSUME PageInvariant, NEW p \in Tabs, NEW form \in Forms, OpenWithLink(p),
         tab[p].view \in View,
         NEW next, next \in Submission(form) \cup {None},
         form = "feedback" /\ next # None /\ next.stage = "commit" =>
           order'[tab[p].order].status = "DELIVERED",
         post' = [post EXCEPT ![p][form] = next],
         OrdersInvariant', RowsAdvance, UNCHANGED tab, UNCHANGED load
  PROVE  PageInvariant'
  <1>1. /\ DOMAIN post' = Tabs /\ \A q \in Tabs : DOMAIN post'[q] = Forms
        /\ \A q \in Tabs, f \in Forms :
             IF q = p /\ f = form THEN post'[q][f] = next ELSE post'[q][f] = post[q][f]
    BY DEF PageInvariant, TypeOK
  <1>2. TypeOK'
    BY <1>1 DEF PageInvariant, TypeOK, OrdersInvariant
  <1>3. TabsOpen'
    BY <1>1 DEF PageInvariant, TabsOpen, OpenWithLink, RowsAdvance
  <1>4. FeedbackReady'
    BY <1>1 DEF PageInvariant, TabsOpen, FeedbackReady, RowsAdvance, OpenWithLink, Forms
  <1> QED BY <1>2, <1>3, <1>4 DEF PageInvariant

LEMMA PressKeeps ==
  ASSUME PageInvariant, NEW p \in Tabs, NEW form \in Forms, Press(p, form)
  PROVE  PageInvariant'
  <1>1. PICK v \in IF form = "feedback" THEN Ratings ELSE Windows :
          post' = [post EXCEPT ![p][form] = [stage |-> "sent", value |-> v]]
    BY DEF Press
  <1> DEFINE next == [stage |-> "sent", value |-> v]
  <1>2. next \in Submission(form) /\ next.stage # "commit"
    BY DEF Submission
  <1>3. tab[p].view \in View /\ OpenWithLink(p)
    BY DEF Press, PageInvariant, TypeOK, TabsOpen
  <1>4. OrdersInvariant' /\ RowsAdvance
    BY OrdersRest, RowsUntouched DEF Press, PageInvariant
  <1>5. post' = [post EXCEPT ![p][form] = next] /\ UNCHANGED tab /\ UNCHANGED load
    BY <1>1 DEF Press
  <1> HIDE DEF next
  <1> QED BY <1>2, <1>3, <1>4, <1>5, SubmissionChanges

LEMMA ReadPostKeeps ==
  ASSUME PageInvariant, NEW p \in Tabs, NEW form \in Forms, ReadPost(p, form)
  PROVE  PageInvariant'
  <1> DEFINE next == IF Admits(p, form) THEN [post[p][form] EXCEPT !.stage = "commit"] ELSE None
  <1>1. /\ post[p][form] \in Submission(form)
        /\ tab[p].view \in View /\ OpenWithLink(p)
    BY DEF ReadPost, PageInvariant, TypeOK, TabsOpen
  <1>2. OrdersInvariant' /\ RowsAdvance
    BY OrdersRest, RowsUntouched DEF ReadPost, PageInvariant
  <1>3. next \in Submission(form) \cup {None}
    BY <1>1 DEF Submission
  <1>4. form = "feedback" /\ next # None => order'[tab[p].order].status = "DELIVERED"
    BY DEF Admits, ReadPost
  <1>5. post' = [post EXCEPT ![p][form] = next] /\ UNCHANGED tab /\ UNCHANGED load
    <2>1. [post EXCEPT ![p][form].stage = "commit"]
            = [post EXCEPT ![p][form] = [post[p][form] EXCEPT !.stage = "commit"]]
      BY DEF PageInvariant, TypeOK
    <2> QED BY <2>1 DEF ReadPost
  <1> HIDE DEF next
  <1> QED BY <1>1, <1>2, <1>3, <1>4, <1>5, SubmissionChanges

(* The transaction.  Feedback is stored where none was, so it is counted   *)
(* once, and its order is delivered, since it was when its status was read.*)
LEMMA CommitPostKeeps ==
  ASSUME PageInvariant, NEW p \in Tabs, NEW form \in Forms, CommitPost(p, form)
  PROVE  PageInvariant'
  <1> DEFINE o == tab[p].order
             v == post[p][form].value
  <1>1. /\ post[p][form] \in Submission(form) /\ post[p][form] # None
        /\ post[p][form].stage = "commit"
        /\ tab[p].view \in View /\ OpenWithLink(p)
        /\ o \in Orders /\ Stored(o)
    BY DEF CommitPost, PageInvariant, TypeOK, TabsOpen
  <1>2. OrdersInvariant' /\ RowsAdvance
    <2>1. CASE Accepts(order[o], form)
      <3> DEFINE row == IF form = "feedback"
                        THEN [order[o] EXCEPT !.feedback = v, !.thanked = @ + 1]
                        ELSE [order[o] EXCEPT !.request = v]
      <3>1. /\ row \in TrackedRow /\ row.status = order[o].status
            /\ ThankedOnce(row)
        <4>1. ThankedOnce(order[o]) /\ order[o] \in TrackedRow
          BY <1>1 DEF PageInvariant, OrdersInvariant, Thanked, Stored
        <4>2. CASE form = "feedback"
          <5>1. /\ v \in Ratings /\ v # None
                /\ order[o].feedback = None /\ order[o].status = "DELIVERED"
            BY <1>1, <2>1, <4>2, RowsAssumption
               DEF Submission, Accepts, PageInvariant, FeedbackReady
          <5>2. order[o].thanked = 0
            BY <4>1, <5>1 DEF ThankedOnce
          <5> HIDE DEF v
          <5>3. row = [order[o] EXCEPT !.feedback = v, !.thanked = 1]
            BY <4>2, <5>2
          <5> HIDE DEF row, o
          <5>4. /\ row \in TrackedRow /\ row.feedback = v /\ row.thanked = 1
                /\ row.status = order[o].status
            BY <4>1, <5>1, <5>3 DEF TrackedRow
          <5> QED BY <5>1, <5>4 DEF ThankedOnce
        <4>3. CASE form # "feedback"
          <5>1. v \in Windows
            BY <1>1, <4>3 DEF Submission
          <5>2. row \in TrackedRow /\ row.status = order[o].status
                /\ row.feedback = order[o].feedback /\ row.thanked = order[o].thanked
            BY <4>1, <4>3, <5>1 DEF TrackedRow
          <5> QED BY <4>1, <5>2 DEF ThankedOnce
        <4> QED BY <4>2, <4>3
      <3>2. order' = [order EXCEPT ![o] = row]
        BY <1>1, <2>1 DEF CommitPost, PageInvariant, OrdersInvariant, OrdersTypeOK, Stored,
                          TrackedRow
      <3> HIDE DEF row, o
      <3>3. order' \in [Orders -> TrackedRow \cup {None}] /\ RowsAdvance /\ Thanked'
        BY <1>1, <3>1, <3>2, RowWritten DEF PageInvariant
      <3>4. TokenInvariant' /\ UNCHANGED <<call, links, change>>
        BY OthersKeepTokens DEF CommitPost, PageInvariant, OrdersInvariant, tokenVars
      <3> QED BY <3>3, <3>4, OrdersKept DEF PageInvariant
    <2>2. CASE ~Accepts(order[o], form)
      BY <2>2, OrdersRest, RowsUntouched DEF CommitPost, PageInvariant
    <2> QED BY <2>1, <2>2
  <1> DEFINE next == IF Accepts(order[o], form) THEN [post[p][form] EXCEPT !.stage = "done"]
                                                ELSE None
  <1>3. next \in Submission(form) \cup {None} /\ (next # None => next.stage # "commit")
    BY <1>1 DEF Submission
  <1>4. post' = [post EXCEPT ![p][form] = next] /\ UNCHANGED tab /\ UNCHANGED load
    <2>1. [post EXCEPT ![p][form].stage = "done"]
            = [post EXCEPT ![p][form] = [post[p][form] EXCEPT !.stage = "done"]]
      BY DEF PageInvariant, TypeOK
    <2> QED BY <2>1 DEF CommitPost
  <1> HIDE DEF next
  <1> QED BY <1>1, <1>2, <1>3, <1>4, SubmissionChanges

LEMMA AnswerPostKeeps ==
  ASSUME PageInvariant, NEW p \in Tabs, NEW form \in Forms, AnswerPost(p, form)
  PROVE  PageInvariant'
  <1>1. /\ post[p][form] \in Submission(form)
        /\ tab[p].view \in View /\ OpenWithLink(p)
    BY DEF AnswerPost, PageInvariant, TypeOK, TabsOpen
  <1>2. OrdersInvariant' /\ RowsAdvance
    BY OrdersRest, RowsUntouched DEF AnswerPost, PageInvariant
  <1>3. post' = [post EXCEPT ![p][form] = None] /\ UNCHANGED load
    BY DEF AnswerPost
  <1>4. CASE UNCHANGED tab
    BY <1>1, <1>2, <1>3, <1>4, SubmissionChanges
  <1>5. CASE ~UNCHANGED tab
    <2> DEFINE shown == IF form = "feedback"
                        THEN [tab[p].view EXCEPT !.feedback = post[p][form].value]
                        ELSE [tab[p].view EXCEPT !.request = post[p][form].value]
    <2>1. post[p][form].value \in IF form = "feedback" THEN Ratings ELSE Windows
      BY <1>1 DEF Submission
    <2>2. shown \in View
      BY <1>1, <2>1 DEF View
    <2>3. tab' = [tab EXCEPT ![p].view = shown]
      BY <1>5 DEF AnswerPost, PageInvariant, TypeOK
    <2>4. load' \in [Tabs -> SUBSET Request] /\ \A q \in Tabs : load'[q] # {} => load[q] # {}
      BY <1>3 DEF PageInvariant, TypeOK
    <2>5. /\ DOMAIN post' = Tabs
          /\ \A q \in Tabs : /\ DOMAIN post'[q] = Forms
                             /\ \A f \in Forms : \/ post'[q][f] = None
                                                 \/ post'[q][f] = post[q][f]
      BY <1>3 DEF PageInvariant, TypeOK
    <2> HIDE DEF shown
    <2> QED BY <1>1, <1>2, <2>2, <2>3, <2>4, <2>5, ViewChanges
  <1> QED BY <1>4, <1>5

LEMMA PagesStep == PageInvariant /\ [Next]_vars => PageInvariant'
  <1> SUFFICES ASSUME PageInvariant, [Next]_vars PROVE PageInvariant'
    OBVIOUS
  <1>1. CASE OrderStep /\ UNCHANGED pageVars
    BY <1>1, OrderStepKeeps, PagesRest DEF PageInvariant
  <1>2. CASE UNCHANGED vars
    BY <1>2, OrdersRest, RowsUntouched, PagesRest DEF PageInvariant, vars, orderVars
  <1> QED
    BY <1>1, <1>2, TextKeeps, OpenKeeps, PollKeeps, ReadOrderKeeps, ReadRestKeeps, ShowKeeps,
       LoadFailsKeeps, PressKeeps, ReadPostKeeps, CommitPostKeeps, AnswerPostKeeps
    DEF Next

(* Every variable of orders, tokens and pages keeps its type.              *)
THEOREM CustomerTypes == Spec => []TypeOK
  <1>1. PageInvariant => TypeOK
    BY DEF PageInvariant
  <1> QED BY PagesInitially, PagesStep, <1>1, PTL DEF Spec

(* A link somebody was given opens its order until its own date, whatever  *)
(* replaced the order's token since (TrackingTokenService.ensure).         *)
THEOREM GivenLinksResolve == Spec => []LinksResolveUntilTheyExpire
  <1>1. PageInvariant => LinksResolveUntilTheyExpire
    BY StandingLinksResolve DEF PageInvariant, OrdersInvariant
  <1> QED BY PagesInitially, PagesStep, <1>1, PTL DEF Spec

(* Feedback is stored for delivered orders only, and counted once          *)
(* (TrackingService.submitFeedback), however often and wherever it was sent.*)
THEOREM FeedbackIsStoredOnce == Spec => []FeedbackOnceAfterDelivery
  <1>1. PageInvariant => FeedbackOnceAfterDelivery
    BY RowsAreStored DEF PageInvariant, OrdersInvariant, Thanked, ThankedOnce,
                         FeedbackOnceAfterDelivery
  <1> QED BY PagesInitially, PagesStep, <1>1, PTL DEF Spec

-----------------------------------------------------------------------------
(* Messages.  First the types of the orders and tokens the messages are    *)
(* about, with the constants of that part.                                 *)

LEMMA MessageTokensTyped ==
  ASSUME N!TokenTypeOK, N!TokenStep
  PROVE  N!TokenTypeOK'
  <1>1. ASSUME NEW o \in Orders, N!CreateWithToken(o) PROVE N!TokenTypeOK'
    <2>1. PICK t \in MessageTokens : N!Save(o, [token |-> t, expiresAt |-> now + Lifetime])
      BY <1>1 DEF N!CreateWithToken, N!Fresh
    <2>2. now + Lifetime \in Nat
      BY LifetimeAssumption DEF N!TokenTypeOK
    <2> QED
      BY <1>1, <2>1, <2>2
      DEF N!CreateWithToken, N!Save, N!LookupsAfter, N!TokenTypeOK, N!TokenRow, N!LookupRow
  <1>2. ASSUME NEW o \in Orders, N!TextLink(o) PROVE N!TokenTypeOK'
    BY <1>2 DEF N!TextLink, N!Unexpired, N!TokenTypeOK, N!TokenRow, N!Link
  <1>3. ASSUME NEW c \in MessageCallers, NEW o \in Orders, N!EnsureRead(c, o)
        PROVE  N!TokenTypeOK'
    <2>1. UNCHANGED <<now, current, lookup, links>>
      BY <1>3 DEF N!EnsureRead
    <2>2. now + Lifetime \in Nat
      BY LifetimeAssumption DEF N!TokenTypeOK
    <2>3. call' \in [MessageCallers -> N!Calls \cup {None}]
      BY <1>3, <2>2 DEF N!EnsureRead, N!Unexpired, N!Fresh, N!TokenTypeOK, N!Calls, N!TokenRow
    <2> QED BY <2>1, <2>3 DEF N!TokenTypeOK
  <1>4. ASSUME NEW c \in MessageCallers, N!EnsureSave(c) PROVE N!TokenTypeOK'
    BY <1>4 DEF N!EnsureSave, N!Save, N!LookupsAfter, N!TokenTypeOK, N!Calls, N!TokenRow,
                N!LookupRow
  <1>5. ASSUME NEW c \in MessageCallers, N!EnsureFails(c) PROVE N!TokenTypeOK'
    BY <1>5 DEF N!EnsureFails, N!TokenTypeOK
  <1>6. ASSUME NEW c \in MessageCallers, N!HandOut(c) PROVE N!TokenTypeOK'
    BY <1>6 DEF N!HandOut, N!TokenTypeOK, N!Calls, N!Link
  <1>7. CASE N!Tick
    BY <1>7 DEF N!Tick, N!TokenTypeOK
  <1>8. CASE N!Reap
    BY <1>8 DEF N!Reap, N!TokenTypeOK
  <1> QED BY <1>1, <1>2, <1>3, <1>4, <1>5, <1>6, <1>7, <1>8 DEF N!TokenStep

LEMMA MessageNewRows ==
  /\ N!New \in N!TrackedRow
  /\ [N!New EXCEPT !.status = "ASSIGNED", !.events = @ \cup {"DRIVER_ASSIGNED"}] \in N!TrackedRow
  <1>1. N!New = [status |-> "PENDING", request |-> None, feedback |-> None, thanked |-> 0,
                 proof |-> FALSE, events |-> {"ORDER_CREATED"}]
    BY DEF N!New
  <1> QED BY <1>1 DEF N!TrackedRow, N!Statuses, N!Milestones

(* A caller that asks for a token, or changes a status, is about an order  *)
(* that is stored.                                                         *)
MessageCalls ==
  \A c \in MessageCallers : call[c] # None => order[call[c].order] \in N!TrackedRow

MessageRowsStay ==
  \A o \in Orders : order[o] \in N!TrackedRow => order'[o] \in N!TrackedRow

LEMMA MessageRowWritten ==
  ASSUME N!OrdersTypeOK, NEW o \in Orders, NEW row \in N!TrackedRow,
         order' = [order EXCEPT ![o] = row]
  PROVE  order' \in [Orders -> N!TrackedRow \cup {None}] /\ MessageRowsStay
  BY DEF N!OrdersTypeOK, MessageRowsStay

LEMMA MessageOrdersTyped ==
  ASSUME N!OrdersTypeOK, MessageCalls, N!OrderStep
  PROVE  N!OrdersTypeOK' /\ MessageRowsStay
  <1> DEFINE Kept == N!OrdersTypeOK' /\ MessageRowsStay
  <1>1. ASSUME NEW o \in Orders, N!Create(o) PROVE Kept
    <2>1. N!TokenTypeOK' /\ change' = change
      BY <1>1, MessageTokensTyped DEF N!Create, N!TokenStep, N!OrdersTypeOK
    <2>2. PICK row \in N!TrackedRow : order' = [order EXCEPT ![o] = row]
      BY <1>1, MessageNewRows DEF N!Create
    <2> QED BY <2>1, <2>2, MessageRowWritten DEF N!OrdersTypeOK
  <1>2. ASSUME NEW o \in Orders, N!Assign(o) PROVE Kept
    <2> DEFINE row == [order[o] EXCEPT !.status = "ASSIGNED", !.request = None,
                                       !.events = @ \cup {"DRIVER_ASSIGNED"}]
    <2>1. order[o] \in N!TrackedRow /\ UNCHANGED N!tokenVars /\ UNCHANGED change
      BY <1>2 DEF N!Assign, N!OrdersTypeOK
    <2>2. row \in N!TrackedRow
      BY <2>1 DEF N!TrackedRow, N!Statuses, N!Milestones
    <2>3. order' = [order EXCEPT ![o] = row]
      BY <1>2 DEF N!Assign, N!OrdersTypeOK
    <2> HIDE DEF row
    <2> QED BY <2>1, <2>2, <2>3, MessageRowWritten DEF N!OrdersTypeOK, N!TokenTypeOK, N!tokenVars
  <1>3. ASSUME NEW o \in Orders, N!RegisterProof(o) PROVE Kept
    <2> DEFINE row == [order[o] EXCEPT !.proof = TRUE, !.events = @ \cup {"PROOF_UPLOADED"}]
    <2>1. order[o] \in N!TrackedRow /\ UNCHANGED N!tokenVars /\ UNCHANGED change
      BY <1>3 DEF N!RegisterProof, N!OrdersTypeOK
    <2>2. row \in N!TrackedRow
      BY <2>1 DEF N!TrackedRow, N!Milestones
    <2>3. order' = [order EXCEPT ![o] = row]
      BY <1>3 DEF N!RegisterProof, N!OrdersTypeOK
    <2> HIDE DEF row
    <2> QED BY <2>1, <2>2, <2>3, MessageRowWritten DEF N!OrdersTypeOK, N!TokenTypeOK, N!tokenVars
  <1>4. ASSUME NEW c \in MessageCallers, NEW o \in Orders, N!CopyLink(c, o) PROVE Kept
    BY <1>4, MessageTokensTyped DEF N!CopyLink, N!TokenStep, N!OrdersTypeOK, MessageRowsStay
  <1>5. ASSUME NEW c \in MessageCallers, NEW o \in Orders, NEW to, N!ReadStatus(c, o, to)
        PROVE  Kept
    <2>1. N!TokenTypeOK' /\ order' = order
      BY <1>5, MessageTokensTyped DEF N!ReadStatus, N!TokenStep, N!OrdersTypeOK
    <2> DEFINE ch == [from |-> order[o].status, to |-> to]
    <2>2. ch \in [from : N!Statuses, to : N!UpdatableStatuses]
      BY <1>5 DEF N!ReadStatus, N!TrackedRow, N!OrdersTypeOK
    <2>3. change' = [change EXCEPT ![c] = ch]
      BY <1>5 DEF N!ReadStatus
    <2> HIDE DEF ch
    <2> QED BY <2>1, <2>2, <2>3 DEF N!OrdersTypeOK, MessageRowsStay
  <1>6. ASSUME NEW c \in MessageCallers, N!CommitStatus(c) PROVE Kept
    <2> DEFINE o == call[c].order
               to == change[c].to
               row == [order[o] EXCEPT !.status = to, !.events = @ \cup N!StatusEvent(to)]
    <2>1. N!TokenTypeOK' /\ change' \in [MessageCallers -> [from : N!Statuses,
                                          to : N!UpdatableStatuses] \cup {None}]
      BY <1>6 DEF N!CommitStatus, N!TokenTypeOK, N!OrdersTypeOK
    <2>2. to \in N!Statuses /\ o \in Orders /\ order[o] \in N!TrackedRow
      BY <1>6 DEF N!CommitStatus, N!OrdersTypeOK, N!TokenTypeOK, N!Calls, N!UpdatableStatuses,
                  MessageCalls
    <2>3. CASE order' = order
      BY <2>1, <2>3 DEF N!OrdersTypeOK, MessageRowsStay
    <2>4. CASE order' # order
      <3>1. order' = [order EXCEPT ![o] = row]
        BY <1>6, <2>2, <2>4 DEF N!CommitStatus, N!OrdersTypeOK
      <3>2. N!StatusEvent(to) \subseteq N!Milestones
        BY DEF N!StatusEvent, N!Milestones
      <3>3. row \in N!TrackedRow
        BY <2>2, <3>2 DEF N!TrackedRow
      <3> HIDE DEF row, o
      <3> QED BY <2>1, <2>2, <3>1, <3>3, MessageRowWritten DEF N!OrdersTypeOK
    <2> QED BY <2>3, <2>4
  <1>7. ASSUME NEW c \in MessageCallers, N!GiveLink(c) PROVE Kept
    BY <1>7, MessageTokensTyped DEF N!GiveLink, N!TokenStep, N!OrdersTypeOK, MessageRowsStay
  <1>8. ASSUME NEW c \in MessageCallers, N!SaveToken(c) PROVE Kept
    BY <1>8, MessageTokensTyped DEF N!SaveToken, N!TokenStep, N!OrdersTypeOK, MessageRowsStay
  <1>9. ASSUME NEW c \in MessageCallers, N!FailToken(c) PROVE Kept
    <2>1. N!TokenTypeOK'
      BY <1>9, MessageTokensTyped DEF N!FailToken, N!TokenStep, N!OrdersTypeOK
    <2> QED BY <1>9, <2>1 DEF N!FailToken, N!OrdersTypeOK, MessageRowsStay
  <1>10. CASE N!Clock
    BY <1>10, MessageTokensTyped DEF N!Clock, N!TokenStep, N!OrdersTypeOK, MessageRowsStay
  <1> QED BY <1>1, <1>2, <1>3, <1>4, <1>5, <1>6, <1>7, <1>8, <1>9, <1>10 DEF N!OrderStep

LEMMA MessageCallsKept ==
  ASSUME N!OrdersTypeOK, MessageCalls, N!OrderStep
  PROVE  MessageCalls'
  <1>1. N!OrdersTypeOK' /\ MessageRowsStay
    BY MessageOrdersTyped
  <1>2. \A c \in MessageCallers : call'[c] # None => call'[c].order \in Orders
    BY <1>1 DEF N!OrdersTypeOK, N!TokenTypeOK, N!Calls
  <1>3. ASSUME NEW d \in MessageCallers, NEW o \in Orders, N!EnsureRead(d, o), order[o] # None
        PROVE  MessageCalls'
    <2>1. order[o] \in N!TrackedRow /\ call'[d].order = o
      BY <1>3 DEF N!EnsureRead, N!OrdersTypeOK, N!TokenTypeOK
    <2>2. \A c \in MessageCallers : c # d => call'[c] = call[c]
      BY <1>3 DEF N!EnsureRead, N!OrdersTypeOK, N!TokenTypeOK
    <2> QED BY <1>1, <1>2, <2>1, <2>2 DEF MessageCalls, MessageRowsStay
  <1>4. ASSUME \A c \in MessageCallers : call'[c] # None =>
                 call[c] # None /\ call'[c].order = call[c].order
        PROVE  MessageCalls'
    BY <1>1, <1>2, <1>4 DEF MessageCalls, MessageRowsStay
  <1>5. ASSUME NEW c \in MessageCallers, call' = [call EXCEPT ![c] = None] PROVE MessageCalls'
    BY <1>4, <1>5 DEF N!OrdersTypeOK, N!TokenTypeOK
  <1>6. ASSUME UNCHANGED call PROVE MessageCalls'
    BY <1>4, <1>6
  <1>7. ASSUME NEW c \in MessageCallers, N!SaveToken(c) PROVE MessageCalls'
    <2>1. \A d \in MessageCallers : call'[d] # None => call[d] # None
                                    /\ call'[d].order = call[d].order
      BY <1>7 DEF N!SaveToken, N!EnsureSave, N!OrdersTypeOK, N!TokenTypeOK, N!Calls
    <2> QED BY <1>4, <2>1
  <1> QED
    BY <1>3, <1>5, <1>6, <1>7
    DEF N!OrderStep, N!Create, N!CreateWithToken, N!Assign, N!RegisterProof, N!CopyLink,
        N!ReadStatus, N!CommitStatus, N!GiveLink, N!HandOut, N!FailToken, N!EnsureFails,
        N!Clock, N!Tick, N!Reap, N!tokenVars

(* The event source and the handler.  Between two invocations a batch is   *)
(* retried only while it still has records; a running handler is inside    *)
(* its batch.  Records before the position are settled, and those between  *)
(* the position and the handler have been told in this very attempt, so    *)
(* naming the record that failed loses none.                               *)

RecordOfChange == [order : Orders, from : N!Statuses, to : N!Statuses]
Message == [record : Nat, link : MessageTokens \cup {None}]

FunctionTypeOK ==
  /\ stream \in Seq(RecordOfChange)
  /\ position \in Nat \ {0} /\ batchEnd \in Nat /\ attempts \in Nat /\ at \in Nat
  /\ stage \in {"idle", "record", "send", "sent", "failed"}
  /\ link \in MessageTokens \cup {None}
  /\ sms \in Seq(Message)

WithinTheBatch ==
  /\ position <= Len(stream) + 1 /\ batchEnd <= Len(stream)
  /\ attempts > 0 => position <= batchEnd
  /\ at = 0 <=> stage = "idle"
  /\ at # 0 => position <= at /\ at <= batchEnd + 1 /\ position <= batchEnd
  /\ stage \in {"send", "sent", "failed"} => at <= batchEnd

ToldInThisAttempt ==
  /\ at # 0 => \A i \in position..(at - 1) : N!Notifiable(stream[i]) => N!Accepted(i)
  /\ stage = "sent" => N!Accepted(at)

MessageInvariant ==
  /\ N!OrdersTypeOK /\ MessageCalls
  /\ FunctionTypeOK /\ WithinTheBatch /\ ToldInThisAttempt /\ NothingSilentlyLost

LEMMA MessagesInitially == N!Init => MessageInvariant
  <1> SUFFICES ASSUME N!Init PROVE MessageInvariant
    OBVIOUS
  <1>1. N!OrdersTypeOK
    <2> DEFINE old(s) == [N!New EXCEPT !.status = s, !.events = {}]
    <2>1. \A s \in Legacy : old(s) \in N!TrackedRow
      <3>1. N!New = [status |-> "PENDING", request |-> None, feedback |-> None, thanked |-> 0,
                     proof |-> FALSE, events |-> {"ORDER_CREATED"}]
        BY DEF N!New
      <3>2. \A s \in Legacy : s \in N!Statuses
        BY LegacyAssumption DEF Statuses, N!Statuses
      <3> QED BY <3>1, <3>2 DEF N!TrackedRow
    <2>2. order \in [Orders -> {None} \cup {old(s) : s \in Legacy}]
      BY DEF N!Init, N!OrdersInit
    <2> HIDE DEF old
    <2>3. order \in [Orders -> N!TrackedRow \cup {None}]
      BY <2>1, <2>2
    <2> QED BY <2>3 DEF N!Init, N!OrdersInit, N!TokenInit, N!OrdersTypeOK, N!TokenTypeOK
  <1>2. MessageCalls
    BY DEF N!Init, N!OrdersInit, N!TokenInit, MessageCalls
  <1>3. FunctionTypeOK /\ WithinTheBatch /\ ToldInThisAttempt
    BY DEF N!Init, N!FunctionInit, FunctionTypeOK, WithinTheBatch, ToldInThisAttempt
  <1>4. NothingSilentlyLost
    BY DEF N!Init, N!FunctionInit, NothingSilentlyLost, N!NothingSilentlyLost
  <1> QED BY <1>1, <1>2, <1>3, <1>4 DEF MessageInvariant

(* What a record says never changes: the stream only grows.                *)
LEMMA StreamGrows ==
  ASSUME MessageInvariant, N!Change
  PROVE  /\ stream' \in Seq(RecordOfChange) /\ Len(stream') >= Len(stream)
         /\ \A i \in 1..Len(stream) : stream'[i] = stream[i]
  <1> DEFINE changed == {o \in Orders : /\ order[o] # None /\ order'[o] # order[o]
                                        /\ order'[o].status # order[o].status}
             o == CHOOSE o \in changed : TRUE
             record == [order |-> o, from |-> order[o].status, to |-> order'[o].status]
  <1>1. stream' = IF changed = {} THEN stream ELSE Append(stream, record)
    BY DEF N!Change
  <1>2. CASE changed = {}
    BY <1>1, <1>2 DEF MessageInvariant, FunctionTypeOK
  <1>3. CASE changed # {}
    <2>1. o \in changed
      BY <1>3
    <2>2. order[o] \in N!TrackedRow /\ order'[o] \in N!TrackedRow /\ o \in Orders
      BY <2>1, MessageOrdersTyped DEF N!Change, MessageInvariant, N!OrdersTypeOK, MessageRowsStay
    <2>3. record \in RecordOfChange
      BY <2>2 DEF RecordOfChange, N!TrackedRow
    <2> HIDE DEF record, changed
    <2> QED BY <1>1, <1>3, <2>3 DEF MessageInvariant, FunctionTypeOK
  <1> QED BY <1>2, <1>3

LEMMA ChangeKeepsMessages ==
  ASSUME MessageInvariant, N!Change
  PROVE  MessageInvariant'
  <1>1. /\ stream' \in Seq(RecordOfChange) /\ Len(stream') >= Len(stream)
        /\ \A i \in 1..Len(stream) : stream'[i] = stream[i]
    BY StreamGrows
  <1>2. UNCHANGED <<position, batchEnd, attempts, at, stage, link, secret, sms, log, dropped>>
    BY DEF N!Change, N!functionVars
  <1>3. N!OrdersTypeOK' /\ MessageCalls'
    BY MessageOrdersTyped, MessageCallsKept DEF N!Change, MessageInvariant
  <1>4. FunctionTypeOK' /\ WithinTheBatch'
    BY <1>1, <1>2 DEF MessageInvariant, FunctionTypeOK, WithinTheBatch
  <1>5. Len(stream) \in Nat
    BY DEF MessageInvariant, FunctionTypeOK
  <1>6. ToldInThisAttempt'
    <2> SUFFICES ASSUME at # 0, NEW i \in position..(at - 1), N!Notifiable(stream'[i])
                 PROVE  N!Accepted(i)
      BY <1>2 DEF ToldInThisAttempt, N!Notifiable, N!Accepted, MessageInvariant
    <2>1. i \in 1..Len(stream)
      BY <1>5 DEF MessageInvariant, FunctionTypeOK, WithinTheBatch
    <2> QED BY <1>1, <2>1 DEF MessageInvariant, ToldInThisAttempt
  <1>7. NothingSilentlyLost'
    <2> SUFFICES ASSUME NEW i \in 1..(position - 1), N!Notifiable(stream'[i])
                 PROVE  N!Accepted(i) \/ i \in dropped
      BY <1>2 DEF NothingSilentlyLost, N!NothingSilentlyLost, N!Notifiable, N!Accepted
    <2>1. i \in 1..Len(stream)
      BY <1>5 DEF MessageInvariant, FunctionTypeOK, WithinTheBatch
    <2> QED BY <1>1, <2>1 DEF MessageInvariant, NothingSilentlyLost, N!NothingSilentlyLost
  <1> QED BY <1>3, <1>4, <1>6, <1>7 DEF MessageInvariant

LEMMA MessageOrdersRest ==
  ASSUME MessageInvariant, UNCHANGED N!orderVars
  PROVE  N!OrdersTypeOK' /\ MessageCalls'
  BY DEF N!orderVars, N!tokenVars, MessageInvariant, N!OrdersTypeOK, N!TokenTypeOK, MessageCalls

(* A step that ends an attempt or starts one, or that nobody is told by.   *)
LEMMA BetweenMessages ==
  ASSUME MessageInvariant, N!OrdersTypeOK', MessageCalls', FunctionTypeOK', WithinTheBatch',
         UNCHANGED <<stream, sms>>,
         stage' # "sent",
         \/ at' = 0
         \/ at' = position'
         \/ at' = at /\ position' = position /\ at # 0,
         \/ position' = position /\ dropped' = dropped
         \/ \A r \in position..(position' - 1) :
              N!Notifiable(stream[r]) => N!Accepted(r) \/ r \in dropped',
         dropped \subseteq dropped'
  PROVE  MessageInvariant'
  <1>1. \A i : N!Accepted(i)' <=> N!Accepted(i)
    BY DEF N!Accepted
  <1>2. PICK p \in Nat, a \in Nat : position' = p /\ at' = a
    BY DEF FunctionTypeOK
  <1>3. position \in Nat
    BY DEF MessageInvariant, FunctionTypeOK
  <1>4. ToldInThisAttempt'
    <2> SUFFICES ASSUME a # 0, NEW i \in p..(a - 1), N!Notifiable(stream[i])
                 PROVE  N!Accepted(i)
      BY <1>1, <1>2 DEF ToldInThisAttempt, N!Notifiable
    <2>1. a # p
      OBVIOUS
    <2>2. at' = at /\ position' = position /\ at # 0
      BY <1>2, <2>1
    <2> QED BY <1>2, <2>2 DEF MessageInvariant, ToldInThisAttempt
  <1>5. NothingSilentlyLost'
    <2> SUFFICES ASSUME NEW i \in 1..(p - 1), N!Notifiable(stream[i])
                 PROVE  N!Accepted(i) \/ i \in dropped'
      BY <1>1, <1>2 DEF NothingSilentlyLost, N!NothingSilentlyLost, N!Notifiable
    <2>1. CASE i < position
      <3>1. i \in 1..(position - 1)
        BY <1>3, <2>1
      <3> QED BY <3>1 DEF MessageInvariant, NothingSilentlyLost, N!NothingSilentlyLost
    <2>2. CASE ~(i < position)
      <3>1. i \in position..(p - 1) /\ p # position
        BY <1>3, <2>2
      <3> QED BY <1>2, <3>1
    <2> QED BY <2>1, <2>2
  <1> QED BY <1>4, <1>5 DEF MessageInvariant

LEMMA InvokeKeepsMessages ==
  ASSUME MessageInvariant, N!Invoke
  PROVE  MessageInvariant'
  <1>1. N!OrdersTypeOK' /\ MessageCalls'
    BY MessageOrdersRest DEF N!Invoke
  <1>2. Len(stream) \in Nat
    BY DEF MessageInvariant, FunctionTypeOK
  <1>3. FunctionTypeOK' /\ WithinTheBatch'
    BY <1>2 DEF N!Invoke, MessageInvariant, FunctionTypeOK, WithinTheBatch
  <1> QED BY <1>1, <1>3, BetweenMessages DEF N!Invoke

LEMMA GiveUpKeepsMessages ==
  ASSUME MessageInvariant, N!GiveUp
  PROVE  MessageInvariant'
  <1>1. N!OrdersTypeOK' /\ MessageCalls'
    BY MessageOrdersRest DEF N!GiveUp
  <1>2. PICK d \in position..batchEnd : dropped' = dropped \cup (position..d) /\ position' = d + 1
    BY DEF N!GiveUp
  <1>3. Len(stream) \in Nat /\ d \in Nat
    BY DEF MessageInvariant, FunctionTypeOK
  <1>4. FunctionTypeOK' /\ WithinTheBatch'
    BY <1>2, <1>3 DEF N!GiveUp, MessageInvariant, FunctionTypeOK, WithinTheBatch
  <1>5. \A i \in position..(position' - 1) : i \in dropped'
    BY <1>2, <1>3 DEF MessageInvariant, FunctionTypeOK
  <1> QED BY <1>1, <1>2, <1>4, <1>5, BetweenMessages DEF N!GiveUp, WithinTheBatch, MessageInvariant

LEMMA DieKeepsMessages ==
  ASSUME MessageInvariant, N!Die
  PROVE  MessageInvariant'
  <1>1. N!OrdersTypeOK' /\ MessageCalls'
    BY MessageOrdersRest DEF N!Die
  <1>2. FunctionTypeOK' /\ WithinTheBatch'
    BY DEF N!Die, N!Counted, MessageInvariant, FunctionTypeOK, WithinTheBatch
  <1> QED BY <1>1, <1>2, BetweenMessages DEF N!Die

LEMMA RecycleKeepsMessages ==
  ASSUME MessageInvariant, N!Recycle
  PROVE  MessageInvariant'
  <1>1. N!OrdersTypeOK' /\ MessageCalls'
    BY MessageOrdersRest DEF N!Recycle
  <1>2. FunctionTypeOK' /\ WithinTheBatch'
    BY DEF N!Recycle, MessageInvariant, FunctionTypeOK, WithinTheBatch
  <1> QED BY <1>1, <1>2, BetweenMessages DEF N!Recycle, MessageInvariant, WithinTheBatch

(* The handler goes past a record: nobody was to be told, or was told.     *)
LEMMA NextRecordKeepsMessages ==
  ASSUME MessageInvariant, at # 0, at <= batchEnd,
         N!Notifiable(stream[at]) => N!Accepted(at),
         at' = at + 1, stage' = "record", link' = None,
         UNCHANGED <<position, batchEnd, attempts, sms, stream, dropped>>, UNCHANGED N!orderVars
  PROVE  MessageInvariant'
  <1>1. N!OrdersTypeOK' /\ MessageCalls'
    BY MessageOrdersRest
  <1>2. FunctionTypeOK' /\ WithinTheBatch'
    BY DEF MessageInvariant, FunctionTypeOK, WithinTheBatch
  <1>3. ToldInThisAttempt'
    <2> SUFFICES ASSUME NEW i \in position..at, N!Notifiable(stream[i]) PROVE N!Accepted(i)
      BY DEF MessageInvariant, FunctionTypeOK, ToldInThisAttempt, N!Notifiable, N!Accepted
    <2>1. CASE i = at
      BY <2>1
    <2>2. CASE i # at
      <3>1. i \in position..(at - 1)
        BY <2>2 DEF MessageInvariant, FunctionTypeOK
      <3> QED BY <3>1 DEF MessageInvariant, ToldInThisAttempt
    <2> QED BY <2>1, <2>2
  <1>4. NothingSilentlyLost'
    BY DEF MessageInvariant, NothingSilentlyLost, N!NothingSilentlyLost, N!Notifiable, N!Accepted
  <1> QED BY <1>1, <1>2, <1>3, <1>4 DEF MessageInvariant

LEMMA PassOverKeepsMessages ==
  ASSUME MessageInvariant, N!PassOver
  PROVE  MessageInvariant'
  <1>1. at # 0
    BY DEF N!PassOver, MessageInvariant, WithinTheBatch
  <1> QED BY <1>1, NextRecordKeepsMessages DEF N!PassOver, N!NextRecord, N!Record

LEMMA ReadLinkKeepsMessages ==
  ASSUME MessageInvariant, N!ReadLink
  PROVE  MessageInvariant'
  <1>1. UNCHANGED <<order, change, stream, position, batchEnd, attempts, at, sms, dropped>>
        /\ stage = "record" /\ stage' = "send" /\ at <= batchEnd
    BY DEF N!ReadLink
  <1>2. stream[at] \in RecordOfChange
    BY <1>1 DEF MessageInvariant, FunctionTypeOK, WithinTheBatch
  <1>3. /\ N!TokenTypeOK' /\ UNCHANGED call
        /\ link' \in MessageTokens \cup {None}
    <2>1. CASE N!Unexpired(N!Record.order)
      <3>1. N!TextLink(N!Record.order) /\ N!Record.order \in Orders
            /\ link' = current[N!Record.order].token
        BY <1>2, <2>1 DEF N!ReadLink, RecordOfChange, N!Record
      <3>2. link' \in MessageTokens
        BY <2>1, <3>1 DEF N!Unexpired, MessageInvariant, N!OrdersTypeOK, N!TokenTypeOK, N!TokenRow
      <3> QED BY <3>1, <3>2, MessageTokensTyped
              DEF MessageInvariant, N!OrdersTypeOK, N!TokenStep, N!TextLink
    <2>2. CASE ~N!Unexpired(N!Record.order)
      BY <2>2 DEF N!ReadLink, N!tokenVars, MessageInvariant, N!OrdersTypeOK, N!TokenTypeOK
    <2> QED BY <2>1, <2>2
  <1>4. N!OrdersTypeOK' /\ MessageCalls'
    BY <1>1, <1>3 DEF MessageInvariant, N!OrdersTypeOK, MessageCalls
  <1>5. FunctionTypeOK' /\ WithinTheBatch'
    BY <1>1, <1>3 DEF MessageInvariant, FunctionTypeOK, WithinTheBatch
  <1>6. at # 0
    BY <1>1 DEF MessageInvariant, WithinTheBatch
  <1> QED BY <1>1, <1>4, <1>5, <1>6, BetweenMessages

LEMMA SendKeepsMessages ==
  ASSUME MessageInvariant, N!Send
  PROVE  MessageInvariant'
  <1> DEFINE message == [record |-> at, link |-> link]
  <1>1. sms' = Append(sms, message) /\ stage' \in {"sent", "failed"} /\ stage = "send"
        /\ UNCHANGED <<stream, position, batchEnd, attempts, at, link, log, dropped>>
    BY DEF N!Send
  <1>2. N!OrdersTypeOK' /\ MessageCalls'
    BY MessageOrdersRest DEF N!Send
  <1>3. message \in Message /\ message.record = at
    BY DEF MessageInvariant, FunctionTypeOK, Message
  <1> HIDE DEF message
  <1>4. /\ sms' \in Seq(Message) /\ Len(sms') = Len(sms) + 1
        /\ sms'[Len(sms) + 1] = message
        /\ \A n \in DOMAIN sms : n \in DOMAIN sms' /\ sms'[n] = sms[n]
    BY <1>1, <1>3 DEF MessageInvariant, FunctionTypeOK
  <1>5. \A i : N!Accepted(i) => N!Accepted(i)'
    BY <1>4 DEF N!Accepted
  <1>6. N!Accepted(at)'
    <2>1. Len(sms) + 1 \in DOMAIN sms' /\ sms'[Len(sms) + 1].record = at'
      BY <1>1, <1>3, <1>4 DEF MessageInvariant, FunctionTypeOK
    <2> QED BY <2>1 DEF N!Accepted
  <1>7. FunctionTypeOK' /\ WithinTheBatch'
    BY <1>1, <1>4 DEF MessageInvariant, FunctionTypeOK, WithinTheBatch
  <1>8. ToldInThisAttempt'
    BY <1>1, <1>5, <1>6 DEF MessageInvariant, ToldInThisAttempt, N!Notifiable
  <1>9. NothingSilentlyLost'
    BY <1>1, <1>5 DEF MessageInvariant, NothingSilentlyLost, N!NothingSilentlyLost, N!Notifiable
  <1> QED BY <1>2, <1>7, <1>8, <1>9 DEF MessageInvariant

LEMMA SendFailsKeepsMessages ==
  ASSUME MessageInvariant, N!SendFails
  PROVE  MessageInvariant'
  <1>1. N!OrdersTypeOK' /\ MessageCalls'
    BY MessageOrdersRest DEF N!SendFails
  <1>2. FunctionTypeOK' /\ WithinTheBatch'
    BY DEF N!SendFails, MessageInvariant, FunctionTypeOK, WithinTheBatch
  <1> QED BY <1>1, <1>2, BetweenMessages DEF N!SendFails, MessageInvariant, WithinTheBatch

LEMMA RecordSentKeepsMessages ==
  ASSUME MessageInvariant, N!RecordSent
  PROVE  MessageInvariant'
  <1>1. stage = "sent" /\ at # 0 /\ at <= batchEnd /\ N!Accepted(at)
        /\ UNCHANGED <<stream, position, batchEnd, attempts, secret, sms, dropped>>
        /\ UNCHANGED N!orderVars
    BY DEF N!RecordSent, MessageInvariant, WithinTheBatch, ToldInThisAttempt
  <1>2. CASE N!NextRecord
    BY <1>1, <1>2, NextRecordKeepsMessages DEF N!NextRecord
  <1>3. CASE stage' = "failed" /\ UNCHANGED <<at, link, log>>
    <2>1. N!OrdersTypeOK' /\ MessageCalls'
      BY <1>1, MessageOrdersRest
    <2>2. FunctionTypeOK' /\ WithinTheBatch'
      BY <1>1, <1>3 DEF MessageInvariant, FunctionTypeOK, WithinTheBatch
    <2> QED BY <1>1, <1>3, <2>1, <2>2, BetweenMessages
  <1> QED BY <1>2, <1>3 DEF N!RecordSent

(* A failed record becomes the position: those before it were told.        *)
LEMMA FailKeepsMessages ==
  ASSUME MessageInvariant, N!Fail
  PROVE  MessageInvariant'
  <1>1. N!OrdersTypeOK' /\ MessageCalls'
    BY MessageOrdersRest DEF N!Fail
  <1>2. /\ position' = at /\ at' = 0 /\ at # 0 /\ stage' = "idle"
        /\ UNCHANGED <<stream, sms, dropped>>
    BY DEF N!Fail, N!ReportsFailure, MessageInvariant, WithinTheBatch
  <1>3. Len(stream) \in Nat
    BY DEF MessageInvariant, FunctionTypeOK
  <1>4. FunctionTypeOK' /\ WithinTheBatch'
    BY <1>2, <1>3 DEF N!Fail, N!ReportsFailure, N!Counted, MessageInvariant, FunctionTypeOK,
                      WithinTheBatch
  <1>5. \A i \in position..(at - 1) : N!Notifiable(stream[i]) => N!Accepted(i)
    BY <1>2 DEF MessageInvariant, ToldInThisAttempt
  <1> QED BY <1>1, <1>2, <1>4, <1>5, BetweenMessages

LEMMA DoneKeepsMessages ==
  ASSUME MessageInvariant, N!Done
  PROVE  MessageInvariant'
  <1>1. N!OrdersTypeOK' /\ MessageCalls'
    BY MessageOrdersRest DEF N!Done
  <1>2. /\ at = batchEnd + 1 /\ position' = at /\ at' = 0 /\ at # 0 /\ stage' = "idle"
        /\ UNCHANGED <<stream, sms, dropped>>
    BY DEF N!Done, MessageInvariant, FunctionTypeOK, WithinTheBatch
  <1>3. Len(stream) \in Nat
    BY DEF MessageInvariant, FunctionTypeOK
  <1>4. FunctionTypeOK' /\ WithinTheBatch'
    BY <1>2, <1>3 DEF N!Done, MessageInvariant, FunctionTypeOK, WithinTheBatch
  <1>5. \A i \in position..(at - 1) : N!Notifiable(stream[i]) => N!Accepted(i)
    BY <1>2 DEF MessageInvariant, ToldInThisAttempt
  <1> QED BY <1>1, <1>2, <1>4, <1>5, BetweenMessages

LEMMA MessagesStep == MessageInvariant /\ [N!Next]_(N!vars) => MessageInvariant'
  <1> SUFFICES ASSUME MessageInvariant, [N!Next]_(N!vars) PROVE MessageInvariant'
    OBVIOUS
  <1>1. CASE UNCHANGED N!vars
    BY <1>1 DEF N!vars, N!orderVars, N!tokenVars, N!functionVars, MessageInvariant,
                N!OrdersTypeOK, N!TokenTypeOK, MessageCalls, FunctionTypeOK, WithinTheBatch,
                ToldInThisAttempt, NothingSilentlyLost, N!NothingSilentlyLost, N!Notifiable,
                N!Accepted
  <1> QED
    BY <1>1, ChangeKeepsMessages, InvokeKeepsMessages, GiveUpKeepsMessages, DieKeepsMessages,
       RecycleKeepsMessages, PassOverKeepsMessages, ReadLinkKeepsMessages, SendKeepsMessages,
       SendFailsKeepsMessages, RecordSentKeepsMessages, FailKeepsMessages, DoneKeepsMessages
    DEF N!Next, N!Handler

(* Every status change a customer should hear of is told to the provider   *)
(* or given up by the event source after its retries: a batch that fails   *)
(* midway resumes at the record it names (the notification handler's       *)
(* batchItemFailures), for every batch size and number of retries.         *)
THEOREM MessagesAreSettled == N!Spec => []NothingSilentlyLost
  <1>1. MessageInvariant => NothingSilentlyLost
    BY DEF MessageInvariant
  <1> QED BY MessagesInitially, MessagesStep, <1>1, PTL DEF N!Spec

-----------------------------------------------------------------------------
(* The run that follows the pages or the messages implements either.       *)

LEMMA CustomersRun ==
  ASSUME [Tracks \/ Tells]_customerVars
  PROVE  /\ part' = part
         /\ part = "page" => [Next]_vars /\ UNCHANGED functionVars
         /\ part = "messages" => [N!Next]_(N!vars)
  <1>1. CASE UNCHANGED customerVars
    BY <1>1 DEF customerVars, vars, orderVars, pageVars, functionVars, tokenVars,
                N!vars, N!orderVars, N!functionVars, N!tokenVars
  <1>2. CASE Tracks
    BY <1>2 DEF Tracks
  <1>3. CASE Tells
    BY <1>3 DEF Tells
  <1> QED BY <1>1, <1>2, <1>3

(* Whatever is sent, polled and retried, feedback is stored once for what  *)
(* was delivered and links open their orders; nothing is silently lost.    *)
THEOREM CustomersAreServed ==
  CustomerSpec => /\ [](part = "page" => FeedbackOnceAfterDelivery /\ LinksResolveUntilTheyExpire)
                  /\ []NothingSilentlyLost
  <1> DEFINE Unread == position = 1
             Followed == /\ part \in {"page", "messages"}
                         /\ part = "page" => PageInvariant /\ Unread
                         /\ part = "messages" => MessageInvariant
  <1>1. CustomerInit => Followed
    BY PagesInitially, MessagesInitially DEF CustomerInit, Init, N!Init, N!FunctionInit
  <1>2. Followed /\ [Tracks \/ Tells]_customerVars => Followed'
    BY CustomersRun, PagesStep, MessagesStep DEF functionVars
  <1>3. Followed => NothingSilentlyLost
    <2>1. Unread => NothingSilentlyLost
      BY DEF NothingSilentlyLost, N!NothingSilentlyLost
    <2> QED BY <2>1 DEF MessageInvariant
  <1>4. Followed => (part = "page" => FeedbackOnceAfterDelivery /\ LinksResolveUntilTheyExpire)
    BY RowsAreStored, StandingLinksResolve
    DEF PageInvariant, OrdersInvariant, Thanked, ThankedOnce, FeedbackOnceAfterDelivery
  <1> QED BY <1>1, <1>2, <1>3, <1>4, PTL DEF CustomerSpec
=============================================================================
