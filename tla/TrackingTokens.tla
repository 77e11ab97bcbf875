--------------------------- MODULE TrackingTokens ---------------------------
(***************************************************************************)
(* The capability tokens of customer tracking: TrackingTokenService and    *)
(* the two items per token that OrderRepository writes, the order's token  *)
(* item and the public lookup by hash.  A token and its hash are one model *)
(* value.  `ensure` is two awaited calls, so callers interleave between    *)
(* the read of the order's token and the write of a replacement.  The      *)
(* table's TTL (attribute expiresAt) removes expired items at its leisure. *)
(***************************************************************************)
EXTENDS Naturals

CONSTANTS Orders,     \* orders
          Tokens,     \* the tokens the generator may draw; none is drawn twice
          Callers,    \* requests that may run `ensure` at the same time
          Lifetime,   \* TRACKING_TOKEN_TTL_SECONDS in ticks of the clock
          MaxTime,    \* bound: the clock stops here
          None

ASSUME LifetimeAssumption == Lifetime \in Nat \ {0}

VARIABLES now,       \* the clock, in ticks
          current,   \* order -> its token item, or None
          lookup,    \* token -> the public lookup item, or None
          call,      \* caller -> where its `ensure` stands, or None
          links      \* the links handed to somebody so far

tokenVars == <<now, current, lookup, call, links>>

TokenRow == [token : Tokens, expiresAt : Nat]
LookupRow == [order : Orders, expiresAt : Nat]
Link == [order : Orders, token : Tokens, expiresAt : Nat]
Calls == [stage : {"save", "have"}, order : Orders, token : Tokens, expiresAt : Nat]

ASSUME NoneAssumption == None \notin Tokens /\ None \notin Orders /\ None \notin LookupRow

\* A random 256-bit token: one nobody holds, has held or is about to save.
Fresh == {t \in Tokens : /\ lookup[t] = None
                         /\ \A o \in Orders : current[o] = None \/ current[o].token # t
                         /\ \A c \in Callers : call[c] = None \/ call[c].token # t
                         /\ \A l \in links : l.token # t}

\* The public routes: the lookup item names the order and has not expired.
Resolves(token, order) ==
  /\ lookup[token] # None
  /\ lookup[token].order = order
  /\ lookup[token].expiresAt > now

Unexpired(order) == current[order] # None /\ current[order].expiresAt > now

TokenInit ==
  /\ now = 0
  /\ current = [o \in Orders |-> None]
  /\ lookup = [t \in Tokens |-> None]
  /\ call = [c \in Callers |-> None]
  /\ links = {}

\* Fault: a replacement removes the lookup of the token it replaces.
LookupsAfterRevoking(order, row) ==
  [t \in Tokens |-> IF t = row.token
                    THEN [order |-> order, expiresAt |-> row.expiresAt]
                    ELSE IF current[order] # None /\ current[order].token = t
                    THEN None ELSE lookup[t]]

\* The second Put: a lookup item for the new hash; earlier hashes stay.
LookupsAfter(order, row) ==
  [lookup EXCEPT ![row.token] = [order |-> order, expiresAt |-> row.expiresAt]]

\* One transaction writes both items; it fails when the hash is taken.
Save(order, row) ==
  /\ lookup[row.token] = None
  /\ current' = [current EXCEPT ![order] = row]
  /\ lookup' = LookupsAfter(order, row)

\* Order creation issues a first token inside its own transaction.
CreateWithToken(order) ==
  /\ current[order] = None
  /\ \E t \in Fresh : Save(order, [token |-> t, expiresAt |-> now + Lifetime])
  /\ UNCHANGED <<now, call, links>>

\* ensure, first await: an unexpired token is the answer, else a replacement
\* is drawn, dated by the clock of this read.
EnsureRead(caller, order) ==
  /\ call[caller] = None
  /\ \/ /\ Unexpired(order)
        /\ call' = [call EXCEPT ![caller] =
             [stage |-> "have", order |-> order, token |-> current[order].token,
              expiresAt |-> current[order].expiresAt]]
     \/ /\ ~Unexpired(order)
        /\ \E t \in Fresh :
             call' = [call EXCEPT ![caller] =
               [stage |-> "save", order |-> order, token |-> t,
                expiresAt |-> now + Lifetime]]
  /\ UNCHANGED <<now, current, lookup, links>>

\* ensure, second await: the order's token item is overwritten, whoever wrote
\* it in the meantime.
EnsureSave(caller) ==
  /\ call[caller] # None /\ call[caller].stage = "save"
  /\ Save(call[caller].order, [token |-> call[caller].token,
                               expiresAt |-> call[caller].expiresAt])
  /\ call' = [call EXCEPT ![caller].stage = "have"]
  /\ UNCHANGED <<now, links>>

\* The transaction conflicts with another one or the store fails: ensure throws.
EnsureFails(caller) ==
  /\ call[caller] # None /\ call[caller].stage = "save"
  /\ call' = [call EXCEPT ![caller] = None]
  /\ UNCHANGED <<now, current, lookup, links>>

\* GET tracking-link answers with the link.
HandOut(caller) ==
  /\ call[caller] # None /\ call[caller].stage = "have"
  /\ links' = links \cup {[order |-> call[caller].order, token |-> call[caller].token,
                           expiresAt |-> call[caller].expiresAt]}
  /\ call' = [call EXCEPT ![caller] = None]
  /\ UNCHANGED <<now, current, lookup>>

\* The notification function reads the order's token for the message it is
\* about to send: an unexpired one becomes a link in the customer's hands.
TextLink(order) ==
  /\ Unexpired(order)
  /\ links' = links \cup {[order |-> order, token |-> current[order].token,
                           expiresAt |-> current[order].expiresAt]}
  /\ UNCHANGED <<now, current, lookup, call>>

Tick ==
  /\ now < MaxTime
  /\ now' = now + 1
  /\ UNCHANGED <<current, lookup, call, links>>

\* The table's TTL removes an expired item of either kind.
Reap ==
  /\ \/ \E o \in Orders :
          /\ current[o] # None /\ current[o].expiresAt <= now
          /\ current' = [current EXCEPT ![o] = None]
          /\ UNCHANGED lookup
     \/ \E t \in Tokens :
          /\ lookup[t] # None /\ lookup[t].expiresAt <= now
          /\ lookup' = [lookup EXCEPT ![t] = None]
          /\ UNCHANGED current
  /\ UNCHANGED <<now, call, links>>

TokenStep ==
  \/ \E o \in Orders : CreateWithToken(o) \/ TextLink(o)
  \/ \E c \in Callers, o \in Orders : EnsureRead(c, o)
  \/ \E c \in Callers : EnsureSave(c) \/ EnsureFails(c) \/ HandOut(c)
  \/ Tick
  \/ Reap

-----------------------------------------------------------------------------
TokenTypeOK ==
  /\ now \in Nat
  /\ current \in [Orders -> TokenRow \cup {None}]
  /\ lookup \in [Tokens -> LookupRow \cup {None}]
  /\ call \in [Callers -> Calls \cup {None}]
  /\ links \in SUBSET Link

\* A link somebody was given opens that order until its own date, however many
\* requests replaced the order's token since: ensure overwrites the order's
\* item without asking, so the lookups of earlier tokens must survive it.
LinksResolveUntilTheyExpire ==
  \A l \in links : l.expiresAt > now => Resolves(l.token, l.order)
=============================================================================
