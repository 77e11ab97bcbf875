----------------------------- MODULE Geocoding -----------------------------
(***************************************************************************)
(* The validation of an address: the dialog that creates an order          *)
(* (CreateOrderDialog), and GeocodingService with its cache and its        *)
(* limiter in front of a provider.  A candidate is known by its address,   *)
(* of which its coordinates are those.  Manual coordinates are left out.   *)
(***************************************************************************)
EXTENDS Naturals, Sequences

CONSTANTS
  Dialogs,
  Calls,      \* requests to the service, which go on when their dialog gives up
  Addresses,
  Found,      \* address -> the address of the provider's candidate, or None
  Interval,   \* minIntervalMs
  CacheFor,   \* the 24 hours of the cache
  MaxTime, MaxOrders,  \* bounds
  None

VARIABLES
  now,
  form,       \* dialog -> its address, the place of its coordinates, its candidate, its call
  call,       \* call -> how far it is
  cache,      \* address -> when its answer expires, or None
  nextRequestAt,
  sent,       \* history: when the provider was asked
  created     \* the orders created: address and place

service == <<call, cache, nextRequestAt, sent>>
vars == <<now, form, service, created>>

Init ==
  /\ now = 0
  /\ form = [d \in Dialogs |-> [address |-> None, place |-> None, candidate |-> None,
                                call |-> None]]
  /\ call = [c \in Calls |-> [stage |-> "free"]]
  /\ cache = [a \in Addresses |-> None]
  /\ nextRequestAt = 0
  /\ sent = <<>> /\ created = <<>>

-----------------------------------------------------------------------------
(* The dialog.                                                             *)

\* Another address takes the candidates away, and leaves the coordinates.
Edit(d) ==
  /\ \E a \in Addresses \ {form[d].address} :
       form' = [form EXCEPT ![d].address = a, ![d].candidate = None]
  /\ UNCHANGED <<now, service, created>>

Validate(d) ==
  /\ form[d].call = None /\ form[d].address # None
  /\ \E c \in Calls :
       /\ call[c].stage = "free"
       /\ call' = [call EXCEPT ![c] = [stage |-> "arrived", address |-> form[d].address]]
       /\ form' = [form EXCEPT ![d].call = c]
  /\ UNCHANGED <<now, cache, nextRequestAt, sent, created>>

\* The candidates of the address that was asked for, whatever the address is by now.
Filled(d) ==
  LET c == form[d].call IN
  /\ c # None /\ call[c].stage = "answered"
  /\ form' = [form EXCEPT ![d].candidate = Found[call[c].address], ![d].call = None]
  /\ call' = [call EXCEPT ![c] = [stage |-> "free"]]
  /\ UNCHANGED <<now, cache, nextRequestAt, sent, created>>

\* The provider failed, or the dialog waited for too long.
Unavailable(d) ==
  LET c == form[d].call IN
  /\ c # None
  /\ form' = [form EXCEPT ![d].call = None]
  /\ call' = IF call[c].stage = "failed" THEN [call EXCEPT ![c] = [stage |-> "free"]] ELSE call
  /\ UNCHANGED <<now, cache, nextRequestAt, sent, created>>

Pick(d) ==
  /\ form[d].candidate # None
  /\ form' = [form EXCEPT ![d].address = form[d].candidate, ![d].place = form[d].candidate,
                          ![d].candidate = None]
  /\ UNCHANGED <<now, service, created>>

Submit(d) ==
  /\ form[d].address # None /\ form[d].place # None /\ Len(created) < MaxOrders
  /\ created' = Append(created, [address |-> form[d].address, place |-> form[d].place])
  /\ form' = [form EXCEPT ![d] = [address |-> None, place |-> None, candidate |-> None,
                                  call |-> None]]
  /\ UNCHANGED <<now, service>>

-----------------------------------------------------------------------------
(* The service.                                                            *)

Becomes(c, stage) == call' = [call EXCEPT ![c].stage = stage]

Fresh(a) == cache[a] # None /\ cache[a] > now

Hit(c) ==
  /\ call[c].stage = "arrived" /\ Fresh(call[c].address)
  /\ Becomes(c, "answered")
  /\ UNCHANGED <<now, form, cache, nextRequestAt, sent, created>>

Misses(c) == call[c].stage = "arrived" /\ ~Fresh(call[c].address)

\* A call that comes too early waits out what it found.
Wait(c) ==
  /\ Misses(c) /\ nextRequestAt > now
  /\ call' = [call EXCEPT ![c] = [stage |-> "waiting", address |-> @.address,
                                  until |-> nextRequestAt]]
  /\ UNCHANGED <<now, form, cache, nextRequestAt, sent, created>>

\* In time, or having waited, it asks the provider at once.
Fetch(c) ==
  /\ \/ Misses(c) /\ nextRequestAt <= now
     \/ call[c].stage = "waiting" /\ call[c].until <= now
  /\ nextRequestAt' = now + Interval
  /\ sent' = Append(sent, now)
  /\ Becomes(c, "fetching")
  /\ UNCHANGED <<now, form, cache, created>>

Answered(c) ==
  /\ call[c].stage = "fetching"
  /\ cache' = [cache EXCEPT ![call[c].address] = now + CacheFor]
  /\ Becomes(c, "answered")
  /\ UNCHANGED <<now, form, nextRequestAt, sent, created>>

Fails(c) ==
  /\ call[c].stage = "fetching"
  /\ Becomes(c, "failed")
  /\ UNCHANGED <<now, form, cache, nextRequestAt, sent, created>>

\* An answer nobody waits for.
Unheard(c) ==
  /\ call[c].stage \in {"answered", "failed"}
  /\ \A d \in Dialogs : form[d].call # c
  /\ call' = [call EXCEPT ![c] = [stage |-> "free"]]
  /\ UNCHANGED <<now, form, cache, nextRequestAt, sent, created>>

Tick ==
  /\ now < MaxTime
  /\ now' = now + 1
  /\ UNCHANGED <<form, service, created>>

-----------------------------------------------------------------------------
Next ==
  \/ \E d \in Dialogs : \/ Edit(d) \/ Validate(d) \/ Filled(d) \/ Unavailable(d)
                        \/ Pick(d) \/ Submit(d)
  \/ \E c \in Calls : \/ Hit(c) \/ Wait(c) \/ Fetch(c) \/ Answered(c) \/ Fails(c) \/ Unheard(c)
  \/ Tick

Spec == Init /\ [][Next]_vars

-----------------------------------------------------------------------------
\* Local mode uses a limiter of one request per second: two requests to the provider are
\* an interval apart.
OneRequestPerInterval ==
  \A i, j \in 1 .. Len(sent) : i < j => sent[j] >= sent[i] + Interval
=============================================================================
