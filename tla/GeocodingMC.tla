---------------------------- MODULE GeocodingMC ----------------------------
(***************************************************************************)
(* Two addresses as they are typed, one as the provider writes it, and one *)
(* the provider does not know.                                             *)
(***************************************************************************)
EXTENDS Naturals

CONSTANTS p1, p2, p3, c1, c2, c3, MaxOrders, None

VARIABLES now, form, call, cache, nextRequestAt, sent, created

Typed == {"72 Nguyen Hue", "nowhere", "72 Nguyen Hue Street"}
Known == [a \in Typed |-> IF a = "nowhere" THEN None ELSE "72 Nguyen Hue Street"]

G == INSTANCE Geocoding
       WITH Dialogs <- {p1, p2, p3}, Calls <- {c1, c2, c3}, Addresses <- Typed,
            Found <- Known, Interval <- 1, CacheFor <- 2, MaxTime <- 1

Spec == G!Spec

\* Local mode uses a limiter of one request per second.
OneRequestPerInterval == G!OneRequestPerInterval
=============================================================================
