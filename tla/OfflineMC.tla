----------------------------- MODULE OfflineMC -----------------------------
(* OfflineSync on small instances: taps and passes are interchangeable. *)
EXTENDS OfflineSync, TLC

Interchangeable == Permutations(Taps) \cup Permutations(Flushes)

\* Bounds of the run with two taps.  Only the driver moves the order, one step for
\* each of the keys that took effect, and no record expires under it.
OrderLeftToDriver ==
  order = CASE Cardinality(applied) = 0 -> "ASSIGNED"
            [] Cardinality(applied) = 1 -> "IN_PROGRESS"
            [] OTHER -> "ARRIVED"

NothingExpires == \A k \in applied : records[k] # Server!Missing

\* The first requests of both taps are lost on the way: both are queued.
DriverOffline ==
  \A t \in Taps :
    \/ taps[t].state \in {"untried", "trying"} /\ calls[<<t, "first">>].at \in {"idle", "sent", "dead"}
    \/ taps[t].state = "queued" /\ calls[<<t, "first">>].at \in {"idle", "dead"}
=============================================================================
