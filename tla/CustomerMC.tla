----------------------------- MODULE CustomerMC -----------------------------
(***************************************************************************)
(* What a customer is shown and what a customer is told, in one run: a     *)
(* behaviour follows the tracking page or the notification function, with  *)
(* the orders and tokens of either.  The pages are of one token, a clock   *)
(* that lets it expire, and an order that may be as old as Legacy; the     *)
(* messages are of two requests that both need a token.                    *)
(***************************************************************************)
EXTENDS CustomerTracking, Sequences

CONSTANTS
  MessageTokens, MessageCallers, MessageSteps, MessageTime,  \* as Tokens and so on, of that part
  MaxChanges, MaxMessages, MaxBatch, Retries

VARIABLES part, stream, position, batchEnd, attempts, at, stage, link, secret, sms, log, dropped

functionVars == <<stream, position, batchEnd, attempts, at, stage, link, secret, sms, log, dropped>>

N == INSTANCE DeliveryNotification
       WITH Tokens <- MessageTokens, Callers <- MessageCallers, MaxTime <- MessageTime,
            Windows <- {}, Ratings <- {}, Steps <- MessageSteps, Reachable <- Orders

-----------------------------------------------------------------------------
CustomerInit ==
  /\ PagesInit /\ N!FunctionInit
  /\ \/ part = "page" /\ OrdersInit
     \/ part = "messages" /\ N!OrdersInit

Tracks == part = "page" /\ Next /\ UNCHANGED <<part, functionVars>>
Tells == part = "messages" /\ N!Next /\ UNCHANGED <<part, pageVars>>

customerVars == <<part, orderVars, pageVars, functionVars>>
tellVars == <<orderVars, functionVars>>

\* The fairness of each part, for that part.
CustomerFairness ==
  /\ \A p \in Tabs : /\ WF_vars(part = "page" /\ Poll(p))
                     /\ SF_vars(part = "page" /\ ReadOrder(p))
                     /\ SF_vars(part = "page" /\ ReadRest(p))
                     /\ SF_vars(part = "page" /\ Show(p))
  /\ WF_tellVars(part = "messages" /\ N!Invoke)
  /\ WF_tellVars(part = "messages" /\ N!GiveUp)
  /\ WF_tellVars(part = "messages" /\ (N!Handler \/ N!Die))

CustomerSpec == CustomerInit /\ [][Tracks \/ Tells]_customerVars /\ CustomerFairness

-----------------------------------------------------------------------------
\* A change a customer should hear of is told, or given up after its retries.
NothingSilentlyLost == N!NothingSilentlyLost

\* No change holds up the stream for ever, whatever the provider does.
StreamDrains == N!StreamDrains
=============================================================================
