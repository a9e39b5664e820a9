----------------------------- MODULE TradeBook ------------------------------
(***************************************************************************)
(* What the trading process promises about the trades its engine creates,  *)
(* whatever threads, crashes and broker do: a trade is considered once,    *)
(* ordered only while it is being worked, taken for a position only when   *)
(* an order exists, and out of the market for good once it is finished or  *)
(* forgotten.  All trades may move in one step (a crash forgets them all,  *)
(* a recovery finishes several); an order is for one trade.                *)
(***************************************************************************)
EXTENDS Naturals

CONSTANTS TradeId,
          MaxOrders           \* most orders placed for one trade

VARIABLES phase,              \* trade -> where it is in its life
          orders              \* trade -> orders the broker accepted for it

vars == <<phase, orders>>

Phases == {"unused",          \* not created yet
           "considered",      \* created, waiting for risk approval
           "approved",        \* approved, no order asked for
           "working",         \* an order is being asked for
           "position",        \* accepted by the broker, and on to its close
           "finished",        \* closed, rejected, cancelled or in error
           "forgotten"}       \* finished and dropped, or lost with the process

Init == /\ phase = [t \in TradeId |-> "unused"]
        /\ orders = [t \in TradeId |-> 0]

\* One step in the life of trade t, without a new order.
Advances(t) ==
    \/ phase[t] = "unused" /\ phase'[t] = "considered"
    \/ phase[t] = "considered" /\ phase'[t] \in {"approved", "working", "finished"}
    \/ phase[t] = "approved" /\ phase'[t] = "finished"
    \/ phase[t] = "working" /\ phase'[t] = "finished"
    \/ phase[t] = "working" /\ phase'[t] = "position" /\ orders[t] > 0
    \/ phase[t] = "position" /\ phase'[t] = "finished"
    \/ phase[t] # "unused" /\ phase'[t] = "forgotten"

\* Trades move; no order is placed.
Move == /\ phase' \in [TradeId -> Phases]
        /\ \A t \in TradeId : phase'[t] = phase[t] \/ Advances(t)
        /\ UNCHANGED orders

\* The broker accepts an order for the trade that is being worked.
Order(t) == /\ phase[t] = "working"
            /\ orders[t] < MaxOrders
            /\ orders' = [orders EXCEPT ![t] = @ + 1]
            /\ UNCHANGED phase

Next == Move \/ \E t \in TradeId : Order(t)

Spec == Init /\ [][Next]_vars
=============================================================================
