---------------------------- MODULE OrderService ----------------------------
(***************************************************************************)
(* What the engine may rely on when it asks the broker for an order: one   *)
(* logical call of market_order or bracket_order of the broker protocol    *)
(* (src/broker/base.py), seen from its caller.  The call may place several *)
(* orders, places none once it has answered, and an answer that carries    *)
(* an order means that at least one exists.  An error answer ("refused",   *)
(* the error dict; "raised", the exception) promises nothing about how     *)
(* many orders exist: the caller cannot conclude that there is none.       *)
(***************************************************************************)
EXTENDS Naturals

CONSTANT MaxOrders            \* the most orders one call can place

VARIABLES answer,             \* "none" while the call runs
          orders              \* orders the broker accepted for this call

vars == <<answer, orders>>

Init == answer = "none" /\ orders = 0

Place == /\ answer = "none"
         /\ orders < MaxOrders
         /\ orders' = orders + 1
         /\ UNCHANGED answer

Answer == /\ answer = "none"
          /\ answer' \in {"refused", "raised"} \cup IF orders > 0 THEN {"order"} ELSE {}
          /\ UNCHANGED orders

\* The caller takes the answer and may call again.
Return == /\ answer # "none"
          /\ answer' = "none"
          /\ orders' = 0

Next == Place \/ Answer \/ Return

Spec == Init /\ [][Next]_vars
=============================================================================
