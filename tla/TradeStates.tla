----------------------------- MODULE TradeStates -----------------------------
(***************************************************************************)
(* The states of a trade and the transition table of                       *)
(* src/core/state_machine.py.  TradeLifecycle.transition() applies a legal *)
(* transition and answers False, changing nothing, to any other; almost    *)
(* every caller ignores the answer, so what a caller gets is After(s, t).  *)
(***************************************************************************)
TradeState ==
    {"SIGNAL", "PENDING_RISK", "RISK_APPROVED", "RISK_REJECTED", "SUBMITTED",
     "ACCEPTED", "PARTIALLY_FILLED", "FILLED", "ACTIVE", "STOP_TRIGGERED",
     "TRAILING", "CLOSING", "CLOSED", "CANCELLED", "EXPIRED", "ERROR"}

Terminal == {"CLOSED", "CANCELLED", "EXPIRED", "ERROR", "RISK_REJECTED"}

\* _TRANSITIONS, as the set of its (state, next state) pairs.
Transitions ==
    {<<"SIGNAL", "PENDING_RISK">>,
     <<"PENDING_RISK", "RISK_APPROVED">>, <<"PENDING_RISK", "RISK_REJECTED">>,
     <<"RISK_APPROVED", "SUBMITTED">>,
     <<"SUBMITTED", "ACCEPTED">>, <<"SUBMITTED", "CANCELLED">>, <<"SUBMITTED", "EXPIRED">>,
     <<"ACCEPTED", "PARTIALLY_FILLED">>, <<"ACCEPTED", "FILLED">>,
     <<"ACCEPTED", "CANCELLED">>, <<"ACCEPTED", "EXPIRED">>,
     <<"PARTIALLY_FILLED", "FILLED">>, <<"PARTIALLY_FILLED", "CANCELLED">>,
     <<"PARTIALLY_FILLED", "EXPIRED">>,
     <<"FILLED", "ACTIVE">>,
     <<"ACTIVE", "STOP_TRIGGERED">>, <<"ACTIVE", "TRAILING">>,
     <<"ACTIVE", "CLOSING">>, <<"ACTIVE", "CLOSED">>,
     <<"STOP_TRIGGERED", "CLOSING">>,
     <<"TRAILING", "CLOSING">>, <<"TRAILING", "STOP_TRIGGERED">>,
     <<"CLOSING", "CLOSED">>}

\* _is_valid_transition: ERROR is reachable from every non-terminal state.
Allowed(s, t) == \/ t = "ERROR" /\ s \notin Terminal
                 \/ <<s, t>> \in Transitions

\* (mutant) transition() without validation.
AfterUnchecked(s, t) == t

\* The state transition(t) leaves behind when its answer is not looked at.
After(s, t) == IF Allowed(s, t) THEN t ELSE s

\* The six transitions by which recovery and the reconciler bring a lifecycle
\* they have just created to the state of an open position.
FastForward == After(After(After(After(After(After(
                   "SIGNAL", "PENDING_RISK"), "RISK_APPROVED"), "SUBMITTED"),
                   "ACCEPTED"), "FILLED"), "ACTIVE")

\* The two transitions by which the engine closes the lifecycle of a position.
CloseOut(s) == After(After(s, "CLOSING"), "CLOSED")

\* What the broker has accepted, until and including its close.
Accepted == {"ACCEPTED", "PARTIALLY_FILLED", "FILLED", "ACTIVE", "STOP_TRIGGERED", "TRAILING",
             "CLOSING", "CLOSED"}

\* The states the reaper looks at: not yet a position, not terminal.
InFlight == {"SIGNAL", "PENDING_RISK", "RISK_APPROVED", "SUBMITTED", "ACCEPTED",
             "PARTIALLY_FILLED"}
=============================================================================
