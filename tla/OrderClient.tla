---------------------------- MODULE OrderClient -----------------------------
(***************************************************************************)
(* AlpacaBroker.market_order and bracket_order (src/broker/                *)
(* alpaca_client.py) with everything around the HTTP request: the _retry   *)
(* decorator, _is_retryable, _error_dict, and _call, which runs the SDK    *)
(* call on a worker thread and gives up waiting after a timeout.  The      *)
(* broker may accept the order and lose the answer, answer after the       *)
(* timeout, refuse, be overloaded, or be unreachable.                      *)
(*                                                                         *)
(* Delays (rate limiter, exponential backoff) are time the model does not  *)
(* measure.  One call at a time: the engine calls from the main thread.    *)
(***************************************************************************)
EXTENDS Naturals, FiniteSets

CONSTANTS MaxRetries          \* _retry(max_retries = 3)
ASSUME MaxRetriesAssumption == MaxRetries \in Nat

Attempts == 0..MaxRetries

\* A client_order_id: the caller's, or one that only this attempt carries.
CallerKey == <<"caller", 0>>
Keys == {CallerKey} \cup {"attempt"} \X Attempts

\* What the SDK call on the worker thread ends with.
Outcomes == {"order",         \* the broker's order object
             "refused",       \* HTTP 401, 403 or 422, or a programming error
             "transient"}     \* HTTP 429 or 5xx, or a lost connection

VARIABLES pc,                 \* the calling thread
          key,                \* {the caller's client_order_id}, or {}
          attempt,            \* attempt of _retry's loop
          accepted,           \* client_order_ids of the orders the broker accepted
          worker,             \* the SDK call on _call's executor thread
          gaveUp,             \* future.result(timeout) has timed out
          answer              \* what the caller gets

vars == <<pc, key, attempt, accepted, worker, gaveUp, answer>>

Init == /\ pc = "idle"
        /\ key = {}
        /\ attempt = 0
        /\ accepted = {}
        /\ worker = "none"
        /\ gaveUp = FALSE
        /\ answer = "none"

-----------------------------------------------------------------------------
\* market_order(..., client_order_id = k), or bracket_order, which has no such
\* parameter and sends none.
Call == /\ pc = "idle"
        /\ pc' = "attempt"
        /\ key' \in {{}, {CallerKey}}
        /\ UNCHANGED <<attempt, accepted, worker, gaveUp, answer>>

\* (mutant) The caller's id is not used.
RequestKeyAlwaysFresh == <<"attempt", attempt>>

\* The id of this attempt's request: without one from the caller, market_order
\* draws a fresh one inside the retried function, and the broker draws one for
\* a bracket order.
RequestKey == IF key # {} THEN CallerKey ELSE <<"attempt", attempt>>

\* _call: hand the request to the worker and wait for its future.
Submit == /\ pc = "attempt"
          /\ pc' = "waiting"
          /\ worker' = "running"
          /\ UNCHANGED <<key, attempt, accepted, gaveUp, answer>>

\* The broker takes the order; the answer arrives or is lost on the way.
BrokerAccepts == /\ worker = "running"
                 /\ RequestKey \notin accepted
                 /\ accepted' = accepted \cup {RequestKey}
                 /\ worker' \in {"order", "transient"}
                 /\ UNCHANGED <<pc, key, attempt, gaveUp, answer>>

\* The broker refuses a client_order_id it has seen, an invalid request, or
\* fails without effect.
BrokerDeclines == /\ worker = "running"
                  /\ worker' \in (IF RequestKey \in accepted THEN {"refused"}
                                                             ELSE {"refused", "transient"})
                  /\ UNCHANGED <<pc, key, attempt, accepted, gaveUp, answer>>

\* The request does not reach the broker although an earlier one did.
NetworkFails == /\ worker = "running"
                /\ worker' = "transient"
                /\ UNCHANGED <<pc, key, attempt, accepted, gaveUp, answer>>

\* future.result times out.  Leaving the "with ThreadPoolExecutor" block then
\* waits for the worker, so the TimeoutError is raised only once it is done.
Timeout == /\ pc = "waiting"
           /\ worker = "running"
           /\ ~gaveUp
           /\ gaveUp' = TRUE
           /\ UNCHANGED <<pc, key, attempt, accepted, worker, answer>>

\* What _is_retryable says of the way the attempt ended: a timeout (an OSError)
\* hides the worker's own outcome.
Retryable == gaveUp \/ worker = "transient"

\* (mutant) A timeout abandons the worker instead of waiting for it.
EndedEarly == /\ pc = "waiting"
              /\ worker \in Outcomes \/ gaveUp
              /\ worker' = IF worker = "running" THEN "running" ELSE "none"
              /\ gaveUp' = FALSE
              /\ UNCHANGED <<key, accepted>>

Ended == /\ pc = "waiting"
         /\ worker \in Outcomes
         /\ worker' = "none"
         /\ gaveUp' = FALSE
         /\ UNCHANGED <<key, accepted>>

\* (mutant) The loop counter is not advanced.
RetryCallUncounted == /\ Ended
                      /\ Retryable
                      /\ pc' = "attempt"
                      /\ UNCHANGED <<attempt, answer>>

\* (mutant) The bound is compared with <= .
RetryCallOnceMore == /\ Ended
                     /\ Retryable
                     /\ attempt <= MaxRetries
                     /\ attempt' = attempt + 1
                     /\ pc' = "attempt"
                     /\ UNCHANGED answer

\* except in wrapper: sleep, next attempt.
RetryCall == /\ Ended
             /\ Retryable
             /\ attempt < MaxRetries
             /\ attempt' = attempt + 1
             /\ pc' = "attempt"
             /\ UNCHANGED answer

\* except in wrapper: attempts exhausted, re-raise.
Exhausted == /\ Ended
             /\ Retryable
             /\ attempt = MaxRetries
             /\ answer' = "raised"
             /\ pc' = "answered"
             /\ UNCHANGED attempt

\* The order's dict, or _error_dict for an error that must not be retried.
Answered == /\ Ended
            /\ ~Retryable
            /\ answer' = worker
            /\ pc' = "answered"
            /\ UNCHANGED attempt

\* The caller goes on; a later call is a new logical order.
Return == /\ pc = "answered"
          /\ pc' = "idle"
          /\ key' = {}
          /\ attempt' = 0
          /\ accepted' = {}
          /\ answer' = "none"
          /\ UNCHANGED <<worker, gaveUp>>

Client == Call \/ Submit \/ Timeout \/ RetryCall \/ Exhausted \/ Answered \/ Return
Broker == BrokerAccepts \/ BrokerDeclines \/ NetworkFails

Next == Client \/ Broker

\* The thread runs; how long the broker takes is the broker's affair.
ClientFairness == WF_vars(Submit \/ Timeout \/ RetryCall \/ Exhausted \/ Answered)

Spec == Init /\ [][Next]_vars

FairSpec == Spec /\ ClientFairness

\* With a broker, or an HTTP stack, that ends every request some time.
ResponsiveSpec == FairSpec /\ WF_vars(Broker)

-----------------------------------------------------------------------------
TypeOK == /\ pc \in {"idle", "attempt", "waiting", "answered"}
          /\ key \in {{}, {CallerKey}}
          /\ attempt \in Attempts
          /\ accepted \subseteq Keys
          /\ worker \in {"none", "running"} \cup Outcomes
          /\ gaveUp \in BOOLEAN
          /\ answer \in {"none", "order", "refused", "raised"}

\* The contract the engine relies on: in particular an order in the answer
\* exists at the broker, and no order appears after the answer, because _call
\* waits for a request it has given up on.
Contract == INSTANCE OrderService
              WITH MaxOrders <- MaxRetries + 1, orders <- Cardinality(accepted)
ContractSpec == Contract!Spec

\* client_order_id makes the retries of one call idempotent: a caller that
\* passes one never owns two orders (base.py, market_order's docstring).
KeyedCallsPlaceOnce == key # {} => Cardinality(accepted) <= 1

\* Every started call comes back to the engine's loop.
CallsReturn == pc = "attempt" ~> pc = "answered"

\* "Generate idempotency key if not provided" (alpaca_client.py:365): the
\* retries of a call without client_order_id place at most one order too.
AtMostOneOrder == Cardinality(accepted) <= 1
=============================================================================
