----------------------------- MODULE TradeStream -----------------------------
(***************************************************************************)
(* The trade-update stream: the runner thread of AlpacaClient that keeps a *)
(* connection open (src/broker/alpaca_client.py), the handler of main.py   *)
(* that publishes each fill once, and the main thread that stops both when *)
(* the program ends.                                                       *)
(*                                                                         *)
(* TradingStream is the exchange's library: run() takes updates until it   *)
(* raises or returns, and stop() reaches it only while run() is under way. *)
(* The exchange sends a fill to a connected stream, again after a          *)
(* reconnection, and never to one that is not connected.                   *)
(***************************************************************************)
EXTENDS Naturals, FiniteSets

CONSTANTS
    Fills,          \* keys of fills: order, kind, quantity and price
    MaxSeen,        \* _MAX_SEEN_FILLS = 10000
    MaxReconnects,  \* max_reconnect_attempts = 50
    MaxBackoff,     \* max_backoff = 60.0
    MaxDeliveries   \* bound: updates the exchange sends

ASSUME StreamAssumption ==
    /\ {MaxSeen, MaxReconnects, MaxBackoff, MaxDeliveries} \subseteq Nat \ {0}

VARIABLES
    runner,     \* the runner's step, its reconnect_attempts and backoff
    stream,     \* _trade_stream: "none" before the start and after stop()
    flag,       \* _shutdown_flag
    main,       \* "setup", "running", or the step of stop_trade_stream
    seen,       \* _seen_fill_events
    published,  \* how often each fill was published (history)
    forgotten,  \* how often it was dropped from `seen` (history)
    sent,       \* how many updates the exchange sent
    fresh,      \* history: an update was received since the last failure
    deaf        \* history: stop() came between the runner's check and its run()

streamVars == << runner, stream, flag, main, seen, published, forgotten, sent, fresh, deaf >>
handler == << seen, published, forgotten, sent >>

RunnerSteps == {"off", "check", "enter", "up", "sleep", "rest", "ended"}
Fresh == [pc |-> "check", failures |-> 0, backoff |-> 1]

StreamInit ==
    /\ runner = [Fresh EXCEPT !.pc = "off"]
    /\ stream = "none" /\ flag = FALSE /\ main = "setup"
    /\ seen = {} /\ sent = 0
    /\ published = [f \in Fills |-> 0] /\ forgotten = [f \in Fills |-> 0]
    /\ fresh = FALSE /\ deaf = FALSE

-----------------------------------------------------------------------------
(* main() starts the stream once, and stops it at the end.                 *)

StartStream ==
    /\ main = "setup"
    /\ main' = "running" /\ stream' = "made" /\ flag' = FALSE
    /\ runner' = Fresh
    /\ UNCHANGED << handler, fresh, deaf >>

StopFlag ==
    /\ main = "running"
    /\ flag' = TRUE /\ main' = "stop"
    /\ UNCHANGED << runner, stream, handler, fresh, deaf >>

\* stop() ends a run() under way; whether it raises or not, the reference is dropped.
StopLibrary ==
    /\ main = "stop"
    /\ stream' = "none" /\ main' = "join"
    /\ runner' = IF runner.pc = "up" THEN [runner EXCEPT !.pc = "rest"] ELSE runner
    /\ deaf' = (runner.pc = "enter")
    /\ UNCHANGED << flag, handler, fresh >>

\* The join ends with the thread or after five seconds.
Join ==
    /\ main = "join" /\ main' = "stopped"
    /\ UNCHANGED << runner, stream, flag, handler, fresh, deaf >>

-----------------------------------------------------------------------------
(* _trade_stream_runner.                                                   *)

Go(pc) == runner' = [runner EXCEPT !.pc = pc]
RunnerOnly == UNCHANGED << stream, flag, main, handler, deaf >>

\* (mutant) The loop looks at the flag only after a failure.
CheckNothing ==
    /\ runner.pc = "check"
    /\ Go("enter")
    /\ RunnerOnly /\ UNCHANGED fresh

Check ==
    /\ runner.pc = "check"
    /\ Go(IF flag THEN "ended" ELSE "enter")
    /\ RunnerOnly /\ UNCHANGED fresh

\* run() connects; on a dropped reference it is an AttributeError like any failure,
\* unless the reference was read before.
Run ==
    /\ runner.pc = "enter"
    /\ stream = "made" \/ deaf
    /\ Go("up")
    /\ RunnerOnly /\ UNCHANGED fresh

\* (mutant) The pause doubles for ever.
BackoffUncapped(b) == 2 * b

Backoff(b) == IF 2 * b < MaxBackoff THEN 2 * b ELSE MaxBackoff

\* run() raises: counted for the life of the thread, whatever was received in between.
Fail ==
    /\ runner.pc \in {"enter", "up"}
    /\ LET n == runner.failures + 1 IN
       runner' = IF flag THEN [runner EXCEPT !.pc = "ended"]
                 ELSE IF n >= MaxReconnects
                      THEN [runner EXCEPT !.pc = "ended", !.failures = n]
                      ELSE [runner EXCEPT !.pc = "sleep", !.failures = n]
    /\ UNCHANGED fresh
    /\ RunnerOnly

\* After the pause a new stream is made, even for a runner that was told to stop; a
\* failure to make one is logged.
Wake ==
    /\ runner.pc = "sleep"
    /\ runner' = [runner EXCEPT !.pc = "check", !.backoff = Backoff(@)]
    /\ stream' \in {"made", stream}
    /\ fresh' = FALSE
    /\ UNCHANGED << flag, main, handler, deaf >>

\* (mutant) A connection that ends without an error ends the thread.
HangUpForGood ==
    /\ runner.pc = "up"
    /\ Go("ended")
    /\ RunnerOnly /\ UNCHANGED fresh

\* run() returns: attempts and backoff start over.
HangUp ==
    /\ runner.pc = "up"
    /\ Go("rest")
    /\ RunnerOnly /\ UNCHANGED fresh

Rest ==
    /\ runner.pc = "rest"
    /\ runner' = Fresh
    /\ fresh' = FALSE
    /\ RunnerOnly

-----------------------------------------------------------------------------
(* The handler, in the runner's thread.                                    *)

\* list(set) has no order: half the limit is dropped, not the oldest half.
Kept(s) == IF Cardinality(s) <= MaxSeen THEN {s}
           ELSE {k \in SUBSET s : Cardinality(k) = Cardinality(s) - MaxSeen \div 2}

\* (mutant) The keys already seen are not looked at.
UpdateUnchecked(f) ==
    /\ runner.pc = "up" /\ sent < MaxDeliveries
    /\ sent' = sent + 1
    /\ seen' \in Kept(seen \cup {f})
    /\ forgotten' = [g \in Fills |-> forgotten[g] + Cardinality({g} \cap ((seen \cup {f}) \ seen'))]
    /\ published' = [published EXCEPT ![f] = @ + 1]
    /\ fresh' = TRUE
    /\ UNCHANGED << runner, stream, flag, main, deaf >>

Update(f) ==
    /\ runner.pc = "up" /\ sent < MaxDeliveries
    /\ sent' = sent + 1
    /\ IF f \in seen THEN UNCHANGED << seen, forgotten, published >>
       ELSE /\ seen' \in Kept(seen \cup {f})
            /\ forgotten' = [g \in Fills |->
                               forgotten[g] + Cardinality({g} \cap ((seen \cup {f}) \ seen'))]
            /\ published' = [published EXCEPT ![f] = @ + 1]
    /\ fresh' = TRUE
    /\ UNCHANGED << runner, stream, flag, main, deaf >>

-----------------------------------------------------------------------------
Runner == Check \/ Run \/ Fail \/ Wake \/ HangUp \/ Rest
Main == StartStream \/ StopFlag \/ StopLibrary \/ Join

StreamNext == Runner \/ Main \/ (\E f \in Fills : Update(f))

\* Both threads run on.  run() need neither end nor fail, and main need not stop.
Fairness ==
    /\ WF_streamVars(Check) /\ WF_streamVars(Run) /\ WF_streamVars(Wake) /\ WF_streamVars(Rest)
    /\ WF_streamVars(StopLibrary) /\ WF_streamVars(Join)

StreamSpec == StreamInit /\ [][StreamNext]_streamVars /\ Fairness

-----------------------------------------------------------------------------
(* Properties.                                                             *)

\* Every variable has its type; the backoff is between a second and its maximum.
StreamTypeOK ==
    /\ runner.pc \in RunnerSteps
    /\ runner.failures \in 0 .. MaxReconnects
    /\ runner.backoff \in 1 .. MaxBackoff
    /\ stream \in {"none", "made"} /\ flag \in BOOLEAN
    /\ main \in {"setup", "running", "stop", "join", "stopped"}
    /\ seen \subseteq Fills /\ Cardinality(seen) <= MaxSeen
    /\ published \in [Fills -> 0 .. MaxDeliveries]
    /\ forgotten \in [Fills -> 0 .. MaxDeliveries]
    /\ sent \in 0 .. MaxDeliveries
    /\ fresh \in BOOLEAN /\ deaf \in BOOLEAN

\* However often the exchange sends a fill, over however many connections, it is
\* published once, and once more for each time it was forgotten.
FillsApart == \A f \in Fills : published[f] <= 1 + forgotten[f]

\* Until the program stops, the stream comes back from every failure but the one too many.
StreamReturns == main = "running" ~>
    \/ runner.pc = "up"
    \/ main # "running"
    \/ runner.pc = "ended" /\ runner.failures >= MaxReconnects

\* stop_trade_stream ends the runner in whatever step it finds it, but for the one
\* between the check of the flag and run().
StopEnds == (main = "stopped" /\ ~deaf) ~> runner.pc = "ended"

\* (refuted) After an update was received the next pause is the shortest.
BackoffReset == runner.pc = "sleep" /\ fresh => runner.backoff = 1
\* (refuted) The fill just published is not published again by a repeated update.
LatestFillIsKept == [][\A f \in Fills : published'[f] > published[f] => f \in seen']_streamVars
=============================================================================
