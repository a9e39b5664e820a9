-------------------------- MODULE ExecutionEngine ---------------------------
(***************************************************************************)
(* The trading process: the main loop of main.py driving                   *)
(* ExecutionEngine.run_cycle (src/execution/engine.py), TradeManager       *)
(* (src/core/state_machine.py), PortfolioReconciler                        *)
(* (src/core/reconciliation.py), RecoveryManager (src/core/recovery.py),   *)
(* the Telegram thread acting on the same broker and the same TradeManager,*)
(* and the broker, which fills and closes what it likes.  The process may  *)
(* crash between any two steps; the container restarts it.                 *)
(*                                                                         *)
(* Abstractions.  An order is for one unit, so a position is an integer.   *)
(* Gates that only drop a signal (strength, intelligence, contract,        *)
(* confidence) are one action.  RiskManager.can_trade, the pause flag and  *)
(* the broker lock decide a cycle by a free choice, and so do the cycle    *)
(* counters of the two periodic clean-ups (cycle % 50, cycle % 100).       *)
(* The strategies due in a pass of the loop run one pass each.             *)
(* Which of several live trades of one symbol a loop meets first (the      *)
(* order of a dict) is a free choice.  The order call abstracts to the    *)
(* contract that OrderClient is shown to implement, OrderService.          *)
(***************************************************************************)
EXTENDS TradeStates, Integers, FiniteSets

CONSTANTS
    TradeId,        \* ids create_trade draws for the engine, never reused
    Syms,           \* symbols
    Sides,          \* sides the strategies may signal: a subset of {"buy", "sell"}
    NoTrade,        \* no trade is being processed
    MaxPositions,   \* PortfolioRisk.max_positions
    MaxOrders,      \* most orders one broker call places (OrderService)
    SweepPeriod,    \* main loop cycles between two sweeps (5 in main.py)
    TradeStream,    \* the broker has a trade-update stream
    DryRuns,        \* may the program be started with --dry-run (TRUE), without (FALSE)?
    Simulate,       \* ExecutionEngine(simulator = ...) is given
    Operator,       \* somebody uses the Telegram bot and emergency_liquidate
    MaxCrashes,     \* bound: crashes of the process
    MaxHeld         \* bound: largest position somebody else builds up

ASSUME ConstantsAssumption ==
    /\ Sides \subseteq {"buy", "sell"}
    /\ NoTrade \notin TradeId \cup Syms
    /\ MaxPositions \in Nat
    /\ MaxOrders \in Nat \ {0}
    /\ SweepPeriod \in Nat \ {0}
    /\ MaxCrashes \in Nat
    /\ MaxHeld \in Nat
    /\ {TradeStream, Simulate, Operator} \subseteq BOOLEAN
    /\ DryRuns # {} /\ DryRuns \subseteq BOOLEAN

\* Ids of the lifecycles PortfolioReconciler and RecoveryManager create for a
\* position (f"reconciled-{symbol}", f"recovered-{symbol}").
AdoptedIds == {"reconciled", "recovered"} \X Syms
ASSUME IdsAssumption == TradeId \cap AdoptedIds = {}

Ids == TradeId \cup AdoptedIds

Signals == [sym : Syms, side : Sides]
NoRequest == [sym |-> NoTrade, side |-> NoTrade]

VARIABLES
    \* TradeManager and what the program and the broker know of its trades
    life,           \* TradeManager._trades: id -> state, "absent" if not in it
    request,        \* id -> the signal an engine trade was created for
    old,            \* trades longer than the reaper's timeout in their state
    rows,           \* trades with an intent row in the database
    approved,       \* history: trades the risk engine approved
    pos,            \* broker: symbol -> signed position
    placed,         \* broker: id -> orders ever accepted for the trade
    open,           \* broker: id -> how many of them are open
    \* main thread
    pc,             \* where it is
    cur,            \* run_cycle: the trade being processed
    snap,           \* run_cycle: the positions fetched at its start
    todo,           \* run_cycle: signals still to process
    exits,          \* _check_exits: symbols still to look at
    reply,          \* _check_exits: what close_position returned for which symbol
    cycle,          \* cycle_count, modulo SweepPeriod
    missing,        \* the reconciliation report
    cool,           \* symbols within auto_fix's cooldown
    \* the thread of the operator's command
    op,             \* "idle", or the command under way
    opsnap,         \* the positions that command has read
    \* the program's start
    dryRun,         \* ExecutionEngine.dry_run, the same at every restart
    crashes

bookVars == <<life, request, old, rows, approved>>
brokerVars == <<pos, placed, open>>
cycleVars == <<cur, snap, todo, exits, reply>>
sweepVars == <<cycle, missing, cool>>
mainVars == <<pc, cycleVars, sweepVars>>
opVars == <<op, opsnap>>
runVars == <<dryRun, crashes>>
vars == <<bookVars, brokerVars, mainVars, opVars, runVars>>

NoReply == [sym |-> NoTrade, ok |-> FALSE]

-----------------------------------------------------------------------------
(* TradeManager *)

IsLive(s) == s \notin Terminal \cup {"absent"}

SymOf(i) == IF i \in TradeId THEN request[i].sym ELSE i[2]

LiveOf(s) == {i \in Ids : IsLive(life[i]) /\ SymOf(i) = s}

\* remove_terminal()
Removed == [i \in Ids |-> IF life[i] \in Terminal THEN "absent" ELSE life[i]]

\* A trade whose state changes starts a new stay in it.
Unmoved(l) == {t \in old : l[t] = life[t]}

Flat == [s \in Syms |-> 0]
NoOrders == [t \in TradeId |-> 0]
Held(p) == {s \in Syms : p[s] # 0}

-----------------------------------------------------------------------------
(* RecoveryManager._do_recover on the positions p: adopt every position whose
   "recovered" id is not live, then close the trades of all other symbols.    *)
Readopted(p) ==
    [i \in Ids |-> IF i \in {"recovered"} \X Held(p) /\ ~IsLive(life[i])
                   THEN FastForward ELSE life[i]]

\* (mutant) Trades absent from the broker are put to ERROR, which every live
\* state allows, instead of CLOSED.
RecoveredAsErrors(p) ==
    LET l == Readopted(p)
    IN  [i \in Ids |-> IF IsLive(l[i]) /\ SymOf(i) \notin Held(p)
                       THEN After(l[i], "ERROR") ELSE l[i]]

Recovered(p) ==
    LET l == Readopted(p)
    IN  [i \in Ids |-> IF IsLive(l[i]) /\ SymOf(i) \notin Held(p)
                       THEN After(l[i], "CLOSED") ELSE l[i]]

-----------------------------------------------------------------------------
(* Start and end of the process *)

Init ==
    /\ life = [i \in Ids |-> "absent"]
    /\ request = [t \in TradeId |-> NoRequest]
    /\ old = {} /\ rows = {} /\ approved = {}
    /\ pos = Flat
    /\ placed = [t \in TradeId |-> 0]
    /\ open = [t \in TradeId |-> 0]
    /\ pc = "down"
    /\ cur = NoTrade /\ snap = Flat /\ todo = {} /\ exits = {} /\ reply = NoReply
    /\ cycle = 0 /\ missing = {} /\ cool = {}
    /\ op = "idle" /\ opsnap = Flat
    /\ dryRun \in DryRuns /\ crashes = 0

\* Startup: recover(), then the loop.  The TradeManager is a new one.
Restart ==
    /\ pc = "down"
    /\ pc' = "idle"
    /\ life' = Recovered(pos)
    /\ UNCHANGED <<request, old, rows, approved, brokerVars, cycleVars, sweepVars, opVars,
                   runVars>>

\* The broker does not answer get_positions: recover() reports failure and the
\* program starts all the same.
RestartBlind ==
    /\ pc = "down"
    /\ pc' = "idle"
    /\ UNCHANGED <<bookVars, brokerVars, cycleVars, sweepVars, opVars, runVars>>

\* All that is in memory goes; the broker and the database stay.
Down ==
    /\ pc' = "down"
    /\ life' = [i \in Ids |-> "absent"]
    /\ old' = {}
    /\ cur' = NoTrade /\ snap' = Flat /\ todo' = {} /\ exits' = {} /\ reply' = NoReply
    /\ cycle' = 0 /\ missing' = {} /\ cool' = {}
    /\ op' = "idle" /\ opsnap' = Flat
    /\ UNCHANGED <<request, rows, approved>>

Crash ==
    /\ pc # "down"
    /\ crashes < MaxCrashes
    /\ crashes' = crashes + 1
    /\ Down
    /\ UNCHANGED <<brokerVars, dryRun>>

\* An exception has ended the main loop; the other threads are daemons.
Exit ==
    /\ pc = "died"
    /\ Down
    /\ UNCHANGED <<brokerVars, runVars>>

\* Orderly shutdown: cancel_all_orders, whose failure is logged.
Shutdown ==
    /\ pc = "idle"
    /\ crashes < MaxCrashes
    /\ crashes' = crashes + 1
    /\ open' \in {open, NoOrders}
    /\ Down
    /\ UNCHANGED <<pos, placed, dryRun>>

-----------------------------------------------------------------------------
(* Main loop: housekeeping *)

\* Top of the loop, with remove_terminal() every 100 cycles.
LoopTop ==
    /\ pc = "idle"
    /\ cycle' = (cycle + 1) % SweepPeriod
    /\ pc' = IF cycle' = 0 THEN "reap" ELSE "ready"
    /\ life' \in {life, Removed}
    /\ UNCHANGED <<request, old, rows, approved, brokerVars, cycleVars, missing, cool, opVars,
                   runVars>>

\* reap_stale_trades: nothing has been stuck for too long.
ReapNothing ==
    /\ pc = "reap"
    /\ old = {}
    /\ pc' = "recon"
    /\ UNCHANGED <<bookVars, brokerVars, cycleVars, sweepVars, opVars, runVars>>

\* reap_stale_trades: the first stale trade goes to ERROR; the warning that
\* follows passes keyword fields to a standard-library logger, which raises
\* TypeError, and the call is outside the loop's try.
ReapFirst ==
    /\ pc = "reap"
    /\ pc' = "died"
    /\ \E t \in old : life' = [life EXCEPT ![t] = After(@, "ERROR")]
    /\ old' = Unmoved(life')
    /\ UNCHANGED <<request, rows, approved, brokerVars, cycleVars, sweepVars, opVars, runVars>>

\* (mutant) Any trade of the symbol counts, finished ones too.
ReconcileAllTrades ==
    /\ pc = "recon"
    /\ pc' = "fix"
    /\ missing' = {s \in Held(pos) : \A i \in Ids : life[i] # "absent" => SymOf(i) # s}
    /\ UNCHANGED <<bookVars, brokerVars, cycleVars, cycle, cool, opVars, runVars>>

\* reconcile(): the positions without a live trade of their symbol.
Reconcile ==
    /\ pc = "recon"
    /\ pc' = "fix"
    /\ missing' = {s \in Held(pos) : LiveOf(s) = {}}
    /\ UNCHANGED <<bookVars, brokerVars, cycleVars, cycle, cool, opVars, runVars>>

ReconcileFails ==
    /\ pc = "recon"
    /\ pc' = "ready"
    /\ UNCHANGED <<bookVars, brokerVars, cycleVars, sweepVars, opVars, runVars>>

\* auto_fix(): a lifecycle for every missing symbol outside its cooldown.
AutoFix ==
    /\ pc = "fix"
    /\ pc' = "ready"
    /\ LET fixed == missing \ cool
       IN  /\ life' = [i \in Ids |-> IF i \in {"reconciled"} \X fixed THEN FastForward
                                                                      ELSE life[i]]
           /\ cool' = cool \cup fixed
    /\ missing' = {}
    /\ UNCHANGED <<request, old, rows, approved, brokerVars, cycleVars, cycle, opVars, runVars>>

\* Paused, halted, circuit open, lock not obtained, no data, broker failing.
SkipCycle ==
    /\ pc = "ready"
    /\ pc' = "idle"
    /\ UNCHANGED <<bookVars, brokerVars, cycleVars, sweepVars, opVars, runVars>>

-----------------------------------------------------------------------------
(* Main loop: run_cycle *)

\* The strategy's signals, at most one a symbol, and the positions they will
\* all be judged against.
BeginCycle ==
    /\ pc = "ready"
    /\ pc' = "signals"
    /\ snap' = pos
    /\ todo' \in {S \in SUBSET Signals : \A a, b \in S : a.sym = b.sym => a = b}
    /\ UNCHANGED <<bookVars, brokerVars, cur, exits, reply, sweepVars, opVars, runVars>>

\* A gate drops the signal before any trade is created.
DropSignal ==
    /\ pc = "signals"
    /\ \E sig \in todo : todo' = todo \ {sig}
    /\ UNCHANGED <<bookVars, brokerVars, pc, cur, snap, exits, reply, sweepVars, opVars, runVars>>

\* The existing-position check of _process_signal.
Duplicates(sig) == \/ sig.side = "buy" /\ snap[sig.sym] > 0
                   \/ sig.side = "sell" /\ snap[sig.sym] < 0

\* (mutant) A trade id may be drawn again.
ConsiderAnyId ==
    /\ pc = "signals"
    /\ pc' = "risk"
    /\ \E sig \in todo, t \in TradeId :
          /\ ~Duplicates(sig)
          /\ life[t] = "absent"
          /\ request' = [request EXCEPT ![t] = sig]
          /\ life' = [life EXCEPT ![t] = After("SIGNAL", "PENDING_RISK")]
          /\ cur' = t
          /\ todo' = todo \ {sig}
    /\ UNCHANGED <<old, rows, approved, brokerVars, snap, exits, reply, sweepVars, opVars,
                   runVars>>

\* create_trade and the transition to PENDING_RISK.
Consider ==
    /\ pc = "signals"
    /\ pc' = "risk"
    /\ \E sig \in todo, t \in TradeId :
          /\ ~Duplicates(sig)
          /\ request[t] = NoRequest
          /\ request' = [request EXCEPT ![t] = sig]
          /\ life' = [life EXCEPT ![t] = After("SIGNAL", "PENDING_RISK")]
          /\ cur' = t
          /\ todo' = todo \ {sig}
    /\ UNCHANGED <<old, rows, approved, brokerVars, snap, exits, reply, sweepVars, opVars,
                   runVars>>

\* Leave the trade being processed in state s and take the next signal.
NextSignal(s) ==
    /\ pc' = "signals"
    /\ life' = [life EXCEPT ![cur] = s]
    /\ cur' = NoTrade
    /\ UNCHANGED <<request, old, brokerVars, snap, todo, exits, reply, sweepVars, opVars, runVars>>

\* get_account raises: the signal is dropped and the trade left as it is.
AccountUnavailable ==
    /\ pc = "risk"
    /\ NextSignal(life[cur])
    /\ UNCHANGED <<rows, approved>>

\* (mutant) The rejected trade falls through to submission: a missing return.
RiskRejectsAndGoesOn ==
    /\ pc = "risk"
    /\ pc' = "submit"
    /\ life' = [life EXCEPT ![cur] = After(@, "RISK_REJECTED")]
    /\ UNCHANGED <<request, old, rows, approved, brokerVars, cycleVars, sweepVars, opVars, runVars>>

\* A layer rejects, or evaluation raises.
RiskRejects ==
    /\ pc = "risk"
    /\ NextSignal(After(life[cur], "RISK_REJECTED"))
    /\ UNCHANGED <<rows, approved>>

\* PortfolioRisk's position count, taken from the cycle's snapshot.
WithinMaxPositions ==
    request[cur].side = "buy" => Cardinality(Held(snap)) < MaxPositions

RiskApproves ==
    /\ pc = "risk"
    /\ WithinMaxPositions
    /\ approved' = approved \cup {cur}

Passed == After(life[cur], "RISK_APPROVED")

DryRunTrade ==
    /\ dryRun
    /\ RiskApproves
    /\ NextSignal(Passed)
    /\ UNCHANGED rows

\* simulate_execution reports no fill.
SimulatorRejects ==
    /\ Simulate /\ ~dryRun
    /\ RiskApproves
    /\ NextSignal(After(Passed, "CANCELLED"))
    /\ UNCHANGED rows

\* Quantity or price not finite and positive, or below the minimum order.
QuantityRejected ==
    /\ ~dryRun
    /\ RiskApproves
    /\ NextSignal(After(After(Passed, "SUBMITTED"), "CANCELLED"))
    /\ UNCHANGED rows

\* Trade's columns, and the fields of the intent record.
TradeColumns ==
    {"id", "symbol", "side", "qty", "price", "order_type", "status", "order_id", "strategy",
     "signal_confidence", "stop_loss", "take_profit", "pnl", "pnl_pct", "fees", "notes",
     "prediction_id", "model_version", "contract_id", "created_at", "filled_at", "closed_at"}
IntentFields ==
    {"symbol", "side", "qty", "price", "order_type", "status", "order_id", "strategy",
     "signal_id", "signal_strength", "stop_loss", "take_profit", "contract_id",
     "contract_confidence", "contract_decision"}

\* DatabaseManager.record_trade: Trade(**fields) raises on a field that is not
\* a column; so may the database on anything.  The engine logs and goes on.
RecordIntent ==
    rows' \in {rows} \cup IF IntentFields \subseteq TradeColumns THEN {rows \cup {cur}} ELSE {}

SubmitTrade ==
    /\ ~dryRun
    /\ RiskApproves
    /\ pc' = "submit"
    /\ life' = [life EXCEPT ![cur] = After(Passed, "SUBMITTED")]
    /\ RecordIntent
    /\ UNCHANGED <<request, old, brokerVars, cycleVars, sweepVars, opVars, runVars>>

\* (mutant) The retry loop makes one attempt too many.
PlaceOrderOnceMore ==
    /\ pc = "submit"
    /\ placed[cur] <= MaxOrders
    /\ placed' = [placed EXCEPT ![cur] = @ + 1]
    /\ open' = [open EXCEPT ![cur] = @ + 1]
    /\ UNCHANGED <<bookVars, pos, mainVars, opVars, runVars>>

\* The broker accepts one more order of the running call (OrderService!Place).
PlaceOrder ==
    /\ pc = "submit"
    /\ placed[cur] < MaxOrders
    /\ placed' = [placed EXCEPT ![cur] = @ + 1]
    /\ open' = [open EXCEPT ![cur] = @ + 1]
    /\ UNCHANGED <<bookVars, pos, mainVars, opVars, runVars>>

\* (mutant) "No response from broker" is taken for an accepted order.
OrderAnsweredOrNothing ==
    /\ pc = "submit"
    /\ NextSignal(After(life[cur], "ACCEPTED"))
    /\ UNCHANGED <<rows, approved>>

\* An order dict: the trade is accepted, and taken for filled unless fills are
\* to come by the trade stream.
OrderAnswered ==
    /\ pc = "submit"
    /\ placed[cur] > 0
    /\ LET accepted == After(life[cur], "ACCEPTED")
       IN  NextSignal(IF Simulate \/ ~TradeStream
                      THEN After(After(accepted, "FILLED"), "ACTIVE")
                      ELSE accepted)
    /\ UNCHANGED <<rows, approved>>

\* An error dict, or no answer.
OrderRefused ==
    /\ pc = "submit"
    /\ NextSignal(After(life[cur], "CANCELLED"))
    /\ UNCHANGED <<rows, approved>>

\* The call raises.
OrderRaised ==
    /\ pc = "submit"
    /\ NextSignal(After(life[cur], "ERROR"))
    /\ UNCHANGED <<rows, approved>>

-----------------------------------------------------------------------------
(* Main loop: _check_exits *)

\* can_trade is asked again: when halted, no exit is looked at.
BeginExits ==
    /\ pc = "signals"
    /\ todo = {}
    /\ pc' = "exits"
    /\ exits' \in {{}, Held(snap)}
    /\ UNCHANGED <<bookVars, brokerVars, cur, snap, todo, reply, sweepVars, opVars, runVars>>

\* should_exit answers no, or this is a dry run.
NoExit ==
    /\ pc = "exits"
    /\ \E s \in exits : exits' = exits \ {s}
    /\ UNCHANGED <<bookVars, brokerVars, pc, cur, snap, todo, reply, sweepVars, opVars, runVars>>

\* close_position returns None when the broker took the close order, which
\* fills at once or later, and an error dict otherwise; either may hide that
\* the position was closed by an earlier attempt.
ClosePosition ==
    /\ pc = "exits"
    /\ ~dryRun
    /\ \E s \in exits, ok \in BOOLEAN :
          /\ exits' = exits \ {s}
          /\ pos' \in {pos, [pos EXCEPT ![s] = 0]}
          /\ reply' = [sym |-> s, ok |-> ok]
    /\ pc' = "closing"
    /\ UNCHANGED <<bookVars, placed, open, cur, snap, todo, sweepVars, opVars, runVars>>

\* close_position raises, after the broker closed the position or not; the
\* exception is logged and the next symbol is looked at.
CloseRaises ==
    /\ pc = "exits"
    /\ ~dryRun
    /\ \E s \in exits :
          /\ exits' = exits \ {s}
          /\ pos' \in {pos, [pos EXCEPT ![s] = 0]}
    /\ UNCHANGED <<bookVars, placed, open, pc, cur, snap, todo, reply, sweepVars, opVars, runVars>>

\* The first live trade of the symbol is closed out, if there is one, and
\* TradeClosed published, whatever close_position returned.
BookExit ==
    /\ pc = "closing"
    /\ pc' = "exits"
    /\ \/ LiveOf(reply.sym) = {} /\ UNCHANGED life
       \/ \E i \in LiveOf(reply.sym) : life' = [life EXCEPT ![i] = CloseOut(@)]
    /\ reply' = NoReply
    /\ old' = Unmoved(life')
    /\ UNCHANGED <<request, rows, approved, brokerVars, cur, snap, todo, exits, sweepVars, opVars,
                   runVars>>

\* End of the cycle, with remove_terminal() every 50 cycles.
EndCycle ==
    /\ pc = "exits"
    /\ exits = {}
    /\ pc' = "idle"
    /\ snap' = Flat
    /\ life' \in {life, Removed}
    /\ UNCHANGED <<request, old, rows, approved, brokerVars, cur, todo, exits, reply, sweepVars,
                   opVars, runVars>>

-----------------------------------------------------------------------------
(* The operator: Telegram commands and emergency_liquidate, on their own thread.
   telegram_bot's _broker_lock and main.py's are two objects, so the commands
   may come between any two steps of the main thread, inside a cycle too.      *)

Command == Operator /\ pc # "down" /\ op = "idle"

\* /recover: the positions are read ...
RecoverRead ==
    /\ Command
    /\ op' = "recover"
    /\ opsnap' = pos
    /\ UNCHANGED <<bookVars, brokerVars, mainVars, runVars>>

\* ... and used, after the event replay.
RecoverApply ==
    /\ op = "recover"
    /\ op' = "idle"
    /\ opsnap' = Flat
    /\ life' = Recovered(opsnap)
    /\ old' = Unmoved(life')
    /\ UNCHANGED <<request, rows, approved, brokerVars, mainVars, runVars>>

\* A confirmed BUY or SELL button: an order the TradeManager hears nothing of.
TelegramTrade ==
    /\ Command
    /\ \E s \in Syms, d \in {1, -1} :
          /\ pos[s] + d \in -MaxHeld..MaxHeld
          /\ pos' = [pos EXCEPT ![s] = @ + d]
    /\ UNCHANGED <<bookVars, placed, open, mainVars, opVars, runVars>>

\* "closeall": cancel_all_orders and close_all_positions, each with or without
\* success, and nothing else; emergency_liquidate does no more than that (and
\* RiskHalt) when close_all_positions raises.
CloseAllUnbooked ==
    /\ Command
    /\ pos' \in {pos, Flat}
    /\ open' \in {open, NoOrders}
    /\ UNCHANGED <<bookVars, placed, mainVars, opVars, runVars>>

\* emergency_liquidate(): orders are cancelled, the positions read (or not, if
\* get_positions fails), and close_all_positions returns None or an error dict.
Liquidate ==
    /\ Command
    /\ op' \in {"liquidated", "refused"}
    /\ opsnap' \in {pos, Flat}
    /\ pos' \in {pos, Flat}
    /\ open' \in {open, NoOrders}
    /\ UNCHANGED <<bookVars, placed, mainVars, runVars>>

\* One live trade of every symbol read is closed out and TradeClosed published,
\* whichever of the two came back; then remove_terminal().
BookLiquidation ==
    /\ op \in {"liquidated", "refused"}
    /\ \E victims \in SUBSET {i \in Ids : IsLive(life[i]) /\ SymOf(i) \in Held(opsnap)} :
          /\ \A s \in Held(opsnap) : LiveOf(s) # {} => \E i \in victims : victims \cap LiveOf(s) = {i}
          /\ life' = [i \in Ids |->
                        LET l == IF i \in victims THEN CloseOut(life[i]) ELSE life[i]
                        IN  IF l \in Terminal THEN "absent" ELSE l]
    /\ op' = "idle"
    /\ opsnap' = Flat
    /\ old' = Unmoved(life')
    /\ UNCHANGED <<request, rows, approved, brokerVars, mainVars, runVars>>

-----------------------------------------------------------------------------
(* Broker and time *)

\* What one filled unit of trade t does to the position.
Gain(t) == IF request[t].side = "buy" THEN 1 ELSE -1

Fill ==
    /\ \E t \in TradeId :
          /\ open[t] > 0
          /\ open' = [open EXCEPT ![t] = @ - 1]
          /\ pos' = [pos EXCEPT ![request[t].sym] = @ + Gain(t)]
    /\ UNCHANGED <<bookVars, placed, mainVars, opVars, runVars>>

\* The broker cancels, rejects or expires an order it had accepted.
KillOrder ==
    /\ \E t \in TradeId : open[t] > 0 /\ open' = [open EXCEPT ![t] = @ - 1]
    /\ UNCHANGED <<bookVars, pos, placed, mainVars, opVars, runVars>>

\* A stop or target leg fills, or somebody presses Telegram's "close|" button.
ClosedElsewhere ==
    /\ \E s \in Held(pos) : pos' = [pos EXCEPT ![s] = 0]
    /\ UNCHANGED <<bookVars, placed, open, mainVars, opVars, runVars>>

\* (mutant) The reaper's stale states include ACTIVE.
GrowOldActive(t) ==
    /\ pc = "idle"
    /\ life[t] \in InFlight \cup {"ACTIVE"}
    /\ old' = old \cup {t}
    /\ UNCHANGED <<life, request, rows, approved, brokerVars, mainVars, opVars, runVars>>

\* More than the reaper's 300 s pass between two cycles for a trade in flight.
\* (Only the reaper looks, so time need not pass at other points.)
GrowOld(t) ==
    /\ pc = "idle"
    /\ life[t] \in InFlight
    /\ old' = old \cup {t}
    /\ UNCHANGED <<life, request, rows, approved, brokerVars, mainVars, opVars, runVars>>

\* 60 s after a fix.
CoolDown(s) ==
    /\ s \in cool
    /\ cool' = cool \ {s}
    /\ UNCHANGED <<bookVars, brokerVars, pc, cycleVars, cycle, missing, opVars, runVars>>

-----------------------------------------------------------------------------
Process == Restart \/ RestartBlind \/ Exit
House == LoopTop \/ ReapNothing \/ ReapFirst \/ Reconcile \/ ReconcileFails \/ AutoFix
            \/ SkipCycle
Cycle == BeginCycle \/ DropSignal \/ Consider \/ AccountUnavailable \/ RiskRejects
            \/ DryRunTrade \/ SimulatorRejects \/ QuantityRejected \/ SubmitTrade
            \/ OrderAnswered \/ OrderRefused \/ OrderRaised
            \/ BeginExits \/ NoExit \/ ClosePosition \/ CloseRaises \/ BookExit \/ EndCycle
Commands == RecoverRead \/ RecoverApply \/ TelegramTrade \/ CloseAllUnbooked
               \/ Liquidate \/ BookLiquidation
Environment == \/ PlaceOrder \/ Fill \/ KillOrder \/ ClosedElsewhere \/ Crash \/ Shutdown
               \/ \E t \in TradeId : GrowOld(t)
               \/ \E s \in Syms : CoolDown(s)

Next == Process \/ House \/ Cycle \/ Commands \/ Environment

Spec == Init /\ [][Next]_vars

\* The process is restarted and its loop runs ("--restart-policy Always"); the
\* broker answers reconciliation and recovery again and again; time passes.
Fairness ==
    /\ WF_vars(Process \/ House \/ Cycle)
    /\ WF_vars(RecoverApply \/ BookLiquidation)
    /\ SF_vars(Reconcile)
    /\ \A t \in TradeId : SF_vars(GrowOld(t))
    /\ \A s \in Syms : WF_vars(CoolDown(s))

FairSpec == Spec /\ Fairness

-----------------------------------------------------------------------------
TypeOK ==
    /\ life \in [Ids -> TradeState \cup {"absent"}]
    /\ request \in [TradeId -> Signals \cup {NoRequest}]
    /\ old \subseteq TradeId
    /\ rows \subseteq TradeId
    /\ approved \subseteq TradeId
    /\ pos \in [Syms -> Int]
    /\ placed \in [TradeId -> 0..MaxOrders]
    /\ open \in [TradeId -> 0..MaxOrders]
    /\ pc \in {"down", "died", "idle", "reap", "recon", "fix", "ready", "signals", "risk",
               "submit", "exits", "closing"}
    /\ cur \in TradeId \cup {NoTrade}
    /\ snap \in [Syms -> Int]
    /\ todo \subseteq Signals
    /\ exits \subseteq Syms
    /\ reply \in {NoReply} \cup [sym : Syms, ok : BOOLEAN]
    /\ missing \subseteq Syms
    /\ cool \subseteq Syms
    /\ cycle \in 0..(SweepPeriod - 1)
    /\ op \in {"idle", "recover", "liquidated", "refused"}
    /\ opsnap \in [Syms -> Int]
    /\ dryRun \in BOOLEAN
    /\ crashes \in 0..MaxCrashes

\* No order without approval: whatever interleaves with the decision pipeline,
\* and whatever crash cuts it, the broker only ever accepts orders for trades
\* the risk engine approved, and none in a dry run.
OrdersAreApproved ==
    \A t \in TradeId : placed[t] > 0 => t \in approved /\ ~dryRun

\* A trade the program takes for a position, or for a position it has closed,
\* was really ordered: neither recovery, the reconciler, an exit of its symbol
\* nor an emergency walks a trade past submission that has no order.
PositionTradesHaveOrders ==
    \A t \in TradeId : life[t] \in Accepted => placed[t] > 0

\* The engine's pipeline owns the trade it is deciding on: no other thread can
\* move it while the engine is between two of its transitions.
PipelineOwnsTrade ==
    /\ pc = "risk" => life[cur] = "PENDING_RISK"
    /\ pc = "submit" => life[cur] = "SUBMITTED"

\* No position is written off as an error: what the reaper, or an exception of
\* the order call, turns into ERROR was still in flight, never a position.
ErrorsAreNotPositions ==
    [][\A i \in Ids : life[i] # "ERROR" /\ life'[i] = "ERROR" => life[i] \in InFlight]_vars

\* The sweep makes the books whole: a position is in the end closed, or carried
\* by an ACTIVE trade of its symbol, through crashes, lost answers, errors in
\* exits, and trades stuck before their fill (these by the reaper, whose
\* failure ends the process, and the recovery at the restart).
HeldPositionIsEventuallyTracked ==
    \A s \in Syms :
        (pos[s] # 0) ~> (pos[s] = 0 \/ \E i \in LiveOf(s) : life[i] = "ACTIVE")

\* The promise to the outside, and where each trade stands in it.
Phase(t) ==
    CASE life[t] = "absent" /\ request[t] = NoRequest -> "unused"
      [] life[t] = "absent" /\ request[t] # NoRequest -> "forgotten"
      [] life[t] \in {"SIGNAL", "PENDING_RISK"}         -> "considered"
      [] life[t] = "RISK_APPROVED"                     -> "approved"
      [] life[t] = "SUBMITTED"                         -> "working"
      [] life[t] \in Terminal                          -> "finished"
      [] OTHER                                         -> "position"
Book == INSTANCE TradeBook WITH phase <- [t \in TradeId |-> Phase(t)], orders <- placed

\* Everything together keeps the promise of TradeBook about every trade.
BookSpec == Book!Spec

-----------------------------------------------------------------------------
(* What the repository says of the program and the program does not do. *)

\* "P0-04: Write intent record BEFORE broker submission to prevent data loss"
\* (engine.py:895): an order at the broker has its intent row.
IntentBeforeOrder == \A t \in TradeId : placed[t] > 0 => t \in rows

\* "Transition non-terminal, non-active trades to ERROR if stuck too long."
\* (state_machine.py:273): a sweep leaves no stale trade behind.
SweepTakesEveryStaleTrade ==
    [][pc = "reap" /\ pc' \notin {"reap", "down"} => \A t \in old : life'[t] = "ERROR"]_vars

\* "Max positions | 10 | Concurrent open positions cap" (README.md:1106), of the
\* positions the engine itself opens.
PositionsCapped == Cardinality(Held(pos)) <= MaxPositions

\* "Close all and verify - only publish events if close succeeds" (engine.py:1329):
\* when the broker refuses, no trade is closed out and published.
LiquidationIsVerified ==
    [][op = "refused" /\ op' = "idle" /\ pc' # "down" =>
          \A i \in Ids : IsLive(life[i]) => life'[i] = life[i]]_vars
=============================================================================
