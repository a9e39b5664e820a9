---------------------------- MODULE Environment ----------------------------
(***************************************************************************)
(* Switching between paper and live trading while the program runs:        *)
(* EnvironmentManager and BrokerManager (src/core/environment.py), the     *)
(* operator's /env and its confirmation (telegram_runtime_commands.py),    *)
(* and the main loop (main.py), which takes over the manager's broker at   *)
(* each pass while its engine keeps the broker it was built with.          *)
(*                                                                         *)
(* Brokers are numbered in the order they are made; broker 1 is the one    *)
(* the program starts with.  A simulated broker is PaperBroker, which has  *)
(* neither a market clock nor cancel_all_orders nor a trade stream.  The   *)
(* broker factory is a parameter of EnvironmentManager, and may return a   *)
(* broker of the wrong kind, as the tests let it.                          *)
(*                                                                         *)
(* The mode of the settings is not the managers' alone: the program starts *)
(* with what .env says of it, whatever --live says of the broker, and      *)
(* /setmode and /loadconfig (telegram_config_commands.py) change it at run *)
(* time and leave the broker as it is.                                     *)
(***************************************************************************)
EXTENDS Naturals, FiniteSets

CONSTANTS
    Symbols,        \* what is traded
    Stocks,         \* those that need an open stock market
    MaxSwitches,    \* bound: calls of switch_environment that make a broker
    MaxOrders       \* bound: orders of the engine

ASSUME EnvAssumption ==
    /\ Stocks \subseteq Symbols
    /\ MaxSwitches \in Nat /\ MaxOrders \in Nat

Brokers == 1 .. MaxSwitches + 1
Initial == 1            \* the broker main() makes; ExecutionEngine.broker for good
Modes == {"paper", "live"}
Accounts == {"alpaca_paper", "alpaca_live", "simulated"}    \* a broker's kind says which account

VARIABLES
    kind,       \* each broker's kind, "none" before it is made
    held,       \* the open positions of each account
    open,       \* its symbols with an order that is not filled yet
    closing,    \* the positions whose close was accepted and is not filled yet
    cur,        \* BrokerManager._broker
    mode,       \* EnvironmentManager._current_mode
    setting,    \* settings.trading_mode
    sw,         \* the call of switch_environment under way
    asked,      \* a live confirmation is in the chat
    loop,       \* the main loop: its step, its own broker, and whether a cancellation failed
    orders,     \* how many orders the engine placed
    excused     \* history: refused without an exception, or opened since the listing

envVars == << kind, held, open, closing, cur, mode, setting, sw, asked, loop, orders, excused >>
accounts == << held, open, closing >>
modes == << cur, mode, setting >>

SwitchSteps == {"none", "validating", "factory", "account", "list", "close", "swap",
                "apply", "verifying", "failed"}
LoopSteps == {"sync", "feed", "market", "trade", "cancel", "stop", "closed", "died"}
Calls == [pc: SwitchSteps, target: Modes, oldMode: Modes, oldSetting: Modes,
          old: Brokers, new: Brokers, todo: SUBSET Symbols, failed: BOOLEAN, swapped: BOOLEAN]
NoCall == [pc |-> "none", target |-> "paper", oldMode |-> "paper", oldSetting |-> "paper",
           old |-> Initial, new |-> Initial, todo |-> {}, failed |-> FALSE, swapped |-> FALSE]

ModeOf(k) == IF k = "alpaca_live" THEN "live" ELSE "paper"      \* broker.paper

Acc(b) == kind[b]                       \* the account a broker trades on
Remote(b) == kind[b] # "simulated"      \* PaperBroker never fails

\* The broker and the mode are those of --live; the settings' mode is that of .env.
EnvInit ==
    /\ \E k \in {"alpaca_paper", "alpaca_live"} :
          /\ kind = [b \in Brokers |-> IF b = Initial THEN k ELSE "none"]
          /\ mode = ModeOf(k)
    /\ setting \in Modes
    /\ held \in {h \in [Accounts -> SUBSET Symbols] : h["simulated"] = {}}
    /\ open = [a \in Accounts |-> {}]
    /\ closing = [a \in Accounts |-> {}]
    /\ cur = Initial
    /\ sw = NoCall
    /\ asked = FALSE
    /\ loop = [pc |-> "sync", broker |-> Initial, refused |-> FALSE]
    /\ orders = 0
    /\ excused = {}

-----------------------------------------------------------------------------
(* The operator.                                                           *)

Running == loop.pc \notin {"closed", "died"}

\* /env live: the question stays in the chat, to be answered at any time.
AskLive ==
    /\ Running /\ ~asked
    /\ asked' = TRUE
    /\ UNCHANGED << kind, accounts, modes, sw, loop, orders, excused >>

\* switch_environment: nothing to do in the target mode.  Everything runs under the
\* manager's lock in the bot's only thread.
BeginSwitch(target) ==
    /\ Running /\ sw.pc = "none"
    /\ mode # target
    /\ \E b \in Brokers : kind[b] = "none"
    /\ sw' = [NoCall EXCEPT !.pc = "validating", !.target = target, !.oldMode = mode,
                            !.oldSetting = setting, !.old = cur]
    /\ UNCHANGED << kind, accounts, modes, asked, loop, orders, excused >>

EnvPaper == BeginSwitch("paper")                      \* /env paper
ConfirmLive == asked /\ BeginSwitch("live")           \* the button, however old

\* /setmode, in the thread of the switches: refused for the mode the settings have, for
\* "live" without keys, and when the change cannot be stored.
SetMode ==
    /\ Running /\ sw.pc = "none"
    /\ setting' \in Modes \ {setting}
    /\ UNCHANGED << kind, accounts, cur, mode, sw, asked, loop, orders, excused >>

\* /loadconfig reads .env again, the mode with the rest.
LoadConfig ==
    /\ Running /\ sw.pc = "none"
    /\ setting' \in Modes
    /\ UNCHANGED << kind, accounts, cur, mode, sw, asked, loop, orders, excused >>

-----------------------------------------------------------------------------
(* The switch.                                                             *)

SwUnchanged == UNCHANGED << asked, loop, orders >>
Fail == sw' = [sw EXCEPT !.pc = "failed"]

\* _validate_live_readiness: the keys and the limits of the settings may not do.
Validate ==
    /\ sw.pc = "validating"
    /\ \/ sw' = [sw EXCEPT !.pc = "factory"]
       \/ sw.target = "live" /\ Fail
    /\ UNCHANGED << kind, accounts, modes, excused >> /\ SwUnchanged

NextBroker == CHOOSE b \in Brokers : kind[b] = "none" /\ \A c \in Brokers : c < b => kind[c] # "none"

\* The kinds the factory returns: create_broker_for_mode's, or a wrong one.
Made(target) == IF target = "paper" THEN {"simulated", "alpaca_live"}
                                    ELSE {"alpaca_live", "alpaca_paper"}

\* (mutant) A factory that made nothing is not noticed.
FactoryUnnoticed ==
    /\ sw.pc = "factory"
    /\ sw' = [sw EXCEPT !.pc = "account", !.new = NextBroker]
    /\ \/ \E k \in Made(sw.target) : kind' = [kind EXCEPT ![NextBroker] = k]
       \/ UNCHANGED kind
    /\ UNCHANGED << accounts, modes, excused >> /\ SwUnchanged

\* create_broker_for_mode: the client of Alpaca pings its account and may raise.
Factory ==
    /\ sw.pc = "factory"
    /\ \/ /\ \E k \in Made(sw.target) : kind' = [kind EXCEPT ![NextBroker] = k]
          /\ sw' = [sw EXCEPT !.pc = "account", !.new = NextBroker]
       \/ /\ Fail
          /\ UNCHANGED kind
    /\ UNCHANGED << accounts, modes, excused >> /\ SwUnchanged

\* switch_broker takes the manager's lock and asks the new broker for its account.
Account ==
    /\ sw.pc = "account"
    /\ \/ sw' = [sw EXCEPT !.pc = "list"]
       \/ Remote(sw.new) /\ Fail
    /\ UNCHANGED << kind, accounts, modes, excused >> /\ SwUnchanged

\* _drain_positions lists once; what is opened later is not closed.
List ==
    /\ sw.pc = "list"
    /\ \/ sw' = [sw EXCEPT !.pc = "close", !.todo = held[Acc(cur)]]
       \/ Remote(cur) /\ Fail
    /\ excused' = {}
    /\ UNCHANGED << kind, accounts, modes >> /\ SwUnchanged

\* close_position: filled later, refused with an error dict that nobody looks at, or
\* an exception, which counts as a failure.
ClosePosition(s) ==
    /\ sw.pc = "close" /\ s \in sw.todo
    /\ \/ /\ closing' = [closing EXCEPT ![Acc(cur)] = @ \cup (held[Acc(cur)] \cap {s})]
          /\ sw' = [sw EXCEPT !.todo = @ \ {s}]
          /\ UNCHANGED excused
       \/ /\ Remote(cur)
          /\ excused' = excused \cup {s}
          /\ sw' = [sw EXCEPT !.todo = @ \ {s}]
          /\ UNCHANGED closing
       \/ /\ Remote(cur)
          /\ sw' = [sw EXCEPT !.todo = @ \ {s}, !.failed = TRUE]
          /\ UNCHANGED << closing, excused >>
    /\ UNCHANGED << kind, held, open, modes >> /\ SwUnchanged

\* (mutant) A position that could not be closed does not stop the switch.
DrainedRegardless ==
    /\ sw.pc = "close" /\ sw.todo = {}
    /\ sw' = [sw EXCEPT !.pc = "swap"]
    /\ UNCHANGED << kind, accounts, modes, excused >> /\ SwUnchanged

\* The drain is over (after at most two seconds, whether or not the closes filled);
\* one failure abandons the switch, and what was closed stays closed.
Drained ==
    /\ sw.pc = "close" /\ sw.todo = {}
    /\ IF sw.failed THEN Fail ELSE sw' = [sw EXCEPT !.pc = "swap"]
    /\ UNCHANGED << kind, accounts, modes, excused >> /\ SwUnchanged

\* switch_broker's last step, and the end of its lock.
Swap ==
    /\ sw.pc = "swap"
    /\ cur' = sw.new
    /\ sw' = [sw EXCEPT !.pc = "apply", !.swapped = TRUE]
    /\ UNCHANGED << kind, accounts, mode, setting, excused >> /\ SwUnchanged

\* The settings and the manager's mode follow.
Apply ==
    /\ sw.pc = "apply"
    /\ setting' = sw.target /\ mode' = sw.target
    /\ sw' = [sw EXCEPT !.pc = "verifying"]
    /\ UNCHANGED << kind, accounts, cur, excused >> /\ SwUnchanged

\* (mutant) The answer of the verification is awaited for ever.
VerifyOnSuccess ==
    /\ sw.pc = "verifying" /\ ModeOf(kind[cur]) = sw.target
    /\ sw' = NoCall
    /\ UNCHANGED << kind, accounts, modes, excused >> /\ SwUnchanged

\* _verify_switch: the broker must be of the target's kind.
Verify ==
    /\ sw.pc = "verifying"
    /\ IF ModeOf(kind[cur]) = sw.target THEN sw' = NoCall ELSE Fail
    /\ UNCHANGED << kind, accounts, modes, excused >> /\ SwUnchanged

\* (mutant) The settings keep the mode that was not reached.
RollBackBrokerOnly ==
    /\ sw.pc = "failed"
    /\ cur' = IF sw.swapped THEN sw.old ELSE cur
    /\ mode' = sw.oldMode
    /\ sw' = NoCall
    /\ UNCHANGED << kind, accounts, setting, excused >> /\ SwUnchanged

\* (mutant) The manager keeps the mode that was not reached.
RollBackKeepsMode ==
    /\ sw.pc = "failed"
    /\ cur' = IF sw.swapped THEN sw.old ELSE cur
    /\ setting' = sw.oldSetting
    /\ sw' = NoCall
    /\ UNCHANGED << kind, accounts, mode, excused >> /\ SwUnchanged

\* The compensation: broker, mode and settings go back, each if it was changed.
RollBack ==
    /\ sw.pc = "failed"
    /\ cur' = IF sw.swapped THEN sw.old ELSE cur
    /\ mode' = sw.oldMode /\ setting' = sw.oldSetting
    /\ sw' = NoCall
    /\ UNCHANGED << kind, accounts, excused >> /\ SwUnchanged

Switch == Validate \/ Factory \/ Account \/ List \/ (\E s \in Symbols : ClosePosition(s))
          \/ Drained \/ Swap \/ Apply \/ Verify \/ RollBack

-----------------------------------------------------------------------------
(* The main loop.  Its engine trades with the initial broker whatever the  *)
(* loop's own reference is: the loop sets engine._broker, and the engine   *)
(* reads engine.broker.                                                    *)

LoopUnchanged == UNCHANGED << kind, modes, sw, asked >>
Goto(pc) == loop' = [loop EXCEPT !.pc = pc]

\* BrokerManager.broker waits for the lock that a switch holds while it drains.
Locked == sw.pc \in {"list", "close", "swap"}

\* (mutant) The loop keeps a broker of its own mode.
SyncSameMode ==
    /\ loop.pc = "sync" /\ ~Locked
    /\ loop' = [loop EXCEPT !.pc = "feed",
                            !.broker = IF mode = ModeOf(kind[@]) THEN cur ELSE @]
    /\ LoopUnchanged /\ UNCHANGED << accounts, orders, excused >>

\* main.py:1611: the loop takes over the manager's broker.
Sync ==
    /\ loop.pc = "sync" /\ ~Locked
    /\ loop' = [loop EXCEPT !.pc = "feed", !.broker = cur]
    /\ LoopUnchanged /\ UNCHANGED << accounts, orders, excused >>

\* The account for the risk engine comes from the loop's broker; an error is logged.
Feed ==
    /\ loop.pc = "feed"
    /\ Goto("market")
    /\ LoopUnchanged /\ UNCHANGED << accounts, orders, excused >>

\* With stocks the loop asks its broker for the market clock, which a simulated broker
\* does not have: the pass ends with an exception, as one does when the exchange fails.
\* While the market is closed only the other symbols are traded.
Market ==
    /\ loop.pc = "market"
    /\ \/ /\ Stocks = {} \/ Remote(loop.broker)
          /\ Goto("trade")
       \/ /\ Stocks # {}
          /\ Goto("sync")
    /\ LoopUnchanged /\ UNCHANGED << accounts, orders, excused >>

\* The engine sends an order, or the strategies have nothing to say.
Trade ==
    /\ loop.pc = "trade"
    /\ \/ /\ orders < MaxOrders
          /\ \E s \in Symbols \ (held[Acc(Initial)] \cup open[Acc(Initial)]) :
                open' = [open EXCEPT ![Acc(Initial)] = @ \cup {s}]
          /\ orders' = orders + 1
       \/ UNCHANGED << open, orders >>
    /\ Goto("sync")
    /\ LoopUnchanged /\ UNCHANGED << held, closing, excused >>

\* A signal ends the loop between two passes.
Interrupted ==
    /\ loop.pc = "sync"
    /\ Goto("cancel")
    /\ LoopUnchanged /\ UNCHANGED << accounts, orders, excused >>

\* (mutant) Cancelling without an error means nothing was cancelled.
CancelNothing ==
    /\ loop.pc = "cancel"
    /\ Goto("stop")
    /\ LoopUnchanged /\ UNCHANGED << accounts, orders, excused >>

\* cancel_all_orders on the loop's broker; an exception (a simulated broker has no such
\* method) and an error dict (refused) are left at that.
CancelOrders ==
    /\ loop.pc = "cancel"
    /\ \/ /\ Remote(loop.broker)
          /\ open' = [open EXCEPT ![Acc(loop.broker)] = {}]
          /\ loop' = [loop EXCEPT !.pc = "stop"]
       \/ /\ Remote(loop.broker)
          /\ loop' = [loop EXCEPT !.pc = "stop", !.refused = TRUE]
          /\ UNCHANGED open
       \/ /\ ~Remote(loop.broker)
          /\ Goto("stop")
          /\ UNCHANGED open
    /\ LoopUnchanged /\ UNCHANGED << held, closing, orders, excused >>

\* stop_trade_stream, which a simulated broker does not have either: the exception ends
\* main() before the stores are closed.
StopStream ==
    /\ loop.pc = "stop"
    /\ Goto(IF Remote(loop.broker) THEN "closed" ELSE "died")
    /\ LoopUnchanged /\ UNCHANGED << accounts, orders, excused >>

LoopStep == Sync \/ Feed \/ Market \/ Trade \/ CancelOrders \/ StopStream

\* The exchange fills an order or a close; a symbol opened after the listing is excused.
Fill(a, s) ==
    /\ \/ /\ s \in open[a]
          /\ open' = [open EXCEPT ![a] = @ \ {s}]
          /\ held' = [held EXCEPT ![a] = @ \cup {s}]
          /\ excused' = excused \cup {s}
          /\ UNCHANGED closing
       \/ /\ s \in closing[a]
          /\ closing' = [closing EXCEPT ![a] = @ \ {s}]
          /\ held' = [held EXCEPT ![a] = @ \ {s}]
          /\ UNCHANGED << open, excused >>
    /\ UNCHANGED << kind, modes, sw, asked, loop, orders >>

-----------------------------------------------------------------------------
\* The process is gone with main(): its threads are daemons.
Ended == loop.pc \in {"closed", "died"}

EnvNext ==
    \/ ~Ended /\ (\/ AskLive \/ EnvPaper \/ ConfirmLive \/ SetMode \/ LoadConfig
                  \/ Switch \/ LoopStep \/ Interrupted)
    \/ \E a \in Accounts, s \in Symbols : Fill(a, s)

\* Both threads go on: every call of the broker is retried a bounded number of times and
\* timed out (OrderClient), and the sleeps of the loop are bounded.  Nothing else is fair.
EnvFairness == WF_envVars(~Ended /\ Switch) /\ WF_envVars(~Ended /\ LoopStep)

EnvSpec == EnvInit /\ [][EnvNext]_envVars /\ EnvFairness

-----------------------------------------------------------------------------
\* Type correctness: the state of the managers, the accounts and the loop.
EnvTypeOK ==
    /\ kind \in [Brokers -> Accounts \cup {"none"}]
    /\ held \in [Accounts -> SUBSET Symbols]
    /\ open \in [Accounts -> SUBSET Symbols]
    /\ closing \in [Accounts -> SUBSET Symbols]
    /\ cur \in {b \in Brokers : kind[b] # "none"}
    /\ {mode, setting} \subseteq Modes
    /\ sw \in Calls
    /\ asked \in BOOLEAN
    /\ loop \in [pc : LoopSteps, broker : {b \in Brokers : kind[b] # "none"}, refused : BOOLEAN]
    /\ orders \in 0 .. MaxOrders
    /\ excused \subseteq Symbols

\* Between two switches, failed or not, the mode of the manager, which /env shows and goes
\* by, is the kind of the broker: "paper" never stands over a live broker.
ModesAgree == sw.pc = "none" => mode = ModeOf(kind[cur])

\* A broker is left only with what its drain closed, save for positions whose close was
\* refused with an error dict and positions opened since they were listed.
DrainedUnlessRefused ==
    sw.pc = "swap" => held[Acc(cur)] \subseteq closing[Acc(cur)] \cup excused

\* A switch that fails, wherever it fails, ends with the broker, mode and settings it
\* began with; one that succeeds ends with all three of the mode asked for, whatever
\* /setmode and /loadconfig did to the settings before.
SwitchIsAllOrNothing ==
    [][ sw.pc # "none" /\ sw'.pc = "none" =>
          IF sw.pc = "failed"
          THEN cur' = sw.old /\ mode' = sw.oldMode /\ setting' = sw.oldSetting
          ELSE {mode', setting', ModeOf(kind[cur])} = {sw.target} /\ cur' = cur ]_envVars

\* Unless main() ends meanwhile, a switch ends, and the manager takes the next one.
SwitchReturns == sw.pc # "none" ~> (sw.pc = "none" \/ Ended)

\* A shutdown leaves an order at the engine's account only if the cancellation was refused
\* or the loop had another broker than the engine.
OrdersLeftOnlyAfterSwitch ==
    Ended /\ open[Acc(Initial)] # {} => loop.refused \/ kind[loop.broker] # kind[Initial]

\* What the program's comment says of the shutdown: pending orders are cancelled, unless
\* the broker refuses (main.py, "Cancel all pending orders before shutdown").
ShutdownCancelsOrders == Ended /\ ~loop.refused => \A a \in Accounts : open[a] = {}

\* What the comments of switch_environment and of the settings suggest: settings, manager
\* and broker are of one mode (environment.py, "Update settings in-memory").  /setmode and
\* /loadconfig set the settings apart from the broker, as does .env from the start.
SettingsNameTheBroker == sw.pc = "none" => setting = ModeOf(kind[cur])
=============================================================================
