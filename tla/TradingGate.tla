----------------------------- MODULE TradingGate -----------------------------
(***************************************************************************)
(* Who may stop trading, and how soon it stops: RiskManager                *)
(* (src/risk/manager.py), AccountRiskLayer (src/risk/account_risk.py) and  *)
(* RuntimeState (src/core/runtime_state.py), as the main loop, the         *)
(* strategies' run_cycle, the daily 09:30 job, the Telegram bot and        *)
(* emergency_liquidate use them from their own threads.                    *)
(*                                                                         *)
(* A method of one of the three is one step, except that reset_daily       *)
(* builds its new DailyStats in one and installs it in another.  Limits    *)
(* are in percent and compared without division.  The portfolio value is   *)
(* the equity (a capital weight of one), and the cash, day-trade,          *)
(* loss-streak and trade-count checks of the account layer, like the       *)
(* layers after it, only reject: one free choice.                          *)
(***************************************************************************)
EXTENDS Integers

CONSTANTS
    Equities,       \* values the account's equity takes
    Results,        \* profit or loss of an exit
    DailyLosses,    \* max_daily_loss_pct: what /set may make of it, in percent
    OrderLimit,     \* max_orders_per_day
    AccountDaily, AccountWeekly, Drawdown, KillDrawdown,
                    \* limits of the account layer, in percent
    Slots,          \* most strategies due in one pass of the loop
    MaxTrades,      \* bound: exits between two resets
    MaxLoss         \* bound: profit or loss of a week

ASSUME ConstantsAssumption ==
    /\ Equities \subseteq Nat \ {0} /\ Equities # {}
    /\ Results \subseteq Int
    /\ DailyLosses \subseteq Nat \ {0} /\ DailyLosses # {}
    /\ {OrderLimit, AccountDaily, AccountWeekly, KillDrawdown, Slots, MaxTrades,
        MaxLoss} \subseteq Nat
    /\ Drawdown \in 0..100

\* Operating modes, by whether their size multiplier lets an entry pass.
Modes == {"open", "closed"}

Unknown == 0        \* an equity the account layer has not been told yet

VARIABLES
    equity,         \* the broker's figure
    \* RiskManager
    stats,          \* daily_stats
    dailyLoss,      \* limits.max_daily_loss_pct
    job,            \* reset_daily on the scheduler's thread
    \* AccountRiskLayer
    account,
    \* RuntimeState
    paused, mode,
    \* main loop
    pc,
    due,            \* strategies of this pass still to run
    value,          \* run_cycle: portfolio_value
    \* history
    seen,           \* highest equity the account layer was told since the start
    begun,          \* cycles begun since the pause
    late,           \* cycles begun since RiskManager's halt
    resumed         \* /resume came after the last check of the loop

riskVars == <<stats, dailyLoss, job>>
stateVars == <<paused, mode>>
loopVars == <<pc, due, value>>
historyVars == <<seen, begun, late, resumed>>
vars == <<equity, riskVars, account, stateVars, loopVars, historyVars>>

-----------------------------------------------------------------------------
(* RiskManager *)

NewStats(e, weekly) ==
    [start |-> e, current |-> e, realized |-> 0, weekly |-> weekly, trades |-> 0,
     halted |-> FALSE]

\* The loss of the day, at equity e, is at its limit.
LossHit(start, e) == (start - e) * 100 >= dailyLoss * start

CanTrade == /\ ~stats.halted
            /\ ~LossHit(stats.start, stats.current)
            /\ stats.trades < OrderLimit

\* What a call of can_trade leaves in daily_stats.
Checked == [stats EXCEPT !.halted = @ \/ LossHit(stats.start, stats.current)]

-----------------------------------------------------------------------------
(* AccountRiskLayer *)

Fell(peak, e, limit) == peak > 0 /\ (peak - e) * 100 >= limit * peak
Lost(pnl, limit) == pnl < 0 /\ -pnl * 100 >= limit * value

\* evaluate: what it leaves in the layer.  It rejects iff halted afterwards,
\* or by a check that leaves nothing.
Evaluated ==
    IF account.halted THEN account ELSE
    LET e == IF account.equity = Unknown THEN value ELSE account.equity
        p == IF account.peak = 0 THEN e ELSE account.peak
    IN  [account EXCEPT
           !.peak = p,
           !.killed = Fell(p, e, KillDrawdown),
           !.halted = \/ Fell(p, e, KillDrawdown)
                      \/ Lost(account.daily, AccountDaily)
                      \/ Lost(account.weekly, AccountWeekly)
                      \/ Fell(p, e, Drawdown)]

-----------------------------------------------------------------------------
(* Start of the process: everything but the broker's figure is in memory. *)

NewAccount == [peak |-> 0, equity |-> Unknown, daily |-> 0, weekly |-> 0,
               halted |-> FALSE, killed |-> FALSE]
NoJob == [at |-> "idle", equity |-> Unknown, weekly |-> 0]

Init ==
    /\ equity \in Equities
    /\ stats = NewStats(equity, 0)
    /\ dailyLoss \in DailyLosses
    /\ job = NoJob
    /\ account = NewAccount
    /\ paused = FALSE /\ mode = "open"
    /\ pc = "top" /\ due = 0 /\ value = 0
    /\ seen = 0 /\ begun = 0 /\ late = 0 /\ resumed = FALSE

\* The process ends, however, and is started again.
Restart ==
    /\ stats' = NewStats(equity, 0)
    /\ dailyLoss' \in DailyLosses
    /\ job' = NoJob
    /\ account' = NewAccount
    /\ paused' = FALSE /\ mode' = "open"
    /\ pc' = "top" /\ due' = 0 /\ value' = 0
    /\ seen' = 0 /\ begun' = 0 /\ late' = 0 /\ resumed' = FALSE
    /\ UNCHANGED equity

-----------------------------------------------------------------------------
(* Main loop *)

\* (mutant) The pause is not looked at.
TopRegardless ==
       /\ pc = "top"
       /\ mode' \in Modes
       /\ pc' = "check"
       /\ UNCHANGED <<equity, riskVars, account, paused, due, value, historyVars>>

\* The health score sets the mode, then the pause is looked at.
Top == /\ pc = "top"
       /\ mode' \in Modes
       /\ pc' = IF paused THEN "top" ELSE "check"
       /\ UNCHANGED <<equity, riskVars, account, paused, due, value, historyVars>>

Check == /\ pc = "check"
         /\ stats' = Checked
         /\ pc' = IF CanTrade THEN "feed" ELSE "top"
         /\ resumed' = FALSE
         /\ UNCHANGED <<equity, dailyLoss, job, account, stateVars, due, value, seen, begun, late>>

\* (mutant) update_state takes the last equity for the peak.
FeedLast ==
        /\ pc = "feed"
        /\ account' = [account EXCEPT !.equity = equity, !.peak = equity,
                                      !.daily = stats.realized, !.weekly = stats.weekly]
        /\ seen' = IF equity > seen THEN equity ELSE seen
        /\ pc' = "pass"
        /\ due' \in 0..Slots
        /\ UNCHANGED <<equity, riskVars, stateVars, value, begun, late, resumed>>

\* update_account_state with the broker's equity, unless get_account fails,
\* then the lock (taken or not) and the due strategies.
Feed == /\ pc = "feed"
        /\ \/ /\ account' = [account EXCEPT !.equity = equity,
                                            !.peak = IF equity > @ THEN equity ELSE @,
                                            !.daily = stats.realized,
                                            !.weekly = stats.weekly]
              /\ seen' = IF equity > seen THEN equity ELSE seen
           \/ UNCHANGED <<account, seen>>
        /\ pc' = "pass"
        /\ due' \in 0..Slots
        /\ UNCHANGED <<equity, riskVars, stateVars, value, begun, late, resumed>>

EndPass == /\ pc = "pass"
           /\ due = 0
           /\ pc' = "top"
           /\ UNCHANGED <<equity, riskVars, account, stateVars, due, value, historyVars>>

\* (mutant) run_cycle leaves the check to the main loop.
NextSlotUnchecked ==
            /\ pc = "pass"
            /\ due > 0
            /\ due' = due - 1
            /\ pc' = "fetch"
            /\ UNCHANGED <<equity, riskVars, account, stateVars, value, historyVars>>

\* (mutant) The list of due strategies is overrun.
NextSlotOnceMore ==
            /\ pc = "pass"
            /\ due' = due - 1
            /\ stats' = Checked
            /\ pc' = IF CanTrade THEN "fetch" ELSE "pass"
            /\ UNCHANGED <<equity, dailyLoss, job, account, stateVars, value, historyVars>>

\* run_cycle of the next due strategy: can_trade, then the market data.
NextSlot == /\ pc = "pass"
            /\ due > 0
            /\ due' = due - 1
            /\ stats' = Checked
            /\ pc' = IF CanTrade THEN "fetch" ELSE "pass"
            /\ UNCHANGED <<equity, dailyLoss, job, account, stateVars, value, historyVars>>

\* The account is read and the risk manager told its equity; signals follow.
Begin == /\ pc = "fetch"
         /\ pc' = "signals"
         /\ value' = equity
         /\ stats' = [stats EXCEPT !.current = equity]
         /\ begun' = IF paused THEN begun + 1 ELSE 0
         /\ late' = IF stats.halted THEN late + 1 ELSE 0
         /\ UNCHANGED <<equity, dailyLoss, job, account, stateVars, due, seen, resumed>>

\* _process_signal: a gate drops the signal, the mode's multiplier does, or the
\* account layer, or one after it.
Reject == /\ pc = "signals"
          /\ account' \in {account} \cup IF mode = "open" THEN {Evaluated} ELSE {}
          /\ UNCHANGED <<equity, riskVars, stateVars, loopVars, historyVars>>

Approve == /\ pc = "signals"
           /\ mode = "open"
           /\ account' = Evaluated
           /\ ~account'.halted
           /\ pc' = "entry"
           /\ UNCHANGED <<equity, riskVars, stateVars, due, value, historyVars>>

Enter == /\ pc = "entry"
         /\ pc' = "signals"
         /\ UNCHANGED <<equity, riskVars, account, stateVars, due, value, historyVars>>

\* _check_exits: can_trade once more.
BeginExits == /\ pc = "signals"
              /\ stats' = Checked
              /\ pc' = IF CanTrade THEN "exits" ELSE "pass"
              /\ value' = IF CanTrade THEN value ELSE 0
              /\ UNCHANGED <<equity, dailyLoss, job, account, stateVars, due, historyVars>>

\* record_trade
ExitTrade == /\ pc = "exits"
             /\ stats.trades < MaxTrades
             /\ \E r \in Results :
                   /\ stats.weekly + r \in -MaxLoss..MaxLoss
                   /\ stats' = [stats EXCEPT !.trades = @ + 1, !.realized = @ + r,
                                             !.weekly = @ + r]
             /\ UNCHANGED <<equity, dailyLoss, job, account, stateVars, loopVars, historyVars>>

\* The cycle is over: at its end, for want of data, or by an exception anywhere
\* in it, which the orchestrator catches.
EndCycle == /\ pc \in {"fetch", "signals", "entry", "exits"}
            /\ pc' = "pass"
            /\ value' = 0
            /\ UNCHANGED <<equity, riskVars, account, stateVars, due, historyVars>>

-----------------------------------------------------------------------------
(* The 09:30 job: the equity, under the lock the passes hold, ... *)
ResetRead == /\ job.at = "idle"
             /\ pc \in {"top", "check", "feed"}
             /\ job' = [job EXCEPT !.at = "read", !.equity = equity]
             /\ UNCHANGED <<equity, stats, dailyLoss, account, stateVars, loopVars, historyVars>>

\* ... the P&L of the week, unless a new one begins, ...
ResetBuild == /\ job.at = "read"
              /\ \E w \in {0, stats.weekly} : job' = [job EXCEPT !.at = "built", !.weekly = w]
              /\ UNCHANGED <<equity, stats, dailyLoss, account, stateVars, loopVars, historyVars>>

\* ... and new statistics, which are not halted.
ResetInstall == /\ job.at = "built"
                /\ stats' = NewStats(job.equity, job.weekly)
                /\ job' = NoJob
                /\ late' = 0
                /\ UNCHANGED <<equity, dailyLoss, account, stateVars, loopVars, seen, begun, resumed>>

-----------------------------------------------------------------------------
(* The operator *)
Pause == /\ paused' = TRUE
         /\ begun' = IF paused THEN begun ELSE 0
         /\ UNCHANGED <<equity, riskVars, account, mode, loopVars, seen, late, resumed>>

Resume == /\ paused' = FALSE
          /\ stats' = [stats EXCEPT !.halted = FALSE]
          /\ begun' = 0 /\ late' = 0
          /\ resumed' = TRUE
          /\ UNCHANGED <<equity, dailyLoss, job, account, mode, loopVars, seen>>

SetDailyLoss == /\ dailyLoss' \in DailyLosses
                /\ UNCHANGED <<equity, stats, job, account, stateVars, loopVars, historyVars>>

\* emergency_liquidate's last lines.
Emergency == /\ stats' = [stats EXCEPT !.halted = TRUE]
             /\ UNCHANGED <<equity, dailyLoss, job, account, stateVars, loopVars, historyVars>>

Market == /\ equity' \in Equities
          /\ UNCHANGED <<riskVars, account, stateVars, loopVars, historyVars>>

-----------------------------------------------------------------------------
Loop == \/ Top \/ Check \/ Feed \/ EndPass \/ NextSlot \/ Begin \/ Reject \/ Approve \/ Enter
        \/ BeginExits \/ ExitTrade \/ EndCycle
Job == ResetRead \/ ResetBuild \/ ResetInstall
Outside == Pause \/ Resume \/ SetDailyLoss \/ Emergency \/ Market \/ Restart

Next == Loop \/ Job \/ Outside

Spec == Init /\ [][Next]_vars

-----------------------------------------------------------------------------
DailyStats == [start : Equities, current : Equities, realized : Int, weekly : Int,
               trades : Nat, halted : BOOLEAN]
AccountState == [peak : Equities \cup {0}, equity : Equities \cup {Unknown}, daily : Int,
                 weekly : Int, halted : BOOLEAN, killed : BOOLEAN]
JobState == [at : {"idle", "read", "built"}, equity : Equities \cup {Unknown}, weekly : Int]

TypeOK ==
    /\ equity \in Equities
    /\ stats \in DailyStats
    /\ dailyLoss \in DailyLosses
    /\ job \in JobState
    /\ account \in AccountState
    /\ paused \in BOOLEAN /\ mode \in Modes
    /\ pc \in {"top", "check", "feed", "pass", "fetch", "signals", "entry", "exits"}
    /\ due \in 0..Slots
    /\ value \in Equities \cup {0}
    /\ seen \in Equities \cup {0}
    /\ begun \in Nat /\ late \in Nat /\ resumed \in BOOLEAN

\* A pause is honoured after at most the pass under way: no cycle begins that
\* was not among the strategies due when the pause came.
PauseHonoured == paused => begun <= Slots

\* A halt of the RiskManager is honoured after at most the cycle under way,
\* whichever thread set it and whatever the scheduler's job does meanwhile.
HaltHonoured == stats.halted => late <= 1

\* No entry is approved when the equity last fed to the account layer is down
\* from the highest ever fed by the drawdown limit: the layer's own peak misses
\* no update, and no halt is overtaken.
NoEntryBelowDrawdown ==
    pc = "entry" /\ account.equity # Unknown => ~Fell(seen, account.equity, Drawdown)

\* "Use /resume to clear it." (README.md:346): the check after a /resume does
\* not halt again when the account is above the limit by then.
ResumeClearsHalt ==
    [][pc = "check" /\ pc' \in {"feed", "top"} /\ resumed /\ ~resumed'
          /\ ~LossHit(stats.start, equity) /\ ~stats.halted => ~stats'.halted]_vars
=============================================================================
