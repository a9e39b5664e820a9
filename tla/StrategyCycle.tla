---------------------------- MODULE StrategyCycle ----------------------------
(***************************************************************************)
(* A pass of the main loop over the strategies (main.py), the orchestrator *)
(* that runs the slots that are due (src/strategy/orchestrator.py), the    *)
(* engine's cycle for one slot (src/execution/engine.py, run_cycle and     *)
(* _process_signal) and what the contract store keeps of every decision    *)
(* (src/intelligence/confidence/contract_store.py), with calls that raise, *)
(* jobs that hold the broker lock, a market that closes and crashes.       *)
(*                                                                         *)
(* The trade behind an order is ExecutionEngine's; here an order is only   *)
(* sent or not.  A step of time is taken between passes: what is due is    *)
(* looked at once in each.                                                 *)
(***************************************************************************)
EXTENDS Naturals

CONSTANTS
    N,              \* the orchestrator's slots are numbered in the order they were added
    StockOnly,      \* those none of whose symbols is crypto
    Symbols,        \* bound: signals in a cycle
    Interval,       \* steps of time between two cycles of a slot
    Faults,         \* the calls that may raise
    Answers,        \* may DecisionOrchestrator.evaluate return (TRUE), raise (FALSE)?
    MaxContracts,   \* bound: contracts
    MaxCrashes      \* bound: crashes

Slots == 1 .. N

ASSUME ConstantsAssumption ==
    /\ N \in Nat /\ Symbols \in Nat /\ Interval \in Nat \ {0}
    /\ MaxContracts \in Nat /\ MaxCrashes \in Nat
    /\ StockOnly \subseteq Slots
    /\ Answers # {} /\ Answers \subseteq BOOLEAN
    /\ Faults \subseteq {"market", "data", "account", "cash", "order"}

None == 0           \* no slot
Ids == 1 .. MaxContracts

VARIABLES
    pass,       \* where the main loop's pass is
    open,       \* is the market open
    job,        \* a scheduled job holds the broker lock
    halted,     \* the risk manager does not let trade
    enabled, wait,  \* of each slot: is it enabled, and when is it due
    disabled,   \* the slots this pass disabled
    due,        \* the slots still to run
    slot, stage,    \* the slot whose cycle runs, and how far it is
    signals,    \* the signals still to be processed
    contract,   \* ct_contracts and ct_contract_outcomes
    made,       \* how many contracts there were
    crashes,
    closed,     \* history: this pass found the market closed
    sent        \* history: the contracts an order was accepted for

slotVars == << enabled, wait, disabled >>
cycle == << slot, stage, signals >>
trail == << contract, made, sent >>
outside == << open, job, halted, crashes >>
vars == << pass, open, job, halted, enabled, wait, disabled, due, slot, stage, signals,
           contract, made, crashes, closed, sent >>

NoContract == [status |-> "none", outcome |-> "none"]

Init ==
    /\ pass = "top" /\ open \in BOOLEAN /\ job = FALSE /\ halted = FALSE
    /\ enabled = [s \in Slots |-> TRUE] /\ wait = [s \in Slots |-> 0]
    /\ disabled = {} /\ due = {} /\ slot = None /\ stage = "start" /\ signals = 0
    /\ contract = [c \in Ids |-> NoContract] /\ made = 0
    /\ crashes = 0 /\ closed = FALSE /\ sent = {}

-----------------------------------------------------------------------------
(* The pass of the main loop.                                              *)

\* The loop goes on to the market if trading is not halted.
Top ==
    /\ pass = "top" /\ ~halted
    /\ pass' = "market"
    /\ UNCHANGED << slotVars, due, cycle, trail, outside, closed >>

\* Time goes by: the sleep between passes.
Tick ==
    /\ pass = "top" /\ \E s \in Slots : wait[s] > 0
    /\ wait' = [s \in Slots |-> IF wait[s] > 0 THEN wait[s] - 1 ELSE 0]
    /\ UNCHANGED << pass, enabled, disabled, due, cycle, trail, outside, closed >>

\* (mutant) The slots that trade crypto are disabled.
LeftOutCrypto(s) == enabled[s] /\ s \notin StockOnly

\* The slots a pass that finds the market closed disables.
LeftOut(s) == enabled[s] /\ s \in StockOnly

\* The market's state is asked for.
Market ==
    /\ pass = "market"
    /\ closed' = ~open
    /\ disabled' = IF open THEN {} ELSE {s \in Slots : LeftOut(s)}
    /\ enabled' = [s \in Slots |-> enabled[s] /\ s \notin disabled']
    /\ pass' = "lock"
    /\ UNCHANGED << wait, due, cycle, trail, outside >>

\* The call for the market's state raises: the pass is over.
MarketRaises ==
    /\ pass = "market" /\ "market" \in Faults
    /\ pass' = "top"
    /\ UNCHANGED << slotVars, due, cycle, trail, outside, closed >>

\* The broker lock is taken and the slots that are due are listed.
Acquire ==
    /\ pass = "lock" /\ ~job
    /\ due' = {s \in Slots : enabled[s] /\ wait[s] = 0}
    /\ pass' = "run"
    /\ UNCHANGED << slotVars, cycle, trail, outside, closed >>

\* The lock was not to be had in 30 seconds.
TimeOut ==
    /\ pass = "lock" /\ job
    /\ pass' = "enable"
    /\ UNCHANGED << slotVars, due, cycle, trail, outside, closed >>

\* All slots that were due have run: the lock is released.
Release ==
    /\ pass = "run" /\ slot = None /\ due = {}
    /\ pass' = "enable"
    /\ UNCHANGED << slotVars, due, cycle, trail, outside, closed >>

\* (mutant) The slots are enabled again where the lock is released, so not after a time-out.
EnableIfRun ==
    /\ pass = "enable"
    /\ enabled' = [s \in Slots |-> enabled[s] \/ (s \in disabled /\ ~job)]
    /\ disabled' = {} /\ pass' = "top" /\ closed' = FALSE
    /\ UNCHANGED << wait, due, cycle, trail, outside >>

\* The slots this pass disabled are enabled again.
Enable ==
    /\ pass = "enable"
    /\ enabled' = [s \in Slots |-> enabled[s] \/ s \in disabled]
    /\ disabled' = {} /\ pass' = "top" /\ closed' = FALSE
    /\ UNCHANGED << wait, due, cycle, trail, outside >>

-----------------------------------------------------------------------------
(* The cycle of one slot.                                                  *)

Begin ==
    /\ pass = "run" /\ slot = None /\ due # {}
    /\ slot' \in due /\ \A s \in due : slot' <= s
    /\ due' = due \ {slot'} /\ stage' = "start"
    /\ UNCHANGED << pass, slotVars, signals, trail, outside, closed >>

In(st) == slot # None /\ stage = st

\* (mutant) A cycle that raises ends the pass: the exception is caught around the loop.
RaiseOut ==
    /\ slot' = None /\ stage' = "start" /\ signals' = 0 /\ due' = {}
    /\ UNCHANGED << pass, slotVars, outside, closed >>

\* The cycle raises: logged, not recorded, and the next slot runs.
Raise ==
    /\ slot' = None /\ stage' = "start" /\ signals' = 0
    /\ UNCHANGED << pass, slotVars, due, outside, closed >>

\* The cycle returns and is recorded.
Record ==
    /\ slot' = None /\ stage' = "start" /\ signals' = 0
    /\ wait' = [wait EXCEPT ![slot] = Interval]
    /\ UNCHANGED << pass, enabled, disabled, due, trail, outside, closed >>

\* Trading is halted, or there is no data: nothing is done.
NothingToDo ==
    /\ In("start") /\ (halted \/ "data" \in Faults)
    /\ Record

\* The strategy gives its signals; those that may be shown are published.
Generate ==
    /\ In("start") /\ ~halted
    /\ signals' \in 0 .. IF made = MaxContracts THEN 0 ELSE Symbols
    /\ stage' = "judge"
    /\ UNCHANGED << pass, slotVars, due, slot, trail, outside, closed >>

\* The strategy raises, or the account cannot be read once the signals are published.
GenerateRaises ==
    /\ In("start") /\ ~halted /\ "account" \in Faults
    /\ Raise /\ UNCHANGED trail

\* All signals were processed: exits, snapshot, and the cycle returns.
Finish ==
    /\ In("judge") /\ signals = 0
    /\ Record

NextSignal == signals' = signals - 1 /\ stage' = "judge" /\ UNCHANGED slot

\* A gate before the contract says no (strength, position there already, intelligence,
\* package, size).
GateRefuses ==
    /\ In("judge") /\ signals > 0
    /\ NextSignal
    /\ UNCHANGED << pass, slotVars, due, trail, outside, closed >>

Undecided == In("judge") /\ signals > 0 /\ made < MaxContracts

Note(c, s, o) == [contract EXCEPT ![c] = [status |-> s, outcome |-> o]]

\* The contract is not executable: stored as rejected, with its outcome.
ContractRefuses ==
    /\ Undecided /\ TRUE \in Answers
    /\ made' = made + 1 /\ contract' = Note(made + 1, "rejected", "refused")
    /\ NextSignal
    /\ UNCHANGED << pass, slotVars, due, outside, closed, sent >>

\* The contract is to be executed: stored as pending.
ContractGrants ==
    /\ Undecided /\ TRUE \in Answers
    /\ made' = made + 1 /\ contract' = Note(made + 1, "pending", "none")
    /\ stage' = "risk"
    /\ UNCHANGED << pass, slotVars, due, slot, signals, outside, closed, sent >>

\* The contract cannot be made: the exception leaves run_cycle.
EvaluateRaises ==
    /\ Undecided /\ FALSE \in Answers
    /\ Raise /\ UNCHANGED trail

\* The account's cash is not known: rejected, the contract stays as it is.
CashUnknown ==
    /\ In("risk") /\ "cash" \in Faults
    /\ NextSignal
    /\ UNCHANGED << pass, slotVars, due, trail, outside, closed >>

\* The risk engine says no, or yes and there is no order all the same (a dry run, the
\* simulator).
RiskRefuses ==
    /\ In("risk")
    /\ contract' = Note(made, "pending", "refused")
    /\ NextSignal
    /\ UNCHANGED << pass, slotVars, due, made, sent, outside, closed >>

\* (mutant) The contract is marked before the order is sent.
RiskMarks ==
    /\ In("risk")
    /\ contract' = Note(made, "executed", "none")
    /\ stage' = "order"
    /\ UNCHANGED << pass, slotVars, due, slot, signals, made, sent, outside, closed >>

RiskGrants ==
    /\ In("risk")
    /\ stage' = "order"
    /\ UNCHANGED << pass, slotVars, due, slot, signals, trail, outside, closed >>

\* The broker accepts the order.
OrderAccepted ==
    /\ In("order")
    /\ sent' = sent \cup {made}
    /\ stage' = "mark"
    /\ UNCHANGED << pass, slotVars, due, slot, signals, contract, made, outside, closed >>

\* The broker rejects the order, or the call raises though the order may have got there:
\* the outcome says so.
OrderFails ==
    /\ In("order")
    /\ \/ UNCHANGED sent
       \/ "order" \in Faults /\ sent' = sent \cup {made}
    /\ contract' = [contract EXCEPT ![made].outcome = "refused"]
    /\ NextSignal
    /\ UNCHANGED << pass, slotVars, due, made, outside, closed >>

\* The contract is marked as executed.
MarkExecuted ==
    /\ In("mark")
    /\ contract' = [contract EXCEPT ![made].status = "executed"]
    /\ NextSignal
    /\ UNCHANGED << pass, slotVars, due, made, sent, outside, closed >>

-----------------------------------------------------------------------------
(* What goes on around the loop.                                           *)

inside == << pass, slotVars, due, cycle, trail, closed >>

MarketTurns == open' = ~open /\ UNCHANGED << job, halted, crashes, inside >>

\* A scheduled job takes the lock, which it cannot while the slots run, and gives it back.
JobStarts == ~job /\ pass # "run" /\ job' = TRUE
             /\ UNCHANGED << open, halted, crashes, inside >>
JobEnds == job /\ job' = FALSE /\ UNCHANGED << open, halted, crashes, inside >>

Halt == ~halted /\ halted' = TRUE /\ UNCHANGED << open, job, crashes, inside >>
Resume == halted /\ halted' = FALSE /\ UNCHANGED << open, job, crashes, inside >>

\* The process ends and starts again: the contract store is a file.
Crash ==
    /\ crashes < MaxCrashes /\ crashes' = crashes + 1
    /\ pass' = "top" /\ job' = FALSE /\ closed' = FALSE
    /\ enabled' = [s \in Slots |-> TRUE] /\ wait' = [s \in Slots |-> 0]
    /\ disabled' = {} /\ due' = {} /\ slot' = None /\ stage' = "start" /\ signals' = 0
    /\ UNCHANGED << open, halted, trail >>

Pass == Top \/ Market \/ MarketRaises \/ Acquire \/ TimeOut \/ Release \/ Enable \/ Begin
Cycle ==
    \/ NothingToDo \/ Generate \/ GenerateRaises \/ Finish \/ GateRefuses
    \/ ContractRefuses \/ ContractGrants \/ EvaluateRaises
    \/ CashUnknown \/ RiskRefuses \/ RiskGrants \/ OrderAccepted \/ OrderFails \/ MarkExecuted

Next == Pass \/ Cycle \/ Tick \/ MarketTurns \/ JobStarts \/ JobEnds \/ Halt \/ Resume \/ Crash

\* The loop's thread and time go on, and a pass that finds the lock free takes it, though
\* a job may take it first for a while.
Fairness ==
    /\ WF_vars(Pass \/ Cycle) /\ SF_vars(Tick)
    /\ SF_vars(Acquire) /\ SF_vars(Acquire /\ ~closed)

Spec == Init /\ [][Next]_vars /\ Fairness

-----------------------------------------------------------------------------
TypeOK ==
    /\ pass \in {"top", "market", "lock", "run", "enable"}
    /\ {open, job, halted, closed} \subseteq BOOLEAN
    /\ enabled \in [Slots -> BOOLEAN] /\ wait \in [Slots -> 0 .. Interval]
    /\ disabled \subseteq Slots /\ due \subseteq Slots /\ slot \in Slots \cup {None}
    /\ stage \in {"start", "judge", "risk", "order", "mark"} /\ signals \in 0 .. Symbols
    /\ contract \in [Ids -> [status : {"none", "pending", "rejected", "executed"},
                              outcome : {"none", "refused"}]]
    /\ made \in 0 .. MaxContracts /\ crashes \in 0 .. MaxCrashes /\ sent \subseteq Ids

\* "Temporarily disable stock-only slots so only crypto executes" (main.py:1656): in a pass
\* that found the market closed no slot that only trades stocks runs, whatever was done
\* before: time-outs on the lock, passes that raised, a restart.
StocksWaitForTheMarket ==
    [][slot' # slot /\ slot' # None => ~(closed /\ slot' \in StockOnly)]_vars

\* "Re-enable stock slots for next market-open cycle" (main.py:1682): no slot stays
\* disabled after the pass that disabled it, even when the lock was not to be had.
SlotsComeBack == pass = "top" => \A s \in Slots : enabled[s]

\* Each slot runs again and again, whichever other slot raises in its cycle and however
\* often (orchestrator.run_due_strategies goes on with the next one), if again and again a
\* pass finds the lock free and, for a slot that only trades stocks, the market open.
SlotsTakeTurns ==
    \A s \in Slots : []<>(pass = "lock" /\ ~job /\ (closed => s \notin StockOnly))
                         => []<>(slot = s)

\* The audit trail: a contract is marked as executed only if the broker accepted an order
\* for it, and no such contract has the outcome of one that was refused, whatever failed
\* or crashed on the way (engine.py:973-978, 1102-1121).
TrailIsTrue ==
    \A c \in Ids : contract[c].status = "executed" => c \in sent /\ contract[c].outcome = "none"

\* The README says (README.md:887) "Produces an immutable DecisionContract for every signal":
\* a cycle is over only when all its signals were processed.  It does not hold as main.py
\* wires the engine, where no contract is ever made.
EverySignalIsDecided ==
    [][slot # None /\ slot' # slot /\ crashes' = crashes => signals = 0]_vars
=============================================================================
