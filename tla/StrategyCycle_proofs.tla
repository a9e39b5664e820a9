------------------------ MODULE StrategyCycle_proofs ------------------------
(***************************************************************************)
(* That no slot is lost, that stocks wait for the market, that the trail   *)
(* is true and the types, for any number of slots, interval, faults and    *)
(* bounds.                                                                 *)
(***************************************************************************)
EXTENDS StrategyCycle, TLAPS

\* What is disabled was disabled by this pass, which will enable it again.
DisabledInv == \A s \in Slots : enabled[s] \/ (s \in disabled /\ pass \in {"lock", "run", "enable"})

\* Slots are listed while they run only.
DueInv == pass # "run" => due = {}

\* A pass that found the market closed has disabled what only trades stocks, and lists
\* none of it.
ClosedInv ==
    closed => /\ pass \in {"lock", "run", "enable"}
              /\ \A s \in StockOnly : ~enabled[s] /\ s \notin due

SlotShape ==
    /\ enabled \in [Slots -> BOOLEAN] /\ due \subseteq Slots
    /\ open \in BOOLEAN /\ closed \in BOOLEAN
    /\ pass \in {"top", "market", "lock", "run", "enable"}

SlotInv == SlotShape /\ DisabledInv /\ DueInv /\ ClosedInv

\* The contract a signal was granted is pending until it is marked, which follows the
\* broker's acceptance.
GrantInv ==
    /\ stage \in {"risk", "order", "mark"} =>
          made \in Ids /\ contract[made] = [status |-> "pending", outcome |-> "none"]
    /\ stage = "mark" => made \in sent

TrailShape ==
    /\ contract \in [Ids -> [status : {"none", "pending", "rejected", "executed"},
                             outcome : {"none", "refused"}]]
    /\ made \in 0 .. MaxContracts /\ sent \subseteq Ids
    /\ stage \in {"start", "judge", "risk", "order", "mark"}

TrailInv == TrailShape /\ GrantInv /\ TrailIsTrue

-----------------------------------------------------------------------------
(* The slots.                                                              *)

LEMMA SlotInit == Init => SlotInv
BY ConstantsAssumption DEF Init, SlotInv, SlotShape, DisabledInv, DueInv, ClosedInv

\* What a step that leaves the slots, the pass and the market it found alone keeps.
LEMMA SlotKept ==
    ASSUME SlotInv, UNCHANGED << pass, enabled, disabled, due, closed >>, open' \in BOOLEAN
    PROVE  SlotInv'
BY DEF SlotInv, SlotShape, DisabledInv, DueInv, ClosedInv

LEMMA SlotStep == SlotInv /\ [Next]_vars => SlotInv'
<1> SUFFICES ASSUME SlotInv, [Next]_vars PROVE SlotInv'
  OBVIOUS
<1> USE DEF SlotInv, SlotShape, DisabledInv, DueInv, ClosedInv, slotVars, outside
<1>1. CASE Top
  BY <1>1 DEF Top
<1>2. CASE Market
  <2>1. /\ closed' = ~open /\ pass' = "lock" /\ UNCHANGED << due, open >>
        /\ disabled' = IF open THEN {} ELSE {s \in Slots : LeftOut(s)}
        /\ enabled' = [s \in Slots |-> enabled[s] /\ s \notin disabled']
    BY <1>2 DEF Market
  <2>2. \A s \in Slots : enabled[s]
    BY <1>2 DEF Market
  <2>3. due = {}
    BY <1>2 DEF Market
  <2>4. DisabledInv' /\ DueInv'
    BY <2>1, <2>2, <2>3
  <2>5. SlotShape'
    <3>1. enabled' \in [Slots -> BOOLEAN]
      BY <2>1
    <3> QED
      BY <2>1, <3>1
  <2>6. ClosedInv'
    <3> SUFFICES ASSUME ~open, NEW s \in StockOnly PROVE ~enabled'[s]
      BY <2>1, <2>3
    <3>1. s \in Slots
      BY ConstantsAssumption
    <3>2. s \in disabled'
      BY <2>1, <2>2, <3>1 DEF LeftOut
    <3> QED
      BY <2>1, <3>1, <3>2
  <2> QED
    BY <2>4, <2>5, <2>6
<1>3. CASE MarketRaises
  BY <1>3 DEF MarketRaises
<1>4. CASE Acquire
  BY <1>4 DEF Acquire
<1>5. CASE TimeOut \/ Release
  BY <1>5 DEF TimeOut, Release
<1>6. CASE Enable
  BY <1>6 DEF Enable
<1>7. CASE Begin
  BY <1>7 DEF Begin
<1>8. CASE Crash
  BY <1>8 DEF Crash
<1>9. CASE Cycle
  <2>1. UNCHANGED << pass, enabled, disabled, due, closed, open >>
    BY <1>9 DEF Cycle, NothingToDo, Record, Generate, GenerateRaises, Finish, GateRefuses,
                ContractRefuses, ContractGrants, EvaluateRaises, Raise, CashUnknown,
                RiskRefuses, RiskGrants, OrderAccepted, OrderFails, MarkExecuted
  <2> QED
    BY <2>1, SlotKept
<1>10. CASE Tick \/ MarketTurns \/ JobStarts \/ JobEnds \/ Halt \/ Resume
  <2>1. UNCHANGED << pass, enabled, disabled, due, closed >> /\ open' \in BOOLEAN
    BY <1>10 DEF Tick, MarketTurns, JobStarts, JobEnds, Halt, Resume, inside
  <2> QED
    BY <2>1, SlotKept
<1>11. CASE UNCHANGED vars
  BY <1>11, SlotKept DEF vars
<1> QED
  BY <1>1, <1>2, <1>3, <1>4, <1>5, <1>6, <1>7, <1>8, <1>9, <1>10, <1>11 DEF Next, Pass

-----------------------------------------------------------------------------
(* The trail.                                                              *)

LEMMA TrailInit == Init => TrailInv
BY ConstantsAssumption DEF Init, TrailInv, TrailShape, GrantInv, TrailIsTrue, NoContract, Ids

\* What a step that leaves the trail alone and is not within a grant keeps.
LEMMA TrailKept ==
    ASSUME TrailInv, UNCHANGED trail, stage' \in {stage, "start", "judge"}
    PROVE  TrailInv'
BY DEF TrailInv, TrailShape, GrantInv, TrailIsTrue, trail

LEMMA TrailStep == TrailInv /\ [Next]_vars => TrailInv'
<1> SUFFICES ASSUME TrailInv, [Next]_vars PROVE TrailInv'
  OBVIOUS
<1> USE DEF TrailInv, TrailShape, GrantInv, TrailIsTrue
<1>1. CASE ContractRefuses
  <2>1. /\ made < MaxContracts /\ made' = made + 1 /\ sent' = sent /\ stage' = "judge"
        /\ contract' = [contract EXCEPT ![made + 1] = [status |-> "rejected", outcome |-> "refused"]]
    BY <1>1 DEF ContractRefuses, Undecided, Note, NextSignal
  <2> QED
    BY <2>1, ConstantsAssumption DEF Ids
<1>2. CASE ContractGrants
  <2>1. /\ made < MaxContracts /\ made' = made + 1 /\ sent' = sent /\ stage' = "risk"
        /\ contract' = [contract EXCEPT ![made + 1] = [status |-> "pending", outcome |-> "none"]]
    BY <1>2 DEF ContractGrants, Undecided, Note
  <2>2. made + 1 \in Ids
    BY <2>1, ConstantsAssumption DEF Ids
  <2> QED
    BY <2>1, <2>2, ConstantsAssumption DEF Ids
<1>3. CASE RiskRefuses
  BY <1>3 DEF RiskRefuses, Note, NextSignal, In
<1>4. CASE RiskGrants
  BY <1>4 DEF RiskGrants, In, trail
<1>5. CASE OrderAccepted
  BY <1>5 DEF OrderAccepted, In
<1>6. CASE OrderFails
  <2>1. /\ made \in Ids /\ contract[made].status = "pending"
        /\ contract' = [contract EXCEPT ![made].outcome = "refused"]
        /\ sent' \in {sent, sent \cup {made}} /\ made' = made /\ stage' = "judge"
    BY <1>6 DEF OrderFails, NextSignal, In
  <2> QED
    BY <2>1
<1>7. CASE MarkExecuted
  <2>1. /\ made \in Ids /\ contract[made].outcome = "none" /\ made \in sent
        /\ contract' = [contract EXCEPT ![made].status = "executed"]
        /\ sent' = sent /\ made' = made /\ stage' = "judge"
    BY <1>7 DEF MarkExecuted, NextSignal, In
  <2> QED
    BY <2>1
<1>8. CASE Pass \/ Tick \/ MarketTurns \/ JobStarts \/ JobEnds \/ Halt \/ Resume \/ Crash
  <2>1. UNCHANGED trail /\ stage' \in {stage, "start"}
    BY <1>8 DEF Pass, Top, Market, MarketRaises, Acquire, TimeOut, Release, Enable, Begin, Tick,
                MarketTurns, JobStarts, JobEnds, Halt, Resume, Crash, inside, cycle
  <2> QED
    BY <2>1, TrailKept
<1>9. CASE NothingToDo \/ Generate \/ GenerateRaises \/ Finish \/ GateRefuses
           \/ EvaluateRaises \/ CashUnknown
  <2>1. UNCHANGED trail /\ stage' \in {"start", "judge"}
    BY <1>9 DEF NothingToDo, Record, Generate, GenerateRaises, Finish, GateRefuses,
                EvaluateRaises, Raise, CashUnknown, NextSignal
  <2> QED
    BY <2>1, TrailKept
<1>10. CASE UNCHANGED vars
  BY <1>10, TrailKept DEF vars, trail
<1> QED
  BY <1>1, <1>2, <1>3, <1>4, <1>5, <1>6, <1>7, <1>8, <1>9, <1>10 DEF Next, Cycle

-----------------------------------------------------------------------------
\* No slot a pass disabled because the market was closed stays disabled when the pass is
\* over (main.py:1682), with any slots, faults and jobs.
THEOREM NoSlotIsLost == Spec => []SlotsComeBack
<1>1. SlotInv => SlotsComeBack
  BY DEF SlotInv, SlotShape, DisabledInv, SlotsComeBack
<1> QED
  BY <1>1, SlotInit, SlotStep, PTL DEF Spec

\* No slot that only trades stocks runs in a pass that found the market closed
\* (main.py:1656).
THEOREM StocksWait == Spec => StocksWaitForTheMarket
<1>1. SlotInv /\ [Next]_vars => [slot' # slot /\ slot' # None => ~(closed /\ slot' \in StockOnly)]_vars
  <2> SUFFICES ASSUME SlotInv, Next, slot' # slot, slot' # None
               PROVE  ~(closed /\ slot' \in StockOnly)
    BY DEF vars
  <2>1. CASE Begin
    BY <2>1 DEF Begin, SlotInv, ClosedInv
  <2>2. CASE ~Begin
    BY <2>2 DEF Next, Pass, Cycle, Top, Market, MarketRaises, Acquire, TimeOut, Release, Enable,
                Tick, MarketTurns, JobStarts, JobEnds, Halt, Resume, Crash, inside, cycle,
                NothingToDo, Record, Generate, GenerateRaises, Finish, GateRefuses,
                ContractRefuses, ContractGrants, EvaluateRaises, Raise, CashUnknown, NextSignal,
                RiskRefuses, RiskGrants, OrderAccepted, OrderFails, MarkExecuted
  <2> QED
    BY <2>1, <2>2
<1> QED
  BY <1>1, SlotInit, SlotStep, PTL DEF Spec, StocksWaitForTheMarket

\* A contract marked as executed had its order accepted and has no outcome of a refused
\* one (engine.py:973-978, 1102-1121), whatever raised or crashed before.
THEOREM TheTrailIsTrue == Spec => []TrailIsTrue
<1>1. TrailInv => TrailIsTrue
  BY DEF TrailInv
<1> QED
  BY <1>1, TrailInit, TrailStep, PTL DEF Spec
-----------------------------------------------------------------------------
(* The types.                                                              *)

\* A cycle with a contract at hand still has the signal it is about.
BusyInv ==
    /\ stage \in {"risk", "order", "mark"} => signals > 0
    /\ slot = None => stage = "start"

TypeInv == TypeOK /\ BusyInv

LEMMA TypeInit == Init => TypeInv
<1> SUFFICES ASSUME Init PROVE TypeInv
  OBVIOUS
<1>1. None \notin Slots /\ 0 \in 0 .. Interval /\ 0 \in 0 .. Symbols
      /\ 0 \in 0 .. MaxContracts /\ 0 \in 0 .. MaxCrashes
  BY ConstantsAssumption DEF None, Slots
<1>2. contract \in [Ids -> [status : {"none", "pending", "rejected", "executed"},
                            outcome : {"none", "refused"}]]
  BY DEF Init, NoContract
<1>3. enabled \in [Slots -> BOOLEAN] /\ wait \in [Slots -> 0 .. Interval]
  BY <1>1 DEF Init
<1> QED
  BY <1>1, <1>2, <1>3 DEF Init, TypeInv, TypeOK, BusyInv

\* A pass over the slots leaves the signals and the trail alone.
LEMMA PassTyped ==
    ASSUME TypeInv, Pass \/ Tick \/ Crash
    PROVE  TypeInv'
<1> USE DEF TypeInv, TypeOK, BusyInv, slotVars, cycle, trail, outside
<1>0. None \notin Slots /\ MaxCrashes \in Nat /\ Interval \in Nat /\ Symbols \in Nat
  BY ConstantsAssumption DEF None, Slots
<1>1. CASE Top \/ MarketRaises \/ TimeOut \/ Release
  BY <1>1 DEF Top, MarketRaises, TimeOut, Release
<1>2. CASE Market
  <2>1. disabled' \subseteq Slots /\ enabled' \in [Slots -> BOOLEAN] /\ closed' \in BOOLEAN
    BY <1>2 DEF Market
  <2> QED
    BY <1>2, <2>1 DEF Market
<1>3. CASE Acquire
  BY <1>3 DEF Acquire
<1>4. CASE Enable
  <2>1. enabled' \in [Slots -> BOOLEAN]
    BY <1>4 DEF Enable
  <2> QED
    BY <1>4, <2>1 DEF Enable
<1>5. CASE Begin
  BY <1>0, <1>5 DEF Begin
<1>6. CASE Tick
  <2>1. wait' \in [Slots -> 0 .. Interval]
    BY <1>0, <1>6 DEF Tick
  <2> QED
    BY <1>6, <2>1 DEF Tick
<1>7. CASE Crash
  <2>1. /\ enabled' \in [Slots -> BOOLEAN] /\ wait' \in [Slots -> 0 .. Interval]
        /\ crashes' \in 0 .. MaxCrashes /\ 0 \in 0 .. Symbols
    BY <1>0, <1>7 DEF Crash
  <2>2. {open, FALSE, halted} \subseteq BOOLEAN
    OBVIOUS
  <2> QED
    BY <1>7, <2>1, <2>2 DEF Crash
<1> QED
  BY <1>1, <1>2, <1>3, <1>4, <1>5, <1>6, <1>7 DEF Pass

\* A cycle moves on from signal to signal; the trail's types are TrailInv's.
LEMMA CycleTyped ==
    ASSUME TypeInv, TrailInv, TrailInv', Cycle
    PROVE  TypeInv'
<1>1. /\ UNCHANGED << pass, enabled, disabled, due, closed, open, job, halted, crashes >>
  BY DEF Cycle, NothingToDo, Record, Generate, GenerateRaises, Finish, GateRefuses,
         ContractRefuses, ContractGrants, EvaluateRaises, Raise, CashUnknown, RiskRefuses,
         RiskGrants, OrderAccepted, OrderFails, MarkExecuted, slotVars, outside
<1>2. slot \in Slots /\ slot # None
  BY DEF Cycle, NothingToDo, Generate, GenerateRaises, Finish, GateRefuses,
         ContractRefuses, ContractGrants, EvaluateRaises, Undecided, CashUnknown, RiskRefuses,
         RiskGrants, OrderAccepted, OrderFails, MarkExecuted, In, TypeInv, TypeOK
<1>3. wait' \in [Slots -> 0 .. Interval]
  <2>1. wait' \in {wait, [wait EXCEPT ![slot] = Interval]}
    BY DEF Cycle, NothingToDo, Record, Generate, GenerateRaises, Finish, GateRefuses,
           ContractRefuses, ContractGrants, EvaluateRaises, Raise, CashUnknown, RiskRefuses,
           RiskGrants, OrderAccepted, OrderFails, MarkExecuted, slotVars
  <2>2. Interval \in 0 .. Interval
    BY ConstantsAssumption
  <2> QED
    BY <1>2, <2>1, <2>2 DEF TypeInv, TypeOK
<1>4. signals \in 0 .. Symbols /\ Symbols \in Nat /\ MaxContracts \in Nat
      /\ (stage \in {"risk", "order", "mark"} => signals > 0)
  BY ConstantsAssumption DEF TypeInv, TypeOK, BusyInv
<1>5. /\ signals' \in 0 .. Symbols /\ (stage' \in {"risk", "order", "mark"} => signals' > 0)
      /\ slot' \in {slot, None} /\ (slot' = None => stage' = "start")
  <2>1. CASE NothingToDo \/ GenerateRaises \/ Finish \/ EvaluateRaises
    <3>1. signals' = 0 /\ slot' = None /\ stage' = "start"
      BY <2>1 DEF NothingToDo, GenerateRaises, Finish, EvaluateRaises, Record, Raise
    <3> QED
      BY <1>4, <3>1
  <2>2. CASE Generate
    BY <1>2, <1>4, <2>2 DEF Generate
  <2>3. CASE GateRefuses \/ ContractRefuses \/ CashUnknown \/ RiskRefuses \/ OrderFails \/ MarkExecuted
    <3>1. signals' = signals - 1 /\ stage' = "judge" /\ slot' = slot
      BY <2>3 DEF GateRefuses, ContractRefuses, CashUnknown, RiskRefuses, OrderFails,
                  MarkExecuted, NextSignal
    <3>2. signals > 0
      BY <1>4, <2>3 DEF GateRefuses, ContractRefuses, CashUnknown, RiskRefuses, OrderFails,
                        MarkExecuted, Undecided, In
    <3> QED
      BY <1>2, <1>4, <3>1, <3>2
  <2>4. CASE ContractGrants \/ RiskGrants \/ OrderAccepted
    BY <1>2, <1>4, <2>4 DEF ContractGrants, RiskGrants, OrderAccepted, Undecided, In
  <2> QED
    BY <2>1, <2>2, <2>3, <2>4 DEF Cycle
<1> QED
  BY <1>1, <1>2, <1>3, <1>5 DEF TypeInv, TypeOK, BusyInv, TrailInv, TrailShape

LEMMA TypeStep == TypeInv /\ TrailInv /\ TrailInv' /\ [Next]_vars => TypeInv'
<1> SUFFICES ASSUME TypeInv, TrailInv, TrailInv', [Next]_vars PROVE TypeInv'
  OBVIOUS
<1>1. CASE MarketTurns \/ JobStarts \/ JobEnds \/ Halt \/ Resume
  BY <1>1 DEF MarketTurns, JobStarts, JobEnds, Halt, Resume, inside, slotVars, cycle, trail,
              TypeInv, TypeOK, BusyInv
<1>2. CASE UNCHANGED vars
  BY <1>2 DEF vars, TypeInv, TypeOK, BusyInv
<1> QED
  BY <1>1, <1>2, PassTyped, CycleTyped DEF Next

\* Every variable keeps its type: a slot waits at most its interval, and a cycle never goes
\* on with more signals than it was given, nor for a signal it does not have.
THEOREM TypeCorrect == Spec => []TypeOK
<1>1. TypeInv => TypeOK
  BY DEF TypeInv
<1> QED
  BY <1>1, TypeInit, TypeStep, TrailInit, TrailStep, PTL DEF Spec
=============================================================================
