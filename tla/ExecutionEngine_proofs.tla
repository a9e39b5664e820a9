----------------------- MODULE ExecutionEngine_proofs -----------------------
(***************************************************************************)
(* Theorems about ExecutionEngine for any set of trades and symbols, any   *)
(* limits and any number of crashes.                                       *)
(***************************************************************************)
EXTENDS ExecutionEngine, TLAPS

-----------------------------------------------------------------------------
(* What the operators on lifecycle states compute. *)

LEMMA AfterType == \A s, t \in TradeState : After(s, t) \in TradeState
  BY DEF After

\* The fast-forward of recovery and reconciler really ends in ACTIVE.
LEMMA FastForwardActive == FastForward = "ACTIVE"
  BY DEF FastForward, After, Allowed, Transitions, Terminal

\* Closing out ends what may be closed, and leaves everything else alone.
LEMMA CloseOutIs ==
    ASSUME NEW s
    PROVE  CloseOut(s) = IF s \in {"ACTIVE", "STOP_TRIGGERED", "TRAILING", "CLOSING"}
                         THEN "CLOSED" ELSE s
<1>1. CASE s \in {"ACTIVE", "STOP_TRIGGERED", "TRAILING", "CLOSING"}
  BY <1>1 DEF CloseOut, After, Allowed, Transitions
<1>2. CASE s \notin {"ACTIVE", "STOP_TRIGGERED", "TRAILING", "CLOSING"}
  BY <1>2 DEF CloseOut, After, Allowed, Transitions
<1>3. QED BY <1>1, <1>2

LEMMA AfterClosedIs ==
    ASSUME NEW s
    PROVE  After(s, "CLOSED") = IF s \in {"ACTIVE", "CLOSING"} THEN "CLOSED" ELSE s
  BY DEF After, Allowed, Transitions

LEMMA AfterErrorIs ==
    ASSUME NEW s
    PROVE  After(s, "ERROR") = IF s \in Terminal THEN s ELSE "ERROR"
  BY DEF After, Allowed, Transitions, Terminal

\* The transitions of the decision pipeline.
LEMMA PipelineSteps ==
    /\ After("SIGNAL", "PENDING_RISK") = "PENDING_RISK"
    /\ After("PENDING_RISK", "RISK_APPROVED") = "RISK_APPROVED"
    /\ After("PENDING_RISK", "RISK_REJECTED") = "RISK_REJECTED"
    /\ After("RISK_APPROVED", "SUBMITTED") = "SUBMITTED"
    /\ After("RISK_APPROVED", "CANCELLED") = "RISK_APPROVED"
    /\ After("SUBMITTED", "CANCELLED") = "CANCELLED"
    /\ After("SUBMITTED", "ERROR") = "ERROR"
    /\ After("SUBMITTED", "ACCEPTED") = "ACCEPTED"
    /\ After("ACCEPTED", "FILLED") = "FILLED"
    /\ After("FILLED", "ACTIVE") = "ACTIVE"
  BY DEF After, Allowed, Transitions, Terminal

-----------------------------------------------------------------------------
(* Type correctness.  An open order is one that was placed, which bounds open. *)

OpenWerePlaced == \A t \in TradeId : open[t] <= placed[t]

TypeInv == TypeOK /\ OpenWerePlaced

LEMMA RecoveredType ==
    ASSUME TypeOK, NEW p
    PROVE  Recovered(p) \in [Ids -> TradeState \cup {"absent"}]
<1>1. Readopted(p) \in [Ids -> TradeState \cup {"absent"}]
  BY FastForwardActive DEF Readopted, TypeOK, TradeState
<1>2. QED BY <1>1, AfterClosedIs DEF Recovered, TradeState

LEMMA RemovedType ==
    ASSUME TypeOK
    PROVE  Removed \in [Ids -> TradeState \cup {"absent"}]
  BY DEF TypeOK, Removed

\* What NextSignal leaves of the type invariant to its caller.
LEMMA NextSignalType ==
    ASSUME TypeInv, NEW s \in TradeState, NextSignal(s),
           rows' \subseteq TradeId, approved' \subseteq TradeId
    PROVE  TypeInv'
  BY ConstantsAssumption
  DEF TypeInv, TypeOK, OpenWerePlaced, NextSignal, opVars, runVars, brokerVars, sweepVars, Ids,
      NoReply

LEMMA TypeInit == Init => TypeInv
  BY ConstantsAssumption DEF Init, TypeInv, TypeOK, OpenWerePlaced, Flat, NoOrders, NoReply, NoRequest

LEMMA DownType ==
    ASSUME TypeInv, Down, crashes' \in 0..MaxCrashes, pos' \in [Syms -> Int],
           UNCHANGED <<placed, dryRun>>, open' \in {open, NoOrders}
    PROVE  TypeInv'
  BY ConstantsAssumption
  DEF TypeInv, TypeOK, OpenWerePlaced, Down, Flat, NoOrders, NoReply

\* In the pipeline cur is a trade: needed for the type of its next state.
CurIsTrade == pc \in {"risk", "submit"} => cur \in TradeId /\ life[cur] \in TradeState

LEMMA TypeStep ==
    ASSUME TypeInv, CurIsTrade, [Next]_vars
    PROVE  TypeInv'
<1> USE DEF TypeInv, TypeOK, OpenWerePlaced, bookVars, brokerVars, cycleVars, sweepVars, mainVars,
            opVars, runVars
<1>1. CASE Restart
  BY <1>1, RecoveredType DEF Restart
<1>2. CASE RestartBlind
  BY <1>2 DEF RestartBlind
<1>3. CASE Exit
  BY <1>3, DownType DEF Exit
<1>4. CASE LoopTop
  BY <1>4, RemovedType, ConstantsAssumption DEF LoopTop
<1>5. CASE ReapNothing
  BY <1>5 DEF ReapNothing
<1>6. CASE ReapFirst
  BY <1>6, AfterErrorIs DEF ReapFirst, Unmoved, TradeState, Terminal
<1>7. CASE Reconcile
  BY <1>7 DEF Reconcile, Held
<1>8. CASE ReconcileFails
  BY <1>8 DEF ReconcileFails
<1>9. CASE AutoFix
  BY <1>9, FastForwardActive DEF AutoFix, TradeState
<1>10. CASE SkipCycle
  BY <1>10 DEF SkipCycle
<1>11. CASE BeginCycle
  BY <1>11 DEF BeginCycle
<1>12. CASE DropSignal
  BY <1>12 DEF DropSignal
<1>13. CASE Consider
  BY <1>13, PipelineSteps DEF Consider, Ids, TradeState
<1>14. CASE AccountUnavailable
  BY <1>14, NextSignalType, AfterType DEF CurIsTrade, TradeState, AccountUnavailable
<1>15. CASE RiskRejects
  BY <1>15, NextSignalType, AfterType DEF CurIsTrade, TradeState, RiskRejects
<1>16. CASE DryRunTrade
  BY <1>16, NextSignalType, AfterType DEF CurIsTrade, TradeState, DryRunTrade, RiskApproves, Passed
<1>17. CASE SimulatorRejects
  BY <1>17, NextSignalType, AfterType DEF CurIsTrade, TradeState, SimulatorRejects, RiskApproves, Passed
<1>18. CASE QuantityRejected
  BY <1>18, NextSignalType, AfterType DEF CurIsTrade, TradeState, QuantityRejected, RiskApproves, Passed
<1>19. CASE OrderAnswered
  BY <1>19, NextSignalType, AfterType DEF CurIsTrade, TradeState, OrderAnswered
<1>20. CASE OrderRefused
  BY <1>20, NextSignalType, AfterType DEF CurIsTrade, TradeState, OrderRefused
<1>21. CASE OrderRaised
  BY <1>21, NextSignalType, AfterType DEF CurIsTrade, TradeState, OrderRaised
<1>22. CASE SubmitTrade
  <2>1. After(Passed, "SUBMITTED") \in TradeState
    BY <1>22, AfterType DEF SubmitTrade, RiskApproves, Passed, CurIsTrade, TradeState
  <2>2. rows' \subseteq TradeId /\ approved' \subseteq TradeId
    BY <1>22 DEF SubmitTrade, RiskApproves, RecordIntent, CurIsTrade
  <2>3. QED
    BY <1>22, <2>1, <2>2 DEF SubmitTrade
<1>23. CASE BeginExits
  BY <1>23 DEF BeginExits, Held
<1>24. CASE NoExit
  BY <1>24 DEF NoExit
<1>25. CASE ClosePosition
  BY <1>25 DEF ClosePosition
<1>26. CASE CloseRaises
  BY <1>26 DEF CloseRaises
<1>27. CASE BookExit
  BY <1>27, CloseOutIs DEF BookExit, LiveOf, Unmoved, TradeState
<1>28. CASE EndCycle
  BY <1>28, RemovedType DEF EndCycle, Flat
<1>29. CASE RecoverRead
  BY <1>29 DEF RecoverRead, Command
<1>30. CASE RecoverApply
  BY <1>30, RecoveredType DEF RecoverApply, Flat, Unmoved
<1>31. CASE TelegramTrade
  BY <1>31 DEF TelegramTrade
<1>32. CASE CloseAllUnbooked
  BY <1>32, ConstantsAssumption DEF CloseAllUnbooked, Flat, NoOrders
<1>33. CASE Liquidate
  BY <1>33, ConstantsAssumption DEF Liquidate, Flat, NoOrders
<1>34. CASE BookLiquidation
  BY <1>34, CloseOutIs DEF BookLiquidation, Flat, Unmoved, TradeState
<1>35. CASE PlaceOrder
  BY <1>35, ConstantsAssumption DEF PlaceOrder, CurIsTrade
<1>36. CASE Fill
  <2>1. PICK u \in TradeId :
           /\ open[u] > 0
           /\ open' = [open EXCEPT ![u] = @ - 1]
           /\ pos' = [pos EXCEPT ![request[u].sym] = @ + Gain(u)]
    BY <1>36 DEF Fill
  <2>2. pos' \in [Syms -> Int]
    <3>1. Gain(u) \in Int
      BY DEF Gain
    <3>2. pos \in [Syms -> Int]
      OBVIOUS
    <3> DEFINE x == request[u].sym
    <3>3. pos' = [pos EXCEPT ![x] = pos[x] + Gain(u)]
      BY <2>1
    <3>4. \A s \in Syms : pos'[s] = IF s = x THEN pos[s] + Gain(u) ELSE pos[s]
      BY <3>2, <3>3
    <3>5. pos' = [s \in Syms |-> pos'[s]]
      BY <3>2, <3>3
    <3> HIDE DEF x
    <3>6. QED BY <3>1, <3>2, <3>4, <3>5
  <2>3. open' \in [TradeId -> 0..MaxOrders] /\ \A t \in TradeId : open'[t] <= open[t]
    <3>1. open[u] > 0 /\ open' = [open EXCEPT ![u] = open[u] - 1]
      BY <2>1, Zenon
    <3>2. open \in [TradeId -> 0..MaxOrders] /\ MaxOrders \in Nat
      BY ConstantsAssumption
    <3>3. QED BY <3>1, <3>2
  <2>4. placed' = placed /\ OpenWerePlaced'
    <3>1. placed' = placed
      BY <1>36 DEF Fill
    <3>2. SUFFICES ASSUME NEW t \in TradeId PROVE open'[t] <= placed[t]
      BY <3>1
    <3>3. open'[t] <= open[t] /\ open[t] <= placed[t] /\ {open[t], open'[t], placed[t]} \subseteq Int
      BY <2>3, ConstantsAssumption
    <3>4. QED BY <3>3
  <2>5. QED
    BY <1>36, <2>2, <2>3, <2>4 DEF Fill
<1>37. CASE KillOrder
  BY <1>37, ConstantsAssumption DEF KillOrder
<1>38. CASE ClosedElsewhere
  BY <1>38 DEF ClosedElsewhere, Held
<1>39. CASE Crash
  BY <1>39, DownType, ConstantsAssumption DEF Crash
<1>40. CASE Shutdown
  BY <1>40, DownType, ConstantsAssumption DEF Shutdown
<1>41. ASSUME NEW t \in TradeId, GrowOld(t) PROVE TypeInv'
  BY <1>41 DEF GrowOld
<1>42. ASSUME NEW s \in Syms, CoolDown(s) PROVE TypeInv'
  BY <1>42 DEF CoolDown
<1>43. CASE UNCHANGED vars
  BY <1>43 DEF vars
<1>44. QED
  BY <1>1, <1>2, <1>3, <1>4, <1>5, <1>6, <1>7, <1>8, <1>9, <1>10, <1>11, <1>12, <1>13, <1>14,
     <1>15, <1>16, <1>17, <1>18, <1>19, <1>20, <1>21, <1>22, <1>23, <1>24, <1>25, <1>26, <1>27,
     <1>28, <1>29, <1>30, <1>31, <1>32, <1>33, <1>34, <1>35, <1>36, <1>37, <1>38, <1>39,
     <1>40, <1>41, <1>42, <1>43
     DEF Next, Process, House, Cycle, Commands, Environment

-----------------------------------------------------------------------------
(* The inductive invariant.  OrdersAreApproved and PositionTradesHaveOrders   *)
(* are preserved because of what holds while the engine is deciding on a      *)
(* trade, and that is preserved because no other action can move a trade in   *)
(* flight: recovery, exits and commands ask for transitions that the table    *)
(* allows only from the states of a position, and the reaper, which may move  *)
(* it, runs on the engine's own thread.                                       *)

\* A trade not yet created is in no book, and has no order.
UnusedIsUnknown ==
    \A t \in TradeId : request[t] = NoRequest => life[t] = "absent" /\ placed[t] = 0

\* The trade being processed has been created, and has not been there for long.
CurIsCreated ==
    pc \in {"risk", "submit"} => cur \in TradeId /\ request[cur] # NoRequest /\ cur \notin old

\* What has been accepted so far of the trade being submitted.
SubmittedIsApproved == pc = "submit" => cur \in approved /\ ~dryRun

StaleIsInFlight == \A t \in old : life[t] \in InFlight

IInv == /\ TypeInv
        /\ UnusedIsUnknown
        /\ CurIsCreated
        /\ SubmittedIsApproved
        /\ StaleIsInFlight
        /\ PipelineOwnsTrade
        /\ OrdersAreApproved
        /\ PositionTradesHaveOrders

\* What an action outside the pipeline may do to an engine trade: leave it,
\* close it when it is a position, or drop it when it is over.
Settled == {"ACTIVE", "STOP_TRIGGERED", "TRAILING", "CLOSING"}
Quiet(t) == \/ life'[t] = life[t]
            \/ life[t] \in Settled /\ life'[t] \in {"CLOSED", "absent"}
            \/ life[t] \in Terminal /\ life'[t] = "absent"

\* The part of such an action that the invariant depends on.
Outside ==
    /\ \A t \in TradeId : Quiet(t)
    /\ UNCHANGED <<request, placed, approved, dryRun>>
    /\ pc' \notin {"risk", "submit"} \/ UNCHANGED <<pc, cur>>
    /\ \A i \in Ids : life'[i] = "ERROR" => life[i] = "ERROR"
    /\ \A t \in old' : /\ life'[t] \in InFlight
                       /\ t \in old \/ pc' \notin {"risk", "submit"}

LEMMA RecoveredIs ==
    ASSUME TypeOK, NEW p, NEW t \in TradeId
    PROVE  \/ Recovered(p)[t] = life[t]
           \/ life[t] \in Settled /\ Recovered(p)[t] = "CLOSED"
<1>1. t \in Ids /\ t \notin {"recovered"} \X Held(p)
  BY IdsAssumption DEF Ids, AdoptedIds, Held
<1>2. Readopted(p)[t] = life[t]
  BY <1>1 DEF Readopted
<1>3. Recovered(p)[t] \in {life[t], After(life[t], "CLOSED")}
  BY <1>1, <1>2 DEF Recovered
<1>4. QED BY <1>3, AfterClosedIs DEF Settled

LEMMA RecoveredHasNoNewErrors ==
    ASSUME TypeOK, NEW p, NEW i \in Ids, Recovered(p)[i] = "ERROR"
    PROVE  life[i] = "ERROR"
<1>1. Readopted(p)[i] \in {life[i], "ACTIVE"}
  BY FastForwardActive DEF Readopted
<1>2. Recovered(p)[i] \in {Readopted(p)[i], "CLOSED"}
  BY AfterClosedIs DEF Recovered
<1>3. QED BY <1>1, <1>2

LEMMA RemovedIs ==
    ASSUME NEW t \in Ids
    PROVE  Removed[t] = IF life[t] \in Terminal THEN "absent" ELSE life[t]
  BY DEF Removed

LEMMA OutsideKeeps ==
    ASSUME IInv, TypeInv', Outside
    PROVE  IInv'
<1> USE DEF IInv, Outside, Quiet, Settled, Terminal, InFlight, Accepted
<1>1. UnusedIsUnknown'
  BY DEF UnusedIsUnknown
<1>2. CurIsCreated'
  BY DEF CurIsCreated
<1>3. SubmittedIsApproved'
  BY DEF SubmittedIsApproved
<1>4. StaleIsInFlight'
  BY DEF StaleIsInFlight
<1>5. PipelineOwnsTrade'
  BY DEF PipelineOwnsTrade, CurIsCreated
<1>6. OrdersAreApproved'
  BY DEF OrdersAreApproved
<1>7. PositionTradesHaveOrders'
  BY DEF PositionTradesHaveOrders
<1>8. QED BY <1>1, <1>2, <1>3, <1>4, <1>5, <1>6, <1>7

\* The actions that are not the pipeline's.
LEMMA OutsideActions ==
    ASSUME IInv,
           \/ Restart \/ RestartBlind
           \/ LoopTop \/ ReapNothing \/ Reconcile \/ ReconcileFails \/ AutoFix \/ SkipCycle
           \/ BeginCycle \/ DropSignal \/ BeginExits \/ NoExit \/ ClosePosition
           \/ CloseRaises \/ BookExit \/ EndCycle
           \/ Commands
           \/ Fill \/ KillOrder \/ ClosedElsewhere
           \/ (\E t \in TradeId : GrowOld(t)) \/ (\E s \in Syms : CoolDown(s))
           \/ UNCHANGED vars
    PROVE  Outside
<1> USE DEF Outside, Quiet, IInv, StaleIsInFlight, bookVars, brokerVars, cycleVars, sweepVars,
            mainVars, runVars
<1>1. old \subseteq TradeId
  BY DEF TypeInv, TypeOK
<1>2. CASE Restart
  BY <1>2, <1>1, RecoveredIs, RecoveredHasNoNewErrors DEF Restart, TypeInv, InFlight, Settled
<1>3. CASE RestartBlind
  BY <1>3 DEF RestartBlind
<1>4. CASE LoopTop
  BY <1>4, <1>1, RemovedIs DEF LoopTop, Ids, InFlight, Terminal
<1>5. CASE ReapNothing
  BY <1>5 DEF ReapNothing
<1>6. CASE Reconcile
  BY <1>6 DEF Reconcile
<1>7. CASE ReconcileFails
  BY <1>7 DEF ReconcileFails
<1>8. CASE AutoFix
  BY <1>8, <1>1, IdsAssumption, FastForwardActive DEF AutoFix, Ids, AdoptedIds, TypeInv, TypeOK
<1>9. CASE SkipCycle
  BY <1>9 DEF SkipCycle
<1>10. CASE BeginCycle
  BY <1>10 DEF BeginCycle
<1>11. CASE DropSignal
  BY <1>11 DEF DropSignal
<1>12. CASE BeginExits
  BY <1>12 DEF BeginExits
<1>13. CASE NoExit
  BY <1>13 DEF NoExit
<1>14. CASE ClosePosition
  BY <1>14 DEF ClosePosition
<1>15. CASE CloseRaises
  BY <1>15 DEF CloseRaises
<1>16. CASE BookExit
  <2>1. (\A t \in TradeId : Quiet(t)) /\ \A i \in Ids : life'[i] = "ERROR" => life[i] = "ERROR"
    <3>1. life \in [Ids -> TradeState \cup {"absent"}] /\ TradeId \subseteq Ids
      BY DEF TypeInv, TypeOK, Ids
    <3>2. CASE UNCHANGED life
      BY <3>2
    <3>3. ASSUME NEW i \in LiveOf(reply.sym), life' = [life EXCEPT ![i] = CloseOut(@)]
          PROVE  /\ \A t \in TradeId : Quiet(t)
                 /\ \A j \in Ids : life'[j] = "ERROR" => life[j] = "ERROR"
      BY <3>1, <3>3, CloseOutIs DEF Settled
    <3>4. QED BY <1>16, <3>2, <3>3 DEF BookExit
  <2>2. QED
    BY <1>16, <1>1, <2>1 DEF BookExit, Unmoved
<1>17. CASE EndCycle
  BY <1>17, <1>1, RemovedIs DEF EndCycle, Ids, InFlight, Terminal
<1>18. CASE RecoverRead
  BY <1>18 DEF RecoverRead
<1>19. CASE RecoverApply
  BY <1>19, <1>1, RecoveredIs, RecoveredHasNoNewErrors DEF RecoverApply, Unmoved, TypeInv
<1>20. CASE TelegramTrade
  BY <1>20 DEF TelegramTrade
<1>21. CASE CloseAllUnbooked
  BY <1>21 DEF CloseAllUnbooked
<1>22. CASE Liquidate
  BY <1>22 DEF Liquidate
<1>23. CASE BookLiquidation
  BY <1>23, <1>1, CloseOutIs DEF BookLiquidation, Unmoved, Settled, Ids, InFlight, Terminal, TypeInv, TypeOK
<1>24. CASE Fill
  BY <1>24 DEF Fill
<1>25. CASE KillOrder
  BY <1>25 DEF KillOrder
<1>26. CASE ClosedElsewhere
  BY <1>26 DEF ClosedElsewhere
<1>27. ASSUME NEW t \in TradeId, GrowOld(t) PROVE Outside
  BY <1>27 DEF GrowOld
<1>28. ASSUME NEW s \in Syms, CoolDown(s) PROVE Outside
  BY <1>28 DEF CoolDown
<1>29. CASE UNCHANGED vars
  BY <1>29 DEF vars
<1>30. QED
  BY <1>2, <1>3, <1>4, <1>5, <1>6, <1>7, <1>8, <1>9, <1>10, <1>11, <1>12, <1>13, <1>14, <1>15,
     <1>16, <1>17, <1>18, <1>19, <1>20, <1>21, <1>22, <1>23, <1>24, <1>25, <1>26, <1>27,
     <1>28, <1>29
     DEF Commands

-----------------------------------------------------------------------------
(* The pipeline: what its actions do to the trade they decide on. *)

\* A decision that ends the trade's turn leaves it in state s.
Decision(s) ==
    /\ NextSignal(s)
    /\ \/ pc = "risk" /\ s \in {"PENDING_RISK", "RISK_REJECTED", "RISK_APPROVED", "CANCELLED"}
       \/ pc = "submit" /\ s \in {"CANCELLED", "ERROR"}
       \/ pc = "submit" /\ s \in {"ACCEPTED", "ACTIVE"} /\ placed[cur] > 0
    /\ approved' \in {approved, approved \cup {cur}}

LEMMA PipelineDecides ==
    ASSUME IInv,
           \/ AccountUnavailable \/ RiskRejects \/ DryRunTrade \/ SimulatorRejects
           \/ QuantityRejected \/ OrderAnswered \/ OrderRefused \/ OrderRaised
    PROVE  \E s : Decision(s)
<1> USE PipelineSteps DEF IInv, PipelineOwnsTrade, Decision, RiskApproves, Passed
<1>1. CASE AccountUnavailable
  BY <1>1 DEF AccountUnavailable
<1>2. CASE RiskRejects
  BY <1>2 DEF RiskRejects
<1>3. CASE DryRunTrade
  BY <1>3 DEF DryRunTrade
<1>4. CASE SimulatorRejects
  BY <1>4 DEF SimulatorRejects
<1>5. CASE QuantityRejected
  BY <1>5 DEF QuantityRejected
<1>6. CASE OrderAnswered
  BY <1>6 DEF OrderAnswered
<1>7. CASE OrderRefused
  BY <1>7 DEF OrderRefused
<1>8. CASE OrderRaised
  BY <1>8 DEF OrderRaised
<1>9. QED BY <1>1, <1>2, <1>3, <1>4, <1>5, <1>6, <1>7, <1>8

\* Every step is of one of seven kinds, which the proofs below go through.
LEMMA Steps ==
    ASSUME IInv, [Next]_vars
    PROVE  \/ Outside
           \/ Down /\ UNCHANGED <<placed, dryRun>>
           \/ ReapFirst
           \/ Consider
           \/ \E s : Decision(s)
           \/ SubmitTrade
           \/ PlaceOrder
<1>1. \/ Outside
      \/ Exit \/ Crash \/ Shutdown \/ ReapFirst \/ Consider \/ SubmitTrade \/ PlaceOrder
      \/ \/ AccountUnavailable \/ RiskRejects \/ DryRunTrade \/ SimulatorRejects
         \/ QuantityRejected \/ OrderAnswered \/ OrderRefused \/ OrderRaised
  BY OutsideActions DEF Next, Process, House, Cycle, Environment
<1>2. Exit \/ Crash \/ Shutdown => Down /\ UNCHANGED <<placed, dryRun>>
  BY DEF Exit, Crash, Shutdown, brokerVars, runVars
<1>3. QED BY <1>1, <1>2, PipelineDecides

LEMMA NoRequestIsNoSignal == NoRequest \notin Signals
<1>1. SUFFICES ASSUME NoRequest \in Signals PROVE FALSE
  OBVIOUS
<1>2. NoRequest.sym \in Syms
  BY <1>1 DEF Signals
<1>3. QED BY <1>2, ConstantsAssumption DEF NoRequest

LEMMA CurType == IInv => CurIsTrade
  BY DEF IInv, CurIsTrade, CurIsCreated, PipelineOwnsTrade, TradeState

-----------------------------------------------------------------------------
(* The invariant is inductive. *)

LEMMA DecisionKeeps ==
    ASSUME IInv, TypeInv', NEW s, Decision(s)
    PROVE  IInv'
<1> USE DEF IInv, Decision, NextSignal, brokerVars, runVars
<1>1. /\ cur \in TradeId /\ request[cur] # NoRequest /\ cur \notin old
      /\ \A t \in TradeId : life'[t] = IF t = cur THEN s ELSE life[t]
      /\ pc' = "signals" /\ UNCHANGED <<request, old, placed, dryRun>>
  BY DEF CurIsCreated, TypeInv, TypeOK, Ids
<1>2. UnusedIsUnknown'
  BY <1>1 DEF UnusedIsUnknown
<1>3. CurIsCreated' /\ SubmittedIsApproved' /\ PipelineOwnsTrade'
  BY <1>1 DEF CurIsCreated, SubmittedIsApproved, PipelineOwnsTrade
<1>4. StaleIsInFlight'
  BY <1>1 DEF StaleIsInFlight, TypeInv, TypeOK
<1>5. OrdersAreApproved'
  BY <1>1 DEF OrdersAreApproved
<1>6. PositionTradesHaveOrders'
  BY <1>1 DEF PositionTradesHaveOrders, Accepted
<1>7. QED BY <1>2, <1>3, <1>4, <1>5, <1>6

LEMMA IInvInit == Init => IInv
  BY TypeInit
  DEF Init, IInv, UnusedIsUnknown, CurIsCreated, SubmittedIsApproved, StaleIsInFlight,
      PipelineOwnsTrade, OrdersAreApproved, PositionTradesHaveOrders, Accepted, Ids

LEMMA IInvStep == IInv /\ [Next]_vars => IInv'
<1> SUFFICES ASSUME IInv, [Next]_vars PROVE IInv'
  OBVIOUS
<1>1. TypeInv'
  BY TypeStep, CurType DEF IInv
<1>2. CASE Outside
  BY <1>1, <1>2, OutsideKeeps
<1>3. CASE Down /\ UNCHANGED <<placed, dryRun>>
  BY <1>1, <1>3
  DEF Down, IInv, UnusedIsUnknown, CurIsCreated, SubmittedIsApproved, StaleIsInFlight,
      PipelineOwnsTrade, OrdersAreApproved, PositionTradesHaveOrders, Accepted, Ids
<1>4. CASE ReapFirst
  <2>1. PICK u \in old : life' = [life EXCEPT ![u] = After(@, "ERROR")]
    BY <1>4 DEF ReapFirst
  <2>2. /\ u \in TradeId /\ life[u] \in InFlight
        /\ \A t \in TradeId : life'[t] = IF t = u THEN "ERROR" ELSE life[t]
    BY <2>1, AfterErrorIs DEF IInv, TypeInv, TypeOK, StaleIsInFlight, Ids, InFlight, Terminal
  <2>3. /\ pc' = "died" /\ UNCHANGED <<request, placed, approved, dryRun>>
        /\ \A t \in old' : t \in old /\ life'[t] = life[t]
    BY <1>4 DEF ReapFirst, Unmoved, brokerVars, runVars
  <2>4. QED
    BY <1>1, <2>2, <2>3
    DEF IInv, UnusedIsUnknown, CurIsCreated, SubmittedIsApproved, StaleIsInFlight,
        PipelineOwnsTrade, OrdersAreApproved, PositionTradesHaveOrders, Accepted, InFlight
<1>5. CASE Consider
  <2>1. PICK u \in TradeId :
           /\ request[u] = NoRequest /\ cur' = u
           /\ life' = [life EXCEPT ![u] = "PENDING_RISK"]
           /\ \A t \in TradeId : t # u => request'[t] = request[t]
           /\ request'[u] \in todo
    BY <1>5, PipelineSteps DEF Consider, IInv, TypeInv, TypeOK
  <2>2. /\ life[u] = "absent" /\ u \notin old /\ request'[u] # NoRequest
        /\ \A t \in TradeId : life'[t] = IF t = u THEN "PENDING_RISK" ELSE life[t]
    <3>1. request'[u] # NoRequest
      BY <2>1, NoRequestIsNoSignal DEF IInv, TypeInv, TypeOK
    <3>2. QED
      BY <2>1, <3>1
      DEF IInv, UnusedIsUnknown, StaleIsInFlight, InFlight, TypeInv, TypeOK, Ids
  <2>3. pc' = "risk" /\ UNCHANGED <<old, placed, approved, dryRun>>
    BY <1>5 DEF Consider, brokerVars, runVars
  <2>4. QED
    BY <1>1, <2>1, <2>2, <2>3
    DEF IInv, UnusedIsUnknown, CurIsCreated, SubmittedIsApproved, StaleIsInFlight,
        PipelineOwnsTrade, OrdersAreApproved, PositionTradesHaveOrders, Accepted
<1>6. CASE \E s : Decision(s)
  BY <1>1, <1>6, DecisionKeeps
<1>7. CASE SubmitTrade
  <2>1. /\ cur \in TradeId /\ request[cur] # NoRequest /\ cur \notin old
        /\ \A t \in TradeId : life'[t] = IF t = cur THEN "SUBMITTED" ELSE life[t]
        /\ pc' = "submit" /\ UNCHANGED <<request, old, placed, cur, dryRun>> /\ ~dryRun
        /\ approved' = approved \cup {cur}
    BY <1>7, PipelineSteps
    DEF SubmitTrade, RiskApproves, Passed, IInv, CurIsCreated, PipelineOwnsTrade, TypeInv,
        TypeOK, Ids, brokerVars, cycleVars, runVars
  <2>2. QED
    BY <1>1, <2>1
    DEF IInv, UnusedIsUnknown, CurIsCreated, SubmittedIsApproved, StaleIsInFlight, TypeInv,
        TypeOK, PipelineOwnsTrade, OrdersAreApproved, PositionTradesHaveOrders, Accepted
<1>8. CASE PlaceOrder
  <2>1. /\ cur \in TradeId /\ request[cur] # NoRequest /\ cur \in approved /\ ~dryRun
        /\ pc = "submit" /\ UNCHANGED <<pc, cur, life, request, old, approved, dryRun>>
        /\ placed[cur] \in Nat
        /\ \A t \in TradeId : placed'[t] = IF t = cur THEN placed[t] + 1 ELSE placed[t]
    BY <1>8, ConstantsAssumption
    DEF PlaceOrder, IInv, CurIsCreated, SubmittedIsApproved, TypeInv, TypeOK, bookVars,
        mainVars, cycleVars, runVars
  <2>2. QED
    BY <1>1, <2>1
    DEF IInv, UnusedIsUnknown, CurIsCreated, SubmittedIsApproved, StaleIsInFlight, TypeInv,
        TypeOK, PipelineOwnsTrade, OrdersAreApproved, PositionTradesHaveOrders, Accepted
<1>9. QED BY <1>2, <1>3, <1>4, <1>5, <1>6, <1>7, <1>8, Steps

LEMMA Invariance == Spec => []IInv
<1>1. Init => IInv
  BY IInvInit
<1>2. IInv /\ [Next]_vars => IInv'
  BY IInvStep
<1>3. QED BY <1>1, <1>2, PTL DEF Spec

-----------------------------------------------------------------------------
(* The safety properties. *)

\* Every variable keeps its type; in particular one call of the broker places
\* at most MaxOrders orders and at most as many are open.
THEOREM TypeCorrect == Spec => []TypeOK
<1>1. IInv => TypeOK
  BY DEF IInv, TypeInv
<1>2. QED BY <1>1, Invariance, PTL

\* The broker accepts orders only for trades the risk engine approved, and none
\* in a dry run (engine.py _process_signal), however many trades there are and
\* whatever crashes, threads and the broker do.
THEOREM OnlyApprovedOrders == Spec => []OrdersAreApproved
<1>1. IInv => OrdersAreApproved
  BY DEF IInv
<1>2. QED BY <1>1, Invariance, PTL

\* A trade in a state of a position, or closed, was ordered: recovery, the
\* reconciler, exits and emergency_liquidate never take one past submission.
THEOREM NoPhantomPositions == Spec => []PositionTradesHaveOrders
<1>1. IInv => PositionTradesHaveOrders
  BY DEF IInv
<1>2. QED BY <1>1, Invariance, PTL

\* The trade _process_signal is deciding on stays in the state it was put in:
\* the missing lock between the engine and the Telegram thread does no harm to
\* it, since no command asks for a transition the table allows from there.
THEOREM NobodyElseMovesIt == Spec => []PipelineOwnsTrade
<1>1. IInv => PipelineOwnsTrade
  BY DEF IInv
<1>2. QED BY <1>1, Invariance, PTL

\* Only a trade in flight becomes an ERROR, never a position.
THEOREM PositionsDoNotFail == Spec => ErrorsAreNotPositions
<1> DEFINE Fine == \A i \in Ids : life[i] # "ERROR" /\ life'[i] = "ERROR" => life[i] \in InFlight
<1>1. ASSUME IInv, [Next]_vars PROVE Fine
  <2>1. CASE Outside
    BY <2>1 DEF Outside
  <2>2. CASE Down
    BY <2>2 DEF Down
  <2>3. CASE ReapFirst
    <3>1. life \in [Ids -> TradeState \cup {"absent"}] /\ \A t \in old : life[t] \in InFlight
      BY <1>1 DEF IInv, TypeInv, TypeOK, StaleIsInFlight
    <3>2. QED BY <2>3, <3>1 DEF ReapFirst
  <2>4. CASE Consider
    BY <1>1, <2>4, PipelineSteps DEF Consider, IInv, TypeInv, TypeOK
  <2>5. CASE \E s : Decision(s)
    BY <1>1, <2>5
    DEF Decision, NextSignal, IInv, TypeInv, TypeOK, PipelineOwnsTrade, InFlight
  <2>6. CASE SubmitTrade
    BY <1>1, <2>6, PipelineSteps
    DEF SubmitTrade, RiskApproves, Passed, IInv, TypeInv, TypeOK, PipelineOwnsTrade, InFlight
  <2>7. CASE PlaceOrder
    BY <2>7 DEF PlaceOrder, bookVars
  <2>8. QED BY <1>1, <2>1, <2>2, <2>3, <2>4, <2>5, <2>6, <2>7, Steps
<1>2. IInv /\ [Next]_vars => [Fine]_vars
  BY <1>1
<1>3. QED BY <1>2, Invariance, PTL DEF Spec, ErrorsAreNotPositions

-----------------------------------------------------------------------------
(* Refinement of TradeBook. *)

\* The phase of a trade is a function of its state and of whether it exists.
PhaseOf(t, p) ==
    \/ p = "unused" /\ life[t] = "absent" /\ request[t] = NoRequest
    \/ p = "forgotten" /\ life[t] = "absent" /\ request[t] # NoRequest
    \/ p = "considered" /\ life[t] \in {"SIGNAL", "PENDING_RISK"} /\ request[t] # NoRequest
    \/ p = "approved" /\ life[t] = "RISK_APPROVED" /\ request[t] # NoRequest
    \/ p = "working" /\ life[t] = "SUBMITTED" /\ request[t] # NoRequest
    \/ p = "finished" /\ life[t] \in Terminal /\ request[t] # NoRequest
    \/ p = "position" /\ life[t] \in Accepted \ Terminal /\ request[t] # NoRequest

Phases == \A t \in TradeId : PhaseOf(t, Phase(t))

LEMMA PhaseIs == IInv => Phases
<1>1. SUFFICES ASSUME IInv, NEW t \in TradeId PROVE PhaseOf(t, Phase(t))
  BY DEF Phases
<1>2. life[t] \in TradeState \cup {"absent"} /\ (request[t] = NoRequest => life[t] = "absent")
  BY <1>1 DEF IInv, TypeInv, TypeOK, UnusedIsUnknown, Ids
<1>3. QED
  BY <1>2 DEF PhaseOf, Phase, TradeState, Terminal, Accepted

LEMMA PhaseIsAfter == IInv' => Phases'
  BY PhaseIs, PTL

\* A step that places no order is a Move if it advances or leaves every trade.
LEMMA BookMoves ==
    ASSUME IInv, IInv', placed' = placed,
           \A t \in TradeId : \/ Phase(t)' = Phase(t)
                              \/ Book!Advances(t)
    PROVE  Book!Move
<1>1. \A t \in TradeId : Phase(t)' \in Book!Phases
  BY PhaseIsAfter DEF Phases, PhaseOf, Book!Phases
<1>2. QED BY <1>1 DEF Book!Move

LEMMA BookStep ==
    ASSUME IInv, IInv', [Next]_vars
    PROVE  [Book!Next]_<<[t \in TradeId |-> Phase(t)], placed>>
<1> USE DEF PhaseOf, Accepted, Terminal
<1>1. /\ \A t \in TradeId : PhaseOf(t, Phase(t)) /\ PhaseOf(t, Phase(t))'
  BY PhaseIs, PhaseIsAfter DEF Phases
<1>2. CASE Outside
  <2>1. ASSUME NEW t \in TradeId
        PROVE  Phase(t)' = Phase(t) \/ Book!Advances(t)
    <3>1. request'[t] = request[t] /\ Quiet(t)
      BY <1>2 DEF Outside
    <3>2. QED BY <1>1, <3>1 DEF Quiet, Settled, Book!Advances
  <2>2. QED BY <1>2, <2>1, BookMoves DEF Outside, Book!Next
<1>3. CASE Down /\ UNCHANGED <<placed, dryRun>>
  <2>1. ASSUME NEW t \in TradeId
        PROVE  Phase(t)' = Phase(t) \/ Book!Advances(t)
    <3>1. request'[t] = request[t] /\ life'[t] = "absent"
      BY <1>3 DEF Down, Ids
    <3>2. QED BY <1>1, <3>1 DEF Book!Advances
  <2>2. QED BY <1>3, <2>1, BookMoves DEF Book!Next
<1>4. CASE ReapFirst
  <2>1. ASSUME NEW t \in TradeId
        PROVE  Phase(t)' = Phase(t) \/ Book!Advances(t)
    <3>1. /\ request' = request
          /\ \/ life'[t] = life[t]
             \/ life'[t] = "ERROR" /\ life[t] \in InFlight
      <4>1. PICK u \in old : life' = [life EXCEPT ![u] = After(@, "ERROR")]
        BY <1>4 DEF ReapFirst
      <4>2. life'[t] = IF t = u THEN After(life[t], "ERROR") ELSE life[t]
        BY <4>1 DEF IInv, TypeInv, TypeOK, Ids
      <4>3. life[u] \in InFlight /\ request' = request
        BY <1>4, <4>1 DEF ReapFirst, IInv, StaleIsInFlight
      <4>4. After(life[t], "ERROR") \in {life[t], "ERROR"}
        BY AfterErrorIs
      <4>5. QED BY <4>2, <4>3, <4>4
    <3>2. QED BY <1>1, <3>1 DEF InFlight, Book!Advances
  <2>2. placed' = placed
    BY <1>4 DEF ReapFirst, brokerVars
  <2>3. QED BY <2>1, <2>2, BookMoves DEF Book!Next
<1>5. CASE Consider
  <2>1. PICK u \in TradeId :
           /\ request[u] = NoRequest
           /\ life' = [life EXCEPT ![u] = "PENDING_RISK"]
           /\ \A t \in TradeId : t # u => request'[t] = request[t]
    BY <1>5, PipelineSteps DEF Consider, IInv, TypeInv, TypeOK
  <2>2. \A t \in TradeId : life'[t] = IF t = u THEN "PENDING_RISK" ELSE life[t]
    BY <2>1 DEF IInv, TypeInv, TypeOK, Ids
  <2>3. ASSUME NEW t \in TradeId
        PROVE  Phase(t)' = Phase(t) \/ Book!Advances(t)
    BY <1>1, <2>1, <2>2 DEF Book!Advances
  <2>4. placed' = placed
    BY <1>5 DEF Consider, brokerVars
  <2>5. QED BY <2>3, <2>4, BookMoves DEF Book!Next
<1>6. ASSUME NEW s, Decision(s) PROVE Book!Next
  <2>1. \A t \in TradeId : life'[t] = IF t = cur THEN s ELSE life[t]
    BY <1>6 DEF Decision, NextSignal, IInv, TypeInv, TypeOK, Ids
  <2>2. ASSUME NEW t \in TradeId
        PROVE  Phase(t)' = Phase(t) \/ Book!Advances(t)
    BY <1>1, <1>6, <2>1
    DEF Decision, NextSignal, IInv, PipelineOwnsTrade, Book!Advances
  <2>3. placed' = placed
    BY <1>6 DEF Decision, NextSignal, brokerVars
  <2>4. QED BY <2>2, <2>3, BookMoves DEF Book!Next
<1>7. CASE SubmitTrade
  <2>1. /\ pc = "risk" /\ request' = request /\ placed' = placed
        /\ \A t \in TradeId : life'[t] = IF t = cur THEN "SUBMITTED" ELSE life[t]
    BY <1>7, PipelineSteps
    DEF SubmitTrade, RiskApproves, Passed, IInv, PipelineOwnsTrade, TypeInv, TypeOK, Ids,
        brokerVars
  <2>2. ASSUME NEW t \in TradeId
        PROVE  Phase(t)' = Phase(t) \/ Book!Advances(t)
    BY <1>1, <2>1 DEF IInv, PipelineOwnsTrade, Book!Advances
  <2>3. QED BY <2>1, <2>2, BookMoves DEF Book!Next
<1>8. CASE PlaceOrder
  <2>1. /\ cur \in TradeId /\ life[cur] = "SUBMITTED" /\ placed[cur] < MaxOrders
        /\ placed' = [placed EXCEPT ![cur] = @ + 1]
        /\ UNCHANGED <<life, request>>
    BY <1>8 DEF PlaceOrder, IInv, CurIsCreated, PipelineOwnsTrade, bookVars
  <2>2. Phase(cur) = "working" /\ \A t \in TradeId : Phase(t)' = Phase(t)
    BY <1>1, <2>1 DEF Phase
  <2>3. Book!Order(cur)
    BY <2>1, <2>2 DEF Book!Order
  <2>4. QED BY <2>1, <2>3 DEF Book!Next
<1>9. QED BY <1>2, <1>3, <1>4, <1>5, <1>6, <1>7, <1>8, Steps

\* Everything together implements TradeBook: a trade is considered once, worked
\* only after its approval, ordered only while it is worked, a position only
\* with an order at the broker, and never comes back.
THEOREM ImplementsTradeBook == Spec => BookSpec
<1>1. Init => Book!Init
  <2>1. SUFFICES ASSUME Init PROVE Book!Init
    OBVIOUS
  <2>2. ASSUME NEW t \in TradeId PROVE Phase(t) = "unused"
    <3>1. life[t] = "absent" /\ request[t] = NoRequest
      BY <2>1 DEF Init, Ids
    <3>2. QED BY <3>1 DEF Phase, Terminal
  <2>3. [t \in TradeId |-> Phase(t)] = [t \in TradeId |-> "unused"]
    BY <2>2, Zenon
  <2>4. placed = [t \in TradeId |-> 0]
    BY <2>1 DEF Init
  <2>5. QED BY <2>3, <2>4 DEF Book!Init
<1>2. IInv /\ IInv' /\ [Next]_vars => [Book!Next]_(Book!vars)
  BY BookStep DEF Book!vars
<1>3. QED BY <1>1, <1>2, Invariance, PTL DEF Spec, BookSpec, Book!Spec
=============================================================================
