------------------------- MODULE TradingGate_proofs -------------------------
(***************************************************************************)
(* That the gates of TradingGate hold for any equities, limits and number  *)
(* of strategies.  Each property has a strengthening of its own.           *)
(***************************************************************************)
EXTENDS TradingGate, TLAPS

\* The job that is about to install new statistics has read an equity.
JobInv == job.at # "idle" => job.equity # Unknown

\* A cycle that judges signals knows the portfolio value.
ValueInv == pc \in {"signals", "entry"} => value # 0

\* What a pass may still begin is never more than what was due when it began.
PauseInv ==
    /\ ~paused => begun = 0
    /\ pc \in {"check", "feed"} => begun = 0
    /\ pc = "top" => begun <= Slots
    /\ pc \in {"pass", "signals", "entry", "exits"} => begun + due <= Slots
    /\ pc = "fetch" => begun + due + 1 <= Slots

\* A cycle past its check has not begun yet since the halt, and no second one
\* passes the check.
HaltInv ==
    /\ late <= 1
    /\ ~stats.halted => late = 0
    /\ pc = "fetch" => late = 0

\* The layer's peak is at least the highest equity it was told.
PeakInv == seen <= account.peak

IInv == TypeOK /\ JobInv /\ ValueInv /\ PauseInv /\ HaltInv /\ PeakInv /\ NoEntryBelowDrawdown

-----------------------------------------------------------------------------
LEMMA MaxSlots == Slots \in Nat
BY ConstantsAssumption

LEMMA EquitiesAre == /\ \A x \in Equities : x \in Nat /\ x # 0
                     /\ Results \subseteq Int
BY ConstantsAssumption

-----------------------------------------------------------------------------
(* RiskManager: what its methods leave in daily_stats *)

LEMMA StatsFields ==
    ASSUME NEW s \in DailyStats
    PROVE  /\ s.start \in Equities /\ s.current \in Equities
           /\ s.realized \in Int /\ s.weekly \in Int /\ s.trades \in Nat
           /\ s.halted \in BOOLEAN
BY DEF DailyStats

LEMMA StatsHalted ==
    ASSUME NEW s \in DailyStats, NEW b \in BOOLEAN
    PROVE  /\ [s EXCEPT !.halted = b] \in DailyStats
           /\ [s EXCEPT !.halted = b].halted = b
BY DEF DailyStats

LEMMA StatsEquity ==
    ASSUME NEW s \in DailyStats, NEW e \in Equities
    PROVE  /\ [s EXCEPT !.current = e] \in DailyStats
           /\ [s EXCEPT !.current = e].halted = s.halted
BY DEF DailyStats

LEMMA StatsTrade ==
    ASSUME NEW s \in DailyStats, NEW r \in Int
    PROVE  LET t == [s EXCEPT !.trades = @ + 1, !.realized = @ + r, !.weekly = @ + r]
           IN  t \in DailyStats /\ t.halted = s.halted
<1>1. s.trades + 1 \in Nat /\ s.realized + r \in Int /\ s.weekly + r \in Int
  BY StatsFields
<1> QED BY <1>1 DEF DailyStats

LEMMA StatsNew ==
    ASSUME NEW e \in Equities, NEW w \in Int
    PROVE  NewStats(e, w) \in DailyStats /\ ~NewStats(e, w).halted
BY DEF DailyStats, NewStats

\* can_trade never lifts a halt, and a call that allows trading leaves none.
LEMMA CheckedIs ==
    ASSUME TypeOK
    PROVE  /\ Checked \in DailyStats
           /\ stats.halted => Checked.halted
           /\ CanTrade => ~Checked.halted
<1> DEFINE b == stats.halted \/ LossHit(stats.start, stats.current)
<1>1. b \in BOOLEAN
  BY StatsFields DEF TypeOK, LossHit
<1>2. Checked = [stats EXCEPT !.halted = b]
  BY DEF Checked, TypeOK, DailyStats
<1>3. CanTrade => ~b
  BY DEF CanTrade
<1>4. stats.halted => b
  OBVIOUS
<1> HIDE DEF b
<1>5. Checked \in DailyStats /\ Checked.halted = b
  BY <1>1, <1>2, StatsHalted DEF TypeOK
<1> QED BY <1>3, <1>4, <1>5

-----------------------------------------------------------------------------
(* AccountRiskLayer *)

LEMMA AccountFields ==
    ASSUME NEW a \in AccountState
    PROVE  /\ a.peak \in Equities \cup {0} /\ a.peak \in Nat
           /\ a.equity \in Equities \cup {Unknown}
           /\ a.halted \in BOOLEAN
<1>1. a.peak \in Equities \cup {0}
  BY DEF AccountState
<1>2. a.peak \in Nat
  BY <1>1, EquitiesAre
<1> QED BY <1>1, <1>2 DEF AccountState

\* A higher peak with the same equity is a deeper fall, for a limit of at most
\* the whole.
LEMMA FellMonotone ==
    ASSUME NEW p \in Nat, NEW q \in Nat, NEW e \in Nat, p <= q,
           Fell(p, e, Drawdown)
    PROVE  Fell(q, e, Drawdown)
<1> DEFINE d == q - p
           k == 100 - Drawdown
<1>1. Drawdown \in Int /\ k \in Nat /\ d \in Nat
  BY ConstantsAssumption
<1>2. d * k >= 0
  <2> HIDE DEF d, k
  <2> QED BY <1>1
<1>3. d * k = (q - p) * 100 - Drawdown * (q - p)
  BY <1>1
<1>4. (q - e) * 100 - Drawdown * q = ((p - e) * 100 - Drawdown * p) + d * k
  BY <1>1, <1>3
<1> QED BY <1>1, <1>2, <1>4 DEF Fell

\* evaluate() never lowers the peak, and when it does not halt, the equity is
\* above the drawdown limit.
LEMMA EvaluatedIs ==
    ASSUME TypeOK, value # 0
    PROVE  /\ Evaluated \in AccountState
           /\ Evaluated.equity = account.equity
           /\ Evaluated.peak >= account.peak
           /\ ~Evaluated.halted /\ account.equity # Unknown
                 => ~Fell(Evaluated.peak, account.equity, Drawdown)
<1> DEFINE e == IF account.equity = Unknown THEN value ELSE account.equity
           p == IF account.peak = 0 THEN e ELSE account.peak
<1>1. account \in AccountState /\ account.peak \in Nat
  BY AccountFields DEF TypeOK
<1>2. p \in Equities /\ p >= account.peak
  <2>1. value \in Equities
    BY DEF TypeOK
  <2>2. e \in Equities
    BY <1>1, <2>1, AccountFields
  <2> HIDE DEF e
  <2> QED BY <1>1, <2>2, AccountFields, EquitiesAre
<1>3. CASE account.halted
  <2>1. Evaluated = account
    BY <1>3 DEF Evaluated
  <2> QED BY <1>1, <1>3, <2>1
<1>4. CASE ~account.halted
  <2> DEFINE k == Fell(p, e, KillDrawdown)
             h == \/ k \/ Lost(account.daily, AccountDaily)
                  \/ Lost(account.weekly, AccountWeekly) \/ Fell(p, e, Drawdown)
  <2>1. Evaluated = [account EXCEPT !.peak = p, !.killed = k, !.halted = h]
    BY <1>4 DEF Evaluated
  <2>2. k \in BOOLEAN /\ h \in BOOLEAN
    BY DEF Fell, Lost
  <2>3. ~h /\ account.equity # Unknown => ~Fell(p, account.equity, Drawdown)
    OBVIOUS
  <2> HIDE DEF k, h, p, e
  <2>4. /\ Evaluated \in AccountState
        /\ Evaluated.equity = account.equity
        /\ Evaluated.peak = p
        /\ Evaluated.halted = h
    BY <1>1, <1>2, <2>1, <2>2 DEF AccountState
  <2> QED BY <1>2, <2>3, <2>4
<1> QED BY <1>3, <1>4

\* update_state
Fed(a, e, m, w) == [a EXCEPT !.equity = e, !.peak = IF e > @ THEN e ELSE @,
                             !.daily = m, !.weekly = w]

LEMMA FedIs ==
    ASSUME NEW a \in AccountState, NEW e \in Equities, NEW m \in Int, NEW w \in Int
    PROVE  /\ Fed(a, e, m, w) \in AccountState
           /\ Fed(a, e, m, w).peak >= a.peak /\ Fed(a, e, m, w).peak >= e
<1> DEFINE p == IF e > a.peak THEN e ELSE a.peak
<1>1. p \in Equities \cup {0} /\ p >= a.peak /\ p >= e
  BY AccountFields, EquitiesAre
<1> HIDE DEF p
<1>2. [a EXCEPT !.equity = e, !.peak = p, !.daily = m, !.weekly = w] \in AccountState
  BY <1>1 DEF AccountState
<1>3. [a EXCEPT !.equity = e, !.peak = p, !.daily = m, !.weekly = w].peak = p
  BY DEF AccountState
<1> QED BY <1>1, <1>2, <1>3 DEF p, Fed

LEMMA JobFields ==
    ASSUME NEW j \in JobState
    PROVE  /\ j.equity \in Equities \cup {Unknown} /\ j.weekly \in Int
           /\ \A e \in Equities : [j EXCEPT !.at = "read", !.equity = e] \in JobState
           /\ \A w \in Int : /\ [j EXCEPT !.at = "built", !.weekly = w] \in JobState
                            /\ [j EXCEPT !.at = "built", !.weekly = w].equity = j.equity
BY DEF JobState

-----------------------------------------------------------------------------
(* Types *)

LEMMA Starts == NoJob \in JobState /\ NewAccount \in AccountState
BY DEF NoJob, NewAccount, JobState, AccountState

LEMMA InitTypes == Init => TypeOK /\ JobInv /\ ValueInv
<1> SUFFICES ASSUME Init PROVE TypeOK /\ JobInv /\ ValueInv
  OBVIOUS
<1>1. stats \in DailyStats
  BY StatsNew DEF Init
<1>2. job \in JobState /\ JobInv /\ account \in AccountState
  BY Starts DEF Init, JobInv, NoJob
<1>3. due \in 0..Slots /\ begun \in Nat /\ late \in Nat
  BY MaxSlots DEF Init
<1>4. paused \in BOOLEAN /\ resumed \in BOOLEAN /\ mode \in Modes
  BY DEF Init, Modes
<1> QED BY <1>1, <1>2, <1>3, <1>4 DEF Init, TypeOK, ValueInv

LEMMA LoopTypes ==
    ASSUME TypeOK, JobInv, ValueInv, Loop
    PROVE  (TypeOK /\ JobInv /\ ValueInv)'
<1> USE DEF TypeOK, JobInv, ValueInv, riskVars, stateVars, loopVars, historyVars
<1>1. CASE Top BY <1>1 DEF Top
<1>2. CASE Check BY <1>2, CheckedIs DEF Check
<1>3. CASE Feed
  <2>1. stats.realized \in Int /\ stats.weekly \in Int
    BY StatsFields
  <2>2. \/ account' = Fed(account, equity, stats.realized, stats.weekly)
        \/ account' = account
    BY <1>3 DEF Feed, Fed
  <2>3. account' \in AccountState
    BY <2>1, <2>2, FedIs
  <2> QED BY <1>3, <2>3, MaxSlots DEF Feed
<1>4. CASE EndPass BY <1>4 DEF EndPass
<1>5. CASE NextSlot BY <1>5, CheckedIs, MaxSlots DEF NextSlot
<1>6. CASE Begin
  <2>1. equity # 0
    BY EquitiesAre
  <2> QED BY <1>6, <2>1, StatsEquity DEF Begin
<1>7. CASE Reject BY <1>7, EvaluatedIs DEF Reject
<1>8. CASE Approve BY <1>8, EvaluatedIs DEF Approve
<1>9. CASE Enter BY <1>9 DEF Enter
<1>10. CASE BeginExits BY <1>10, CheckedIs DEF BeginExits
<1>11. CASE ExitTrade
  <2>1. PICK r \in Int : stats' = [stats EXCEPT !.trades = @ + 1, !.realized = @ + r,
                                             !.weekly = @ + r]
    BY <1>11, EquitiesAre DEF ExitTrade
  <2>2. stats' \in DailyStats
    BY <2>1, StatsTrade
  <2> QED BY <1>11, <2>2 DEF ExitTrade
<1>12. CASE EndCycle BY <1>12 DEF EndCycle
<1> QED BY <1>1, <1>2, <1>3, <1>4, <1>5, <1>6, <1>7, <1>8, <1>9, <1>10, <1>11, <1>12 DEF Loop

LEMMA OtherTypes ==
    ASSUME TypeOK, JobInv, ValueInv, Job \/ Outside \/ UNCHANGED vars
    PROVE  (TypeOK /\ JobInv /\ ValueInv)'
<1> USE DEF TypeOK, JobInv, ValueInv, riskVars, stateVars, loopVars, historyVars
<1>1. CASE ResetRead
  <2>1. equity # Unknown
    BY EquitiesAre DEF Unknown
  <2>2. job' \in JobState /\ job'.equity = equity
    BY <1>1, JobFields DEF ResetRead, JobState
  <2> QED BY <1>1, <2>1, <2>2 DEF ResetRead
<1>2. CASE ResetBuild
  <2>1. PICK w \in Int : job' = [job EXCEPT !.at = "built", !.weekly = w]
    <3>1. 0 \in Int /\ stats.weekly \in Int
      BY StatsFields
    <3> QED BY <1>2, <3>1 DEF ResetBuild
  <2>2. job' \in JobState /\ job'.equity = job.equity
    BY <2>1, JobFields
  <2> QED BY <1>2, <2>2 DEF ResetBuild
<1>3. CASE ResetInstall
  <2>1. job.equity \in Equities /\ job.weekly \in Int
    BY <1>3, JobFields DEF ResetInstall
  <2>2. stats' \in DailyStats
    BY <1>3, <2>1, StatsNew DEF ResetInstall
  <2> QED BY <1>3, <2>2, Starts DEF ResetInstall, NoJob
<1>4. CASE Pause BY <1>4 DEF Pause
<1>5. CASE Resume BY <1>5, StatsHalted DEF Resume
<1>6. CASE SetDailyLoss BY <1>6 DEF SetDailyLoss
<1>7. CASE Emergency BY <1>7, StatsHalted DEF Emergency
<1>8. CASE Market BY <1>8 DEF Market
<1>9. CASE Restart
  <2>1. stats' \in DailyStats
    BY <1>9, StatsNew DEF Restart
  <2>2. job' \in JobState /\ JobInv' /\ account' \in AccountState
    BY <1>9, Starts DEF Restart, NoJob
  <2>3. due' \in 0..Slots /\ begun' \in Nat /\ late' \in Nat
    BY <1>9, MaxSlots DEF Restart
  <2>4. paused' \in BOOLEAN /\ resumed' \in BOOLEAN /\ mode' \in Modes
    BY <1>9 DEF Restart, Modes
  <2> QED BY <1>9, <2>1, <2>2, <2>3, <2>4 DEF Restart
<1>10. CASE UNCHANGED vars BY <1>10 DEF vars
<1> QED BY <1>1, <1>2, <1>3, <1>4, <1>5, <1>6, <1>7, <1>8, <1>9, <1>10 DEF Job, Outside

-----------------------------------------------------------------------------
(* The pause *)

LEMMA PauseStep ==
    ASSUME TypeOK, PauseInv, [Next]_vars
    PROVE  PauseInv'
<1>1. /\ Slots \in Nat /\ due \in 0..Slots /\ begun \in Nat /\ paused \in BOOLEAN
  BY MaxSlots DEF TypeOK
<1> USE <1>1 DEF PauseInv, riskVars, stateVars, loopVars, historyVars
<1>2. CASE Top \/ Check \/ Feed \/ EndPass
  BY <1>2 DEF Top, Check, Feed, EndPass
<1>3. CASE NextSlot BY <1>3 DEF NextSlot
<1>4. CASE Begin BY <1>4 DEF Begin
<1>5. CASE Reject \/ Approve \/ Enter
  BY <1>5 DEF Reject, Approve, Enter
<1>6. CASE BeginExits \/ ExitTrade
  BY <1>6 DEF BeginExits, ExitTrade
<1>7. CASE EndCycle BY <1>7 DEF EndCycle
<1>8. CASE Job BY <1>8 DEF Job, ResetRead, ResetBuild, ResetInstall
<1>9. CASE Pause \/ Resume \/ Restart BY <1>9 DEF Pause, Resume, Restart
<1>10. CASE SetDailyLoss \/ Emergency \/ Market \/ UNCHANGED vars
  BY <1>10 DEF SetDailyLoss, Emergency, Market, vars
<1> QED BY <1>2, <1>3, <1>4, <1>5, <1>6, <1>7, <1>8, <1>9, <1>10 DEF Next, Loop, Outside

-----------------------------------------------------------------------------
(* RiskManager's halt *)

LEMMA HaltStep ==
    ASSUME TypeOK, JobInv, HaltInv, [Next]_vars
    PROVE  HaltInv'
<1>1. stats \in DailyStats /\ stats.halted \in BOOLEAN /\ late \in Nat /\ equity \in Equities
  BY StatsFields DEF TypeOK
<1>2. /\ stats.halted => Checked.halted
      /\ CanTrade => ~Checked.halted
  BY CheckedIs
<1> USE <1>1 DEF HaltInv, riskVars, stateVars, loopVars, historyVars
<1>3. CASE Check \/ NextSlot \/ BeginExits
  BY <1>2, <1>3 DEF Check, NextSlot, BeginExits
<1>4. CASE Begin
  <2>1. stats'.halted = stats.halted
    BY <1>4, StatsEquity DEF Begin
  <2> QED BY <1>4, <2>1 DEF Begin
<1>5. CASE ExitTrade
  <2>1. stats'.halted = stats.halted
    BY <1>5, StatsTrade, EquitiesAre DEF ExitTrade
  <2> QED BY <1>5, <2>1 DEF ExitTrade
<1>6. CASE Top \/ Feed \/ EndPass \/ Reject \/ Approve \/ Enter \/ EndCycle
  BY <1>6 DEF Top, Feed, EndPass, Reject, Approve, Enter, EndCycle
<1>7. CASE ResetRead \/ ResetBuild
  BY <1>7 DEF ResetRead, ResetBuild
<1>8. CASE ResetInstall \/ Resume \/ Restart
  BY <1>8 DEF ResetInstall, Resume, Restart
<1>9. CASE Emergency
  <2>1. stats'.halted
    BY <1>9, StatsHalted DEF Emergency
  <2> QED BY <1>9, <2>1 DEF Emergency
<1>10. CASE Pause \/ SetDailyLoss \/ Market \/ UNCHANGED vars
  BY <1>10 DEF Pause, SetDailyLoss, Market, vars
<1> QED BY <1>3, <1>4, <1>5, <1>6, <1>7, <1>8, <1>9, <1>10 DEF Next, Loop, Job, Outside

-----------------------------------------------------------------------------
(* The drawdown *)

LEMMA PeakStep ==
    ASSUME TypeOK, ValueInv, PeakInv, NoEntryBelowDrawdown, [Next]_vars
    PROVE  PeakInv' /\ NoEntryBelowDrawdown'
<1>1. /\ account \in AccountState /\ account.peak \in Nat
      /\ seen \in Equities \cup {0} /\ seen \in Nat /\ equity \in Equities /\ equity \in Nat
  BY AccountFields, EquitiesAre DEF TypeOK
<1> USE <1>1 DEF PeakInv, NoEntryBelowDrawdown, riskVars, stateVars, loopVars, historyVars
<1>2. CASE Feed
  <2>1. stats.realized \in Int /\ stats.weekly \in Int
    BY StatsFields DEF TypeOK
  <2>2. CASE UNCHANGED <<account, seen>>
    BY <1>2, <2>2 DEF Feed
  <2>3. CASE ~UNCHANGED <<account, seen>>
    <3>1. account' = Fed(account, equity, stats.realized, stats.weekly)
      BY <1>2, <2>3 DEF Feed, Fed
    <3>2. account'.peak >= account.peak /\ account'.peak >= equity /\ account'.peak \in Nat
      BY <2>1, <3>1, FedIs, AccountFields
    <3> QED BY <1>2, <2>3, <3>2 DEF Feed
  <2> QED BY <2>2, <2>3
<1>3. CASE Reject
  <2>1. pc = "signals" /\ pc' = "signals" /\ seen' = seen
    BY <1>3 DEF Reject
  <2>2. account' \in {account, Evaluated}
    BY <1>3 DEF Reject
  <2>3. value # 0
    BY <2>1 DEF ValueInv
  <2>4. Evaluated.peak >= account.peak /\ Evaluated.peak \in Nat
    BY <2>3, EvaluatedIs, AccountFields
  <2> QED BY <2>1, <2>2, <2>4
<1>4. CASE Approve
  <2>1. value # 0 /\ account' = Evaluated /\ ~Evaluated.halted /\ seen' = seen
    BY <1>4 DEF Approve, ValueInv
  <2>2. /\ Evaluated.peak >= account.peak /\ Evaluated.peak \in Nat
        /\ Evaluated.equity = account.equity
        /\ account.equity # Unknown => ~Fell(Evaluated.peak, account.equity, Drawdown)
    BY <2>1, EvaluatedIs, AccountFields
  <2>3. account.equity # Unknown => account.equity \in Nat
    BY AccountFields, EquitiesAre
  <2>4. account.equity # Unknown => ~Fell(seen, account.equity, Drawdown)
    BY <2>2, <2>3, FellMonotone
  <2> QED BY <2>1, <2>2, <2>4 DEF Fell
<1>5. CASE Top \/ Check \/ EndPass \/ NextSlot \/ Begin
  BY <1>5 DEF Top, Check, EndPass, NextSlot, Begin
<1>6. CASE Enter \/ BeginExits \/ ExitTrade \/ EndCycle
  BY <1>6 DEF Enter, BeginExits, ExitTrade, EndCycle
<1>7. CASE Restart BY <1>7 DEF Restart, NewAccount
<1>8. CASE Job BY <1>8 DEF Job, ResetRead, ResetBuild, ResetInstall, Fell
<1>9. CASE Pause \/ Resume \/ SetDailyLoss \/ Emergency \/ Market \/ UNCHANGED vars
  BY <1>9 DEF Pause, Resume, SetDailyLoss, Emergency, Market, vars, Fell
<1> QED BY <1>2, <1>3, <1>4, <1>5, <1>6, <1>7, <1>8, <1>9 DEF Next, Loop, Outside

-----------------------------------------------------------------------------
LEMMA Inductive == Spec => []IInv
<1>1. Init => IInv
  <2> SUFFICES ASSUME Init PROVE IInv
    OBVIOUS
  <2>1. PauseInv /\ PeakInv /\ NoEntryBelowDrawdown
    BY MaxSlots DEF Init, PauseInv, PeakInv, NoEntryBelowDrawdown, NewAccount
  <2>2. HaltInv
    BY DEF Init, HaltInv
  <2> QED BY <2>1, <2>2, InitTypes DEF IInv
<1>2. IInv /\ [Next]_vars => IInv'
  <2> SUFFICES ASSUME IInv, [Next]_vars PROVE IInv'
    OBVIOUS
  <2>1. (TypeOK /\ JobInv /\ ValueInv)'
    BY LoopTypes, OtherTypes DEF IInv, Next
  <2>2. PauseInv' /\ HaltInv' /\ PeakInv' /\ NoEntryBelowDrawdown'
    BY PauseStep, HaltStep, PeakStep DEF IInv
  <2> QED BY <2>1, <2>2 DEF IInv
<1> QED BY <1>1, <1>2, PTL DEF Spec

\* Every figure the gates work with keeps its type.
THEOREM TypeCorrect == Spec => []TypeOK
<1>1. IInv => TypeOK
  BY DEF IInv
<1> QED BY <1>1, Inductive, PTL

\* However many strategies there are, a pause lets through at most those due
\* in the pass it comes in.
THEOREM PauseStops == Spec => []PauseHonoured
<1>1. IInv => PauseHonoured
  BY MaxSlots DEF IInv, TypeOK, PauseInv, PauseHonoured
<1> QED BY <1>1, Inductive, PTL

\* Whichever thread halts the RiskManager, at most the cycle already past its
\* check begins.
THEOREM HaltStops == Spec => []HaltHonoured
<1>1. IInv => HaltHonoured
  BY DEF IInv, HaltInv, HaltHonoured
<1> QED BY <1>1, Inductive, PTL

\* For any drawdown limit, no entry is approved on an equity that is down by
\* the limit from the highest the account layer was ever told.
THEOREM DrawdownBlocksEntries == Spec => []NoEntryBelowDrawdown
<1>1. IInv => NoEntryBelowDrawdown
  BY DEF IInv
<1> QED BY <1>1, Inductive, PTL
=============================================================================
