----------------------- MODULE RuntimeManager_proofs -----------------------
(***************************************************************************)
(* What the RuntimeManager's two switches preserve for every bound.  /env: *)
(* the manager's mode and the broker agree whenever no switch is under     *)
(* way, a switch brings broker, mode and settings to its target or leaves  *)
(* all three, a broker is left drained, and a shutdown leaves orders only  *)
(* for a known reason.                                                     *)
(***************************************************************************)
EXTENDS Environment, ModelLifecycle, FiniteSetTheorems, WellFoundedInduction, TLAPS

(* The environment.                                                        *)

AlpacaKinds == {"alpaca_paper", "alpaca_live"}
IsMade(b) == kind[b] # "none"

\* The brokers made are the first ones, and the program starts with one of Alpaca's.
BrokersInOrder ==
    /\ kind[Initial] \in AlpacaKinds
    /\ \E n \in Brokers : \A b \in Brokers : IsMade(b) <=> b <= n

\* What a call of switch_environment remembers to go back to, and where it is.
SwitchKnowsTheWayBack ==
    /\ IsMade(sw.old) /\ IsMade(sw.new)
    /\ sw.pc = "none" => mode = ModeOf(kind[cur])
    /\ sw.pc # "none" => /\ sw.oldMode = ModeOf(kind[sw.old])
                         /\ ~ sw.swapped => cur = sw.old
    /\ sw.pc = "verifying" => mode = sw.target /\ setting = sw.target
    /\ sw.pc \in {"validating", "factory"} => \E b \in Brokers : ~ IsMade(b)

\* While the drain goes on without a failure, a position is still to be closed, its close
\* was accepted, or it is excused.
DrainSoFar ==
    LET accounted == closing[Acc(cur)] \cup excused IN
    /\ sw.pc = "close" /\ ~ sw.failed => held[Acc(cur)] \subseteq sw.todo \cup accounted
    /\ sw.pc = "swap" => held[Acc(cur)] \subseteq accounted

\* Once the orders were cancelled, the engine's account has one left only for a reason.
OrdersLeft ==
    loop.pc \in {"stop", "closed", "died"} /\ open[Acc(Initial)] # {} =>
        loop.refused \/ kind[loop.broker] # kind[Initial]

EnvInv ==
    /\ EnvTypeOK
    /\ BrokersInOrder
    /\ SwitchKnowsTheWayBack
    /\ DrainSoFar
    /\ OrdersLeft
LEMMA BoundIsNat == MaxSwitches \in Nat /\ MaxOrders \in Nat
BY EnvAssumption DEF EnvAssumption

LEMMA BrokersAreNat == Brokers \subseteq Nat /\ Initial \in Brokers
BY BoundIsNat DEF Brokers, Initial

LEMMA NoCallIsCall == NoCall \in Calls
BY BrokersAreNat DEF NoCall, Calls, SwitchSteps, Modes

\* A call goes on to another step, and keeps the rest.
LEMMA CallMoves ==
    ASSUME NEW c \in Calls, NEW p \in SwitchSteps
    PROVE  [c EXCEPT !.pc = p] \in Calls
BY DEF Calls

LEMMA EnvInvInit == EnvInit => EnvInv
<1> SUFFICES ASSUME EnvInit PROVE EnvInv
  OBVIOUS
<1> USE BrokersAreNat
<1>1. PICK k \in AlpacaKinds :
        /\ kind = [b \in Brokers |-> IF b = Initial THEN k ELSE "none"]
        /\ mode = ModeOf(k)
  BY DEF EnvInit, AlpacaKinds
<1>2. EnvTypeOK
  <2>1. kind \in [Brokers -> Accounts \cup {"none"}] /\ kind[Initial] # "none"
    BY <1>1 DEF AlpacaKinds, Accounts
  <2>2. mode \in Modes /\ setting \in Modes
    BY <1>1 DEF EnvInit, Modes, ModeOf
  <2>3. loop \in [pc : LoopSteps, broker : {b \in Brokers : kind[b] # "none"}, refused : BOOLEAN]
    BY <2>1 DEF EnvInit, LoopSteps
  <2>4. /\ open \in [Accounts -> SUBSET Symbols] /\ closing \in [Accounts -> SUBSET Symbols]
        /\ held \in [Accounts -> SUBSET Symbols]
    BY DEF EnvInit
  <2>5. cur \in {b \in Brokers : kind[b] # "none"} /\ {mode, setting} \subseteq Modes
    BY <2>1, <2>2 DEF EnvInit
  <2>6. sw \in Calls
    BY NoCallIsCall DEF EnvInit
  <2>7. orders \in 0 .. MaxOrders
    BY BoundIsNat DEF EnvInit
  <2>8. asked \in BOOLEAN /\ excused \subseteq Symbols
    BY DEF EnvInit
  <2> QED
    BY <2>1, <2>3, <2>4, <2>5, <2>6, <2>7, <2>8 DEF EnvTypeOK
<1>3. BrokersInOrder
  <2>1. \A b \in Brokers : IsMade(b) <=> b <= Initial
    BY <1>1, BoundIsNat DEF IsMade, Brokers, Initial, AlpacaKinds
  <2> QED
    BY <1>1, <2>1 DEF BrokersInOrder
<1>4. SwitchKnowsTheWayBack
  BY <1>1 DEF EnvInit, SwitchKnowsTheWayBack, NoCall, IsMade, AlpacaKinds
<1>5. DrainSoFar /\ OrdersLeft
  BY DEF EnvInit, DrainSoFar, OrdersLeft, NoCall
<1> QED
  BY <1>2, <1>3, <1>4, <1>5 DEF EnvInv

\* The next broker is the first that is not made.
LEMMA NextBrokerIs ==
    ASSUME EnvInv, sw.pc \in {"validating", "factory"}
    PROVE  /\ NextBroker \in Brokers
           /\ ~ IsMade(NextBroker)
           /\ \A c \in Brokers : c < NextBroker => IsMade(c)
<1>1. PICK n \in Brokers : \A b \in Brokers : IsMade(b) <=> b <= n
  BY DEF EnvInv, BrokersInOrder
<1>2. PICK d \in Brokers : ~ IsMade(d)
  BY DEF EnvInv, SwitchKnowsTheWayBack
<1>3. /\ n + 1 \in Brokers /\ kind[n + 1] = "none"
      /\ \A c \in Brokers : c < n + 1 => kind[c] # "none"
  BY <1>1, <1>2, BoundIsNat DEF Brokers, IsMade
<1> QED
  BY <1>3 DEF NextBroker, IsMade

-----------------------------------------------------------------------------
(* The types.                                                              *)

LEMMA OperatorTypes ==
    ASSUME EnvInv, AskLive \/ EnvPaper \/ ConfirmLive \/ SetMode \/ LoadConfig
    PROVE  EnvTypeOK'
<1>1. CASE AskLive
  BY <1>1 DEF AskLive, EnvInv, EnvTypeOK, accounts, modes
<1>3. CASE SetMode \/ LoadConfig
  <2>1. setting' \in Modes /\ UNCHANGED << kind, accounts, cur, mode, sw, asked, loop, orders, excused >>
    BY <1>3 DEF SetMode, LoadConfig
  <2> QED
    BY <2>1 DEF EnvInv, EnvTypeOK, accounts
<1>2. ASSUME NEW t \in Modes, BeginSwitch(t) PROVE EnvTypeOK'
  <2>1. sw' \in Calls
    <3>1. cur \in Brokers /\ mode \in Modes /\ setting \in Modes
      BY DEF EnvInv, EnvTypeOK
    <3>2. sw' = [pc |-> "validating", target |-> t, oldMode |-> mode, oldSetting |-> setting,
                 old |-> cur, new |-> Initial, todo |-> {}, failed |-> FALSE, swapped |-> FALSE]
      BY <1>2 DEF BeginSwitch, NoCall
    <3> QED
      BY <3>1, <3>2, BrokersAreNat DEF Calls, SwitchSteps
  <2> QED
    BY <1>2, <2>1 DEF BeginSwitch, EnvInv, EnvTypeOK, accounts, modes
<1> QED
  BY <1>1, <1>2, <1>3 DEF EnvPaper, ConfirmLive, Modes

LEMMA SwitchTypes ==
    ASSUME EnvInv, Switch
    PROVE  EnvTypeOK'
<1> USE DEF SwUnchanged
<1>0. sw \in Calls /\ cur \in Brokers
  BY DEF EnvInv, EnvTypeOK
<1>a. \A p \in SwitchSteps : [sw EXCEPT !.pc = p] \in Calls
  BY <1>0, CallMoves
<1>b. /\ [sw EXCEPT !.pc = "failed"] \in Calls
      /\ [sw EXCEPT !.pc = "factory"] \in Calls
      /\ [sw EXCEPT !.pc = "list"] \in Calls
      /\ [sw EXCEPT !.pc = "swap"] \in Calls
      /\ [sw EXCEPT !.pc = "verifying"] \in Calls
  BY <1>a DEF SwitchSteps
<1>1. CASE Validate \/ Account \/ Drained \/ Verify
  <2>1. sw' \in Calls
    BY <1>0, <1>1, <1>b, NoCallIsCall DEF Validate, Account, Drained, Verify, Fail
  <2> QED
    BY <1>1, <2>1 DEF Validate, Account, Drained, Verify, EnvInv, EnvTypeOK, accounts, modes
<1>2. CASE List
  <2>1. held[Acc(cur)] \subseteq Symbols
    BY DEF Acc, EnvInv, EnvTypeOK
  <2>2. sw' \in Calls
    BY <1>0, <1>2, <1>b, <2>1 DEF List, Fail, Calls, SwitchSteps
  <2> QED
    BY <1>2, <2>2 DEF List, EnvInv, EnvTypeOK, accounts, modes
<1>3. ASSUME NEW s \in Symbols, ClosePosition(s) PROVE EnvTypeOK'
  <2>1. sw' \in Calls
    BY <1>0, <1>3 DEF ClosePosition, Calls
  <2>2. closing' \in [Accounts -> SUBSET Symbols] /\ excused' \subseteq Symbols
    BY <1>3 DEF ClosePosition, EnvInv, EnvTypeOK
  <2> QED
    BY <1>3, <2>1, <2>2 DEF ClosePosition, EnvInv, EnvTypeOK, modes
<1>4. CASE Factory
  <2>0. sw.pc = "factory" /\ NextBroker \in Brokers
    BY <1>4, NextBrokerIs DEF Factory
  <2>1. sw' \in Calls
    BY <1>0, <1>4, <1>b, <2>0 DEF Factory, Fail, Calls, SwitchSteps
  <2>2. /\ kind' \in [Brokers -> Accounts \cup {"none"}]
        /\ \A b \in Brokers : kind[b] # "none" => kind'[b] # "none"
    BY <1>4, <2>0 DEF Factory, Made, Accounts, EnvInv, EnvTypeOK
  <2> QED
    BY <1>4, <2>1, <2>2 DEF Factory, EnvInv, EnvTypeOK, accounts, modes
<1>5. CASE Swap \/ Apply \/ RollBack
  <2>1. sw' \in Calls
    BY <1>0, <1>5, <1>b, NoCallIsCall DEF Swap, Apply, RollBack, Calls, SwitchSteps
  <2>2. cur' \in Brokers /\ kind[cur'] # "none" /\ mode' \in Modes /\ setting' \in Modes
    BY <1>0, <1>5 DEF Swap, Apply, RollBack, Calls, EnvInv, EnvTypeOK, SwitchKnowsTheWayBack,
                      IsMade
  <2> QED
    BY <1>5, <2>1, <2>2 DEF Swap, Apply, RollBack, EnvInv, EnvTypeOK, accounts
<1> QED
  BY <1>1, <1>2, <1>3, <1>4, <1>5 DEF Switch

LEMMA LoopTypes ==
    ASSUME EnvInv, \/ LoopStep \/ Interrupted
                   \/ \E a \in Accounts, s \in Symbols : Fill(a, s)
                   \/ UNCHANGED envVars
    PROVE  EnvTypeOK'
<1> USE DEF LoopUnchanged
<1>0. /\ loop \in [pc : LoopSteps, broker : {b \in Brokers : kind[b] # "none"}, refused : BOOLEAN]
      /\ cur \in {b \in Brokers : kind[b] # "none"}
  BY DEF EnvInv, EnvTypeOK
<1>a. \A p \in LoopSteps : [loop EXCEPT !.pc = p] \in
        [pc : LoopSteps, broker : {b \in Brokers : kind[b] # "none"}, refused : BOOLEAN]
  BY <1>0
<1>b. ASSUME NEW p \in LoopSteps, Goto(p)
      PROVE  loop' \in [pc : LoopSteps, broker : {b \in Brokers : kind[b] # "none"},
                        refused : BOOLEAN]
  BY <1>a, <1>b DEF Goto
<1>1. CASE Sync \/ Feed \/ Market \/ Trade \/ Interrupted \/ CancelOrders \/ StopStream
  <2>1. /\ loop' \in [pc : LoopSteps, broker : {b \in Brokers : kind[b] # "none"},
                      refused : BOOLEAN]
        /\ UNCHANGED << kind, modes, sw, asked >>
    <3>1. CASE Sync
      BY <1>0, <3>1 DEF Sync, LoopSteps
    <3>2. CASE Feed \/ Market \/ Trade \/ Interrupted \/ StopStream
      <4>1. \E p \in LoopSteps : Goto(p)
        BY <3>2 DEF Feed, Market, Trade, Interrupted, StopStream, LoopSteps
      <4> QED
        BY <3>2, <4>1, <1>b DEF Feed, Market, Trade, Interrupted, StopStream
    <3>3. CASE CancelOrders
      <4>1. \/ Goto("stop")
            \/ loop' = [loop EXCEPT !.pc = "stop", !.refused = TRUE]
        BY <3>3 DEF CancelOrders, Goto
      <4> QED
        BY <3>3, <4>1, <1>0, <1>b DEF CancelOrders, LoopSteps
    <3> QED
      BY <1>1, <3>1, <3>2, <3>3
  <2>2. /\ open' \in [Accounts -> SUBSET Symbols]
        /\ UNCHANGED << held, closing, excused >>
    BY <1>1 DEF Sync, Feed, Market, Trade, Interrupted, CancelOrders, StopStream, EnvInv,
                EnvTypeOK, accounts
  <2>3. orders' \in 0 .. MaxOrders
    BY <1>1, BoundIsNat DEF Sync, Feed, Market, Trade, Interrupted, CancelOrders, StopStream,
                EnvInv, EnvTypeOK
  <2> QED
    BY <2>1, <2>2, <2>3 DEF EnvInv, EnvTypeOK, modes
<1>2. ASSUME NEW a \in Accounts, NEW s \in Symbols, Fill(a, s) PROVE EnvTypeOK'
  BY <1>2 DEF Fill, EnvInv, EnvTypeOK, modes
<1>3. CASE UNCHANGED envVars
  BY <1>3 DEF envVars, accounts, modes, EnvInv, EnvTypeOK
<1> QED
  BY <1>1, <1>2, <1>3 DEF LoopStep

-----------------------------------------------------------------------------
(* What each part of the state leaves alone.                               *)

\* Only Factory makes a broker, and the others are as they were.
LEMMA MadeStay ==
    ASSUME EnvInv, [EnvNext]_envVars
    PROVE  \A b \in Brokers : IsMade(b) => IsMade(b)' /\ kind'[b] = kind[b]
<1>1. CASE Factory
  <2>1. NextBroker \in Brokers /\ ~ IsMade(NextBroker)
    BY <1>1, NextBrokerIs DEF Factory
  <2>2. kind \in [Brokers -> Accounts \cup {"none"}]
    BY DEF EnvInv, EnvTypeOK
  <2> QED
    BY <1>1, <2>1, <2>2 DEF Factory, IsMade
<1>2. CASE kind' = kind
  BY <1>2 DEF IsMade
<1>3. ASSUME ~ Factory PROVE kind' = kind
  BY <1>3 DEF EnvNext, envVars, AskLive, EnvPaper, ConfirmLive, SetMode, LoadConfig, BeginSwitch, Switch, Validate,
              Account, List, ClosePosition, Drained, Swap, Apply, Verify, RollBack, LoopStep,
              Sync, Feed, Market, Trade, CancelOrders, StopStream, Interrupted, LoopUnchanged,
              Fill
<1> QED
  BY <1>1, <1>2, <1>3

LEMMA OrderStays ==
    ASSUME EnvInv, [EnvNext]_envVars
    PROVE  BrokersInOrder'
<1>0. kind'[Initial] = kind[Initial] /\ kind[Initial] \in AlpacaKinds
  BY MadeStay, BrokersAreNat DEF EnvInv, BrokersInOrder, IsMade, AlpacaKinds
<1>1. CASE UNCHANGED kind
  BY <1>1 DEF EnvInv, BrokersInOrder, IsMade
<1>2. CASE Factory /\ kind' # kind
  <2>1. PICK n \in Brokers : \A b \in Brokers : IsMade(b) <=> b <= n
    BY DEF EnvInv, BrokersInOrder
  <2>2. /\ NextBroker \in Brokers /\ ~ IsMade(NextBroker)
        /\ \A c \in Brokers : c < NextBroker => IsMade(c)
    BY <1>2, NextBrokerIs DEF Factory
  <2>3. NextBroker = n + 1
    BY <2>1, <2>2, BrokersAreNat, BoundIsNat DEF Brokers
  <2>4. kind'[NextBroker] # "none" /\ \A b \in Brokers : b # NextBroker => kind'[b] = kind[b]
    BY <1>2, <2>2 DEF Factory, Made, EnvInv, EnvTypeOK
  <2>5. \A b \in Brokers : kind'[b] # "none" <=> b <= n + 1
    BY <2>1, <2>2, <2>3, <2>4, BrokersAreNat DEF IsMade, Brokers
  <2> QED
    BY <1>0, <2>2, <2>3, <2>5 DEF BrokersInOrder, IsMade
<1> QED
  BY <1>1, <1>2 DEF EnvNext, envVars, AskLive, EnvPaper, ConfirmLive, SetMode, LoadConfig, BeginSwitch, Switch,
        Validate, Account, List, ClosePosition, Drained, Swap, Apply, Verify, RollBack, LoopStep,
        Sync, Feed, Market, Trade, CancelOrders, StopStream, Interrupted, LoopUnchanged, Fill

\* The steps of the operator's question, the loop and the exchange, and what sets the
\* settings' mode alone.
SettingOnly == SetMode \/ LoadConfig
Elsewhere ==
    AskLive \/ SettingOnly \/ LoopStep \/ Interrupted \/ \E a \in Accounts, s \in Symbols : Fill(a, s)

LEMMA ElsewhereNoSwitch ==
    ASSUME Elsewhere \/ UNCHANGED envVars
    PROVE  UNCHANGED << kind, cur, mode, sw >> /\ (sw.pc # "none" => setting' = setting)
BY DEF Elsewhere, AskLive, SettingOnly, SetMode, LoadConfig, LoopStep, Sync, Feed, Market, Trade, CancelOrders, StopStream,
       Interrupted, Fill, LoopUnchanged, modes, envVars

LEMMA EnvSteps ==
    ASSUME [EnvNext]_envVars
    PROVE  \/ Elsewhere
           \/ UNCHANGED envVars
           \/ \E t \in Modes : BeginSwitch(t)
           \/ Switch
BY DEF EnvNext, Elsewhere, SettingOnly, EnvPaper, ConfirmLive, Modes

LEMMA WayBackStays ==
    ASSUME EnvInv, [EnvNext]_envVars
    PROVE  SwitchKnowsTheWayBack'
<1> USE DEF SwUnchanged
<1>0. /\ sw \in Calls /\ cur \in Brokers /\ IsMade(cur)
      /\ \A b \in Brokers : IsMade(b) => kind'[b] # "none" /\ kind'[b] = kind[b]
  BY MadeStay DEF EnvInv, EnvTypeOK, IsMade
<1>1. CASE Elsewhere \/ UNCHANGED envVars
  BY <1>1, ElsewhereNoSwitch DEF EnvInv, SwitchKnowsTheWayBack, IsMade
<1>2. ASSUME NEW t \in Modes, BeginSwitch(t) PROVE SwitchKnowsTheWayBack'
  <2>1. sw' = [pc |-> "validating", target |-> t, oldMode |-> mode, oldSetting |-> setting,
               old |-> cur, new |-> Initial, todo |-> {}, failed |-> FALSE, swapped |-> FALSE]
    BY <1>2 DEF BeginSwitch, NoCall
  <2>2. kind[Initial] # "none" /\ sw.pc = "none" /\ UNCHANGED << kind, cur, mode, setting >>
    BY <1>2 DEF BeginSwitch, EnvInv, BrokersInOrder, AlpacaKinds, modes
  <2>3. mode = ModeOf(kind[cur])
    BY <2>2 DEF EnvInv, SwitchKnowsTheWayBack
  <2>4. \E b \in Brokers : kind[b] = "none"
    BY <1>2 DEF BeginSwitch
  <2> QED
    BY <1>0, <2>1, <2>2, <2>3, <2>4 DEF SwitchKnowsTheWayBack, IsMade
<1>3. CASE Validate \/ Account \/ List \/ Drained \/ \E s \in Symbols : ClosePosition(s)
  <2>1. /\ sw.pc # "none" /\ sw'.pc \notin {"none", "verifying"}
        /\ sw'.pc = "factory" => sw.pc = "validating"
        /\ sw'.pc # "validating"
    BY <1>0, <1>3 DEF Validate, Account, List, Drained, ClosePosition, Fail, Calls
  <2>2. /\ sw'.old = sw.old /\ sw'.new = sw.new /\ sw'.swapped = sw.swapped
        /\ sw'.oldMode = sw.oldMode /\ sw'.oldSetting = sw.oldSetting
    BY <1>0, <1>3 DEF Validate, Account, List, Drained, ClosePosition, Fail, Calls
  <2>3. UNCHANGED << kind, cur, mode, setting >>
    BY <1>3 DEF Validate, Account, List, Drained, ClosePosition, modes
  <2> QED
    BY <2>1, <2>2, <2>3 DEF EnvInv, SwitchKnowsTheWayBack, IsMade
<1>4. CASE Factory
  <2>1. /\ sw.pc = "factory" /\ sw'.pc \in {"account", "failed"}
        /\ sw'.old = sw.old /\ sw'.swapped = sw.swapped
        /\ sw'.oldMode = sw.oldMode /\ sw'.oldSetting = sw.oldSetting
        /\ UNCHANGED << cur, mode, setting >>
    BY <1>0, <1>4 DEF Factory, Fail, Calls, modes
  <2>2. sw.old \in Brokers /\ sw.new \in Brokers
    BY <1>0 DEF Calls
  <2>3. kind'[sw'.new] # "none"
    <3>1. CASE sw'.new = sw.new
      BY <1>0, <2>2, <3>1 DEF EnvInv, SwitchKnowsTheWayBack
    <3>2. CASE sw'.new = NextBroker /\ \E k \in Made(sw.target) : kind' = [kind EXCEPT ![NextBroker] = k]
      <4>1. NextBroker \in Brokers
        BY <2>1, NextBrokerIs
      <4> QED
        BY <3>2, <4>1 DEF Made, EnvInv, EnvTypeOK
    <3> QED
      BY <1>0, <1>4, <3>1, <3>2 DEF Factory, Fail, Calls
  <2> QED
    BY <1>0, <2>1, <2>2, <2>3 DEF EnvInv, SwitchKnowsTheWayBack, IsMade
<1>5. CASE Swap \/ Apply
  <2>1. /\ sw.pc \in {"swap", "apply"} /\ sw'.pc \in {"apply", "verifying"}
        /\ sw'.old = sw.old /\ sw'.new = sw.new /\ sw'.target = sw.target
        /\ sw'.oldMode = sw.oldMode /\ sw'.oldSetting = sw.oldSetting
        /\ UNCHANGED kind
        /\ ~ sw'.swapped => ~ sw.swapped /\ cur' = cur
        /\ sw'.pc = "verifying" => mode' = sw.target /\ setting' = sw.target
    BY <1>0, <1>5 DEF Swap, Apply, Calls
  <2> QED
    BY <2>1 DEF EnvInv, SwitchKnowsTheWayBack, IsMade
<1>6. CASE Verify \/ RollBack
  <2>1. kind[Initial] # "none" /\ UNCHANGED kind
    BY <1>6 DEF Verify, RollBack, EnvInv, BrokersInOrder, AlpacaKinds
  <2>2. CASE sw' = NoCall
    <3>1. mode' = ModeOf(kind[cur'])
      BY <1>0, <1>6, <2>2 DEF Verify, RollBack, Fail, NoCall, Calls, modes, EnvInv,
                              SwitchKnowsTheWayBack
    <3> QED
      BY <2>1, <2>2, <3>1 DEF NoCall, SwitchKnowsTheWayBack, IsMade
  <2>3. CASE Verify /\ sw' = [sw EXCEPT !.pc = "failed"]
    BY <1>0, <2>1, <2>3 DEF Verify, Calls, modes, EnvInv, SwitchKnowsTheWayBack, IsMade
  <2> QED
    BY <1>6, <2>2, <2>3 DEF Verify, RollBack, Fail
<1> QED
  BY <1>1, <1>2, <1>3, <1>4, <1>5, <1>6, EnvSteps DEF Switch

LEMMA DrainGoesOn ==
    ASSUME EnvInv, [EnvNext]_envVars
    PROVE  DrainSoFar'
<1> USE DEF SwUnchanged
<1>0. /\ sw \in Calls /\ cur \in Brokers /\ IsMade(cur)
      /\ kind'[cur] = kind[cur]
      /\ kind[cur] \in Accounts
  BY MadeStay DEF EnvInv, EnvTypeOK, IsMade
<1>1. CASE Elsewhere \/ UNCHANGED envVars
  <2>1. UNCHANGED << kind, cur, sw >>
    BY <1>1, ElsewhereNoSwitch
  <2>2. \A a \in Accounts : held'[a] \ (closing'[a] \cup excused') \subseteq
                            held[a] \ (closing[a] \cup excused)
    <3>1. CASE UNCHANGED << held, closing, excused >>
      BY <3>1
    <3>2. ASSUME NEW a \in Accounts, NEW s \in Symbols, Fill(a, s)
          PROVE  \A b \in Accounts : held'[b] \ (closing'[b] \cup excused') \subseteq
                                     held[b] \ (closing[b] \cup excused)
      BY <3>2 DEF Fill, EnvInv, EnvTypeOK
    <3> QED
      BY <1>1, <3>1, <3>2 DEF Elsewhere, AskLive, SettingOnly, SetMode, LoadConfig, LoopStep, Sync, Feed, Market, Trade,
            CancelOrders, StopStream, Interrupted, LoopUnchanged, accounts, envVars
  <2> QED
    BY <1>0, <2>1, <2>2 DEF EnvInv, DrainSoFar, Acc
<1>2. ASSUME NEW t \in Modes, BeginSwitch(t) PROVE DrainSoFar'
  BY <1>2 DEF BeginSwitch, NoCall, DrainSoFar
<1>3. CASE Validate \/ Account \/ Swap \/ Apply \/ Verify \/ RollBack \/ Factory
  <2>1. sw'.pc \notin {"close", "swap"}
    <3>1. CASE Verify \/ RollBack
      <4>1. sw' = NoCall \/ sw'.pc = "failed"
        BY <1>0, <3>1 DEF Verify, RollBack, Fail, Calls
      <4> QED
        BY <4>1 DEF NoCall
    <3>2. CASE Factory
      BY <1>0, <3>2 DEF Factory, Fail, Calls
    <3> QED
      BY <1>0, <1>3, <3>1, <3>2 DEF Validate, Account, Swap, Apply, Fail, Calls
  <2> QED
    BY <2>1 DEF DrainSoFar
<1>4. CASE List
  BY <1>0, <1>4 DEF List, Fail, Calls, DrainSoFar, Acc, accounts, modes
<1>5. ASSUME NEW s \in Symbols, ClosePosition(s) PROVE DrainSoFar'
  <2>1. UNCHANGED << kind, held, cur >> /\ sw'.pc = "close" /\ sw'.todo = sw.todo \ {s}
    BY <1>0, <1>5 DEF ClosePosition, Calls, modes
  <2>2. ~ sw'.failed => /\ ~ sw.failed
                        /\ closing[Acc(cur)] \subseteq closing'[Acc(cur)]
                        /\ excused \subseteq excused'
                        /\ held[Acc(cur)] \cap {s} \subseteq closing'[Acc(cur)] \cup excused'
    <3>1. closing \in [Accounts -> SUBSET Symbols] /\ Acc(cur) \in Accounts
      BY <1>0 DEF EnvInv, EnvTypeOK, Acc
    <3>2. CASE /\ closing' = [closing EXCEPT ![Acc(cur)] = @ \cup (held[Acc(cur)] \cap {s})]
               /\ sw' = [sw EXCEPT !.todo = @ \ {s}] /\ UNCHANGED excused
      <4>1. closing'[Acc(cur)] = closing[Acc(cur)] \cup (held[Acc(cur)] \cap {s})
        BY <3>1, <3>2
      <4>2. sw'.failed = sw.failed
        BY <1>0, <3>2 DEF Calls
      <4> QED
        BY <3>2, <4>1, <4>2
    <3>3. CASE /\ excused' = excused \cup {s} /\ UNCHANGED closing
               /\ sw' = [sw EXCEPT !.todo = @ \ {s}]
      <4>1. sw'.failed = sw.failed
        BY <1>0, <3>3 DEF Calls
      <4> QED
        BY <3>3, <4>1
    <3>4. CASE sw' = [sw EXCEPT !.todo = @ \ {s}, !.failed = TRUE]
      <4>1. sw'.failed = TRUE
        BY <1>0, <3>4 DEF Calls
      <4> QED
        BY <4>1
    <3> QED
      BY <1>5, <3>2, <3>3, <3>4 DEF ClosePosition
  <2>3. sw.pc = "close"
    BY <1>5 DEF ClosePosition
  <2> QED
    BY <2>1, <2>2, <2>3 DEF EnvInv, DrainSoFar, Acc
<1>6. CASE Drained
  BY <1>0, <1>6 DEF Drained, Fail, Calls, accounts, modes, EnvInv, DrainSoFar, Acc
<1> QED
  BY <1>1, <1>2, <1>3, <1>4, <1>5, <1>6, EnvSteps DEF Switch

LEMMA OrdersLeftFor ==
    ASSUME EnvInv, [EnvNext]_envVars
    PROVE  OrdersLeft'
<1>0. /\ loop.broker \in Brokers /\ IsMade(loop.broker) /\ loop.pc \in LoopSteps
      /\ loop \in [pc : LoopSteps, broker : Brokers, refused : BOOLEAN]
      /\ kind'[loop.broker] = kind[loop.broker] /\ kind'[Initial] = kind[Initial]
      /\ kind[Initial] \in Accounts /\ kind[Initial] # "simulated"
  BY MadeStay, BrokersAreNat DEF EnvInv, EnvTypeOK, BrokersInOrder, AlpacaKinds, IsMade, Accounts
<1>1. ASSUME UNCHANGED << loop, open >> PROVE OrdersLeft'
  BY <1>0, <1>1 DEF EnvInv, OrdersLeft, Acc
<1>2. CASE Sync \/ Feed \/ Market \/ Trade \/ Interrupted
  <2>1. loop'.pc \notin {"stop", "closed", "died"}
    BY <1>0, <1>2 DEF Sync, Feed, Market, Trade, Interrupted, Goto
  <2> QED
    BY <2>1 DEF OrdersLeft
<1>3. CASE CancelOrders
  BY <1>0, <1>3 DEF CancelOrders, Goto, LoopUnchanged, Remote, Acc, OrdersLeft, EnvInv, EnvTypeOK
<1>4. CASE StopStream
  <2>1. loop.pc = "stop" /\ loop'.broker = loop.broker /\ loop'.refused = loop.refused /\ open' = open
    BY <1>0, <1>4 DEF StopStream, Goto, accounts
  <2> QED
    BY <1>0, <2>1 DEF EnvInv, OrdersLeft, Acc
<1>5. ASSUME NEW a \in Accounts, NEW s \in Symbols, Fill(a, s) PROVE OrdersLeft'
  <2>1. loop' = loop /\ open'[Acc(Initial)] \subseteq open[Acc(Initial)]
    BY <1>0, <1>5 DEF Fill, Acc, EnvInv, EnvTypeOK
  <2> QED
    BY <1>0, <2>1 DEF EnvInv, OrdersLeft, Acc
<1>6. CASE Switch \/ \E t \in Modes : BeginSwitch(t)
  <2>1. UNCHANGED << loop, open >>
    BY <1>6 DEF Switch, BeginSwitch, Validate, Account, Swap, Apply, Verify, RollBack, Factory,
                List, Drained, ClosePosition, accounts, SwUnchanged
  <2> QED
    BY <1>1, <2>1
<1>7. CASE AskLive \/ SettingOnly \/ UNCHANGED envVars
  BY <1>1, <1>7 DEF AskLive, SettingOnly, SetMode, LoadConfig, accounts, envVars
<1> QED
  BY <1>2, <1>3, <1>4, <1>5, <1>6, <1>7, EnvSteps DEF Elsewhere, LoopStep

LEMMA EnvInvStep == EnvInv /\ [EnvNext]_envVars => EnvInv'
<1> SUFFICES ASSUME EnvInv, [EnvNext]_envVars PROVE EnvInv'
  OBVIOUS
<1>1. EnvTypeOK'
  BY OperatorTypes, SwitchTypes, LoopTypes DEF EnvNext
<1> QED
  BY <1>1, OrderStays, WayBackStays, DrainGoesOn, OrdersLeftFor DEF EnvInv

LEMMA EnvInvariance == EnvSpec => []EnvInv
BY EnvInvInit, EnvInvStep, PTL DEF EnvSpec

\* Whatever the factory, the exchange and the operator do, the managers, the accounts and
\* the loop keep their types (environment.py).
THEOREM EnvironmentTypes == EnvSpec => []EnvTypeOK
BY EnvInvariance, PTL DEF EnvInv

\* However many switches there were, wherever one failed and whatever the settings were
\* set to meanwhile, the mode of the manager is the kind of the broker when no switch is
\* under way (environment.py, switch_environment and its rollback; main.py, --live).
THEOREM ManagersAgree == EnvSpec => []ModesAgree
<1>1. EnvInv => ModesAgree
  BY DEF EnvInv, SwitchKnowsTheWayBack, ModesAgree
<1> QED
  BY <1>1, EnvInvariance, PTL

\* For any positions and any fills meanwhile, BrokerManager gives a broker up only when
\* each of its positions is closing or excused (environment.py, switch_broker).
THEOREM SwitchDrains == EnvSpec => []DrainedUnlessRefused
<1>1. EnvInv => DrainedUnlessRefused
  BY DEF EnvInv, DrainSoFar, DrainedUnlessRefused
<1> QED
  BY <1>1, EnvInvariance, PTL

\* A switch leaves the broker, the mode and the settings of its beginning, at whatever
\* step it failed, or all three of its target
\* (environment.py, switch_environment).
THEOREM SwitchesAreWhole == EnvSpec => SwitchIsAllOrNothing
<1>1. ASSUME EnvInv, [EnvNext]_envVars, sw.pc # "none", sw'.pc = "none"
      PROVE  IF sw.pc = "failed"
             THEN cur' = sw.old /\ mode' = sw.oldMode /\ setting' = sw.oldSetting
             ELSE {mode', setting', ModeOf(kind[cur])} = {sw.target} /\ cur' = cur
  <2>0. sw \in Calls
    BY <1>1 DEF EnvInv, EnvTypeOK
  <2>1. Verify \/ RollBack
    <3>1. ~ Elsewhere /\ ~ UNCHANGED envVars
      BY <1>1, ElsewhereNoSwitch DEF envVars
    <3>2. Switch
      BY <1>1, <3>1, EnvSteps DEF BeginSwitch
    <3>3. Validate \/ Account \/ Swap \/ Apply \/ Factory \/ List \/ Drained
            \/ (\E s \in Symbols : ClosePosition(s)) => sw'.pc # "none"
      BY <1>1, <2>0 DEF Validate, Account, Swap, Apply, Factory, List, Drained, ClosePosition,
                        Fail, Calls
    <3> QED
      BY <1>1, <3>2, <3>3 DEF Switch
  <2>2. CASE RollBack
    <3>1. sw.swapped \/ cur = sw.old
      BY <1>1 DEF EnvInv, SwitchKnowsTheWayBack
    <3> QED
      BY <2>2, <3>1 DEF RollBack
  <2>3. CASE Verify
    <3>1. sw.pc = "verifying" /\ sw' # [sw EXCEPT !.pc = "failed"]
      BY <1>1, <2>0, <2>3 DEF Verify, Calls
    <3>2. ModeOf(kind[cur]) = sw.target /\ UNCHANGED << cur, mode, setting >>
      BY <2>3, <3>1 DEF Verify, Fail, modes
    <3> QED
      BY <1>1, <3>1, <3>2 DEF EnvInv, SwitchKnowsTheWayBack
  <2> QED
    BY <2>1, <2>2, <2>3
<1> QED
  BY <1>1, EnvInvariance, PTL DEF EnvSpec, SwitchIsAllOrNothing

\* After main() ended, an order is left at the engine's account only if its cancellation
\* was refused or the loop had changed to another account (main.py, the shutdown).
THEOREM ShutdownLeavesForAReason == EnvSpec => []OrdersLeftOnlyAfterSwitch
<1>1. EnvInv => OrdersLeftOnlyAfterSwitch
  BY DEF EnvInv, OrdersLeft, OrdersLeftOnlyAfterSwitch, Ended
<1> QED
  BY <1>1, EnvInvariance, PTL
-----------------------------------------------------------------------------
(* The models.                                                             *)

\* What is in the registry, and which of it is active.
RegistryInv ==
    /\ Entered(reg) \cup files \subseteq 1 .. made
    /\ Active(reg) \subseteq Entered(reg) \cap activated
    /\ OneActiveVersion

Judging == {"validating", "deploying", "activating", "copying"}

\* A run has a version from its registration on, no later one than the registry gave out;
\* what it is about to copy is activated.
RunsInv ==
    /\ RunsNumberedApart
    /\ \A r \in Runs :
          /\ runs[r].st = "none" => runs[r] = NoRun
          /\ runs[r].ver <= Cardinality(Entered(reg))
          /\ runs[r].st \in Judging => runs[r].ver # None
          /\ runs[r].st = "copying" => Of(reg, runs[r].ver) \subseteq activated

\* A version that some activated or chosen model has in the registry.
Vouched(v) == \E m \in activated \cup chosen : reg[m].ver = v

Allowed == activated \cup chosen \cup {None}

\* What serves was activated or chosen, or stands under the version of such a model.
ServingInv ==
    /\ {slot, strategy, latest} \subseteq Allowed
    /\ served.ver = None => served.model \in Allowed
    /\ served.ver # None => Vouched(served.ver) /\ served.model = Entry(reg, served.ver)

ModelInv == TypeOK /\ RegistryInv /\ RunsInv /\ ServingInv


LEMMA BoundsAreNat ==
    MaxModels \in Nat /\ MaxRuns \in Nat /\ MaxCommands \in Nat /\ MaxRedeploys \in Nat
BY BoundsAssumption DEF BoundsAssumption

LEMMA OldestIs ==
    ASSUME NEW S \in SUBSET Models, S # {}
    PROVE  Oldest(S) \in S /\ \A k \in S : Oldest(S) <= k
<1>1. S \subseteq Nat
  BY BoundsAreNat DEF Models
<1>2. PICK m \in S : \A k \in S : ~ (k < m)
  <2>1. IsWellFoundedOn(OpToRel(<, Nat), Nat)
    BY NatLessThanWellFounded
  <2>2. PICK m \in S : \A k \in S : ~ (<<k, m>> \in OpToRel(<, Nat))
    BY <1>1, <2>1, WFMin, Zenon
  <2> QED
    BY <1>1, <2>2 DEF OpToRel
<1>3. \A k \in S : m <= k
  BY <1>1, <1>2
<1> QED
  BY <1>3 DEF Oldest

LEMMA NewestIs ==
    ASSUME NEW S \in SUBSET Models, S # {}
    PROVE  Newest(S) \in S /\ \A k \in S : k <= Newest(S)
<1> DEFINE D == {d \in Nat : MaxModels - d \in S}
<1>1. S \subseteq 1 .. MaxModels /\ MaxModels \in Nat
  BY BoundsAreNat DEF Models
<1>2. D # {} /\ D \subseteq Nat
  <2>1. PICK k \in S : TRUE
    OBVIOUS
  <2>2. MaxModels - k \in Nat /\ MaxModels - (MaxModels - k) = k
    BY <1>1
  <2> QED
    BY <2>1, <2>2
<1>3. PICK d \in D : \A k \in D : ~ (k < d)
  <2> HIDE DEF D
  <2>1. IsWellFoundedOn(OpToRel(<, Nat), Nat)
    BY NatLessThanWellFounded
  <2>2. PICK m \in D : \A k \in D : ~ (<<k, m>> \in OpToRel(<, Nat))
    BY <1>2, <2>1, WFMin, Zenon
  <2> QED
    BY <1>2, <2>2 DEF OpToRel
<1>4. MaxModels - d \in S /\ \A k \in S : k <= MaxModels - d
  <2>1. ASSUME NEW k \in S PROVE k <= MaxModels - d
    <3>1. MaxModels - k \in Nat /\ MaxModels - (MaxModels - k) = k
      BY <1>1
    <3>2. MaxModels - k \in D
      BY <3>1
    <3>3. ~ (MaxModels - k < d)
      BY <1>3, <3>2
    <3>4. d \in Nat /\ k \in Nat
      BY <1>1, <1>2
    <3> HIDE DEF D
    <3> QED
      BY <1>1, <3>1, <3>3, <3>4
  <2> QED
    BY <2>1
<1> QED
  BY <1>4 DEF Newest

LEMMA EnteredIsFinite ==
    ASSUME ModelInv
    PROVE  IsFiniteSet(Entered(reg)) /\ Cardinality(Entered(reg)) \in 0 .. made
<1>1. made \in Nat /\ Entered(reg) \subseteq 1 .. made
  BY BoundsAreNat DEF ModelInv, TypeOK, RegistryInv
<1>2. IsFiniteSet(1 .. made) /\ Cardinality(1 .. made) = made
  BY <1>1, FS_Interval
<1> QED
  BY <1>1, <1>2, FS_Subset, FS_CardinalityType

LEMMA EnteredLater == IsFiniteSet(Entered(reg')) /\ Cardinality(Entered(reg')) \in Nat
<1>1. Entered(reg') \subseteq 1 .. MaxModels
  BY DEF Entered, Models
<1>2. IsFiniteSet(1 .. MaxModels)
  BY FS_Interval, BoundsAreNat
<1> QED
  BY <1>1, <1>2, FS_Subset, FS_CardinalityType

\* The registry finds the oldest model of a version, and a newer one does not change that.
LEMMA EntryIs ==
    ASSUME NEW R \in [Models -> Entries], NEW v \in Models, Of(R, v) # {}
    PROVE  Entry(R, v) = Oldest(Of(R, v)) /\ Entry(R, v) \in Of(R, v)
<1>1. Of(R, v) \subseteq Models /\ v # None
  BY BoundsAreNat DEF Of, Models, None
<1> QED
  BY <1>1, OldestIs DEF Entry

LEMMA ActiveVersionIs ==
    ASSUME NEW R \in [Models -> Entries], Active(R) # {}
    PROVE  /\ Newest(Active(R)) \in Active(R)
           /\ ActiveVersion(R) = R[Newest(Active(R))].ver
<1>1. Active(R) \subseteq Models
  BY DEF Active
<1> QED
  BY <1>1, NewestIs DEF ActiveVersion

LEMMA ModelInvInit == Init => ModelInv
<1> SUFFICES ASSUME Init PROVE ModelInv
  OBVIOUS
<1> USE BoundsAreNat DEF None
<1>1. /\ Entered(reg) = {} /\ Active(reg) = {}
  BY DEF Init, Entered, Active, NoEntry
<1>2. TypeOK
  BY DEF Init, TypeOK, OrNone, NoEntry, Entries, NoRecord, Records, NoRun, RunRecs, Status,
         Served, Flags, Changes, NoChange, Writers
<1>3. RegistryInv /\ ServingInv
  BY <1>1 DEF Init, RegistryInv, ServingInv, Allowed, OneActiveVersion
<1>4. RunsInv
  <2>1. \A r \in Runs : runs[r] = NoRun
    BY DEF Init
  <2>2. NoRun.st = "none" /\ NoRun.ver = None /\ NoRun.st \notin Judging
    BY DEF NoRun, Judging
  <2>3. Cardinality(Entered(reg)) = 0
    BY <1>1, FS_EmptySet
  <2> QED
    BY <2>1, <2>2, <2>3 DEF RunsInv, RunsNumberedApart
<1> QED
  BY <1>2, <1>3, <1>4 DEF ModelInv

-----------------------------------------------------------------------------
(* The registry within one life of the process: no entry goes, and what a  *)
(* version of an activated model means stays.                              *)

RegistryGoesOn ==
    /\ reg' \in [Models -> Entries] /\ files' \subseteq Models
    /\ latest' \in OrNone(Models) /\ activated' \subseteq Models
    /\ RegistryInv'
    /\ Cardinality(Entered(reg)) <= Cardinality(Entered(reg'))
    /\ activated \subseteq activated'
    /\ latest' \in {latest} \cup activated' \cup chosen'
    /\ chosen \subseteq chosen'
    /\ \A v \in Models : v <= Cardinality(Entered(reg)) => Of(reg', v) \subseteq Of(reg, v)
    /\ \A v \in Models : Vouched(v) => Vouched(v)' /\ Entry(reg', v) = Entry(reg, v)

LEMMA SavedGoesOn ==
    ASSUME ModelInv, made < MaxModels, made' = made + 1,
           NEW activate \in BOOLEAN, SaveVersion(made + 1, activate), chosen \subseteq chosen'
    PROVE  /\ RegistryGoesOn
           /\ Numbered(reg) \in Models
           /\ Cardinality(Entered(reg')) = Numbered(reg)
<1> DEFINE m == made + 1
<1>0. /\ made \in Nat /\ m \in Models /\ Models \subseteq Nat
      /\ reg \in [Models -> Entries] /\ files \subseteq Models
      /\ latest \in OrNone(Models) /\ activated \subseteq Models /\ chosen \subseteq Models
      /\ Entered(reg) \cup files \subseteq 1 .. made
      /\ Active(reg) \subseteq Entered(reg) \cap activated
      /\ OneActiveVersion
  BY BoundsAreNat DEF ModelInv, TypeOK, RegistryInv, Models
<1>1. /\ Cardinality(Entered(reg)) \in 0 .. made /\ IsFiniteSet(Entered(reg))
      /\ Numbered(reg) \in Models
  <2>1. Cardinality(Entered(reg)) \in 0 .. made /\ IsFiniteSet(Entered(reg))
    BY EnteredIsFinite
  <2>2. Cardinality(Entered(reg)) + 1 \in 1 .. MaxModels
    BY <1>0, <2>1, BoundsAreNat
  <2> QED
    BY <2>1, <2>2 DEF Numbered, Models
<1>2. /\ reg'[m] = [ver |-> Numbered(reg), active |-> activate]
      /\ \A k \in Models : k # m => /\ reg'[k].ver = reg[k].ver
                                    /\ activate => ~ reg'[k].active
                                    /\ ~ activate => reg'[k] = reg[k]
      /\ reg' \in [Models -> Entries]
  BY <1>0, <1>1 DEF SaveVersion, Entries, OrNone
<1>3. m \notin Entered(reg) /\ Numbered(reg) # None
  BY <1>0, <1>1 DEF Models, None
<1>4. Entered(reg') = Entered(reg) \cup {m}
  <2>1. \A k \in Models : reg'[k].ver # None <=> reg[k].ver # None \/ k = m
    BY <1>2, <1>3
  <2> HIDE DEF m
  <2> QED
    BY <1>0, <2>1 DEF Entered
<1>5. Cardinality(Entered(reg')) = Numbered(reg)
  BY <1>1, <1>3, <1>4, FS_AddElement DEF Numbered
<1>6. /\ files' = files \cup {m}
      /\ latest' = IF activate THEN m ELSE latest
      /\ activated' = IF activate THEN activated \cup {m} ELSE activated
  BY DEF SaveVersion
<1>7. RegistryInv'
  <2>1. Entered(reg') \cup files' \subseteq 1 .. made'
    BY <1>0, <1>4, <1>6
  <2>2. /\ Active(reg') \subseteq Entered(reg') \cap activated'
        /\ \A k, n \in Active(reg') : reg'[k].ver = reg'[n].ver
    <3>1. CASE activate
      BY <1>2, <1>4, <1>6, <3>1 DEF Active
    <3>2. CASE ~ activate
      <4>1. Active(reg') = Active(reg)
        <5>1. ~ reg[m].active
          BY <1>0, <1>3 DEF Active
        <5>2. ~ reg'[m].active /\ \A k \in Models : k # m => reg'[k] = reg[k]
          BY <1>2, <3>2
        <5> QED
          BY <5>1, <5>2 DEF Active
      <4>2. \A k \in Active(reg) : k \in Models /\ k # m
        BY <1>0, <1>3 DEF Active
      <4> QED
        BY <1>0, <1>2, <1>4, <1>6, <3>2, <4>1, <4>2 DEF OneActiveVersion
    <3> QED
      BY <3>1, <3>2
  <2> QED
    BY <2>1, <2>2 DEF RegistryInv, OneActiveVersion
<1>8. ASSUME NEW v \in Models, Vouched(v)
      PROVE  Vouched(v)' /\ Entry(reg', v) = Entry(reg, v)
  <2>1. PICK a \in activated \cup chosen : reg[a].ver = v
    BY <1>8 DEF Vouched
  <2>2. a \in Entered(reg) /\ a \in Of(reg, v)
    BY <1>0, <2>1 DEF Entered, Of, Models, None
  <2>3. a # m /\ reg'[a].ver = v
    BY <1>0, <1>2, <1>3, <2>1, <2>2
  <2>4. Of(reg, v) \subseteq Of(reg', v) /\ Of(reg', v) \subseteq Of(reg, v) \cup {m}
    <3>1. m \notin Of(reg, v)
      BY <1>0, <1>3 DEF Of, Entered, Models, None
    <3> QED
      BY <1>2, <3>1 DEF Of
  <2>5. /\ Oldest(Of(reg, v)) \in Of(reg, v) /\ \A k \in Of(reg, v) : Oldest(Of(reg, v)) <= k
        /\ Oldest(Of(reg', v)) \in Of(reg', v) /\ \A k \in Of(reg', v) : Oldest(Of(reg', v)) <= k
    BY <2>2, <2>4, OldestIs DEF Of
  <2>6. \A k \in Of(reg, v) : k \in Nat /\ k < m
    BY <1>0 DEF Of, Entered, Models, None
  <2>7. Oldest(Of(reg', v)) = Oldest(Of(reg, v))
    <3> DEFINE o == Oldest(Of(reg, v))  n == Oldest(Of(reg', v))
    <3>1. o \in Of(reg, v) /\ n \in Of(reg, v) \cup {m} /\ n <= o
      BY <2>4, <2>5
    <3>2. o \in Nat /\ o < m /\ m \in Nat
      BY <1>0, <2>6, <3>1
    <3>3. n # m
      BY <3>1, <3>2
    <3>4. n \in Of(reg, v) /\ n \in Nat /\ o <= n
      BY <2>5, <2>6, <3>1, <3>3
    <3> QED
      BY <3>1, <3>2, <3>4
  <2>8. Of(reg, v) # {} /\ Of(reg', v) # {}
    BY <2>2, <2>4
  <2>9. Entry(reg', v) = Entry(reg, v)
    BY <1>0, <1>2, <2>7, <2>8, EntryIs
  <2> QED
    BY <1>6, <2>1, <2>3, <2>9 DEF Vouched
<1>9. /\ files' \subseteq Models /\ activated' \subseteq Models
      /\ latest' \in OrNone(Models) /\ latest' \in {latest} \cup activated'
      /\ activated \subseteq activated'
  BY <1>0, <1>6 DEF OrNone
<1>10. Cardinality(Entered(reg)) <= Cardinality(Entered(reg'))
  BY <1>0, <1>1, <1>5 DEF Numbered
<1>11. ASSUME NEW v \in Models, v <= Cardinality(Entered(reg))
       PROVE  Of(reg', v) \subseteq Of(reg, v)
  <2>1. reg'[m].ver # v
    BY <1>0, <1>1, <1>2, <1>11 DEF Numbered
  <2> QED
    BY <1>2, <2>1 DEF Of
<1> QED
  BY <1>1, <1>2, <1>5, <1>7, <1>8, <1>9, <1>10, <1>11 DEF RegistryGoesOn

LEMMA ActivatedGoesOn ==
    ASSUME ModelInv, NEW v \in Models,
           reg' = Activated(v), activated' = activated \cup Of(reg, v),
           UNCHANGED << made, files, latest, chosen >>
    PROVE  RegistryGoesOn /\ Cardinality(Entered(reg')) = Cardinality(Entered(reg))
<1>0. /\ Models \subseteq Nat /\ v # None
      /\ reg \in [Models -> Entries] /\ files \subseteq Models
      /\ latest \in OrNone(Models) /\ activated \cup chosen \subseteq Models
      /\ Entered(reg) \cup files \subseteq 1 .. made
  BY BoundsAreNat DEF ModelInv, TypeOK, RegistryInv, Models, None
<1>1. /\ \A k \in Models : reg'[k].ver = reg[k].ver /\ reg'[k].active = (reg[k].ver = v)
      /\ reg' \in [Models -> Entries]
  BY <1>0 DEF Activated, Entries
<1>2. Entered(reg') = Entered(reg) /\ \A w \in Models : Of(reg', w) = Of(reg, w)
  BY <1>1 DEF Entered, Of
<1>3. RegistryInv'
  <2>1. Active(reg') = Of(reg, v) /\ Of(reg, v) \subseteq Entered(reg)
    BY <1>0, <1>1 DEF Active, Of, Entered
  <2>2. \A k \in Of(reg, v) : reg'[k].ver = v
    BY <1>1 DEF Of
  <2> QED
    BY <1>0, <1>2, <2>1, <2>2 DEF RegistryInv, OneActiveVersion
<1>4. Of(reg, v) \subseteq Models
  BY DEF Of
<1>5. \A w \in Models : Vouched(w) => Vouched(w)' /\ Entry(reg', w) = Entry(reg, w)
  BY <1>0, <1>1, <1>2 DEF Vouched, Entry
<1>6. Cardinality(Entered(reg)) <= Cardinality(Entered(reg'))
  BY <1>2, EnteredIsFinite
<1>7. \A w \in Models : Of(reg', w) \subseteq Of(reg, w)
  BY <1>2
<1> QED
  BY <1>0, <1>1, <1>2, <1>3, <1>4, <1>5, <1>6, <1>7 DEF RegistryGoesOn, OrNone

\* Steps that leave registry.json as it is.
LEMMA LeftGoesOn ==
    ASSUME ModelInv, UNCHANGED << reg, files, activated >>, made' \in {made, made + 1},
           latest' \in ({latest} \cup activated \cup chosen') \cap OrNone(Models),
           chosen \subseteq chosen'
    PROVE  RegistryGoesOn
<1>0. /\ reg \in [Models -> Entries] /\ files \subseteq Models /\ activated \subseteq Models
      /\ made \in Nat /\ RegistryInv
  BY BoundsAreNat DEF ModelInv, TypeOK
<1>1. Entered(reg) \cup files \subseteq 1 .. made'
  BY <1>0 DEF RegistryInv
<1>2. RegistryInv'
  BY <1>0, <1>1 DEF RegistryInv, Entered, Active, OneActiveVersion
<1>3. Cardinality(Entered(reg)) <= Cardinality(Entered(reg'))
  BY EnteredIsFinite
<1>4. \A v \in Models : Of(reg', v) = Of(reg, v)
  OBVIOUS
<1> QED
  BY <1>0, <1>2, <1>3, <1>4 DEF RegistryGoesOn, Vouched

-----------------------------------------------------------------------------
(* What the steps within one life of the process have in common.           *)

LEMMA ServingStays ==
    ASSUME ModelInv, RegistryGoesOn, UNCHANGED << served, slot >>,
           strategy' \in {strategy, latest, None}
    PROVE  ServingInv'
<1>0. /\ served.ver \in OrNone(Models) /\ ServingInv
  BY DEF ModelInv, TypeOK, Served
<1>1. Allowed \subseteq Allowed' /\ latest' \in {latest} \cup Allowed'
  BY DEF RegistryGoesOn, Allowed
<1>2. \A v \in Models : Vouched(v) => Vouched(v)' /\ Entry(reg', v) = Entry(reg, v)
  BY DEF RegistryGoesOn
<1>3. {slot', strategy', latest'} \subseteq Allowed'
  BY <1>0, <1>1 DEF ServingInv, Allowed
<1>4. served.ver = None => served.model \in Allowed'
  BY <1>0, <1>1 DEF ServingInv
<1>5. ASSUME served'.ver # None
      PROVE  Vouched(served.ver)' /\ served'.model = Entry(reg', served'.ver)
  BY <1>0, <1>2, <1>5 DEF ServingInv, OrNone, Vouched
<1> QED
  BY <1>3, <1>4, <1>5 DEF ServingInv

\* What an activation is about to copy stays activated.
LEMMA CopiedStays ==
    ASSUME ModelInv, RegistryGoesOn, NEW r \in Runs, runs[r].st = "copying"
    PROVE  Of(reg', runs[r].ver) \subseteq activated'
<1>1. /\ runs[r].ver \in Models /\ runs[r].ver <= Cardinality(Entered(reg))
      /\ Of(reg, runs[r].ver) \subseteq activated
  BY DEF ModelInv, TypeOK, RunsInv, Judging, RunRecs, OrNone
<1> QED
  BY <1>1 DEF RegistryGoesOn

LEMMA RunsStay ==
    ASSUME ModelInv, RegistryGoesOn, UNCHANGED runs
    PROVE  RunsInv'
<1>1. Cardinality(Entered(reg)) <= Cardinality(Entered(reg')) /\ Cardinality(Entered(reg)) \in Nat
  BY EnteredIsFinite, BoundsAreNat DEF RegistryGoesOn, ModelInv, TypeOK
<1>2. Entered(reg)' = Entered(reg') /\ reg' \in [Models -> Entries]
  BY DEF Entered, RegistryGoesOn
<1>3. \A r \in Runs : runs[r].ver \in Nat
  BY BoundsAreNat DEF ModelInv, TypeOK, RunRecs, OrNone, Models, None
<1>4. Cardinality(Entered(reg')) \in Nat
  BY EnteredLater
<1>5. \A r \in Runs : runs[r].st = "copying" => Of(reg', runs[r].ver) \subseteq activated'
  BY CopiedStays
<1> QED
  BY <1>1, <1>2, <1>3, <1>4, <1>5 DEF ModelInv, RunsInv, RunsNumberedApart

\* One run goes on; it keeps its version or, when it begins, has none.
LEMMA RunMoves ==
    ASSUME ModelInv, RegistryGoesOn, NEW r \in Runs, NEW x \in RunRecs,
           runs' = [runs EXCEPT ![r] = x],
           x.st # "none", x.ver \in {None, runs[r].ver}, x.st \in Judging => x.ver # None,
           x.st = "copying" => Of(reg', x.ver) \subseteq activated'
    PROVE  RunsInv' /\ runs' \in [Runs -> RunRecs]
<1>0. runs \in [Runs -> RunRecs] /\ RunsInv
  BY DEF ModelInv, TypeOK
<1>1. /\ Cardinality(Entered(reg)) <= Cardinality(Entered(reg'))
      /\ Cardinality(Entered(reg)) \in Nat /\ Cardinality(Entered(reg')) \in Nat
  BY EnteredIsFinite, EnteredLater, BoundsAreNat DEF RegistryGoesOn, ModelInv, TypeOK
<1>2. /\ runs'[r] = x /\ \A q \in Runs : q # r => runs'[q] = runs[q]
      /\ runs' \in [Runs -> RunRecs]
  BY <1>0
<1>3. \A q \in Runs : runs[q].ver \in Nat /\ x.ver \in Nat
  BY <1>0, BoundsAreNat DEF RunRecs, OrNone, Models, None
<1>4. RunsNumberedApart'
  BY <1>0, <1>2 DEF RunsInv, RunsNumberedApart
<1>5. ASSUME NEW q \in Runs
      PROVE  /\ runs'[q].st = "none" => runs'[q] = NoRun
             /\ runs'[q].ver <= Cardinality(Entered(reg'))
             /\ runs'[q].st \in Judging => runs'[q].ver # None
             /\ runs'[q].st = "copying" => Of(reg', runs'[q].ver) \subseteq activated'
  BY <1>0, <1>1, <1>2, <1>3, CopiedStays DEF RunsInv, None
<1> QED
  BY <1>2, <1>4, <1>5 DEF RunsInv

\* The parts of the state the invariant says no more of than their type.
OtherTypes ==
    /\ made \in 0 .. MaxModels /\ sound \subseteq Models
    /\ lineage \in [Models -> Records]
    /\ current \in OrNone(Runs)
    /\ writing \in Writers
    /\ served \in Served /\ swaps \subseteq Models /\ {slot, strategy} \subseteq OrNone(Models)
    /\ flags \in Flags /\ changes \in Changes
    /\ commands \in 0 .. MaxCommands /\ redeploys \in 0 .. MaxRedeploys
    /\ chosen \subseteq Models

LEMMA TypesApart ==
    ASSUME RegistryGoesOn, OtherTypes', runs' \in [Runs -> RunRecs]
    PROVE  TypeOK'
BY DEF RegistryGoesOn, OtherTypes, TypeOK

LEMMA TypesKnown ==
    ASSUME ModelInv
    PROVE  /\ OtherTypes /\ runs \in [Runs -> RunRecs] /\ latest \in OrNone(Models)
           /\ \A r \in Runs : runs[r] \in RunRecs
BY DEF ModelInv, TypeOK, OtherTypes

LEMMA RunStarts ==
    ASSUME ModelInv, RegistryGoesOn, NEW r, NEW scheduled \in BOOLEAN, Started(r, scheduled)
    PROVE  RunsInv' /\ runs' \in [Runs -> RunRecs] /\ current' \in OrNone(Runs)
<1>1. r \in Runs /\ current' = r
  BY DEF Started, NextRun
<1> DEFINE x == [NoRun EXCEPT !.st = "idle", !.scheduled = scheduled]
<1>2. runs' = [runs EXCEPT ![r] = x]
  BY DEF Started
<1>3. x \in RunRecs
  BY DEF NoRun, RunRecs, Status, OrNone
<1>4. x.st = "idle" /\ x.ver = None
  BY DEF NoRun
<1> HIDE DEF x
<1> QED
  BY <1>1, <1>2, <1>3, <1>4, RunMoves DEF OrNone, Judging

LEMMA TrainKeeps ==
    ASSUME ModelInv, NEW r \in Runs, NEW scheduled \in BOOLEAN, Train(r, scheduled)
    PROVE  ModelInv'
<1>1. RegistryGoesOn
  BY LeftGoesOn, TypesKnown DEF Train, registryVars
<1>2. RunsInv' /\ runs' \in [Runs -> RunRecs] /\ current' \in OrNone(Runs)
  BY <1>1, RunStarts DEF Train
<1>3. OtherTypes'
  BY <1>2, TypesKnown DEF Train, OtherTypes, registryVars, serveVars,
         loopVars, counters
<1>4. ServingInv'
  BY <1>1, ServingStays DEF Train, serveVars, loopVars
<1> QED
  BY <1>1, <1>2, <1>3, <1>4, TypesApart DEF ModelInv, RegistryGoesOn

LEMMA BeginOrFailKeeps ==
    ASSUME ModelInv, NEW r \in Runs, Begin(r) \/ RunFails(r)
    PROVE  ModelInv'
<1>1. RegistryGoesOn
  BY LeftGoesOn, TypesKnown DEF Begin, RunFails, registryVars
<1>2. PICK p \in {"working", "failed"} : runs' = [runs EXCEPT ![r] = [runs[r] EXCEPT !.st = p]]
  BY DEF Begin, RunFails
<1> DEFINE x == [runs[r] EXCEPT !.st = p]
<1>3. x \in RunRecs /\ x.st = p /\ x.ver = runs[r].ver
  BY TypesKnown DEF RunRecs, Status
<1> HIDE DEF x
<1>4. RunsInv' /\ runs' \in [Runs -> RunRecs]
  BY <1>1, <1>2, <1>3, RunMoves DEF x, Judging
<1>5. OtherTypes'
  BY TypesKnown DEF Begin, RunFails, OtherTypes, registryVars, serveVars,
         loopVars, counters
<1>6. ServingInv'
  BY <1>1, ServingStays DEF Begin, RunFails, serveVars, loopVars
<1> QED
  BY <1>1, <1>4, <1>5, <1>6, TypesApart DEF ModelInv, RegistryGoesOn

LEMMA RegisterKeeps ==
    ASSUME ModelInv, NEW r \in Runs, Register(r)
    PROVE  ModelInv'
<1>0. /\ made < MaxModels /\ made' = made + 1 /\ SaveVersion(made + 1, FALSE)
      /\ chosen \subseteq chosen'
  BY DEF Register
<1>1. /\ RegistryGoesOn
      /\ Numbered(reg) \in Models
      /\ Cardinality(Entered(reg')) = Numbered(reg)
  BY <1>0, SavedGoesOn
<1> DEFINE x == [runs[r] EXCEPT !.st = "validating", !.model = made + 1, !.ver = Numbered(reg)]
<1>2. made + 1 \in Models
  BY <1>0, TypesKnown, BoundsAreNat DEF OtherTypes, Models
<1>3. x \in RunRecs /\ x.st = "validating" /\ x.ver = Numbered(reg)
  BY <1>1, <1>2, TypesKnown DEF RunRecs, Status, OrNone
<1>4. runs' = [runs EXCEPT ![r] = x]
  BY DEF Register
<1> HIDE DEF x
<1>5. /\ runs' \in [Runs -> RunRecs] /\ runs'[r] = x
      /\ \A q \in Runs : q # r => runs'[q] = runs[q]
  BY <1>3, <1>4, TypesKnown
<1>6. RunsInv'
  <2>1. Cardinality(Entered(reg)) \in Nat /\ Numbered(reg) = Cardinality(Entered(reg)) + 1
    BY EnteredIsFinite, BoundsAreNat DEF ModelInv, TypeOK, Numbered
  <2>2. \A q \in Runs : runs[q].ver \in Nat /\ runs[q].ver <= Cardinality(Entered(reg))
    BY TypesKnown, BoundsAreNat DEF ModelInv, RunsInv, RunRecs, OrNone, Models, None
  <2>3. \A q \in Runs : q # r => runs'[q].ver # Numbered(reg)
    BY <1>5, <2>1, <2>2
  <2>4. RunsNumberedApart'
    BY <1>3, <1>5, <2>3 DEF ModelInv, RunsInv, RunsNumberedApart
  <2>5. ASSUME NEW q \in Runs
        PROVE  /\ runs'[q].st = "none" => runs'[q] = NoRun
               /\ runs'[q].ver <= Cardinality(Entered(reg'))
               /\ runs'[q].st \in Judging => runs'[q].ver # None
               /\ runs'[q].st = "copying" => Of(reg', runs'[q].ver) \subseteq activated'
    <3>1. CASE q = r
      BY <1>1, <1>3, <1>5, <2>1, <3>1 DEF None
    <3>2. CASE q # r
      BY <1>1, <1>5, <2>1, <2>2, <3>2, CopiedStays DEF ModelInv, RunsInv
    <3> QED
      BY <3>1, <3>2
  <2> QED
    BY <2>4, <2>5 DEF RunsInv
<1>7. OtherTypes'
  <2>1. made' \in 0 .. MaxModels
    BY <1>0, TypesKnown, BoundsAreNat DEF OtherTypes
  <2>2. sound' \subseteq Models
    BY <1>2, TypesKnown DEF Register, Outcomes, OtherTypes
  <2> QED
    BY <2>1, <2>2, TypesKnown DEF Register, OtherTypes, registryVars, serveVars,
         loopVars, counters
<1>8. ServingInv'
  BY <1>1, ServingStays DEF Register, serveVars, loopVars
<1> QED
  BY <1>1, <1>5, <1>6, <1>7, <1>8, TypesApart DEF ModelInv, RegistryGoesOn

LEMMA FinishTypes ==
    ASSUME ModelInv, NEW r, Finish(r) \/ UNCHANGED flags
    PROVE  flags' \in Flags
BY TypesKnown DEF OtherTypes, Finish, Flags

LEMMA JudgeKeeps ==
    ASSUME ModelInv, NEW r \in Runs, Judge(r)
    PROVE  ModelInv'
<1>1. RegistryGoesOn
  BY LeftGoesOn, TypesKnown DEF Judge, registryVars
<1>2. PICK p \in {"deploying", "completed"} :
        runs' = [runs EXCEPT ![r] = [runs[r] EXCEPT !.st = p]]
  BY DEF Judge
<1> DEFINE x == [runs[r] EXCEPT !.st = p]
<1>3. x \in RunRecs /\ x.st = p /\ x.ver = runs[r].ver
  BY TypesKnown DEF RunRecs, Status
<1>4. runs[r].ver \in Models /\ runs[r].model \in OrNone(Models) /\ runs[r].ver # None
  BY TypesKnown DEF Judge, ModelInv, RunsInv, Judging, RunRecs, OrNone
<1> HIDE DEF x
<1>5. RunsInv' /\ runs' \in [Runs -> RunRecs]
  BY <1>1, <1>2, <1>3, <1>4, RunMoves DEF x, Judging
<1>6. OtherTypes'
  <2>1. lineage' \in [Models -> Records]
    <3>1. lineage \in [Models -> Records]
      BY TypesKnown DEF OtherTypes
    <3>2. [NoRecord EXCEPT !.model = runs[r].model] \in Records
      BY <1>4 DEF NoRecord, Records
    <3> QED
      BY <1>4, <3>1, <3>2 DEF Judge, Recorded
  <2>2. flags' \in Flags
    BY FinishTypes DEF Judge
  <2> QED
    BY <2>1, <2>2, TypesKnown DEF Judge, OtherTypes, registryVars, serveVars,
         loopVars, counters
<1>7. ServingInv'
  BY <1>1, ServingStays DEF Judge, serveVars, loopVars
<1> QED
  BY <1>1, <1>5, <1>6, <1>7, TypesApart DEF ModelInv, RegistryGoesOn

LEMMA DeployKeeps ==
    ASSUME ModelInv, NEW r \in Runs, Deploy(r)
    PROVE  ModelInv'
<1>1. RegistryGoesOn
  BY LeftGoesOn, TypesKnown DEF Deploy, registryVars
<1> DEFINE x == [runs[r] EXCEPT !.st = "activating"]
<1>2. x \in RunRecs /\ x.st = "activating" /\ x.ver = runs[r].ver
  BY TypesKnown DEF RunRecs, Status
<1>3. runs[r].ver # None
  BY DEF Deploy, ModelInv, RunsInv, Judging
<1>4. runs' = [runs EXCEPT ![r] = x]
  BY DEF Deploy
<1> HIDE DEF x
<1>5. RunsInv' /\ runs' \in [Runs -> RunRecs]
  BY <1>1, <1>2, <1>3, <1>4, RunMoves
<1>6. OtherTypes'
  <2>1. lineage' \in [Models -> Records]
    BY TypesKnown DEF OtherTypes, Deploy, Records
  <2> QED
    BY <2>1, TypesKnown DEF Deploy, OtherTypes, registryVars, serveVars,
         loopVars, counters
<1>7. ServingInv'
  BY <1>1, ServingStays DEF Deploy, serveVars, loopVars
<1> QED
  BY <1>1, <1>5, <1>6, <1>7, TypesApart DEF ModelInv, RegistryGoesOn

\* The file that a version is found by exists only for a model of the registry.
LEMMA FoundOnDisk ==
    ASSUME ModelInv, NEW v \in OrNone(Models), Entry(reg, v) \in files
    PROVE  v \in Models /\ Of(reg, v) # {} /\ Entry(reg, v) \in Of(reg, v)
<1>1. files \subseteq Models /\ reg \in [Models -> Entries] /\ None \notin Models
  BY BoundsAreNat DEF ModelInv, TypeOK, Models, None
<1>2. Entry(reg, v) # None
  BY <1>1
<1>3. v # None /\ Of(reg, v) # {}
  BY <1>2 DEF Entry
<1> QED
  BY <1>1, <1>3, EntryIs DEF OrNone

LEMMA ActivateKeeps ==
    ASSUME ModelInv, NEW r \in Runs, Activate(r)
    PROVE  ModelInv'
<1> DEFINE v == runs[r].ver
           x == [runs[r] EXCEPT !.st = "copying"]
<1>0. v \in Models /\ v # None
  BY TypesKnown DEF Activate, ModelInv, RunsInv, Judging, RunRecs, OrNone
<1>1. RegistryGoesOn
  BY <1>0, ActivatedGoesOn DEF Activate
<1>2. x \in RunRecs /\ x.st = "copying" /\ x.ver = v
  BY TypesKnown DEF RunRecs, Status
<1>3. Of(reg', v) \subseteq activated'
  <2>1. Of(reg', v) \subseteq Of(reg, v)
    BY DEF Activate, Activated, Of, ModelInv, TypeOK, Entries
  <2> QED
    BY <2>1 DEF Activate
<1>4. runs' = [runs EXCEPT ![r] = x]
  BY DEF Activate
<1> HIDE DEF x
<1>5. RunsInv' /\ runs' \in [Runs -> RunRecs]
  BY <1>0, <1>1, <1>2, <1>3, <1>4, RunMoves
<1>6. OtherTypes'
  BY TypesKnown DEF Activate, OtherTypes, serveVars, loopVars, counters
<1>7. ServingInv'
  BY <1>1, ServingStays DEF Activate, serveVars, loopVars
<1> QED
  BY <1>1, <1>5, <1>6, <1>7, TypesApart DEF ModelInv, RegistryGoesOn

LEMMA CopyLatestKeeps ==
    ASSUME ModelInv, NEW r \in Runs, CopyLatest(r)
    PROVE  ModelInv'
<1> DEFINE v == runs[r].ver
           x == [runs[r] EXCEPT !.st = "completed", !.auto = TRUE]
<1>0. v \in OrNone(Models) /\ Of(reg, v) \subseteq activated /\ Of(reg, v) \subseteq Models
  BY TypesKnown DEF CopyLatest, ModelInv, RunsInv, RunRecs, Of
<1>1. RegistryGoesOn
  <2>1. CASE Entry(reg, v) \in files
    BY <1>0, <2>1, FoundOnDisk, LeftGoesOn DEF CopyLatest, OrNone
  <2>2. CASE Entry(reg, v) \notin files
    BY <2>2, TypesKnown, LeftGoesOn DEF CopyLatest
  <2> QED
    BY <2>1, <2>2
<1>2. x \in RunRecs /\ x.st = "completed" /\ x.ver = v
  BY TypesKnown DEF RunRecs, Status
<1>4. runs' = [runs EXCEPT ![r] = x]
  BY DEF CopyLatest
<1> HIDE DEF x
<1>5. RunsInv' /\ runs' \in [Runs -> RunRecs]
  BY <1>1, <1>2, <1>4, RunMoves DEF Judging
<1>6. OtherTypes'
  BY FinishTypes, TypesKnown DEF CopyLatest, OtherTypes, serveVars, counters
<1>7. ServingInv'
  BY <1>1, ServingStays DEF CopyLatest, serveVars
<1> QED
  BY <1>1, <1>5, <1>6, <1>7, TypesApart DEF ModelInv, RegistryGoesOn

\* Loading what the registry has under a version of an activated or chosen model.
LEMMA LoadKeeps ==
    ASSUME ModelInv, NEW v \in Models, Load(v), chosen \subseteq chosen',
           NEW a \in activated \cup chosen', reg[a].ver = v,
           UNCHANGED << reg, files, latest, activated, slot, strategy, runs, made >>
    PROVE  RegistryInv' /\ RunsInv' /\ ServingInv' /\ served' \in Served
<1>0. None \notin Models /\ ServingInv
  BY BoundsAreNat DEF Models, None, ModelInv
<1>1. served'.ver = v /\ served'.model = Entry(reg, v)
  BY DEF Load
<1>2. Entry(reg, v) \in OrNone(Models)
  <2>1. CASE Of(reg, v) = {}
    BY <2>1 DEF Entry, OrNone
  <2>2. CASE Of(reg, v) # {}
    BY <2>2, EntryIs DEF ModelInv, TypeOK, Of, OrNone
  <2> QED
    BY <2>1, <2>2
<1>3. RegistryInv' /\ RunsInv'
  BY DEF ModelInv, RegistryInv, RunsInv, RunsNumberedApart, OneActiveVersion, Entered, Active
<1>4. {slot, strategy, latest}' \subseteq Allowed'
  BY <1>0 DEF ServingInv, Allowed
<1>6. ServingInv'
  BY <1>0, <1>1, <1>4 DEF ServingInv, Vouched
<1> QED
  BY <1>2, <1>3, <1>6 DEF Load, Served, OrNone

LEMMA ActiveIsVouched ==
    ASSUME ModelInv, ActiveVersion(reg) # None
    PROVE  ActiveVersion(reg) \in Models /\ Vouched(ActiveVersion(reg))
<1>1. Active(reg) # {} /\ reg \in [Models -> Entries]
  BY DEF ActiveVersion, ModelInv, TypeOK
<1>2. /\ Newest(Active(reg)) \in Active(reg)
      /\ ActiveVersion(reg) = reg[Newest(Active(reg))].ver
  BY <1>1, ActiveVersionIs
<1>3. Newest(Active(reg)) \in activated /\ Newest(Active(reg)) \in Models
  BY <1>2 DEF ModelInv, RegistryInv, Active
<1> QED
  BY <1>1, <1>2, <1>3 DEF Vouched, Entries, OrNone

LEMMA WatchKeeps ==
    ASSUME ModelInv, Watch
    PROVE  ModelInv'
<1> DEFINE v == ActiveVersion(reg)
<1>1. v \in Models /\ Vouched(v) /\ Load(v)
  BY ActiveIsVouched DEF Watch
<1> HIDE DEF v
<1>2. PICK a \in activated \cup chosen : reg[a].ver = v
  BY <1>1 DEF Vouched
<1>3. RegistryInv' /\ RunsInv' /\ ServingInv' /\ served' \in Served
  BY <1>1, <1>2, LoadKeeps DEF Watch, registryVars, loopVars
<1> QED
  BY <1>3 DEF Watch, ModelInv, TypeOK, registryVars, loopVars, counters

LEMMA SwapPredictorKeeps ==
    ASSUME ModelInv, SwapPredictor
    PROVE  ModelInv'
<1>1. PICK v \in swaps :
        /\ swaps' = swaps \ {v}
        /\ \/ /\ Entry(reg, v) \in files
              /\ Load(v)
              /\ chosen' = chosen \cup {Entry(reg, v)}
           \/ UNCHANGED << served, chosen >>
        /\ UNCHANGED << made, sound, registryVars, lineage, runs, current, loopVars,
                        counters >>
  BY DEF SwapPredictor
<1>2. v \in Models /\ swaps' \subseteq Models
  BY <1>1 DEF ModelInv, TypeOK
<1>3. RegistryInv' /\ RunsInv' /\ ServingInv' /\ served' \in Served /\ chosen' \subseteq Models
  <2>1. CASE /\ Entry(reg, v) \in files /\ Load(v)
             /\ chosen' = chosen \cup {Entry(reg, v)}
    <3>1. Entry(reg, v) \in Of(reg, v)
      BY <1>2, <2>1, FoundOnDisk DEF OrNone
    <3>2. Entry(reg, v) \in Models /\ reg[Entry(reg, v)].ver = v
      BY <3>1 DEF Of
    <3>3. Entry(reg, v) \in activated \cup chosen'
      BY <2>1
    <3>4. chosen' \subseteq Models
      BY <2>1, <3>2 DEF ModelInv, TypeOK
    <3> QED
      BY <1>1, <1>2, <2>1, <3>2, <3>3, <3>4, LoadKeeps DEF registryVars, loopVars
  <2>2. CASE UNCHANGED << served, chosen >>
    <3>1. RegistryGoesOn
      BY <1>1, <2>2, LeftGoesOn, TypesKnown DEF registryVars
    <3>2. RunsInv' /\ ServingInv'
      BY <1>1, <2>2, <3>1, RunsStay, ServingStays DEF loopVars
    <3> QED
      BY <2>2, <3>1, <3>2 DEF RegistryGoesOn, ModelInv, TypeOK
  <2> QED
    BY <1>1, <2>1, <2>2
<1> QED
  BY <1>1, <1>2, <1>3 DEF ModelInv, TypeOK, registryVars, loopVars, counters

LEMMA CommandCounts ==
    ASSUME ModelInv, Commanded
    PROVE  commands' \in 0 .. MaxCommands /\ redeploys' \in 0 .. MaxRedeploys
BY TypesKnown, BoundsAreNat DEF Commanded, OtherTypes

LEMMA RollbackGoesOn ==
    ASSUME ModelInv, NEW v \in Models, NEW by \in {"rollback", "swap"}, Rollback(v, by),
           UNCHANGED << made, reg, files, activated >>
    PROVE  RegistryGoesOn /\ writing' \in Writers /\ chosen' \subseteq Models
<1>1. Entry(reg, v) \in Models
  BY FoundOnDisk DEF Rollback, OrNone, Of
<1>2. RegistryGoesOn
  BY <1>1, LeftGoesOn DEF Rollback, OrNone
<1> QED
  BY <1>1, <1>2, TypesKnown DEF Rollback, Writers, OtherTypes

LEMMA RollbackCommandKeeps ==
    ASSUME ModelInv, NEW v \in Models, RollbackCommand(v)
    PROVE  ModelInv'
<1>1. RegistryGoesOn /\ writing' \in Writers /\ chosen' \subseteq Models
  BY RollbackGoesOn DEF RollbackCommand
<1>2. RunsInv' /\ ServingInv'
  BY <1>1, RunsStay, ServingStays DEF RollbackCommand, serveVars, loopVars
<1>3. OtherTypes' /\ runs' \in [Runs -> RunRecs]
  <2>1. commands' \in 0 .. MaxCommands /\ redeploys' \in 0 .. MaxRedeploys
    BY CommandCounts DEF RollbackCommand
  <2> QED
    BY <1>1, <2>1, TypesKnown DEF RollbackCommand, OtherTypes, serveVars, loopVars
<1> QED
  BY <1>1, <1>2, <1>3, TypesApart DEF ModelInv, RegistryGoesOn

LEMMA SwapRegistryKeeps ==
    ASSUME ModelInv, NEW v \in Models, SwapRegistry(v)
    PROVE  ModelInv'
<1>1. /\ RegistryGoesOn /\ writing' \in Writers /\ chosen' \subseteq Models
      /\ swaps' \subseteq Models
  <2>1. CASE Rollback(v, "swap") /\ UNCHANGED swaps
    BY <2>1, RollbackGoesOn, TypesKnown DEF SwapRegistry, OtherTypes
  <2>2. CASE swaps' = swaps \cup {v} /\ UNCHANGED << latest, chosen, writing >>
    BY <2>2, LeftGoesOn, TypesKnown DEF SwapRegistry, OtherTypes
  <2> QED
    BY <2>1, <2>2 DEF SwapRegistry
<1>2. RunsInv' /\ ServingInv'
  BY <1>1, RunsStay, ServingStays DEF SwapRegistry, loopVars
<1>3. OtherTypes' /\ runs' \in [Runs -> RunRecs]
  <2>1. commands' \in 0 .. MaxCommands /\ redeploys' \in 0 .. MaxRedeploys
    BY CommandCounts DEF SwapRegistry
  <2> QED
    BY <1>1, <2>1, TypesKnown DEF SwapRegistry, OtherTypes, loopVars
<1> QED
  BY <1>1, <1>2, <1>3, TypesApart DEF ModelInv, RegistryGoesOn

LEMMA RollbackSaveKeeps ==
    ASSUME ModelInv, RollbackSave
    PROVE  ModelInv'
<1> DEFINE v == writing.ver
<1>1. v \in Models
  BY TypesKnown DEF RollbackSave, OtherTypes, Writers
<1>2. /\ RegistryGoesOn
      /\ flags' \in Flags /\ swaps' \subseteq Models
  <2>1. CASE /\ reg' = Activated(v)
             /\ activated' = activated \cup Of(reg, v)
             /\ flags' = IF writing.by = "rollback" THEN [flags EXCEPT !.reload = TRUE]
                         ELSE flags
             /\ swaps' = IF writing.by = "swap" THEN swaps \cup {v} ELSE swaps
    BY <1>1, <2>1, ActivatedGoesOn, TypesKnown DEF RollbackSave, OtherTypes, Flags
  <2>2. CASE UNCHANGED << reg, activated, flags, swaps >>
    BY <2>2, LeftGoesOn, TypesKnown DEF RollbackSave, OtherTypes
  <2> QED
    BY <2>1, <2>2 DEF RollbackSave
<1>3. RunsInv' /\ ServingInv'
  BY <1>2, RunsStay, ServingStays DEF RollbackSave
<1>4. OtherTypes' /\ runs' \in [Runs -> RunRecs]
  BY <1>2, TypesKnown DEF RollbackSave, OtherTypes, Writers, counters
<1> QED
  BY <1>2, <1>3, <1>4, TypesApart DEF ModelInv, RegistryGoesOn

LEMMA TrainCommandKeeps ==
    ASSUME ModelInv, TrainCommand
    PROVE  ModelInv'
<1>0. /\ made < MaxModels /\ made' = made + 1 /\ chosen' = chosen \cup {made + 1}
      /\ made + 1 \in Models /\ made' \in 0 .. MaxModels
  BY TypesKnown, BoundsAreNat DEF TrainCommand, OtherTypes, Models
<1>1. RegistryGoesOn
  <2>1. CASE SaveVersion(made + 1, TRUE)
    BY <1>0, <2>1, SavedGoesOn, Zenon
  <2>2. CASE latest' = made + 1 /\ UNCHANGED << reg, files, activated >>
    BY <1>0, <2>2, LeftGoesOn DEF OrNone
  <2> QED
    BY <2>1, <2>2 DEF TrainCommand
<1>2. RunsInv' /\ ServingInv'
  BY <1>0, <1>1, RunsStay, ServingStays DEF TrainCommand, serveVars
<1>3. OtherTypes' /\ runs' \in [Runs -> RunRecs]
  <2>1. flags' \in Flags /\ chosen' \subseteq Models
    BY <1>0, TypesKnown DEF TrainCommand, OtherTypes, Flags
  <2>2. commands' \in 0 .. MaxCommands /\ redeploys' \in 0 .. MaxRedeploys
    BY CommandCounts DEF TrainCommand
  <2> QED
    BY <1>0, <2>1, <2>2, TypesKnown DEF TrainCommand, OtherTypes, serveVars
<1> QED
  BY <1>1, <1>2, <1>3, TypesApart DEF ModelInv, RegistryGoesOn

LEMMA LoopKeeps ==
    ASSUME ModelInv, Loop
    PROVE  ModelInv'
<1>1. RegistryGoesOn
  BY LeftGoesOn, TypesKnown DEF Loop, LoopRead, LoopApply, LoopScheduled, registryVars
<1>2. ServingInv'
  BY <1>1, ServingStays DEF Loop, LoopRead, LoopApply, LoopScheduled, Loaded, serveVars
<1>3. RunsInv' /\ runs' \in [Runs -> RunRecs] /\ current' \in OrNone(Runs)
  <2>1. CASE UNCHANGED << runs, current >>
    BY <1>1, <2>1, RunsStay, TypesKnown DEF OtherTypes
  <2>2. ASSUME NEW r \in Runs, Started(r, FALSE)
        PROVE  RunsInv' /\ runs' \in [Runs -> RunRecs] /\ current' \in OrNone(Runs)
    BY <1>1, <2>2, RunStarts
  <2> QED
    BY <2>1, <2>2 DEF Loop, LoopRead, LoopApply, LoopScheduled
<1>4. flags' \in Flags /\ changes' \in Changes /\ strategy' \in OrNone(Models)
  <2>1. CASE LoopRead
    BY <2>1, TypesKnown DEF LoopRead, OtherTypes, Flags, Changes
  <2>2. CASE LoopApply
    BY <2>2, TypesKnown DEF LoopApply, Loaded, OtherTypes, NoChange, Changes, OrNone
  <2>3. CASE LoopScheduled
    BY <2>3, TypesKnown DEF LoopScheduled, Loaded, OtherTypes, Flags, OrNone
  <2> QED
    BY <2>1, <2>2, <2>3 DEF Loop
<1>5. OtherTypes'
  BY <1>3, <1>4, TypesKnown DEF Loop, LoopRead, LoopApply, LoopScheduled, OtherTypes,
                                registryVars, serveVars, loopVars, counters
<1> QED
  BY <1>1, <1>2, <1>3, <1>5, TypesApart DEF ModelInv, RegistryGoesOn

-----------------------------------------------------------------------------
(* A redeployment.                                                         *)

\* What registry.json may hold when n models were trained.
WellKept(R, n) ==
    /\ R \in [Models -> Entries]
    /\ Entered(R) \subseteq 1 .. n
    /\ Active(R) \subseteq Entered(R)
    /\ \A m, k \in Active(R) : R[m].ver = R[k].ver

LEMMA NewestAlone ==
    ASSUME NEW R \in [Models -> Entries], NEW S \in SUBSET Models, NEW n,
           S \subseteq 1 .. n, Entered(R) = S,
           \A m \in S : R[m].active = (m = Newest(S)),
           \A m \in Models \ S : R[m].active = FALSE
    PROVE  WellKept(R, n)
BY DEF WellKept, Active

LEMMA RecoveredIs ==
    ASSUME NEW F \in SUBSET Models, NEW n, F \subseteq 1 .. n
    PROVE  WellKept(Recovered(F), n)
<1> DEFINE R == Recovered(F)  c(m) == Cardinality({k \in F : k <= m})
<1>1. ASSUME NEW m \in F PROVE c(m) \in 1 .. MaxModels
  <2>1. {k \in F : k <= m} \subseteq 1 .. MaxModels /\ m \in {k \in F : k <= m}
    <3>1. F \subseteq 1 .. MaxModels /\ m \in 1 .. MaxModels
      BY DEF Models
    <3>2. m \in F /\ m <= m
      BY <1>1, <3>1, BoundsAreNat
    <3> QED
      BY <3>1, <3>2
  <2>2. /\ IsFiniteSet(1 .. MaxModels) /\ Cardinality(1 .. MaxModels) = MaxModels
    BY FS_Interval, BoundsAreNat
  <2>3. /\ IsFiniteSet({k \in F : k <= m}) /\ c(m) <= MaxModels /\ c(m) \in Nat
    BY <2>1, <2>2, FS_Subset, FS_CardinalityType
  <2>4. c(m) # 0
    BY <2>1, <2>3, FS_EmptySet
  <2> QED
    BY <2>3, <2>4, BoundsAreNat
<1>2. /\ R \in [Models -> Entries]
      /\ \A m \in F : R[m].ver = c(m) /\ R[m].active = (m = Newest(F))
      /\ \A m \in Models \ F : R[m].ver = None /\ R[m].active = FALSE
  <2> HIDE DEF c
  <2>1. R = [m \in Models |-> IF m \in F THEN [ver |-> c(m), active |-> m = Newest(F)]
                             ELSE NoEntry]
    BY DEF Recovered, c
  <2>2. \A m \in F : [ver |-> c(m), active |-> m = Newest(F)] \in Entries
    BY <1>1 DEF Entries, OrNone, Models
  <2>3. NoEntry \in Entries
    BY DEF NoEntry, Entries, OrNone
  <2> HIDE DEF R
  <2> QED
    BY <2>1, <2>2, <2>3 DEF NoEntry
<1>3. Entered(R) = F
  <2> HIDE DEF c, R
  <2>1. \A m \in F : R[m].ver # None
    BY <1>1, <1>2, BoundsAreNat DEF None
  <2> QED
    BY <1>2, <2>1 DEF Entered
<1> HIDE DEF R
<1> QED
  BY <1>2, <1>3, NewestAlone DEF R

LEMMA PrunedIs ==
    ASSUME NEW R, NEW F \in SUBSET Models, NEW n, WellKept(R, n)
    PROVE  WellKept(Pruned(R, F), n)
<1> DEFINE K == Entered(R) \cap F
           P == Pruned(R, F)
<1>1. K \subseteq Models /\ K \subseteq 1 .. n /\ R \in [Models -> Entries]
  BY DEF WellKept
<1>2. P = [m \in Models |-> IF m \in K THEN [ver |-> R[m].ver, active |-> m = Newest(K)]
                           ELSE NoEntry]
  BY DEF Pruned
<1>3. \A m \in K : R[m].ver # None /\ R[m].ver \in OrNone(Models)
  BY <1>1 DEF Entered, Entries
<1> HIDE DEF K, P
<1>4. /\ P \in [Models -> Entries]
      /\ \A m \in K : P[m].ver = R[m].ver /\ P[m].active = (m = Newest(K))
      /\ \A m \in Models \ K : P[m].ver = None /\ P[m].active = FALSE
  BY <1>1, <1>2, <1>3 DEF NoEntry, Entries, OrNone
<1>5. Entered(P) = K
  BY <1>1, <1>3, <1>4 DEF Entered
<1>6. WellKept(P, n)
  <2>1. /\ \A m \in K : P[m].active = (m = Newest(K))
        /\ \A m \in Models \ K : P[m].active = FALSE
    BY <1>4
  <2>2. K \in SUBSET Models /\ P \in [Models -> Entries]
    BY <1>1, <1>4
  <2> QED
    BY <1>1, <1>5, <2>1, <2>2, NewestAlone
<1> QED
  BY <1>6 DEF P

LEMMA RedeployKeeps ==
    ASSUME ModelInv, NEW F \in SUBSET files, NEW manifest \in BOOLEAN, Redeploy(F, manifest)
    PROVE  ModelInv'
<1> DEFINE R == IF manifest THEN reg ELSE Recovered(F)
           v == ActiveVersion(R)
           m == Entry(R, v)
           last == IF F = {} THEN None ELSE latest
           kept == IF v = None \/ m \in F THEN R ELSE Pruned(R, F)
<1>1. /\ F \subseteq Models /\ F \subseteq 1 .. made /\ None \notin Models
      /\ TypeOK /\ ServingInv
  BY BoundsAreNat DEF ModelInv, TypeOK, RegistryInv, Models, None
<1>2. WellKept(R, made)
  <2>1. CASE manifest
    BY <2>1 DEF WellKept, ModelInv, TypeOK, RegistryInv, OneActiveVersion
  <2>2. CASE ~ manifest
    BY <1>1, <2>2, RecoveredIs
  <2> QED
    BY <2>1, <2>2
<1>3. WellKept(kept, made)
  BY <1>1, <1>2, PrunedIs
<1>4. /\ files' = F /\ latest' = last /\ reg' = kept
      /\ activated' = activated \cup Active(kept)
      /\ served' = IF m \in F THEN [ver |-> v, model |-> m] ELSE [ver |-> None, model |-> last]
      /\ slot' \in {last, None} /\ strategy' = slot' /\ writing' = NoWriter
      /\ runs' = [r \in Runs |-> IF runs[r].st = "none" THEN runs[r]
                                ELSE [NoRun EXCEPT !.st = "failed"]]
      /\ current' = None /\ swaps' = {}
      /\ flags' = [reload |-> FALSE, train |-> FALSE, scheduled |-> FALSE]
      /\ changes' = NoChange
      /\ UNCHANGED << made, sound, lineage, commands, chosen >>
      /\ redeploys < MaxRedeploys /\ redeploys' = redeploys + 1
  BY DEF Redeploy
<1> HIDE DEF R, kept
<1>5. RegistryInv'
  BY <1>1, <1>3, <1>4 DEF RegistryInv, WellKept, OneActiveVersion
<1>6. RunsInv' /\ runs' \in [Runs -> RunRecs]
  <2>1. [NoRun EXCEPT !.st = "failed"] \in RunRecs
    BY DEF NoRun, RunRecs, Status, OrNone
  <2>2. /\ [NoRun EXCEPT !.st = "failed"].ver = None /\ NoRun.ver = None /\ NoRun.st = "none"
        /\ [NoRun EXCEPT !.st = "failed"].st = "failed"
    BY DEF NoRun
  <2>3. \A r \in Runs : runs[r].st = "none" => runs[r] = NoRun
    BY DEF ModelInv, RunsInv
  <2>4. \A r \in Runs : runs'[r] = NoRun \/ runs'[r] = [NoRun EXCEPT !.st = "failed"]
    BY <1>4, <2>3
  <2>5. runs' \in [Runs -> RunRecs]
    BY <1>4, <2>1, TypesKnown
  <2>6. Cardinality(Entered(reg')) \in Nat
    BY EnteredLater
  <2>7. \A r \in Runs : /\ runs'[r].ver = None
                        /\ runs'[r].st = "none" => runs'[r] = NoRun
                        /\ runs'[r].st \notin Judging
    BY <2>2, <2>4 DEF Judging
  <2>8. \A r \in Runs : runs'[r].ver <= Cardinality(Entered(reg'))
    BY <2>6, <2>7 DEF None
  <2> QED
    BY <2>5, <2>7, <2>8 DEF RunsInv, RunsNumberedApart, Judging
<1>7. last \in Allowed' /\ last \in OrNone(Models)
  BY <1>1, <1>4 DEF ServingInv, Allowed, TypeOK, OrNone
<1>8. ASSUME m \in F
      PROVE  /\ v \in Models /\ v # None /\ m \in Models
             /\ \E k \in activated' : reg'[k].ver = v
             /\ reg' = R
  <2>1. v # None
    BY <1>1, <1>8 DEF Entry
  <2>2. Active(R) # {} /\ R \in [Models -> Entries]
    BY <1>2, <2>1 DEF ActiveVersion, WellKept
  <2>3. Newest(Active(R)) \in Active(R) /\ v = R[Newest(Active(R))].ver
    BY <2>2, ActiveVersionIs
  <2>4. Newest(Active(R)) \in Models
    BY <2>3 DEF Active
  <2>5. v \in Models
    BY <2>1, <2>2, <2>3, <2>4 DEF Entries, OrNone
  <2>6. reg' = R
    BY <1>4, <1>8 DEF kept
  <2>7. Newest(Active(R)) \in activated'
    BY <1>4, <2>3, <2>6
  <2> HIDE DEF v
  <2>8. \E k \in activated' : reg'[k].ver = v
    BY <2>3, <2>6, <2>7
  <2> QED
    BY <1>1, <1>8, <2>1, <2>5, <2>6, <2>8
<1>9. ServingInv'
  <2>1. {slot', strategy', latest'} \subseteq Allowed'
    BY <1>4, <1>7 DEF Allowed
  <2>2. CASE m \in F
    <3>1. served'.ver = v /\ served'.model = m
      BY <1>4, <2>2
    <3>2. served'.ver # None /\ served'.model = Entry(reg', served'.ver)
      BY <1>8, <2>2, <3>1
    <3>3. Vouched(served.ver)'
      <4> HIDE DEF v
      <4> QED
        BY <1>8, <2>2, <3>1 DEF Vouched
    <3> QED
      BY <2>1, <3>2, <3>3 DEF ServingInv
  <2>3. CASE m \notin F
    <3>1. served'.ver = None /\ served'.model = last
      BY <1>4, <2>3
    <3> QED
      BY <1>7, <2>1, <3>1 DEF ServingInv
  <2> QED
    BY <2>2, <2>3
<1>10. OtherTypes'
  <2>1. served' \in Served
    BY <1>4, <1>7, <1>8 DEF Served, OrNone
  <2>2. redeploys' \in 0 .. MaxRedeploys
    BY <1>4, TypesKnown, BoundsAreNat DEF OtherTypes
  <2>3. flags' \in Flags /\ changes' \in Changes
    BY <1>4 DEF Flags, Changes, NoChange
  <2> QED
    BY <1>4, <1>7, <2>1, <2>2, <2>3, TypesKnown DEF OtherTypes, OrNone, Writers
<1>11. reg' \in [Models -> Entries] /\ activated' \subseteq Models
  BY <1>1, <1>3, <1>4 DEF WellKept, TypeOK, Active
<1> QED
  BY <1>1, <1>4, <1>5, <1>6, <1>7, <1>9, <1>10, <1>11 DEF ModelInv, TypeOK, OtherTypes

-----------------------------------------------------------------------------
LEMMA ModelInvStep == ModelInv /\ [Next]_vars => ModelInv'
<1> SUFFICES ASSUME ModelInv, [Next]_vars PROVE ModelInv'
  OBVIOUS
<1>1. CASE Pipelines
  BY <1>1, TrainKeeps, BeginOrFailKeeps, RegisterKeeps, JudgeKeeps, DeployKeeps, ActivateKeeps,
     CopyLatestKeeps DEF Pipelines
<1>2. CASE Operator
  BY <1>2, TrainCommandKeeps, SwapRegistryKeeps, RollbackCommandKeeps DEF Operator
<1>3. CASE Loop \/ Watch \/ RollbackSave \/ SwapPredictor
  BY <1>3, LoopKeeps, WatchKeeps, RollbackSaveKeeps, SwapPredictorKeeps
<1>4. CASE \E F \in SUBSET files, manifest \in BOOLEAN : Redeploy(F, manifest)
  BY <1>4, RedeployKeeps
<1>5. CASE UNCHANGED vars
  <2>1. RegistryGoesOn
    BY <1>5, LeftGoesOn, TypesKnown DEF vars
  <2>2. RunsInv' /\ ServingInv'
    BY <1>5, <2>1, RunsStay, ServingStays DEF vars
  <2>3. OtherTypes' /\ runs' \in [Runs -> RunRecs]
    BY <1>5, TypesKnown DEF vars, OtherTypes
  <2> QED
    BY <2>1, <2>2, <2>3, TypesApart DEF ModelInv, RegistryGoesOn
<1> QED
  BY <1>1, <1>2, <1>3, <1>4, <1>5 DEF Next

LEMMA ModelInvariance == Spec => []ModelInv
BY ModelInvInit, ModelInvStep, PTL DEF Spec

\* The registry's entries, the governance records, the runs and the predictor keep their
\* types; in particular no version number exceeds the number of models trained
\* (model_registry.py, training_pipeline.py).
THEOREM ModelTypes == Spec => []TypeOK
BY ModelInvariance, PTL DEF ModelInv

\* Activations, rollbacks, losses and repairs of files leave one active version at most
\* (model_registry.py, set_active_version, rollback and the repairs at start).
THEOREM OneVersionIsActive == Spec => []OneActiveVersion
BY ModelInvariance, PTL DEF ModelInv, RegistryInv

\* For any number of models, runs, commands and losses of files, and wherever a rollback
\* is cut between its two writes: only models that were activated, trained by hand, or named
\* in a rollback or a swap are traded with or held in latest_model.joblib, and the predictor
\* serves only under the version of such a one (model_registry.py, save_version,
\* set_active_version and rollback; runtime.py, swap_model; predictor.py).
THEOREM ServedWasChosen == Spec => []OnlyChosenModelsServe
<1>1. ModelInv => OnlyChosenModelsServe
  BY DEF ModelInv, ServingInv, Allowed, Vouched, OnlyChosenModelsServe
<1> QED
  BY <1>1, ModelInvariance, PTL

\* The model in the predictor stays the one the registry finds under the reported version,
\* even when the number was given out twice (model_registry.py, _find_entry).
THEOREM PredictorAgreesWithRegistry == Spec => []PredictorMeansTheRegistry
<1>1. ModelInv => PredictorMeansTheRegistry
  BY DEF ModelInv, ServingInv, PredictorMeansTheRegistry
<1> QED
  BY <1>1, ModelInvariance, PTL

\* Any number of pipelines side by side get versions of their own (model_registry.py,
\* save_version under its lock).
THEOREM PipelinesNumberApart == Spec => []RunsNumberedApart
<1>1. ModelInv => RunsNumberedApart
  BY DEF ModelInv, RunsInv
<1> QED
  BY <1>1, ModelInvariance, PTL
=============================================================================
