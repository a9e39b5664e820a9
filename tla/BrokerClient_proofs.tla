------------------------- MODULE BrokerClient_proofs -------------------------
(***************************************************************************)
(* What the two halves of AlpacaClient guarantee for every bound.  The     *)
(* retried, timed-out order call: its types, the idempotence of calls with *)
(* a caller's id, and that it implements OrderService, the contract the    *)
(* engine is modelled on.  The trade-update stream: a fill is published    *)
(* once for each time it was forgotten, and once more, for any fills,      *)
(* limits and number of updates; and the set, the attempts and the pauses  *)
(* stay within their limits.                                               *)
(***************************************************************************)
EXTENDS OrderClient, TradeStream, FiniteSetTheorems, TLAPS

(* The order call.                                                         *)

\* A request is out exactly while the caller waits, and the caller has its
\* answer exactly when the call is over.
WaitsForWorker == /\ worker # "none" <=> pc = "waiting"
                  /\ gaveUp => pc = "waiting"
AnsweredAtEnd == answer # "none" <=> pc = "answered"

\* The next logical order starts from nothing.
FreshWhenIdle == pc = "idle" => key = {} /\ attempt = 0 /\ accepted = {}

\* An order comes back only from a broker that holds it.
OrdersExist == /\ worker = "order" => accepted # {}
               /\ answer = "order" => accepted # {}

\* At most one order for each attempt begun.
OnePerAttempt ==
    /\ IsFiniteSet(accepted)
    /\ Cardinality(accepted) <= attempt + (IF RequestKey \in accepted THEN 1 ELSE 0)

\* With a caller's id, no other is used.
KeyedUseTheirKey == key # {} => accepted \subseteq {CallerKey}

IInv == /\ TypeOK
        /\ WaitsForWorker
        /\ AnsweredAtEnd
        /\ FreshWhenIdle
        /\ OrdersExist
        /\ OnePerAttempt
        /\ KeyedUseTheirKey

LEMMA RequestKeyType == TypeOK => RequestKey \in Keys
  BY DEF TypeOK, RequestKey, Keys

LEMMA CardinalityIsNat == IInv => Cardinality(accepted) \in Nat
  BY FS_CardinalityType DEF IInv, OnePerAttempt

LEMMA IInvInit == Init => IInv
<1> SUFFICES ASSUME Init PROVE IInv
  OBVIOUS
<1>0. 0 \in Attempts
  BY MaxRetriesAssumption DEF Attempts
<1>1. TypeOK
  BY <1>0 DEF Init, TypeOK
<1>2. OnePerAttempt
  BY FS_EmptySet DEF Init, OnePerAttempt
<1> QED BY <1>1, <1>2 DEF Init, IInv, WaitsForWorker, AnsweredAtEnd, FreshWhenIdle,
            OrdersExist, KeyedUseTheirKey

\* Only these steps change what the broker holds.
LEMMA AcceptedGrows ==
    ASSUME IInv, BrokerAccepts
    PROVE  /\ IsFiniteSet(accepted')
           /\ Cardinality(accepted') = Cardinality(accepted) + 1
           /\ Cardinality(accepted) <= attempt
<1>1. IsFiniteSet(accepted) /\ RequestKey \notin accepted /\ accepted' = accepted \cup {RequestKey}
  BY DEF IInv, OnePerAttempt, BrokerAccepts
<1>2. /\ IsFiniteSet(accepted')
      /\ Cardinality(accepted') = Cardinality(accepted) + 1
  BY <1>1, FS_AddElement
<1>3. Cardinality(accepted) <= attempt
  BY <1>1, CardinalityIsNat DEF IInv, OnePerAttempt, TypeOK, Attempts
<1> QED BY <1>2, <1>3

LEMMA IInvStep == IInv /\ [Next]_vars => IInv'
<1> SUFFICES ASSUME IInv, [Next]_vars PROVE IInv'
  OBVIOUS
<1> USE MaxRetriesAssumption
<1>a. CASE Call
  BY <1>a, CardinalityIsNat, FS_EmptySet
  DEF Call, IInv, TypeOK, WaitsForWorker, AnsweredAtEnd, FreshWhenIdle, OrdersExist,
      OnePerAttempt, KeyedUseTheirKey, Attempts
<1>b. CASE Submit
  BY <1>b DEF Submit, IInv, TypeOK, WaitsForWorker, AnsweredAtEnd, FreshWhenIdle, OrdersExist,
      OnePerAttempt, KeyedUseTheirKey, RequestKey
<1>c. CASE Timeout
  BY <1>c DEF Timeout, IInv, TypeOK, WaitsForWorker, AnsweredAtEnd, FreshWhenIdle, OrdersExist,
      OnePerAttempt, KeyedUseTheirKey, RequestKey
<1>d. CASE RetryCall
  <2>0. TypeOK'
    <3>1. attempt \in Attempts /\ attempt < MaxRetries /\ attempt' = attempt + 1
      BY <1>d DEF RetryCall, IInv, TypeOK
    <3>2. attempt' \in Attempts
      BY <3>1 DEF Attempts
    <3> QED BY <3>2, <1>d DEF RetryCall, Ended, IInv, TypeOK
  <2>1. /\ WaitsForWorker' /\ AnsweredAtEnd' /\ FreshWhenIdle' /\ OrdersExist'
        /\ KeyedUseTheirKey'
    BY <1>d DEF RetryCall, Ended, IInv, WaitsForWorker, AnsweredAtEnd, FreshWhenIdle,
        OrdersExist, KeyedUseTheirKey
  <2>2. /\ attempt' = attempt + 1 /\ attempt \in Nat
        /\ accepted' = accepted
    BY <1>d DEF RetryCall, Ended, IInv, TypeOK, Attempts
  <2>3. Cardinality(accepted) <= attempt + 1 /\ Cardinality(accepted) \in Nat
    BY <2>2, CardinalityIsNat DEF IInv, OnePerAttempt
  <2>4. OnePerAttempt'
    BY <2>2, <2>3 DEF IInv, OnePerAttempt
  <2> QED BY <2>0, <2>1, <2>4 DEF IInv
<1>e. CASE Exhausted
  BY <1>e DEF Exhausted, Ended, IInv, TypeOK, WaitsForWorker, AnsweredAtEnd, FreshWhenIdle,
      OrdersExist, OnePerAttempt, KeyedUseTheirKey, RequestKey, Outcomes
<1>f. CASE Answered
  BY <1>f DEF Answered, Retryable, Ended, IInv, TypeOK, WaitsForWorker, AnsweredAtEnd,
      FreshWhenIdle, OrdersExist, OnePerAttempt, KeyedUseTheirKey, RequestKey, Outcomes
<1>g. CASE Return
  BY <1>g, FS_EmptySet DEF Return, IInv, TypeOK, WaitsForWorker, AnsweredAtEnd, FreshWhenIdle,
      OrdersExist, OnePerAttempt, KeyedUseTheirKey, Attempts, Keys
<1>h. CASE BrokerAccepts
  <2>1. /\ TypeOK' /\ WaitsForWorker' /\ AnsweredAtEnd' /\ FreshWhenIdle' /\ OrdersExist'
    BY <1>h, RequestKeyType DEF BrokerAccepts, IInv, TypeOK, WaitsForWorker, AnsweredAtEnd,
        FreshWhenIdle, OrdersExist, Outcomes
  <2>2. OnePerAttempt'
    <3>1. RequestKey' = RequestKey /\ attempt' = attempt /\ RequestKey \in accepted'
      BY <1>h DEF BrokerAccepts, RequestKey
    <3> QED BY <3>1, <1>h, AcceptedGrows, CardinalityIsNat
            DEF OnePerAttempt, IInv, TypeOK, Attempts
  <2>3. KeyedUseTheirKey'
    BY <1>h DEF BrokerAccepts, IInv, KeyedUseTheirKey, RequestKey
  <2> QED BY <2>1, <2>2, <2>3 DEF IInv
<1>i. CASE BrokerDeclines \/ NetworkFails
  BY <1>i DEF BrokerDeclines, NetworkFails, IInv, TypeOK, WaitsForWorker, AnsweredAtEnd,
      FreshWhenIdle, OrdersExist, OnePerAttempt, KeyedUseTheirKey, RequestKey, Outcomes
<1>j. CASE UNCHANGED vars
  BY <1>j DEF vars, IInv, TypeOK, WaitsForWorker, AnsweredAtEnd, FreshWhenIdle, OrdersExist,
      OnePerAttempt, KeyedUseTheirKey, RequestKey
<1> QED
  BY <1>a, <1>b, <1>c, <1>d, <1>e, <1>f, <1>g, <1>h, <1>i, <1>j DEF Next, Client, Broker

LEMMA Invariance == Spec => []IInv
<1> QED BY IInvInit, IInvStep, PTL DEF Spec

-----------------------------------------------------------------------------
\* The call keeps its types: in particular no attempt beyond MaxRetries is made
\* (_retry's loop).
THEOREM TypeCorrect == Spec => []TypeOK
<1>1. IInv => TypeOK
  BY DEF IInv
<1> QED BY <1>1, Invariance, PTL

\* client_order_id makes a call idempotent, however often it is retried and
\* however many answers are lost (market_order).
THEOREM KeyedCallsAreIdempotent == Spec => []KeyedCallsPlaceOnce
<1>1. IInv => KeyedCallsPlaceOnce
  <2> SUFFICES ASSUME IInv, key # {} PROVE Cardinality(accepted) <= 1
    BY DEF KeyedCallsPlaceOnce
  <2>1. accepted \in SUBSET {CallerKey}
    BY DEF IInv, KeyedUseTheirKey
  <2>2. IsFiniteSet({CallerKey}) /\ Cardinality({CallerKey}) = 1
    BY FS_Singleton
  <2> QED BY <2>1, <2>2, FS_Subset
<1> QED BY <1>1, Invariance, PTL

-----------------------------------------------------------------------------
(* The contract of OrderService. *)

LEMMA ContractStep == IInv /\ IInv' /\ [Next]_vars => [Contract!Next]_(Contract!vars)
<1> SUFFICES ASSUME IInv, IInv', [Next]_vars PROVE [Contract!Next]_(Contract!vars)
  OBVIOUS
<1> USE DEF Contract!Next, Contract!vars
<1>a. CASE Answered \/ Exhausted
  <2>1. /\ answer = "none"
        /\ answer' \in {"refused", "raised"} \cup (IF accepted # {} THEN {"order"} ELSE {})
        /\ accepted' = accepted
    BY <1>a DEF Answered, Exhausted, Retryable, Ended, Outcomes, IInv, AnsweredAtEnd,
        OrdersExist
  <2>2. accepted # {} => Cardinality(accepted) > 0
    BY CardinalityIsNat, FS_EmptySet DEF IInv, OnePerAttempt
  <2> QED BY <2>1, <2>2 DEF Contract!Answer
<1>b. CASE Return
  BY <1>b, FS_EmptySet DEF Return, IInv, AnsweredAtEnd, Contract!Return
<1>c. CASE BrokerAccepts
  <2>1. answer = "none" /\ answer' = answer
    BY <1>c DEF BrokerAccepts, IInv, WaitsForWorker, AnsweredAtEnd
  <2>2. Cardinality(accepted) < MaxRetries + 1
    BY <1>c, AcceptedGrows, CardinalityIsNat, MaxRetriesAssumption DEF IInv, TypeOK, Attempts
  <2> QED BY <1>c, <2>1, <2>2, AcceptedGrows DEF Contract!Place
<1>d. CASE \/ Call \/ Submit \/ Timeout \/ RetryCall \/ BrokerDeclines \/ NetworkFails
           \/ UNCHANGED vars
  <2>1. answer' = answer /\ accepted' = accepted
    BY <1>d DEF Call, Submit, Timeout, RetryCall, Ended, BrokerDeclines, NetworkFails, vars
  <2> QED BY <2>1
<1> QED BY <1>a, <1>b, <1>c, <1>d DEF Next, Client, Broker

\* The order call of AlpacaBroker implements the contract the engine relies on:
\* an order in the answer exists, and none appears once the call has answered.
THEOREM ImplementsOrderService == Spec => ContractSpec
<1>1. Init => Contract!Init
  BY FS_EmptySet DEF Init, Contract!Init
<1> QED BY <1>1, ContractStep, Invariance, PTL DEF Spec, ContractSpec, Contract!Spec

-----------------------------------------------------------------------------
(* The trade-update stream.                                                *)

StreamShape ==
    /\ seen \subseteq Fills
    /\ published \in [Fills -> Nat] /\ forgotten \in [Fills -> Nat]

Remembered(f) == IF f \in seen THEN 1 ELSE 0

\* What was published is remembered or was forgotten.
FillInv == \A f \in Fills : published[f] <= Remembered(f) + forgotten[f]

StreamInv == StreamShape /\ FillInv

-----------------------------------------------------------------------------
LEMMA OneOrNone ==
    ASSUME NEW g, NEW S
    PROVE  Cardinality({g} \cap S) = IF g \in S THEN 1 ELSE 0
<1>1. CASE g \in S
  BY <1>1, FS_Singleton, {g} \cap S = {g}
<1>2. CASE g \notin S
  BY <1>2, FS_EmptySet, {g} \cap S = {}
<1> QED
  BY <1>1, <1>2

LEMMA KeptIsSeen ==
    ASSUME NEW s, NEW t \in Kept(s)
    PROVE  t \subseteq s
BY DEF Kept

LEMMA StreamInvInit == StreamInit => StreamInv
BY DEF StreamInit, StreamInv, StreamShape, FillInv, Remembered

\* An update of a fill that is not remembered: it is published, and what the limit drops
\* is counted as forgotten.
LEMMA NewFill ==
    ASSUME StreamInv, NEW f \in Fills, Update(f), f \notin seen
    PROVE  StreamInv'
<1>1. /\ seen' \in Kept(seen \cup {f})
      /\ forgotten' = [g \in Fills |->
                         forgotten[g] + Cardinality({g} \cap ((seen \cup {f}) \ seen'))]
      /\ published' = [published EXCEPT ![f] = @ + 1]
  BY DEF Update
<1>2. seen' \subseteq seen \cup {f}
  BY <1>1, KeptIsSeen
<1>3. \A g \in Fills : forgotten'[g] = forgotten[g]
                          + (IF g \in (seen \cup {f}) \ seen' THEN 1 ELSE 0)
  BY <1>1, OneOrNone
<1>4. StreamShape'
  <2>1. \A g \in Fills : Cardinality({g} \cap ((seen \cup {f}) \ seen')) \in Nat
    BY OneOrNone
  <2> QED
    BY <1>1, <1>2, <2>1 DEF StreamInv, StreamShape
<1>5. ASSUME NEW g \in Fills PROVE (published[g] <= Remembered(g) + forgotten[g])'
  <2>1. /\ published[g] <= Remembered(g) + forgotten[g]
        /\ published[g] \in Nat /\ forgotten[g] \in Nat
    BY DEF StreamInv, StreamShape, FillInv
  <2>2. published'[g] = IF g = f THEN published[g] + 1 ELSE published[g]
    BY <1>1 DEF StreamInv, StreamShape
  <2> QED
    BY <1>2, <1>3, <2>1, <2>2 DEF Remembered
<1> QED
  BY <1>4, <1>5 DEF StreamInv, FillInv

LEMMA StreamInvStep == StreamInv /\ [StreamNext]_streamVars => StreamInv'
<1> SUFFICES ASSUME StreamInv, [StreamNext]_streamVars PROVE StreamInv'
  OBVIOUS
<1>1. ASSUME NEW f \in Fills, Update(f) PROVE StreamInv'
  <2>1. CASE f \in seen
    BY <1>1, <2>1 DEF Update, StreamInv, StreamShape, FillInv, Remembered
  <2> QED
    BY <1>1, <2>1, NewFill
<1>2. CASE Runner \/ Main \/ UNCHANGED streamVars
  <2>1. UNCHANGED << seen, published, forgotten >>
    BY <1>2 DEF Runner, Main, Check, Run, Fail, Wake, HangUp, Rest, StartStream, StopFlag,
                StopLibrary, Join, RunnerOnly, handler, streamVars
  <2> QED
    BY <2>1 DEF StreamInv, StreamShape, FillInv, Remembered
<1> QED
  BY <1>1, <1>2 DEF StreamNext

-----------------------------------------------------------------------------
\* A fill is published once, and once more for each time main's handler forgot it
\* (main.py:1031-1055), over any number of connections and repeated updates.
THEOREM FillsArePublishedOnce == StreamSpec => []FillsApart
<1>1. StreamInv => FillsApart
  BY DEF StreamInv, StreamShape, FillInv, Remembered, FillsApart
<1> QED
  BY <1>1, StreamInvInit, StreamInvStep, PTL DEF StreamSpec

-----------------------------------------------------------------------------
(* The bounds of the stream.                                               *)

\* The attempts reach their limit only when the thread ends; an update publishes and
\* forgets a fill at most once.
StreamCounts ==
    /\ runner \in [pc : RunnerSteps, failures : 0 .. MaxReconnects, backoff : 1 .. MaxBackoff]
    /\ runner.failures = MaxReconnects => runner.pc = "ended"
    /\ IsFiniteSet(seen)
    /\ \A f \in Fills : published[f] <= sent /\ forgotten[f] <= sent

StreamBounds == StreamTypeOK /\ StreamCounts

LEMMA LimitsAreNat ==
    /\ MaxSeen \in Nat /\ MaxSeen > 0 /\ MaxReconnects \in Nat /\ MaxReconnects > 0
    /\ MaxBackoff \in Nat /\ MaxBackoff > 0 /\ MaxDeliveries \in Nat
BY StreamAssumption DEF StreamAssumption

\* Dropping half of an overfull set leaves it within its limit, if half is at least one.
LEMMA KeptIsBounded ==
    ASSUME MaxSeen >= 2, NEW S, IsFiniteSet(S), Cardinality(S) <= MaxSeen, NEW f,
           NEW T \in Kept(S \cup {f})
    PROVE  IsFiniteSet(T) /\ Cardinality(T) <= MaxSeen
<1>1. /\ IsFiniteSet(S \cup {f}) /\ Cardinality(S \cup {f}) <= MaxSeen + 1
      /\ Cardinality(S \cup {f}) \in Nat
  <2>1. Cardinality(S) \in Nat
    BY FS_CardinalityType
  <2>2. /\ IsFiniteSet(S \cup {f})
        /\ Cardinality(S \cup {f}) \in {Cardinality(S), Cardinality(S) + 1}
    BY FS_AddElement
  <2> QED
    BY <2>1, <2>2, LimitsAreNat
<1>2. CASE Cardinality(S \cup {f}) <= MaxSeen
  BY <1>1, <1>2 DEF Kept
<1>3. CASE ~ (Cardinality(S \cup {f}) <= MaxSeen)
  <2>1. T \subseteq S \cup {f} /\ Cardinality(T) = Cardinality(S \cup {f}) - MaxSeen \div 2
    BY <1>3 DEF Kept
  <2>2. MaxSeen \div 2 >= 1 /\ MaxSeen \div 2 \in Nat
    BY LimitsAreNat
  <2> QED
    BY <1>1, <2>1, <2>2, FS_Subset, LimitsAreNat
<1> QED
  BY <1>2, <1>3

LEMMA StreamBoundsInit == StreamInit => StreamBounds
<1> SUFFICES ASSUME StreamInit PROVE StreamBounds
  OBVIOUS
<1>1. runner \in [pc : RunnerSteps, failures : 0 .. MaxReconnects, backoff : 1 .. MaxBackoff]
      /\ runner.failures = 0
  BY LimitsAreNat DEF StreamInit, Fresh, RunnerSteps
<1>2. IsFiniteSet(seen) /\ Cardinality(seen) = 0
  BY FS_EmptySet DEF StreamInit
<1>3. published \in [Fills -> 0 .. MaxDeliveries] /\ forgotten \in [Fills -> 0 .. MaxDeliveries]
  BY LimitsAreNat DEF StreamInit
<1>4. sent \in 0 .. MaxDeliveries /\ \A f \in Fills : published[f] <= sent /\ forgotten[f] <= sent
  BY LimitsAreNat DEF StreamInit
<1>5. stream = "none" /\ flag = FALSE /\ main = "setup" /\ seen = {} /\ fresh = FALSE /\ deaf = FALSE
  BY DEF StreamInit
<1>6. StreamCounts
  BY <1>1, <1>2, <1>4, LimitsAreNat DEF StreamCounts
<1>7. /\ runner.pc \in RunnerSteps /\ runner.failures \in 0 .. MaxReconnects
      /\ runner.backoff \in 1 .. MaxBackoff
  BY <1>1
<1>8. seen \subseteq Fills /\ Cardinality(seen) <= MaxSeen
  BY <1>2, <1>5, LimitsAreNat
<1>9. /\ stream \in {"none", "made"} /\ flag \in BOOLEAN
      /\ main \in {"setup", "running", "stop", "join", "stopped"}
      /\ fresh \in BOOLEAN /\ deaf \in BOOLEAN
  BY <1>5
<1> QED
  BY <1>3, <1>4, <1>6, <1>7, <1>8, <1>9 DEF StreamBounds, StreamTypeOK

LEMMA RunnerStaysBounded ==
    ASSUME StreamBounds, Runner \/ Main
    PROVE  StreamBounds'
<1> DEFINE RunnerRecs == [pc : RunnerSteps, failures : 0 .. MaxReconnects, backoff : 1 .. MaxBackoff]
<1>0. runner \in RunnerRecs /\ (runner.failures = MaxReconnects => runner.pc = "ended")
  BY DEF StreamBounds, StreamCounts
<1>1. runner' \in RunnerRecs /\ (runner'.failures = MaxReconnects => runner'.pc = "ended")
  <2>1. CASE runner' = Fresh
    BY <2>1, LimitsAreNat DEF Fresh, RunnerSteps
  <2>2. CASE Fail
    <3> DEFINE n == runner.failures + 1
    <3>1. n \in 0 .. MaxReconnects
      BY <1>0, <2>2, LimitsAreNat DEF Fail
    <3>2. \/ runner' = [runner EXCEPT !.pc = "ended"]
          \/ runner' = [runner EXCEPT !.pc = "ended", !.failures = n]
          \/ n # MaxReconnects /\ runner' = [runner EXCEPT !.pc = "sleep", !.failures = n]
      BY <3>1, <2>2, LimitsAreNat DEF Fail
    <3> HIDE DEF n
    <3>3. /\ [runner EXCEPT !.pc = "ended"] \in RunnerRecs
          /\ [runner EXCEPT !.pc = "ended", !.failures = n] \in RunnerRecs
          /\ [runner EXCEPT !.pc = "sleep", !.failures = n] \in RunnerRecs
      BY <1>0, <3>1 DEF RunnerSteps
    <3> QED
      BY <1>0, <3>1, <3>2, <3>3
  <2>3. CASE Wake
    <3>1. Backoff(runner.backoff) \in 1 .. MaxBackoff
      BY <1>0, LimitsAreNat DEF Backoff
    <3> QED
      BY <1>0, <2>3, <3>1 DEF Wake, RunnerSteps
  <2>4. CASE /\ runner.pc # "ended"
             /\ \E p \in RunnerSteps : runner' = [runner EXCEPT !.pc = p]
    BY <1>0, <2>4
  <2>5. CASE UNCHANGED runner
    BY <1>0, <2>5
  <2>6. ASSUME Check \/ Run \/ HangUp
        PROVE  /\ runner.pc # "ended"
               /\ \E p \in RunnerSteps : runner' = [runner EXCEPT !.pc = p]
    BY <2>6 DEF Check, Run, HangUp, Go, RunnerSteps
  <2>7. StopLibrary => \/ UNCHANGED runner
                       \/ /\ runner.pc # "ended"
                          /\ \E p \in RunnerSteps : runner' = [runner EXCEPT !.pc = p]
    BY DEF StopLibrary, RunnerSteps
  <2> QED
    BY <2>1, <2>2, <2>3, <2>4, <2>5, <2>6, <2>7 DEF Runner, Main, Rest, StartStream, StopFlag, Join
<1>2. UNCHANGED << seen, published, forgotten, sent >>
  BY DEF Runner, Main, Check, Run, Fail, Wake, HangUp, Rest, StartStream, StopFlag, StopLibrary,
         Join, RunnerOnly, handler
<1>3. /\ stream' \in {"none", "made"} /\ flag' \in BOOLEAN
      /\ main' \in {"setup", "running", "stop", "join", "stopped"}
      /\ fresh' \in BOOLEAN /\ deaf' \in BOOLEAN
  BY DEF Runner, Main, Check, Run, Fail, Wake, HangUp, Rest, StartStream, StopFlag, StopLibrary,
         Join, RunnerOnly, StreamBounds, StreamTypeOK
<1>4. /\ runner'.pc \in RunnerSteps /\ runner'.failures \in 0 .. MaxReconnects
      /\ runner'.backoff \in 1 .. MaxBackoff
  BY <1>1
<1> QED
  BY <1>1, <1>2, <1>3, <1>4 DEF StreamBounds, StreamTypeOK, StreamCounts

LEMMA UpdateStaysBounded ==
    ASSUME MaxSeen >= 2, StreamBounds, NEW f \in Fills, Update(f)
    PROVE  StreamBounds'
<1>0. /\ IsFiniteSet(seen) /\ Cardinality(seen) <= MaxSeen /\ seen \subseteq Fills
      /\ published \in [Fills -> 0 .. MaxDeliveries]
      /\ forgotten \in [Fills -> 0 .. MaxDeliveries]
      /\ \A g \in Fills : published[g] <= sent /\ forgotten[g] <= sent
      /\ sent \in 0 .. MaxDeliveries
  BY DEF StreamBounds, StreamTypeOK, StreamCounts
<1>1. sent' = sent + 1 /\ sent' \in 0 .. MaxDeliveries
  BY <1>0, LimitsAreNat DEF Update
<1>2. IsFiniteSet(seen') /\ Cardinality(seen') <= MaxSeen /\ seen' \subseteq Fills
  <2>1. CASE f \in seen
    BY <1>0, <2>1 DEF Update
  <2>2. CASE f \notin seen
    <3>1. seen' \in Kept(seen \cup {f})
      BY <2>2 DEF Update
    <3>2. seen' \subseteq seen \cup {f}
      BY <3>1, KeptIsSeen
    <3> QED
      BY <1>0, <3>1, <3>2, KeptIsBounded
  <2> QED
    BY <2>1, <2>2
<1>3. /\ published' \in [Fills -> 0 .. MaxDeliveries]
      /\ \A g \in Fills : published'[g] <= sent'
  <2>1. /\ published' \in [Fills -> Nat]
        /\ \A g \in Fills : published'[g] \in {published[g], published[g] + 1}
    BY <1>0 DEF Update
  <2>2. \A g \in Fills : published'[g] \in 0 .. MaxDeliveries /\ published'[g] <= sent'
    BY <1>0, <1>1, <2>1, LimitsAreNat
  <2> QED
    BY <2>1, <2>2
<1>4. /\ forgotten' \in [Fills -> 0 .. MaxDeliveries]
      /\ \A g \in Fills : forgotten'[g] <= sent'
  <2>1. CASE f \in seen
    BY <1>0, <1>1, <2>1 DEF Update
  <2>2. CASE f \notin seen
    <3>1. forgotten' = [g \in Fills |->
                          forgotten[g] + Cardinality({g} \cap ((seen \cup {f}) \ seen'))]
      BY <2>2 DEF Update
    <3>2. \A g \in Fills : Cardinality({g} \cap ((seen \cup {f}) \ seen')) \in {0, 1}
      BY OneOrNone
    <3>3. \A g \in Fills : forgotten'[g] \in 0 .. MaxDeliveries /\ forgotten'[g] <= sent'
      BY <1>0, <1>1, <3>1, <3>2, LimitsAreNat
    <3> QED
      BY <3>1, <3>3
  <2> QED
    BY <2>1, <2>2
<1>5. UNCHANGED << runner, stream, flag, main, deaf >> /\ fresh' = TRUE
  BY DEF Update
<1> QED
  BY <1>1, <1>2, <1>3, <1>4, <1>5 DEF StreamBounds, StreamTypeOK, StreamCounts

\* The set of seen fills, the reconnection attempts and the pause stay within their limits
\* (alpaca_client.py, _trade_stream_runner; main.py:1050-1055).  A set of one is not kept in
\* bounds: half of its limit is none.
THEOREM StreamStaysInBounds ==
    ASSUME MaxSeen >= 2
    PROVE  StreamSpec => []StreamTypeOK
<1>1. StreamBounds /\ [StreamNext]_streamVars => StreamBounds'
  <2> SUFFICES ASSUME StreamBounds, [StreamNext]_streamVars PROVE StreamBounds'
    OBVIOUS
  <2>1. CASE UNCHANGED streamVars
    BY <2>1 DEF streamVars, StreamBounds, StreamTypeOK, StreamCounts
  <2> QED
    BY <2>1, RunnerStaysBounded, UpdateStaysBounded DEF StreamNext
<1>2. StreamBounds => StreamTypeOK
  BY DEF StreamBounds
<1> QED
  BY <1>1, <1>2, StreamBoundsInit, PTL DEF StreamSpec
=============================================================================
