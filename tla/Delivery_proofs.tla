--------------------------- MODULE Delivery_proofs ---------------------------
(***************************************************************************)
(* That an intent is given to the sender once and that no deadline         *)
(* outlives its verdict, for any signals, times, queue and number of       *)
(* restarts and /recover commands, whose replay runs beside the trading    *)
(* thread; and for finitely many signals the types, with the bounds of the *)
(* queue and of the event store.                                           *)
(***************************************************************************)
EXTENDS Delivery, FiniteSetTheorems, FunctionTheorems, TLAPS

Kinds == {"signal", "risk", "rejected"}
Verdicts == {"risk", "rejected"}
Rows == [kind : Kinds, s : Signals]
Tracking == {"track", "arm", "late"}
Judging == {"judge", "buffer", "check", "mark", "enqueue"}
Steps == Tracking \cup Judging \cup {"cancel", "reject", "keep"}
Handling == [kind : Kinds, s : Signals, step : Steps]

Shape ==
    /\ phase \in {"down", "recovery", "running"}
    /\ pub \in [Threads -> Handling \cup {Idle}]
    /\ rows \in Seq(Rows) /\ todo \in [Threads -> Seq(Rows)]
    /\ sent \in [Signals -> 0 .. DedupTTL \cup {None}]
    /\ judged \in [Signals -> Nat] /\ renewed \in [Signals -> Nat]
    /\ deadlines \in [Signals -> Nat] /\ late \in [Signals -> Nat]
    /\ done \in SUBSET Signals /\ pending \in SUBSET Signals

Filed(k, s) == \E i \in 1 .. Len(rows) : rows[i] = Row(k, s)
Handled(s) == \E th \in Threads : pub[th] # Idle /\ pub[th].s = s
Seen(s) == s \in excused \/ Handled(s) \/ \E i \in 1 .. Len(rows) : rows[i].s = s
Told(k, s) == Filed(k, s) \/ \E th \in Threads : pub[th].kind = k /\ pub[th].s = s

\* The thread has a verdict of s it may be about to send.
Has(th, s) == pub[th].s = s /\ pub[th].step \in Judging

\* The event store has an event once, and one verdict of a signal at most.
RowsInv ==
    /\ \A i, j \in 1 .. Len(rows) : rows[i] = rows[j] => i = j
    /\ \A s \in Signals : ~(Told("risk", s) /\ Told("rejected", s))

\* What recovery publishes is stored, by main before the program runs, by the bot after.
ReplayInv ==
    /\ \A th \in Threads : \A i \in 1 .. Len(todo[th]) : Filed(todo[th][i].kind, todo[th][i].s)
    /\ pub["bot"] # Idle => Filed(pub["bot"].kind, pub["bot"].s)
    /\ phase # "running" => pub["bot"] = Idle /\ todo["bot"] = << >> /\ pending = {}
    /\ phase = "running" => todo["main"] = << >>

\* A verdict that is owed is nowhere yet, and one that main publishes as it trades is
\* neither stored nor waiting, so that the bot cannot have it too.
OwnInv ==
    /\ \A s \in pending : /\ \A k \in Verdicts : ~Told(k, s)
                          /\ late[s] = None /\ \A th \in Threads : ~Has(th, s)
    /\ \A s \in Signals : late[s] # None => Seen(s)
    /\ phase = "running" /\ pub["main"].step \in Tracking =>
          pub["main"].s \in pending /\ ~Filed("signal", pub["main"].s)
    /\ phase = "running" =>
          \A s \in Signals :
             Has("main", s) => late[s] = None /\ ~Filed("risk", s) /\ ~Has("bot", s)

\* The verdict that was marked and is about to be enqueued.
Coming(s) == IF \E th \in Threads : pub[th].step = "enqueue" /\ pub[th].s = s THEN 1 ELSE 0
Key(s) == IF sent[s] # None THEN 1 ELSE 0

\* Each enqueued verdict, and the one that is coming, had the key or renewed it.
KeyInv == \A s \in Signals : judged[s] + Coming(s) <= renewed[s] + Key(s)

\* Nobody marks an intent that has been marked since it was checked.
MarkInv == \A th \in Threads : pub[th].step = "mark" => ~Duplicate(pub[th].s)

\* A signal that is done with cannot be generated again.
DoneInv == \A s \in done : Seen(s)

\* A deadline is not set for a signal that is done with, but for one published again.
AgainInv ==
    /\ \A th \in Threads : pub[th].step \in {"track", "arm"} => pub[th].s \notin done \ again
    /\ pub["bot"].step \in {"track", "arm"} => pub["bot"].s \in again

\* A signal that is done with has no deadline.
DeadlineInv == \A s \in done \ again : deadlines[s] = None

IInv == /\ Shape /\ RowsInv /\ ReplayInv /\ OwnInv
        /\ KeyInv /\ MarkInv /\ DoneInv /\ AgainInv /\ DeadlineInv /\ NoFalseWarning

-----------------------------------------------------------------------------
LEMMA NoneIs == None \in Nat /\ None \notin 0 .. DedupTTL /\ DedupTTL \in Nat /\ None # 0
BY ConstantsAssumption DEF None

LEMMA OlderKey ==
    ASSUME NEW a \in 0 .. DedupTTL \cup {None}
    PROVE  /\ Older(a, DedupTTL) \in 0 .. DedupTTL \cup {None}
           /\ Older(a, DedupTTL) = None <=> a = None
           /\ Fresh(Older(a, DedupTTL), DedupTTL) => Fresh(a, DedupTTL)
BY NoneIs DEF Older, Fresh

\* Who handles what, from the types.
LEMMA HandlingIs ==
    ASSUME Shape, NEW th \in Threads
    PROVE  /\ pub[th] # Idle => /\ pub[th] \in Handling /\ pub[th].kind \in Kinds
                                /\ pub[th].s \in Signals /\ pub[th].step \in Steps
           /\ pub[th].step \in Steps => pub[th] # Idle
           /\ pub[th].kind \in Kinds => pub[th] # Idle
BY DEF Shape, Handling, Idle, Kinds, Steps, Tracking, Judging

\* An event that is stored is stored under its signal.
LEMMA FiledIsSeen ==
    ASSUME NEW k, NEW s, Filed(k, s)
    PROVE  \E i \in 1 .. Len(rows) : rows[i].s = s
<1>1. PICK i \in 1 .. Len(rows) : rows[i] = Row(k, s)
  BY DEF Filed
<1>2. Row(k, s).s = s
  BY DEF Row
<1> QED
  BY <1>1, <1>2

\* A row is what it says.
LEMMA RowIs ==
    ASSUME rows \in Seq(Rows), NEW i \in 1 .. Len(rows)
    PROVE  /\ rows[i].kind \in Kinds /\ rows[i].s \in Signals
           /\ rows[i] = Row(rows[i].kind, rows[i].s) /\ Filed(rows[i].kind, rows[i].s)
<1>1. rows[i] \in Rows
  OBVIOUS
<1>2. rows[i].kind \in Kinds /\ rows[i].s \in Signals /\ rows[i] = Row(rows[i].kind, rows[i].s)
  BY <1>1 DEF Rows, Row
<1> QED
  BY <1>2 DEF Filed

\* Two threads do not have the verdict of one signal.
LEMMA Exclusive ==
    ASSUME IInv, NEW th \in Threads, NEW u \in Threads, th # u, NEW s \in Signals, Has(th, s)
    PROVE  ~Has(u, s)
<1>1. ~(Has("main", s) /\ Has("bot", s))
  <2>1. pub["bot"] = Idle => ~Has("bot", s)
    BY DEF Has, Idle, Judging
  <2> QED
    BY <2>1 DEF IInv, OwnInv, ReplayInv
<1> QED
  BY <1>1 DEF Threads

\* A new signal is one nobody has seen.
LEMMA NewIsUnseen ==
    ASSUME IInv, NEW s \in Signals, New(s), pub["main"] = Idle
    PROVE  /\ ~Seen(s) /\ late[s] = None /\ s \notin done
           /\ \A k \in Kinds : ~Told(k, s) /\ ~Filed(k, s)
           /\ \A th \in Threads : ~Has(th, s)
<1>1. s \notin excused /\ \A i \in 1 .. Len(rows) : rows[i].s # s
  BY DEF New
<1>2. \A k : ~Filed(k, s)
  BY <1>1, FiledIsSeen
<1>3. pub["bot"] # Idle => pub["bot"].s # s
  BY <1>2 DEF IInv, ReplayInv
<1>4. ~Handled(s)
  BY <1>3 DEF Handled, Threads
<1>5. ~Seen(s)
  BY <1>1, <1>4 DEF Seen
<1>6. \A th \in Threads, k \in Kinds : ~(pub[th].kind = k /\ pub[th].s = s)
  BY <1>4, HandlingIs DEF IInv, Handled
<1>7. \A th \in Threads : ~Has(th, s)
  <2>1. \A th \in Threads : pub[th].step \in Judging => pub[th] # Idle
    BY HandlingIs DEF IInv, Steps
  <2> QED
    BY <1>4, <2>1 DEF Has, Handled
<1> QED
  BY <1>2, <1>5, <1>6, <1>7 DEF IInv, OwnInv, DoneInv, Told

LEMMA InvInit == Init => IInv
<1> SUFFICES ASSUME Init PROVE IInv
  OBVIOUS
<1>1. /\ Len(rows) = 0 /\ \A th \in Threads : Len(todo[th]) = 0 /\ pub[th] = Idle /\ todo[th] = << >>
      /\ "bot" \in Threads /\ "main" \in Threads
  BY DEF Init, Threads
<1>2. Shape
  BY NoneIs DEF Init, Shape
<1>3. RowsInv /\ ReplayInv
  BY <1>1 DEF Init, RowsInv, ReplayInv, Told, Filed, Idle
<1>4. OwnInv
  BY <1>1 DEF Init, OwnInv, Idle
<1>5. KeyInv
  <2>1. \A s \in Signals : Coming(s) = 0 /\ Key(s) = 0
    BY <1>1 DEF Init, Coming, Key, Idle
  <2> QED
    BY <2>1 DEF Init, KeyInv
<1>6. MarkInv /\ AgainInv
  BY <1>1 DEF MarkInv, AgainInv, Idle
<1> QED
  BY <1>2, <1>3, <1>4, <1>5, <1>6 DEF Init, IInv, DoneInv, DeadlineInv, NoFalseWarning

\* A step that is not one of the publishers'.
LEMMA OthersKeep ==
    ASSUME IInv,
           UNCHANGED << phase, pub, todo, rows, sent, judged, renewed, deadlines, late, done, again,
                        wrong, pending >>,
           excused \subseteq excused'
    PROVE  IInv'
<1>1. /\ \A k, s : Filed(k, s)' <=> Filed(k, s)
      /\ \A k, s : Told(k, s)' <=> Told(k, s)
      /\ \A th, s : Has(th, s)' <=> Has(th, s)
      /\ \A s : Coming(s)' = Coming(s) /\ Key(s)' = Key(s)
      /\ \A s : (Duplicate(s)' <=> Duplicate(s))
      /\ \A s : Seen(s) => Seen(s)'
  BY DEF Filed, Told, Has, Coming, Key, Duplicate, Seen, Handled
<1>2. Shape' /\ RowsInv' /\ ReplayInv'
  BY <1>1 DEF IInv, Shape, RowsInv, ReplayInv
<1>3. OwnInv' /\ DoneInv'
  BY <1>1 DEF IInv, OwnInv, DoneInv
<1>4. KeyInv' /\ MarkInv'
  BY <1>1 DEF IInv, KeyInv, MarkInv
<1> QED
  BY <1>2, <1>3, <1>4 DEF IInv, AgainInv, DeadlineInv, NoFalseWarning

-----------------------------------------------------------------------------
(* Events handed to the forwarder.                                         *)

\* What handing does to a thread, and to what is known of the signals.
LEMMA HandIs ==
    ASSUME Shape, NEW th \in Threads, NEW kind \in Kinds, NEW s \in Signals, pub[th] = Idle,
           Hand(th, kind, s), UNCHANGED rows
    PROVE  /\ pub' \in [Threads -> Handling \cup {Idle}] /\ pub'[th] # Idle
           /\ pub'[th].kind = kind /\ pub'[th].s = s
           /\ pub'[th].step \in {"track", "judge", "reject", "keep"}
           /\ pub'[th].step = "track" => kind = "signal"
           /\ pub'[th].step = "judge" => kind = "risk"
           /\ \A u \in Threads : u # th => pub'[u] = pub[u]
           /\ excused \subseteq excused'
           /\ \A k, x : Filed(k, x)' <=> Filed(k, x)
           /\ \A k \in Kinds : \A x : Told(k, x)' <=> (Told(k, x) \/ (k = kind /\ x = s))
           /\ \A u \in Threads : \A x : u # th => (Has(u, x)' <=> Has(u, x))
           /\ \A x : Has(th, x)' <=> (x = s /\ pub'[th].step = "judge")
           /\ \A x : Seen(x) => Seen(x)'
<1>1. pub' = [pub EXCEPT ![th] = [kind |-> kind, s |-> s,
                                  step |-> IF paused THEN "keep" ELSE FirstStep[kind]]]
      /\ excused \subseteq excused'
  BY DEF Hand
<1>2. /\ FirstStep["signal"] = "track" /\ FirstStep["risk"] = "judge"
      /\ FirstStep["rejected"] = "reject"
  BY DEF FirstStep
<1>3. /\ pub'[th] = [kind |-> kind, s |-> s, step |-> IF paused THEN "keep" ELSE FirstStep[kind]]
      /\ \A u \in Threads : u # th => pub'[u] = pub[u]
  BY <1>1 DEF Shape
<1>4. /\ pub'[th].kind = kind /\ pub'[th].s = s
      /\ pub'[th].step \in {"track", "judge", "reject", "keep"}
      /\ pub'[th].step = "track" => kind = "signal"
      /\ pub'[th].step = "judge" => kind = "risk"
  BY <1>2, <1>3 DEF Kinds
<1>5. pub'[th] \in Handling /\ pub'[th] # Idle
  BY <1>3, <1>4 DEF Handling, Steps, Tracking, Judging, Idle
<1>6. pub' \in [Threads -> Handling \cup {Idle}]
  <2>1. pub \in [Threads -> Handling \cup {Idle}]
    BY DEF Shape
  <2> QED
    BY <1>1, <1>3, <1>5, <2>1
<1>7. \A k, x : Filed(k, x)' <=> Filed(k, x)
  BY DEF Filed
<1>8. \A k \in Kinds : \A x : Told(k, x)' <=> (Told(k, x) \/ (k = kind /\ x = s))
  <2>1. Idle.kind \notin Kinds
    BY DEF Idle, Kinds
  <2> QED
    BY <1>3, <1>4, <1>7, <2>1 DEF Told
<1>9. \A u \in Threads : \A x : u # th => (Has(u, x)' <=> Has(u, x))
  BY <1>3 DEF Has
<1>10. \A x : Has(th, x)' <=> (x = s /\ pub'[th].step = "judge")
  BY <1>4 DEF Has, Judging
<1>11. \A x : Seen(x) => Seen(x)'
  <2>1. \A x : Handled(x) => Handled(x)'
    BY <1>3 DEF Handled
  <2> QED
    BY <1>1, <2>1 DEF Seen
<1> QED
  BY <1>1, <1>3, <1>4, <1>5, <1>6, <1>7, <1>8, <1>9, <1>10, <1>11

\* The rest of the invariant, for every event that is handed.
LEMMA HandKeeps ==
    ASSUME IInv, NEW th \in Threads, NEW kind \in Kinds, NEW s \in Signals, pub[th] = Idle,
           Hand(th, kind, s),
           s \in done \ again' => kind # "signal",
           th = "bot" /\ kind = "signal" => s \in again',
           UNCHANGED << phase, rows, sent, judged, renewed, deadlines, late, done, wrong >>,
           again \subseteq again', todo' \in [Threads -> Seq(Rows)], pending' \in SUBSET Signals,
           RowsInv', ReplayInv', OwnInv'
    PROVE  IInv'
<1> USE DEF IInv
<1>0. /\ pub' \in [Threads -> Handling \cup {Idle}] /\ pub'[th] # Idle
      /\ pub'[th].s = s /\ pub'[th].step \in {"track", "judge", "reject", "keep"}
      /\ pub'[th].step = "track" => kind = "signal"
      /\ \A u \in Threads : u # th => pub'[u] = pub[u]
      /\ excused \subseteq excused' /\ \A x : Seen(x) => Seen(x)'
  BY HandIs
<1>1. Shape'
  BY <1>0 DEF Shape
<1>2. KeyInv'
  <2>1. \A u \in Threads : \A x : (pub'[u].step = "enqueue" /\ pub'[u].s = x)
                               <=> (pub[u].step = "enqueue" /\ pub[u].s = x)
    <3>1. pub'[th].step # "enqueue" /\ pub[th].step # "enqueue"
          /\ \A u \in Threads : u # th => pub'[u] = pub[u]
      BY <1>0 DEF Idle
    <3> QED
      BY <3>1
  <2>2. \A x : (\E u \in Threads : pub'[u].step = "enqueue" /\ pub'[u].s = x)
                <=> (\E u \in Threads : pub[u].step = "enqueue" /\ pub[u].s = x)
    BY <2>1, Zenon
  <2>3. \A x : Coming(x)' = Coming(x) /\ Key(x)' = Key(x)
    BY <2>2 DEF Coming, Key
  <2> QED
    BY <2>3 DEF KeyInv
<1>3. MarkInv' /\ DoneInv'
  <2>1. \A x : Duplicate(x)' <=> Duplicate(x)
    BY DEF Duplicate
  <2>2. \A u \in Threads : pub'[u].step = "mark" => pub'[u] = pub[u]
    BY <1>0
  <2> QED
    BY <1>0, <2>1, <2>2 DEF MarkInv, DoneInv
<1>4. AgainInv'
  <2>1. ASSUME NEW u \in Threads, pub'[u].step \in {"track", "arm"}
        PROVE  pub'[u].s \notin done' \ again'
    <3>1. CASE u = th
      BY <1>0, <2>1, <3>1
    <3>2. CASE u # th
      BY <1>0, <2>1, <3>2 DEF AgainInv
    <3> QED
      BY <3>1, <3>2
  <2>2. ASSUME pub'["bot"].step \in {"track", "arm"} PROVE pub'["bot"].s \in again'
    <3>1. CASE th = "bot"
      BY <1>0, <2>2, <3>1
    <3>2. CASE th # "bot"
      BY <1>0, <2>2, <3>2 DEF AgainInv, Threads
    <3> QED
      BY <3>1, <3>2
  <2> QED
    BY <2>1, <2>2 DEF AgainInv
<1>5. DeadlineInv' /\ NoFalseWarning'
  BY DEF DeadlineInv, NoFalseWarning
<1> QED
  BY <1>1, <1>2, <1>3, <1>4, <1>5

LEMMA Generating == ASSUME IInv, NEW s \in Signals, Generate(s) PROVE IInv'
<1>1. /\ phase = "running" /\ pub["main"] = Idle /\ New(s) /\ Hand("main", "signal", s)
      /\ pending' = pending \cup {s}
      /\ UNCHANGED << phase, todo, rows, sent, judged, renewed, deadlines, late, again, done, wrong >>
  BY DEF Generate, Trading, life, store
<1>2. "main" \in Threads /\ "bot" \in Threads /\ "signal" \in Kinds /\ Shape
      /\ Verdicts \subseteq Kinds /\ "signal" \notin Verdicts
  BY DEF Threads, Kinds, Verdicts, IInv
<1>3. /\ ~Seen(s) /\ late[s] = None /\ s \notin done
      /\ \A k \in Kinds : ~Told(k, s) /\ ~Filed(k, s)
      /\ \A th \in Threads : ~Has(th, s)
  BY <1>1, NewIsUnseen
<1>4. /\ pub'["main"].kind = "signal" /\ pub'["main"].s = s /\ pub'["bot"] = pub["bot"]
      /\ \A k, x : Filed(k, x)' <=> Filed(k, x)
      /\ \A k \in Verdicts : \A x : Told(k, x)' <=> Told(k, x)
      /\ \A x : Has("bot", x)' <=> Has("bot", x)
      /\ \A x : ~Has("main", x)'
      /\ \A x : Seen(x) => Seen(x)'
  BY <1>1, <1>2, HandIs
<1>5. RowsInv'
  BY <1>1, <1>4 DEF IInv, RowsInv, Verdicts
<1>6. ReplayInv'
  BY <1>1, <1>4 DEF IInv, ReplayInv
<1>7. OwnInv'
  <2>1. \A x \in pending' : /\ \A k \in Verdicts : ~Told(k, x)'
                            /\ late'[x] = None /\ \A th \in Threads : ~Has(th, x)'
    BY <1>1, <1>2, <1>3, <1>4 DEF IInv, OwnInv, Threads
  <2>2. \A x \in Signals : late'[x] # None => Seen(x)'
    BY <1>1, <1>4 DEF IInv, OwnInv
  <2>3. pub'["main"].s \in pending' /\ ~Filed("signal", s)'
    BY <1>1, <1>2, <1>3, <1>4
  <2> QED
    BY <1>4, <2>1, <2>2, <2>3 DEF OwnInv
<1>8. todo' \in [Threads -> Seq(Rows)] /\ pending' \in SUBSET Signals
  BY <1>1, <1>2 DEF Shape
<1> QED
  BY <1>1, <1>2, <1>3, <1>5, <1>6, <1>7, <1>8, HandKeeps

LEMMA Suppressing == ASSUME IInv, NEW s \in Signals, Suppress(s) PROVE IInv'
<1>1. /\ phase = "running" /\ pub["main"] = Idle /\ New(s) /\ pending' = pending \cup {s}
      /\ UNCHANGED << phase, pub, todo, rows, sent, judged, renewed, deadlines, late, again, excused,
                      done, wrong >>
  BY DEF Suppress, Trading, life, store, threads, history
<1>2. /\ late[s] = None /\ \A k \in Kinds : ~Told(k, s)
      /\ \A th \in Threads : ~Has(th, s)
  BY <1>1, NewIsUnseen
<1>3. /\ \A k, x : Filed(k, x)' <=> Filed(k, x)
      /\ \A k, x : Told(k, x)' <=> Told(k, x)
      /\ \A th, x : Has(th, x)' <=> Has(th, x)
      /\ \A x : Coming(x)' = Coming(x) /\ Key(x)' = Key(x)
      /\ \A x : (Duplicate(x)' <=> Duplicate(x))
      /\ \A x : Seen(x) <=> Seen(x)'
  BY <1>1 DEF Filed, Told, Has, Coming, Key, Duplicate, Seen, Handled
<1>4. Shape' /\ RowsInv' /\ ReplayInv'
  BY <1>1, <1>3 DEF IInv, Shape, RowsInv, ReplayInv
<1>5. OwnInv' /\ DoneInv'
  BY <1>1, <1>2, <1>3 DEF IInv, OwnInv, DoneInv, Verdicts, Kinds
<1>6. KeyInv' /\ MarkInv'
  BY <1>1, <1>3 DEF IInv, KeyInv, MarkInv
<1> QED
  BY <1>1, <1>4, <1>5, <1>6 DEF IInv, AgainInv, DeadlineInv, NoFalseWarning

\* The verdict that was owed is published, once.
LEMMA JudgingIt == ASSUME IInv, NEW s \in Signals, Judge(s) PROVE IInv'
<1>1. PICK kind \in Verdicts : Hand("main", kind, s)
  BY DEF Judge, Verdicts
<1>2. /\ phase = "running" /\ pub["main"] = Idle /\ s \in pending /\ pending' = pending \ {s}
      /\ UNCHANGED << phase, todo, rows, sent, judged, renewed, deadlines, late, again, done, wrong >>
  BY DEF Judge, Trading, life, store
<1>3. "main" \in Threads /\ "bot" \in Threads /\ kind \in Kinds /\ kind # "signal" /\ Shape
      /\ Verdicts \subseteq Kinds
  BY DEF Threads, Kinds, Verdicts, IInv
<1>4. /\ pub'["main"].kind = kind /\ pub'["main"].s = s /\ pub'["bot"] = pub["bot"]
      /\ pub'["main"].step \notin Tracking
      /\ \A k, x : Filed(k, x)' <=> Filed(k, x)
      /\ \A k \in Kinds : \A x : Told(k, x)' <=> (Told(k, x) \/ (k = kind /\ x = s))
      /\ \A x : Has("bot", x)' <=> Has("bot", x)
      /\ \A x : Has("main", x)' => x = s
      /\ \A x : Seen(x) => Seen(x)'
  BY <1>1, <1>2, <1>3, HandIs DEF Tracking
<1>5. \A x \in pending : /\ \A k \in Verdicts : ~Told(k, x)
                         /\ late[x] = None /\ \A th \in Threads : ~Has(th, x)
  BY DEF IInv, OwnInv
<1>6. RowsInv'
  <2>1. \A x \in Signals : ~(Told("risk", x)' /\ Told("rejected", x)')
    BY <1>2, <1>3, <1>4, <1>5 DEF IInv, RowsInv, Verdicts
  <2> QED
    BY <1>2, <2>1 DEF IInv, RowsInv
<1>7. ReplayInv'
  BY <1>2, <1>4 DEF IInv, ReplayInv
<1>8. OwnInv'
  <2>1. \A x \in pending' : /\ \A k \in Verdicts : ~Told(k, x)'
                            /\ late'[x] = None /\ \A th \in Threads : ~Has(th, x)'
    BY <1>2, <1>3, <1>4, <1>5 DEF Threads
  <2>2. \A x \in Signals : late'[x] # None => Seen(x)'
    BY <1>2, <1>4 DEF IInv, OwnInv
  <2>3. \A x \in Signals : Has("main", x)' => late'[x] = None /\ ~Filed("risk", x)' /\ ~Has("bot", x)'
    BY <1>2, <1>3, <1>4, <1>5 DEF Told, Verdicts
  <2> QED
    BY <1>4, <2>1, <2>2, <2>3 DEF OwnInv
<1>9. todo' \in [Threads -> Seq(Rows)] /\ pending' \in SUBSET Signals
  BY <1>2, <1>3 DEF Shape
<1> QED
  BY <1>1, <1>2, <1>3, <1>6, <1>7, <1>8, <1>9, HandKeeps

\* A stored event is published once more, by main in recovery or by the bot.
LEMMA Replaying == ASSUME IInv, NEW th \in Threads, Replay(th) PROVE IInv'
<1>1. /\ pub[th] = Idle /\ todo[th] # << >> /\ todo' = [todo EXCEPT ![th] = Tail(@)]
      /\ UNCHANGED << phase, pending, rows, sent, judged, renewed, deadlines, late, done, wrong >>
  BY DEF Replay, life, store
<1>2. Shape /\ "main" \in Threads /\ "bot" \in Threads /\ Verdicts \subseteq Kinds
  BY DEF IInv, Threads, Verdicts, Kinds
<1>3. todo[th] \in Seq(Rows) /\ Head(todo[th]) \in Rows /\ Head(todo[th]) = todo[th][1]
      /\ Tail(todo[th]) \in Seq(Rows) /\ 1 \in 1 .. Len(todo[th])
  BY <1>1, <1>2 DEF Shape
<1>4. \E k \in Kinds, x \in Signals : Head(todo[th]).kind = k /\ Head(todo[th]).s = x
  BY <1>3 DEF Rows
<1>5. PICK kind \in Kinds, s \in Signals : Head(todo[th]).kind = kind /\ Head(todo[th]).s = s
  BY <1>4
<1>6. /\ Hand(th, kind, s)
      /\ again' = IF kind = "signal" THEN again \cup {s} ELSE again
  BY <1>5 DEF Replay
<1>7. Filed(kind, s)
  <2>1. Filed(todo[th][1].kind, todo[th][1].s)
    BY <1>3 DEF IInv, ReplayInv
  <2> QED
    BY <1>3, <1>5, <2>1
<1>8. /\ pub'[th].kind = kind /\ pub'[th].s = s
      /\ \A u \in Threads : u # th => pub'[u] = pub[u]
      /\ \A k, x : Filed(k, x)' <=> Filed(k, x)
      /\ \A k \in Kinds : \A x : Told(k, x)' <=> Told(k, x)
      /\ \A u \in Threads : \A x : u # th => (Has(u, x)' <=> Has(u, x))
      /\ \A x : Has(th, x)' => x = s /\ kind = "risk"
      /\ \A x : Seen(x) => Seen(x)'
  BY <1>1, <1>2, <1>6, <1>7, HandIs DEF Told
<1>9. todo' \in [Threads -> Seq(Rows)] /\ todo'[th] = Tail(todo[th])
      /\ \A u \in Threads : u # th => todo'[u] = todo[u]
  BY <1>1, <1>2, <1>3 DEF Shape
<1>10. RowsInv'
  BY <1>1, <1>8 DEF IInv, RowsInv, Kinds
<1>11. (phase = "running" => th = "bot") /\ (phase # "running" => th = "main")
  BY <1>1 DEF IInv, ReplayInv, Threads
<1>12. ReplayInv'
  <2>1. \A u \in Threads : \A i \in 1 .. Len(todo'[u]) : Filed(todo'[u][i].kind, todo'[u][i].s)
    <3>1. \A i \in 1 .. Len(Tail(todo[th])) :
             i + 1 \in 1 .. Len(todo[th]) /\ Tail(todo[th])[i] = todo[th][i + 1]
      BY <1>1, <1>3
    <3>2. \A i \in 1 .. Len(todo'[th]) : Filed(todo'[th][i].kind, todo'[th][i].s)
      BY <1>9, <3>1 DEF IInv, ReplayInv
    <3> QED
      BY <1>9, <3>2 DEF IInv, ReplayInv
  <2>3. pub'["bot"] # Idle => Filed(pub'["bot"].kind, pub'["bot"].s)
    BY <1>2, <1>7, <1>8 DEF IInv, ReplayInv, Threads
  <2>4. phase' # "running" => pub'["bot"] = Idle /\ todo'["bot"] = << >> /\ pending' = {}
    BY <1>1, <1>2, <1>8, <1>9, <1>11 DEF IInv, ReplayInv
  <2>5. phase' = "running" => todo'["main"] = << >>
    BY <1>1, <1>2, <1>9, <1>11 DEF IInv, ReplayInv
  <2> QED
    BY <1>1, <2>1, <2>3, <2>4, <2>5 DEF ReplayInv, Filed
<1>13. OwnInv'
  <2>1. \A x \in pending' : /\ \A k \in Verdicts : ~Told(k, x)'
                            /\ late'[x] = None /\ \A u \in Threads : ~Has(u, x)'
    <3> SUFFICES ASSUME NEW x \in pending
                 PROVE  /\ \A k \in Verdicts : ~Told(k, x)'
                        /\ late[x] = None /\ \A u \in Threads : ~Has(u, x)'
      BY <1>1
    <3>1. /\ \A k \in Verdicts : ~Told(k, x)
          /\ late[x] = None /\ \A u \in Threads : ~Has(u, x)
      BY DEF IInv, OwnInv
    <3>2. kind = "risk" => x # s
      BY <1>7, <3>1 DEF Told, Verdicts
    <3>3. \A k \in Verdicts : ~Told(k, x)'
      BY <1>2, <1>8, <3>1
    <3>4. \A u \in Threads : ~Has(u, x)'
      <4> SUFFICES ASSUME NEW u \in Threads PROVE ~Has(u, x)'
        OBVIOUS
      <4>1. CASE u = th
        BY <1>8, <3>2, <4>1 DEF Has
      <4>2. CASE u # th
        BY <1>8, <3>1, <4>2 DEF Has
      <4> QED
        BY <4>1, <4>2
    <3> QED
      BY <3>1, <3>3, <3>4
  <2>2. \A x \in Signals : late'[x] # None => Seen(x)'
    BY <1>1, <1>8 DEF IInv, OwnInv
  <2>3. phase' = "running" => th = "bot" /\ pub'["main"] = pub["main"]
    BY <1>1, <1>2, <1>8, <1>11
  <2>4. phase' = "running" /\ pub'["main"].step \in Tracking =>
           pub'["main"].s \in pending' /\ ~Filed("signal", pub'["main"].s)
    BY <1>1, <1>8, <2>3 DEF IInv, OwnInv
  <2>5. ASSUME phase' = "running", NEW x \in Signals, Has("main", x)'
        PROVE  late'[x] = None /\ ~Filed("risk", x)' /\ ~Has("bot", x)'
    <3>1. Has("main", x)
      BY <1>2, <1>8, <2>3, <2>5
    <3>2. late[x] = None /\ ~Filed("risk", x)
      BY <1>1, <2>5, <3>1 DEF IInv, OwnInv
    <3> QED
      BY <1>1, <1>7, <1>8, <2>3, <2>5, <3>2
  <2>6. \A x : Filed("signal", x)' <=> Filed("signal", x)
    BY <1>8
  <2> QED
    BY <2>1, <2>2, <2>4, <2>5, <2>6 DEF OwnInv
<1>14. pending' \in SUBSET Signals /\ again \subseteq again'
  BY <1>1, <1>2, <1>6 DEF Shape
<1> QED
  BY <1>1, <1>5, <1>6, <1>9, <1>10, <1>12, <1>13, <1>14, HandKeeps

-----------------------------------------------------------------------------
(* The forwarder's steps.                                                  *)

\* What going on to a step does to a thread.
LEMMA MoveIs ==
    ASSUME Shape, NEW th \in Threads, NEW next \in Steps, pub[th].step \in Steps, Goto(th, next)
    PROVE  /\ pub[th] # Idle /\ pub[th].s \in Signals /\ pub[th].kind \in Kinds
           /\ pub' \in [Threads -> Handling \cup {Idle}] /\ pub'[th] # Idle
           /\ pub'[th].s = pub[th].s /\ pub'[th].kind = pub[th].kind /\ pub'[th].step = next
           /\ \A u \in Threads : u # th => pub'[u] = pub[u]
<1>1. pub[th] \in Handling /\ pub[th] # Idle /\ pub[th].s \in Signals /\ pub[th].kind \in Kinds
  BY HandlingIs
<1>2. pub \in [Threads -> Handling \cup {Idle}] /\ pub' = [pub EXCEPT ![th].step = next]
  BY DEF Shape, Goto
<1>3. /\ pub'[th] = [pub[th] EXCEPT !.step = next]
      /\ \A u \in Threads : u # th => pub'[u] = pub[u]
  BY <1>2
<1>4. /\ pub'[th] \in Handling
      /\ pub'[th].s = pub[th].s /\ pub'[th].kind = pub[th].kind /\ pub'[th].step = next
  BY <1>1, <1>3 DEF Handling
<1>5. pub'[th] # Idle
  BY <1>4 DEF Idle, Steps, Tracking, Judging
<1>6. pub' \in [Threads -> Handling \cup {Idle}]
  BY <1>2, <1>4
<1> QED
  BY <1>1, <1>3, <1>4, <1>5, <1>6

\* Who has which verdict, whichever step the forwarder takes: a verdict is taken up by the
\* one that waited for its signal, and it waits for it only where it was being judged.
LEMMA MoveOwn ==
    ASSUME IInv, NEW th \in Threads, NEW next \in Steps, pub[th].step \in Steps, Goto(th, next),
           UNCHANGED << phase, rows, todo, pending >>, excused \subseteq excused',
           next \in Judging => pub[th].step \in Judging
                               \/ (pub[th].step = "late" /\ late[pub[th].s] # None),
           next \in Tracking => pub[th].step \in Tracking,
           \A s \in Signals : late'[s] # None =>
              \/ late[s] # None
              \/ s = pub[th].s /\ pub[th].step \in Judging /\ next \notin Judging
    PROVE  /\ RowsInv' /\ ReplayInv' /\ OwnInv'
           /\ \A s : Seen(s) => Seen(s)'
<1> USE DEF IInv
<1>0. "main" \in Threads /\ "bot" \in Threads /\ \A u \in Threads : u = "main" \/ u = "bot"
  BY DEF Threads
<1>1. /\ pub[th] # Idle /\ pub'[th] # Idle
      /\ pub'[th].s = pub[th].s /\ pub'[th].kind = pub[th].kind /\ pub'[th].step = next
      /\ \A u \in Threads : u # th => pub'[u] = pub[u]
  BY MoveIs
<1>2. \A u \in Threads : pub'[u].s = pub[u].s /\ pub'[u].kind = pub[u].kind
                         /\ (pub'[u] = Idle <=> pub[u] = Idle)
  BY <1>1
<1>3. /\ \A k, x : Filed(k, x)' <=> Filed(k, x)
      /\ \A k, x : Told(k, x)' <=> Told(k, x)
      /\ \A x : Seen(x) => Seen(x)'
      /\ \A x : x = pub[th].s => Seen(x)'
  <2>1. \A k, x : Filed(k, x)' <=> Filed(k, x)
    BY DEF Filed
  <2>2. \A k, x : Told(k, x)' <=> Told(k, x)
    BY <1>2, <2>1 DEF Told
  <2>3. \A x : Handled(x)' <=> Handled(x)
    BY <1>2 DEF Handled
  <2>4. \A x : x = pub[th].s => Handled(x)
    BY <1>1 DEF Handled
  <2>5. \A x : Seen(x) => Seen(x)'
    BY <2>3 DEF Seen
  <2> QED
    BY <2>1, <2>2, <2>4, <2>5 DEF Seen
<1>4. RowsInv'
  BY <1>3 DEF RowsInv
<1>5. ReplayInv'
  BY <1>0, <1>2, <1>3 DEF ReplayInv, Filed
<1>6. ASSUME NEW u \in Threads, NEW x \in Signals, Has(u, x)', ~Has(u, x)
      PROVE  u = th /\ x = pub[th].s /\ pub[th].step = "late" /\ late[x] # None
  <2>1. u = th
    BY <1>1, <1>6 DEF Has
  <2> QED
    BY <1>1, <1>6, <2>1 DEF Has
<1>7. ASSUME NEW x \in Signals, late'[x] # None, late[x] = None
      PROVE  Has(th, x) /\ x = pub[th].s /\ next \notin Judging
  BY <1>7 DEF Has
<1>8. OwnInv'
  <2>1. ASSUME NEW x \in pending
        PROVE  /\ \A k \in Verdicts : ~Told(k, x)'
               /\ late'[x] = None /\ \A u \in Threads : ~Has(u, x)'
    <3>0. x \in Signals
      BY DEF Shape
    <3>1. /\ \A k \in Verdicts : ~Told(k, x)
          /\ late[x] = None /\ \A u \in Threads : ~Has(u, x)
      BY DEF OwnInv
    <3>2. \A k \in Verdicts : ~Told(k, x)'
      BY <1>3, <3>1
    <3>3. late'[x] = None
      BY <1>7, <3>0, <3>1
    <3> QED
      BY <1>6, <3>0, <3>1, <3>2, <3>3
  <2>2. ASSUME NEW x \in Signals, late'[x] # None PROVE Seen(x)'
    <3>1. CASE late[x] # None
      BY <1>3, <3>1 DEF OwnInv
    <3>2. CASE late[x] = None
      BY <1>3, <1>7, <2>2, <3>2
    <3> QED
      BY <3>1, <3>2
  <2>3. ASSUME phase = "running", pub'["main"].step \in Tracking
        PROVE  pub["main"].step \in Tracking
    <3>1. CASE th = "main"
      BY <1>1, <2>3, <3>1
    <3>2. CASE th # "main"
      BY <1>0, <1>1, <2>3, <3>2
    <3> QED
      BY <3>1, <3>2
  <2>4. phase' = "running" /\ pub'["main"].step \in Tracking =>
           pub'["main"].s \in pending' /\ \A x : x = pub'["main"].s => ~Filed("signal", x)'
    BY <1>0, <1>2, <1>3, <2>3 DEF OwnInv
  <2>5. ASSUME phase = "running", NEW x \in Signals, Has("main", x)'
        PROVE  late'[x] = None /\ ~Filed("risk", x)' /\ ~Has("bot", x)'
    <3>1. Has("main", x)
      <4> SUFFICES ASSUME ~Has("main", x) PROVE FALSE
        OBVIOUS
      <4>1. th = "main" /\ x = pub[th].s /\ pub[th].step = "late" /\ late[x] # None
        BY <1>0, <1>6, <2>5
      <4> QED
        BY <2>5, <4>1 DEF OwnInv, Tracking
    <3>2. late[x] = None /\ ~Filed("risk", x) /\ ~Has("bot", x)
      BY <2>5, <3>1 DEF OwnInv
    <3>3. late'[x] = None
      <4> SUFFICES ASSUME late'[x] # None PROVE FALSE
        OBVIOUS
      <4>1. Has(th, x) /\ x = pub[th].s /\ next \notin Judging
        BY <1>7, <3>2
      <4>2. th = "main"
        BY <1>0, <3>2, <4>1
      <4> QED
        BY <1>1, <2>5, <4>1, <4>2 DEF Has
    <3>4. ~Has("bot", x)'
      BY <1>0, <1>6, <3>2
    <3> QED
      BY <1>3, <3>2, <3>3, <3>4
  <2> QED
    BY <2>1, <2>2, <2>4, <2>5 DEF OwnInv
<1> QED
  BY <1>3, <1>4, <1>5, <1>8

\* What is coming to be enqueued, where a thread moves.
LEMMA MoveComing ==
    ASSUME IInv, NEW th \in Threads, NEW next \in Steps, pub[th].step \in Steps, Goto(th, next),
           NEW s \in Signals
    PROVE  /\ s # pub[th].s => Coming(s)' = Coming(s)
           /\ s = pub[th].s /\ pub[th].step \in Judging /\ next = "enqueue" => Coming(s)' = 1
           /\ s = pub[th].s /\ pub[th].step \in Judging /\ pub[th].step # "enqueue" => Coming(s) = 0
           /\ pub[th].step = "enqueue" /\ s = pub[th].s => Coming(s) = 1
           /\ pub[th].step = "enqueue" /\ s = pub[th].s /\ next # "enqueue" => Coming(s)' = 0
           /\ pub[th].step # "enqueue" /\ next # "enqueue" => Coming(s)' = Coming(s)
           /\ Coming(s) \in {0, 1} /\ Coming(s)' \in {0, 1}
<1> DEFINE Has1(u) == pub[u].step = "enqueue" /\ pub[u].s = s
           Has2(u) == pub'[u].step = "enqueue" /\ pub'[u].s = s
<1>1. /\ pub'[th].s = pub[th].s /\ pub'[th].step = next
      /\ \A u \in Threads : u # th => pub'[u] = pub[u]
  BY MoveIs DEF IInv
<1>2. /\ Coming(s) = IF \E u \in Threads : Has1(u) THEN 1 ELSE 0
      /\ Coming(s)' = IF \E u \in Threads : Has2(u) THEN 1 ELSE 0
  BY DEF Coming
<1>3. /\ \A u \in Threads : u # th => (Has2(u) <=> Has1(u))
      /\ Has2(th) <=> (next = "enqueue" /\ pub[th].s = s)
      /\ Has1(th) <=> (pub[th].step = "enqueue" /\ pub[th].s = s)
  BY <1>1
<1>4. s = pub[th].s /\ pub[th].step \in Judging => \A u \in Threads : u # th => ~Has1(u)
  <2> SUFFICES ASSUME s = pub[th].s, pub[th].step \in Judging, NEW u \in Threads, u # th
               PROVE  ~Has1(u)
    OBVIOUS
  <2>1. Has(th, s)
    BY DEF Has
  <2>2. ~Has(u, s)
    BY <2>1, Exclusive
  <2> QED
    BY <2>2 DEF Has, Judging
<1> HIDE DEF Has1, Has2
<1>5. "enqueue" \in Judging
  BY DEF Judging
<1> QED
  BY <1>2, <1>3, <1>4, <1>5

\* A step that leaves keys, deadlines and verdicts alone.
LEMMA MoveKeeps ==
    ASSUME IInv, NEW th \in Threads, NEW next \in Steps, pub[th].step \in Steps, Goto(th, next),
           UNCHANGED << phase, rows, todo, pending, sent, judged, renewed, deadlines, done, again,
                        wrong >>,
           excused \subseteq excused', late' \in [Signals -> Nat],
           next \in Judging => pub[th].step \in Judging
                               \/ (pub[th].step = "late" /\ late[pub[th].s] # None),
           next \in Tracking => pub[th].step \in Tracking,
           \A s \in Signals : late'[s] # None =>
              \/ late[s] # None
              \/ s = pub[th].s /\ pub[th].step \in Judging /\ next \notin Judging,
           next # "enqueue", pub[th].step # "enqueue",
           next = "mark" => ~Duplicate(pub[th].s),
           next \in {"track", "arm"} => pub[th].step \in {"track", "arm"}
    PROVE  IInv'
<1> USE DEF IInv
<1>1. /\ pub' \in [Threads -> Handling \cup {Idle}]
      /\ pub'[th].s = pub[th].s /\ pub'[th].step = next
      /\ \A u \in Threads : u # th => pub'[u] = pub[u]
  BY MoveIs
<1>2. RowsInv' /\ ReplayInv' /\ OwnInv' /\ \A s : Seen(s) => Seen(s)'
  BY MoveOwn
<1>3. Shape'
  BY <1>1 DEF Shape
<1>4. KeyInv'
  <2>1. \A s \in Signals : Coming(s)' = Coming(s)
    BY MoveComing
  <2>2. \A s \in Signals : Key(s)' = Key(s)
    BY DEF Key
  <2> QED
    BY <2>1, <2>2 DEF KeyInv
<1>5. MarkInv'
  <2>1. \A x : Duplicate(x)' <=> Duplicate(x)
    BY DEF Duplicate
  <2>2. \A u \in Threads : pub'[u].step = "mark" => \A x : x = pub'[u].s => ~Duplicate(x)
    BY <1>1 DEF MarkInv
  <2> QED
    BY <2>1, <2>2 DEF MarkInv
<1>6. AgainInv'
  <2>1. \A u \in Threads : pub'[u].s = pub[u].s
                           /\ (pub'[u].step \in {"track", "arm"} => pub[u].step \in {"track", "arm"})
    BY <1>1
  <2> QED
    BY <2>1 DEF AgainInv, Threads
<1> QED
  BY <1>2, <1>3, <1>4, <1>5, <1>6 DEF DoneInv, DeadlineInv, NoFalseWarning

LEMMA StepsAre ==
    /\ {"track", "arm", "late", "judge", "buffer", "check", "mark", "enqueue", "cancel", "reject",
        "keep"} \subseteq Steps
    /\ {"arm", "cancel", "reject", "keep"} \cap Judging = {}
    /\ {"judge", "buffer", "check", "mark", "enqueue"} \subseteq Judging
    /\ {"judge", "buffer", "check", "mark", "enqueue", "cancel", "reject", "keep"} \cap Tracking = {}
    /\ {"track", "arm", "late"} \subseteq Tracking /\ "late" \notin Judging
BY DEF Steps, Judging, Tracking

\* The steps that leave keys, deadlines and verdicts alone.
LEMMA Moving ==
    ASSUME IInv, NEW th \in Threads,
           Track(th) \/ PopLate(th) \/ Look(th) \/ RecordLate(th) \/ CheckDedup(th)
    PROVE  IInv'
<1>1. UNCHANGED << phase, rows, todo, pending, sent, judged, renewed, deadlines, done, again, wrong,
                   excused >>
  BY DEF Track, PopLate, Look, RecordLate, CheckDedup, PubOnly, process, life, store, history
<1>2. pub[th].step \in Steps /\ late \in [Signals -> Nat] /\ Shape
  BY StepsAre DEF Track, PopLate, Look, RecordLate, CheckDedup, At, IInv, Shape
<1>3. pub[th].s \in Signals
  BY <1>2, HandlingIs
<1>4. CASE Track(th)
  <2>1. pub[th].step = "track" /\ Goto(th, "arm") /\ late' = late
    BY <1>4 DEF Track, At
  <2> QED
    BY <1>1, <1>2, <2>1, StepsAre, MoveKeeps
<1>5. CASE PopLate(th)
  <2>1. /\ pub[th].step = "late" /\ late' = [late EXCEPT ![pub[th].s] = None]
        /\ \/ Goto(th, "judge") /\ late[pub[th].s] # None
           \/ Goto(th, "keep")
    BY <1>5 DEF PopLate, At, Fresh
  <2>2. /\ late' \in [Signals -> Nat]
        /\ \A s \in Signals : late'[s] # None => late[s] # None
    BY <1>2, <1>3, <2>1, NoneIs
  <2>3. CASE Goto(th, "judge") /\ late[pub[th].s] # None
    BY <1>1, <1>2, <2>1, <2>2, <2>3, StepsAre, MoveKeeps
  <2>4. CASE Goto(th, "keep")
    BY <1>1, <1>2, <2>1, <2>2, <2>4, StepsAre, MoveKeeps
  <2> QED
    BY <2>1, <2>3, <2>4
<1>6. CASE Look(th)
  <2>1. /\ pub[th].step = "judge" /\ late' = late
        /\ Goto(th, "check") \/ Goto(th, "buffer")
    BY <1>6 DEF Look, At, store
  <2>2. CASE Goto(th, "check")
    BY <1>1, <1>2, <2>1, <2>2, StepsAre, MoveKeeps
  <2>3. CASE Goto(th, "buffer")
    BY <1>1, <1>2, <2>1, <2>3, StepsAre, MoveKeeps
  <2> QED
    BY <2>1, <2>2, <2>3
<1>7. CASE RecordLate(th)
  <2>1. /\ pub[th].step = "buffer" /\ late' = [late EXCEPT ![pub[th].s] = 0]
        /\ Goto(th, "keep")
    BY <1>7 DEF RecordLate, At
  <2>2. /\ late' \in [Signals -> Nat]
        /\ \A s \in Signals : late'[s] # None => late[s] # None \/ s = pub[th].s
    BY <1>2, <1>3, <2>1, NoneIs
  <2> QED
    BY <1>1, <1>2, <2>1, <2>2, StepsAre, MoveKeeps
<1>8. CASE CheckDedup(th)
  <2>1. /\ pub[th].step = "check" /\ late' = late
        /\ Goto(th, "keep") \/ (Goto(th, "mark") /\ ~Duplicate(pub[th].s))
    BY <1>8 DEF CheckDedup, At, store
  <2>2. CASE Goto(th, "keep")
    BY <1>1, <1>2, <2>1, <2>2, StepsAre, MoveKeeps
  <2>3. CASE Goto(th, "mark") /\ ~Duplicate(pub[th].s)
    BY <1>1, <1>2, <2>1, <2>3, StepsAre, MoveKeeps
  <2> QED
    BY <2>1, <2>2, <2>3
<1> QED
  BY <1>4, <1>5, <1>6, <1>7, <1>8

\* The deadline is set: not for a signal that is done with.
LEMMA Arming == ASSUME IInv, NEW th \in Threads, Arm(th) PROVE IInv'
<1> USE DEF IInv
<1>1. /\ pub[th].step = "arm" /\ Goto(th, "late")
      /\ deadlines' = [deadlines EXCEPT ![pub[th].s] = Timeout]
      /\ UNCHANGED << phase, rows, todo, pending, sent, late, judged, renewed, done, again, wrong,
                      excused >>
  BY DEF Arm, At, PubOnly, process, life, history
<1>2. /\ pub' \in [Threads -> Handling \cup {Idle}] /\ pub[th].s \in Signals
      /\ pub'[th].s = pub[th].s /\ pub'[th].step = "late"
      /\ \A u \in Threads : u # th => pub'[u] = pub[u]
  BY <1>1, StepsAre, MoveIs
<1>3. RowsInv' /\ ReplayInv' /\ OwnInv' /\ \A s : Seen(s) => Seen(s)'
  BY <1>1, StepsAre, MoveOwn
<1>4. Shape'
  BY <1>1, <1>2, ConstantsAssumption DEF Shape
<1>5. KeyInv'
  <2>1. \A s \in Signals : Coming(s)' = Coming(s)
    BY <1>1, StepsAre, MoveComing
  <2>2. \A s \in Signals : Key(s)' = Key(s)
    BY <1>1 DEF Key
  <2> QED
    BY <1>1, <2>1, <2>2 DEF KeyInv
<1>6. MarkInv'
  <2>1. \A x : Duplicate(x)' <=> Duplicate(x)
    BY <1>1 DEF Duplicate
  <2>2. \A u \in Threads : pub'[u].step = "mark" => \A x : x = pub'[u].s => ~Duplicate(x)
    BY <1>2 DEF MarkInv
  <2> QED
    BY <2>1, <2>2 DEF MarkInv
<1>7. AgainInv'
  BY <1>1, <1>2 DEF AgainInv, Threads
<1>8. DeadlineInv'
  <2>1. pub[th].s \notin done \ again
    BY <1>1 DEF AgainInv
  <2> QED
    BY <1>1, <1>2, <2>1 DEF DeadlineInv, Shape
<1> QED
  BY <1>1, <1>3, <1>4, <1>5, <1>6, <1>7, <1>8 DEF DoneInv, NoFalseWarning

\* The intent is marked, and nobody else has it.
LEMMA Marking == ASSUME IInv, NEW th \in Threads, MarkSent(th) PROVE IInv'
<1> USE DEF IInv
<1>1. /\ pub[th].step = "mark" /\ Goto(th, "enqueue")
      /\ sent' = [sent EXCEPT ![pub[th].s] = 0]
      /\ renewed' = IF sent[pub[th].s] = DedupTTL THEN [renewed EXCEPT ![pub[th].s] = @ + 1] ELSE renewed
      /\ UNCHANGED << phase, rows, todo, pending, deadlines, late, judged, done, again, wrong,
                      excused >>
  BY DEF MarkSent, Mark, At, PubOnly, process, life
<1>2. /\ pub' \in [Threads -> Handling \cup {Idle}] /\ pub[th].s \in Signals
      /\ pub'[th].s = pub[th].s /\ pub'[th].step = "enqueue"
      /\ \A u \in Threads : u # th => pub'[u] = pub[u]
  BY <1>1, StepsAre, MoveIs
<1>3. RowsInv' /\ ReplayInv' /\ OwnInv' /\ \A s : Seen(s) => Seen(s)'
  BY <1>1, StepsAre, MoveOwn
<1>4. Shape'
  <2>1. renewed' \in [Signals -> Nat]
    BY <1>1, <1>2 DEF Shape
  <2>2. sent' \in [Signals -> 0 .. DedupTTL \cup {None}]
    BY <1>1, <1>2, NoneIs DEF Shape
  <2> QED
    BY <1>1, <1>2, <2>1, <2>2 DEF Shape
<1>5. KeyInv'
  <2> SUFFICES ASSUME NEW s \in Signals
               PROVE  judged'[s] + Coming(s)' <= renewed'[s] + Key(s)'
    BY DEF KeyInv
  <2>1. /\ judged[s] + Coming(s) <= renewed[s] + Key(s)
        /\ judged[s] \in Nat /\ renewed[s] \in Nat /\ sent[s] \in 0 .. DedupTTL \cup {None}
        /\ Coming(s) \in {0, 1} /\ Coming(s)' \in {0, 1}
    BY <1>1, StepsAre, MoveComing DEF KeyInv, Shape
  <2>2. CASE s = pub[th].s
    <3>1. Coming(s) = 0 /\ Coming(s)' = 1
      BY <1>1, <2>2, StepsAre, MoveComing
    <3>2. sent'[s] = 0 /\ Key(s)' = 1
      BY <1>1, <2>2, NoneIs DEF Shape, Key
    <3>3. sent[s] = None \/ sent[s] = DedupTTL
      <4>1. ~Fresh(sent[s], DedupTTL)
        BY <1>1, <2>2 DEF MarkInv, Duplicate
      <4> QED
        BY <2>1, <4>1, NoneIs DEF Fresh
    <3>4. CASE sent[s] = None
      <4>1. Key(s) = 0 /\ renewed' = renewed
        BY <1>1, <2>2, <3>4, NoneIs DEF Key
      <4> QED
        BY <1>1, <2>1, <3>1, <3>2, <4>1
    <3>5. CASE sent[s] = DedupTTL
      <4>1. Key(s) = 1 /\ renewed'[s] = renewed[s] + 1
        BY <1>1, <2>2, <3>5, NoneIs DEF Key, Shape
      <4> QED
        BY <1>1, <2>1, <3>1, <3>2, <4>1
    <3> QED
      BY <3>3, <3>4, <3>5
  <2>3. CASE s # pub[th].s
    <3>1. Coming(s)' = Coming(s)
      BY <1>1, <2>3, StepsAre, MoveComing
    <3>2. Key(s)' = Key(s) /\ renewed'[s] = renewed[s]
      BY <1>1, <1>2, <2>3 DEF Key, Shape
    <3> QED
      BY <1>1, <2>1, <3>1, <3>2
  <2> QED
    BY <2>2, <2>3
<1>6. MarkInv'
  <2> SUFFICES ASSUME NEW u \in Threads, pub'[u].step = "mark"
               PROVE  \A x : x = pub'[u].s => ~Duplicate(x)'
    BY DEF MarkInv
  <2>1. u # th /\ pub'[u] = pub[u]
    BY <1>2
  <2>2. pub[u].s # pub[th].s
    <3> SUFFICES ASSUME pub[u].s = pub[th].s PROVE FALSE
      OBVIOUS
    <3>1. PICK x \in Signals : x = pub[th].s
      BY <1>2
    <3>2. Has(th, x) /\ Has(u, x)
      BY <1>1, <2>1, <3>1, StepsAre DEF Has
    <3> QED
      BY <2>1, <3>2, Exclusive
  <2>3. pub[u].s \in Signals /\ ~Duplicate(pub[u].s)
    BY <2>1, StepsAre, HandlingIs DEF MarkInv
  <2>4. sent'[pub[u].s] = sent[pub[u].s]
    BY <1>1, <1>2, <2>2, <2>3 DEF Shape
  <2> QED
    BY <2>1, <2>3, <2>4 DEF Duplicate
<1>7. AgainInv'
  BY <1>1, <1>2 DEF AgainInv, Threads
<1> QED
  BY <1>1, <1>3, <1>4, <1>5, <1>6, <1>7 DEF DoneInv, DeadlineInv, NoFalseWarning

LEMMA Enqueueing == ASSUME IInv, NEW th \in Threads, EnqueueVerdict(th) PROVE IInv'
<1> USE DEF IInv
<1>1. /\ pub[th].step = "enqueue" /\ Goto(th, "cancel")
      /\ judged' = [judged EXCEPT ![pub[th].s] = @ + 1]
      /\ UNCHANGED << phase, rows, todo, pending, deadlines, late, sent, renewed, done, again, wrong >>
      /\ excused \subseteq excused'
  BY DEF EnqueueVerdict, Enqueue, At, PubOnly, process, life, store
<1>2. /\ pub' \in [Threads -> Handling \cup {Idle}] /\ pub[th].s \in Signals
      /\ pub'[th].s = pub[th].s /\ pub'[th].step = "cancel"
      /\ \A u \in Threads : u # th => pub'[u] = pub[u]
  BY <1>1, StepsAre, MoveIs
<1>3. RowsInv' /\ ReplayInv' /\ OwnInv' /\ \A s : Seen(s) => Seen(s)'
  BY <1>1, StepsAre, MoveOwn
<1>4. Shape'
  BY <1>1, <1>2 DEF Shape
<1>5. KeyInv'
  <2> SUFFICES ASSUME NEW s \in Signals
               PROVE  judged'[s] + Coming(s)' <= renewed'[s] + Key(s)'
    BY DEF KeyInv
  <2>1. /\ judged[s] + Coming(s) <= renewed[s] + Key(s)
        /\ judged[s] \in Nat /\ renewed[s] \in Nat /\ Key(s) \in {0, 1} /\ Key(s)' = Key(s)
    BY <1>1 DEF KeyInv, Shape, Key
  <2>2. CASE s = pub[th].s
    <3>1. Coming(s) = 1 /\ Coming(s)' = 0
      BY <1>1, <2>2, StepsAre, MoveComing
    <3>2. judged'[s] = judged[s] + 1
      BY <1>1, <2>2 DEF Shape
    <3> QED
      BY <1>1, <2>1, <3>1, <3>2
  <2>3. CASE s # pub[th].s
    <3>1. Coming(s)' = Coming(s)
      BY <1>1, <2>3, StepsAre, MoveComing
    <3>2. judged'[s] = judged[s]
      BY <1>1, <1>2, <2>3 DEF Shape
    <3> QED
      BY <1>1, <2>1, <3>1, <3>2
  <2> QED
    BY <2>2, <2>3
<1>6. MarkInv'
  <2>1. \A x : Duplicate(x)' <=> Duplicate(x)
    BY <1>1 DEF Duplicate
  <2>2. \A u \in Threads : pub'[u].step = "mark" => \A x : x = pub'[u].s => ~Duplicate(x)
    BY <1>2 DEF MarkInv
  <2> QED
    BY <2>1, <2>2 DEF MarkInv
<1>7. AgainInv'
  BY <1>1, <1>2 DEF AgainInv, Threads
<1> QED
  BY <1>1, <1>3, <1>4, <1>5, <1>6, <1>7 DEF DoneInv, DeadlineInv, NoFalseWarning

\* The deadline is cancelled; a thread that tracks the signal meanwhile publishes it again.
LEMMA Cancelling == ASSUME IInv, NEW th \in Threads, Cancel(th) PROVE IInv'
<1> USE DEF IInv
<1>1. /\ pub[th].step \in {"cancel", "reject"} /\ Goto(th, "keep")
      /\ deadlines' = [deadlines EXCEPT ![pub[th].s] = None]
      /\ done' = done \cup {pub[th].s}
      /\ UNCHANGED << phase, rows, todo, pending, late, sent, judged, renewed, again, wrong >>
      /\ excused \subseteq excused'
  BY DEF Cancel, PubOnly, process, life
<1>2. /\ pub' \in [Threads -> Handling \cup {Idle}] /\ pub[th].s \in Signals /\ pub[th] # Idle
      /\ pub'[th].s = pub[th].s /\ pub'[th].step = "keep" /\ pub'[th] # Idle
      /\ \A u \in Threads : u # th => pub'[u] = pub[u]
  BY <1>1, StepsAre, MoveIs
<1>3. RowsInv' /\ ReplayInv' /\ OwnInv' /\ \A s : Seen(s) => Seen(s)'
  BY <1>1, StepsAre, MoveOwn
<1>4. Shape'
  BY <1>1, <1>2, NoneIs DEF Shape
<1>5. KeyInv'
  <2>1. \A s \in Signals : Coming(s)' = Coming(s)
    BY <1>1, StepsAre, MoveComing
  <2>2. \A s \in Signals : Key(s)' = Key(s)
    BY <1>1 DEF Key
  <2> QED
    BY <1>1, <2>1, <2>2 DEF KeyInv
<1>6. MarkInv'
  <2>1. \A x : Duplicate(x)' <=> Duplicate(x)
    BY <1>1 DEF Duplicate
  <2>2. \A u \in Threads : pub'[u].step = "mark" => \A x : x = pub'[u].s => ~Duplicate(x)
    BY <1>2 DEF MarkInv
  <2> QED
    BY <2>1, <2>2 DEF MarkInv
<1>7. AgainInv'
  <2>1. ASSUME pub["main"].step \in {"track", "arm"}, pub["main"].s = pub[th].s, th = "bot"
        PROVE  FALSE
    <3>1. phase = "running"
      BY <1>2, <2>1 DEF ReplayInv
    <3>2. pub["main"].s \in pending /\ ~Filed("signal", pub["main"].s)
      BY <2>1, <3>1 DEF OwnInv, Tracking
    <3>3. \A k \in Kinds : ~Filed(k, pub["main"].s)
      <4>1. \A k \in Verdicts : ~Told(k, pub["main"].s)
        BY <3>2 DEF OwnInv
      <4> QED
        BY <3>2, <4>1 DEF Told, Verdicts, Kinds
    <3>4. pub["bot"].kind \in Kinds /\ Filed(pub["bot"].kind, pub["bot"].s)
      BY <1>2, <2>1, HandlingIs DEF ReplayInv
    <3> QED
      BY <2>1, <3>3, <3>4
  <2>2. ASSUME NEW u \in Threads, pub'[u].step \in {"track", "arm"}
        PROVE  pub'[u].s \notin done' \ again'
    <3>1. u # th /\ pub'[u] = pub[u] /\ pub[u].s \notin done \ again
      BY <1>2, <2>2 DEF AgainInv
    <3>2. CASE u = "bot"
      BY <1>1, <2>2, <3>1, <3>2 DEF AgainInv
    <3>3. CASE u = "main"
      BY <1>1, <2>1, <2>2, <3>1, <3>3 DEF Threads
    <3> QED
      BY <3>2, <3>3 DEF Threads
  <2>3. pub'["bot"].step \in {"track", "arm"} => pub'["bot"].s \in again'
    BY <1>1, <1>2 DEF AgainInv, Threads
  <2> QED
    BY <2>2, <2>3 DEF AgainInv
<1>8. DeadlineInv'
  BY <1>1, <1>2 DEF DeadlineInv, Shape
<1>9. DoneInv'
  <2>1. \A x : x = pub[th].s => Seen(x)'
    BY <1>2 DEF Seen, Handled
  <2> QED
    BY <1>1, <1>3, <2>1 DEF DoneInv
<1> QED
  BY <1>1, <1>3, <1>4, <1>5, <1>6, <1>7, <1>8, <1>9 DEF NoFalseWarning

\* The event store takes the event: what the bot publishes it has already.
LEMMA Keeping == ASSUME IInv, NEW th \in Threads, Keep(th) PROVE IInv'
<1> USE DEF IInv
<1>0. "main" \in Threads /\ "bot" \in Threads /\ \A u \in Threads : u = "main" \/ u = "bot"
  BY DEF Threads
<1> DEFINE r == Row(pub[th].kind, pub[th].s)
<1>1. /\ pub[th].step = "keep" /\ pub' = [pub EXCEPT ![th] = Idle]
      /\ rows' = IF r \in {rows[i] : i \in 1 .. Len(rows)} THEN rows ELSE Append(rows, r)
      /\ UNCHANGED << phase, todo, pending, deadlines, late, sent, judged, renewed, done, again, wrong,
                      excused >>
  BY DEF Keep, process, life, store, history
<1>2. /\ pub[th] # Idle /\ pub[th].s \in Signals /\ pub[th].kind \in Kinds /\ pub'[th] = Idle
      /\ \A u \in Threads : u # th => pub'[u] = pub[u]
      /\ pub' \in [Threads -> Handling \cup {Idle}] /\ rows \in Seq(Rows)
  BY <1>1, StepsAre, HandlingIs DEF Shape
<1>3. r \in Rows /\ r.s = pub[th].s /\ r.kind = pub[th].kind
  BY <1>2 DEF Row, Rows
<1>4. r \in {rows[i] : i \in 1 .. Len(rows)} <=> Filed(pub[th].kind, pub[th].s)
  BY DEF Filed
<1> HIDE DEF r
<1>5. /\ rows' \in Seq(Rows) /\ Len(rows) \in Nat /\ Len(rows') \in Nat /\ Len(rows') >= Len(rows)
      /\ \A i \in 1 .. Len(rows) : rows'[i] = rows[i]
      /\ \A i \in 1 .. Len(rows') : rows'[i] = r \/ (i <= Len(rows) /\ rows'[i] = rows[i])
      /\ \E i \in 1 .. Len(rows') : rows'[i] = r
      /\ \A i, j \in 1 .. Len(rows') : rows'[i] = rows'[j] => i = j
  <2>1. CASE r \in {rows[i] : i \in 1 .. Len(rows)}
    BY <1>1, <1>2, <2>1 DEF RowsInv
  <2>2. CASE r \notin {rows[i] : i \in 1 .. Len(rows)}
    <3>1. /\ rows' = Append(rows, r) /\ \A i \in 1 .. Len(rows) : rows[i] # r
      BY <1>1, <2>2
    <3>2. /\ rows' \in Seq(Rows) /\ Len(rows') = Len(rows) + 1 /\ Len(rows) \in Nat
          /\ \A i \in 1 .. Len(rows') : IF i = Len(rows) + 1 THEN rows'[i] = r
                                        ELSE i \in 1 .. Len(rows) /\ rows'[i] = rows[i]
      BY <1>2, <1>3, <3>1
    <3>3. \A i \in 1 .. Len(rows) : i \in 1 .. Len(rows') /\ i # Len(rows) + 1
      BY <3>2
    <3>4. Len(rows) + 1 \in 1 .. Len(rows')
      BY <3>2
    <3>5. \A i, j \in 1 .. Len(rows') : rows'[i] = rows'[j] => i = j
      BY <3>1, <3>2 DEF RowsInv
    <3>6. \A i \in 1 .. Len(rows') : rows'[i] = r \/ (i <= Len(rows) /\ rows'[i] = rows[i])
      BY <3>2
    <3> QED
      BY <3>2, <3>3, <3>4, <3>5, <3>6
  <2> QED
    BY <2>1, <2>2
<1>6. /\ \A k, x : Filed(k, x) => Filed(k, x)'
      /\ \A k, x : Filed(k, x)' => Filed(k, x) \/ (k = pub[th].kind /\ x = pub[th].s)
  <2>1. ASSUME NEW k, NEW x, Filed(k, x)
        PROVE  \E i \in 1 .. Len(rows') : rows'[i] = Row(k, x)
    <3>1. PICK i \in 1 .. Len(rows) : rows[i] = Row(k, x)
      BY <2>1 DEF Filed
    <3>2. i \in 1 .. Len(rows') /\ rows'[i] = Row(k, x)
      BY <1>5, <3>1
    <3> QED
      BY <3>2
  <2>2. ASSUME NEW k, NEW x, NEW i \in 1 .. Len(rows'), rows'[i] = Row(k, x)
        PROVE  Filed(k, x) \/ (k = pub[th].kind /\ x = pub[th].s)
    <3>1. CASE rows'[i] = r
      BY <1>3, <2>2, <3>1 DEF Row
    <3>2. CASE i <= Len(rows) /\ rows'[i] = rows[i]
      BY <1>5, <2>2, <3>2 DEF Filed
    <3> QED
      BY <1>5, <3>1, <3>2
  <2> QED
    BY <2>1, <2>2 DEF Filed
<1>7. /\ \A k \in Kinds : \A x : Told(k, x)' => Told(k, x)
      /\ \A u \in Threads : \A x : Has(u, x)' => Has(u, x)
      /\ \A x : ~Has(th, x)'
      /\ \A x : Seen(x) => Seen(x)'
  <2>1. \A k \in Kinds : \A x : Told(k, x)' => Told(k, x)
    <3>1. Idle.kind \notin Kinds
      BY DEF Idle, Kinds
    <3> QED
      BY <1>2, <1>6, <3>1 DEF Told
  <2>2. \A x : ~Has(th, x)'
    BY <1>2 DEF Has, Idle, Judging
  <2>3. \A u \in Threads : \A x : Has(u, x)' => Has(u, x)
    BY <1>2, <2>2 DEF Has
  <2>4. ASSUME NEW x, Seen(x) PROVE Seen(x)'
    <3>1. CASE x \in excused
      BY <1>1, <3>1 DEF Seen
    <3>2. CASE \E i \in 1 .. Len(rows) : rows[i].s = x
      <4>1. PICK i \in 1 .. Len(rows) : rows[i].s = x
        BY <3>2
      <4>2. i \in 1 .. Len(rows') /\ rows'[i].s = x
        BY <1>5, <4>1
      <4> QED
        BY <4>2 DEF Seen
    <3>3. CASE Handled(x)
      <4>1. PICK u \in Threads : pub[u] # Idle /\ pub[u].s = x
        BY <3>3 DEF Handled
      <4>2. CASE u = th
        BY <1>3, <1>5, <4>1, <4>2 DEF Seen
      <4>3. CASE u # th
        BY <1>2, <4>1, <4>3 DEF Seen, Handled
      <4> QED
        BY <4>2, <4>3
    <3> QED
      BY <2>4, <3>1, <3>2, <3>3 DEF Seen
  <2> QED
    BY <2>1, <2>2, <2>3, <2>4
<1>8. Shape'
  BY <1>1, <1>2, <1>5 DEF Shape
<1>9. RowsInv'
  BY <1>5, <1>7 DEF RowsInv, Kinds
<1>10. phase = "running" /\ th = "bot" => rows' = rows
  BY <1>1, <1>2, <1>4 DEF ReplayInv
<1>11. ReplayInv'
  <2>1. \A u \in Threads : \A i \in 1 .. Len(todo[u]) :
           \A k, x : k = todo[u][i].kind /\ x = todo[u][i].s => Filed(k, x)'
    BY <1>6 DEF ReplayInv
  <2>2. pub'["bot"] # Idle => \A k, x : k = pub'["bot"].kind /\ x = pub'["bot"].s => Filed(k, x)'
    BY <1>0, <1>2, <1>6 DEF ReplayInv
  <2>3. phase' # "running" => pub'["bot"] = Idle /\ todo'["bot"] = << >> /\ pending' = {}
    BY <1>0, <1>1, <1>2 DEF ReplayInv
  <2> QED
    BY <1>1, <2>1, <2>2, <2>3 DEF ReplayInv
<1>12. OwnInv'
  <2>1. \A x \in pending' : /\ \A k \in Verdicts : ~Told(k, x)'
                            /\ late'[x] = None /\ \A u \in Threads : ~Has(u, x)'
    BY <1>1, <1>7 DEF OwnInv, Verdicts, Kinds
  <2>2. \A x \in Signals : late'[x] # None => Seen(x)'
    BY <1>1, <1>7 DEF OwnInv
  <2>3. CASE th = "main"
    <3>1. pub'["main"].step \notin Tracking
      BY <1>2, <2>3 DEF Idle, Tracking
    <3>2. \A x : ~Has("main", x)'
      BY <1>7, <2>3
    <3> QED
      BY <2>1, <2>2, <3>1, <3>2 DEF OwnInv
  <2>4. CASE th = "bot" /\ phase = "running"
    <3>1. rows' = rows /\ pub'["main"] = pub["main"]
      BY <1>0, <1>2, <1>10, <2>4
    <3>2. \A k, x : Filed(k, x)' <=> Filed(k, x)
      BY <3>1 DEF Filed
    <3>3. \A x : x = pub'["main"].s /\ pub'["main"].step \in Tracking =>
             x \in pending' /\ ~Filed("signal", x)'
      BY <1>1, <2>4, <3>1, <3>2 DEF OwnInv
    <3>4. \A x \in Signals : Has("main", x)' => late'[x] = None /\ ~Filed("risk", x)' /\ ~Has("bot", x)'
      BY <1>0, <1>1, <1>7, <2>4, <3>2 DEF OwnInv
    <3> QED
      BY <2>1, <2>2, <3>3, <3>4 DEF OwnInv
  <2>5. CASE phase # "running"
    BY <1>1, <2>1, <2>2, <2>5 DEF OwnInv
  <2> QED
    BY <1>0, <2>3, <2>4, <2>5
<1>13. KeyInv'
  <2>1. \A u \in Threads : \A x : (pub'[u].step = "enqueue" /\ pub'[u].s = x)
                               <=> (pub[u].step = "enqueue" /\ pub[u].s = x)
    <3>1. pub'[th].step # "enqueue"
      BY <1>2 DEF Idle
    <3> QED
      BY <1>1, <1>2, <3>1
  <2>2. \A x : (\E u \in Threads : pub'[u].step = "enqueue" /\ pub'[u].s = x)
                <=> (\E u \in Threads : pub[u].step = "enqueue" /\ pub[u].s = x)
    BY <2>1, Zenon
  <2>3. \A x : Coming(x)' = Coming(x) /\ Key(x)' = Key(x)
    BY <1>1, <2>2 DEF Coming, Key
  <2> QED
    BY <1>1, <2>3 DEF KeyInv
<1>14. MarkInv'
  <2>1. \A x : Duplicate(x)' <=> Duplicate(x)
    BY <1>1 DEF Duplicate
  <2>2. \A u \in Threads : pub'[u].step = "mark" => pub'[u] = pub[u]
    BY <1>2 DEF Idle
  <2> QED
    BY <2>1, <2>2 DEF MarkInv
<1>15. AgainInv'
  <2>1. \A u \in Threads : pub'[u].step \in {"track", "arm"} => pub'[u] = pub[u]
    BY <1>2 DEF Idle
  <2> QED
    BY <1>0, <1>1, <2>1 DEF AgainInv
<1> QED
  BY <1>1, <1>7, <1>8, <1>9, <1>11, <1>12, <1>13, <1>14, <1>15 DEF DoneInv, DeadlineInv, NoFalseWarning

-----------------------------------------------------------------------------
(* The timer, crashes, recoveries and time.                                *)

\* A due deadline is not that of a signal this process is done with.
LEMMA Expiring == ASSUME IInv, Expire PROVE IInv'
<1> USE DEF IInv
<1>1. /\ deadlines' = [s \in Signals |-> IF s \in Due THEN None ELSE deadlines[s]]
      /\ wrong' = wrong \cup {s \in Due : s \in done \ again}
      /\ UNCHANGED << phase, pub, todo, rows, sent, late, judged, renewed, done, again, pending,
                      excused >>
  BY DEF Expire, process, life
<1>2. /\ \A k, s : Filed(k, s)' <=> Filed(k, s)
      /\ \A k, s : Told(k, s)' <=> Told(k, s)
      /\ \A th, s : Has(th, s)' <=> Has(th, s)
      /\ \A s : Coming(s)' = Coming(s) /\ Key(s)' = Key(s)
      /\ \A s : (Duplicate(s)' <=> Duplicate(s))
      /\ \A s : Seen(s) => Seen(s)'
  BY <1>1 DEF Filed, Told, Has, Coming, Key, Duplicate, Seen, Handled
<1>3. Shape'
  BY <1>1, NoneIs DEF Shape
<1>4. RowsInv' /\ ReplayInv'
  BY <1>1, <1>2 DEF RowsInv, ReplayInv
<1>5. OwnInv' /\ DoneInv'
  BY <1>1, <1>2 DEF OwnInv, DoneInv
<1>6. KeyInv' /\ MarkInv'
  BY <1>1, <1>2 DEF KeyInv, MarkInv
<1>7. DeadlineInv'
  BY <1>1 DEF DeadlineInv, Shape
<1>8. NoFalseWarning'
  <2>1. {s \in Due : s \in done \ again} = {}
    BY NoneIs DEF Due, DeadlineInv
  <2> QED
    BY <1>1, <2>1 DEF NoFalseWarning
<1> QED
  BY <1>1, <1>3, <1>4, <1>5, <1>6, <1>7, <1>8 DEF AgainInv

\* What the threads had is lost and accounted for.
LEMMA Crashing == ASSUME IInv, Crash PROVE IInv'
<1> USE DEF IInv
<1>1. /\ phase' = "down" /\ pending' = {} /\ done' = {} /\ excused' = excused \cup InMemory
      /\ todo' = [th \in Threads |-> << >>] /\ pub' = [th \in Threads |-> Idle]
      /\ UNCHANGED << rows, sent, late, deadlines, judged, renewed, again, wrong >>
  BY DEF Crash, store
<1>2. \A th \in Threads : pub'[th] = Idle /\ todo'[th] = << >> /\ Len(todo'[th]) = 0
  BY <1>1
<1>3. "bot" \in Threads
  BY DEF Threads
<1>4. Shape'
  BY <1>1 DEF Shape
<1>5. RowsInv'
  <2>1. Idle.kind \notin Kinds
    BY DEF Idle, Kinds
  <2>2. \A k \in Kinds : \A x : Told(k, x)' => Told(k, x)
    BY <1>1, <1>2, <2>1 DEF Told, Filed
  <2> QED
    BY <1>1, <2>2 DEF RowsInv, Kinds
<1>6. ReplayInv'
  BY <1>1, <1>2, <1>3 DEF ReplayInv
<1>7. OwnInv'
  <2>1. ASSUME NEW x \in Signals, Seen(x) PROVE Seen(x)'
    <3>1. Handled(x) => x \in InMemory
      BY DEF Handled, InMemory
    <3> QED
      BY <1>1, <2>1, <3>1 DEF Seen
  <2> QED
    BY <1>1, <2>1 DEF OwnInv
<1>8. KeyInv'
  <2> SUFFICES ASSUME NEW s \in Signals PROVE (judged[s] + Coming(s) <= renewed[s] + Key(s))'
    BY DEF KeyInv
  <2>1. /\ judged[s] + Coming(s) <= renewed[s] + Key(s) /\ Coming(s) \in {0, 1}
        /\ judged[s] \in Nat /\ renewed[s] \in Nat /\ Key(s) \in {0, 1}
    BY DEF Shape, KeyInv, Coming, Key
  <2>2. Coming(s)' = 0 /\ Key(s)' = Key(s)
    BY <1>1, <1>2 DEF Coming, Key, Idle
  <2> QED
    BY <1>1, <2>1, <2>2
<1>9. MarkInv' /\ AgainInv'
  BY <1>2, <1>3 DEF MarkInv, AgainInv, Idle
<1> QED
  BY <1>1, <1>4, <1>5, <1>6, <1>7, <1>8, <1>9 DEF DoneInv, DeadlineInv, NoFalseWarning

\* What recovery takes from the event store is stored.
LEMMA RecoveryIs ==
    ASSUME Shape, NEW th \in Threads, Recovery(th)
    PROVE  /\ todo' \in [Threads -> Seq(Rows)]
           /\ \A u \in Threads : u # th => todo'[u] = todo[u]
           /\ \A i \in 1 .. Len(todo'[th]) : Filed(todo'[th][i].kind, todo'[th][i].s)
<1>1. PICK n \in 0 .. Len(rows) :
         todo' = [todo EXCEPT ![th] = [i \in 1 .. n |-> rows[Len(rows) + 1 - i]]]
  BY DEF Recovery
<1> DEFINE q == [i \in 1 .. n |-> rows[Len(rows) + 1 - i]]
<1>2. rows \in Seq(Rows) /\ Len(rows) \in Nat /\ n \in Nat
  BY DEF Shape
<1>3. \A i \in 1 .. n : Len(rows) + 1 - i \in 1 .. Len(rows)
  BY <1>2
<1>4. q \in Seq(Rows) /\ Len(q) = n
  <2>1. \A i \in 1 .. n : rows[Len(rows) + 1 - i] \in Rows
    BY <1>2, <1>3
  <2> QED
    BY <1>2, <2>1
<1>5. \A i \in 1 .. n : Filed(q[i].kind, q[i].s)
  BY <1>2, <1>3, RowIs
<1>6. todo' = [todo EXCEPT ![th] = q]
  BY <1>1
<1> HIDE DEF q
<1>7. /\ todo'[th] = q /\ todo' \in [Threads -> Seq(Rows)]
      /\ \A u \in Threads : u # th => todo'[u] = todo[u]
  BY <1>4, <1>6 DEF Shape
<1> QED
  BY <1>4, <1>5, <1>7

LEMMA Recovering == ASSUME IInv, Start \/ Run \/ Recover PROVE IInv'
<1> USE DEF IInv
<1>0. "main" \in Threads /\ "bot" \in Threads /\ \A u \in Threads : u = "main" \/ u = "bot"
  BY DEF Threads
<1>1. UNCHANGED << pub, rows, sent, late, deadlines, judged, renewed, done, again, pending, excused,
                   wrong >>
  BY DEF Start, Run, Recover, threads, store, history
<1>2. /\ \A k, s : Filed(k, s)' <=> Filed(k, s)
      /\ \A k, s : Told(k, s)' <=> Told(k, s)
      /\ \A th, s : Has(th, s)' <=> Has(th, s)
      /\ \A s : Coming(s)' = Coming(s) /\ Key(s)' = Key(s)
      /\ \A s : (Duplicate(s)' <=> Duplicate(s))
      /\ \A s : Seen(s) => Seen(s)'
  BY <1>1 DEF Filed, Told, Has, Coming, Key, Duplicate, Seen, Handled
<1>3. /\ phase' \in {"recovery", "running"}
      /\ todo' \in [Threads -> Seq(Rows)]
      /\ \A u \in Threads : \A i \in 1 .. Len(todo'[u]) : Filed(todo'[u][i].kind, todo'[u][i].s)
      /\ phase' = "recovery" => phase # "running" /\ todo'["bot"] = todo["bot"]
      /\ phase' = "running" => /\ todo'["main"] = << >>
                               /\ phase # "running" => pub["main"] = Idle
  <2>1. CASE Start
    <3>1. Recovery("main") /\ phase = "down" /\ phase' = "recovery"
      BY <2>1 DEF Start, Up
    <3> QED
      BY <1>0, <3>1, RecoveryIs DEF ReplayInv
  <2>2. CASE Run
    BY <2>2 DEF Run, Shape, ReplayInv
  <2>3. CASE Recover
    <3>1. Recovery("bot") /\ phase = "running" /\ phase' = "running"
      BY <2>3 DEF Recover
    <3> QED
      BY <1>0, <3>1, RecoveryIs DEF ReplayInv
  <2> QED
    BY <2>1, <2>2, <2>3
<1>4. Shape' /\ RowsInv'
  BY <1>1, <1>2, <1>3 DEF Shape, RowsInv
<1>5. ReplayInv'
  BY <1>1, <1>3 DEF ReplayInv, Filed
<1>6. OwnInv'
  <2>1. CASE phase = "running" \/ phase' = "recovery"
    BY <1>1, <1>2, <1>3, <2>1 DEF OwnInv
  <2>2. CASE phase' = "running" /\ phase # "running"
    <3>1. pub["main"].step \notin Tracking /\ \A x : ~Has("main", x)
      BY <1>3, <2>2 DEF Idle, Tracking, Judging, Has
    <3> QED
      BY <1>1, <1>2, <3>1 DEF OwnInv
  <2> QED
    BY <1>3, <2>1, <2>2
<1>7. KeyInv' /\ MarkInv'
  BY <1>1, <1>2 DEF KeyInv, MarkInv
<1> QED
  BY <1>1, <1>2, <1>4, <1>5, <1>6, <1>7 DEF DoneInv, AgainInv, DeadlineInv, NoFalseWarning

LEMMA Ticking == ASSUME IInv, Tick PROVE IInv'
<1> USE DEF IInv
<1>1. /\ sent' = [s \in Signals |-> Older(sent[s], DedupTTL)]
      /\ late' = [s \in Signals |-> Older(late[s], SignalTTL)]
      /\ deadlines' = [s \in Signals |-> IF deadlines[s] \in {None, 0} THEN deadlines[s]
                                         ELSE deadlines[s] - 1]
      /\ UNCHANGED << phase, pub, todo, rows, judged, renewed, done, again, wrong, pending, excused >>
  BY DEF Tick, process, life, threads, history
<1>2. \A s \in Signals : /\ sent'[s] \in 0 .. DedupTTL \cup {None}
                         /\ sent'[s] = None <=> sent[s] = None
                         /\ Fresh(sent'[s], DedupTTL) => Fresh(sent[s], DedupTTL)
  BY <1>1, OlderKey DEF Shape
<1>3. \A s \in Signals : late'[s] \in Nat /\ (late'[s] # None => late[s] # None)
  BY <1>1, NoneIs DEF Shape, Older
<1>4. \A s \in Signals : deadlines'[s] \in Nat /\ (deadlines[s] = None => deadlines'[s] = None)
  BY <1>1, NoneIs DEF Shape
<1>5. Shape'
  BY <1>1, <1>2, <1>3, <1>4 DEF Shape
<1>6. /\ \A k, s : Filed(k, s)' <=> Filed(k, s)
      /\ \A k, s : Told(k, s)' <=> Told(k, s)
      /\ \A th, s : Has(th, s)' <=> Has(th, s)
      /\ \A s : Coming(s)' = Coming(s)
      /\ \A s \in Signals : Key(s)' = Key(s)
      /\ \A s : Seen(s) => Seen(s)'
  BY <1>1, <1>2 DEF Filed, Told, Has, Coming, Key, Seen, Handled
<1>7. RowsInv' /\ ReplayInv'
  BY <1>1, <1>6 DEF RowsInv, ReplayInv
<1>8. OwnInv'
  <2>1. \A x \in pending : x \in Signals
    BY DEF Shape
  <2> QED
    BY <1>1, <1>3, <1>6, <2>1 DEF OwnInv
<1>9. KeyInv'
  BY <1>1, <1>6 DEF KeyInv
<1>10. MarkInv'
  <2>1. \A u \in Threads : pub[u].step = "mark" => pub[u].s \in Signals
    BY StepsAre, HandlingIs
  <2> QED
    BY <1>1, <1>2, <2>1 DEF MarkInv, Duplicate
<1>11. DeadlineInv'
  BY <1>1, <1>4 DEF DeadlineInv, Shape
<1> QED
  BY <1>1, <1>5, <1>6, <1>7, <1>8, <1>9, <1>10, <1>11 DEF DoneInv, AgainInv, NoFalseWarning

LEMMA InvStep == IInv /\ [Next]_vars => IInv'
<1> SUFFICES ASSUME IInv, [Next]_vars PROVE IInv'
  OBVIOUS
<1>1. CASE \E s \in Signals : Generate(s) \/ Suppress(s) \/ Judge(s)
  BY <1>1, Generating, Suppressing, JudgingIt
<1>2. ASSUME NEW th \in Threads, Replay(th) \/ Handle(th) PROVE IInv'
  BY <1>2, Replaying, Moving, Arming, Marking, Enqueueing, Cancelling, Keeping DEF Handle
<1>3. CASE Expire
  BY <1>3, Expiring
<1>4. CASE (\E s \in Signals : Warn(s)) \/ Sender \/ Pause \/ UNCHANGED vars
  <2>1. UNCHANGED << phase, pub, todo, rows, sent, judged, renewed, deadlines, late, done, again,
                     wrong, pending >>
    BY <1>4 DEF Warn, Sender, Take, Send, Swallow, Fail, SenderOnly, Pause, process, life, threads,
                store, history, vars
  <2>2. excused \subseteq excused'
    BY <1>4 DEF Warn, Enqueue, Sender, Take, Send, Swallow, Fail, SenderOnly, Pause, history, vars
  <2> QED
    BY <2>1, <2>2, OthersKeep
<1>5. CASE Crash
  BY <1>5, Crashing
<1>6. CASE Start \/ Run \/ Recover
  BY <1>6, Recovering
<1>7. CASE Tick
  BY <1>7, Ticking
<1> QED
  BY <1>1, <1>2, <1>3, <1>4, <1>5, <1>6, <1>7 DEF Next, Timer

-----------------------------------------------------------------------------
\* A verdict is given to the sender once, and once more only for each time its key had
\* expired (telegram_audit_forwarder.py:484-508), with any number of restarts and of /recover
\* commands, whose thread publishes what is stored while the main thread trades on.
THEOREM IntentsGoOnce == Spec => []IntentOnce
<1>1. IInv => IntentOnce
  <2> SUFFICES ASSUME IInv, NEW s \in Signals PROVE judged[s] <= 1 + renewed[s]
    BY DEF IntentOnce
  <2>1. /\ judged[s] + Coming(s) <= renewed[s] + Key(s) /\ Coming(s) \in {0, 1}
        /\ judged[s] \in Nat /\ renewed[s] \in Nat /\ Key(s) \in {0, 1}
    BY DEF IInv, Shape, KeyInv, Coming, Key
  <2> QED
    BY <2>1
<1> QED
  BY <1>1, InvInit, InvStep, PTL DEF Spec

\* A process that is done with a signal's verdict never finds the signal without one,
\* unless recovery, at the start or by /recover, published it again.
THEOREM NoWarningIsFalse == Spec => []NoFalseWarning
<1>1. IInv => NoFalseWarning
  BY DEF IInv
<1> QED
  BY <1>1, InvInit, InvStep, PTL DEF Spec

-----------------------------------------------------------------------------
(* The event store keeps one verdict of a signal at most.                  *)

\* A row is told from the others by its signal and by whether it is a verdict.
LEMMA RowFields ==
    ASSUME NEW q \in Seq(Rows), NEW i \in 1 .. Len(q)
    PROVE  q[i].s \in Signals /\ q[i].kind \in Kinds
<1>1. q[i] \in Rows
  OBVIOUS
<1> QED
  BY <1>1 DEF Rows

LEMMA RowsAreFew ==
    ASSUME IInv, IsFiniteSet(Signals)
    PROVE  Len(rows) <= 2 * Cardinality(Signals)
<1> DEFINE f == [i \in 1 .. Len(rows) |-> << rows[i].s, IF rows[i].kind = "signal" THEN 0 ELSE 1 >>]
<1>1. rows \in Seq(Rows) /\ Len(rows) \in Nat
  BY DEF IInv, Shape
<1>2. f \in Injection(1 .. Len(rows), Signals \X (0 .. 1))
  <2>1. f \in [1 .. Len(rows) -> Signals \X (0 .. 1)]
    BY <1>1, RowFields
  <2>2. ASSUME NEW i \in 1 .. Len(rows), NEW j \in 1 .. Len(rows), f[i] = f[j] PROVE i = j
    <3>1. rows[i] \in Rows /\ rows[j] \in Rows
      BY <1>1
    <3>2. rows[i].s = rows[j].s /\ ((rows[i].kind = "signal") <=> (rows[j].kind = "signal"))
      BY <2>2
    <3>3. rows[i] = Row(rows[i].kind, rows[i].s) /\ rows[j] = Row(rows[j].kind, rows[j].s)
      BY <3>1 DEF Rows, Row
    <3>4. PICK s \in Signals, k \in Kinds, l \in Kinds :
             s = rows[i].s /\ k = rows[i].kind /\ l = rows[j].kind
      BY <3>1 DEF Rows
    <3>5. Told(k, s) /\ Told(l, s)
      BY <3>2, <3>3, <3>4 DEF Told, Filed
    <3>6. k = l
      BY <3>2, <3>4, <3>5 DEF IInv, RowsInv, Kinds
    <3> QED
      BY <3>2, <3>3, <3>4, <3>6 DEF IInv, RowsInv
  <2> QED
    BY <2>1, <2>2, Fun_IsInj
<1>3. IsFiniteSet(Signals \X (0 .. 1)) /\ Cardinality(Signals \X (0 .. 1)) = Cardinality(Signals) * 2
  <2>1. IsFiniteSet(0 .. 1) /\ Cardinality(0 .. 1) = IF 0 > 1 THEN 0 ELSE 1 - 0 + 1
    <3>1. \A a, b \in Int : /\ IsFiniteSet(a .. b)
                            /\ Cardinality(a .. b) = IF a > b THEN 0 ELSE b - a + 1
      BY FS_Interval
    <3>2. 0 \in Int /\ 1 \in Int
      OBVIOUS
    <3> QED
      BY <3>1, <3>2, Zenon
  <2>2. Cardinality(0 .. 1) = 2
    BY <2>1
  <2> QED
    BY <2>1, <2>2, FS_Product
<1>4. Len(rows) <= Cardinality(Signals \X (0 .. 1))
  <2>1. Cardinality(1 .. Len(rows)) <= Cardinality(Signals \X (0 .. 1))
    BY <1>2, <1>3, FS_Injection
  <2>2. Cardinality(1 .. Len(rows)) = Len(rows)
    BY <1>1, FS_Interval
  <2> QED
    BY <2>1, <2>2
<1> QED
  BY <1>1, <1>3, <1>4, FS_CardinalityType

-----------------------------------------------------------------------------
(* The types.                                                              *)

MailInv ==
    /\ {raises, paused} \subseteq BOOLEAN /\ recovers \in 0 .. MaxRecovers
    /\ starts \in 1 .. MaxRestarts + 1 /\ (phase = "down" => starts <= MaxRestarts)
    /\ queue \in Seq(Messages) /\ Len(queue) <= QueueCap
    /\ sender = Free \/ sender \in [about : Messages, failures : 0 .. MaxSendRetries - 1]
    /\ signals \in [Signals -> 0 .. SignalTTL \cup {None}]
    /\ deadlines \in [Signals -> 0 .. Timeout \cup {None}]
    /\ late \in [Signals -> 0 .. SignalTTL \cup {None}]
    /\ timer \cup again \cup excused \cup wrong \subseteq Signals
    /\ dead \cup chat \subseteq Messages

LEMMA TimesAreNat ==
    /\ Timeout \in Nat \ {0} /\ SignalTTL \in Nat \ {0} /\ QueueCap \in Nat \ {0}
    /\ MaxSendRetries \in Nat \ {0} /\ MaxRestarts \in Nat /\ MaxRecovers \in Nat
    /\ None \in Nat /\ None > SignalTTL /\ None > Timeout
BY ConstantsAssumption DEF None

LEMMA MailInit == Init => MailInv
<1> SUFFICES ASSUME Init PROVE MailInv
  OBVIOUS
<1>1. signals \in [Signals -> 0 .. SignalTTL \cup {None}]
      /\ deadlines \in [Signals -> 0 .. Timeout \cup {None}]
      /\ late \in [Signals -> 0 .. SignalTTL \cup {None}]
  BY DEF Init
<1>2. queue \in Seq(Messages) /\ Len(queue) <= QueueCap
  BY TimesAreNat DEF Init
<1>3. {raises, FALSE} \subseteq BOOLEAN /\ 0 \in 0 .. MaxRecovers /\ starts \in 1 .. MaxRestarts + 1
  BY TimesAreNat DEF Init
<1> QED
  BY <1>1, <1>2, <1>3 DEF Init, MailInv

LEMMA EnqueueIsTyped ==
    ASSUME MailInv, NEW m \in Messages, Enqueue(m)
    PROVE  queue' \in Seq(Messages) /\ Len(queue') <= QueueCap /\ excused' \subseteq Signals
<1>1. m[2] \in Signals
  BY DEF Messages
<1>2. CASE Len(queue) < QueueCap
  BY <1>2, TimesAreNat DEF Enqueue, MailInv
<1>3. CASE ~ (Len(queue) < QueueCap)
  BY <1>1, <1>3 DEF Enqueue, MailInv
<1> QED
  BY <1>2, <1>3

LEMMA MailHanded ==
    ASSUME IInv, MailInv,
           \/ \E th \in Threads : Replay(th)
           \/ \E s \in Signals : Generate(s) \/ Suppress(s) \/ Judge(s)
    PROVE  MailInv'
<1>1. \A th \in Threads : todo[th] # << >> => Head(todo[th]).s \in Signals
  <2>1. \A th \in Threads : todo[th] \in Seq(Rows)
    BY DEF IInv, Shape
  <2>2. \A th \in Threads : todo[th] # << >> => Head(todo[th]) \in Rows
    BY <2>1
  <2> QED
    BY <2>2 DEF Rows
<1>2. /\ UNCHANGED << raises, phase, starts, recovers, paused, queue, sender, signals, deadlines,
                      timer, late, wrong, dead, chat >>
      /\ excused' \subseteq excused \cup Signals /\ again' \subseteq again \cup Signals
  <2>1. ASSUME NEW th \in Threads, Replay(th) PROVE <1>2!:
    BY <1>1, <2>1 DEF Replay, Hand, life, store
  <2>2. ASSUME NEW s \in Signals, Generate(s) \/ Suppress(s) \/ Judge(s) PROVE <1>2!:
    BY <2>2 DEF Generate, Suppress, Judge, Hand, life, store, threads, history
  <2> QED
    BY <2>1, <2>2
<1> QED
  BY <1>2 DEF MailInv

LEMMA MailHandled == ASSUME IInv, MailInv, NEW th \in Threads, Handle(th) PROVE MailInv'
<1> USE DEF MailInv
<1>1. pub[th].s \in Signals
  <2>1. pub[th].step \in Steps
    BY StepsAre DEF Handle, Track, Arm, PopLate, Look, RecordLate, CheckDedup, MarkSent,
                    EnqueueVerdict, Cancel, Keep, At
  <2> QED
    BY <2>1, HandlingIs DEF IInv
<1>2. UNCHANGED << raises, phase, starts, recovers, paused, sender, timer, again, wrong, dead, chat >>
  BY DEF Handle, Track, Arm, PopLate, Look, RecordLate, CheckDedup, MarkSent, EnqueueVerdict, Cancel,
         Keep, PubOnly, process, life, history
<1>3. CASE Track(th)
  <2>1. signals' \in [Signals -> 0 .. SignalTTL \cup {None}]
    BY <1>1, <1>3, TimesAreNat DEF Track
  <2> QED
    BY <1>2, <1>3, <2>1 DEF Track, history
<1>4. CASE Arm(th)
  <2>1. deadlines' \in [Signals -> 0 .. Timeout \cup {None}]
    BY <1>1, <1>4, TimesAreNat DEF Arm
  <2> QED
    BY <1>2, <1>4, <2>1 DEF Arm, history
<1>5. CASE PopLate(th) \/ RecordLate(th)
  <2>1. late' \in [Signals -> 0 .. SignalTTL \cup {None}]
    BY <1>1, <1>5, TimesAreNat DEF PopLate, RecordLate
  <2> QED
    BY <1>2, <1>5, <2>1 DEF PopLate, RecordLate, history
<1>6. CASE Look(th) \/ CheckDedup(th) \/ MarkSent(th) \/ Keep(th)
  <2>1. UNCHANGED << queue, signals, deadlines, late, excused >>
    BY <1>6 DEF Look, CheckDedup, MarkSent, Keep, store, history
  <2> QED
    BY <1>2, <2>1
<1>7. CASE EnqueueVerdict(th)
  <2>1. << "verdict", pub[th].s >> \in Messages
    BY <1>1 DEF Messages
  <2>2. queue' \in Seq(Messages) /\ Len(queue') <= QueueCap /\ excused' \subseteq Signals
    BY <1>7, <2>1, EnqueueIsTyped DEF EnqueueVerdict
  <2> QED
    BY <1>2, <1>7, <2>2 DEF EnqueueVerdict, store
<1>8. CASE Cancel(th)
  <2>1. deadlines' \in [Signals -> 0 .. Timeout \cup {None}] /\ excused' \subseteq excused \cup Signals
    BY <1>1, <1>8 DEF Cancel
  <2> QED
    BY <1>2, <1>8, <2>1 DEF Cancel
<1> QED
  BY <1>3, <1>4, <1>5, <1>6, <1>7, <1>8 DEF Handle

LEMMA MailTimed == ASSUME MailInv, Timer PROVE MailInv'
<1> USE DEF MailInv
<1>1. CASE Expire
  <2>1. deadlines' \in [Signals -> 0 .. Timeout \cup {None}]
    BY <1>1 DEF Expire
  <2>2. timer' \cup wrong' \subseteq Signals
    BY <1>1 DEF Expire, Due
  <2> QED
    BY <1>1, <2>1, <2>2 DEF Expire, process, life
<1>2. ASSUME NEW s \in Signals, Warn(s) PROVE MailInv'
  <2>1. << "warning", s >> \in Messages
    BY DEF Messages
  <2>2. queue' \in Seq(Messages) /\ Len(queue') <= QueueCap /\ excused' \subseteq Signals
    BY <1>2, <2>1, EnqueueIsTyped DEF Warn
  <2> QED
    BY <1>2, <2>2 DEF Warn, process, life, store
<1> QED
  BY <1>1, <1>2 DEF Timer

LEMMA MailSent == ASSUME MailInv, Sender PROVE MailInv'
<1> USE DEF MailInv
<1> DEFINE Kept == UNCHANGED << raises, phase, starts, recovers, paused, signals, deadlines, timer,
                                late, again, wrong >>
<1>1. Kept
  BY DEF Sender, Take, Send, Swallow, Fail, SenderOnly, process, life, store
<1>2. CASE Take
  <2>1. Head(queue) \in Messages /\ queue' \in Seq(Messages) /\ Len(queue') <= QueueCap
    BY <1>2, TimesAreNat DEF Take
  <2>2. sender' \in [about : Messages, failures : 0 .. MaxSendRetries - 1]
    BY <1>2, <2>1, TimesAreNat DEF Take, Free
  <2> QED
    BY <1>1, <1>2, <2>1, <2>2 DEF Take
<1>3. CASE Send \/ Swallow \/ Fail
  <2>1. sender \in [about : Messages, failures : 0 .. MaxSendRetries - 1]
    BY <1>3 DEF Send, Swallow, Fail, Sending
  <2>2. sender.about \in Messages /\ sender.about[2] \in Signals
    BY <2>1 DEF Messages
  <2>3. sender' = Free \/ sender' \in [about : Messages, failures : 0 .. MaxSendRetries - 1]
    BY <1>3, <2>1, TimesAreNat DEF Send, Swallow, Fail
  <2>4. /\ UNCHANGED queue /\ excused' \subseteq excused \cup {sender.about[2]}
        /\ dead' \cup chat' \subseteq dead \cup chat \cup {sender.about}
    BY <1>3 DEF Send, Swallow, Fail
  <2> QED
    BY <1>1, <2>2, <2>3, <2>4
<1> QED
  BY <1>2, <1>3 DEF Sender

LEMMA MailEnding == ASSUME IInv, MailInv, Crash \/ Start \/ Run \/ Recover \/ Pause PROVE MailInv'
<1> USE DEF MailInv
<1>1. CASE Crash
  <2>1. InMemory \subseteq Signals
    <3>1. \A i \in 1 .. Len(queue) : queue[i][2] \in Signals
      BY DEF Messages
    <3>2. sender # Free => sender.about[2] \in Signals
      BY DEF Messages
    <3>3. \A th \in Threads : pub[th] # Idle => pub[th].s \in Signals
      BY HandlingIs DEF IInv
    <3>4. pending \subseteq Signals
      BY DEF IInv, Shape
    <3> QED
      BY <3>1, <3>2, <3>3, <3>4 DEF InMemory, Sending
  <2>2. {raises, FALSE} \subseteq BOOLEAN /\ starts <= MaxRestarts
    BY <1>1 DEF Crash
  <2>3. << >> \in Seq(Messages) /\ Len(<< >>) <= QueueCap
    BY TimesAreNat
  <2> QED
    BY <1>1, <2>1, <2>2, <2>3 DEF Crash, store
<1>2. CASE Start
  <2>1. starts + 1 \in 1 .. MaxRestarts + 1 /\ phase' # "down"
    BY <1>2, TimesAreNat DEF Start, Up
  <2> QED
    BY <1>2, <2>1 DEF Start, threads, store, history
<1>3. CASE Run
  BY <1>3 DEF Run, threads, store, history
<1>4. CASE Recover
  <2>1. recovers + 1 \in 0 .. MaxRecovers
    BY <1>4, TimesAreNat DEF Recover
  <2> QED
    BY <1>4, <2>1 DEF Recover, threads, store, history
<1>5. CASE Pause
  <2>1. {raises, ~paused} \subseteq BOOLEAN
    OBVIOUS
  <2> QED
    BY <1>5, <2>1 DEF Pause, life, threads, store, history
<1> QED
  BY <1>1, <1>2, <1>3, <1>4, <1>5

LEMMA MailTicking == ASSUME MailInv, Tick PROVE MailInv'
<1> USE DEF MailInv
<1>1. signals' \in [Signals -> 0 .. SignalTTL \cup {None}]
  <2>1. \A s \in Signals : Older(signals[s], SignalTTL) \in 0 .. SignalTTL \cup {None}
    BY TimesAreNat DEF Older
  <2> QED
    BY <2>1 DEF Tick
<1>2. deadlines' \in [Signals -> 0 .. Timeout \cup {None}]
  <2>1. \A s \in Signals : deadlines[s] \notin {None, 0} => deadlines[s] - 1 \in 0 .. Timeout
    BY TimesAreNat
  <2> QED
    BY <2>1 DEF Tick
<1>3. late' \in [Signals -> 0 .. SignalTTL \cup {None}]
  <2>1. \A s \in Signals : Older(late[s], SignalTTL) \in 0 .. SignalTTL \cup {None}
    BY TimesAreNat DEF Older
  <2> QED
    BY <2>1 DEF Tick
<1> QED
  BY <1>1, <1>2, <1>3 DEF Tick, process, life, threads, history

LEMMA MailStep == IInv /\ MailInv /\ [Next]_vars => MailInv'
<1> SUFFICES ASSUME IInv, MailInv, [Next]_vars PROVE MailInv'
  OBVIOUS
<1>1. CASE UNCHANGED vars
  BY <1>1 DEF vars, life, MailInv
<1> QED
  BY <1>1, MailHanded, MailHandled, MailTimed, MailSent, MailEnding, MailTicking DEF Next

\* Every variable keeps its type, for finitely many signals: the sender's queue stays within
\* its limit (telegram_audit_forwarder.py:302), a message is not tried more often than it may be, and
\* the event store has at most the signal and one verdict of each, however often a restart or
\* a /recover beside the trading thread publishes what it has once more.
THEOREM TypeCorrect == ASSUME IsFiniteSet(Signals) PROVE Spec => []TypeOK
<1>1. IInv /\ MailInv => TypeOK
  <2> SUFFICES ASSUME IInv, MailInv PROVE TypeOK
    OBVIOUS
  <2>1. \A th \in Threads : pub[th] = Idle \/ pub[th].s \in Signals
    BY HandlingIs DEF IInv
  <2>2. \A i \in 1 .. Len(rows) : rows[i].s \in Signals
    BY RowFields DEF IInv, Shape
  <2>3. /\ pending \cup done \subseteq Signals /\ phase \in {"down", "recovery", "running"}
        /\ \A s \in Signals : sent[s] \in 0 .. DedupTTL \cup {None}
    BY DEF IInv, Shape
  <2> QED
    BY <2>1, <2>2, <2>3, RowsAreFew DEF MailInv, TypeOK
<1> QED
  BY <1>1, InvInit, InvStep, MailInit, MailStep, PTL DEF Spec
=============================================================================
