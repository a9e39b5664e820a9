------------------------------ MODULE Delivery ------------------------------
(***************************************************************************)
(* What becomes of a signal in the operator's chat: TelegramAuditForwarder *)
(* (src/notifications/telegram_audit_forwarder.py) over a durable          *)
(* SqliteCorrelationStore (correlation_store.py).  The main thread hands   *)
(* it every event of the bus, after a restart those of the event store     *)
(* once more, newest first, and at /recover the bot's thread does so while *)
(* main trades on; a timer thread warns of signals without a verdict; a    *)
(* sender thread drains the queue.                                         *)
(*                                                                         *)
(* Of the events only SignalGenerated, RiskEvaluated and SignalRejected    *)
(* are kept, and the intent of a signal is named by the signal.  Time goes *)
(* in ticks of the verdict's timeout.                                      *)
(***************************************************************************)
EXTENDS Naturals, Sequences, FiniteSets

CONSTANTS
    Signals,
    Timeout,        \* risk_verdict_timeout_seconds = 60, in ticks
    SignalTTL,      \* DEFAULT_SIGNAL_TTL = 600
    DedupTTL,       \* DEFAULT_DEDUP_TTL = 3600
    QueueCap,       \* the queue's maxsize = 5000
    MaxSendRetries, \* max_send_retries = 3
    MaxRestarts,    \* bound: starts of the program after the first
    MaxRecovers     \* bound: /recover commands

ASSUME ConstantsAssumption ==
    /\ {Timeout, SignalTTL, DedupTTL, QueueCap, MaxSendRetries} \subseteq Nat \ {0}
    /\ Timeout < SignalTTL /\ SignalTTL < DedupTTL
    /\ {MaxRestarts, MaxRecovers} \subseteq Nat

VARIABLES
    raises,     \* does send_func raise, or swallow its failures as main's does
    phase,      \* "down", "recovery" or "running"
    starts,     \* how often the process was started
    recovers,   \* how many /recover commands there were
    paused,     \* RuntimeState.is_paused
    pending,    \* the signals whose verdict this process still owes
    todo,       \* per thread: the stored events recovery still publishes
    pub,        \* per thread in `handle`: the event and its next step
    timer,      \* the timer thread: the signals it found expired
    queue,      \* the messages for the sender
    sender,     \* the message being sent, and the attempts that failed
    rows,       \* the event store, durable
    signals,    \* the age of each stored signal, durable
    deadlines,  \* the ticks left to each deadline, durable
    sent,       \* the age of each key in sent_intents, durable
    late,       \* the age of each verdict that came before its signal, durable
    dead,       \* the dead letters, durable
    chat,       \* the messages that arrived
    judged,     \* history: how often a verdict of the signal was enqueued
    renewed,    \* history: how often its key had expired when it was
    again,      \* history: signals published again by recovery
    excused,    \* history: signals whose message a pause, a full queue, a crash, an
                \* expiry or a rejection took
    done,       \* history: signals whose verdict this process is done with
    wrong       \* history: those of them that were found without one later

vars == << raises, phase, starts, recovers, paused, pending, todo, pub, timer, queue, sender, rows,
           signals, deadlines, sent, late, dead, chat, judged, renewed, again, excused, done, wrong >>
life == << raises, phase, starts, recovers >>
process == << life, paused, pending, todo >>
threads == << pub, timer, queue, sender >>
store == << signals, deadlines, sent, late >>
history == << judged, renewed, again, excused, done, wrong >>

Threads == {"main", "bot"}
None == DedupTTL + 1    \* no such entry
Idle == [kind |-> "idle", s |-> "-", step |-> "idle"]
Free == [about |-> << "none", "-" >>, failures |-> 0]
Messages == {"verdict", "warning"} \X Signals
Row(kind, s) == [kind |-> kind, s |-> s]

Init ==
    /\ raises \in BOOLEAN /\ phase = "recovery" /\ starts = 1 /\ recovers = 0 /\ paused = FALSE
    /\ pending = {} /\ todo = [th \in Threads |-> << >>]
    /\ pub = [th \in Threads |-> Idle] /\ timer = {} /\ queue = << >> /\ sender = Free
    /\ rows = << >>
    /\ signals = [s \in Signals |-> None] /\ deadlines = [s \in Signals |-> None]
    /\ sent = [s \in Signals |-> None] /\ late = [s \in Signals |-> None]
    /\ dead = {} /\ chat = {}
    /\ judged = [s \in Signals |-> 0] /\ renewed = [s \in Signals |-> 0]
    /\ again = {} /\ excused = {} /\ done = {} /\ wrong = {}

-----------------------------------------------------------------------------
(* Publishing.                                                             *)

FirstStep == [signal |-> "track", risk |-> "judge", rejected |-> "reject"]

\* handle(): while trading is paused these events are dropped; the event store, the next
\* subscriber, keeps them all the same.
Hand(th, kind, s) ==
    /\ pub' = [pub EXCEPT ![th] = [kind |-> kind, s |-> s,
                                   step |-> IF paused THEN "keep" ELSE FirstStep[kind]]]
    /\ excused' = IF paused THEN excused \cup {s} ELSE excused

Trading == phase = "running" /\ pub["main"] = Idle

New(s) == s \notin pending \cup excused /\ \A i \in 1 .. Len(rows) : rows[i].s # s

Generate(s) ==
    /\ Trading /\ New(s)
    /\ Hand("main", "signal", s)
    /\ pending' = pending \cup {s}
    /\ UNCHANGED << life, paused, todo, timer, queue, sender, rows, store, dead, chat,
                    judged, renewed, again, done, wrong >>

\* A signal like the one before is not published, but it is judged all the same.
Suppress(s) ==
    /\ Trading /\ New(s)
    /\ pending' = pending \cup {s}
    /\ UNCHANGED << life, paused, todo, threads, rows, store, dead, chat, history >>

Judge(s) ==
    /\ Trading /\ s \in pending
    /\ \E kind \in {"risk", "rejected"} : Hand("main", kind, s)
    /\ pending' = pending \ {s}
    /\ UNCHANGED << life, paused, todo, timer, queue, sender, rows, store, dead, chat,
                    judged, renewed, again, done, wrong >>

\* Recovery publishes what was stored, newest first.
Replay(th) ==
    /\ pub[th] = Idle /\ todo[th] # << >>
    /\ LET r == Head(todo[th]) IN
       /\ Hand(th, r.kind, r.s)
       /\ again' = IF r.kind = "signal" THEN again \cup {r.s} ELSE again
    /\ todo' = [todo EXCEPT ![th] = Tail(@)]
    /\ UNCHANGED << life, paused, pending, timer, queue, sender, rows, store, dead, chat,
                    judged, renewed, done, wrong >>

\* The last subscriber: the event store, which skips what it has.
Keep(th) ==
    /\ pub[th].step = "keep"
    /\ LET r == Row(pub[th].kind, pub[th].s) IN
       rows' = IF r \in {rows[i] : i \in 1 .. Len(rows)} THEN rows ELSE Append(rows, r)
    /\ pub' = [pub EXCEPT ![th] = Idle]
    /\ UNCHANGED << process, timer, queue, sender, store, dead, chat, history >>

-----------------------------------------------------------------------------
(* The forwarder in the thread of the publisher, operation by operation of *)
(* the store.                                                              *)

At(th, step) == pub[th].step = step
Goto(th, step) == pub' = [pub EXCEPT ![th].step = step]
PubOnly == UNCHANGED << process, timer, sender, rows, dead, chat >>

\* (mutant) The queue takes one more.
EnqueueOneMore(m) ==
    IF Len(queue) <= QueueCap
    THEN queue' = Append(queue, m) /\ UNCHANGED excused
    ELSE UNCHANGED queue /\ excused' = excused \cup {m[2]}

\* put_nowait: a message for which there is no room is dropped.
Enqueue(m) ==
    IF Len(queue) < QueueCap
    THEN queue' = Append(queue, m) /\ UNCHANGED excused
    ELSE UNCHANGED queue /\ excused' = excused \cup {m[2]}

\* _track_signal_generated: the signal is stored and its deadline set ...
Track(th) ==
    /\ At(th, "track") /\ Goto(th, "arm")
    /\ signals' = [signals EXCEPT ![pub[th].s] = 0]
    /\ PubOnly /\ UNCHANGED << queue, deadlines, sent, late, history >>

Arm(th) ==
    /\ At(th, "arm") /\ Goto(th, "late")
    /\ deadlines' = [deadlines EXCEPT ![pub[th].s] = Timeout]
    /\ PubOnly /\ UNCHANGED << queue, signals, sent, late, history >>

Fresh(age, ttl) == age # None /\ age < ttl
Known(s) == Fresh(signals[s], SignalTTL)
Duplicate(s) == Fresh(sent[s], DedupTTL)

\* ... and a verdict that came before it, if it is not too old, is judged now.
PopLate(th) ==
    /\ At(th, "late")
    /\ Goto(th, IF Fresh(late[pub[th].s], SignalTTL) THEN "judge" ELSE "keep")
    /\ late' = [late EXCEPT ![pub[th].s] = None]
    /\ PubOnly /\ UNCHANGED << queue, signals, deadlines, sent, history >>

\* _handle_risk_evaluated: a verdict without its signal waits for it; a duplicate ends
\* here, its signal's deadline untouched; else the intent is marked before it is sent.
Look(th) ==
    /\ At(th, "judge") /\ Goto(th, IF Known(pub[th].s) THEN "check" ELSE "buffer")
    /\ PubOnly /\ UNCHANGED << queue, store, history >>

RecordLate(th) ==
    /\ At(th, "buffer") /\ Goto(th, "keep")
    /\ late' = [late EXCEPT ![pub[th].s] = 0]
    /\ PubOnly /\ UNCHANGED << queue, signals, deadlines, sent, history >>

CheckDedup(th) ==
    /\ At(th, "check") /\ Goto(th, IF Duplicate(pub[th].s) THEN "keep" ELSE "mark")
    /\ PubOnly /\ UNCHANGED << queue, store, history >>

\* (mutant) The key of an intent is not kept.
MarkNothing(s) ==
    /\ renewed' = IF sent[s] = DedupTTL THEN [renewed EXCEPT ![s] = @ + 1] ELSE renewed
    /\ UNCHANGED sent

\* mark_sent; an expired key is replaced.
Mark(s) ==
    /\ renewed' = IF sent[s] = DedupTTL THEN [renewed EXCEPT ![s] = @ + 1] ELSE renewed
    /\ sent' = [sent EXCEPT ![s] = 0]

MarkSent(th) ==
    /\ At(th, "mark") /\ Goto(th, "enqueue")
    /\ Mark(pub[th].s)
    /\ PubOnly
    /\ UNCHANGED << queue, signals, deadlines, late, judged, again, excused, done, wrong >>

EnqueueVerdict(th) ==
    /\ At(th, "enqueue") /\ Goto(th, "cancel")
    /\ Enqueue(<< "verdict", pub[th].s >>)
    /\ judged' = [judged EXCEPT ![pub[th].s] = @ + 1]
    /\ PubOnly /\ UNCHANGED << store, renewed, again, done, wrong >>

\* (mutant) The deadline of a signal with a verdict stays.
CancelNot(th) ==
    /\ pub[th].step \in {"cancel", "reject"} /\ Goto(th, "keep")
    /\ excused' = IF At(th, "reject") THEN excused \cup {pub[th].s} ELSE excused
    /\ done' = done \cup {pub[th].s}
    /\ UNCHANGED deadlines
    /\ PubOnly /\ UNCHANGED << queue, signals, sent, late, judged, renewed, again, wrong >>

\* cancel_deadline, after a verdict or for a SignalRejected, which is not shown.
Cancel(th) ==
    /\ pub[th].step \in {"cancel", "reject"} /\ Goto(th, "keep")
    /\ deadlines' = [deadlines EXCEPT ![pub[th].s] = None]
    /\ excused' = IF At(th, "reject") THEN excused \cup {pub[th].s} ELSE excused
    /\ done' = done \cup {pub[th].s}
    /\ PubOnly /\ UNCHANGED << queue, signals, sent, late, judged, renewed, again, wrong >>

-----------------------------------------------------------------------------
(* The timer thread.                                                       *)

Up == phase # "down"
Due == {s \in Signals : deadlines[s] = 0}

\* expire_and_cancel_deadlines, in one transaction.
Expire ==
    /\ Up /\ timer = {} /\ Due # {}
    /\ timer' = Due
    /\ deadlines' = [s \in Signals |-> IF s \in Due THEN None ELSE deadlines[s]]
    /\ wrong' = wrong \cup {s \in Due : s \in done \ again}
    /\ UNCHANGED << process, pub, queue, sender, rows, signals, sent, late, dead, chat,
                    judged, renewed, again, excused, done >>

\* NO VERDICT RECEIVED, if the signal is still stored.
Warn(s) ==
    /\ s \in timer
    /\ timer' = timer \ {s}
    /\ IF Known(s) THEN Enqueue(<< "warning", s >>)
       ELSE excused' = excused \cup {s} /\ UNCHANGED queue
    /\ UNCHANGED << process, pub, sender, rows, store, dead, chat, judged, renewed, again, done, wrong >>

-----------------------------------------------------------------------------
(* The sender thread.                                                      *)

SenderOnly == UNCHANGED << process, pub, timer, rows, store, judged, renewed, again, done, wrong >>

Take ==
    /\ Up /\ sender = Free /\ queue # << >>
    /\ sender' = [Free EXCEPT !.about = Head(queue)]
    /\ queue' = Tail(queue)
    /\ SenderOnly /\ UNCHANGED << dead, chat, excused >>

Sending == sender # Free

Send ==
    /\ Sending
    /\ chat' = chat \cup {sender.about}
    /\ sender' = Free
    /\ SenderOnly /\ UNCHANGED << queue, dead, excused >>

\* main's _telegram_html_sender swallows its failures: the message counts as sent.
Swallow ==
    /\ Sending /\ ~raises
    /\ excused' = excused \cup {sender.about[2]}
    /\ sender' = Free
    /\ SenderOnly /\ UNCHANGED << queue, dead, chat >>

\* (mutant) The last failure is only logged.
FailUnkept ==
    /\ Sending /\ raises
    /\ sender' = IF sender.failures + 1 < MaxSendRetries
                 THEN [sender EXCEPT !.failures = @ + 1] ELSE Free
    /\ SenderOnly /\ UNCHANGED << queue, dead, chat, excused >>

\* Another attempt, or after the last one a dead letter.
Fail ==
    /\ Sending /\ raises
    /\ IF sender.failures + 1 < MaxSendRetries
       THEN sender' = [sender EXCEPT !.failures = @ + 1] /\ UNCHANGED dead
       ELSE sender' = Free /\ dead' = dead \cup {sender.about}
    /\ SenderOnly /\ UNCHANGED << queue, chat, excused >>

-----------------------------------------------------------------------------
(* Pauses, crashes and time.                                               *)

\* /pause and /resume, and a halt.
Pause ==
    /\ phase = "running" /\ paused' = ~paused
    /\ UNCHANGED << life, pending, todo, threads, rows, store, dead, chat, history >>

InMemory == {queue[i][2] : i \in 1 .. Len(queue)} \cup timer \cup pending
            \cup (IF Sending THEN {sender.about[2]} ELSE {})
            \cup {pub[th].s : th \in {u \in Threads : pub[u] # Idle}}

Crash ==
    /\ Up /\ starts <= MaxRestarts
    /\ phase' = "down"
    /\ excused' = excused \cup InMemory
    /\ paused' = FALSE /\ pending' = {} /\ done' = {}
    /\ todo' = [th \in Threads |-> << >>] /\ pub' = [th \in Threads |-> Idle]
    /\ timer' = {} /\ queue' = << >> /\ sender' = Free
    /\ UNCHANGED << raises, starts, recovers, rows, store, dead, chat, judged, renewed, again, wrong >>

\* recover() queries the store: of the newest 1000 events, n are of the kinds kept here (none
\* where the broker does not answer, or where the store is not the one /recover opens).
Recovery(th) ==
    \E n \in 0 .. Len(rows) :
       todo' = [todo EXCEPT ![th] = [i \in 1 .. n |-> rows[Len(rows) + 1 - i]]]

Start ==
    /\ ~Up
    /\ phase' = "recovery" /\ starts' = starts + 1
    /\ Recovery("main")
    /\ UNCHANGED << raises, recovers, paused, pending, threads, rows, store, dead, chat, history >>

\* main is done with its recovery, starts the bot and trades.
Run ==
    /\ phase = "recovery" /\ pub["main"] = Idle /\ todo["main"] = << >>
    /\ phase' = "running"
    /\ UNCHANGED << raises, starts, recovers, paused, pending, todo, threads, rows, store, dead, chat,
                    history >>

\* /recover, in the bot's thread, which handles one command at a time.
Recover ==
    /\ phase = "running" /\ pub["bot"] = Idle /\ todo["bot"] = << >> /\ recovers < MaxRecovers
    /\ recovers' = recovers + 1
    /\ Recovery("bot")
    /\ UNCHANGED << raises, phase, starts, paused, pending, threads, rows, store, dead, chat, history >>

Older(age, most) == IF age = None \/ age = most THEN age ELSE age + 1

\* The timer looks every few seconds, so that no due deadline waits for a tick.
Tick ==
    /\ ~(Up /\ (Due # {} \/ timer # {}))
    /\ signals' = [s \in Signals |-> Older(signals[s], SignalTTL)]
    /\ sent' = [s \in Signals |-> Older(sent[s], DedupTTL)]
    /\ late' = [s \in Signals |-> Older(late[s], SignalTTL)]
    /\ deadlines' = [s \in Signals |-> IF deadlines[s] \in {None, 0} THEN deadlines[s]
                                       ELSE deadlines[s] - 1]
    /\ UNCHANGED << process, threads, rows, dead, chat, history >>

-----------------------------------------------------------------------------
Handle(th) ==
    \/ Track(th) \/ Arm(th) \/ PopLate(th) \/ Look(th) \/ RecordLate(th) \/ CheckDedup(th)
    \/ MarkSent(th) \/ EnqueueVerdict(th) \/ Cancel(th) \/ Keep(th)
Timer == Expire \/ (\E s \in Signals : Warn(s))
Sender == Take \/ Send \/ Swallow \/ Fail

Next ==
    \/ \E s \in Signals : Generate(s) \/ Suppress(s) \/ Judge(s)
    \/ \E th \in Threads : Replay(th) \/ Handle(th)
    \/ Timer \/ Sender
    \/ Pause \/ Crash \/ Start \/ Run \/ Recover \/ Tick

\* The threads run on, time passes, and the program is started again.  That a verdict
\* follows a signal is not assumed.
Fairness ==
    /\ \A th \in Threads : WF_vars(Replay(th)) /\ WF_vars(Handle(th))
    /\ WF_vars(Timer) /\ WF_vars(Sender)
    /\ WF_vars(Start) /\ WF_vars(Tick)

Spec == Init /\ [][Next]_vars /\ Fairness

-----------------------------------------------------------------------------
(* Properties.                                                             *)

\* Every variable has its type.
TypeOK ==
    /\ {raises, paused} \subseteq BOOLEAN /\ phase \in {"down", "recovery", "running"}
    /\ starts \in 1 .. MaxRestarts + 1 /\ recovers \in 0 .. MaxRecovers
    /\ \A th \in Threads : pub[th] = Idle \/ pub[th].s \in Signals
    /\ sender = Free \/ (sender.about \in Messages /\ sender.failures \in 0 .. MaxSendRetries - 1)
    /\ Len(queue) <= QueueCap
    /\ \A i \in 1 .. Len(queue) : queue[i] \in Messages
    /\ \A i \in 1 .. Len(rows) : rows[i].s \in Signals
    /\ Len(rows) <= 2 * Cardinality(Signals)
    /\ \A s \in Signals :
          /\ signals[s] \in 0 .. SignalTTL \cup {None}
          /\ deadlines[s] \in 0 .. Timeout \cup {None}
          /\ sent[s] \in 0 .. DedupTTL \cup {None}
          /\ late[s] \in 0 .. SignalTTL \cup {None}
    /\ pending \cup timer \cup again \cup excused \cup done \cup wrong \subseteq Signals
    /\ dead \cup chat \subseteq Messages

\* A verdict is given to the sender once, whatever is published again, by whichever thread,
\* and wherever the process ends, and once more only for each time its key was too old.
IntentOnce == \A s \in Signals : judged[s] <= 1 + renewed[s]

\* Once a process is done with a signal's verdict it does not find that the signal has
\* none, unless recovery published the signal again.
NoFalseWarning == wrong = {}

\* Of every signal that got to the store the operator reads in the end, or its message is
\* a dead letter, or one of the ways it can be lost took it.
SignalAnswered ==
    \A s \in Signals :
       deadlines[s] # None ~>
          \/ \E m \in {"verdict", "warning"} : << m, s >> \in chat \cup dead
          \/ s \in excused

\* (refuted) No warning of a missing verdict once the verdict is in the chat.
NoWarningAfterVerdict ==
    [][\A s \in Signals : << "verdict", s >> \in chat /\ << "warning", s >> \notin chat
          => << "warning", s >> \notin chat']_vars

\* (refuted) A marked intent arrives or is a dead letter in the end, while the queue has room.
AtLeastOnce ==
    \A s \in Signals : judged[s] > 0 ~> << "verdict", s >> \in chat \cup dead
=============================================================================
