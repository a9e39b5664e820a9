------------------------------ MODULE EventLog ------------------------------
(***************************************************************************)
(* The way of an event: published on the blocking EventBus                 *)
(* (src/core/events.py) by the main thread or the trade-update stream,     *)
(* handled in the publisher's thread by the subscribers in the order in    *)
(* which main.py attaches them -- the learning loop and the journal, the   *)
(* event store, the read models -- and published again by RecoveryManager, *)
(* by main() before the read models are attached, and by the bot's thread  *)
(* at /recover, to all of them.  Beside it the snapshots that main takes   *)
(* of the read models.                                                     *)
(*                                                                         *)
(* An event's id is its index in `made`.  The audit log and the Telegram   *)
(* forwarder, two more wildcard subscribers, change nothing here.          *)
(***************************************************************************)
EXTENDS Naturals, Sequences, FiniteSets

CONSTANTS
    Trades,
    ReplayLimit,    \* get_latest_events(limit=1000)
    MaxDeliveries,  \* bound: fills delivered, repeated ones included
    MaxRestarts,    \* bound: starts of the program after the first
    MaxRecovers,    \* bound: /recover commands
    MaxFailures     \* bound: events of which a handler fails, or which a crash loses, before
                    \* no handler fails that can do its work

ASSUME ConstantsAssumption ==
    {ReplayLimit, MaxDeliveries, MaxRestarts, MaxRecovers, MaxFailures} \subseteq Nat

MaxRecoveries == MaxRestarts + 1 + MaxRecovers
MaxEvents == 2 * Cardinality(Trades) + MaxDeliveries + MaxRecoveries
Ids == 1 .. MaxEvents
Threads == {"main", "stream", "bot"}

VARIABLES
    made,       \* the events, in the order they were created (history)
    phase,      \* "down", "recovery" or "running"
    session,    \* EventStore.session_id, drawn at each start
    at,         \* per thread: the event it publishes, the recovery that has it do so (zero
                \* where it is new), and the handler it is at
    recoveries, \* how many calls of recover() there were
    recovering, \* the threads in one
    todo,       \* per thread: the stored events it still has to publish
    context,    \* ExecutionEngine._trade_context: the trades this process opened
    view,       \* what the read models were given: events, each with its recovery
    snap,       \* the snapshot the main loop takes, until it is saved
    rows,       \* the store's table, durable
    samples,    \* rows of ml_predictions for each trade, durable
    journal,    \* lines of journal.jsonl for each trade, durable
    lost,       \* history: events a failure or a crash kept from the store
    unlearned,  \* history: closes whose validation failed
    unwritten,  \* history: closes the journal could not write
    again       \* history: what /recover published in this process

vars == << made, phase, session, at, recoveries, recovering, todo, context, view, snap,
           rows, samples, journal, lost, unlearned, unwritten, again >>
recovery == << recoveries, recovering, todo >>
durable == << rows, samples, journal >>
history == << lost, unlearned, unwritten, again >>

Kinds == {"opened", "closed", "filled", "health"}
Handlers == {"idle", "learn", "journal", "store", "project"}
Idle == [id |-> 0, run |-> 0, step |-> "idle"]
NoSnap == [session |-> 0, state |-> {}, made |-> 0, flight |-> {}, counted |-> FALSE, last |-> 0]
Reading == snap # NoSnap

Stored == {rows[i].id : i \in 1 .. Len(rows)}
StoredIn(s) == {rows[i].id : i \in {j \in 1 .. Len(rows) : rows[j].session = s}}
InFlight == {at[th].id : th \in Threads} \ {0}
CanFail(e) == Cardinality(lost \cup unlearned \cup unwritten \cup {e}) <= MaxFailures

Init ==
    /\ made = << >>
    /\ phase = "down" /\ session = 0
    /\ at = [th \in Threads |-> Idle]
    /\ recoveries = 0 /\ recovering = {} /\ todo = [th \in Threads |-> << >>]
    /\ context = {} /\ view = {}
    /\ snap = NoSnap
    /\ rows = << >>
    /\ samples = [t \in Trades |-> 0] /\ journal = [t \in Trades |-> 0]
    /\ lost = {} /\ unlearned = {} /\ unwritten = {} /\ again = {}

-----------------------------------------------------------------------------
(* Publishing.                                                             *)

\* Handlers of the event's own type come before the wildcards (_get_handlers).
FirstHandler(kind) == IF kind = "closed" THEN "learn" ELSE "store"

Event(kind, about, full) ==
    [kind |-> kind, about |-> about, full |-> full, session |-> session, since |-> recoveries]

Publish(th, e) ==
    /\ at' = [at EXCEPT ![th] = [id |-> Len(made) + 1, run |-> 0, step |-> FirstHandler(e.kind)]]
    /\ made' = Append(made, e)

Running(th) == phase = "running" /\ at[th] = Idle

\* The engine opens a position and remembers its context ...
Open(t) ==
    /\ Running("main") /\ ~Reading
    /\ \A i \in 1 .. Len(made) : made[i].about # t
    /\ Publish("main", Event("opened", t, TRUE))
    /\ context' = context \cup {t}
    /\ UNCHANGED << phase, session, recovery, view, snap, durable, history >>

\* ... and closes it.  After a restart there is no context: no entry time in the event.
Close(t) ==
    /\ Running("main") /\ ~Reading
    /\ \E i \in 1 .. Len(made) : made[i].about = t
    /\ ~ \E i \in 1 .. Len(made) : made[i].about = t /\ made[i].kind = "closed"
    /\ Publish("main", Event("closed", t, t \in context))
    /\ context' = context \ {t}
    /\ UNCHANGED << phase, session, recovery, view, snap, durable, history >>

\* The trade-update stream publishes a fill (TradeStream has the stream itself), as any
\* other thread publishes what the read models only count.
Deliver ==
    /\ Running("stream")
    /\ Cardinality({i \in 1 .. Len(made) : made[i].kind = "filled"}) < MaxDeliveries
    /\ Publish("stream", Event("filled", "order", TRUE))
    /\ UNCHANGED << phase, session, recovery, context, view, snap, durable, history >>

-----------------------------------------------------------------------------
(* The handlers.  An exception in one is logged, and the next one runs.    *)

Goto(th, step) == at' = [at EXCEPT ![th].step = step]
Done(th) == at' = [at EXCEPT ![th] = Idle]
Current(th) == made[at[th].id]

\* record_trade: outcome and scorecard are upserted by trade, the prediction under the
\* trade and a signal id drawn for this call.
Sample(t) == samples' = [samples EXCEPT ![t] = @ + 1]

\* (mutant) An exception ends the publication.
LearnOrAbort(th) ==
    /\ at[th].step = "learn"
    /\ LET t == Current(th).about IN
       \/ /\ Current(th).full
          /\ Sample(t)
          /\ Goto(th, "journal")
          /\ UNCHANGED unlearned
       \/ /\ unlearned' = unlearned \cup {at[th].id}
          /\ Done(th)
          /\ UNCHANGED samples
    /\ UNCHANGED << made, phase, session, recovery, context, view, snap,
                    rows, journal, lost, unwritten, again >>

\* _on_trade_closed: validate_trade cannot parse a missing entry time, and the store of
\* experience may fail.
Learn(th) ==
    /\ at[th].step = "learn"
    /\ LET t == Current(th).about IN
       \/ /\ Current(th).full
          /\ Sample(t)
          /\ UNCHANGED unlearned
       \/ /\ Current(th).full => CanFail(at[th].id)
          /\ unlearned' = unlearned \cup {at[th].id}
          /\ UNCHANGED samples
    /\ Goto(th, "journal")
    /\ UNCHANGED << made, phase, session, recovery, context, view, snap,
                    rows, journal, lost, unwritten, again >>

\* JournalSubscriber appends a line; an exception is logged and the line is not written.
Write(th) ==
    /\ at[th].step = "journal"
    /\ \/ journal' = [journal EXCEPT ![Current(th).about] = @ + 1] /\ UNCHANGED unwritten
       \/ /\ CanFail(at[th].id)
          /\ unwritten' = unwritten \cup {at[th].id}
          /\ UNCHANGED journal
    /\ Goto(th, "store")
    /\ UNCHANGED << made, phase, session, recovery, context, view, snap,
                    rows, samples, lost, unlearned, again >>

\* (mutant) The read models see what recovery publishes.
AfterStoreAttached(th) == Goto(th, "project")

\* The read models are attached only after the recovery of main().
AfterStore(th) == IF phase = "recovery" THEN Done(th) ELSE Goto(th, "project")

\* (mutant) persist inserts without a look at the event id.
PersistAnyway(e) ==
    /\ rows' = Append(rows, [id |-> e, session |-> session])
    /\ UNCHANGED lost

\* persist skips an event id it has.
Persist(e) ==
    /\ rows' = IF e \in Stored THEN rows ELSE Append(rows, [id |-> e, session |-> session])
    /\ UNCHANGED lost

\* persist raised: EventPersistenceSubscriber logs and forgets the event.
Skip(e) ==
    /\ CanFail(e)
    /\ lost' = lost \cup ({e} \ Stored)
    /\ UNCHANGED rows

Store(th) ==
    /\ at[th].step = "store"
    /\ Persist(at[th].id) \/ Skip(at[th].id)
    /\ AfterStore(th)
    /\ UNCHANGED << made, phase, session, recovery, context, view, snap,
                    samples, journal, unlearned, unwritten, again >>

\* The three projections, each a function of what it is given, which look at no event id:
\* an event that is published again is counted again.
See(e, run) == view' = view \cup {<< e, run >>}

\* ReadModelManager._dispatch.
Project(th) ==
    /\ at[th].step = "project"
    /\ See(at[th].id, at[th].run)
    /\ Done(th)
    /\ UNCHANGED << made, phase, session, recovery, context, snap, durable, history >>

-----------------------------------------------------------------------------
(* Snapshots, by the main loop.                                            *)

\* get_dashboard.  Enough time since the last snapshot is reason enough to take one.
ReadView ==
    /\ Running("main") /\ ~Reading
    /\ snap' = [NoSnap EXCEPT !.session = session, !.state = view, !.made = Len(made),
                              !.flight = InFlight]
    /\ UNCHANGED << made, phase, session, at, recovery, context, view, durable, history >>

\* (mutant) Only the events of this session are counted.
LastEventIdOfSession == Cardinality(StoredIn(session))

\* count_events(), without a session: all of them.
LastEventId == Len(rows)

Count ==
    /\ Running("main") /\ Reading /\ ~snap.counted
    /\ snap' = [snap EXCEPT !.counted = TRUE, !.last = LastEventId]
    /\ UNCHANGED << made, phase, session, at, recovery, context, view, durable, history >>

\* take_snapshot, or an exception in it: a file more or not, which no part of the program
\* reads again (recover_from_snapshot has no caller).
Save ==
    /\ Running("main") /\ Reading /\ snap.counted
    /\ snap' = NoSnap
    /\ UNCHANGED << made, phase, session, at, recovery, context, view, durable, history >>

-----------------------------------------------------------------------------
(* Crash, restart and recovery.                                            *)

\* The end of the process, at any point.
Crash ==
    /\ phase # "down" /\ session <= MaxRestarts
    /\ phase' = "down"
    /\ at' = [th \in Threads |-> Idle]
    /\ lost' = lost \cup (InFlight \ Stored)
    /\ recovering' = {} /\ todo' = [th \in Threads |-> << >>]
    /\ context' = {} /\ view' = {} /\ snap' = NoSnap /\ again' = {}
    /\ UNCHANGED << made, session, recoveries, durable, unlearned, unwritten >>

\* get_latest_events(limit): newest first.
Latest == LET n == Len(rows)
              k == IF n < ReplayLimit THEN n ELSE ReplayLimit
          IN [i \in 1 .. k |-> rows[n + 1 - i].id]

\* recover(), as far as the query of the store, before which that of the positions may
\* raise: then nothing is published again.
BeginRecovery(th) ==
    /\ recoveries' = recoveries + 1
    /\ recovering' = recovering \cup {th}
    /\ \E stored \in {Latest, << >>} : todo' = [todo EXCEPT ![th] = stored]

Start ==
    /\ phase = "down"
    /\ phase' = "recovery"
    /\ session' = session + 1
    /\ BeginRecovery("main")
    /\ UNCHANGED << made, at, context, view, snap, durable, history >>

\* /recover, in the bot's thread, which handles one command at a time.  Its own EventStore
\* is that of the SQLite file: where the program's is in PostgreSQL, it finds nothing.
Recover ==
    /\ Running("bot") /\ "bot" \notin recovering
    /\ recoveries < session + MaxRecovers
    /\ BeginRecovery("bot")
    /\ UNCHANGED << made, phase, session, at, context, view, snap, durable, history >>

\* The stored event e is published by th, with the handlers that are subscribed by then.
PublishAgain(th, e) ==
    /\ at' = [at EXCEPT ![th] = [id |-> e, run |-> recoveries,
                                step |-> FirstHandler(made[e].kind)]]
    /\ again' = IF phase = "running" THEN again \cup {<< e, recoveries >>} ELSE again

\* (mutant) A page of events is published twice.
ReplayAgain(th) ==
    /\ th \in recovering /\ at[th] = Idle /\ todo[th] # << >>
    /\ PublishAgain(th, Head(todo[th]))
    /\ todo' \in {todo, [todo EXCEPT ![th] = Tail(@)]}
    /\ UNCHANGED << made, phase, session, recoveries, recovering, context, view, snap, durable,
                    lost, unlearned, unwritten >>

\* _replay_events publishes the stored event again.
Replay(th) ==
    /\ th \in recovering /\ at[th] = Idle /\ todo[th] # << >>
    /\ PublishAgain(th, Head(todo[th]))
    /\ todo' = [todo EXCEPT ![th] = Tail(@)]
    /\ UNCHANGED << made, phase, session, recoveries, recovering, context, view, snap, durable,
                    lost, unlearned, unwritten >>

\* The SystemHealth event that ends a recovery, which stands for the PositionRecovered
\* events before it too.
Report(th) ==
    /\ th \in recovering /\ at[th] = Idle /\ todo[th] = << >>
    /\ Publish(th, Event("health", th, TRUE))
    /\ recovering' = recovering \ {th}
    /\ UNCHANGED << phase, session, recoveries, todo, context, view, snap, durable, history >>

\* main attaches the read models and begins to trade.
Attach ==
    /\ phase = "recovery" /\ at["main"] = Idle /\ "main" \notin recovering
    /\ phase' = "running"
    /\ UNCHANGED << made, session, at, recovery, context, view, snap, durable, history >>

-----------------------------------------------------------------------------
Handle(th) == Learn(th) \/ Write(th) \/ Store(th) \/ Project(th)

Next ==
    \/ \E t \in Trades : Open(t) \/ Close(t)
    \/ Deliver
    \/ \E th \in Threads : Handle(th) \/ Replay(th) \/ Report(th)
    \/ ReadView \/ Count \/ Save
    \/ Crash \/ Start \/ Recover \/ Attach

\* Threads run on and the program is started again.  Nothing obliges anybody to trade or to
\* recover, and nothing to crash.
Fairness ==
    /\ \A th \in Threads : WF_vars(Handle(th) \/ Replay(th) \/ Report(th))
    /\ WF_vars(Count) /\ WF_vars(Save) /\ WF_vars(Start) /\ WF_vars(Attach)

Spec == Init /\ [][Next]_vars /\ Fairness

-----------------------------------------------------------------------------
(* Properties.                                                             *)

\* Every variable has its type, and no event is created beyond the bound.
TypeOK ==
    /\ \A i \in 1 .. Len(made) :
          /\ i \in Ids
          /\ made[i].kind \in Kinds /\ made[i].full \in BOOLEAN
          /\ made[i].about \in Trades \cup {"order", "main", "bot"}
          /\ made[i].session \in 1 .. session /\ made[i].since \in 1 .. recoveries
    /\ phase \in {"down", "recovery", "running"}
    /\ session \in 0 .. MaxRestarts + 1 /\ recoveries \in session .. session + MaxRecovers
    /\ \A th \in Threads : at[th].step \in Handlers /\ at[th].id \in 0 .. Len(made)
    /\ \A th \in Threads : at[th].run \in 0 .. recoveries
    /\ \A th \in Threads : at[th] = Idle <=> at[th].step = "idle"
    /\ recovering \subseteq Threads
    /\ \A th \in Threads : \A i \in 1 .. Len(todo[th]) : todo[th][i] \in 1 .. Len(made)
    /\ \A th \in Threads : Len(todo[th]) <= ReplayLimit
    /\ context \subseteq Trades
    /\ \A i \in 1 .. Len(rows) : rows[i].id \in 1 .. Len(made) /\ rows[i].session \in 1 .. session
    /\ view \cup again \subseteq (1 .. Len(made)) \X (0 .. recoveries)
    /\ lost \cup unlearned \cup unwritten \subseteq 1 .. Len(made)
    /\ samples \in [Trades -> 0 .. recoveries] /\ journal \in [Trades -> 0 .. recoveries]

\* The store is the ledger EventLedger promises, whatever is published again, crashes
\* or fails (src/core/event_store.py).
Ledger == INSTANCE EventLedger WITH ledger <- rows
LedgerSpec == Ledger!Spec

\* What main() reported before the read models were attached.
StartReport(e) == made[e].kind = "health" /\ made[e].about = "main"

\* A snapshot can be resumed from: what it shows is among the events it counts (or was
\* never stored), so that no event after last_event_id is applied twice; and of the
\* events of its session it counts, it lacks at most those on their way when it was
\* read, or made since, and what the start reported, which the read models never see.
CountedBy(s) == {rows[i].id : i \in 1 .. s.last}
Shown(s) == {p[1] : p \in s.state}
SnapshotResumes ==
    snap.counted =>
       /\ Shown(snap) \subseteq CountedBy(snap) \cup lost
       /\ \A e \in CountedBy(snap) \cap StoredIn(snap.session) :
             e \in Shown(snap) \cup snap.flight \/ e > snap.made \/ StartReport(e)

\* The read models follow the store: with nobody publishing they were given each event of
\* this session, stored or not, except what the start reported, and besides that what
\* /recover published, of whichever session; and never what they have been given, so that
\* an event is counted once, and once more for each command that published it.
Own == {i \in 1 .. Len(made) : made[i].session = session /\ ~StartReport(i)}
ViewFollowsSession ==
    /\ phase = "running" /\ InFlight = {} => view = Own \X {0} \cup again
    /\ \A th \in Threads : at[th].step = "project" => << at[th].id, at[th].run >> \notin view

\* A stored close was learned from and journalled before it was stored (or that failed), so
\* that a crash between the handlers cannot lose it; and it is not learned again except by
\* recoveries, once for each since it was made.
LearnedOncePerRun ==
    \A i \in 1 .. Len(made) :
       made[i].kind = "closed" =>
          LET t == made[i].about IN
          /\ i \in Stored => /\ samples[t] > 0 \/ i \in unlearned
                             /\ journal[t] > 0 \/ i \in unwritten
          /\ samples[t] <= 1 + recoveries - made[i].since
          /\ journal[t] <= 1 + recoveries - made[i].since

\* Every event published gets to the store, unless the store refused it or the process
\* ended on its way: no handler before the store can keep it.
NothingVanishes == []<>(\A i \in 1 .. Len(made) : i \in Stored \cup lost)

\* (refuted) The upsert of the learning loop keeps one prediction for a trade.
OneSamplePerTrade == \A t \in Trades : samples[t] <= 1

\* (refuted) The read models count an event once (projections.py:99).
CountedOnce == \A p, q \in view : p[1] = q[1] => p = q
=============================================================================
