--------------------------- MODULE EventLog_proofs ---------------------------
(***************************************************************************)
(* That the event store is the ledger it promises to be, that the read     *)
(* models follow it, that a snapshot can be resumed from and that a close  *)
(* is learned from once and once more for each recovery, for any trades,   *)
(* threads' interleavings, failures, crashes, restarts and /recover        *)
(* commands; and for finitely many trades the types, with the number of    *)
(* events there can be.                                                    *)
(***************************************************************************)
EXTENDS EventLog, SequenceTheorems, FiniteSetTheorems, FunctionTheorems, TLAPS

Events == [kind : Kinds, about : Trades \cup {"order", "main", "bot"}, full : BOOLEAN,
           session : Nat, since : Nat]
Rows == [id : Nat, session : Nat]
Slots == [id : Nat, run : Nat, step : Handlers]
Snaps == [session : Nat, state : SUBSET (Nat \X Nat), made : Nat, flight : SUBSET Nat,
          counted : BOOLEAN, last : Nat]

Typed ==
    /\ made \in Seq(Events) /\ rows \in Seq(Rows) /\ todo \in [Threads -> Seq(Nat)]
    /\ phase \in {"down", "recovery", "running"} /\ session \in Nat
    /\ recoveries \in Nat /\ recovering \in SUBSET Threads
    /\ at \in [Threads -> Slots]
    /\ view \in SUBSET (Nat \X Nat) /\ again \in SUBSET (Nat \X Nat) /\ snap \in Snaps

\* Events and rows are of the sessions there were, and rows are of known events.
SessionInv ==
    /\ \A i \in 1 .. Len(made) : made[i].session <= session
    /\ \A i \in 1 .. Len(rows) :
          rows[i].id \in 1 .. Len(made) /\ rows[i].session = made[rows[i].id].session
    /\ \A th \in Threads : \A i \in 1 .. Len(todo[th]) : todo[th][i] \in Stored

\* An event on its way is stored, or it is of this session; it is past the store when the
\* read models see it.
FlightInv ==
    \A th \in Threads :
       /\ at[th].step = "idle" \/ at[th].id = 0 => at[th] = Idle
       /\ at[th].id # 0 => /\ at[th].id \in 1 .. Len(made) /\ at[th].run <= recoveries
                           /\ at[th].id \in Stored \/ made[at[th].id].session = session
       /\ at[th].step = "project" => at[th].id \in Stored \cup lost

\* Until the program runs, there are no read models, and nothing but the report of the
\* start is new; when it runs, nobody but the bot recovers.
PhaseInv ==
    /\ phase # "running" =>
          /\ view = {} /\ again = {} /\ at["stream"] = Idle /\ at["bot"] = Idle
          /\ "bot" \notin recovering
    /\ phase = "down" => at["main"] = Idle /\ "main" \notin recovering
    /\ phase = "recovery" =>
          /\ \A th \in Threads : at[th].step # "project"
          /\ \A i \in 1 .. Len(made) : made[i].session = session => StartReport(i)
    /\ phase = "running" => "main" \notin recovering
    /\ "stream" \notin recovering

\* The publications on their way.
Way == {<< at[th].id, at[th].run >> : th \in {u \in Threads : at[u].id # 0}}

\* While it runs, what is on its way and what the read models were given are the events of
\* this session and what /recover published.
ViewInv ==
    /\ view \cup again \subseteq (1 .. Len(made)) \X (0 .. recoveries)
    /\ \A p \in view : p[1] \in Stored \cup lost
    /\ phase = "running" => view \cup Way = (Own \X {0}) \cup again

\* A snapshot shows or mentions all that was made of its session when it was read.
Shows(s) ==
    /\ s.made <= Len(made)
    /\ \A e \in 1 .. s.made : made[e].session = s.session =>
          e \in Shown(s) \cup s.flight \/ StartReport(e)

SnapInv ==
    /\ Shows(snap) /\ Shown(snap) \subseteq Stored \cup lost
    /\ snap.counted => Shown(snap) \subseteq CountedBy(snap) \cup lost /\ snap.last <= Len(rows)

IInv == Typed /\ SessionInv /\ FlightInv /\ PhaseInv /\ ViewInv /\ SnapInv

-----------------------------------------------------------------------------
(* The sequences and the publications.                                     *)

\* A row appended is stored, and the rows before are what they were.
LEMMA RowAppended ==
    ASSUME rows \in Seq(Rows), NEW r \in Rows, rows' = Append(rows, r)
    PROVE  /\ rows' \in Seq(Rows) /\ Len(rows') = Len(rows) + 1 /\ Len(rows) \in Nat
           /\ rows'[Len(rows')] = r /\ rows' # << >>
           /\ \A i \in 1 .. Len(rows) : rows'[i] = rows[i]
           /\ Stored' = Stored \cup {r.id}
           /\ \A n \in Nat : n <= Len(rows) =>
                 {rows'[i].id : i \in 1 .. n} = {rows[i].id : i \in 1 .. n}
<1>1. /\ rows' \in Seq(Rows) /\ Len(rows') = Len(rows) + 1 /\ Len(rows) \in Nat
      /\ rows'[Len(rows')] = r /\ \A i \in 1 .. Len(rows) : rows'[i] = rows[i]
  BY AppendProperties
<1>2. rows' # << >>
  BY <1>1, EmptySeq
<1>3. Stored' = Stored \cup {r.id}
  <2>1. \A x : x \in Stored' <=> x \in Stored \cup {r.id}
    <3> TAKE x
    <3>1. ASSUME x \in Stored' PROVE x \in Stored \cup {r.id}
      <4>1. PICK i \in 1 .. Len(rows') : x = rows'[i].id
        BY <3>1 DEF Stored
      <4>2. i \in 1 .. Len(rows) \/ i = Len(rows')
        BY <1>1
      <4> QED
        BY <1>1, <4>1, <4>2 DEF Stored
    <3>2. ASSUME x \in Stored \cup {r.id} PROVE x \in Stored'
      <4>1. CASE x \in Stored
        <5>1. PICK i \in 1 .. Len(rows) : x = rows[i].id
          BY <4>1 DEF Stored
        <5>2. i \in 1 .. Len(rows') /\ rows'[i] = rows[i]
          BY <1>1
        <5> QED
          BY <5>1, <5>2 DEF Stored
      <4>2. CASE x = r.id
        <5>1. Len(rows') \in 1 .. Len(rows') /\ rows'[Len(rows')].id = x
          BY <1>1, <4>2
        <5> QED
          BY <5>1 DEF Stored
      <4> QED
        BY <3>2, <4>1, <4>2
    <3> QED
      BY <3>1, <3>2
  <2> QED
    BY <2>1
<1>4. ASSUME NEW n \in Nat, n <= Len(rows)
      PROVE  {rows'[i].id : i \in 1 .. n} = {rows[i].id : i \in 1 .. n}
  <2>1. \A i \in 1 .. n : rows'[i].id = rows[i].id
    BY <1>1, <1>4
  <2> QED
    BY <2>1
<1> QED
  BY <1>1, <1>2, <1>3, <1>4

\* What is stored was made.
LEMMA StoredWasMade ==
    ASSUME Typed, SessionInv
    PROVE  Stored \subseteq 1 .. Len(made) /\ Len(made) \in Nat
BY DEF Typed, SessionInv, Stored

\* A thread that was idle has a publication on its way ...
LEMMA WayTaken ==
    ASSUME Typed, NEW th \in Threads, at[th] = Idle, NEW s \in Slots, s.id # 0,
           at' = [at EXCEPT ![th] = s]
    PROVE  Way' = Way \cup {<< s.id, s.run >>}
<1>1. at'[th] = s /\ \A u \in Threads \ {th} : at'[u] = at[u]
  BY DEF Typed
<1>2. \A x : x \in Way' <=> x \in Way \cup {<< s.id, s.run >>}
  <2> TAKE x
  <2>1. ASSUME x \in Way' PROVE x \in Way \cup {<< s.id, s.run >>}
    <3>1. PICK u \in Threads : at'[u].id # 0 /\ x = << at'[u].id, at'[u].run >>
      BY <2>1 DEF Way
    <3> QED
      BY <1>1, <3>1 DEF Way
  <2>2. ASSUME x \in Way PROVE x \in Way'
    <3>1. PICK u \in Threads : at[u].id # 0 /\ x = << at[u].id, at[u].run >>
      BY <2>2 DEF Way
    <3>2. u # th
      BY <3>1 DEF Idle
    <3> QED
      BY <1>1, <3>1, <3>2 DEF Way
  <2>3. << s.id, s.run >> \in Way'
    BY <1>1 DEF Way
  <2> QED
    BY <2>1, <2>2, <2>3
<1> QED
  BY <1>2

\* ... and has none when it is idle again.
LEMMA WayLeft ==
    ASSUME Typed, NEW th \in Threads, at[th].id # 0, at' = [at EXCEPT ![th] = Idle]
    PROVE  Way' \subseteq Way /\ Way \subseteq Way' \cup {<< at[th].id, at[th].run >>}
           /\ << at[th].id, at[th].run >> \in Way
<1>1. at'[th].id = 0 /\ \A u \in Threads \ {th} : at'[u] = at[u]
  BY DEF Typed, Idle
<1>2. ASSUME NEW x, x \in Way' PROVE x \in Way
  <2>1. PICK u \in Threads : at'[u].id # 0 /\ x = << at'[u].id, at'[u].run >>
    BY <1>2 DEF Way
  <2> QED
    BY <1>1, <2>1 DEF Way
<1>3. ASSUME NEW x, x \in Way PROVE x \in Way' \cup {<< at[th].id, at[th].run >>}
  <2>1. PICK u \in Threads : at[u].id # 0 /\ x = << at[u].id, at[u].run >>
    BY <1>3 DEF Way
  <2> QED
    BY <1>1, <2>1 DEF Way
<1>4. << at[th].id, at[th].run >> \in Way
  BY DEF Way
<1> QED
  BY <1>2, <1>3, <1>4

\* It stays on its way from handler to handler.
LEMMA WayKept ==
    ASSUME \A u \in Threads : at'[u].id = at[u].id /\ at'[u].run = at[u].run
    PROVE  Way' = Way
BY DEF Way

-----------------------------------------------------------------------------
(* The invariant holds at the start and after every step.                  *)

LEMMA InvInit == Init => IInv
<1> SUFFICES ASSUME Init PROVE IInv
  OBVIOUS
<1>1. Len(made) = 0 /\ Len(rows) = 0 /\ \A th \in Threads : Len(todo[th]) = 0
  BY DEF Init
<1>2. Typed
  <2>1. at \in [Threads -> Slots]
    BY DEF Init, Idle, Handlers, Slots
  <2>2. snap \in Snaps
    BY DEF Init, NoSnap, Snaps
  <2>3. made \in Seq(Events) /\ rows \in Seq(Rows)
    BY DEF Init
  <2>4. todo \in [Threads -> Seq(Nat)]
    BY DEF Init
  <2> QED
    BY <2>1, <2>2, <2>3, <2>4 DEF Init, Typed
<1>3. SessionInv
  BY <1>1 DEF SessionInv
<1>4. FlightInv
  BY DEF Init, FlightInv, Idle
<1>5. PhaseInv
  BY DEF Init, PhaseInv, Threads
<1>6. ViewInv
  BY DEF Init, ViewInv
<1>7. SnapInv
  BY <1>1 DEF Init, SnapInv, Shows, Shown, NoSnap
<1> QED
  BY <1>2, <1>3, <1>4, <1>5, <1>6, <1>7 DEF IInv

\* A step that leaves alone all the invariant is about.
LEMMA Still ==
    ASSUME IInv, UNCHANGED << made, phase, session, at, recovery, view, again, snap, rows, lost >>
    PROVE  IInv'
<1>1. /\ Stored' = Stored /\ CountedBy(snap)' = CountedBy(snap) /\ Shown(snap)' = Shown(snap)
      /\ Way' = Way /\ Own' = Own /\ \A i : StartReport(i)' <=> StartReport(i)
  BY DEF Stored, CountedBy, Shown, Way, Own, StartReport
<1>2. Typed' /\ SessionInv' /\ FlightInv' /\ PhaseInv'
  BY <1>1 DEF IInv, Typed, SessionInv, FlightInv, PhaseInv, recovery
<1>3. ViewInv'
  BY <1>1 DEF IInv, ViewInv, recovery
<1>4. SnapInv'
  BY <1>1 DEF IInv, SnapInv, Shows
<1> QED
  BY <1>2, <1>3, <1>4 DEF IInv

\* A thread that is at leisure publishes a new event.
LEMMA PublishStep ==
    ASSUME IInv, NEW th \in Threads, NEW e \in Events, Publish(th, e), at[th] = Idle,
           e.session = session, phase # "down",
           phase = "recovery" => th = "main" /\ e.kind = "health" /\ e.about = "main",
           phase = "running" => ~ (e.kind = "health" /\ e.about = "main"),
           recovering' \subseteq recovering,
           UNCHANGED << phase, session, recoveries, todo, view, again, snap, rows, lost >>
    PROVE  IInv'
<1> DEFINE n == Len(made)
           s == [id |-> n + 1, run |-> 0, step |-> FirstHandler(e.kind)]
<1>1. /\ made' \in Seq(Events) /\ n \in Nat /\ Len(made') = n + 1 /\ made'[n + 1] = e
      /\ \A i \in 1 .. n : made'[i] = made[i]
  BY AppendProperties DEF IInv, Typed, Publish
<1>2. Stored \subseteq 1 .. n /\ Stored' = Stored /\ Shown(snap)' = Shown(snap)
      /\ CountedBy(snap)' = CountedBy(snap)
  BY StoredWasMade DEF IInv, Stored, Shown, CountedBy
<1>3. s \in Slots /\ s.id = n + 1 /\ s.run = 0 /\ s.step \in {"learn", "store"} /\ s.id # 0
  BY <1>1 DEF Slots, FirstHandler, Handlers
<1>4. at' = [at EXCEPT ![th] = s]
  BY DEF Publish
<1> HIDE DEF s
<1>5. /\ at' \in [Threads -> Slots] /\ at'[th] = s /\ \A u \in Threads \ {th} : at'[u] = at[u]
  BY <1>3, <1>4 DEF IInv, Typed
<1>6. Way' = Way \cup {<< n + 1, 0 >>}
  BY <1>3, <1>4, WayTaken DEF IInv
<1>7. \A i \in 1 .. n + 1 : StartReport(i)' <=> IF i = n + 1 THEN e.kind = "health" /\ e.about = "main"
                                                              ELSE StartReport(i)
  BY <1>1 DEF StartReport
<1> HIDE DEF n
<1>8. Typed'
  BY <1>1, <1>5 DEF IInv, Typed
<1>9. SessionInv'
  <2>1. \A i \in 1 .. n + 1 : made'[i].session <= session
    <3> TAKE i \in 1 .. n + 1
    <3>1. CASE i = n + 1
      BY <1>1, <3>1 DEF IInv, Typed
    <3>2. CASE i # n + 1
      <4>1. i \in 1 .. n /\ made'[i] = made[i]
        BY <1>1, <3>2
      <4> QED
        BY <4>1 DEF IInv, SessionInv, n
    <3> QED
      BY <3>1, <3>2
  <2>2. \A i \in 1 .. Len(rows) :
           rows[i].id \in 1 .. n + 1 /\ rows[i].session = made'[rows[i].id].session
    BY <1>1 DEF IInv, SessionInv, n
  <2> QED
    BY <1>1, <1>2, <2>1, <2>2 DEF IInv, SessionInv
<1>10. FlightInv'
  <2> SUFFICES ASSUME NEW u \in Threads
               PROVE  /\ at'[u].step = "idle" \/ at'[u].id = 0 => at'[u] = Idle
                      /\ at'[u].id # 0 =>
                            /\ at'[u].id \in 1 .. n + 1 /\ at'[u].run <= recoveries
                            /\ at'[u].id \in Stored \/ made'[at'[u].id].session = session
                      /\ at'[u].step = "project" => at'[u].id \in Stored \cup lost
    BY <1>1, <1>2 DEF FlightInv
  <2>1. CASE u = th
    <3>1. recoveries \in Nat
      BY DEF IInv, Typed
    <3> QED
      BY <1>1, <1>3, <1>5, <2>1, <3>1
  <2>2. CASE u # th
    BY <1>1, <1>5, <2>2 DEF IInv, FlightInv, n
  <2> QED
    BY <2>1, <2>2
<1>11. PhaseInv'
  <2>1. phase = "recovery" => \A i \in 1 .. n + 1 : made'[i].session = session => StartReport(i)'
    <3> SUFFICES ASSUME phase = "recovery", NEW i \in 1 .. n + 1, made'[i].session = session
                 PROVE  StartReport(i)'
      OBVIOUS
    <3>1. CASE i = n + 1
      BY <1>7, <3>1
    <3>2. CASE i # n + 1
      <4>1. i \in 1 .. n /\ made[i].session = session
        BY <1>1, <3>2
      <4>2. StartReport(i)' <=> StartReport(i)
        BY <1>7, <3>2
      <4> QED
        BY <4>1, <4>2 DEF IInv, PhaseInv, n
    <3> QED
      BY <3>1, <3>2
  <2>2. phase = "recovery" => at'["stream"] = at["stream"] /\ at'["bot"] = at["bot"]
    BY <1>5 DEF Threads
  <2>3. phase \in {"recovery", "running"}
    BY DEF IInv, Typed
  <2>4. phase = "recovery" => \A u \in Threads : at'[u].step # "project"
    BY <1>3, <1>5 DEF IInv, PhaseInv
  <2> QED
    BY <1>1, <2>1, <2>2, <2>3, <2>4 DEF IInv, PhaseInv
<1>12. ViewInv'
  <2>1. view \cup again \subseteq (1 .. n + 1) \X (0 .. recoveries)
    BY <1>1 DEF IInv, ViewInv, n
  <2>2. ASSUME phase = "running" PROVE view \cup Way' = (Own' \X {0}) \cup again
    <3>1. Own' = Own \cup {n + 1}
      <4>1. \A i : i \in Own' <=> i \in Own \cup {n + 1}
        <5> TAKE i
        <5>1. CASE i = n + 1
          <6>1. i \in 1 .. Len(made') /\ made'[i].session = session /\ ~ StartReport(i)'
            BY <1>1, <1>7, <2>2, <5>1
          <6> QED
            BY <5>1, <6>1 DEF Own
        <5>2. CASE i # n + 1
          <6>1. i \in 1 .. n + 1 <=> i \in 1 .. n
            BY <1>1, <5>2
          <6>2. i \in 1 .. n => made'[i].session = made[i].session /\ (StartReport(i)' <=> StartReport(i))
            BY <1>1, <1>7
          <6> QED
            BY <1>1, <5>2, <6>1, <6>2 DEF Own, n
        <5> QED
          BY <5>1, <5>2
      <4> QED
        BY <4>1
    <3>2. view \cup Way = (Own \X {0}) \cup again
      BY <2>2 DEF IInv, ViewInv
    <3>3. Own' \X {0} = (Own \X {0}) \cup {<< n + 1, 0 >>}
      BY <3>1
    <3> QED
      BY <1>6, <3>2, <3>3
  <2> QED
    BY <1>1, <1>2, <2>1, <2>2 DEF IInv, ViewInv
<1>13. SnapInv'
  <2>1. snap.made <= n /\ snap.made \in Nat
    BY DEF IInv, Typed, Snaps, SnapInv, Shows, n
  <2>2. Shows(snap)'
    <3> SUFFICES ASSUME NEW i \in 1 .. snap.made, made'[i].session = snap.session
                 PROVE  i \in Shown(snap) \cup snap.flight \/ StartReport(i)'
      BY <1>1, <1>2, <2>1 DEF Shows
    <3>1. i \in 1 .. n /\ i \in 1 .. n + 1 /\ i # n + 1 /\ made'[i] = made[i]
      BY <1>1, <2>1
    <3>2. StartReport(i)' <=> StartReport(i)
      BY <1>7, <3>1
    <3> QED
      BY <3>1, <3>2 DEF IInv, SnapInv, Shows
  <2> QED
    BY <1>2, <2>2 DEF IInv, SnapInv
<1> QED
  BY <1>8, <1>9, <1>10, <1>11, <1>12, <1>13 DEF IInv

\* A handler before the store hands on.
LEMMA GotoStep ==
    ASSUME IInv, NEW th \in Threads, NEW s \in {"journal", "store"}, Goto(th, s),
           at[th].step \in {"learn", "journal"},
           UNCHANGED << made, phase, session, recovery, view, again, snap, rows, lost >>
    PROVE  IInv'
<1>1. /\ at' \in [Threads -> Slots] /\ at'[th].step = s
      /\ \A u \in Threads : at'[u].id = at[u].id /\ at'[u].run = at[u].run
      /\ \A u \in Threads \ {th} : at'[u] = at[u]
  BY DEF IInv, Typed, Goto, Slots, Handlers
<1>2. /\ Stored' = Stored /\ CountedBy(snap)' = CountedBy(snap) /\ Shown(snap)' = Shown(snap)
      /\ Way' = Way /\ Own' = Own /\ \A i : StartReport(i)' <=> StartReport(i)
  BY <1>1, WayKept DEF Stored, CountedBy, Shown, Own, StartReport
<1>3. at[th] # Idle /\ at[th].id # 0
  BY DEF Idle, IInv, FlightInv
<1>4. Typed'
  BY <1>1 DEF IInv, Typed, recovery
<1>5. SessionInv'
  BY <1>2 DEF IInv, SessionInv, recovery
<1>6. FlightInv'
  BY <1>1, <1>2, <1>3 DEF IInv, FlightInv, recovery
<1>7. PhaseInv'
  BY <1>1, <1>2, <1>3 DEF IInv, PhaseInv, Threads, recovery
<1>8. ViewInv'
  BY <1>2 DEF IInv, ViewInv, recovery
<1>9. SnapInv'
  BY <1>2 DEF IInv, SnapInv, Shows
<1> QED
  BY <1>4, <1>5, <1>6, <1>7, <1>8, <1>9 DEF IInv

\* The store keeps the event, or loses it, and the read models may be next.
LEMMA StoreStep ==
    ASSUME IInv, NEW th \in Threads, Store(th)
    PROVE  IInv'
<1> DEFINE e == at[th].id
<1>1. /\ at[th].step = "store" /\ (Persist(e) \/ Skip(e)) /\ AfterStore(th)
      /\ UNCHANGED << made, phase, session, recoveries, recovering, todo, view, again, snap >>
  BY DEF Store, recovery
<1>2. /\ e \in 1 .. Len(made) /\ (e \in Stored \/ made[e].session = session)
      /\ e # 0 /\ e \in Nat /\ Len(made) \in Nat
  BY <1>1 DEF IInv, FlightInv, Typed, Idle
<1>3. /\ rows' \in Seq(Rows) /\ Len(rows) <= Len(rows') /\ Len(rows) \in Nat /\ Len(rows') \in Nat
      /\ Stored \subseteq Stored' /\ lost \subseteq lost' /\ e \in Stored' \cup lost'
      /\ \A i \in 1 .. Len(rows') :
            rows'[i].id \in 1 .. Len(made) /\ rows'[i].session = made[rows'[i].id].session
      /\ snap.counted => CountedBy(snap)' = CountedBy(snap)
  <2>1. CASE rows' = rows
    <3>1. e \in Stored \/ e \in lost'
      <4>1. CASE Persist(e)
        <5>1. ASSUME e \notin Stored PROVE FALSE
          <6>1. rows' = Append(rows, [id |-> e, session |-> session])
            BY <4>1, <5>1 DEF Persist
          <6>2. Len(rows') = Len(rows) + 1 /\ Len(rows) \in Nat
            BY <6>1, AppendProperties DEF IInv, Typed, Rows
          <6> QED
            BY <2>1, <6>2
        <5> QED
          BY <5>1
      <4>2. CASE Skip(e)
        BY <4>2 DEF Skip
      <4> QED
        BY <1>1, <4>1, <4>2
    <3>2. lost \subseteq lost'
      BY <1>1 DEF Persist, Skip
    <3>3. Stored' = Stored /\ CountedBy(snap)' = CountedBy(snap)
      BY <1>1, <2>1 DEF Stored, CountedBy
    <3> QED
      BY <2>1, <3>1, <3>2, <3>3 DEF IInv, Typed, SessionInv
  <2>2. CASE rows' # rows
    <3>1. rows' = Append(rows, [id |-> e, session |-> session]) /\ lost' = lost /\ e \notin Stored
      BY <1>1, <2>2 DEF Persist, Skip
    <3> DEFINE r == [id |-> e, session |-> session]
    <3>2. r \in Rows /\ rows \in Seq(Rows) /\ rows' = Append(rows, r) /\ r.id = e /\ r.session = session
      BY <1>2, <3>1 DEF IInv, Typed, Rows
    <3> HIDE DEF r
    <3>3. /\ rows' \in Seq(Rows) /\ Len(rows') = Len(rows) + 1 /\ Len(rows) \in Nat
          /\ rows'[Len(rows')] = r
          /\ \A i \in 1 .. Len(rows) : rows'[i] = rows[i]
          /\ Stored' = Stored \cup {r.id}
          /\ \A n \in Nat : n <= Len(rows) =>
                {rows'[i].id : i \in 1 .. n} = {rows[i].id : i \in 1 .. n}
      BY <3>2, RowAppended
    <3>4. snap.counted => CountedBy(snap)' = CountedBy(snap)
      <4>1. snap.last \in Nat /\ (snap.counted => snap.last <= Len(rows))
        BY DEF IInv, Typed, Snaps, SnapInv
      <4> QED
        BY <1>1, <3>3, <4>1 DEF CountedBy
    <3>5. ASSUME NEW i \in 1 .. Len(rows')
          PROVE  rows'[i].id \in 1 .. Len(made) /\ rows'[i].session = made[rows'[i].id].session
      <4>1. CASE i = Len(rows')
        BY <1>2, <3>1, <3>2, <3>3, <4>1
      <4>2. CASE i # Len(rows')
        <5>1. i \in 1 .. Len(rows) /\ rows'[i] = rows[i]
          BY <3>3, <4>2
        <5> QED
          BY <5>1 DEF IInv, SessionInv
      <4> QED
        BY <4>1, <4>2
    <3> QED
      BY <3>1, <3>2, <3>3, <3>4, <3>5
  <2> QED
    BY <2>1, <2>2
<1> HIDE DEF e
<1>4. /\ at' \in [Threads -> Slots]
      /\ \A u \in Threads \ {th} : at'[u] = at[u]
      /\ phase = "recovery" => at'[th] = Idle
      /\ phase # "recovery" =>
            at'[th].id = e /\ at'[th].run = at[th].run /\ at'[th].step = "project"
  <2>1. CASE phase = "recovery"
    <3>1. at' = [at EXCEPT ![th] = Idle] /\ Idle \in Slots
      BY <1>1, <2>1 DEF AfterStore, Done, Idle, Handlers, Slots
    <3> QED
      BY <2>1, <3>1 DEF IInv, Typed
  <2>2. CASE phase # "recovery"
    <3>1. at' = [at EXCEPT ![th].step = "project"]
      BY <1>1, <2>2 DEF AfterStore, Goto
    <3> QED
      BY <2>2, <3>1 DEF IInv, Typed, Handlers, Slots, e
  <2> QED
    BY <2>1, <2>2
<1>5. phase \in {"recovery", "running"} /\ (phase = "recovery" => th = "main")
  BY <1>1 DEF IInv, Typed, PhaseInv, Idle, Threads
<1>6. Typed'
  BY <1>1, <1>3, <1>4 DEF IInv, Typed
<1>7. SessionInv'
  BY <1>1, <1>3 DEF IInv, SessionInv
<1>8. FlightInv'
  <2> SUFFICES ASSUME NEW u \in Threads
               PROVE  /\ at'[u].step = "idle" \/ at'[u].id = 0 => at'[u] = Idle
                      /\ at'[u].id # 0 =>
                            /\ at'[u].id \in 1 .. Len(made) /\ at'[u].run <= recoveries
                            /\ at'[u].id \in Stored' \/ made[at'[u].id].session = session
                      /\ at'[u].step = "project" => at'[u].id \in Stored' \cup lost'
    BY <1>1 DEF FlightInv
  <2>1. CASE u = th
    <3>1. CASE phase = "recovery"
      BY <1>4, <2>1, <3>1 DEF Idle
    <3>2. CASE phase # "recovery"
      <4>1. at[th].run <= recoveries
        BY <1>2 DEF IInv, FlightInv, e
      <4> QED
        BY <1>2, <1>3, <1>4, <2>1, <3>2, <4>1
    <3> QED
      BY <3>1, <3>2
  <2>2. CASE u # th
    BY <1>3, <1>4, <2>2 DEF IInv, FlightInv
  <2> QED
    BY <2>1, <2>2
<1>9. PhaseInv'
  <2>1. phase = "recovery" => \A u \in Threads : at'[u].step # "project"
    BY <1>4 DEF IInv, PhaseInv, Idle
  <2>2. phase = "recovery" => at'["stream"] = Idle /\ at'["bot"] = Idle
    BY <1>4, <1>5 DEF IInv, PhaseInv, Threads
  <2>3. \A i : StartReport(i)' <=> StartReport(i)
    BY <1>1 DEF StartReport
  <2> QED
    BY <1>1, <1>5, <2>1, <2>2, <2>3 DEF IInv, PhaseInv
<1>10. ViewInv'
  <2>1. Own' = Own
    BY <1>1 DEF Own, StartReport
  <2>2. phase = "running" => Way' = Way
    BY <1>4, WayKept DEF e
  <2> QED
    BY <1>1, <1>3, <2>1, <2>2 DEF IInv, ViewInv
<1>11. SnapInv'
  <2>1. Shown(snap)' = Shown(snap) /\ \A i : StartReport(i)' <=> StartReport(i)
    BY <1>1 DEF Shown, StartReport
  <2>2. Shows(snap)'
    BY <1>1, <2>1 DEF IInv, SnapInv, Shows
  <2>3. Shown(snap) \subseteq Stored' \cup lost'
    BY <1>3 DEF IInv, SnapInv
  <2>4. snap.counted => Shown(snap) \subseteq CountedBy(snap)' \cup lost' /\ snap.last <= Len(rows')
    <3>1. snap.last \in Nat
      BY DEF IInv, Typed, Snaps
    <3> QED
      BY <1>3, <3>1 DEF IInv, SnapInv
  <2> QED
    BY <1>1, <2>1, <2>2, <2>3, <2>4 DEF SnapInv
<1> QED
  BY <1>6, <1>7, <1>8, <1>9, <1>10, <1>11 DEF IInv

\* The read models are given the event.
LEMMA ProjectStep ==
    ASSUME IInv, NEW th \in Threads, Project(th)
    PROVE  IInv'
<1> DEFINE e == at[th].id
           p == << at[th].id, at[th].run >>
<1>1. /\ at[th].step = "project" /\ view' = view \cup {p} /\ at' = [at EXCEPT ![th] = Idle]
      /\ UNCHANGED << made, phase, session, recoveries, recovering, todo, again, snap, rows, lost >>
  BY DEF Project, Done, See, durable, history, recovery
<1>2. /\ e \in 1 .. Len(made) /\ e # 0 /\ e \in Nat /\ e \in Stored \cup lost
      /\ at[th].run \in 0 .. recoveries /\ at[th].run \in Nat
  BY <1>1 DEF IInv, FlightInv, Typed, Slots, Idle
<1>3. /\ at' \in [Threads -> Slots]
      /\ at'[th] = Idle /\ \A u \in Threads \ {th} : at'[u] = at[u]
  BY <1>1 DEF Idle, IInv, Typed, Handlers, Slots
<1>4. phase = "running"
  BY <1>1 DEF IInv, Typed, PhaseInv, Idle, Threads
<1>5. /\ Stored' = Stored /\ Own' = Own /\ CountedBy(snap)' = CountedBy(snap)
      /\ Shown(snap)' = Shown(snap) /\ \A i : StartReport(i)' <=> StartReport(i)
  BY <1>1 DEF Stored, Own, CountedBy, Shown, StartReport
<1>6. Way' \subseteq Way /\ Way \subseteq Way' \cup {p} /\ p \in Way
  BY <1>1, <1>2, WayLeft DEF IInv
<1>7. p \in Nat \X Nat /\ p \in (1 .. Len(made)) \X (0 .. recoveries) /\ p[1] = e
  BY <1>2
<1> HIDE DEF p
<1>8. Typed'
  BY <1>1, <1>3, <1>7 DEF IInv, Typed
<1>9. SessionInv' /\ PhaseInv'
  BY <1>1, <1>4, <1>5 DEF IInv, SessionInv, PhaseInv
<1>10. FlightInv'
  BY <1>1, <1>3, <1>5 DEF IInv, FlightInv, Idle
<1>11. ViewInv'
  <2>1. view' \cup Way' = view \cup Way
    BY <1>1, <1>6
  <2>2. view' \cup again' \subseteq (1 .. Len(made')) \X (0 .. recoveries')
    BY <1>1, <1>7 DEF IInv, ViewInv
  <2>3. \A q \in view' : q[1] \in Stored' \cup lost'
    BY <1>1, <1>2, <1>5, <1>7 DEF IInv, ViewInv
  <2>4. view' \cup Way' = (Own' \X {0}) \cup again'
    BY <1>1, <1>4, <1>5, <2>1 DEF IInv, ViewInv
  <2> QED
    BY <2>2, <2>3, <2>4 DEF ViewInv
<1>12. SnapInv'
  BY <1>1, <1>5 DEF IInv, SnapInv, Shows
<1> QED
  BY <1>8, <1>9, <1>10, <1>11, <1>12 DEF IInv

\* The main loop reads the read models ...
LEMMA ReadViewStep ==
    ASSUME IInv, ReadView
    PROVE  IInv'
<1>1. /\ phase = "running"
      /\ snap' = [NoSnap EXCEPT !.session = session, !.state = view, !.made = Len(made),
                                !.flight = InFlight]
      /\ UNCHANGED << made, phase, session, at, recoveries, recovering, todo, view, again, rows, lost >>
  BY DEF ReadView, Running, durable, history, recovery
<1>2. /\ Stored' = Stored /\ Way' = Way /\ Own' = Own /\ \A i : StartReport(i)' <=> StartReport(i)
  BY <1>1 DEF Stored, Way, Own, StartReport
<1>3. InFlight \in SUBSET Nat
  BY DEF InFlight, IInv, Typed, Slots
<1>4. /\ snap'.session = session /\ snap'.state = view /\ snap'.made = Len(made)
      /\ snap'.flight = InFlight /\ snap'.counted = FALSE /\ snap' \in Snaps
  <2>1. snap' = [session |-> session, state |-> view, made |-> Len(made), flight |-> InFlight,
                 counted |-> FALSE, last |-> 0]
    BY <1>1 DEF NoSnap
  <2>2. session \in Nat /\ view \in SUBSET (Nat \X Nat) /\ Len(made) \in Nat
    BY DEF IInv, Typed
  <2> QED
    BY <1>3, <2>1, <2>2 DEF Snaps
<1>5. Typed'
  BY <1>1, <1>4 DEF IInv, Typed
<1>6. SessionInv' /\ FlightInv' /\ PhaseInv' /\ ViewInv'
  BY <1>1, <1>2 DEF IInv, SessionInv, FlightInv, PhaseInv, ViewInv
<1>7. Shown(snap)' = {q[1] : q \in view}
  BY <1>4 DEF Shown
<1>8. SnapInv'
  <2>1. ASSUME NEW i \in 1 .. Len(made), made[i].session = session
        PROVE  i \in {q[1] : q \in view} \cup InFlight \/ StartReport(i)
    <3> SUFFICES ASSUME ~ StartReport(i) PROVE i \in {q[1] : q \in view} \cup InFlight
      OBVIOUS
    <3>1. << i, 0 >> \in view \cup Way
      BY <1>1, <2>1 DEF Own, IInv, ViewInv
    <3>2. CASE << i, 0 >> \in view
      BY <3>2
    <3>3. CASE << i, 0 >> \in Way
      <4>1. PICK th \in Threads : at[th].id # 0 /\ << i, 0 >> = << at[th].id, at[th].run >>
        BY <3>3 DEF Way
      <4> QED
        BY <4>1 DEF InFlight
    <3> QED
      BY <3>1, <3>2, <3>3
  <2>2. Shows(snap)'
    <3>1. Len(made) \in Nat
      BY DEF IInv, Typed
    <3> QED
      BY <1>1, <1>2, <1>4, <1>7, <2>1, <3>1 DEF Shows
  <2>3. Shown(snap)' \subseteq Stored \cup lost
    BY <1>7 DEF IInv, ViewInv
  <2> QED
    BY <1>1, <1>2, <1>4, <2>2, <2>3 DEF SnapInv
<1> QED
  BY <1>5, <1>6, <1>8 DEF IInv

\* ... adds the number of events there are by then ...
LEMMA CountStep ==
    ASSUME IInv, Count
    PROVE  IInv'
<1>1. /\ snap' = [snap EXCEPT !.counted = TRUE, !.last = Len(rows)]
      /\ UNCHANGED << made, phase, session, at, recoveries, recovering, todo, view, again, rows, lost >>
  BY DEF Count, LastEventId, durable, history, recovery
<1>2. /\ Stored' = Stored /\ Way' = Way /\ Own' = Own /\ \A i : StartReport(i)' <=> StartReport(i)
  BY <1>1 DEF Stored, Way, Own, StartReport
<1>3. Len(rows) \in Nat /\ snap \in Snaps
  BY DEF IInv, Typed
<1>4. /\ snap' \in Snaps /\ snap'.last = Len(rows) /\ snap'.session = snap.session
      /\ snap'.state = snap.state /\ snap'.made = snap.made /\ snap'.flight = snap.flight
  BY <1>1, <1>3 DEF Snaps
<1>5. CountedBy(snap)' = Stored /\ Shown(snap)' = Shown(snap)
  BY <1>1, <1>4 DEF CountedBy, Stored, Shown
<1>6. Typed'
  BY <1>1, <1>4 DEF IInv, Typed
<1>7. SessionInv' /\ FlightInv' /\ PhaseInv' /\ ViewInv'
  BY <1>1, <1>2 DEF IInv, SessionInv, FlightInv, PhaseInv, ViewInv
<1>8. SnapInv'
  BY <1>1, <1>2, <1>3, <1>4, <1>5 DEF IInv, SnapInv, Shows
<1> QED
  BY <1>6, <1>7, <1>8 DEF IInv

\* ... and has no snapshot any more.
LEMMA NoSnapHolds ==
    ASSUME Typed', snap' = NoSnap
    PROVE  snap' \in Snaps /\ SnapInv'
<1>1. NoSnap \in Snaps /\ NoSnap.state = {} /\ NoSnap.made = 0 /\ NoSnap.counted = FALSE
  BY DEF NoSnap, Snaps
<1>2. Len(made') \in Nat
  BY DEF Typed
<1>3. Shown(snap)' = {}
  BY <1>1 DEF Shown
<1>4. Shows(snap)'
  BY <1>1, <1>2 DEF Shows
<1> QED
  BY <1>1, <1>3, <1>4 DEF SnapInv

LEMMA SaveStep ==
    ASSUME IInv, Save
    PROVE  IInv'
<1>1. /\ snap' = NoSnap
      /\ UNCHANGED << made, phase, session, at, recoveries, recovering, todo, view, again, rows, lost >>
  BY DEF Save, durable, history, recovery
<1>2. /\ Stored' = Stored /\ Way' = Way /\ Own' = Own /\ \A i : StartReport(i)' <=> StartReport(i)
  BY <1>1 DEF Stored, Way, Own, StartReport
<1>3. NoSnap \in Snaps
  BY DEF NoSnap, Snaps
<1>4. Typed'
  BY <1>1, <1>3 DEF IInv, Typed
<1>5. SessionInv' /\ FlightInv' /\ PhaseInv' /\ ViewInv'
  BY <1>1, <1>2 DEF IInv, SessionInv, FlightInv, PhaseInv, ViewInv
<1> QED
  BY <1>1, <1>4, <1>5, NoSnapHolds DEF IInv

LEMMA CrashStep ==
    ASSUME IInv, Crash
    PROVE  IInv'
<1>1. /\ phase' = "down" /\ at' = [th \in Threads |-> Idle] /\ lost \subseteq lost'
      /\ recovering' = {} /\ todo' = [th \in Threads |-> << >>]
      /\ view' = {} /\ again' = {} /\ snap' = NoSnap
      /\ UNCHANGED << made, session, recoveries, rows >>
  BY DEF Crash, durable
<1>2. Stored' = Stored
  BY <1>1 DEF Stored
<1>3. NoSnap \in Snaps
  BY DEF NoSnap, Snaps
<1>4. at' \in [Threads -> Slots] /\ \A th \in Threads : at'[th] = Idle
  BY <1>1 DEF Idle, Handlers, Slots
<1>5. Typed'
  <2>1. todo' \in [Threads -> Seq(Nat)]
    BY <1>1
  <2> QED
    BY <1>1, <1>3, <1>4, <2>1 DEF IInv, Typed
<1>6. SessionInv'
  <2>1. \A th \in Threads : Len(todo'[th]) = 0
    BY <1>1
  <2> QED
    BY <1>1, <1>2, <2>1 DEF IInv, SessionInv
<1>7. FlightInv' /\ PhaseInv'
  BY <1>1, <1>4 DEF FlightInv, PhaseInv, Idle, Threads
<1>8. ViewInv'
  BY <1>1 DEF ViewInv
<1> QED
  BY <1>1, <1>5, <1>6, <1>7, <1>8, NoSnapHolds DEF IInv

\* The events recovery is to publish are stored ones.
LEMMA LatestStored ==
    ASSUME Typed, SessionInv, NEW stored \in {Latest, << >>}
    PROVE  /\ stored \in Seq(Nat) /\ \A i \in 1 .. Len(stored) : stored[i] \in Stored
           /\ Len(stored) <= ReplayLimit
           /\ (\A i, j \in 1 .. Len(rows) : rows[i].id = rows[j].id => i = j) =>
                 \A i, j \in 1 .. Len(stored) : stored[i] = stored[j] => i = j
<1> DEFINE n == Len(rows)
           k == IF n < ReplayLimit THEN n ELSE ReplayLimit
           f == [i \in 1 .. k |-> rows[n + 1 - i].id]
<1>1. n \in Nat /\ k \in Nat /\ k <= n /\ k <= ReplayLimit /\ ReplayLimit \in Nat
  BY ConstantsAssumption DEF Typed
<1>2. Latest = f
  BY DEF Latest
<1> HIDE DEF k, n
<1>3. ASSUME NEW i \in 1 .. k
      PROVE  rows[n + 1 - i].id \in Nat /\ rows[n + 1 - i].id \in Stored
  <2>1. PICK j \in 1 .. n : j = n + 1 - i
    BY <1>1
  <2>2. rows[j] \in Rows
    BY DEF Typed, n
  <2>3. rows[j].id \in Nat /\ rows[j].id \in Stored
    BY <2>2 DEF Rows, Stored, n
  <2> QED
    BY <2>1, <2>3
<1>4. f \in Seq(Nat) /\ Len(f) = k
  BY <1>1, <1>3
<1>5. \A i \in 1 .. k : f[i] \in Stored
  BY <1>3
<1>6. ASSUME \A i, j \in 1 .. n : rows[i].id = rows[j].id => i = j
      PROVE  \A i, j \in 1 .. k : f[i] = f[j] => i = j
  <2> SUFFICES ASSUME NEW i \in 1 .. k, NEW j \in 1 .. k, f[i] = f[j] PROVE i = j
    OBVIOUS
  <2>1. n + 1 - i \in 1 .. n /\ n + 1 - j \in 1 .. n /\ rows[n + 1 - i].id = rows[n + 1 - j].id
    BY <1>1
  <2>2. n + 1 - i = n + 1 - j
    BY <1>6, <2>1
  <2> QED
    BY <1>1, <2>2
<1>7. CASE stored = Latest
  BY <1>1, <1>2, <1>4, <1>5, <1>6, <1>7 DEF n
<1>8. CASE stored = << >>
  BY <1>1, <1>8
<1> QED
  BY <1>7, <1>8

\* What there is to know of a thread that begins to recover.
LEMMA BeginStep ==
    ASSUME IInv, NEW th \in Threads, BeginRecovery(th), UNCHANGED << made, rows >>
    PROVE  /\ recoveries' = recoveries + 1 /\ recoveries' \in Nat
           /\ recovering' = recovering \cup {th} /\ recovering' \in SUBSET Threads
           /\ todo' \in [Threads -> Seq(Nat)] /\ \A u \in Threads \ {th} : todo'[u] = todo[u]
           /\ \A u \in Threads : \A i \in 1 .. Len(todo'[u]) : todo'[u][i] \in Stored
           /\ \E stored \in {Latest, << >>} : todo'[th] = stored
<1>1. PICK stored \in {Latest, << >>} : todo' = [todo EXCEPT ![th] = stored]
  BY DEF BeginRecovery
<1>2. stored \in Seq(Nat) /\ \A i \in 1 .. Len(stored) : stored[i] \in Stored
  BY LatestStored DEF IInv
<1>3. /\ todo' \in [Threads -> Seq(Nat)] /\ \A u \in Threads \ {th} : todo'[u] = todo[u]
      /\ todo'[th] = stored
  BY <1>1, <1>2 DEF IInv, Typed
<1>4. \A u \in Threads : \A i \in 1 .. Len(todo'[u]) : todo'[u][i] \in Stored
  <2> TAKE u \in Threads
  <2>1. CASE u = th
    BY <1>2, <1>3, <2>1
  <2>2. CASE u # th
    BY <1>3, <2>2 DEF IInv, SessionInv
  <2> QED
    BY <2>1, <2>2
<1>5. /\ recoveries' = recoveries + 1 /\ recoveries' \in Nat
      /\ recovering' = recovering \cup {th} /\ recovering' \in SUBSET Threads
  BY DEF BeginRecovery, IInv, Typed
<1> QED
  BY <1>3, <1>4, <1>5

LEMMA StartStep ==
    ASSUME IInv, Start
    PROVE  IInv'
<1>1. /\ phase = "down" /\ phase' = "recovery" /\ session' = session + 1
      /\ BeginRecovery("main")
      /\ UNCHANGED << made, at, view, again, snap, rows, lost >>
  BY DEF Start, durable, history
<1>2. "main" \in Threads
  BY DEF Threads
<1>3. /\ recoveries' = recoveries + 1 /\ recoveries' \in Nat /\ recoveries \in Nat
      /\ recovering' = recovering \cup {"main"} /\ recovering' \in SUBSET Threads
      /\ todo' \in [Threads -> Seq(Nat)]
      /\ \A u \in Threads : \A i \in 1 .. Len(todo'[u]) : todo'[u][i] \in Stored
  BY <1>1, <1>2, BeginStep DEF IInv, Typed
<1>4. /\ Stored' = Stored /\ CountedBy(snap)' = CountedBy(snap) /\ Shown(snap)' = Shown(snap)
      /\ \A i : StartReport(i)' <=> StartReport(i)
  BY <1>1 DEF Stored, CountedBy, Shown, StartReport
<1>5. session \in Nat /\ view = {} /\ again = {} /\ \A th \in Threads : at[th] = Idle
  BY <1>1 DEF IInv, Typed, PhaseInv, Threads
<1>6. \A i \in 1 .. Len(made) : made[i].session <= session /\ made[i].session \in Nat
  <2>1. \A i \in 1 .. Len(made) : made[i] \in Events
    BY DEF IInv, Typed
  <2> QED
    BY <2>1 DEF IInv, SessionInv, Events
<1>7. Typed'
  BY <1>1, <1>3, <1>5 DEF IInv, Typed
<1>8. SessionInv'
  BY <1>1, <1>3, <1>4, <1>5, <1>6 DEF IInv, SessionInv
<1>9. FlightInv'
  BY <1>1, <1>5 DEF FlightInv, Idle
<1>10. PhaseInv'
  <2>1. \A i \in 1 .. Len(made) : made[i].session # session + 1
    BY <1>5, <1>6
  <2> QED
    BY <1>1, <1>3, <1>5, <2>1 DEF IInv, PhaseInv, Idle, Threads
<1>11. ViewInv' /\ SnapInv'
  BY <1>1, <1>4, <1>5 DEF IInv, ViewInv, SnapInv, Shows
<1> QED
  BY <1>7, <1>8, <1>9, <1>10, <1>11 DEF IInv

LEMMA RecoverStep ==
    ASSUME IInv, Recover
    PROVE  IInv'
<1>1. /\ phase = "running" /\ BeginRecovery("bot")
      /\ UNCHANGED << made, phase, session, at, view, again, snap, rows, lost >>
  BY DEF Recover, Running, durable, history
<1>2. "bot" \in Threads
  BY DEF Threads
<1>3. /\ recoveries' = recoveries + 1 /\ recoveries' \in Nat /\ recoveries \in Nat
      /\ recovering' = recovering \cup {"bot"} /\ recovering' \in SUBSET Threads
      /\ todo' \in [Threads -> Seq(Nat)]
      /\ \A u \in Threads : \A i \in 1 .. Len(todo'[u]) : todo'[u][i] \in Stored
  BY <1>1, <1>2, BeginStep DEF IInv, Typed
<1>4. /\ Stored' = Stored /\ CountedBy(snap)' = CountedBy(snap) /\ Shown(snap)' = Shown(snap)
      /\ Way' = Way /\ Own' = Own /\ \A i : StartReport(i)' <=> StartReport(i)
  BY <1>1 DEF Stored, CountedBy, Shown, Way, Own, StartReport
<1>5. Typed'
  BY <1>1, <1>3 DEF IInv, Typed
<1>6. SessionInv'
  BY <1>1, <1>3, <1>4 DEF IInv, SessionInv
<1>7. FlightInv'
  <2>1. \A th \in Threads : at[th].run \in Nat
    BY DEF IInv, Typed, Slots
  <2> QED
    BY <1>1, <1>3, <1>4, <2>1 DEF IInv, FlightInv
<1>8. PhaseInv'
  BY <1>1, <1>3, <1>4 DEF IInv, PhaseInv
<1>9. ViewInv'
  <2>1. 0 .. recoveries \subseteq 0 .. recoveries'
    BY <1>3
  <2>2. view' \cup again' \subseteq (1 .. Len(made')) \X (0 .. recoveries')
    BY <1>1, <2>1 DEF IInv, ViewInv
  <2> QED
    BY <1>1, <1>4, <2>2 DEF IInv, ViewInv
<1>10. SnapInv'
  BY <1>1, <1>4 DEF IInv, SnapInv, Shows
<1> QED
  BY <1>5, <1>6, <1>7, <1>8, <1>9, <1>10 DEF IInv

\* It is main that recovers before the program runs, and the bot that does when it runs.
LEMMA WhoRecovers ==
    ASSUME IInv, NEW th \in recovering
    PROVE  \/ phase = "recovery" /\ th = "main" /\ recovering = {"main"}
           \/ phase = "running" /\ th = "bot" /\ recovering = {"bot"}
BY DEF IInv, Typed, PhaseInv, Threads

\* What is left after the next of the events to publish.
LEMMA NextLeft ==
    ASSUME NEW s \in Seq(Nat), s # << >>
    PROVE  /\ Head(s) = s[1] /\ 1 \in 1 .. Len(s) /\ Tail(s) \in Seq(Nat) /\ Len(s) \in Nat
           /\ Len(Tail(s)) = Len(s) - 1
           /\ \A i \in 1 .. Len(Tail(s)) : i + 1 \in 1 .. Len(s) /\ Tail(s)[i] = s[i + 1]
<1>1. /\ Tail(s) \in Seq(Nat) /\ Len(Tail(s)) = Len(s) - 1
      /\ \A i \in 1 .. Len(Tail(s)) : Tail(s)[i] = s[i + 1]
  BY HeadTailProperties
<1>2. Len(s) \in Nat /\ Len(s) # 0
  BY EmptySeq
<1> QED
  BY <1>1, <1>2

LEMMA ReplayStep ==
    ASSUME IInv, NEW th \in Threads, Replay(th)
    PROVE  IInv'
<1> DEFINE e == Head(todo[th])
           s == [id |-> e, run |-> recoveries, step |-> FirstHandler(made[e].kind)]
           p == << e, recoveries >>
<1>1. /\ th \in recovering /\ at[th] = Idle /\ todo[th] # << >>
      /\ todo' = [todo EXCEPT ![th] = Tail(@)]
      /\ at' = [at EXCEPT ![th] = s]
      /\ again' = IF phase = "running" THEN again \cup {p} ELSE again
      /\ UNCHANGED << made, phase, session, recoveries, recovering, view, snap, rows, lost >>
  BY DEF Replay, PublishAgain, durable, history
<1>2. /\ Stored' = Stored /\ CountedBy(snap)' = CountedBy(snap) /\ Shown(snap)' = Shown(snap)
      /\ Own' = Own /\ \A i : StartReport(i)' <=> StartReport(i)
  BY <1>1 DEF Stored, CountedBy, Shown, Own, StartReport
<1>3. todo[th] \in Seq(Nat)
  BY DEF IInv, Typed
<1>4. /\ e = todo[th][1] /\ 1 \in 1 .. Len(todo[th]) /\ Tail(todo[th]) \in Seq(Nat)
      /\ \A i \in 1 .. Len(Tail(todo[th])) :
            i + 1 \in 1 .. Len(todo[th]) /\ Tail(todo[th])[i] = todo[th][i + 1]
  BY <1>1, <1>3, NextLeft
<1>5. /\ todo' \in [Threads -> Seq(Nat)] /\ todo'[th] = Tail(todo[th])
      /\ \A u \in Threads \ {th} : todo'[u] = todo[u]
  BY <1>1, <1>4 DEF IInv, Typed
<1>6. e \in Stored /\ e \in 1 .. Len(made) /\ e \in Nat /\ e # 0 /\ recoveries \in Nat
  BY <1>4, StoredWasMade DEF IInv, Typed, SessionInv
<1> HIDE DEF e
<1>7. s \in Slots /\ s.id = e /\ s.run = recoveries /\ s.step \in {"learn", "store"}
  BY <1>6 DEF Slots, FirstHandler, Handlers
<1> HIDE DEF s
<1>8. at' \in [Threads -> Slots] /\ at'[th] = s /\ \A u \in Threads \ {th} : at'[u] = at[u]
  BY <1>1, <1>7 DEF IInv, Typed
<1>9. Way' = Way \cup {p}
  BY <1>1, <1>6, <1>7, WayTaken DEF IInv
<1>10. Typed'
  <2>1. again' \in SUBSET (Nat \X Nat)
    BY <1>1, <1>6 DEF IInv, Typed
  <2> QED
    BY <1>1, <1>5, <1>8, <2>1 DEF IInv, Typed
<1>11. SessionInv'
  <2>1. ASSUME NEW u \in Threads, NEW i \in 1 .. Len(todo'[u]) PROVE todo'[u][i] \in Stored
    <3>1. CASE u = th
      BY <1>4, <1>5, <2>1, <3>1 DEF IInv, SessionInv
    <3>2. CASE u # th
      BY <1>5, <2>1, <3>2 DEF IInv, SessionInv
    <3> QED
      BY <3>1, <3>2
  <2> QED
    BY <1>1, <1>2, <2>1 DEF IInv, SessionInv
<1>12. FlightInv'
  <2> SUFFICES ASSUME NEW u \in Threads
               PROVE  /\ at'[u].step = "idle" \/ at'[u].id = 0 => at'[u] = Idle
                      /\ at'[u].id # 0 =>
                            /\ at'[u].id \in 1 .. Len(made) /\ at'[u].run <= recoveries
                            /\ at'[u].id \in Stored \/ made[at'[u].id].session = session
                      /\ at'[u].step = "project" => at'[u].id \in Stored \cup lost
    BY <1>1, <1>2 DEF FlightInv
  <2>1. CASE u = th
    BY <1>6, <1>7, <1>8, <2>1
  <2>2. CASE u # th
    BY <1>8, <2>2 DEF IInv, FlightInv
  <2> QED
    BY <2>1, <2>2
<1>13. PhaseInv'
  <2>1. CASE phase = "recovery" /\ th = "main"
    BY <1>1, <1>2, <1>7, <1>8, <2>1 DEF IInv, PhaseInv, Threads
  <2>2. CASE phase = "running"
    BY <1>1, <2>2 DEF IInv, PhaseInv
  <2> QED
    BY <1>1, <2>1, <2>2, WhoRecovers
<1>14. ViewInv'
  <2>1. p \in (1 .. Len(made)) \X (0 .. recoveries)
    BY <1>6
  <2>2. view' \cup again' \subseteq (1 .. Len(made')) \X (0 .. recoveries')
    BY <1>1, <2>1 DEF IInv, ViewInv
  <2>3. phase = "running" => view' \cup Way' = (Own' \X {0}) \cup again'
    BY <1>1, <1>2, <1>9 DEF IInv, ViewInv
  <2> QED
    BY <1>1, <1>2, <2>2, <2>3 DEF IInv, ViewInv
<1>15. SnapInv'
  BY <1>1, <1>2 DEF IInv, SnapInv, Shows
<1> QED
  BY <1>10, <1>11, <1>12, <1>13, <1>14, <1>15 DEF IInv

LEMMA AttachStep ==
    ASSUME IInv, Attach
    PROVE  IInv'
<1>1. /\ phase = "recovery" /\ phase' = "running" /\ at["main"] = Idle /\ "main" \notin recovering
      /\ UNCHANGED << made, session, at, recoveries, recovering, todo, view, again, snap, rows, lost >>
  BY DEF Attach, durable, history, recovery
<1>2. /\ Stored' = Stored /\ CountedBy(snap)' = CountedBy(snap) /\ Shown(snap)' = Shown(snap)
      /\ \A i : StartReport(i)' <=> StartReport(i)
  BY <1>1 DEF Stored, CountedBy, Shown, StartReport
<1>3. view = {} /\ again = {} /\ \A th \in Threads : at[th].id = 0
  BY <1>1 DEF IInv, PhaseInv, Threads, Idle
<1>4. Typed' /\ SessionInv' /\ FlightInv' /\ PhaseInv'
  BY <1>1, <1>2 DEF IInv, Typed, SessionInv, FlightInv, PhaseInv
<1>5. ViewInv'
  <2>1. Way' = {} /\ Own' = {}
    BY <1>1, <1>2, <1>3 DEF Way, Own, IInv, PhaseInv
  <2> QED
    BY <1>1, <1>3, <2>1 DEF ViewInv
<1>6. SnapInv'
  BY <1>1, <1>2 DEF IInv, SnapInv, Shows
<1> QED
  BY <1>4, <1>5, <1>6 DEF IInv

LEMMA InvNext == IInv /\ [Next]_vars => IInv'
<1> SUFFICES ASSUME IInv, [Next]_vars PROVE IInv'
  OBVIOUS
<1>1. Typed /\ Threads = {"main", "stream", "bot"}
  BY DEF IInv, Threads
<1>2. ASSUME NEW t \in Trades, Open(t) PROVE IInv'
  <2> DEFINE e == Event("opened", t, TRUE)
  <2>1. /\ Publish("main", e) /\ at["main"] = Idle /\ phase = "running"
        /\ UNCHANGED << phase, session, recoveries, recovering, todo, view, again, snap, rows, lost >>
    BY <1>2 DEF Open, Running, durable, history, recovery
  <2>2. e \in Events /\ e.kind = "opened" /\ e.session = session
    BY <1>1 DEF Typed, Event, Events, Kinds
  <2> HIDE DEF e
  <2> QED
    BY <1>1, <2>1, <2>2, PublishStep
<1>3. ASSUME NEW t \in Trades, Close(t) PROVE IInv'
  <2> DEFINE e == Event("closed", t, t \in context)
  <2>1. /\ Publish("main", e) /\ at["main"] = Idle /\ phase = "running"
        /\ UNCHANGED << phase, session, recoveries, recovering, todo, view, again, snap, rows, lost >>
    BY <1>3 DEF Close, Running, durable, history, recovery
  <2>2. e \in Events /\ e.kind = "closed" /\ e.session = session
    BY <1>1 DEF Typed, Event, Events, Kinds
  <2> HIDE DEF e
  <2> QED
    BY <1>1, <2>1, <2>2, PublishStep
<1>4. CASE Deliver
  <2> DEFINE e == Event("filled", "order", TRUE)
  <2>1. /\ Publish("stream", e) /\ at["stream"] = Idle /\ phase = "running"
        /\ UNCHANGED << phase, session, recoveries, recovering, todo, view, again, snap, rows, lost >>
    BY <1>4 DEF Deliver, Running, durable, history, recovery
  <2>2. e \in Events /\ e.kind = "filled" /\ e.session = session
    BY <1>1 DEF Typed, Event, Events, Kinds
  <2> HIDE DEF e
  <2> QED
    BY <1>1, <2>1, <2>2, PublishStep
<1>5. ASSUME NEW th \in Threads, Report(th) PROVE IInv'
  <2> DEFINE e == Event("health", th, TRUE)
  <2>1. /\ Publish(th, e) /\ at[th] = Idle /\ th \in recovering /\ recovering' \subseteq recovering
        /\ UNCHANGED << phase, session, recoveries, todo, view, again, snap, rows, lost >>
    BY <1>5 DEF Report, durable, history
  <2>2. \/ phase = "recovery" /\ th = "main"
        \/ phase = "running" /\ th = "bot"
    BY <2>1, WhoRecovers
  <2>3. e \in Events /\ e.kind = "health" /\ e.about = th /\ e.session = session
    BY <1>1, <2>2 DEF Typed, Event, Events, Kinds
  <2> HIDE DEF e
  <2> QED
    BY <2>1, <2>2, <2>3, PublishStep
<1>6. ASSUME NEW th \in Threads, Learn(th) \/ Write(th) PROVE IInv'
  BY <1>6, GotoStep DEF Learn, Write, durable, history
<1>7. ASSUME NEW th \in Threads, Store(th) \/ Project(th) \/ Replay(th) PROVE IInv'
  BY <1>7, StoreStep, ProjectStep, ReplayStep
<1>8. CASE ReadView \/ Count \/ Save
  BY <1>8, ReadViewStep, CountStep, SaveStep
<1>9. CASE Crash \/ Start \/ Recover \/ Attach
  BY <1>9, CrashStep, StartStep, RecoverStep, AttachStep
<1>10. CASE UNCHANGED vars
  BY <1>10, Still DEF vars, recovery
<1> QED
  BY <1>2, <1>3, <1>4, <1>5, <1>6, <1>7, <1>8, <1>9, <1>10 DEF Next, Handle

LEMMA Invariant == Spec => []IInv
BY InvInit, InvNext, PTL DEF Spec

-----------------------------------------------------------------------------
\* The event store is the ledger EventLedger promises (event_store.py:187): whatever is
\* published again, crashes or fails, rows are only added, each event once, and each under
\* a session no earlier than those before.
THEOREM StoreIsALedger == Spec => LedgerSpec
<1>1. Init => Ledger!Init
  BY DEF Init, Ledger!Init
<1>2. ASSUME IInv, [Next]_vars
      PROVE  [Ledger!Next]_rows
  <2> SUFFICES ASSUME rows' # rows PROVE Ledger!Next
    OBVIOUS
  <2>1. PICK th \in Threads : Store(th)
    BY <1>2 DEF Next, vars, Handle, Open, Close, Deliver, Learn, Write, Project, ReadView, Count,
                Save, Crash, Start, Recover, Replay, Report, Attach, durable
  <2> DEFINE r == [id |-> at[th].id, session |-> session]
  <2>2. rows' = Append(rows, r) /\ at[th].id \notin Stored
    BY <2>1 DEF Store, Persist, Skip
  <2>3. r \in Rows /\ r.id = at[th].id /\ r.session = session /\ rows \in Seq(Rows)
    BY <1>2 DEF IInv, Typed, Rows, Slots
  <2> HIDE DEF r
  <2>4. rows' # << >> /\ rows'[Len(rows')] = r
    BY <2>2, <2>3, RowAppended
  <2>5. r.id \notin Ledger!Recorded
    BY <2>2, <2>3 DEF Ledger!Recorded, Stored
  <2>6. \A i \in 1 .. Len(rows) : rows[i].session <= session
    BY <1>2 DEF IInv, SessionInv
  <2> QED
    BY <2>2, <2>3, <2>4, <2>5, <2>6 DEF Ledger!Next, Ledger!Record
<1> QED
  BY <1>1, <1>2, Invariant, PTL DEF Spec, LedgerSpec, Ledger!Spec

\* What a snapshot shows is among the events it counts, and of those of its session it
\* lacks only events that were on their way (main.py:1528, snapshots.py:207).
THEOREM SnapshotsResume == Spec => []SnapshotResumes
<1>1. IInv => SnapshotResumes
  <2> SUFFICES ASSUME IInv, snap.counted, NEW e \in CountedBy(snap) \cap StoredIn(snap.session)
               PROVE  e \in Shown(snap) \cup snap.flight \/ e > snap.made \/ StartReport(e)
    BY DEF SnapshotResumes, IInv, SnapInv
  <2>1. PICK i \in 1 .. Len(rows) : e = rows[i].id /\ rows[i].session = snap.session
    BY DEF StoredIn
  <2>2. e \in 1 .. Len(made) /\ made[e].session = snap.session
    BY <2>1 DEF IInv, SessionInv
  <2>3. snap.made \in Nat /\ Len(made) \in Nat
    BY DEF IInv, Typed, Snaps
  <2>4. e \in 1 .. snap.made \/ e > snap.made
    BY <2>2, <2>3
  <2> QED
    BY <2>2, <2>4 DEF IInv, SnapInv, Shows
<1> QED
  BY <1>1, Invariant, PTL
-----------------------------------------------------------------------------
(* How often a close is learned from.                                      *)

Closes == {i \in 1 .. Len(made) : made[i].kind = "closed"}
About(i) == made[i].about
Left(th) == {todo[th][j] : j \in 1 .. Len(todo[th])}
Waiting == UNION {Left(th) : th \in Threads}
At(i, S) == \E th \in Threads : at[th].id = i /\ at[th].step \in S
Early == {"learn", "journal", "store"}

\* A trade is closed once, and only a close leaves a sample or a line.
CloseInv ==
    /\ samples \in [Trades -> Nat] /\ journal \in [Trades -> Nat]
    /\ \A i \in Closes : About(i) \in Trades /\ made[i].since \in Nat
    /\ \A i, j \in Closes : About(i) = About(j) => i = j
    /\ \A t \in Trades : samples[t] > 0 \/ journal[t] > 0 => \E i \in Closes : About(i) = t

\* An event is stored once, so a recovery publishes it again once; a new one is not stored
\* before the store has had it, and a thread of its own publishes it.
OrderInv ==
    /\ \A i, j \in 1 .. Len(rows) : rows[i].id = rows[j].id => i = j
    /\ \A th \in Threads : \A i, j \in 1 .. Len(todo[th]) : todo[th][i] = todo[th][j] => i = j
    /\ \A th \in Threads : th \notin recovering => todo[th] = << >>
    /\ recovering # {} => recoveries > 0
    /\ \A th \in Threads : at[th].id \notin Left(th)
    /\ \A th \in Threads : at[th].run # 0 => at[th].id \in Stored /\ th \in recovering
    /\ \A th \in Threads : at[th].run = 0 /\ at[th].step \in Early => at[th].id \notin Stored
    /\ \A th, u \in Threads :
          th # u /\ at[th].run = 0 /\ at[u].run = 0 /\ at[th].id = at[u].id => at[th].id = 0
    /\ \A th \in Threads : at[th].step \in {"learn", "journal"} => at[th].id \in Closes

\* A close has been learned from and written down at most once, and once more for each
\* recovery since it was made, and one time less while it waits.
OnceInv ==
    \A i \in Closes :
       /\ samples[About(i)] <= 1 + recoveries - made[i].since
       /\ i \in Waiting \/ At(i, {"learn"}) => samples[About(i)] <= recoveries - made[i].since
       /\ journal[About(i)] <= 1 + recoveries - made[i].since
       /\ i \in Waiting \/ At(i, {"learn", "journal"}) =>
             journal[About(i)] <= recoveries - made[i].since

\* What is past a handler has been through it.
DoneInv ==
    \A i \in Closes :
       /\ i \in Stored \/ At(i, {"store", "project"}) => journal[About(i)] > 0 \/ i \in unwritten
       /\ i \in Stored \/ At(i, {"journal", "store", "project"}) =>
             samples[About(i)] > 0 \/ i \in unlearned

LInv == CloseInv /\ OrderInv /\ OnceInv /\ DoneInv

LEMMA LearnInit == Init => LInv
<1> SUFFICES ASSUME Init PROVE LInv
  OBVIOUS
<1>1. Len(made) = 0 /\ Len(rows) = 0 /\ \A th \in Threads : Len(todo[th]) = 0 /\ todo[th] = << >>
  BY DEF Init
<1>2. Closes = {} /\ \A th \in Threads : Left(th) = {}
  BY <1>1 DEF Closes, Left
<1>3. OrderInv
  BY <1>1, <1>2 DEF Init, OrderInv, Idle, Early
<1> QED
  BY <1>1, <1>2, <1>3 DEF Init, LInv, CloseInv, OnceInv, DoneInv

\* A step that leaves alone all that is about the closes.
LEMMA LearnStill ==
    ASSUME LInv, UNCHANGED << made, at, recoveries, recovering, todo, rows, samples, journal,
                              unlearned, unwritten >>
    PROVE  LInv'
<1>1. /\ Closes' = Closes /\ Waiting' = Waiting /\ Stored' = Stored
      /\ \A th : Left(th)' = Left(th)
      /\ \A i : About(i)' = About(i) /\ \A S : At(i, S)' <=> At(i, S)
  BY DEF Closes, Left, Waiting, Stored, About, At
<1> QED
  BY <1>1 DEF LInv, CloseInv, OrderInv, OnceInv, DoneInv

\* What waits is stored.
LEMMA WaitingIsStored ==
    ASSUME Typed, SessionInv
    PROVE  /\ Waiting \subseteq Stored /\ \A th \in Threads : Left(th) \subseteq Waiting
           /\ Stored \subseteq 1 .. Len(made) /\ 0 \notin Waiting
<1>1. Stored \subseteq 1 .. Len(made)
  BY StoredWasMade
<1>2. \A th \in Threads : Left(th) \subseteq Stored /\ Left(th) \subseteq Waiting
  BY DEF SessionInv, Left, Waiting
<1>3. Waiting \subseteq Stored
  BY <1>2 DEF Waiting
<1> QED
  BY <1>1, <1>2, <1>3

\* A new event, which is no second close of a trade.
LEMMA LearnPublish ==
    ASSUME IInv, LInv, NEW th \in Threads, NEW e \in Events, Publish(th, e), at[th] = Idle,
           e.since = recoveries,
           e.kind = "closed" => e.about \in Trades /\ \A i \in Closes : About(i) # e.about,
           \/ recovering' = recovering
           \/ recovering' = recovering \ {th} /\ todo[th] = << >>,
           UNCHANGED << recoveries, todo, rows, samples, journal, unlearned, unwritten >>
    PROVE  LInv'
<1> DEFINE n == Len(made)
<1>1. /\ made' \in Seq(Events) /\ n \in Nat /\ Len(made') = n + 1 /\ made'[n + 1] = e
      /\ \A i \in 1 .. n : made'[i] = made[i]
  BY AppendProperties DEF IInv, Typed, Publish
<1>2. /\ Stored \subseteq 1 .. n /\ Stored' = Stored /\ Waiting' = Waiting
      /\ \A u \in Threads : Left(u)' = Left(u) /\ Left(u) \subseteq 1 .. n
      /\ recoveries \in Nat
  <2>1. Stored' = Stored /\ Waiting' = Waiting /\ \A u : Left(u)' = Left(u)
    BY DEF Stored, Waiting, Left
  <2>2. \A u \in Threads : Left(u) \subseteq Waiting
    BY DEF Waiting
  <2>3. Waiting \subseteq Stored /\ Stored \subseteq 1 .. n
    BY WaitingIsStored DEF IInv
  <2> QED
    BY <2>1, <2>2, <2>3 DEF IInv, Typed
<1>3. /\ at'[th].id = n + 1 /\ at'[th].run = 0 /\ at'[th].step = FirstHandler(e.kind)
      /\ \A u \in Threads \ {th} : at'[u] = at[u]
      /\ \A u \in Threads : at[u].id \in 0 .. n
  <2>1. \A u \in Threads : at[u].id \in Nat /\ (at[u].id # 0 => at[u].id \in 1 .. n)
    BY DEF IInv, Typed, FlightInv, Slots
  <2> QED
    BY <1>1, <2>1 DEF IInv, Typed, Publish
<1> HIDE DEF n
<1>4. /\ Closes \subseteq 1 .. n
      /\ \A i \in Closes' : i \in Closes \/ (i = n + 1 /\ e.kind = "closed")
      /\ Closes \subseteq Closes'
      /\ e.kind = "closed" => n + 1 \in Closes'
  BY <1>1 DEF Closes, n
<1>5. \A i \in Closes : About(i)' = About(i) /\ made'[i] = made[i]
  BY <1>1, <1>4 DEF About
<1>6. \A i \in Nat : i = n + 1 => About(i)' = e.about
  BY <1>1 DEF About
<1>7. ASSUME NEW i \in Closes, NEW S
      PROVE  At(i, S)' => At(i, S)
  <2>1. i # n + 1
    BY <1>1, <1>4
  <2> QED
    BY <1>3, <2>1 DEF At
<1>8. CloseInv'
  <2>1. ASSUME NEW i \in Closes'
        PROVE  \/ i \in Closes /\ About(i)' = About(i) /\ made'[i] = made[i]
               \/ i = n + 1 /\ About(i)' = e.about /\ made'[i] = e /\ e.kind = "closed"
    <3>1. CASE i \in Closes
      BY <1>5, <3>1
    <3>2. CASE i = n + 1 /\ e.kind = "closed"
      <4>1. i \in Nat
        BY <1>1, <3>2
      <4> QED
        BY <1>1, <1>6, <3>2, <4>1
    <3> QED
      BY <1>4, <3>1, <3>2
  <2>2. \A i \in Closes' : About(i)' \in Trades /\ made'[i].since \in Nat
    BY <1>2, <2>1 DEF LInv, CloseInv
  <2>3. ASSUME NEW i \in Closes', NEW j \in Closes', About(i)' = About(j)'
        PROVE  i = j
    <3>1. CASE i \in Closes /\ j \in Closes
      BY <1>5, <2>3, <3>1 DEF LInv, CloseInv
    <3>2. CASE i \notin Closes \/ j \notin Closes
      BY <2>1, <2>3, <3>2
    <3> QED
      BY <3>1, <3>2
  <2>4. \A t \in Trades : samples[t] > 0 \/ journal[t] > 0 => \E i \in Closes' : About(i)' = t
    BY <1>4, <1>5 DEF LInv, CloseInv
  <2>5. samples \in [Trades -> Nat] /\ journal \in [Trades -> Nat]
    BY DEF LInv, CloseInv
  <2> QED
    BY <2>2, <2>3, <2>4, <2>5 DEF CloseInv
<1>9. OrderInv'
  <2>1. \A u \in Threads : at'[u].id \notin Left(u)
    BY <1>1, <1>2, <1>3 DEF LInv, OrderInv
  <2>2. \A u, w \in Threads :
           u # w /\ at'[u].run = 0 /\ at'[w].run = 0 /\ at'[u].id = at'[w].id => at'[u].id = 0
    <3> SUFFICES ASSUME NEW u \in Threads, NEW w \in Threads, u # w, at'[u].run = 0,
                        at'[w].run = 0, at'[u].id = at'[w].id
                 PROVE  at'[u].id = 0
      OBVIOUS
    <3>1. u # th /\ w # th
      BY <1>1, <1>3
    <3> QED
      BY <1>3, <3>1 DEF LInv, OrderInv
  <2>3. \A u \in Threads : at'[u].step \in {"learn", "journal"} => at'[u].id \in Closes'
    BY <1>3, <1>4 DEF LInv, OrderInv, FirstHandler
  <2>4. \A u \in Threads : at'[u].run # 0 => at'[u].id \in Stored /\ u \in recovering'
    BY <1>3 DEF LInv, OrderInv
  <2>5. \A u \in Threads : at'[u].run = 0 /\ at'[u].step \in Early => at'[u].id \notin Stored
    BY <1>1, <1>2, <1>3 DEF LInv, OrderInv
  <2>6. /\ \A u \in Threads : u \notin recovering' => todo[u] = << >>
        /\ recovering' # {} => recoveries > 0
    BY DEF LInv, OrderInv
  <2> QED
    BY <1>2, <2>1, <2>2, <2>3, <2>4, <2>5, <2>6 DEF LInv, OrderInv
<1>10. OnceInv'
  <2> SUFFICES ASSUME NEW i \in Closes'
               PROVE  /\ samples[About(i)'] <= 1 + recoveries - made'[i].since
                      /\ i \in Waiting \/ At(i, {"learn"})' =>
                            samples[About(i)'] <= recoveries - made'[i].since
                      /\ journal[About(i)'] <= 1 + recoveries - made'[i].since
                      /\ i \in Waiting \/ At(i, {"learn", "journal"})' =>
                            journal[About(i)'] <= recoveries - made'[i].since
    BY <1>2 DEF OnceInv
  <2>1. CASE i \in Closes
    BY <1>5, <1>7, <2>1 DEF LInv, OnceInv
  <2>2. CASE i = n + 1 /\ e.kind = "closed"
    <3>1. samples[e.about] = 0 /\ journal[e.about] = 0
      BY <2>2 DEF LInv, CloseInv
    <3> QED
      BY <1>1, <1>2, <1>6, <2>2, <3>1
  <2> QED
    BY <1>4, <2>1, <2>2
<1>11. DoneInv'
  <2> SUFFICES ASSUME NEW i \in Closes'
               PROVE  /\ i \in Stored \/ At(i, {"store", "project"})' =>
                            journal[About(i)'] > 0 \/ i \in unwritten
                      /\ i \in Stored \/ At(i, {"journal", "store", "project"})' =>
                            samples[About(i)'] > 0 \/ i \in unlearned
    BY <1>2 DEF DoneInv
  <2>1. CASE i \in Closes
    BY <1>5, <1>7, <2>1 DEF LInv, DoneInv
  <2>2. CASE i = n + 1 /\ e.kind = "closed"
    <3>1. \A u \in Threads : at'[u].id = i => at'[u].step = "learn"
      BY <1>1, <1>3, <2>2 DEF FirstHandler
    <3>2. i \notin Stored
      BY <1>1, <1>2, <2>2
    <3> QED
      BY <3>1, <3>2 DEF At
  <2> QED
    BY <1>4, <2>1, <2>2
<1> QED
  BY <1>8, <1>9, <1>10, <1>11 DEF LInv

\* Who has a close that has not been learned from or written down has it alone.
LEMMA Alone ==
    ASSUME IInv, LInv, NEW th \in Threads, at[th].step \in {"learn", "journal"}
    PROVE  /\ at[th].id \notin Waiting /\ at[th].id # 0 /\ at[th].id \in Closes
           /\ \A u \in Threads \ {th} :
                 at[u].id = at[th].id => at[u].step \notin {"learn", "journal"}
<1>1. at[th].id # 0 /\ at[th].id \in Closes /\ at[th].step \in Early
  BY DEF IInv, FlightInv, Idle, LInv, OrderInv, Early
<1>2. Waiting \subseteq Stored
  BY WaitingIsStored DEF IInv
<1>3. CASE at[th].run = 0
  <2>1. at[th].id \notin Stored
    BY <1>1, <1>3 DEF LInv, OrderInv
  <2> QED
    BY <1>1, <1>2, <1>3, <2>1 DEF LInv, OrderInv
<1>4. CASE at[th].run # 0
  <2>1. at[th].id \in Stored /\ th \in recovering
    BY <1>4 DEF LInv, OrderInv
  <2>2. recovering = {th}
    BY <2>1, WhoRecovers
  <2>3. \A u \in Threads \ {th} : at[u].run = 0 /\ Left(u) = {}
    <3>1. \A u \in Threads \ {th} : todo[u] = << >>
      BY <2>2 DEF LInv, OrderInv
    <3> QED
      BY <2>2, <3>1 DEF LInv, OrderInv, Left
  <2>4. at[th].id \notin Waiting
    BY <2>3 DEF Waiting, LInv, OrderInv
  <2> QED
    BY <1>1, <2>1, <2>3, <2>4 DEF LInv, OrderInv, Early
<1> QED
  BY <1>3, <1>4

\* A handler is done with an event and the next one has it, or nobody.
LEMMA LearnMoves ==
    ASSUME NEW th \in Threads, \A u \in Threads \ {th} : at'[u] = at[u],
           at'[th].id \in {at[th].id, 0}
    PROVE  \A S : \A i \in Closes : At(i, S)' =>
              At(i, S) \/ (i = at[th].id /\ at'[th].id = i /\ at'[th].step \in S)
<1> SUFFICES ASSUME NEW S, NEW i \in Closes, At(i, S)'
             PROVE  At(i, S) \/ (i = at[th].id /\ at'[th].id = i /\ at'[th].step \in S)
  OBVIOUS
<1>1. PICK u \in Threads : at'[u].id = i /\ at'[u].step \in S
  BY DEF At
<1>2. i # 0
  BY DEF Closes
<1> QED
  BY <1>1, <1>2 DEF At

\* Another sample, or a failure.
LEMMA LearnLearn ==
    ASSUME IInv, LInv, NEW th \in Threads, Learn(th)
    PROVE  LInv'
<1> DEFINE e == at[th].id
           t == About(e)
<1>1. /\ at[th].step = "learn"
      /\ UNCHANGED << made, recoveries, recovering, todo, rows, journal, unwritten >>
      /\ at' = [at EXCEPT ![th].step = "journal"]
      /\ \/ samples' = [samples EXCEPT ![t] = @ + 1] /\ unlearned' = unlearned
         \/ samples' = samples /\ unlearned' = unlearned \cup {e}
  BY DEF Learn, Goto, Sample, Current, About, recovery
<1>2. /\ at'[th].id = e /\ at'[th].run = at[th].run /\ at'[th].step = "journal"
      /\ \A u \in Threads \ {th} : at'[u] = at[u]
  BY <1>1 DEF IInv, Typed, Slots
<1>3. /\ Closes' = Closes /\ Waiting' = Waiting /\ Stored' = Stored
      /\ \A i : About(i)' = About(i) /\ Left(i)' = Left(i)
  BY <1>1 DEF Closes, Waiting, Left, Stored, About
<1>4. \A S : \A i \in Closes : At(i, S)' => At(i, S) \/ (i = e /\ "journal" \in S)
  BY <1>2, LearnMoves
<1>5. /\ e \notin Waiting /\ e \in Closes /\ t \in Trades
      /\ \A u \in Threads \ {th} : at[u].id = e => at[u].step \notin {"learn", "journal"}
      /\ At(e, {"learn"}) /\ At(e, {"learn", "journal"})
      /\ \A i \in Closes : About(i) = t => i = e
  BY <1>1, Alone DEF LInv, CloseInv, At
<1>6. \A i \in Closes : i = e => ~ At(i, {"learn"})'
  BY <1>2, <1>5 DEF At
<1> HIDE DEF e, t
<1>7. /\ samples' \in [Trades -> Nat] /\ samples[t] \in Nat
      /\ \A x \in Trades \ {t} : samples'[x] = samples[x]
      /\ samples'[t] \in {samples[t], samples[t] + 1}
      /\ samples'[t] > 0 \/ e \in unlearned'
      /\ unlearned \subseteq unlearned'
  BY <1>1, <1>5 DEF LInv, CloseInv
<1>8. CloseInv'
  BY <1>1, <1>3, <1>5, <1>7 DEF LInv, CloseInv, t
<1>9. OrderInv'
  <2>1. \A u \in Threads : at'[u].id = at[u].id /\ at'[u].run = at[u].run
                           /\ (at'[u].step \in Early => at[u].step \in Early)
    BY <1>1, <1>2 DEF e, Early
  <2>2. \A u \in Threads : at'[u].step \in {"learn", "journal"} => at'[u].id \in Closes
    BY <1>2, <1>5, <2>1 DEF LInv, OrderInv, e
  <2> QED
    BY <1>1, <1>3, <2>1, <2>2 DEF LInv, OrderInv
<1>10. OnceInv'
  <2> SUFFICES ASSUME NEW i \in Closes
               PROVE  /\ samples'[About(i)] <= 1 + recoveries - made[i].since
                      /\ i \in Waiting \/ At(i, {"learn"})' =>
                            samples'[About(i)] <= recoveries - made[i].since
                      /\ journal[About(i)] <= 1 + recoveries - made[i].since
                      /\ i \in Waiting \/ At(i, {"learn", "journal"})' =>
                            journal[About(i)] <= recoveries - made[i].since
    BY <1>1, <1>3 DEF OnceInv
  <2>1. /\ journal[About(i)] <= 1 + recoveries - made[i].since
        /\ i \in Waiting \/ At(i, {"learn", "journal"})' =>
              journal[About(i)] <= recoveries - made[i].since
    <3>1. At(i, {"learn", "journal"})' => At(i, {"learn", "journal"})
      BY <1>4, <1>5
    <3> QED
      BY <3>1 DEF LInv, OnceInv
  <2>2. CASE i = e
    <3>1. samples[t] <= recoveries - made[i].since
      BY <1>5, <2>2 DEF LInv, OnceInv, t
    <3>2. recoveries \in Nat /\ made[i].since \in Nat
      BY DEF IInv, Typed, LInv, CloseInv
    <3>3. samples'[t] <= 1 + recoveries - made[i].since
      BY <1>7, <3>1, <3>2
    <3> QED
      BY <1>5, <1>6, <2>1, <2>2, <3>3 DEF t
  <2>3. CASE i # e
    <3>1. About(i) # t /\ About(i) \in Trades
      BY <1>5, <2>3 DEF LInv, CloseInv
    <3>2. At(i, {"learn"})' => At(i, {"learn"})
      BY <1>4, <2>3
    <3> QED
      BY <1>7, <2>1, <3>1, <3>2 DEF LInv, OnceInv
  <2> QED
    BY <2>2, <2>3
<1>11. DoneInv'
  <2> SUFFICES ASSUME NEW i \in Closes
               PROVE  /\ i \in Stored \/ At(i, {"store", "project"})' =>
                            journal[About(i)] > 0 \/ i \in unwritten
                      /\ i \in Stored \/ At(i, {"journal", "store", "project"})' =>
                            samples'[About(i)] > 0 \/ i \in unlearned'
    BY <1>1, <1>3 DEF DoneInv
  <2>1. At(i, {"store", "project"})' => At(i, {"store", "project"})
    BY <1>4
  <2>2. CASE i = e
    BY <1>7, <2>1, <2>2 DEF LInv, DoneInv, t
  <2>3. CASE i # e
    <3>1. About(i) # t /\ About(i) \in Trades
      BY <1>5, <2>3 DEF LInv, CloseInv
    <3>2. At(i, {"journal", "store", "project"})' => At(i, {"journal", "store", "project"})
      BY <1>4, <2>3
    <3> QED
      BY <1>7, <2>1, <3>1, <3>2 DEF LInv, DoneInv
  <2> QED
    BY <2>2, <2>3
<1> QED
  BY <1>8, <1>9, <1>10, <1>11 DEF LInv

\* Another line, or a failure.
LEMMA LearnWrite ==
    ASSUME IInv, LInv, NEW th \in Threads, Write(th)
    PROVE  LInv'
<1> DEFINE e == at[th].id
           t == About(e)
<1>1. /\ at[th].step = "journal"
      /\ UNCHANGED << made, recoveries, recovering, todo, rows, samples, unlearned >>
      /\ at' = [at EXCEPT ![th].step = "store"]
      /\ \/ journal' = [journal EXCEPT ![t] = @ + 1] /\ unwritten' = unwritten
         \/ journal' = journal /\ unwritten' = unwritten \cup {e}
  BY DEF Write, Goto, Current, About, recovery
<1>2. /\ at'[th].id = e /\ at'[th].run = at[th].run /\ at'[th].step = "store"
      /\ \A u \in Threads \ {th} : at'[u] = at[u]
  BY <1>1 DEF IInv, Typed, Slots
<1>3. /\ Closes' = Closes /\ Waiting' = Waiting /\ Stored' = Stored
      /\ \A i : About(i)' = About(i) /\ Left(i)' = Left(i)
  BY <1>1 DEF Closes, Waiting, Left, Stored, About
<1>4. \A S : \A i \in Closes : At(i, S)' => At(i, S) \/ (i = e /\ "store" \in S)
  BY <1>2, LearnMoves
<1>5. /\ e \notin Waiting /\ e \in Closes /\ t \in Trades
      /\ \A u \in Threads \ {th} : at[u].id = e => at[u].step \notin {"learn", "journal"}
      /\ At(e, {"learn", "journal"}) /\ At(e, {"journal", "store", "project"})
      /\ \A i \in Closes : About(i) = t => i = e
  BY <1>1, Alone DEF LInv, CloseInv, At
<1>6. \A i \in Closes : i = e => ~ At(i, {"learn", "journal"})'
  BY <1>2, <1>5 DEF At
<1> HIDE DEF e, t
<1>7. /\ journal' \in [Trades -> Nat] /\ journal[t] \in Nat
      /\ \A x \in Trades \ {t} : journal'[x] = journal[x]
      /\ journal'[t] \in {journal[t], journal[t] + 1}
      /\ journal'[t] > 0 \/ e \in unwritten'
      /\ unwritten \subseteq unwritten'
  BY <1>1, <1>5 DEF LInv, CloseInv
<1>8. CloseInv'
  BY <1>1, <1>3, <1>5, <1>7 DEF LInv, CloseInv, t
<1>9. OrderInv'
  <2>1. \A u \in Threads : at'[u].id = at[u].id /\ at'[u].run = at[u].run
                           /\ (at'[u].step \in Early => at[u].step \in Early)
    BY <1>1, <1>2 DEF e, Early
  <2>2. \A u \in Threads : at'[u].step \in {"learn", "journal"} => at'[u].id \in Closes
    BY <1>2, <1>5, <2>1 DEF LInv, OrderInv, e
  <2> QED
    BY <1>1, <1>3, <2>1, <2>2 DEF LInv, OrderInv
<1>10. OnceInv'
  <2> SUFFICES ASSUME NEW i \in Closes
               PROVE  /\ samples[About(i)] <= 1 + recoveries - made[i].since
                      /\ i \in Waiting \/ At(i, {"learn"})' =>
                            samples[About(i)] <= recoveries - made[i].since
                      /\ journal'[About(i)] <= 1 + recoveries - made[i].since
                      /\ i \in Waiting \/ At(i, {"learn", "journal"})' =>
                            journal'[About(i)] <= recoveries - made[i].since
    BY <1>1, <1>3 DEF OnceInv
  <2>1. /\ samples[About(i)] <= 1 + recoveries - made[i].since
        /\ i \in Waiting \/ At(i, {"learn"})' => samples[About(i)] <= recoveries - made[i].since
    <3>1. At(i, {"learn"})' => At(i, {"learn"})
      BY <1>4
    <3> QED
      BY <3>1 DEF LInv, OnceInv
  <2>2. CASE i = e
    <3>1. journal[t] <= recoveries - made[i].since
      BY <1>5, <2>2 DEF LInv, OnceInv, t
    <3>2. recoveries \in Nat /\ made[i].since \in Nat
      BY DEF IInv, Typed, LInv, CloseInv
    <3>3. journal'[t] <= 1 + recoveries - made[i].since
      BY <1>7, <3>1, <3>2
    <3> QED
      BY <1>5, <1>6, <2>1, <2>2, <3>3 DEF t
  <2>3. CASE i # e
    <3>1. About(i) # t /\ About(i) \in Trades
      BY <1>5, <2>3 DEF LInv, CloseInv
    <3>2. At(i, {"learn", "journal"})' => At(i, {"learn", "journal"})
      BY <1>4, <2>3
    <3> QED
      BY <1>7, <2>1, <3>1, <3>2 DEF LInv, OnceInv
  <2> QED
    BY <2>2, <2>3
<1>11. DoneInv'
  <2> SUFFICES ASSUME NEW i \in Closes
               PROVE  /\ i \in Stored \/ At(i, {"store", "project"})' =>
                            journal'[About(i)] > 0 \/ i \in unwritten'
                      /\ i \in Stored \/ At(i, {"journal", "store", "project"})' =>
                            samples[About(i)] > 0 \/ i \in unlearned
    BY <1>1, <1>3 DEF DoneInv
  <2>1. At(i, {"journal", "store", "project"})' => At(i, {"journal", "store", "project"})
    BY <1>4, <1>5
  <2>2. CASE i = e
    BY <1>7, <2>1, <2>2 DEF LInv, DoneInv, t
  <2>3. CASE i # e
    <3>1. About(i) # t /\ About(i) \in Trades
      BY <1>5, <2>3 DEF LInv, CloseInv
    <3>2. At(i, {"store", "project"})' => At(i, {"store", "project"})
      BY <1>4, <2>3
    <3> QED
      BY <1>7, <2>1, <3>1, <3>2 DEF LInv, DoneInv
  <2> QED
    BY <2>2, <2>3
<1> QED
  BY <1>8, <1>9, <1>10, <1>11 DEF LInv

\* The store: what it keeps has been through the handlers before it.
LEMMA LearnStore ==
    ASSUME IInv, LInv, NEW th \in Threads, Store(th)
    PROVE  LInv'
<1> DEFINE e == at[th].id
<1>1. /\ at[th].step = "store" /\ (Persist(e) \/ Skip(e)) /\ AfterStore(th)
      /\ UNCHANGED << made, recoveries, recovering, todo, samples, journal, unlearned, unwritten >>
  BY DEF Store, recovery
<1>2. /\ \/ at'[th] = Idle
         \/ at'[th].id = e /\ at'[th].run = at[th].run /\ at'[th].step = "project"
      /\ \A u \in Threads \ {th} : at'[u] = at[u]
  <2>1. at' = [at EXCEPT ![th] = Idle] \/ at' = [at EXCEPT ![th].step = "project"]
    BY <1>1 DEF AfterStore, Done, Goto
  <2> QED
    BY <2>1 DEF IInv, Typed, Slots
<1>3. /\ Closes' = Closes /\ Waiting' = Waiting /\ \A i : About(i)' = About(i) /\ Left(i)' = Left(i)
  BY <1>1 DEF Closes, Waiting, Left, About
<1>4. \A S : \A i \in Closes : At(i, S)' =>
         At(i, S) \/ (i = e /\ at'[th].id = i /\ at'[th].step \in S)
  BY <1>2, LearnMoves DEF Idle
<1>5. /\ Stored' \subseteq Stored \cup {e} /\ Stored \subseteq Stored'
      /\ \A i, j \in 1 .. Len(rows') : rows'[i].id = rows'[j].id => i = j
  <2>1. CASE rows' = rows
    BY <2>1 DEF LInv, OrderInv, Stored
  <2>2. CASE rows' # rows
    <3>1. rows' = Append(rows, [id |-> e, session |-> session]) /\ e \notin Stored
      BY <1>1, <2>2 DEF Persist, Skip
    <3> DEFINE r == [id |-> e, session |-> session]
    <3>2. r \in Rows /\ rows \in Seq(Rows) /\ rows' = Append(rows, r) /\ r.id = e
      BY <3>1 DEF IInv, Typed, Rows, Slots
    <3> HIDE DEF r
    <3>3. /\ Len(rows') = Len(rows) + 1 /\ Len(rows) \in Nat /\ rows'[Len(rows')] = r
          /\ \A i \in 1 .. Len(rows) : rows'[i] = rows[i]
          /\ Stored' = Stored \cup {r.id}
      BY <3>2, RowAppended
    <3>4. ASSUME NEW i \in 1 .. Len(rows'), NEW j \in 1 .. Len(rows'), rows'[i].id = rows'[j].id
          PROVE  i = j
      <4>1. \A k \in 1 .. Len(rows') : k \in 1 .. Len(rows) \/ k = Len(rows')
        BY <3>3
      <4>2. \A k \in 1 .. Len(rows) : rows'[k].id # e /\ rows'[k].id = rows[k].id
        BY <3>1, <3>3 DEF Stored
      <4> QED
        BY <3>2, <3>3, <3>4, <4>1, <4>2 DEF LInv, OrderInv
    <3> QED
      BY <3>2, <3>3, <3>4
  <2> QED
    BY <2>1, <2>2
<1>6. e # 0 /\ at[th].step \in Early
  BY <1>1 DEF IInv, FlightInv, Idle, Early
<1> HIDE DEF e
<1>7. CloseInv'
  BY <1>1, <1>3 DEF LInv, CloseInv
<1>8. OrderInv'
  <2>1. \A u \in Threads : at'[u].id \notin Left(u)
    <3>1. \A u \in Threads : 0 \notin Left(u)
      BY WaitingIsStored DEF IInv
    <3> QED
      BY <1>2, <3>1 DEF LInv, OrderInv, Idle, e
  <2>2. \A u \in Threads : at'[u].step \in {"learn", "journal"} => at'[u].id \in Closes
    BY <1>2 DEF LInv, OrderInv, Idle
  <2>3. \A u \in Threads : at'[u].run # 0 => at'[u].id \in Stored' /\ u \in recovering'
    BY <1>1, <1>2, <1>5 DEF LInv, OrderInv, Idle, e
  <2>4. ASSUME NEW u \in Threads, at'[u].run = 0, at'[u].step \in Early PROVE at'[u].id \notin Stored'
    <3>1. u # th
      BY <1>2, <2>4 DEF Idle, Early
    <3>2. at[u].run = 0 /\ at[u].id \notin Stored /\ at'[u].id = at[u].id
      BY <1>2, <2>4, <3>1 DEF LInv, OrderInv
    <3>3. at[u].id # e
      BY <1>6, <3>1, <3>2 DEF LInv, OrderInv, e
    <3> QED
      BY <1>5, <3>2, <3>3
  <2>5. \A u, w \in Threads :
           u # w /\ at'[u].run = 0 /\ at'[w].run = 0 /\ at'[u].id = at'[w].id => at'[u].id = 0
    BY <1>2 DEF LInv, OrderInv, Idle, e
  <2> QED
    BY <1>1, <1>3, <1>5, <2>1, <2>2, <2>3, <2>4, <2>5 DEF LInv, OrderInv
<1>9. OnceInv'
  <2>1. \A i \in Closes : /\ At(i, {"learn"})' => At(i, {"learn"})
                          /\ At(i, {"learn", "journal"})' => At(i, {"learn", "journal"})
    BY <1>2, <1>4 DEF Idle
  <2> QED
    BY <1>1, <1>3, <2>1 DEF LInv, OnceInv
<1>10. DoneInv'
  <2> SUFFICES ASSUME NEW i \in Closes
               PROVE  /\ i \in Stored' \/ At(i, {"store", "project"})' =>
                            journal[About(i)] > 0 \/ i \in unwritten
                      /\ i \in Stored' \/ At(i, {"journal", "store", "project"})' =>
                            samples[About(i)] > 0 \/ i \in unlearned
    BY <1>1, <1>3 DEF DoneInv
  <2>1. CASE i = e
    <3>1. At(i, {"store", "project"}) /\ At(i, {"journal", "store", "project"})
      BY <1>1, <2>1 DEF At, e
    <3> QED
      BY <3>1 DEF LInv, DoneInv
  <2>2. CASE i # e
    <3>1. /\ At(i, {"store", "project"})' => At(i, {"store", "project"})
          /\ At(i, {"journal", "store", "project"})' => At(i, {"journal", "store", "project"})
      BY <1>4, <2>2
    <3> QED
      BY <1>5, <2>2, <3>1 DEF LInv, DoneInv
  <2> QED
    BY <2>1, <2>2
<1> QED
  BY <1>7, <1>8, <1>9, <1>10 DEF LInv

\* The read models, and the end of the publication.
LEMMA LearnProject ==
    ASSUME IInv, LInv, NEW th \in Threads, Project(th)
    PROVE  LInv'
<1>1. /\ at' = [at EXCEPT ![th] = Idle]
      /\ UNCHANGED << made, recoveries, recovering, todo, rows, samples, journal,
                      unlearned, unwritten >>
  BY DEF Project, Done, durable, history, recovery
<1>2. at'[th] = Idle /\ \A u \in Threads \ {th} : at'[u] = at[u]
  BY <1>1 DEF IInv, Typed
<1>3. /\ Closes' = Closes /\ Waiting' = Waiting /\ Stored' = Stored
      /\ \A i : About(i)' = About(i) /\ Left(i)' = Left(i)
  BY <1>1 DEF Closes, Waiting, Left, Stored, About
<1>4. \A S : \A i \in Closes : At(i, S)' => At(i, S)
  <2>1. \A i \in Closes : i # 0
    BY DEF Closes
  <2> QED
    BY <1>2, <2>1, LearnMoves DEF Idle
<1>5. \A u \in Threads : 0 \notin Left(u)
  BY WaitingIsStored DEF IInv
<1>6. OrderInv'
  BY <1>1, <1>2, <1>3, <1>5 DEF LInv, OrderInv, Idle, Early
<1> QED
  BY <1>1, <1>3, <1>4, <1>6 DEF LInv, CloseInv, OnceInv, DoneInv

\* A crash: nothing waits any more.
LEMMA LearnCrash ==
    ASSUME IInv, LInv, Crash
    PROVE  LInv'
<1>1. /\ at' = [th \in Threads |-> Idle] /\ recovering' = {} /\ todo' = [th \in Threads |-> << >>]
      /\ UNCHANGED << made, recoveries, rows, samples, journal, unlearned, unwritten >>
  BY DEF Crash, durable
<1>2. Closes' = Closes /\ Stored' = Stored /\ \A i : About(i)' = About(i)
  BY <1>1 DEF Closes, Stored, About
<1>3. (\A th \in Threads : Left(th)' = {}) /\ Waiting' = {}
  BY <1>1 DEF Left, Waiting
<1>4. \A S : \A i \in Closes : ~ At(i, S)'
  <2>1. \A i \in Closes : i # 0
    BY DEF Closes
  <2> QED
    BY <1>1, <2>1 DEF At, Idle
<1>5. OrderInv'
  BY <1>1, <1>2, <1>3 DEF LInv, OrderInv, Idle, Early
<1> QED
  BY <1>1, <1>2, <1>3, <1>4, <1>5 DEF LInv, CloseInv, OnceInv, DoneInv

\* A recovery begins: every stored event may be published once more.
LEMMA LearnBegin ==
    ASSUME IInv, LInv, NEW th \in Threads, BeginRecovery(th), at[th] = Idle,
           UNCHANGED << made, at, rows, samples, journal, unlearned, unwritten >>
    PROVE  LInv'
<1>1. /\ recoveries' = recoveries + 1 /\ recoveries \in Nat
      /\ recovering' = recovering \cup {th}
      /\ \A u \in Threads \ {th} : todo'[u] = todo[u]
  BY BeginStep DEF IInv, Typed
<1>2. PICK stored \in {Latest, << >>} : todo'[th] = stored
  BY BeginStep
<1>3. /\ Closes' = Closes /\ Stored' = Stored
      /\ \A i : About(i)' = About(i) /\ \A S : At(i, S)' <=> At(i, S)
  BY DEF Closes, Stored, About, At
<1>4. \A i, j \in 1 .. Len(stored) : stored[i] = stored[j] => i = j
  BY LatestStored DEF IInv, LInv, OrderInv
<1>5. \A u \in Threads : at[u].id \notin Left(u)'
  <2> TAKE u \in Threads
  <2>1. CASE u = th
    <3>1. 0 \notin Stored
      BY StoredWasMade DEF IInv
    <3>2. \A i \in 1 .. Len(stored) : stored[i] # 0
      BY <3>1, LatestStored DEF IInv
    <3> QED
      BY <1>2, <2>1, <3>2 DEF Left, Idle
  <2>2. CASE u # th
    BY <1>1, <2>2 DEF Left, LInv, OrderInv
  <2> QED
    BY <2>1, <2>2
<1>6. OrderInv'
  <2>1. ASSUME NEW u \in Threads, NEW i \in 1 .. Len(todo'[u]), NEW j \in 1 .. Len(todo'[u]),
               todo'[u][i] = todo'[u][j]
        PROVE  i = j
    <3>1. CASE u = th
      BY <1>2, <1>4, <2>1, <3>1
    <3>2. CASE u # th
      BY <1>1, <2>1, <3>2 DEF LInv, OrderInv
    <3> QED
      BY <3>1, <3>2
  <2>2. \A u \in Threads : u \notin recovering' => todo'[u] = << >>
    BY <1>1 DEF LInv, OrderInv
  <2>3. recoveries' > 0
    BY <1>1
  <2> QED
    BY <1>1, <1>3, <1>5, <2>1, <2>2, <2>3 DEF LInv, OrderInv
<1>7. OnceInv'
  <2> SUFFICES ASSUME NEW i \in Closes
               PROVE  /\ samples[About(i)] <= recoveries' - made[i].since
                      /\ journal[About(i)] <= recoveries' - made[i].since
                      /\ samples[About(i)] <= 1 + recoveries' - made[i].since
                      /\ journal[About(i)] <= 1 + recoveries' - made[i].since
    BY <1>3 DEF OnceInv
  <2>1. /\ samples[About(i)] \in Nat /\ journal[About(i)] \in Nat /\ made[i].since \in Nat
        /\ samples[About(i)] <= 1 + recoveries - made[i].since
        /\ journal[About(i)] <= 1 + recoveries - made[i].since
    BY DEF LInv, CloseInv, OnceInv
  <2> QED
    BY <1>1, <2>1
<1>8. CloseInv' /\ DoneInv'
  BY <1>3 DEF LInv, CloseInv, DoneInv
<1> QED
  BY <1>6, <1>7, <1>8 DEF LInv

\* The next event is published again.
LEMMA LearnReplay ==
    ASSUME IInv, LInv, NEW th \in Threads, Replay(th)
    PROVE  LInv'
<1> DEFINE h == Head(todo[th])
           s == todo[th]
<1>1. /\ th \in recovering /\ at[th] = Idle /\ s # << >>
      /\ todo' = [todo EXCEPT ![th] = Tail(s)]
      /\ at' = [at EXCEPT ![th] = [id |-> h, run |-> recoveries, step |-> FirstHandler(made[h].kind)]]
      /\ UNCHANGED << made, recoveries, recovering, rows, samples, journal, unlearned, unwritten >>
  BY DEF Replay, PublishAgain, durable, history
<1>2. /\ h = s[1] /\ 1 \in 1 .. Len(s) /\ Len(s) \in Nat
      /\ \A i \in 1 .. Len(Tail(s)) : i + 1 \in 1 .. Len(s) /\ Tail(s)[i] = s[i + 1]
      /\ Len(Tail(s)) = Len(s) - 1
  <2>1. s \in Seq(Nat) /\ s # << >>
    BY <1>1 DEF IInv, Typed
  <2>2. h = Head(s)
    OBVIOUS
  <2> HIDE DEF s, h
  <2> QED
    BY <2>1, <2>2, NextLeft
<1>3. /\ todo'[th] = Tail(s) /\ \A u \in Threads \ {th} : todo'[u] = todo[u]
      /\ \A i, j \in 1 .. Len(s) : s[i] = s[j] => i = j
  BY <1>1 DEF IInv, Typed, LInv, OrderInv
<1>4. h \in Waiting /\ h \in Stored /\ h # 0 /\ h \in Left(th)
  <2>1. h \in Left(th)
    BY <1>2 DEF Left
  <2> QED
    BY <2>1, WaitingIsStored DEF IInv
<1>5. \A i \in 1 .. Len(Tail(s)) : Tail(s)[i] \in Left(th) /\ Tail(s)[i] # h
  <2> TAKE i \in 1 .. Len(Tail(s))
  <2>1. i + 1 \in 1 .. Len(s) /\ Tail(s)[i] = s[i + 1] /\ i + 1 # 1
    BY <1>2
  <2> QED
    BY <1>2, <1>3, <2>1 DEF Left
<1> HIDE DEF s, h
<1>6. Waiting' \subseteq Waiting /\ h \notin Left(th)' /\ \A u \in Threads : Left(u)' \subseteq Left(u)
  <2>1. Left(th)' \subseteq Left(th) /\ h \notin Left(th)'
    BY <1>3, <1>5 DEF Left
  <2>2. ASSUME NEW u \in Threads PROVE Left(u)' \subseteq Left(u)
    <3>1. CASE u = th
      BY <2>1, <3>1
    <3>2. CASE u # th
      BY <1>3, <3>2 DEF Left
    <3> QED
      BY <3>1, <3>2
  <2> QED
    BY <2>1, <2>2 DEF Waiting
<1>7. /\ Closes' = Closes /\ Stored' = Stored /\ \A i : About(i)' = About(i)
  BY <1>1 DEF Closes, Stored, About
<1>8. /\ at'[th].id = h /\ at'[th].run = recoveries /\ at'[th].step = FirstHandler(made[h].kind)
      /\ recoveries # 0 /\ \A u \in Threads \ {th} : at'[u] = at[u]
  BY <1>1 DEF IInv, Typed, LInv, OrderInv
<1>9. ASSUME NEW i \in Closes, NEW S, At(i, S)'
      PROVE  At(i, S) \/ i = h
  <2>1. PICK u \in Threads : at'[u].id = i /\ at'[u].step \in S
    BY <1>9 DEF At
  <2> QED
    BY <1>8, <2>1 DEF At
<1>10. OrderInv'
  <2>1. ASSUME NEW u \in Threads, NEW i \in 1 .. Len(todo'[u]), NEW j \in 1 .. Len(todo'[u]),
               todo'[u][i] = todo'[u][j]
        PROVE  i = j
    <3>1. CASE u = th
      <4>1. i + 1 \in 1 .. Len(s) /\ j + 1 \in 1 .. Len(s) /\ s[i + 1] = s[j + 1]
        BY <1>2, <1>3, <2>1, <3>1
      <4>2. i + 1 = j + 1
        BY <1>3, <4>1
      <4>3. i \in Nat /\ j \in Nat
        BY <1>2, <1>3, <3>1
      <4> QED
        BY <4>2, <4>3
    <3>2. CASE u # th
      BY <1>3, <2>1, <3>2 DEF LInv, OrderInv
    <3> QED
      BY <3>1, <3>2
  <2>2. \A u \in Threads : at'[u].id \notin Left(u)'
    BY <1>6, <1>8 DEF LInv, OrderInv
  <2>3. \A u, w \in Threads :
           u # w /\ at'[u].run = 0 /\ at'[w].run = 0 /\ at'[u].id = at'[w].id => at'[u].id = 0
    BY <1>8 DEF LInv, OrderInv
  <2>4. \A u \in Threads : at'[u].step \in {"learn", "journal"} => at'[u].id \in Closes
    <3>1. FirstHandler(made[h].kind) \in {"learn", "journal"} => h \in Closes
      BY <1>4, WaitingIsStored DEF IInv, FirstHandler, Closes
    <3> QED
      BY <1>8, <3>1 DEF LInv, OrderInv
  <2>5. \A u \in Threads : at'[u].run # 0 => at'[u].id \in Stored /\ u \in recovering
    BY <1>1, <1>4, <1>8 DEF LInv, OrderInv
  <2>6. \A u \in Threads : at'[u].run = 0 /\ at'[u].step \in Early => at'[u].id \notin Stored
    BY <1>8 DEF LInv, OrderInv
  <2>7. \A u \in Threads : u \notin recovering => todo'[u] = << >>
    BY <1>1, <1>3 DEF LInv, OrderInv
  <2> QED
    BY <1>1, <1>7, <2>1, <2>2, <2>3, <2>4, <2>5, <2>6, <2>7 DEF LInv, OrderInv
<1>11. OnceInv'
  BY <1>1, <1>4, <1>6, <1>7, <1>9 DEF LInv, OnceInv
<1>12. DoneInv'
  BY <1>1, <1>4, <1>7, <1>9 DEF LInv, DoneInv
<1>13. CloseInv'
  BY <1>1, <1>7 DEF LInv, CloseInv
<1> QED
  BY <1>10, <1>11, <1>12, <1>13 DEF LInv

LEMMA LearnNext == IInv /\ LInv /\ [Next]_vars => LInv'
<1> SUFFICES ASSUME IInv, LInv, [Next]_vars PROVE LInv'
  OBVIOUS
<1>1. Typed /\ Threads = {"main", "stream", "bot"}
  BY DEF IInv, Threads
<1>2. ASSUME NEW t \in Trades, Open(t) PROVE LInv'
  <2> DEFINE e == Event("opened", t, TRUE)
  <2>1. /\ Publish("main", e) /\ at["main"] = Idle
        /\ UNCHANGED << recoveries, recovering, todo, rows, samples, journal, unlearned, unwritten >>
    BY <1>2 DEF Open, Running, durable, history, recovery
  <2>2. e \in Events /\ e.kind # "closed" /\ e.since = recoveries
    BY <1>1 DEF Typed, Event, Events, Kinds
  <2> HIDE DEF e
  <2> QED
    BY <1>1, <2>1, <2>2, LearnPublish
<1>3. ASSUME NEW t \in Trades, Close(t) PROVE LInv'
  <2> DEFINE e == Event("closed", t, t \in context)
  <2>1. /\ Publish("main", e) /\ at["main"] = Idle
        /\ UNCHANGED << recoveries, recovering, todo, rows, samples, journal, unlearned, unwritten >>
    BY <1>3 DEF Close, Running, durable, history, recovery
  <2>2. e \in Events /\ e.about = t /\ e.since = recoveries
    BY <1>1 DEF Typed, Event, Events, Kinds
  <2>3. \A i \in Closes : About(i) # t
    BY <1>3 DEF Close, Closes, About
  <2> HIDE DEF e
  <2> QED
    BY <1>1, <2>1, <2>2, <2>3, LearnPublish
<1>4. CASE Deliver
  <2> DEFINE e == Event("filled", "order", TRUE)
  <2>1. /\ Publish("stream", e) /\ at["stream"] = Idle
        /\ UNCHANGED << recoveries, recovering, todo, rows, samples, journal, unlearned, unwritten >>
    BY <1>4 DEF Deliver, Running, durable, history, recovery
  <2>2. e \in Events /\ e.kind # "closed" /\ e.since = recoveries
    BY <1>1 DEF Typed, Event, Events, Kinds
  <2> HIDE DEF e
  <2> QED
    BY <1>1, <2>1, <2>2, LearnPublish
<1>5. ASSUME NEW th \in Threads, Report(th) PROVE LInv'
  <2> DEFINE e == Event("health", th, TRUE)
  <2>1. /\ Publish(th, e) /\ at[th] = Idle /\ th \in recovering
        /\ recovering' = recovering \ {th} /\ todo[th] = << >>
        /\ UNCHANGED << recoveries, todo, rows, samples, journal, unlearned, unwritten >>
    BY <1>5 DEF Report, durable, history
  <2>2. th \in {"main", "bot"}
    BY <2>1, WhoRecovers
  <2>3. e \in Events /\ e.kind # "closed" /\ e.since = recoveries
    BY <1>1, <2>2 DEF Typed, Event, Events, Kinds
  <2> HIDE DEF e
  <2> QED
    BY <2>1, <2>3, LearnPublish
<1>6. ASSUME NEW th \in Threads, Handle(th) \/ Replay(th) PROVE LInv'
  BY <1>6, LearnLearn, LearnWrite, LearnStore, LearnProject, LearnReplay DEF Handle
<1>7. CASE ReadView \/ Count \/ Save \/ Attach
  BY <1>7, LearnStill DEF ReadView, Count, Save, Attach, durable, history, recovery
<1>8. CASE Crash
  BY <1>8, LearnCrash
<1>9. CASE Start
  <2>1. at["main"] = Idle /\ "main" \in Threads
    BY <1>1, <1>9 DEF Start, IInv, PhaseInv
  <2> QED
    BY <1>9, <2>1, LearnBegin DEF Start, durable, history
<1>10. CASE Recover
  BY <1>1, <1>10, LearnBegin DEF Recover, Running, durable, history
<1>11. CASE UNCHANGED vars
  BY <1>11, LearnStill DEF vars
<1> QED
  BY <1>2, <1>3, <1>4, <1>5, <1>6, <1>7, <1>8, <1>9, <1>10, <1>11 DEF Next

\* A stored close has been learned from and written down, or that failed, and neither more
\* often than once and once for each recovery since it was made (learning_loop.py,
\* subscribers.py, recovery.py), whatever is published again and wherever the program
\* crashes.
THEOREM LearnedOnce == Spec => []LearnedOncePerRun
<1>1. LInv => LearnedOncePerRun
  BY DEF LInv, OnceInv, DoneInv, LearnedOncePerRun, Closes, About
<1> QED
  BY <1>1, LearnInit, LearnNext, Invariant, PTL DEF Spec
-----------------------------------------------------------------------------
(* That the read models are given nothing twice.                           *)

\* What is on its way to the read models, or still to be published again, they were not
\* given.
FreshInv ==
    /\ \A th \in Threads : at[th].id # 0 => << at[th].id, at[th].run >> \notin view
    /\ \A th \in Threads : \A e \in Left(th) : << e, recoveries >> \notin view

LEMMA FreshInit == Init => FreshInv
BY DEF Init, FreshInv

\* A step that gives the read models nothing, and of which each publication was on its way.
LEMMA FreshStill ==
    ASSUME FreshInv, view' = view \/ view' = {}, recoveries' = recoveries,
           \A th \in Threads : /\ at'[th].id = 0
                                  \/ (at'[th].id = at[th].id /\ at'[th].run = at[th].run)
                               /\ todo'[th] = todo[th] \/ todo'[th] = << >>
    PROVE  FreshInv'
<1>1. \A th \in Threads : Left(th)' \subseteq Left(th)
  <2> SUFFICES ASSUME NEW th \in Threads PROVE Left(th)' \subseteq Left(th)
    OBVIOUS
  <2>1. CASE todo'[th] = todo[th]
    BY <2>1 DEF Left
  <2>2. CASE todo'[th] = << >>
    BY <2>2 DEF Left
  <2> QED
    BY <2>1, <2>2
<1> QED
  BY <1>1 DEF FreshInv

\* Two threads do not publish the same event for the same recovery.
LEMMA Apart ==
    ASSUME IInv, LInv, NEW th \in Threads, NEW u \in Threads, th # u, at[th].id # 0,
           at[th].id = at[u].id, at[th].run = at[u].run
    PROVE  FALSE
<1>1. at[th].run # 0
  BY DEF LInv, OrderInv
<1>2. th \in recovering /\ u \in recovering
  BY <1>1 DEF LInv, OrderInv
<1> QED
  BY <1>2, WhoRecovers

LEMMA FreshPublish ==
    ASSUME IInv, FreshInv, NEW th \in Threads, NEW e, Publish(th, e),
           UNCHANGED << recoveries, todo, view >>
    PROVE  FreshInv'
<1>1. /\ at'[th].id = Len(made) + 1 /\ Len(made) \in Nat
      /\ \A u \in Threads \ {th} : at'[u] = at[u]
  BY DEF Publish, IInv, Typed
<1>2. \A n : << Len(made) + 1, n >> \notin view
  BY <1>1 DEF IInv, ViewInv
<1>3. \A u : Left(u)' = Left(u)
  BY DEF Left
<1> QED
  BY <1>1, <1>2, <1>3 DEF FreshInv

LEMMA FreshProject ==
    ASSUME IInv, LInv, FreshInv, NEW th \in Threads, Project(th)
    PROVE  FreshInv'
<1>1. /\ at'[th].id = 0 /\ \A u \in Threads \ {th} : at'[u] = at[u]
      /\ view' = view \cup {<< at[th].id, at[th].run >>} /\ at[th].id # 0
      /\ UNCHANGED << recoveries, recovering, todo >>
  BY DEF Project, See, Done, Idle, IInv, Typed, FlightInv, recovery
<1>2. \A u : Left(u)' = Left(u)
  BY <1>1 DEF Left
<1>3. ASSUME NEW u \in Threads, at'[u].id # 0 PROVE << at'[u].id, at'[u].run >> \notin view'
  <2>1. u # th /\ at'[u] = at[u]
    BY <1>1, <1>3
  <2> QED
    BY <1>1, <1>3, <2>1, Apart DEF FreshInv
<1>4. ASSUME NEW u \in Threads, NEW e \in Left(u) PROVE << e, recoveries >> \notin view'
  <2> SUFFICES ASSUME e = at[th].id, recoveries = at[th].run PROVE FALSE
    BY <1>1, <1>4 DEF FreshInv
  <2>1. u \in recovering
    BY <1>4 DEF LInv, OrderInv, Left
  <2>2. th \in recovering
    BY <2>1 DEF LInv, OrderInv
  <2>3. u = th
    BY <2>1, <2>2, WhoRecovers
  <2> QED
    BY <1>4, <2>3 DEF LInv, OrderInv
<1> QED
  BY <1>1, <1>2, <1>3, <1>4 DEF FreshInv

LEMMA FreshReplay ==
    ASSUME IInv, LInv, FreshInv, NEW th \in Threads, Replay(th)
    PROVE  FreshInv'
<1> DEFINE e == Head(todo[th])
<1>1. /\ todo[th] # << >> /\ at'[th].id = e /\ at'[th].run = recoveries
      /\ \A u \in Threads \ {th} : at'[u] = at[u] /\ todo'[u] = todo[u]
      /\ todo'[th] = Tail(todo[th]) /\ UNCHANGED << recoveries, view >>
  BY DEF Replay, PublishAgain, IInv, Typed
<1>2. e \in Left(th) /\ Left(th)' \subseteq Left(th)
  BY <1>1, NextLeft DEF Left
<1> HIDE DEF e
<1>3. \A u \in Threads : Left(u)' \subseteq Left(u)
  BY <1>1, <1>2 DEF Left
<1> QED
  BY <1>1, <1>2, <1>3 DEF FreshInv

\* A recovery has a number the read models have not met.
LEMMA FreshBegin ==
    ASSUME IInv, LInv, FreshInv, NEW th \in Threads, BeginRecovery(th), UNCHANGED << at, view >>
    PROVE  FreshInv'
<1>1. recoveries' = recoveries + 1 /\ recoveries \in Nat
  BY DEF BeginRecovery, IInv, Typed
<1>2. \A e : << e, recoveries' >> \notin view
  BY <1>1 DEF IInv, ViewInv
<1> QED
  BY <1>2 DEF FreshInv

LEMMA FreshNext == IInv /\ LInv /\ FreshInv /\ [Next]_vars => FreshInv'
<1> SUFFICES ASSUME IInv, LInv, FreshInv, [Next]_vars PROVE FreshInv'
  OBVIOUS
<1>1. Typed /\ Threads = {"main", "stream", "bot"}
  BY DEF IInv, Threads
<1>2. ASSUME NEW t \in Trades, Open(t) \/ Close(t) PROVE FreshInv'
  BY <1>1, <1>2, FreshPublish DEF Open, Close, recovery, durable, history
<1>3. CASE Deliver
  BY <1>1, <1>3, FreshPublish DEF Deliver, recovery, durable, history
<1>4. ASSUME NEW th \in Threads, Report(th) PROVE FreshInv'
  BY <1>4, FreshPublish DEF Report, durable, history
<1>5. ASSUME NEW th \in Threads, Learn(th) \/ Write(th) \/ Store(th) PROVE FreshInv'
  <2>1. /\ UNCHANGED << view, recoveries, todo >>
        /\ \/ \E step : at' = [at EXCEPT ![th].step = step]
           \/ at' = [at EXCEPT ![th] = Idle]
    BY <1>5 DEF Learn, Write, Store, AfterStore, Goto, Done, recovery
  <2>2. ASSUME NEW u \in Threads
        PROVE  at'[u].id = 0 \/ (at'[u].id = at[u].id /\ at'[u].run = at[u].run)
    <3>1. CASE u # th
      BY <1>1, <2>1, <3>1 DEF Typed
    <3>2. CASE u = th /\ at' = [at EXCEPT ![th] = Idle]
      BY <1>1, <3>2 DEF Typed, Idle
    <3>3. ASSUME u = th, NEW step, at' = [at EXCEPT ![th].step = step]
          PROVE  at'[u].id = at[u].id /\ at'[u].run = at[u].run
      <4>1. at[th] \in Slots /\ at'[th] = [at[th] EXCEPT !.step = step]
        BY <1>1, <3>3 DEF Typed
      <4> QED
        BY <3>3, <4>1 DEF Slots
    <3> QED
      BY <2>1, <3>1, <3>2, <3>3
  <2> QED
    BY <2>1, <2>2, FreshStill
<1>6. ASSUME NEW th \in Threads, Project(th) \/ Replay(th) PROVE FreshInv'
  BY <1>6, FreshProject, FreshReplay
<1>7. CASE ReadView \/ Count \/ Save \/ Attach
  BY <1>7, FreshStill DEF ReadView, Count, Save, Attach, recovery
<1>8. CASE Crash
  <2>1. view' = {} /\ recoveries' = recoveries
        /\ \A u \in Threads : at'[u].id = 0 /\ todo'[u] = << >>
    BY <1>8 DEF Crash, Idle
  <2> QED
    BY <2>1, FreshStill
<1>9. CASE Start
  BY <1>1, <1>9, FreshBegin DEF Start
<1>10. CASE Recover
  BY <1>1, <1>10, FreshBegin DEF Recover
<1>11. CASE UNCHANGED vars
  BY <1>11, FreshStill DEF vars
<1> QED
  BY <1>2, <1>3, <1>4, <1>5, <1>6, <1>7, <1>8, <1>9, <1>10, <1>11 DEF Next, Handle

\* The read models were given the events of the session (projections.py), all but what the
\* start reported, and what /recover published, each once for each command and nothing
\* that they had been given.
THEOREM ViewIsTheSession == Spec => []ViewFollowsSession
<1>1. IInv /\ FreshInv => ViewFollowsSession
  <2> SUFFICES ASSUME IInv, FreshInv PROVE ViewFollowsSession
    OBVIOUS
  <2>1. ASSUME phase = "running", InFlight = {} PROVE view = (Own \X {0}) \cup again
    <3>1. \A th \in Threads : at[th].id = 0
      BY <2>1 DEF InFlight
    <3>2. Way = {}
      BY <3>1 DEF Way
    <3> QED
      BY <2>1, <3>2 DEF IInv, ViewInv
  <2>2. \A th \in Threads : at[th].step = "project" => at[th].id # 0
    BY DEF IInv, FlightInv, Idle
  <2> QED
    BY <2>1, <2>2 DEF ViewFollowsSession, FreshInv
<1> QED
  BY <1>1, Invariant, LearnInit, LearnNext, FreshInit, FreshNext, PTL DEF Spec
-----------------------------------------------------------------------------
(* How many events there are, and the types.                               *)

Fills == {i \in 1 .. Len(made) : made[i].kind = "filled"}

\* A trade is opened once and closed once, and every recovery reports once.
BirthInv ==
    /\ \A i \in 1 .. Len(made) :
          /\ made[i].session > 0 /\ made[i].since > 0 /\ made[i].since <= recoveries
          /\ made[i].kind \in {"opened", "closed"} => made[i].about \in Trades
    /\ \A i, j \in 1 .. Len(made) :
          /\ made[i].kind = made[j].kind
          /\ \/ made[i].kind \in {"opened", "closed"} /\ made[i].about = made[j].about
             \/ made[i].kind = "health" /\ made[i].since = made[j].since
          => i = j
    /\ recovering # {} =>
          \A i \in 1 .. Len(made) : made[i].kind = "health" => made[i].since # recoveries
    /\ Cardinality(Fills) <= MaxDeliveries

BoundInv ==
    /\ session <= MaxRestarts + 1
    /\ phase = "down" => session <= MaxRestarts
    /\ phase # "down" => session > 0
    /\ session <= recoveries /\ recoveries <= session + MaxRecovers
    /\ \A th \in Threads : Len(todo[th]) <= ReplayLimit
    /\ context \subseteq Trades
    /\ lost \cup unlearned \cup unwritten \subseteq 1 .. Len(made)

LEMMA LimitsAreNat ==
    ReplayLimit \in Nat /\ MaxDeliveries \in Nat /\ MaxRestarts \in Nat /\ MaxRecovers \in Nat
BY ConstantsAssumption

LEMMA FillsAreFinite ==
    ASSUME made \in Seq(Events)
    PROVE  IsFiniteSet(Fills) /\ Cardinality(Fills) \in Nat
<1>1. Len(made) \in Nat
  OBVIOUS
<1>2. IsFiniteSet(1 .. Len(made))
  BY <1>1, FS_Interval
<1>3. Fills \subseteq 1 .. Len(made)
  BY DEF Fills
<1> QED
  BY <1>2, <1>3, FS_Subset, FS_CardinalityType

LEMMA BirthInit == Init => BirthInv
<1> SUFFICES ASSUME Init PROVE BirthInv
  OBVIOUS
<1>1. Len(made) = 0
  BY DEF Init
<1>2. Fills = {}
  BY <1>1 DEF Fills
<1>3. Cardinality(Fills) = 0
  BY <1>2, FS_EmptySet
<1> QED
  BY <1>1, <1>3, LimitsAreNat DEF BirthInv

\* An event that is not one of those there was.
LEMMA BirthPublish ==
    ASSUME IInv, BirthInv, NEW th, NEW e \in Events, Publish(th, e), e.session > 0, e.since > 0,
           e.since <= recoveries, recoveries' = recoveries,
           e.kind \in {"opened", "closed"} =>
              /\ e.about \in Trades
              /\ \A i \in 1 .. Len(made) : ~ (made[i].kind = e.kind /\ made[i].about = e.about),
           e.kind = "health" =>
              /\ \A i \in 1 .. Len(made) : ~ (made[i].kind = e.kind /\ made[i].since = e.since)
              /\ recovering' = {},
           recovering' \subseteq recovering,
           e.kind = "filled" => Cardinality(Fills) < MaxDeliveries
    PROVE  BirthInv'
<1> DEFINE n == Len(made)
<1>1. /\ made \in Seq(Events) /\ n \in Nat /\ Len(made') = n + 1 /\ made'[n + 1] = e
      /\ \A i \in 1 .. n : made'[i] = made[i]
  BY AppendProperties DEF IInv, Typed, Publish
<1>2. \A i \in 1 .. Len(made') : i \in 1 .. n \/ i = n + 1
  BY <1>1
<1> HIDE DEF n
<1>3. \A i \in 1 .. Len(made') :
          /\ made'[i].session > 0 /\ made'[i].since > 0 /\ made'[i].since <= recoveries'
          /\ made'[i].kind \in {"opened", "closed"} => made'[i].about \in Trades
  BY <1>1, <1>2 DEF BirthInv, n
<1>4. ASSUME NEW i \in 1 .. Len(made'), NEW j \in 1 .. Len(made'), made'[i].kind = made'[j].kind,
             \/ made'[i].kind \in {"opened", "closed"} /\ made'[i].about = made'[j].about
             \/ made'[i].kind = "health" /\ made'[i].since = made'[j].since
      PROVE  i = j
  <2>1. CASE i \in 1 .. n /\ j \in 1 .. n
    <3>1. made'[i] = made[i] /\ made'[j] = made[j]
      BY <1>1, <2>1
    <3> QED
      BY <1>4, <2>1, <3>1 DEF BirthInv, n
  <2>2. CASE i \in 1 .. n /\ j = n + 1
    <3>1. made'[i] = made[i] /\ made'[j] = e
      BY <1>1, <2>2
    <3> QED
      BY <1>4, <2>2, <3>1 DEF n
  <2>3. CASE i = n + 1 /\ j \in 1 .. n
    <3>1. made'[j] = made[j] /\ made'[i] = e
      BY <1>1, <2>3
    <3> QED
      BY <1>4, <2>3, <3>1 DEF n
  <2> QED
    BY <1>2, <2>1, <2>2, <2>3
<1>5. recovering' # {} =>
         \A i \in 1 .. Len(made') : made'[i].kind = "health" => made'[i].since # recoveries'
  <2> SUFFICES ASSUME recovering' # {}, NEW i \in 1 .. Len(made'), made'[i].kind = "health"
               PROVE  made'[i].since # recoveries
    OBVIOUS
  <2>1. i \in 1 .. n /\ made'[i] = made[i]
    BY <1>1, <1>2
  <2> QED
    BY <2>1 DEF BirthInv, n
<1>6. Cardinality(Fills') <= MaxDeliveries
  <2>1. IsFiniteSet(Fills) /\ Cardinality(Fills) \in Nat
    BY <1>1, FillsAreFinite
  <2>2. CASE e.kind = "filled"
    <3>1. Fills' = Fills \cup {n + 1}
      BY <1>1, <1>2, <2>2 DEF Fills, n
    <3>2. n + 1 \notin Fills
      BY <1>1 DEF Fills, n
    <3>3. Cardinality(Fills') = Cardinality(Fills) + 1
      BY <2>1, <3>1, <3>2, FS_AddElement
    <3> QED
      BY <2>1, <2>2, <3>3, LimitsAreNat
  <2>3. CASE e.kind # "filled"
    <3>1. Fills' = Fills
      BY <1>1, <1>2, <2>3 DEF Fills, n
    <3> QED
      BY <3>1 DEF BirthInv
  <2> QED
    BY <2>2, <2>3
<1> QED
  BY <1>3, <1>4, <1>5, <1>6 DEF BirthInv

\* A recovery begins, for which there is no report.
LEMMA BirthBegin ==
    ASSUME IInv, BirthInv, NEW th, BeginRecovery(th), UNCHANGED made
    PROVE  BirthInv'
<1>1. recoveries' = recoveries + 1 /\ recoveries \in Nat
  BY DEF BeginRecovery, IInv, Typed
<1>2. ASSUME NEW i \in 1 .. Len(made) PROVE made[i].since \in Nat
  <2>1. made \in Seq(Events)
    BY DEF IInv, Typed
  <2>2. made[i] \in Events
    BY <2>1
  <2> QED
    BY <2>2 DEF Events
<1>3. Fills' = Fills
  BY DEF Fills
<1> QED
  BY <1>1, <1>2, <1>3 DEF BirthInv

LEMMA BirthNext == IInv /\ BirthInv /\ BoundInv /\ [Next]_vars => BirthInv'
<1> SUFFICES ASSUME IInv, BirthInv, BoundInv, [Next]_vars PROVE BirthInv'
  OBVIOUS
<1>0. /\ session \in Nat /\ recoveries \in Nat /\ Threads = {"main", "stream", "bot"}
      /\ phase # "down" => session > 0 /\ recoveries > 0
  BY DEF IInv, Typed, BoundInv, Threads
<1>1. ASSUME NEW t \in Trades, Open(t) PROVE BirthInv'
  <2> DEFINE e == Event("opened", t, TRUE)
  <2>1. /\ e \in Events /\ e.kind = "opened" /\ e.about = t
        /\ e.session = session /\ e.since = recoveries
    BY <1>0 DEF Event, Events, Kinds
  <2>2. Publish("main", e) /\ session > 0 /\ recoveries > 0 /\ recovering' = recovering
        /\ recoveries' = recoveries /\ \A i \in 1 .. Len(made) : made[i].about # t
    BY <1>0, <1>1 DEF Open, Running, recovery
  <2> HIDE DEF e
  <2> QED
    BY <1>0, <2>1, <2>2, BirthPublish
<1>2. ASSUME NEW t \in Trades, Close(t) PROVE BirthInv'
  <2> DEFINE e == Event("closed", t, t \in context)
  <2>1. /\ e \in Events /\ e.kind = "closed" /\ e.about = t
        /\ e.session = session /\ e.since = recoveries
    BY <1>0 DEF Event, Events, Kinds
  <2>2. Publish("main", e) /\ session > 0 /\ recoveries > 0 /\ recovering' = recovering
        /\ recoveries' = recoveries
        /\ \A i \in 1 .. Len(made) : ~ (made[i].kind = "closed" /\ made[i].about = t)
    BY <1>0, <1>2 DEF Close, Running, recovery
  <2> HIDE DEF e
  <2> QED
    BY <1>0, <2>1, <2>2, BirthPublish
<1>3. CASE Deliver
  <2> DEFINE e == Event("filled", "order", TRUE)
  <2>1. e \in Events /\ e.kind = "filled" /\ e.session = session /\ e.since = recoveries
    BY <1>0 DEF Event, Events, Kinds
  <2>2. Publish("stream", e) /\ session > 0 /\ recoveries > 0 /\ recovering' = recovering
        /\ recoveries' = recoveries /\ Cardinality(Fills) < MaxDeliveries
    BY <1>0, <1>3 DEF Deliver, Running, Fills, recovery
  <2> HIDE DEF e
  <2> QED
    BY <1>0, <2>1, <2>2, BirthPublish
<1>4. ASSUME NEW th \in Threads, Report(th) PROVE BirthInv'
  <2> DEFINE e == Event("health", th, TRUE)
  <2>1. /\ th \in recovering /\ Publish(th, e) /\ recovering' = recovering \ {th}
        /\ recoveries' = recoveries
    BY <1>4 DEF Report
  <2>2. th \in {"main", "bot"} /\ recovering = {th} /\ phase # "down"
    BY <2>1, WhoRecovers
  <2>3. e \in Events /\ e.kind = "health" /\ e.session = session /\ e.since = recoveries
    BY <1>0, <2>2 DEF Event, Events, Kinds
  <2>4. \A i \in 1 .. Len(made) : ~ (made[i].kind = "health" /\ made[i].since = recoveries)
    BY <2>1 DEF BirthInv
  <2> HIDE DEF e
  <2> QED
    BY <1>0, <2>1, <2>2, <2>3, <2>4, BirthPublish
<1>5. ASSUME made' = made, recoveries' = recoveries, recovering' \subseteq recovering
      PROVE  BirthInv'
  <2>1. Fills' = Fills
    BY <1>5 DEF Fills
  <2> QED
    BY <1>5, <2>1 DEF BirthInv
<1>6. ASSUME NEW th \in Threads, Handle(th) \/ Replay(th) PROVE BirthInv'
  BY <1>5, <1>6 DEF Handle, Learn, Write, Store, Project, Replay, recovery
<1>7. CASE ReadView \/ Count \/ Save \/ Attach \/ UNCHANGED vars
  BY <1>5, <1>7 DEF ReadView, Count, Save, Attach, recovery, vars
<1>8. CASE Crash
  BY <1>5, <1>8 DEF Crash
<1>9. CASE Start \/ Recover
  BY <1>9, BirthBegin DEF Start, Recover
<1> QED
  BY <1>1, <1>2, <1>3, <1>4, <1>6, <1>7, <1>8, <1>9 DEF Next

LEMMA BoundInit == Init => BoundInv
<1> SUFFICES ASSUME Init PROVE BoundInv
  OBVIOUS
<1>1. session = 0 /\ recoveries = 0 /\ \A th \in Threads : Len(todo[th]) = 0
  BY DEF Init
<1> QED
  BY <1>1, LimitsAreNat DEF Init, BoundInv

\* A new event makes room for what a failure is about.
LEMMA BoundPublish ==
    ASSUME IInv, BoundInv, NEW th, NEW e \in Events, Publish(th, e), context' \subseteq Trades,
           UNCHANGED << phase, session, recoveries, todo, lost, unlearned, unwritten >>
    PROVE  BoundInv'
<1>1. Len(made) \in Nat /\ Len(made') = Len(made) + 1
  BY AppendProperties DEF IInv, Typed, Publish
<1> QED
  BY <1>1 DEF BoundInv

\* A recovery takes no more events from the store than it asks for.
LEMMA BoundBegin ==
    ASSUME IInv, BoundInv, NEW th \in Threads, BeginRecovery(th), UNCHANGED << made, rows >>
    PROVE  \A u \in Threads : Len(todo'[u]) <= ReplayLimit
<1>1. Len(Latest) <= ReplayLimit /\ Len(<< >>) <= ReplayLimit
  <2>1. Len(rows) \in Nat
    BY DEF IInv, Typed
  <2>2. PICK k \in Nat : k <= ReplayLimit /\ Latest = [i \in 1 .. k |-> rows[Len(rows) + 1 - i].id]
    BY <2>1, LimitsAreNat DEF Latest
  <2>3. Len(Latest) = k
    BY <2>2
  <2> QED
    BY <2>2, <2>3, LimitsAreNat
<1>2. \A stored \in {Latest, << >>} : Len(stored) <= ReplayLimit
  BY <1>1
<1>3. Len(todo'[th]) <= ReplayLimit
  BY <1>2, BeginStep
<1>4. \A u \in Threads \ {th} : todo'[u] = todo[u]
  BY BeginStep
<1> QED
  BY <1>3, <1>4 DEF BoundInv

LEMMA BoundNext == IInv /\ BoundInv /\ [Next]_vars => BoundInv'
<1> SUFFICES ASSUME IInv, BoundInv, [Next]_vars PROVE BoundInv'
  OBVIOUS
<1>0. /\ session \in Nat /\ recoveries \in Nat /\ Len(made) \in Nat
      /\ Threads = {"main", "stream", "bot"}
  BY DEF IInv, Typed, Threads
<1>1. ASSUME NEW t \in Trades, Open(t) \/ Close(t) PROVE BoundInv'
  <2>1. Event("opened", t, TRUE) \in Events /\ Event("closed", t, t \in context) \in Events
    BY <1>0 DEF Event, Events, Kinds
  <2>2. /\ context' \subseteq Trades
        /\ UNCHANGED << phase, session, recoveries, todo, lost, unlearned, unwritten >>
    BY <1>1 DEF Open, Close, BoundInv, recovery, history
  <2> QED
    BY <1>1, <2>1, <2>2, BoundPublish DEF Open, Close
<1>2. CASE Deliver
  <2>1. Event("filled", "order", TRUE) \in Events
    BY <1>0 DEF Event, Events, Kinds
  <2>2. /\ context' \subseteq Trades
        /\ UNCHANGED << phase, session, recoveries, todo, lost, unlearned, unwritten >>
    BY <1>2 DEF Deliver, BoundInv, recovery, history
  <2> QED
    BY <1>2, <2>1, <2>2, BoundPublish DEF Deliver
<1>3. ASSUME NEW th \in Threads, Report(th) PROVE BoundInv'
  <2>1. th \in {"main", "bot"}
    BY <1>3, WhoRecovers DEF Report
  <2>2. Event("health", th, TRUE) \in Events
    BY <1>0, <2>1 DEF Event, Events, Kinds
  <2>3. /\ context' \subseteq Trades
        /\ UNCHANGED << phase, session, recoveries, todo, lost, unlearned, unwritten >>
    BY <1>3 DEF Report, BoundInv, history
  <2> QED
    BY <1>3, <2>2, <2>3, BoundPublish DEF Report
<1>4. ASSUME NEW th \in Threads, Handle(th) PROVE BoundInv'
  <2>1. at[th].id \in 1 .. Len(made)
    BY <1>4 DEF Handle, Learn, Write, Store, Project, IInv, FlightInv, Idle
  <2>2. UNCHANGED << made, phase, session, recoveries, todo, context >>
    BY <1>4 DEF Handle, Learn, Write, Store, Project, recovery
  <2>3. /\ lost' \subseteq lost \cup {at[th].id} /\ unlearned' \subseteq unlearned \cup {at[th].id}
        /\ unwritten' \subseteq unwritten \cup {at[th].id}
    BY <1>4 DEF Handle, Learn, Write, Store, Project, Persist, Skip, history
  <2> QED
    BY <2>1, <2>2, <2>3 DEF BoundInv
<1>5. CASE Crash
  <2>1. InFlight \subseteq 1 .. Len(made)
    BY DEF InFlight, IInv, FlightInv
  <2>2. \A th \in Threads : Len(todo'[th]) = 0
    BY <1>5 DEF Crash
  <2>3. /\ session <= MaxRestarts /\ phase' = "down" /\ context' = {}
        /\ lost' = lost \cup (InFlight \ Stored)
        /\ UNCHANGED << made, session, recoveries, unlearned, unwritten >>
    BY <1>5 DEF Crash
  <2>4. lost' \cup unlearned \cup unwritten \subseteq 1 .. Len(made)
    BY <2>1, <2>3 DEF BoundInv
  <2>5. session <= MaxRestarts + 1 /\ 0 <= ReplayLimit
    BY LimitsAreNat DEF BoundInv
  <2> QED
    BY <2>2, <2>3, <2>4, <2>5 DEF BoundInv
<1>6. CASE Start
  <2>1. \A u \in Threads : Len(todo'[u]) <= ReplayLimit
    BY <1>0, <1>6, BoundBegin DEF Start, durable
  <2> QED
    BY <1>0, <1>6, <2>1, LimitsAreNat DEF Start, BeginRecovery, BoundInv, history
<1>7. CASE Recover
  <2>1. \A u \in Threads : Len(todo'[u]) <= ReplayLimit
    BY <1>0, <1>7, BoundBegin DEF Recover, durable
  <2> QED
    BY <1>0, <1>7, <2>1, LimitsAreNat DEF Recover, BeginRecovery, BoundInv, history
<1>8. ASSUME NEW th \in Threads, Replay(th) PROVE BoundInv'
  <2> DEFINE s == todo[th]
  <2>1. /\ s \in Seq(Nat) /\ s # << >>
        /\ todo'[th] = Tail(s) /\ \A u \in Threads \ {th} : todo'[u] = todo[u]
    BY <1>8 DEF Replay, IInv, Typed
  <2>2. Len(s) <= ReplayLimit
    BY DEF BoundInv
  <2> HIDE DEF s
  <2>3. Len(Tail(s)) = Len(s) - 1 /\ Len(s) \in Nat
    BY <2>1, NextLeft
  <2>4. Len(todo'[th]) <= ReplayLimit
    BY <2>1, <2>2, <2>3, LimitsAreNat
  <2>5. /\ \A u \in Threads : Len(todo'[u]) <= ReplayLimit
        /\ UNCHANGED << made, phase, session, recoveries, context, lost, unlearned, unwritten >>
    BY <1>8, <2>1, <2>4 DEF Replay, BoundInv
  <2> QED
    BY <2>5 DEF BoundInv
<1>9. CASE ReadView \/ Count \/ Save \/ Attach \/ UNCHANGED vars
  BY <1>9 DEF ReadView, Count, Save, Attach, vars, BoundInv, recovery, history
<1> QED
  BY <1>1, <1>2, <1>3, <1>4, <1>5, <1>6, <1>7, <1>8, <1>9 DEF Next

\* The events that are no fills are told apart by what they are about, or by their recovery.
LEMMA EventsAreFew ==
    ASSUME IInv, BirthInv, BoundInv, IsFiniteSet(Trades)
    PROVE  Len(made) <= MaxEvents
<1> DEFINE Lives == {"opened", "closed"} \X Trades
           Reports == {"health"} \X (1 .. MaxRecoveries)
           Others == (1 .. Len(made)) \ Fills
           f == [i \in Others |-> << made[i].kind, IF made[i].kind = "health" THEN made[i].since
                                                   ELSE made[i].about >>]
<1>0. MaxRecoveries \in Nat
  BY LimitsAreNat DEF MaxRecoveries
<1>1. /\ made \in Seq(Events) /\ Len(made) \in Nat /\ session \in Nat /\ recoveries \in Nat
      /\ recoveries <= MaxRecoveries
  BY LimitsAreNat DEF IInv, Typed, BoundInv, MaxRecoveries
<1>2. /\ IsFiniteSet(Lives) /\ Cardinality(Lives) = 2 * Cardinality(Trades)
      /\ Cardinality(Trades) \in Nat
  <2>1. IsFiniteSet({"opened"}) /\ Cardinality({"opened"}) = 1
    BY FS_Singleton
  <2>2. "closed" \notin {"opened"} /\ {"opened", "closed"} = {"opened"} \cup {"closed"}
    OBVIOUS
  <2>3. IsFiniteSet({"opened", "closed"}) /\ Cardinality({"opened", "closed"}) = 1 + 1
    BY <2>1, <2>2, FS_AddElement
  <2>4. Cardinality(Trades) \in Nat
    BY FS_CardinalityType
  <2>5. IsFiniteSet(Lives) /\ Cardinality(Lives) = Cardinality({"opened", "closed"}) * Cardinality(Trades)
    BY <2>3, FS_Product
  <2> QED
    BY <2>3, <2>4, <2>5
<1>3. IsFiniteSet(Reports) /\ Cardinality(Reports) = MaxRecoveries
  <2>1. IsFiniteSet(1 .. MaxRecoveries) /\ Cardinality(1 .. MaxRecoveries) = MaxRecoveries
    BY <1>0, FS_Interval
  <2>2. IsFiniteSet({"health"}) /\ Cardinality({"health"}) = 1
    BY FS_Singleton
  <2>3. IsFiniteSet(Reports) /\ Cardinality(Reports) = 1 * Cardinality(1 .. MaxRecoveries)
    BY <2>1, <2>2, FS_Product
  <2> QED
    BY <1>0, <2>1, <2>3
<1>4. /\ IsFiniteSet(Lives \cup Reports)
      /\ Cardinality(Lives \cup Reports) <= 2 * Cardinality(Trades) + MaxRecoveries
  <2>1. Cardinality(Lives \cup Reports)
           = Cardinality(Lives) + Cardinality(Reports) - Cardinality(Lives \cap Reports)
    BY <1>2, <1>3, FS_Union
  <2>2. IsFiniteSet(Lives \cup Reports)
    BY <1>2, <1>3, FS_Union
  <2>3. Lives \cap Reports = {}
    OBVIOUS
  <2>4. Cardinality(Lives \cap Reports) = 0
    BY <2>3, FS_EmptySet
  <2> QED
    BY <1>0, <1>2, <1>3, <2>1, <2>2, <2>4
<1>5. f \in Injection(Others, Lives \cup Reports)
  <2>1. ASSUME NEW i \in Others
        PROVE  /\ i \in 1 .. Len(made) /\ made[i].kind \in {"opened", "closed", "health"}
               /\ made[i].since \in 1 .. MaxRecoveries
    <3>1. made[i] \in Events
      BY <1>1
    <3>2. made[i].kind \in Kinds /\ made[i].since \in Nat
      BY <3>1 DEF Events
    <3>3. made[i].since > 0 /\ made[i].since <= recoveries
      BY DEF BirthInv
    <3>4. made[i].since \in 1 .. MaxRecoveries
      BY <1>0, <1>1, <3>2, <3>3
    <3> QED
      BY <3>2, <3>4 DEF Kinds, Fills
  <2>2. f \in [Others -> Lives \cup Reports]
    <3> SUFFICES ASSUME NEW i \in Others PROVE f[i] \in Lives \cup Reports
      OBVIOUS
    <3>1. CASE made[i].kind = "health"
      BY <2>1, <3>1
    <3>2. CASE made[i].kind # "health"
      <4>1. made[i].kind \in {"opened", "closed"} /\ made[i].about \in Trades
        BY <2>1, <3>2 DEF BirthInv
      <4> QED
        BY <3>2, <4>1
    <3> QED
      BY <3>1, <3>2
  <2>3. ASSUME NEW i \in Others, NEW j \in Others, f[i] = f[j] PROVE i = j
    <3>1. /\ made[i].kind = made[j].kind
          /\ IF made[i].kind = "health" THEN made[i].since = made[j].since
             ELSE made[i].about = made[j].about
      BY <2>3
    <3> QED
      BY <2>1, <3>1 DEF BirthInv
  <2> QED
    BY <2>2, <2>3, Fun_IsInj
<1>6. IsFiniteSet(Others) /\ Cardinality(Others) <= Cardinality(Lives \cup Reports)
  BY <1>4, <1>5, FS_Injection
<1>7. Len(made) = Cardinality(Others) + Cardinality(Fills)
  <2>1. IsFiniteSet(Fills) /\ Cardinality(Fills) \in Nat
    BY <1>1, FillsAreFinite
  <2>2. Others \cup Fills = 1 .. Len(made) /\ Others \cap Fills = {}
    BY DEF Fills
  <2>3. Cardinality(Others \cup Fills)
           = Cardinality(Others) + Cardinality(Fills) - Cardinality(Others \cap Fills)
    BY <1>6, <2>1, FS_Union
  <2>4. Cardinality(1 .. Len(made)) = Len(made)
    <3> DEFINE n == Len(made)
    <3>1. n \in Nat /\ n \in Int /\ 1 \in Int
      BY <1>1
    <3> HIDE DEF n
    <3>2. Cardinality(1 .. n) = IF 1 > n THEN 0 ELSE n - 1 + 1
      BY <3>1, FS_Interval
    <3>3. Cardinality(1 .. n) = n
      BY <3>1, <3>2
    <3> QED
      BY <3>3 DEF n
  <2>5. Cardinality(Others \cap Fills) = 0
    BY <2>2, FS_EmptySet
  <2>6. Cardinality(Others) \in Nat
    BY <1>6, FS_CardinalityType
  <2>7. Cardinality(Others \cup Fills) = Cardinality(Others) + Cardinality(Fills)
    BY <2>1, <2>3, <2>5, <2>6
  <2> QED
    BY <2>2, <2>4, <2>7
<1>8. Cardinality(Fills) \in Nat /\ Cardinality(Others) \in Nat /\ Cardinality(Lives \cup Reports) \in Nat
  BY <1>1, <1>4, <1>6, FillsAreFinite, FS_CardinalityType
<1>9. Cardinality(Fills) <= MaxDeliveries
  BY DEF BirthInv
<1> HIDE DEF Lives, Reports, Others, f
<1> QED
  BY <1>0, <1>1, <1>2, <1>4, <1>6, <1>7, <1>8, <1>9, LimitsAreNat DEF MaxEvents

\* Every variable keeps its type, for finitely many trades: no more events are created than
\* an opening and a close of each trade, the fills and a report of each recovery, however
\* often these publish them again, and no trade has more samples or lines than there were
\* recoveries (core/recovery.py, learning_loop.py, subscribers.py).
THEOREM TypeCorrect == ASSUME IsFiniteSet(Trades) PROVE Spec => []TypeOK
<1>1. IInv /\ LInv /\ BirthInv /\ BoundInv => TypeOK
  <2> SUFFICES ASSUME IInv, LInv, BirthInv, BoundInv PROVE TypeOK
    OBVIOUS
  <2>1. /\ made \in Seq(Events) /\ Len(made) \in Nat /\ session \in Nat /\ recoveries \in Nat
        /\ Len(made) <= MaxEvents /\ MaxRestarts \in Nat /\ MaxRecovers \in Nat
    BY EventsAreFew, LimitsAreNat DEF IInv, Typed
  <2>2. ASSUME NEW i \in 1 .. Len(made)
        PROVE  /\ i \in Ids /\ made[i].kind \in Kinds /\ made[i].full \in BOOLEAN
               /\ made[i].about \in Trades \cup {"order", "main", "bot"}
               /\ made[i].session \in 1 .. session /\ made[i].since \in 1 .. recoveries
    <3>1. made[i] \in Events
      BY <2>1
    <3>2. /\ made[i].kind \in Kinds /\ made[i].full \in BOOLEAN /\ made[i].session \in Nat
          /\ made[i].about \in Trades \cup {"order", "main", "bot"} /\ made[i].since \in Nat
      BY <3>1 DEF Events
    <3>3. /\ made[i].session > 0 /\ made[i].session <= session
          /\ made[i].since > 0 /\ made[i].since <= recoveries
      BY DEF BirthInv, IInv, SessionInv
    <3>4. MaxEvents \in Nat
      BY LimitsAreNat, FS_CardinalityType DEF MaxEvents, MaxRecoveries
    <3>5. i \in Ids
      BY <2>1, <3>4 DEF Ids
    <3> QED
      BY <2>1, <3>2, <3>3, <3>5
  <2>3. ASSUME NEW th \in Threads
        PROVE  /\ at[th].step \in Handlers /\ at[th].id \in 0 .. Len(made)
               /\ at[th].run \in 0 .. recoveries
               /\ at[th] = Idle <=> at[th].step = "idle"
    <3>1. at[th] \in [id : Nat, run : Nat, step : Handlers]
      BY DEF IInv, Typed, Slots
    <3>2. at[th].step = "idle" \/ at[th].id = 0 => at[th] = Idle
      BY DEF IInv, FlightInv
    <3>3. at[th].id # 0 => at[th].id \in 1 .. Len(made) /\ at[th].run <= recoveries
      BY DEF IInv, FlightInv
    <3> QED
      BY <2>1, <3>1, <3>2, <3>3 DEF Idle
  <2>4. \A th \in Threads : \A i \in 1 .. Len(todo[th]) : todo[th][i] \in 1 .. Len(made)
    BY StoredWasMade DEF IInv, SessionInv
  <2>5. \A i \in 1 .. Len(rows) : rows[i].id \in 1 .. Len(made) /\ rows[i].session \in 1 .. session
    BY <2>2 DEF IInv, SessionInv
  <2>6. /\ view \cup again \subseteq (1 .. Len(made)) \X (0 .. recoveries)
        /\ lost \cup unlearned \cup unwritten \subseteq 1 .. Len(made)
    BY DEF IInv, ViewInv, BoundInv
  <2>7. samples \in [Trades -> 0 .. recoveries] /\ journal \in [Trades -> 0 .. recoveries]
    <3> SUFFICES ASSUME NEW t \in Trades
                 PROVE  samples[t] \in 0 .. recoveries /\ journal[t] \in 0 .. recoveries
      BY DEF LInv, CloseInv
    <3>1. samples[t] \in Nat /\ journal[t] \in Nat
      BY DEF LInv, CloseInv
    <3>2. CASE samples[t] > 0 \/ journal[t] > 0
      <4>1. PICK i \in Closes : About(i) = t
        BY <3>2 DEF LInv, CloseInv
      <4>2. /\ samples[t] <= 1 + recoveries - made[i].since
            /\ journal[t] <= 1 + recoveries - made[i].since
        BY <4>1 DEF LInv, OnceInv
      <4>3. made[i].since \in 1 .. recoveries
        BY <2>2 DEF Closes
      <4> QED
        BY <2>1, <3>1, <4>2, <4>3
    <3>3. CASE ~ (samples[t] > 0 \/ journal[t] > 0)
      BY <2>1, <3>1, <3>3
    <3> QED
      BY <3>2, <3>3
  <2>8. /\ phase \in {"down", "recovery", "running"} /\ session \in 0 .. MaxRestarts + 1
        /\ recoveries \in session .. session + MaxRecovers /\ recovering \subseteq Threads
    BY <2>1 DEF IInv, Typed, BoundInv
  <2>9. (\A th \in Threads : Len(todo[th]) <= ReplayLimit) /\ context \subseteq Trades
    BY DEF BoundInv
  <2> QED
    BY <2>2, <2>3, <2>4, <2>5, <2>6, <2>7, <2>8, <2>9 DEF TypeOK
<1> QED
  BY <1>1, Invariant, LearnInit, LearnNext, BirthInit, BirthNext, BoundInit, BoundNext, PTL DEF Spec
=============================================================================
