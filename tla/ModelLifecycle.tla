--------------------------- MODULE ModelLifecycle ---------------------------
(***************************************************************************)
(* The life of an ML model in the trading process: the pipelines that      *)
(* train, judge and activate it (src/ml/training_pipeline.py,              *)
(* governance.py), the registry file it is kept in (model_registry.py),    *)
(* the predictor that serves it (predictor.py), the main loop's own ML     *)
(* strategy, rebuilt from latest_model.joblib, and the orchestrator's slot *)
(* that is traded with and keeps the model of the start                    *)
(* (strategy/ml_strategy.py, main.py), the operator's /train, /rollback    *)
(* and /modelswap, and a redeployment of the container that may lose files.*)
(*                                                                         *)
(* Models are numbered in the order they are registered; a version number  *)
(* is the one the registry gives out, and after a loss of files two models *)
(* may carry the same one.                                                 *)
(***************************************************************************)
EXTENDS Naturals, FiniteSets

CONSTANTS
    MaxModels,      \* bound: trained models
    MaxRuns,        \* bound: pipeline runs
    MaxCommands,    \* bound: commands of the operator
    MaxRedeploys    \* bound: restarts of the container

ASSUME BoundsAssumption ==
    {MaxModels, MaxRuns, MaxCommands, MaxRedeploys} \subseteq Nat

Models == 1 .. MaxModels
Runs == 1 .. MaxRuns
None == 0            \* no model, no version (the predictor's "v000_fallback"), no run
OrNone(S) == S \cup {None}

VARIABLES
    made,       \* the models trained so far are 1 .. made
    sound,      \* the models whose metrics pass the gates of governance
    reg,        \* registry.json: each model's entry, version None if it has none
    files,      \* the models whose vNNN_*.joblib is on disk
    latest,     \* the model in latest_model.joblib
    lineage,    \* governance's record of each version
    runs,       \* the pipeline runs
    current,    \* TrainingPipeline._current
    served,     \* the predictor's version and model
    writing,    \* the rollback that holds the registry's lock between its two writes
    swaps,      \* the versions swap_model is about to load into the predictor
    slot,       \* the model of the orchestrator's slot, the one traded with
    strategy,   \* the model the loop's own ML strategy was built with
    flags,      \* the bot's _runtime_changes and the scheduler's own
    changes,    \* what the main loop read of the bot's
    commands, redeploys,    \* how many there were
    activated,  \* history: the models that have been active in the registry
    chosen      \* history: the models /train wrote, or a rollback or a swap took by name

vars == << made, sound, reg, files, latest, lineage, runs, current, served, writing,
           swaps, slot, strategy, flags, changes, commands, redeploys, activated, chosen >>

Entries == [ver: OrNone(Models), active: BOOLEAN]
Records == [model: OrNone(Models), deployed: BOOLEAN, ever: BOOLEAN]
Served  == [ver: OrNone(Models), model: OrNone(Models)]
Changes == [reload: BOOLEAN, train: BOOLEAN]
Flags   == [reload: BOOLEAN, train: BOOLEAN, scheduled: BOOLEAN]
Status  == {"none", "idle", "working", "validating", "deploying", "activating",
            "copying", "completed", "failed"}
RunRecs == [st: Status, model: OrNone(Models), ver: OrNone(Models), scheduled: BOOLEAN,
            auto: BOOLEAN]

NoEntry  == [ver |-> None, active |-> FALSE]
NoRecord == [model |-> None, deployed |-> FALSE, ever |-> FALSE]
NoRun    == [st |-> "none", model |-> None, ver |-> None, scheduled |-> FALSE, auto |-> FALSE]
NoChange == [reload |-> FALSE, train |-> FALSE]
NoWriter == [by |-> "none", ver |-> None]
Writers == {NoWriter} \cup [by: {"rollback", "swap"}, ver: Models]

-----------------------------------------------------------------------------
(* The registry file, read and written under one process-wide lock.        *)

Entered(R) == {m \in Models : R[m].ver # None}
Of(R, v)   == {m \in Models : R[m].ver = v}
Newest(S)  == CHOOSE m \in S : \A k \in S : k <= m
Oldest(S)  == CHOOSE m \in S : \A k \in S : m <= k

\* (mutant) _find_entry returns the last entry that carries the version.
LastEntry(R, v) == IF v # None /\ Of(R, v) # {} THEN Newest(Of(R, v)) ELSE None

\* _find_entry: the first entry that carries the version.
Entry(R, v) == IF v # None /\ Of(R, v) # {} THEN Oldest(Of(R, v)) ELSE None

Active(R) == {m \in Models : R[m].active}
ActiveVersion(R) == IF Active(R) = {} THEN None ELSE R[Newest(Active(R))].ver

\* (mutant) The numbers begin at two.
NumberedFromTwo(R) == Cardinality(Entered(R)) + 2

\* (mutant) The number follows the active version.
NumberedNextToActive(R) == ActiveVersion(R) + 1

\* save_version: the number is the length of the list plus one.
Numbered(R) == Cardinality(Entered(R)) + 1

\* (mutant) The entries that were active stay so.
SaveVersionBesideOthers(m, activate) ==
    /\ reg' = [reg EXCEPT ![m] = [ver |-> Numbered(reg), active |-> activate]]
    /\ files' = files \cup {m}
    /\ latest' = IF activate THEN m ELSE latest
    /\ activated' = IF activate THEN activated \cup {m} ELSE activated

\* save_version: a new entry with the next number; only an activation touches the
\* other entries and latest_model.joblib.
SaveVersion(m, activate) ==
    /\ reg' = [k \in Models |->
                 IF k = m THEN [ver |-> Numbered(reg), active |-> activate]
                 ELSE IF activate THEN [reg[k] EXCEPT !.active = FALSE] ELSE reg[k]]
    /\ files' = files \cup {m}
    /\ latest' = IF activate THEN m ELSE latest
    /\ activated' = IF activate THEN activated \cup {m} ELSE activated

\* The entries of registry.json once version v is the active one.
Activated(v) == [k \in Models |-> [reg[k] EXCEPT !.active = (reg[k].ver = v)]]

\* Who writes the registry holds its lock: a rollback between the copy to
\* latest_model.joblib and registry.json, an activation between registry.json and the copy.
LockFree == writing = NoWriter /\ \A r \in Runs : runs[r].st # "copying"

\* (mutant) The newest model is copied, whatever was asked for.
RollbackOfNewest(v, by) ==
    /\ LockFree
    /\ Entry(reg, v) \in files
    /\ latest' = Newest(Entered(reg))
    /\ chosen' = chosen \cup {Entry(reg, v)}
    /\ writing' = [by |-> by, ver |-> v]

\* rollback, under the lock: the version's file is copied to latest_model.joblib, and
\* registry.json is saved in a step of its own.  Readers of latest_model.joblib do not
\* take the lock.
Rollback(v, by) ==
    /\ LockFree
    /\ Entry(reg, v) \in files
    /\ latest' = Entry(reg, v)
    /\ chosen' = chosen \cup {Entry(reg, v)}
    /\ writing' = [by |-> by, ver |-> v]

-----------------------------------------------------------------------------
Init ==
    /\ made = 0
    /\ sound = {}
    /\ reg = [m \in Models |-> NoEntry]
    /\ files = {}
    /\ latest = None
    /\ lineage = [v \in Models |-> NoRecord]
    /\ runs = [r \in Runs |-> NoRun]
    /\ current = None
    /\ served = [ver |-> None, model |-> None]
    /\ writing = NoWriter
    /\ swaps = {}
    /\ slot = None /\ strategy = None
    /\ flags = [reload |-> FALSE, train |-> FALSE, scheduled |-> FALSE]
    /\ changes = NoChange
    /\ commands = 0 /\ redeploys = 0
    /\ activated = {}
    /\ chosen = {}

registryVars == << reg, files, latest, activated, writing >>
loopVars     == << slot, strategy, flags, changes >>
serveVars    == << served, swaps >>
counters     == << commands, redeploys >>

-----------------------------------------------------------------------------
(* Training pipelines, each a thread of its own.                           *)

\* PipelineProgress.is_running: a run that has not begun is "idle", which counts as
\* not running.
IsRunning(r) ==
    /\ r # None
    /\ runs[r].st \in {"working", "validating", "deploying", "activating", "copying"}

NextRun(r) == r \in Runs /\ runs[r].st = "none" /\ \A q \in Runs : q < r => runs[q].st # "none"

\* What train() does when no pipeline is running: a fresh progress and a thread.
Started(r, scheduled) ==
    /\ NextRun(r)
    /\ ~ IsRunning(current)
    /\ runs' = [runs EXCEPT ![r] = [NoRun EXCEPT !.st = "idle", !.scheduled = scheduled]]
    /\ current' = r

\* The scheduler's job (with a callback), the operator's /rtrain, the drift check.
Train(r, scheduled) ==
    /\ Started(r, scheduled)
    /\ UNCHANGED << made, sound, registryVars, lineage, serveVars, loopVars, counters, chosen >>

Begin(r) ==
    /\ runs[r].st = "idle"
    /\ runs' = [runs EXCEPT ![r].st = "working"]
    /\ UNCHANGED << made, sound, registryVars, lineage, current, serveVars, loopVars,
                    counters, chosen >>

\* Any step may raise: the run is over, and what it has registered, recorded or
\* deployed stays.
RunFails(r) ==
    /\ IsRunning(r)
    /\ runs' = [runs EXCEPT ![r].st = "failed"]
    /\ UNCHANGED << made, sound, registryVars, lineage, current, serveVars, loopVars,
                    counters, chosen >>

\* What training and the backtest on held-out data may come to: metrics that pass the
\* gates, or not.
Outcomes(m) == {sound, sound \cup {m}}

\* Steps 1 to 4 of a pipeline: fetch, train, register.
Register(r) ==
    /\ runs[r].st = "working"
    /\ LockFree
    /\ made < MaxModels
    /\ made' = made + 1
    /\ sound' \in Outcomes(made + 1)
    /\ SaveVersion(made + 1, FALSE)
    /\ runs' = [runs EXCEPT ![r].st = "validating", ![r].model = made + 1,
                            ![r].ver = Numbered(reg)]
    /\ UNCHANGED << lineage, current, writing, serveVars, loopVars, counters, chosen >>

\* record_training: a record that was deployed is never overwritten.
Recorded(v, m) ==
    IF lineage[v].ever THEN lineage ELSE [lineage EXCEPT ![v] = [NoRecord EXCEPT !.model = m]]

\* validate_for_deployment judges the metrics in the version's record.
Approves(record) == record.model \in sound

\* The end of a run: COMPLETED, and the callback of the scheduler's job raises its flag.
Finish(r) ==
    flags' = IF runs[r].scheduled THEN [flags EXCEPT !.scheduled = TRUE] ELSE flags

\* Step 5: record the training and judge the version; a rejected model stays in the
\* registry, inactive.
Judge(r) ==
    LET v == runs[r].ver
        approved == Approves(Recorded(v, runs[r].model)[v]) IN
    /\ runs[r].st = "validating"
    /\ lineage' = Recorded(v, runs[r].model)
    /\ runs' = [runs EXCEPT ![r].st = IF approved THEN "deploying" ELSE "completed"]
    /\ IF approved THEN flags' = flags ELSE Finish(r)
    /\ UNCHANGED << made, sound, registryVars, current, serveVars, slot, strategy,
                    changes, counters, chosen >>

\* governance.deploy: one version is deployed, the one before is retired.
Deploy(r) ==
    /\ runs[r].st = "deploying"
    /\ lineage' = [v \in Models |->
                     IF v = runs[r].ver THEN [lineage[v] EXCEPT !.deployed = TRUE, !.ever = TRUE]
                     ELSE [lineage[v] EXCEPT !.deployed = FALSE]]
    /\ runs' = [runs EXCEPT ![r].st = "activating"]
    /\ UNCHANGED << made, sound, registryVars, current, serveVars, loopVars, counters, chosen >>

\* set_active_version: registry.json first.
Activate(r) ==
    /\ runs[r].st = "activating"
    /\ LockFree
    /\ reg' = Activated(runs[r].ver)
    /\ activated' = activated \cup Of(reg, runs[r].ver)
    /\ runs' = [runs EXCEPT ![r].st = "copying"]
    /\ UNCHANGED << made, sound, files, latest, lineage, current, writing, serveVars,
                    loopVars, counters, chosen >>

\* Then latest_model.joblib follows, if the version's file is there, and the run ends.
CopyLatest(r) ==
    LET m == Entry(reg, runs[r].ver) IN
    /\ runs[r].st = "copying"
    /\ latest' = IF m \in files THEN m ELSE latest
    /\ runs' = [runs EXCEPT ![r].st = "completed", ![r].auto = TRUE]
    /\ Finish(r)
    /\ UNCHANGED << made, sound, reg, files, lineage, current, activated, writing,
                    serveVars, slot, strategy, changes, counters, chosen >>

-----------------------------------------------------------------------------
(* The predictor's watcher and its callers, and the operator.              *)

Commanded ==
    /\ commands < MaxCommands
    /\ commands' = commands + 1
    /\ UNCHANGED redeploys

Load(v) == served' = [ver |-> v, model |-> Entry(reg, v)]

\* (mutant) Only a newer version is loaded.
WatchUpwards ==
    LET v == ActiveVersion(reg) IN
    /\ v > served.ver
    /\ Entry(reg, v) \in files
    /\ Load(v)
    /\ UNCHANGED << made, sound, registryVars, lineage, runs, current, swaps, loopVars,
                    counters, chosen >>

\* _maybe_check_version: follow the registry; a version that cannot be loaded leaves
\* the old model in place.
Watch ==
    LET v == ActiveVersion(reg) IN
    /\ v # None /\ v # served.ver
    /\ Entry(reg, v) \in files
    /\ Load(v)
    /\ UNCHANGED << made, sound, registryVars, lineage, runs, current, swaps, loopVars,
                    counters, chosen >>

\* /modelswap and the automatic rollback, RuntimeManager.swap_model, begin in the registry;
\* a refused rollback is not looked at, the predictor is told to swap all the same.
SwapRegistry(v) ==
    /\ Commanded
    /\ \/ Rollback(v, "swap") /\ UNCHANGED swaps
       \/ /\ LockFree
          /\ Entry(reg, v) \notin files
          /\ swaps' = swaps \cup {v}
          /\ UNCHANGED << latest, chosen, writing >>
    /\ UNCHANGED << made, sound, reg, files, lineage, runs, current, served, loopVars,
                    activated >>

\* /rollback begins; a refused one changes nothing.
RollbackCommand(v) ==
    /\ Commanded
    /\ Rollback(v, "rollback")
    /\ UNCHANGED << made, sound, reg, files, lineage, runs, current, serveVars, loopVars,
                    activated >>

\* The rollback's registry.json: /rollback asks for a rebuilt strategy, swap_model goes on
\* to the predictor.  A save that raises leaves latest_model.joblib as it was copied.
RollbackSave ==
    LET v == writing.ver IN
    /\ writing # NoWriter
    /\ writing' = NoWriter
    /\ \/ /\ reg' = Activated(v)
          /\ activated' = activated \cup Of(reg, v)
          /\ flags' = IF writing.by = "rollback" THEN [flags EXCEPT !.reload = TRUE] ELSE flags
          /\ swaps' = IF writing.by = "swap" THEN swaps \cup {v} ELSE swaps
       \/ UNCHANGED << reg, activated, flags, swaps >>
    /\ UNCHANGED << made, sound, files, latest, lineage, runs, current, served, slot,
                    strategy, changes, counters, chosen >>

\* The second half of swap_model: whatever has the version by now is loaded; a version
\* without an entry or a file raises, and the old model stays.
SwapPredictor ==
    \E v \in swaps :
        /\ swaps' = swaps \ {v}
        /\ \/ /\ Entry(reg, v) \in files
              /\ Load(v)
              /\ chosen' = chosen \cup {Entry(reg, v)}
           \/ UNCHANGED << served, chosen >>
        /\ UNCHANGED << made, sound, registryVars, lineage, runs, current, loopVars,
                        counters >>

\* /train: the bot trains a strategy of its own, which overwrites latest_model.joblib
\* and then registers the model as the active version, if that does not fail; after the
\* bot's time limit it does so without asking the loop.
TrainCommand ==
    /\ Commanded
    /\ made < MaxModels
    /\ made' = made + 1
    /\ chosen' = chosen \cup {made + 1}
    /\ flags' \in {flags, [flags EXCEPT !.train = TRUE]}
    /\ \/ LockFree /\ SaveVersion(made + 1, TRUE)
       \/ latest' = made + 1 /\ UNCHANGED << reg, files, activated >>
    /\ UNCHANGED << sound, lineage, runs, current, writing, serveVars, slot, strategy,
                    changes >>

-----------------------------------------------------------------------------
(* The main loop, when the strategy is "ml".                               *)

\* get_runtime_changes: read and clear.
LoopRead ==
    /\ changes = NoChange /\ (flags.reload \/ flags.train)
    /\ changes' = [reload |-> flags.reload, train |-> flags.train]
    /\ flags' = [flags EXCEPT !.reload = FALSE, !.train = FALSE]
    /\ UNCHANGED << made, sound, registryVars, lineage, runs, current, serveVars, slot,
                    strategy, counters, chosen >>

\* MLStrategy._load_model: latest_model.joblib, or no model when it cannot be read.
Loaded == {latest, None}

\* create_strategy for a config update, then train_model for a trigger, unless a
\* pipeline is running (or, a bound, every run is used up).  The slot keeps its model.
LoopApply ==
    /\ changes # NoChange
    /\ changes' = NoChange
    /\ IF changes.reload THEN strategy' \in Loaded ELSE UNCHANGED strategy
    /\ IF changes.train /\ ~ IsRunning(current) /\ \E r \in Runs : NextRun(r)
       THEN \E r \in Runs : Started(r, FALSE)
       ELSE UNCHANGED << runs, current >>
    /\ UNCHANGED << made, sound, registryVars, lineage, serveVars, slot, flags, counters,
                    chosen >>

\* The scheduler's flag: rebuild the loop's strategy from latest_model.joblib.
LoopScheduled ==
    /\ changes = NoChange /\ flags.scheduled
    /\ flags' = [flags EXCEPT !.scheduled = FALSE]
    /\ strategy' \in Loaded
    /\ UNCHANGED << made, sound, registryVars, lineage, runs, current, serveVars, slot,
                    changes, counters, chosen >>

-----------------------------------------------------------------------------
(* A new container: the process starts with what is left of models/. The   *)
(* governance records stay.                                                *)

\* _recover_orphaned_models: without registry.json, every file is entered again, in
\* order, and the newest is active.
Recovered(F) ==
    [m \in Models |-> IF m \in F THEN [ver |-> Cardinality({k \in F : k <= m}),
                                       active |-> m = Newest(F)]
                      ELSE NoEntry]

\* _prune_missing_entries: entries without a file go, the newest left is active.
Pruned(R, F) ==
    LET kept == Entered(R) \cap F IN
    [m \in Models |-> IF m \in kept THEN [ver |-> R[m].ver, active |-> m = Newest(kept)]
                      ELSE NoEntry]

\* _load_active_model at start: the active version, or what pruning and
\* latest_model.joblib leave.  The slot's strategy is built, and is the loop's own too.
Redeploy(F, manifest) ==
    LET R == IF manifest THEN reg ELSE Recovered(F)
        m == Entry(R, ActiveVersion(R))
        last == IF F = {} THEN None ELSE latest
        kept == IF ActiveVersion(R) = None \/ m \in F THEN R ELSE Pruned(R, F) IN
    /\ redeploys < MaxRedeploys
    /\ redeploys' = redeploys + 1
    /\ F \subseteq files
    /\ files' = F
    /\ latest' = last
    /\ reg' = kept
    /\ activated' = activated \cup Active(kept)
    /\ served' = IF m \in F THEN [ver |-> ActiveVersion(R), model |-> m]
                 ELSE [ver |-> None, model |-> last]
    /\ slot' \in {last, None} /\ strategy' = slot'
    /\ runs' = [r \in Runs |-> IF runs[r].st = "none" THEN runs[r] ELSE [NoRun EXCEPT !.st = "failed"]]
    /\ current' = None
    /\ writing' = NoWriter
    /\ swaps' = {}
    /\ flags' = [reload |-> FALSE, train |-> FALSE, scheduled |-> FALSE]
    /\ changes' = NoChange
    /\ UNCHANGED << made, sound, lineage, commands, chosen >>

-----------------------------------------------------------------------------
Pipelines ==
    \E r \in Runs : \/ \E scheduled \in BOOLEAN : Train(r, scheduled)
                    \/ Begin(r)
                    \/ RunFails(r)
                    \/ Register(r)
                    \/ Judge(r)
                    \/ Deploy(r)
                    \/ Activate(r)
                    \/ CopyLatest(r)

Operator ==
    \/ TrainCommand
    \/ \E v \in Models : SwapRegistry(v) \/ RollbackCommand(v)

Loop == LoopRead \/ LoopApply \/ LoopScheduled

Next ==
    \/ Pipelines
    \/ Operator
    \/ Loop
    \/ Watch
    \/ RollbackSave
    \/ SwapPredictor
    \/ \E F \in SUBSET files, manifest \in BOOLEAN : Redeploy(F, manifest)

\* The main loop and the watcher go round, and a command that was begun ends; nobody
\* has to train, and the operator never has to do anything.
Fairness == WF_vars(LoopRead) /\ WF_vars(LoopApply) /\ WF_vars(LoopScheduled)
            /\ WF_vars(Watch) /\ WF_vars(RollbackSave) /\ WF_vars(SwapPredictor)
            /\ \A r \in Runs : WF_vars(CopyLatest(r))

Spec == Init /\ [][Next]_vars /\ Fairness
-----------------------------------------------------------------------------
(* Properties.                                                             *)

\* Every variable keeps its type.
TypeOK ==
    /\ made \in 0 .. MaxModels
    /\ sound \subseteq Models
    /\ reg \in [Models -> Entries]
    /\ files \subseteq Models
    /\ latest \in OrNone(Models)
    /\ lineage \in [Models -> Records]
    /\ runs \in [Runs -> RunRecs]
    /\ current \in OrNone(Runs)
    /\ served \in Served
    /\ writing \in Writers
    /\ swaps \subseteq Models
    /\ {slot, strategy} \subseteq OrNone(Models)
    /\ flags \in Flags
    /\ changes \in Changes
    /\ commands \in 0 .. MaxCommands /\ redeploys \in 0 .. MaxRedeploys
    /\ activated \subseteq Models
    /\ chosen \subseteq Models

\* Whatever pipelines, commands, losses of files and repairs do to registry.json, one
\* version at most is active in it.
OneActiveVersion ==
    \A m, k \in Active(reg) : reg[m].ver = reg[k].ver

\* A model that nobody chose - rejected, not judged yet, or of a run that failed - is not
\* traded with, nor does it wait in latest_model.joblib, the file the predictor falls back
\* to: only what was activated, trained by hand, or named in a rollback or a swap is.  And
\* the predictor serves what the registry has under the version of such a model.
OnlyChosenModelsServe ==
    LET allowed == activated \cup chosen \cup {None} IN
    /\ {slot, strategy, latest} \subseteq allowed
    /\ IF served.ver = None THEN served.model \in allowed
       ELSE \E m \in activated \cup chosen : reg[m].ver = served.ver

\* Though two models may carry one version after files were lost, the version the
\* predictor reports is the model the registry finds under it.
PredictorMeansTheRegistry ==
    served.ver # None => served.model = Entry(reg, served.ver)

\* Pipelines that run side by side never register their models under one version.
RunsNumberedApart ==
    \A r, q \in Runs : r # q /\ runs[r].ver # None => runs[r].ver # runs[q].ver

\* Again and again the predictor serves the version that is active, unless its file is
\* gone: no activation and no rollback is overlooked for good.
PredictorFollows ==
    []<>(\/ ActiveVersion(reg) \in {None, served.ver}
         \/ Entry(reg, ActiveVersion(reg)) \notin files)

\* Only models that passed the gates are deployed by a pipeline.
DeployedWasJudged ==
    \A r \in Runs : runs[r].auto => runs[r].model \in sound

\* (refuted) What the predictor reports to be the active version is the active model: the
\* registry is "the gate" (model_registry.py, set_active_version).  A version given out
\* twice is activated for the newer model and found for the older.
ServesTheActiveModel ==
    served.ver # None /\ served.ver = ActiveVersion(reg) => served.model \in Active(reg)

\* (refuted) Only a model that is or was active is served.  A rollback copies before it
\* saves, and a swap goes on after a refused rollback.
OnlyActivatedModelsServe ==
    served.model \in activated \cup {None}

\* (refuted) "Model will be loaded on next trading cycle" (telegram_bot.py, cmd_rollback):
\* after /rollback the slot gets to trade with latest_model.joblib.  The slot is built
\* once, at the start.
RollbackIsTraded == flags.reload ~> slot = latest

=============================================================================
