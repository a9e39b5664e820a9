---------------------------- MODULE RuntimeConfig ----------------------------
(***************************************************************************)
(* What the operator sets and what becomes of it: the commands of the bot  *)
(* (src/notifications/telegram_config_commands.py, telegram_bot.py), the   *)
(* configuration database and its cache (src/config/service.py,            *)
(* repository.py, seed.py, initializer.py), the settings object, the .env  *)
(* file, strategies.json (src/strategy/strategy_store.py), the main loop   *)
(* that takes the changes (main.py) and the orchestrator's slots it trades *)
(* with, with a crash at any point.                                        *)
(*                                                                         *)
(* The parameters of /set fall into three classes by what create_strategy  *)
(* reads: some for every symbol, some (the momentum's averages, the bounds *)
(* of its RSI, its ATR multiples) only without crypto symbols, which have  *)
(* settings of their own, and some never (those of mean reversion, and     *)
(* those of a strategy that is not the loop's).                            *)
(*                                                                         *)
(* A value is the number of the command that set it; zero is what the .env *)
(* file came with.                                                         *)
(***************************************************************************)
EXTENDS Naturals, Sequences, FiniteSets

CONSTANTS
    MaxCommands,    \* bound: commands of the operator
    MaxCrashes,     \* bound: crashes
    Strategies      \* the names of the operator's own strategies

ASSUME ConstantsAssumption ==
    MaxCommands \in Nat /\ MaxCrashes \in Nat /\ Strategies # {}

VARIABLES
    phase,      \* the process is down, seeds the database, starts, or runs
    service,    \* there is a configuration service
    symbols,    \* what is traded: stocks, crypto or both
    multi,      \* the main loop's strategy_name is "multi"
    env,        \* .env
    db,         \* system_configuration: each key's value and version
    bookFile,   \* strategies.json: the active strategies
    settings,   \* the settings object
    cache,      \* ConfigurationService._cache
    reader,     \* what the refresh thread read, while it holds the service's lock
    book,       \* StrategyStore._strategies: the active ones
    bot,        \* the command in progress: its value and the steps to go
    flags,      \* the bot's _runtime_changes
    at, taken,  \* the main loop and the changes it took
    built,      \* the parameters the loop's own strategy was built with
    slots,      \* the parameters the orchestrator's strategies were built with
    paused,
    commands, crashes,  \* how many there were
    here,       \* history: the stored keys whose setting a command of this process set
    reloaded,   \* history: the settings were replaced since the strategy was built
    unsaid,     \* history: the rows whose last commit was made and yet raised
    behind      \* history: those of them that the cache was not given since

vars == << phase, service, symbols, multi, env, db, bookFile, settings, cache, reader, book,
           bot, flags, at, taken, built, slots, paused, commands, crashes, here, reloaded,
           unsaid, behind >>
disk == << env, db, bookFile >>
loopVars == << at, taken, multi, built, slots, paused >>
bounds == << service, symbols, commands, crashes >>
history == << here, reloaded, unsaid, behind >>

Stored == {"key", "secret", "plan", "active"}   \* written through the service
Secrets == {"key", "secret"}                    \* the credentials of /setalpaca
Seeded == {"plan", "active"}                    \* those of DEFAULT_CONFIGURATIONS
Params == {"common", "equity", "other"}         \* the parameters of /set, by who reads them
Keys == Stored \cup Params

Given == 0                          \* as in the .env file of the first start
Commands == 1 .. MaxCommands        \* set by that command
Redacted == MaxCommands + 1         \* the placeholder /saveconfig writes for a secret
Default == MaxCommands + 2          \* not given: the default, for a credential nothing
Preset == MaxCommands + 3           \* "multi", where .env came with it
Values == 0 .. Preset
Torn == {"torn"}                    \* strategies.json, truncated and not yet written
NoRow == [val |-> Given, ver |-> 0]

Idle == [v |-> Given, todo |-> << >>]
Multi(v) == v \in Commands \cup {Preset}    \* active_strategy = "multi"

\* The parameters create_strategy reads for the symbols S, the others being constants of
\* the code or settings of another name, and what it makes of them.
Reads(S) == {"common"} \cup (IF "crypto" \in S THEN {} ELSE {"equity"})
Created(S) == [p \in Params |-> IF p \in Reads(S) THEN settings[p] ELSE Default]

-----------------------------------------------------------------------------
(* The commands, each a sequence of steps of the bot's thread.             *)

\* (mutant) The setting is changed before it is stored.
UpdateFirst(k) == << << "apply", k >>, << "persist", k >>, << "cache", k >> >>

\* _apply_setting_update, for the commands that store what they set; /set, /settf and
\* /setlookback never do.
Update(k) == << << "persist", k >>, << "cache", k >>, << "apply", k >> >>

\* (mutant) The strategy is made active before its plan is stored.
ApplyStratsSwapped ==
    Update("active") \o Update("plan") \o << << "flag", "multi" >> >>

\* /applystrats.
ApplyStrats == Update("plan") \o Update("active") \o << << "flag", "multi" >> >>

\* (mutant) The main loop is told before the setting is changed.
SetTold(p) == << << "flag", "params" >>, << "apply", p >> >>

\* /set with a parameter the strategy is rebuilt for.
Set(p) == << << "apply", p >>, << "flag", "params" >> >>

Script == [setalpaca   |-> Update("key") \o Update("secret"),
           applystrats |-> ApplyStrats,
           saveconfig  |-> << << "truncate", "env" >>, << "write", "env" >> >>,
           loadconfig  |-> << << "load", "env" >> >>,
           editstrat   |-> << << "edit", "book" >>, << "save", "book" >> >>]

Begin(steps) ==
    /\ phase = "run" /\ bot = Idle /\ commands < MaxCommands
    /\ commands' = commands + 1
    /\ bot' = [v |-> commands + 1, todo |-> steps]
    /\ UNCHANGED << phase, service, symbols, disk, settings, cache, reader, book, flags,
                    loopVars, crashes, history >>

Command(c) == (c = "applystrats" => book # {}) /\ Begin(Script[c])
SetCommand(p) == Begin(Set(p))

-----------------------------------------------------------------------------
(* A step of the bot's thread.                                             *)

Op(o) == bot.todo # << >> /\ Head(bot.todo)[1] = o
Key == Head(bot.todo)[2]
Done == bot' = IF Len(bot.todo) = 1 THEN Idle ELSE [bot EXCEPT !.todo = Tail(@)]

Row == db' = [db EXCEPT ![Key] = [val |-> bot.v, ver |-> @.ver + 1]]

\* ConfigurationService.set, as far as the commit: the row with its audit entry, or an
\* error that ends the command, before the commit or when the row is read back after it.
\* Without a service nothing is stored and nobody is told.
Persist ==
    /\ Op("persist")
    /\ \/ service /\ Row /\ Done /\ UNCHANGED << unsaid, behind >>
       \/ service /\ bot' = Idle /\ UNCHANGED << db, unsaid, behind >>
       \/ /\ service /\ Row /\ bot' = Idle
          /\ unsaid' = unsaid \cup {Key} /\ behind' = behind \cup {Key}
       \/ ~service /\ Done /\ UNCHANGED << db, unsaid, behind >>
    /\ UNCHANGED << phase, env, bookFile, settings, cache, reader, book, flags, loopVars,
                    bounds, here, reloaded >>

\* (mutant) The cache is written without the service's lock.
CachePutUnlocked ==
    /\ Op("cache") /\ Done
    /\ IF service THEN cache' = [cache EXCEPT ![Key] = bot.v] ELSE UNCHANGED cache
    /\ behind' = behind \ {Key}
    /\ UNCHANGED << phase, disk, settings, reader, book, flags, loopVars, bounds, here,
                    reloaded, unsaid >>

\* ... the cache, under the lock.
CachePut ==
    /\ Op("cache") /\ reader = << >> /\ Done
    /\ IF service THEN cache' = [cache EXCEPT ![Key] = bot.v] ELSE UNCHANGED cache
    /\ behind' = behind \ {Key}
    /\ UNCHANGED << phase, disk, settings, reader, book, flags, loopVars, bounds, here,
                    reloaded, unsaid >>

\* setattr(_settings, ...).
Apply ==
    /\ Op("apply") /\ Done
    /\ settings' = [settings EXCEPT ![Key] = bot.v]
    /\ here' = here \cup ({Key} \cap Stored) /\ unsaid' = unsaid \ {Key}
    /\ UNCHANGED << phase, disk, cache, reader, book, flags, loopVars, bounds, reloaded,
                    behind >>

\* Under the bot's runtime lock; /applystrats asks for a rebuild too.
Flag ==
    /\ Op("flag") /\ Done
    /\ flags' = flags \cup {Key, "params"}
    /\ UNCHANGED << phase, disk, settings, cache, reader, book, loopVars, bounds, history >>

\* /saveconfig opens the file, which empties it, and writes it, without the secrets.
Truncate ==
    /\ Op("truncate") /\ Done
    /\ env' = [k \in Keys |-> Default]
    /\ UNCHANGED << phase, db, bookFile, settings, cache, reader, book, flags, loopVars,
                    bounds, history >>

Write ==
    /\ Op("write") /\ Done
    /\ env' = [k \in Keys |-> IF k \in Secrets THEN Redacted ELSE settings[k]]
    /\ UNCHANGED << phase, db, bookFile, settings, cache, reader, book, flags, loopVars,
                    bounds, history >>

\* /loadconfig: every field of the settings, nobody is told.
Load ==
    /\ Op("load") /\ Done
    /\ settings' = env
    /\ here' = {} /\ reloaded' = TRUE
    /\ UNCHANGED << phase, disk, cache, reader, book, flags, loopVars, bounds, unsaid, behind >>

\* /newstrategy, /editstrat, /copystrat and /deletestrat: a change of the store, which
\* opens its file, and the file.
Edit ==
    /\ Op("edit") /\ Done
    /\ \E b \in SUBSET Strategies : book' = b
    /\ bookFile' = Torn
    /\ UNCHANGED << phase, env, db, settings, cache, reader, flags, loopVars, bounds, history >>

Save ==
    /\ Op("save") /\ Done
    /\ bookFile' = book
    /\ UNCHANGED << phase, env, db, settings, cache, reader, book, flags, loopVars, bounds,
                    history >>

-----------------------------------------------------------------------------
(* The refresh thread, which holds the service's lock from the query on.   *)

Rows == [k \in Stored |-> db[k].val]

RefreshRead ==
    /\ phase = "run" /\ service /\ reader = << >>
    /\ reader' = Rows
    /\ UNCHANGED << phase, disk, settings, cache, book, bot, flags, loopVars, bounds, history >>

RefreshAssign ==
    /\ reader # << >>
    /\ cache' = reader
    /\ reader' = << >>
    /\ behind' = {k \in behind : reader[k] # db[k].val}
    /\ UNCHANGED << phase, disk, settings, book, bot, flags, loopVars, bounds, here, reloaded,
                    unsaid >>

-----------------------------------------------------------------------------
(* The process and its main loop.                                          *)

NoValues(S) == [k \in S |-> Given]

\* What was in memory is gone.
End ==
    /\ phase' = "down" /\ service' = TRUE /\ multi' = FALSE
    /\ settings' = NoValues(Keys) /\ cache' = NoValues(Stored) /\ book' = {}
    /\ built' = NoValues(Params) /\ slots' = NoValues(Params)
    /\ bot' = Idle /\ reader' = << >> /\ flags' = {} /\ at' = "top" /\ taken' = {}
    /\ paused' = FALSE /\ here' = {} /\ reloaded' = FALSE /\ unsaid' = {} /\ behind' = {}

\* (mutant) The changes taken while a command is being handled are dropped.
TakeIfIdle ==
    /\ phase = "run" /\ at = "top" /\ ~paused
    /\ taken' = IF bot = Idle THEN flags ELSE {}
    /\ flags' = {}
    /\ at' = "apply"
    /\ UNCHANGED << phase, disk, settings, cache, reader, book, bot, multi, built, slots,
                    paused, bounds, history >>

\* get_runtime_changes, unless trading is paused.
Take ==
    /\ phase = "run" /\ at = "top" /\ ~paused
    /\ taken' = flags
    /\ flags' = {}
    /\ at' = "apply"
    /\ UNCHANGED << phase, disk, settings, cache, reader, book, bot, multi, built, slots,
                    paused, bounds, history >>

\* create_strategy knows no strategy "multi".
NoSuchStrategy == "multi" \in taken \/ ("params" \in taken /\ multi)

\* create_strategy for all the symbols, with the settings of the moment.
Rebuild ==
    /\ at = "apply" /\ ~NoSuchStrategy
    /\ IF "params" \in taken
       THEN built' = Created(symbols) /\ reloaded' = FALSE
       ELSE UNCHANGED << built, reloaded >>
    /\ at' = "trade" /\ taken' = {}
    /\ UNCHANGED << phase, disk, settings, cache, reader, book, bot, flags, multi, slots,
                    paused, bounds, here, unsaid, behind >>

\* ... or an exception, which ends run_live.
Raise ==
    /\ at = "apply" /\ NoSuchStrategy
    /\ End
    /\ UNCHANGED << disk, symbols, commands, crashes >>

\* run_due_strategies, on the slots.
Trade ==
    /\ at = "trade" /\ at' = "top"
    /\ UNCHANGED << phase, disk, settings, cache, reader, book, bot, flags, taken, multi,
                    built, slots, paused, bounds, history >>

Pause ==
    /\ phase = "run" /\ paused' = ~paused
    /\ UNCHANGED << phase, disk, settings, cache, reader, book, bot, flags, at, taken, multi,
                    built, slots, bounds, history >>

Crash ==
    /\ phase # "down" /\ crashes < MaxCrashes
    /\ crashes' = crashes + 1
    /\ End
    /\ UNCHANGED << disk, symbols, commands >>

\* main(): the settings come from .env; without credentials the program exits; an empty
\* database is seeded.
Start ==
    /\ phase = "down" /\ \A k \in Secrets : env[k] # Default
    /\ settings' = env /\ service' = TRUE
    /\ phase' = IF \A k \in Stored : db[k] = NoRow THEN "seed" ELSE "serve"
    /\ UNCHANGED << disk, cache, reader, book, bot, flags, loopVars, symbols, commands, crashes,
                    history >>

\* seed_default_configuration, a commit for each row.  The overlay of the environment that
\* follows finds a row for each of its keys and changes nothing.
Seed(k) ==
    /\ phase = "seed" /\ db[k] = NoRow
    /\ db' = [db EXCEPT ![k] = [val |-> Default, ver |-> 1]]
    /\ phase' = IF \A j \in Seeded \ {k} : db[j] # NoRow THEN "serve" ELSE "seed"
    /\ UNCHANGED << env, bookFile, settings, cache, reader, book, bot, flags, loopVars,
                    bounds, history >>

\* The seeding or the service raises, with some of the rows stored or none, and the program
\* goes on without one.
WithoutService ==
    /\ phase \in {"seed", "serve"} /\ service
    /\ phase' = "serve" /\ service' = FALSE
    /\ UNCHANGED << disk, settings, cache, reader, book, bot, flags, loopVars, symbols,
                    commands, crashes, history >>

\* The service, the strategy store, the slots and the loop's strategy, which is that of the
\* first slot: the stocks have one of their own.  With "multi" and crypto symbols the loop's
\* second strategy raises.  A file that cannot be read is an empty store.
Serve ==
    /\ phase = "serve"
    /\ IF service THEN cache' = Rows ELSE UNCHANGED cache
    /\ book' = IF bookFile = Torn THEN {} ELSE bookFile
    /\ built' = Created(IF "stocks" \in symbols THEN {"stocks"} ELSE symbols) /\ slots' = built'
    /\ multi' = Multi(settings["active"])
    /\ phase' = IF multi' /\ "crypto" \in symbols THEN "down" ELSE "run"
    /\ UNCHANGED << disk, settings, reader, bot, flags, at, taken, paused, bounds, history >>

-----------------------------------------------------------------------------
Init ==
    /\ phase = "down" /\ service = TRUE /\ multi = FALSE
    /\ symbols \in SUBSET {"stocks", "crypto"} \ {{}}
    /\ env \in {NoValues(Keys), [NoValues(Keys) EXCEPT !["active"] = Preset]}
    /\ db = [k \in Stored |-> NoRow]
    /\ bookFile = {} /\ book = {}
    /\ settings = NoValues(Keys)
    /\ cache = NoValues(Stored) /\ reader = << >>
    /\ bot = Idle /\ flags = {} /\ at = "top" /\ taken = {}
    /\ built = NoValues(Params) /\ slots = NoValues(Params) /\ paused = FALSE
    /\ commands = 0 /\ crashes = 0
    /\ here = {} /\ reloaded = FALSE /\ unsaid = {} /\ behind = {}

Bot == Persist \/ CachePut \/ Apply \/ Flag \/ Truncate \/ Write \/ Load \/ Edit \/ Save
Loop == Take \/ Rebuild \/ Raise \/ Trade
Boot == Start \/ (\E k \in Seeded : Seed(k)) \/ Serve

Next ==
    \/ (\E c \in DOMAIN Script : Command(c)) \/ (\E p \in Params : SetCommand(p))
    \/ Bot \/ RefreshRead \/ RefreshAssign \/ Loop
    \/ Pause \/ Crash \/ Boot \/ WithoutService

\* The threads run on and the container starts the program again.
Fairness == WF_vars(Bot) /\ WF_vars(RefreshAssign) /\ WF_vars(Loop) /\ WF_vars(Boot)

Spec == Init /\ [][Next]_vars /\ Fairness

-----------------------------------------------------------------------------
(* Properties.                                                             *)

\* Every variable has its type.
TypeOK ==
    /\ phase \in {"down", "seed", "serve", "run"} /\ {service, multi, paused, reloaded} \subseteq BOOLEAN
    /\ env \in [Keys -> Values] /\ settings \in [Keys -> Values]
    /\ db \in [Stored -> [val : Values, ver : 0 .. MaxCommands + 1]]
    /\ book \in SUBSET Strategies /\ (bookFile = Torn \/ bookFile \in SUBSET Strategies)
    /\ cache \in [Stored -> Values] /\ (reader = << >> \/ reader \in [Stored -> Values])
    /\ bot.v \in 0 .. MaxCommands /\ Len(bot.todo) <= 7
    /\ {flags, taken} \subseteq SUBSET {"multi", "params"} /\ at \in {"top", "apply", "trade"}
    /\ {built, slots} \subseteq [Params -> Values] /\ {here, unsaid, behind} \subseteq SUBSET Stored
    /\ symbols \in SUBSET {"stocks", "crypto"}
    /\ commands \in 0 .. MaxCommands /\ crashes \in 0 .. MaxCrashes

\* The service reads what is stored: whatever the refresh thread read before a commit, the
\* cache has a row's committed value once the command is past its cache, or, after a commit
\* that raised, once a refresh has read it.
CacheFollowsStore ==
    phase = "run" /\ service =>
        \A k \in Stored \ behind : cache[k] = db[k].val \/ (Op("cache") /\ Key = k)

\* With a service, a setting a command of this process changed is the stored one, whichever
\* of the steps fails, except while it is being changed and after a commit that raised,
\* which leaves the row of a command that said it failed.
SettingsArePersisted ==
    service => \A k \in here \ unsaid :
        settings[k] = db[k].val \/ ((Op("cache") \/ Op("apply")) /\ Key = k)

\* The store never says "multi" without the plan that came with it.
PlanBeforeActive == Multi(db["active"].val) => db["plan"].val \in db["active"].val .. MaxCommands

Follows(p) == built[p] = settings[p] \/ "params" \in flags \cup taken \/ Op("flag")

\* The loop's strategy (which is not what is traded with) has each parameter it reads as it
\* is set, or the loop is going to be told, or /loadconfig replaced the settings, which it
\* tells nobody.
StrategyFollowsSettings ==
    phase = "run" /\ ~reloaded => \A p \in Reads(symbols) : Follows(p)

\* A parameter that was set gets to the loop's strategy, if it reads it for the symbols
\* traded, while the process runs and is not paused.
ChangesReachTheLoop ==
    \A p \in Params :
        (phase = "run" /\ p \in Reads(symbols) /\ built[p] # settings[p])
            ~> (built[p] = settings[p] \/ paused \/ phase # "run" \/ reloaded)

\* (refuted) What the bot answers of each parameter the strategy is rebuilt for, "takes
\* effect next cycle" (telegram_bot.py:1167): some the strategy never reads.
EveryParameterFollows == phase = "run" /\ ~reloaded => \A p \in Params : Follows(p)

\* (refuted) What the loop built is what is traded with.
TradedAsSet == at = "trade" => slots = built

\* (refuted) After a start the settings are the stored ones.
StoredSurvives == [][Serve => \A k \in Stored : db'[k].ver > 1 => settings'[k] = db'[k].val]_vars

\* (refuted) Credentials that were set are those of the next start, once saved.
SavedCredentials == [][Start => \A k \in Secrets : settings'[k] # Redacted]_vars

\* (refuted) The key and the secret are of one command.
CredentialsMatch == bot = Idle => settings["key"] = settings["secret"]

\* (refuted) A restart finds the strategies there were.
BookSurvives == [][Serve => bookFile # Torn]_vars

\* (refuted) No command ends the program.
CommandsDoNotEndIt == [][Loop => phase' = phase]_vars
=============================================================================
