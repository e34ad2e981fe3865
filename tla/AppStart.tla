------------------------------- MODULE AppStart -------------------------------
(***************************************************************************)
(* The starters of package app on the start controller: applications       *)
(* (app/app.go, web.go, service.go), their database and redis connections  *)
(* (starters.go), their state managers (state_store.go) and the log        *)
(* (log.go).  A starter of this package reads and writes the start context *)
(* and registers further starters while it runs.  Every step that touches  *)
(* the controller is a step of StartController; StartController's          *)
(* registrars and listeners have no counterpart in this package.           *)
(*                                                                         *)
(* What the configuration files and the application's set-up say is fixed  *)
(* at the start: conf is one of Confs.                                     *)
(***************************************************************************)
EXTENDS Integers, Sequences, SequencesExt, FiniteSets

CONSTANTS
    App,      \* the applications
    Module,   \* the modules with a database, communal.IModule
    Db,       \* names of databases
    Redis,    \* names of redis pools
    Ustm,     \* names of state managers
    Confs,    \* the set-ups and configurations considered
    None      \* the empty name, nil

Starter == (App \X {"APP", "DB", "REDIS", "USTM"}) \cup {<<None, "LOG">>}

\* A configuration file an application may look for: one of the name given
\* with SetConfigFileName, or one of the application's own name.
File == App \X {"given", "name"}

ASSUME NoneIsNoName ==
    None \notin App \cup Db \cup Redis \cup Ustm \cup Starter \cup File

\* conf.apps      the applications the program has
\* conf.web       the applications built by NewWeb; the others are services
\* conf.priority  the priority each application was built with
\* conf.given     the applications with a FileName
\* conf.files     the configuration files that exist
\* conf.owner     the application a module is registered with
\* conf.moduleDb  GetDbName of each module
\* conf.appDb, conf.appRedis, conf.appUstm
\*                <app>.db, <app>.redis, <app>.ustm in the file the app reads
\* conf.dbs       the names in the "db" section of each file
\* conf.redises   the names in its "redis" section whose entries can be decoded
\* conf.store     for each file and state manager: "absent", "jwt", "memory",
\*                "invalid" type, "unknown" store type, or the redis name
Setting ==
    [apps : SUBSET App, web : SUBSET App, priority : [App -> Int],
     given : SUBSET App, files : SUBSET File,
     owner : [Module -> App \cup {None}],
     moduleDb : [Module -> Db \cup {None}],
     appDb : [App -> Db \cup {None}],
     appRedis : [App -> Redis \cup {None}],
     appUstm : [App -> Ustm \cup {None}],
     dbs : [File -> SUBSET Db],
     redises : [File -> SUBSET Redis],
     store : [File -> [Ustm -> Redis \cup {"absent", "jwt", "memory",
                                           "invalid", "unknown"}]]]

ASSUME ConfsAssumption == Confs \subseteq Setting

VARIABLES
    \* the start controller
    registered, queue, prio, started, listeners, controller, mu, pc, cur,
    pending, outcome, crash, call, late, ran,
    \* the applications
    conf,        \* rigid, see above
    master,      \* Master() of each application, or None
    mounts,      \* Mounts of each application
    stage,       \* of a running BaseApp.Start: "begin" or "registering"
    todo,        \* what it still has to register
    why,         \* why a starter failed or panicked, or ""
    \* the start context
    config,      \* <app>.config: the file it was read from, or None
    connected,   \* the names d with db.<d> set
    pools,       \* the names r with redis.<r> set
    managers,    \* the names u with ustm.<u> set
    \* what the starters fill in
    dbListeners, \* dbListeners[d]: the modules that wait for d
    engine,      \* the database each module got, or None
    redisOf,     \* app.Redis
    managerOf    \* web.StateManager

scVars == <<registered, queue, prio, started, listeners, controller, mu, pc,
            cur, pending, outcome, crash, call, late, ran>>
topology == <<master, mounts>>
context == <<config, connected, pools, managers>>
holders == <<dbListeners, engine, redisOf, managerOf>>
appVars == <<conf, topology, stage, todo, why, context, holders>>
vars == <<scVars, appVars>>

SC == INSTANCE StartController WITH
          Priority <- Int, Listener <- {}, Registrar <- {}

AppOf(a) == <<a, "APP">>
Log == <<None, "LOG">>

BugStarterPriority(s) ==
    CASE s[2] = "LOG"               -> 1000
      [] s[2] = "APP"               -> conf.priority[s[1]]
      [] s[2] \in {"DB", "REDIS"}   -> 600
      [] s[2] = "USTM"              -> 700

\* The priorities of app/starter.go; Priority() of an application can be set.
StarterPriority(s) ==
    CASE s[2] = "LOG"               -> 1000
      [] s[2] = "APP"               -> conf.priority[s[1]]
      [] s[2] \in {"DB", "REDIS"}   -> 600
      [] s[2] = "USTM"              -> 300

\* The applications a is mounted on, directly or not: those in every set that
\* holds the master of a and, with an application, its master.
Masters(a) ==
    {b \in App :
        \A S \in SUBSET App :
            (\A c \in S \cup {a} : master[c] \in S \cup {None}) => b \in S}

IsMaster(a) == mounts[a] # <<>>

-----------------------------------------------------------------------------
Init ==
    /\ conf \in Confs
    /\ prio = [s \in Starter |-> StarterPriority(s)]
    /\ SC!Init
    /\ master = [a \in App |-> None]
    /\ mounts = [a \in App |-> <<>>]
    /\ stage = "begin"
    /\ todo = <<>>
    /\ why = ""
    /\ config = [a \in App |-> None]
    /\ connected = {}
    /\ pools = {}
    /\ managers = {}
    /\ dbListeners = [d \in Db |-> {}]
    /\ engine = [m \in Module |-> None]
    /\ redisOf = [a \in App |-> None]
    /\ managerOf = [a \in App |-> None]

\* The init function of log.go, which runs before the program's own code.
RegisterLog ==
    /\ registered = <<>>
    /\ SC!MainRegister(Log)
    /\ UNCHANGED appVars

InSetup == pc = "setup" /\ registered # <<>>

\* master.Mount(a), before either is started: a must not be preferred to the
\* application it is mounted on.
Mount(m, a) ==
    /\ InSetup
    /\ {m, a} \subseteq conf.apps
    /\ m # a /\ a \notin Masters(m)
    /\ master[a] = None
    /\ SC!SetPriority(AppOf(a),
            IF prio[AppOf(a)] > prio[AppOf(m)] THEN prio[AppOf(m)] - 1
            ELSE prio[AppOf(a)])
    /\ master' = [master EXCEPT ![a] = m]
    /\ mounts' = [mounts EXCEPT ![m] = Append(@, a)]
    /\ UNCHANGED <<conf, stage, todo, why, context, holders>>

\* The program registers an application it has not mounted.
RegisterApp(a) ==
    /\ InSetup
    /\ a \in conf.apps
    /\ master[a] = None
    /\ AppOf(a) \notin ToSet(registered)
    /\ SC!MainRegister(AppOf(a))
    /\ UNCHANGED appVars

Start ==
    /\ InSetup
    /\ SC!Start
    /\ UNCHANGED appVars

\* startNext pops a starter, finds none, or startStarter ends.
ControllerStep ==
    /\ SC!StartNext \/ SC!StartNextEmpty \/ SC!Notified \/ SC!Exit
    /\ UNCHANGED appVars

Begins(s) == SC!Running /\ pc = "starting" /\ cur = s /\ stage = "begin"

-----------------------------------------------------------------------------
(***************************************************************************)
(* BaseApp.Start                                                           *)
(***************************************************************************)

\* The one file name Configurator.Start tries.
FileTried(a) == IF a \in conf.given THEN <<a, "given">> ELSE <<a, "name">>

\* LoadConfig reads the file from the first place that has one of the name.
LoadConfig(f) == f \in conf.files

\* The configuration a ends up with: its own file or its master's.
Loaded(a) ==
    IF LoadConfig(FileTried(a)) THEN FileTried(a)
    ELSE IF IsMaster(a) \/ master[a] = None THEN None
    ELSE config[master[a]]

\* Configurator.Start: no file for a master.
MasterConfigFails(a) ==
    /\ Loaded(a) = None /\ IsMaster(a)
    /\ why' = "no master config"
    /\ SC!StartFails
    /\ UNCHANGED <<conf, topology, stage, todo, context, holders>>

\* Configurator.Start: no file for an application that is neither a master
\* nor mounted, so Master() is nil; or no configuration of its master in the
\* context, and the assertion to *viper.Viper fails.
ConfigPanics(a) ==
    /\ Loaded(a) = None /\ ~IsMaster(a)
    /\ why' = IF master[a] = None THEN "nil master" ELSE "no config"
    /\ SC!Panic
    /\ UNCHANGED <<conf, topology, stage, todo, context, holders>>

\* Configurator.Start: a subscribed section cannot be unmarshalled.
SubscriptionFails(a) ==
    /\ Loaded(a) # None
    /\ config' = [config EXCEPT ![a] = Loaded(a)]
    /\ why' = "subscription"
    /\ SC!StartFails
    /\ UNCHANGED <<conf, topology, stage, todo, connected, pools, managers,
                   holders>>

ModulesOf(a) == {m \in Module : conf.owner[m] = a}

\* The name a module of a waits for, once SetDbName has filled in a default.
NameOf(a, m) ==
    IF conf.moduleDb[m] = None THEN conf.appDb[a] ELSE conf.moduleDb[m]

\* The panic "no name specified for module or app".
NoDbNamePanics(a) ==
    /\ Loaded(a) # None
    /\ ModulesOf(a) # {} /\ conf.appDb[a] = None
    /\ config' = [config EXCEPT ![a] = Loaded(a)]
    /\ why' = "no db name"
    /\ SC!Panic
    /\ UNCHANGED <<conf, topology, stage, todo, connected, pools, managers,
                   holders>>

BugBindModules(a) ==
    /\ engine' = [m \in Module |->
                     IF m \in ModulesOf(a) /\ conf.appDb[a] \in connected
                     THEN conf.appDb[a] ELSE engine[m]]
    /\ UNCHANGED dbListeners

\* The loop over the modules: each takes the engine of the application's
\* database, or listens under its own name until that is connected.
BindModules(a) ==
    IF conf.appDb[a] \in connected
    THEN /\ engine' = [m \in Module |-> IF m \in ModulesOf(a)
                                        THEN conf.appDb[a] ELSE engine[m]]
         /\ UNCHANGED dbListeners
    ELSE /\ dbListeners' =
              [d \in Db |-> dbListeners[d] \cup
                              {m \in ModulesOf(a) : NameOf(a, m) = d}]
         /\ UNCHANGED engine

BugStartersOf(a) ==
    <<<<a, "DB">>, <<a, "REDIS">>>>
    \o (IF IsMaster(a) THEN <<AppOf(mounts[a][1])>> ELSE <<>>)
    \o (IF a \in conf.web THEN <<<<a, "USTM">>>> ELSE <<>>)

\* What BaseApp.Start registers, then Web.Start: mounts come after the
\* connections, and the state manager of a web application last.
StartersOf(a) ==
    <<<<a, "DB">>, <<a, "REDIS">>>>
    \o [i \in DOMAIN mounts[a] |-> AppOf(mounts[a][i])]
    \o (IF a \in conf.web THEN <<<<a, "USTM">>>> ELSE <<>>)

BugConfigure(a) ==
    /\ Loaded(a) # None
    /\ ModulesOf(a) = {} \/ conf.appDb[a] # None
    /\ config' = [config EXCEPT ![a] = IF IsMaster(a) THEN Loaded(a) ELSE @]
    /\ BindModules(a)
    /\ stage' = "registering"
    /\ todo' = StartersOf(a)
    /\ UNCHANGED <<scVars, conf, topology, why, connected, pools, managers,
                   redisOf, managerOf>>

\* Configurator.Start and the module loop succeed.
Configure(a) ==
    /\ Loaded(a) # None
    /\ ModulesOf(a) = {} \/ conf.appDb[a] # None
    /\ config' = [config EXCEPT ![a] = Loaded(a)]
    /\ BindModules(a)
    /\ stage' = "registering"
    /\ todo' = StartersOf(a)
    /\ UNCHANGED <<scVars, conf, topology, why, connected, pools, managers,
                   redisOf, managerOf>>

StartApp(a) ==
    /\ Begins(AppOf(a))
    /\ \/ MasterConfigFails(a)
       \/ ConfigPanics(a)
       \/ SubscriptionFails(a)
       \/ NoDbNamePanics(a)
       \/ Configure(a)

RegisterNext ==
    /\ stage = "registering" /\ todo # <<>>
    /\ SC!MainRegister(Head(todo))
    /\ todo' = Tail(todo)
    /\ UNCHANGED <<conf, topology, stage, why, context, holders>>

BugAppStarted ==
    /\ stage = "registering" /\ todo = <<>>
    /\ SC!StartReturns
    /\ UNCHANGED appVars

AppStarted ==
    /\ stage = "registering" /\ todo = <<>>
    /\ SC!StartReturns
    /\ stage' = "begin"
    /\ UNCHANGED <<conf, topology, todo, why, context, holders>>

-----------------------------------------------------------------------------
(***************************************************************************)
(* The other starters                                                      *)
(***************************************************************************)

\* LogStarter.Start: the log configuration is there and valid, or not.
StartLog ==
    /\ Begins(Log)
    /\ \/ SC!StartReturns /\ UNCHANGED why
       \/ SC!StartFails /\ why' = "log"
    /\ UNCHANGED <<conf, topology, stage, todo, context, holders>>

\* ctx.MustGet panics when <app>.config is not set.
MustGetPanics ==
    /\ why' = "no config"
    /\ SC!Panic
    /\ UNCHANGED <<context, holders>>

\* Names of a's db section that are not connected yet.
NewDbs(a) == conf.dbs[config[a]] \ connected

\* The databases in ds are connected and their listeners get the engines.
Connect(ds) ==
    /\ connected' = connected \cup ds
    /\ engine' = [m \in Module |->
                    IF \E d \in ds : m \in dbListeners[d]
                    THEN CHOOSE d \in ds : m \in dbListeners[d]
                    ELSE engine[m]]
    /\ UNCHANGED <<config, pools, managers, dbListeners, redisOf, managerOf>>

\* BuildDBConnection fails for one of the databases in new: what may have
\* been built before, in the order of a map.
BuiltBeforeFailure(new) == {ds \in SUBSET new : ds # new}

\* DbStarter.Start connects what is new. When one cannot be built the ones
\* before it stay connected. An entry that is no section is a nil dereference.
StartDb(a) ==
    /\ Begins(<<a, "DB">>)
    /\ IF config[a] = None THEN MustGetPanics
       ELSE \/ /\ Connect(NewDbs(a))
               /\ SC!StartReturns
               /\ UNCHANGED why
            \/ \E ds \in BuiltBeforeFailure(NewDbs(a)) :
                  /\ Connect(ds)
                  /\ SC!StartFails \/ SC!Panic
                  /\ why' = "db"
    /\ UNCHANGED <<conf, topology, stage, todo>>

BugStartRedis(a) ==
    /\ Begins(<<a, "REDIS">>)
    /\ LET r == conf.appRedis[a]
           new == {r} \ (pools \cup {None})
       IN  IF new \subseteq conf.redises[config[a]]
           THEN /\ pools' = pools \cup new
                /\ redisOf' = [redisOf EXCEPT ![a] = IF new = {} THEN @ ELSE r]
                /\ SC!StartReturns
                /\ UNCHANGED why
           ELSE /\ why' = "no redis config"
                /\ SC!StartFails
                /\ UNCHANGED <<pools, redisOf>>
    /\ UNCHANGED <<config, connected, managers, dbListeners, engine, managerOf,
                   conf, topology, stage, todo>>

\* BuildRedisConnection needs a section for the pool that it can decode, and
\* dials nothing yet.
RedisBuilds(a, r) == r \in conf.redises[config[a]]

\* RedisStarter.Start: the application takes the pool of its name, building
\* it from its own configuration when it is the first to ask.
StartRedis(a) ==
    /\ Begins(<<a, "REDIS">>)
    /\ LET r == conf.appRedis[a] IN
       IF config[a] = None THEN MustGetPanics
       ELSE /\ \/ /\ r = None
                  /\ SC!StartReturns
                  /\ UNCHANGED <<why, pools, redisOf>>
               \/ /\ r # None
                  /\ r \in pools \/ RedisBuilds(a, r)
                  /\ pools' = pools \cup {r}
                  /\ redisOf' = [redisOf EXCEPT ![a] = r]
                  /\ SC!StartReturns
                  /\ UNCHANGED why
               \/ /\ r # None
                  /\ r \notin pools /\ ~RedisBuilds(a, r)
                  /\ why' = "no redis config"
                  /\ SC!StartFails
                  /\ UNCHANGED <<pools, redisOf>>
            /\ UNCHANGED <<config, connected, managers, dbListeners, engine,
                           managerOf>>
    /\ UNCHANGED <<conf, topology, stage, todo>>

\* newSessionStore, for a store in memory, on a redis pool, or of another type.
NewSessionStore(store) ==
    CASE store = "memory"                      -> "ok"
      [] store \in Redis /\ store \in pools    -> "ok"
      [] store \in Redis /\ store \notin pools -> "no redis"
      [] OTHER                                 -> "nil"

\* NewStateManager for the state manager u of a's configuration: its store,
\* or what goes wrong.
StoreResult(a, u) ==
    LET store == conf.store[config[a]][u] IN
    CASE store = "jwt"     -> "ok"
      [] store = "invalid" -> "invalid type"
      [] OTHER             -> NewSessionStore(store)

\* StateManagerStarter.Start: the application takes the state manager of its
\* name, building it when it is the first to ask. Options may not be decoded,
\* redis may not answer. A missing section or an unknown store type is a nil
\* dereference.
StartUstm(a) ==
    /\ Begins(<<a, "USTM">>)
    /\ LET u == conf.appUstm[a] IN
       IF config[a] = None THEN MustGetPanics
       ELSE /\ \/ /\ u = None
                  /\ SC!StartReturns
                  /\ UNCHANGED <<why, managers, managerOf>>
               \/ /\ u # None
                  /\ u \in managers \/ StoreResult(a, u) = "ok"
                  /\ managers' = managers \cup {u}
                  /\ managerOf' = [managerOf EXCEPT ![a] = u]
                  /\ SC!StartReturns
                  /\ UNCHANGED why
               \/ /\ u # None /\ u \notin managers
                  /\ StoreResult(a, u) \in {"no redis", "invalid type"}
                  /\ why' = StoreResult(a, u)
                  /\ SC!StartFails
                  /\ UNCHANGED <<managers, managerOf>>
               \/ /\ u # None /\ u \notin managers
                  /\ StoreResult(a, u) = "ok"
                  /\ why' = "no store"
                  /\ SC!StartFails
                  /\ UNCHANGED <<managers, managerOf>>
               \/ /\ u # None /\ u \notin managers
                  /\ StoreResult(a, u) = "nil"
                  /\ why' = "nil store"
                  /\ SC!Panic
                  /\ UNCHANGED <<managers, managerOf>>
            /\ UNCHANGED <<config, connected, pools, dbListeners, engine,
                           redisOf>>
    /\ UNCHANGED <<conf, topology, stage, todo>>

\* The program has panicked, or Start has returned.
Terminated == SC!Terminated /\ UNCHANGED appVars

Next ==
    \/ RegisterLog
    \/ \E m, a \in App : Mount(m, a)
    \/ \E a \in App : RegisterApp(a)
    \/ Start
    \/ ControllerStep
    \/ \E a \in App : StartApp(a) \/ StartDb(a) \/ StartRedis(a) \/ StartUstm(a)
    \/ StartLog
    \/ RegisterNext
    \/ AppStarted
    \/ Terminated

Spec == Init /\ [][Next]_vars

-----------------------------------------------------------------------------
TypeOK ==
    /\ SC!TypeOK
    /\ master \in [App -> App \cup {None}]
    /\ mounts \in [App -> Seq(App)]
    /\ stage \in {"begin", "registering"}
    /\ todo \in Seq(Starter)
    /\ stage = "registering" => cur \in App \X {"APP"}
    /\ config \in [App -> File \cup {None}]
    /\ connected \in SUBSET Db
    /\ pools \in SUBSET Redis
    /\ managers \in SUBSET Ustm
    /\ dbListeners \in [Db -> SUBSET Module]
    /\ engine \in [Module -> Db \cup {None}]
    /\ redisOf \in [App -> Redis \cup {None}]
    /\ managerOf \in [App -> Ustm \cup {None}]

\* The configuration loop of BaseApp.Start is behind a.
Configured(a) == AppOf(a) \in started \/ (cur = AppOf(a) /\ stage = "registering")

\* A module that names the database of its application, or none, has the
\* engine of that database from the moment it is connected, whichever of the
\* two comes first and whichever application connects it: no module is
\* forgotten between the test of the context in BaseApp.Start and the
\* notification in DbStarter.Start.
DbBinding ==
    \A m \in Module :
        LET a == conf.owner[m]
            d == conf.appDb[a]
        IN  Configured(a) /\ conf.moduleDb[m] \in {None, d} =>
                engine[m] = IF d \in connected THEN d ELSE None

\* "session store with empty redis reference" is never the answer to a store
\* on the redis of its own application, or of one it is mounted on.
SessionRedisReady ==
    why = "no redis" =>
        LET a == cur[1]
        IN  \A b \in {a} \cup Masters(a) :
                conf.store[config[a]][conf.appUstm[a]] # conf.appRedis[b]

\* ctx.MustGet and the type assertion of Configurator.Start find the
\* configuration they ask for: no starter of this package runs before the
\* application, or the master, it takes its configuration from.
ConfigReady == why # "no config"

\* After a successful startup every application has the redis pool and the
\* state manager its configuration names, shared or its own: the panic "no
\* state manager defined" of ManageUserState is unreachable for a web
\* application whose configuration names one. One that names none has none.
HoldersFilled ==
    outcome = "ok" =>
        \A a \in App : AppOf(a) \in started =>
            /\ redisOf[a] = conf.appRedis[a]
            /\ a \in conf.web => managerOf[a] = conf.appUstm[a]

\* An application starts with every application mounted on it, directly or
\* not, and none of those without it.
MountsFollow ==
    /\ \A a \in App : AppOf(a) \in started =>
            \A b \in Masters(a) : AppOf(b) \in started
    /\ outcome = "ok" =>
            \A a \in App : (\E b \in Masters(a) : AppOf(b) \in started)
                               => AppOf(a) \in started

\* app/app.go:98 calls it an error that "no name [is] specified for module or
\* app".
NoNameForModuleOrApp ==
    why = "no db name" =>
        \E m \in ModulesOf(cur[1]) :
            conf.moduleDb[m] = None /\ conf.appDb[cur[1]] = None

\* app/app.go:150-151: "1, try to load config with config file name if given;
\* 2, try to load config with app name".
FileNameThenAppName ==
    \A a \in App :
        Configured(a) /\ <<a, "given">> \notin conf.files
                      /\ <<a, "name">> \in conf.files
            => config[a] = <<a, "name">>

=============================================================================
