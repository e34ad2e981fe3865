# Communal, in TLA+

A verification development for `github.com/sdjnlh/communal`, a Go framework for
small web services: an application is put together from *starters* that a
global controller runs by priority, gets its configuration, databases, redis
pools and state managers from a shared start context, and serves REST endpoints
built with gin. Source paths below are relative to `src/`.

- [Inventory](#inventory)
- [Modules](#modules)
- [Runs](#runs)
- [Fairness](#fairness)
- [Theorems](#theorems)
- [Where code and documentation disagree](#where-code-and-documentation-disagree)
- [What is left out](#what-is-left-out)
- [Plan](#plan)

## Inventory

| component | source | state | operations |
|---|---|---|---|
| start controller | `app/starter.go` | `startersMap`, `startersArray`, `listenersMap`, the mutex, the start context, the global `controller` | `RegisterStarter`, `OnStarted`, `Start`, `startNext`, `startStarter` |
| applications | `app/app.go`, `web.go`, `service.go`, `config.go` | master, mounts, modules, subscriptions, `<app>.config` in the context | `Mount`, `Configurator.Start`, `BaseApp.Start`, `Web.Start`, `Service.Start` |
| connections | `app/starters.go`, `app/log.go` | `db.<name>`, `redis.<name>` in the context, `dbListeners` | `ListenDB`, `DbStarter.Start`, `RedisStarter.Start`, `LogStarter.Start` |
| state managers | `app/state_store.go` | `ustm.<name>` in the context, `Web.StateManager`; JWT cookies, sessions in memory or in redis | `StateManagerStarter.Start`, `NewStateManager`, `Get`, `Set`, `SetAll`, `Clear`, ... |
| distributed lock | `util/distributed_lock.go` | one redis key per lock with an expiry | `TryLock`, `Unlock`, `AddTimeout` |
| REST endpoints | `web/endpoint.go`, `web/rpc_endpoint.go` | the endpoints of a builder, their right checkers and handlers | builder calls, `register`, the five `Do` |
| web helpers | `web/*.go` otherwise | the cross-origin and user middleware, result writers | `Result`, `ApiFail`, `writeResult`, interceptors |
| validator | `validator/` | `RuleSetCache`, a global map | `ValidateStruct`, `ValidateVar`, rules |
| modules | `module.go` | rows with a status, one engine per module | `Get`, `Create`, `List`, `ListCondition`, `Do`, `Update`, `Delete`, `Dtd` |
| domain types | `domain.go` | pages, filters, trees, arrays in columns, the context map | `Skip`, `GetPager`, `Apply`, `Node`, `Build`, `FromDB`, `ToDB` |
| redis helpers | `db/redis.go`, `db/db.go` | keys in redis | `RedisGet`, `SetKeyWithExpireTime`, `RedisGetAndRefreshExpireTime` |
| message sender | `sender/sender.go` | a global response map | `SendCode` |
| others | `config`, `log`, `id`, `errors`, `password`, `router`, `rpc`, `util/types.go`, `util/string.go` | `sync.Once` loaders, a snowflake node | one call each |

How they interact. An application is itself a starter. While it runs it
registers the starters of its database, redis pool and mounted applications, and
a web application that of its state manager; they find each other through the
start context, which is a map without a lock. Modules wait for their database
through the global `dbListeners`. At request time the endpoints call right
checkers and a module's service, and state managers read and write cookies and
redis. The distributed lock stands alone.

What is hard in it, and what makes a component correct:

- *Start controller.* Starters register starters while the queue is consumed,
  and other goroutines may register at any time: the reason for the mutex.
  `startNext` returns with the mutex locked when the queue is empty, `register`
  panics with it locked, and `Start` clears the global controller while other
  goroutines may hold it or read it. It is correct if no accepted starter is
  lost, doubled or restarted, if the queue is sorted by priority and stable
  within one, and if success means that everything accepted has started.
- *Applications and connections.* A module finds its database already in the
  context or waits for it; a starter asks the context for what an earlier one
  must have put there; the priorities of applications are free, and mounting
  changes them. It is correct if no module is forgotten, whatever the
  order, and if nobody asks too early.
- *Distributed lock.* A check and a `SET` in two commands, a rounded time to
  live, `DEL` and `SET` without a check of the token, lost answers, crashes. It
  is correct as long as callers keep to their lease: they exclude each other,
  extending never shortens, and a crashed holder lets go.
- *Endpoints.* Right checkers are copied into the endpoints a builder has at
  the time of the call; the order of calls decides whether an endpoint is
  protected. No handler may run before its checker has agreed.
- *Validator, sender.* Global maps written without a lock by concurrent
  requests; a rule set must not be seen half built.
- *State stores.* Read-modify-write of a session across requests, cookies in answers
  that are lost or overtaken. What a request set must be what the next one finds.
- *Modules.* Soft delete and status: a deleted row must not be listed, and not
  come back by a stale update. Rows join and leave while a client walks from
  page to page: the walk must still meet every row that stays.
- *Trees.* Nodes come in any order, and ids may come twice: every node must hang
  under its parent once, and none be lost.
- *Redis helpers.* `GET` and `EXPIRE` are two commands: what is returned must stay for the
  time asked for, and a key must not be called missing for nothing.
- *Columns.* What is read back must be what was written, or one must know when
  it is not.

The hazards are listed one by one, with their lines and the properties that
cover them, in `PROJECT.json`; those no property covers say why.

## Modules

| module | what it is |
|---|---|
| `StartOrder` | abstract: starters arrive, the first by priority and arrival runs alone, success closes the list |
| `StartController` | `app/starter.go` in full, with its mutex, listeners, and other goroutines that register |
| `AppStart` | the starters of package `app` on `StartController` |
| `DistLock` | `util/distributed_lock.go` over a redis with lost answers, crashes and time |
| `Endpoint` | `web/endpoint.go`: the builder, registration, and the `Do` of every endpoint type |
| `Validator` | `validator/validator.go`: the global cache of rule sets under concurrent first use |
| `UserState` | `app/state_store.go` at request time: JWT cookies and sessions under overlapping requests |
| `Records` | `module.go` and the paging of `domain.go`: clients change rows while one walks through the pages |
| `Trees` | `TreeBuilder` of `domain.go` |
| `Columns` | `StringArray` of `domain.go`, written to a column and read back |
| `Sender` | `sender/sender.go`: concurrent calls over one response map |
| `RedisKey` | `db/redis.go`: get-and-refresh against expiry and other writers |
| `StartControllerProofs`, `AppStartProofs`, `DistLockProofs`, `EndpointProofs`, `ValidatorProofs`, `UserStateProofs`, `RecordsProofs`, `HelpersProofs` | theorems; `HelpersProofs` is about `RedisKey`, `Sender` and `Trees` |
| `MCStartController`, `MCAppStart`, `MCDistLock`, `MCEndpoint`, `MCValidator`, `MCUserState`, `MCRecords`, `MCTrees`, `MCHelpers` | instances for TLC; `MCHelpers` is one of `RedisKey`, `Columns` and `Sender` |

`AppStart` composes with `StartController`, which implements `StartOrder`. The
others stand alone, as their components do: an endpoint sees the user's state
only through the rights in its session, and validation only through its verdict.

### StartController

The main goroutine is `pc`: `setup` (before `Start`), `next` (`startNext` waits
for the mutex), `starting` (in a starter's `Start`), `notifying` (in the listener
loop of `startStarter`), `exit`, `returned`. While it is in the application's own
code (`InUserCode`) that code may register a starter, set the priority of one
that is not registered, add a listener, panic, return or fail, any number of
times. A registrar is another goroutine; its `RegisterStarter` is two steps
because it reads the global `controller` (`Call`) before it gets the mutex
(`Enter`), and `Start` may clear the global in between. A critical section is
one step, since nothing else touches the map and the array. `mu` is therefore only
ever `held` where the code forgets to unlock: in `startNext` on an empty queue
and in a `register` that panics.

`queue` is the array; `InsertPoints` is the insertion loop of `register`,
described by what it finds. `Registered` starters are kept as a sequence so that
"first come" can be said; the code's map has no order and needs none. `late` and
`ran` are history variables for the listeners.

`crash` records the panic that ends the program: a duplicate name, a nil
controller, a starter that has been started, or one in the application.

Two things the application could do are taken as mistakes of its own and left
out: calling `Start` from within a starter, and changing the priority of a
starter that is already queued (the one caller in the repository, `Mount`, runs
before). `OnStarted` takes no lock, so a call from another goroutine is a data
race with `startStarter`; listeners are added by the main goroutine only.

### StartOrder

What the rest of the program may rely on: no queue, no mutex, no goroutines.
`ImplementsOrder` maps `running` to `cur`, `done` to `started \ {cur}` (a starter is
done when its listeners are) and `arrived` to the registration order.

### AppStart

`SC == INSTANCE StartController WITH Priority <- Int, Listener <- {},
Registrar <- {}`, so that every step here that touches the controller *is* a step
of the controller: `RegisterNext` conjoins `SC!MainRegister`, `AppStarted`
conjoins `SC!StartReturns`, and so on. A starter is `<<app, kind>>` with kind
`APP`, `DB`, `REDIS` or `USTM`, plus the log.

Everything the configuration files and the set-up say is the rigid record
`conf`, chosen in `Init` from the constant `Confs`: which files exist, which
sections they have, which module names which database. `Setting` is what can be said at
all, and all that is assumed of `Confs`. `Masters(a)`, the applications above `a`, is stated as a
closure over sets, without recursion. `BaseApp.Start` takes
several steps, `Configure` (configuration and module loop) and one
`RegisterNext` for each starter it registers; its failures and panics are actions
of their own. A connection is its name. Databases of one section
are opened in the order of a Go map, so that when one fails any proper subset may
be connected.
Sections that cannot be decoded, databases that cannot be connected and a redis that does
not answer end startup with an error, missing sections that the code dereferences with a
panic.

### DistLock

One lock. `owner` and `ttl` are the key in redis; `ttl` counts ticks, `Second` of
them a second, so that what `TTL` rounds away exists. A command is sent, executed
and answered in separate steps (`TryLock`, `ExecSetNX`, `TryLockReturns`), and the
command or its answer may be lost (`...Fails`). `log.Fatal` on a failing `TTL` ends
the process. `overrun` and `retried` are history: the library cannot protect
callers that outlive their lease or repeat an `Unlock` that failed, since `DEL`
and the second `SET` of `AddTimeout` do not look at the token. A command whose
connection breaks is assumed to be executed before the caller sees the error, or
never.

### Endpoint

The program's calls on one builder come first, in any order and number up to
`MaxCalls`; then it serves. `endPoints` is the builder's map by name, `registered`
and `routes` are what gin has been told, and each endpoint is an element of the
constant `Endpoint` whose fields are functions: `checker`, `type`, `success`,
`fail`, `creator`, `path`. `EndpointRightCheck`, `BuilderRightCheck`, `BuilderType` and
`Register` are the handlers of the same names; what panics at registration ends
the program. A request shares nothing with others but the database, so the
model serves one at a time: `at` is its endpoint and `todo` the stages of `Do` it
has still to go through, in the order of `GetDo`, `CreateDo` and so on. A `Fail`
ends the request because `Do` returns after it. `effect` says that the operation was
executed (by the database or over RPC), `answers` what was written.

The rights of a session are taken from the constant `Sessions`; the session
middleware is assumed. A checker the application writes itself (`"custom"`)
may say either. Setters with a nil checker or handler are left out: they are mistakes
that crash at the first request.

### Validator

`RuleSetCache` and the rule sets in it are maps without a lock. A write of a map
is two steps; a read or write in between another's two steps is the data race,
and whether the runtime notices it is open: it may end the program
(`MayNotice`), and then everything starts again with the registered rule sets
only. A request looks (`Look`), translates the tags clause by clause (`Find`, `Make`, `Made`,
`Store`, `Stored`), looks again (`LookAgain`) and ranges over the rule set
(`Visit`), while others write into the same or an orphaned map. What rules say of
data is left out, a request is known by the rules it has applied.

The loops of a translation over fields, clauses and names end in one call of
`cacheFieldRules` each. A call is the position it is made for, `<<field, clause, name>>`;
`Calls` has those up to the first rule that there is not, `todo` those a request has still to make,
and it makes the first of them (`Current`) by `Before`, the order of the loops.

Assumed: rules fit the types of their fields (a rule's own `Validate` may panic
otherwise); the maps are small, so that growing them does not hide entries from a
reader; one struct type; `RegisterRuleSet` is called from `init` functions only.

### UserState

One browser, whose requests may overlap. `cookie` is what it holds: the claims of
the token (`"jwt"`), or a session id (`"memory"`, `"redis"`). A request carries the cookie it
was sent with, loads the whole session when it is parsed (`SessionParseUser`), and
every `Save` writes the whole session back. Loading from redis may fail (`Loads`), which
nobody is told: the session is empty then but keeps its id, there is no user, the
handlers run, and the next `Save` of the request overwrites all that is stored. The answer sets the cookie when it
arrives (`Deliver`), which may be after a later one, or never (`Lose`). `Save` on redis
may fail having executed the command or not; a change that failed to be saved
stays in the request's session, and any later `Save` of the request takes it along,
also that of `Set`, which changes only the request's context. A restart empties
the sessions in memory, cookies and redis keys expire.

`intended`, `promised` and `expected` are history: what a request's operations amount to, the
same up to the last that returned no error, and what the next request should
therefore find. The model forgets what to expect (`Unknown`) in two cases only. Where
requests that *write* overlap, the last `Save` or the last cookie wins as a whole and
updates are lost. And a request whose session could not be loaded promises the values that
its operations set or clear, and no others: a `SetAll` of another value, or a `ClearAll`
of one, returns nil and drops the user that was logged in, without any other request.
What it does not save, though, is untouched, so `SeenAsExpected` still demands that a
failed load by itself changes nothing, and that `Set` does not save.
Operations that have nothing to save promise nothing. Values that cannot be encoded (which fail before anything is changed),
nil values in sessions (which gob refuses) and the copies of single values that
`JwtStore.SetAll` puts into cookies of their own are left out.

### Records

One table, whose deletions are marked in `status` (`Delete`) or in `dtd` (`Dtd`):
`column` says which. `row` is the table, `bean` what each client has read
and may write back (`Update`), however old. xorm writes the columns of a bean that are
not zero and none of type bool; so a stale bean carries `status = 1` back
over a deletion, but never `dtd = false` (`Writes`). `hidden` and `stale` are history: the
rows that were deleted, and the clients whose bean is older than the deletion of
its row, after whose update nothing is promised.

One more client walks through the pages, from the first or from none to the last that `GetPager`
counts. A page is two statements, the rows (`Find`) and their count
(`Count`), and others may come between them and between pages. `List` and
`ListCondition` with `Do` differ in the condition: `status = 1` of a filter's
`Apply`, or `dtd = false` unless `Reveal`; `All` is one statement without a page. The
walk's rows are ordered by descending id, as `List` orders them; `Do` leaves the
order to the caller, without which nothing can be said of a walk.
A statement that fails changes nothing and is left out, except the
count (`CountFails`), which loses a page whose rows were read.

### Trees

A node is known by its position among those that arrived, so that several may
have one id. The map `cache` holds three things under keys of different signs,
which are three variables: `node` (an id), `waiting` (its negative: the children that came
before) and `roots` (zero). `Node` is one step with its three ways: no parent, a
parent that is there, one that is not. `Linked` compares `children` and `Build` with
what arrived alone, and `NothingLost` says that what can be reached from the roots is
everything, if the nodes make up trees at all (`WellFormed`); reachability is stated as a
closure over sets, without recursion.

### Columns, Sender, RedisKey

`Columns`: `array` is what was written last, whose text is the column; `receiver`
is read into, and may have been used before. Text is a sequence of characters,
because what gets lost is lost to commas and quotes.

`Sender`: a call posts (`Post`, or `PostFails`), decodes the answer into the shared
map (`Unmarshal`) and looks its code up (`LookUp`). Only the key `code` of the map is kept. Decoding
adds to the map what the answer has, forgets the map at `null`, and leaves it when
the answer is no JSON; the look-up panics unless the code is a string. The map has no lock: the
runtime may end the program (`Abort`), or one call's decoding panics because another
has just forgotten the map (`Collide`). `disturbed` is history: calls that another's
decoding got in the way of.

`RedisKey`: `value` and `ttl` are one key of redis. A caller's `GET` and `EXPIRE` are two
steps, with the clock (`Tick`) and `SetKey` of others between them; a connection that
breaks leaves open whether `EXPIRE` was executed. Everybody uses one expiry for
the key. `fresh` and `missed` are history.

## Runs

| run | instance | shows |
|---|---|---|
| `controller` | 3 starters, priorities {600, 900}, 2 listeners, 1 registrar, fairness | `Ledger`, `QueueOrder`, `CompleteMeansAll`, `NotifiedInOrder`; the controller implements `StartOrder`; every registered starter starts (`EveryStarterStarts`), a registrar gets through unless startup has succeeded (`RegistrarSettles`) |
| `app_start` | 2 or 3 applications, 2 modules, 2 databases, 2 pools, 1 state manager, about a thousand configurations | modules get their database (`DbBinding`), state managers find their redis (`SessionRedisReady`), configurations are there (`ConfigReady`), holders are filled, mounts follow |
| `module_db_name` | the binding configurations | a violation, see below |
| `config_file_name` | the mounting configurations | a violation, see below |
| `lock` | 2 clients, leases of 1 or 2 s, 4 ticks a second, fairness | users own the key and exclude each other, `AddTimeout` never shortens, a crashed holder lets go |
| `endpoints` | 2 endpoints of any of the 5 kinds and both types, all checkers, own handlers and paths, 6 calls | no operation without the right (`NoEffectWithoutRight`); one answer, and a success only for an operation done (`AnswerTellsEffect`); what is served is complete and in one format (`ServedComplete`), under one route (`OneRoute`) |
| `rule_sets` | 3 requests; structs, ids and maps; 2 fields with combined clauses | a quiet cache is complete (`QuietComplete`), a request alone applies all its rules (`AloneComplete`), nobody applies another's (`OnlyItsRules`), nor panics without a reason (`PanicsOnlyUndeclared`) |
| `bad_tag` | a tag with a rule that does not exist | a violation, see below |
| `user_state` | 3 requests, 3 operations among them, 2 users, all three stores | what is set or cleared is what the next request finds, unless requests that write overlap, or one saves a session it could not load (`SeenAsExpected`) |
| `trees` | 4 nodes of 3 ids, parents that come, never come, or are none | children hang under their parents, once and in order (`Linked`), and none is missing from `Build` (`NothingLost`) |
| `records` | 3 rows, 1 client and the walk, pages of 1 and 2 | a walk misses no row that stays and returns none twice while none joins (`WalkComplete`); deleted rows are not listed (`DeletedStayHidden`) |
| `helpers` | 2 callers, expiry of 3 ticks; 3 messages; arrays of up to 2 of 8 strings | a key is called missing only if it was (`EmptyWasMissing`), what was returned stays (`RefreshedStays`); a code is reported as it is (`OwnVerdict`), no success is made up (`SuccessWasSaid`); which arrays survive their column (`StringsSurvive`) |

The bounds and why they are enough:

- Three starters are the least for which a stable insertion between two others
  happens, and with two priorities all the orders occur; `Init` ranges over every
  assignment of priorities. Two listeners make order and "late" tell. Listeners are
  symmetric, starters are not (their order is what is checked). What holds for
  three starters and one registrar is proved for any number.
- `MaxTtl` bounds only how far `AddTimeout` extends a lease. Four ticks a second
  make the rounding of a half tell, and two clients meet in every way; the proofs
  are for any number of clients and any length of a second.
- The configurations of `app_start` are three families, each of which
  varies what its properties depend on and fixes the rest: modules and databases
  (whose file names which database, missing files, an application without a default), sessions
  (pools and stores), and mounting (three applications, every mount tree, missing
  and given files, priorities that contradict the mounting order).
- Two endpoints are enough for one to replace another of its name, to share its
  route, or to be guarded without it. Six calls make two, give one its creator,
  guard and register both, and leave one to do in any place. The program's own
  handlers are for failures in the instance; nothing distinguishes the two setters.
- Three validating requests: one that translates, one that races with it, and one that comes
  later and finds what the two have left.
- Three browser requests: one whose effect is expected, one that overlaps, and one that
  finds the outcome, with one operation each or several in one. `MaxOps` bounds
  the operations of all requests.
- Four nodes make a chain, a family and a second node of an id, in every order.
- Three rows in pages of one and two make first, middle and last pages, full and
  not; a row that joins or leaves shifts the others across the border of a page.
- Three messages: one that leaves a code behind, one whose answer has none, and
  one that comes between. Two callers of a key and `SetKey` of anybody. The
  strings are the empty one, and those with a comma, a brace, or quotes at an end,
  at both and in the middle, alone and in pairs.

`Columns`, `Sender` and `RedisKey` share nothing, so the run `helpers` has the behaviours of
each while the other two stay as they are; `running` says whose it is.

Deadlock is checked in every run: the end of the program is the explicit
stuttering step `Terminated`. A registrar blocked for ever on the mutex is no
deadlock of the program, because `Start` returns; `RegistrarSettles` is the
property about it.

Every property of a passing run has a mutant in `PROJECT.json`: a plausible bug
of the code (`Bug...` operators beside the definition they change) for which
TLC finds that property violated.

## Fairness

`StartController!FairSpec`: `WF_vars(MainStep)`, that is, `startNext` goes on, and
starters and listeners return; and weak fairness of `Enter` for each registrar,
since Go's `sync.Mutex` hands itself to a waiter when it is free (its starvation
mode), and the main goroutine can only take it finitely often. Nothing obliges
the application to register, to call `Start`, or a registrar to call.
`DistLock!FairSpec`: time passes, and redis expires keys with it. No process is
obliged to do anything, least of all to restart.

## Theorems

All are for every value of the constants, from the assumptions named in the
modules: `Priority \subseteq Int`, `None \notin Starter`; `Confs \subseteq Setting`, and
`None` is the name of no application, database, pool, state manager, starter or file; `None \notin Client`,
`Expire \subseteq Nat \ {0}` (redis refuses `EX 0`), `Second \in Nat \ {0}`,
`MaxTtl \in Nat`; for the validator, a struct with fields, `TagChoices \subseteq [Field -> Seq(Clause)]`,
that `DEFAULT` names a rule set of structs, that the rules of ids are rules and the bad ones
are not, and that `None` is no request, rule set, rules or map; for the state stores, that `None`, `Nothing` and `Unknown` are not
among the values; for endpoints, that `None` is none of the values, that the program's
choices are among those the code knows, and `MaxCalls \in Nat`; ids that are positive, and finitely
many of them in `Records`, with a default page size of at
least one; for `RedisKey`, that `None` is none of the values and the empty string is one, and a positive expiry.

**Start controller** (`StartControllerProofs`). `IndInv` is `TypeOK`, `Ledger`,
`QueueOrder`, `NeverRestarted` and `ControlState`. `Ledger` is not inductive
alone: that a popped starter is not among the started needs the array to be
injective, and that `CompleteMeansAll` survives a later `Enter` needs to know that
success left the mutex locked (`outcome = "ok" => mu = "held"`), which is the
forgotten `Unlock` at work. `QueueOrder` is preserved by an insertion because
`InsertPoints` splits the array at a point between priorities
(`EnqueueKeepsOrder`), and the module's first lemmas say what `InsertAt` and
`Append` do to a sequence without repetitions. From it: `TypeCorrect`,
`LedgerBalanced`, `QueueOrdered`, `NoRestart`, `SuccessIsComplete`, and
`Refinement`, `Spec => ImplementsOrder`: the head of the array is the waiting
starter that precedes all others (`HeadComesFirst`), because the array is sorted
and holds exactly those that wait (`WaitingIsQueue`).

`ListenersInOrder` (`NotifiedInOrder`) needs to know where a listener can be:
`ListenerLedger` says that each is with one starter, once, and neither called nor waited
for before that starter has started. The two are inductive together
(`ListenerInv`). The order is stated by `Earlier`, of two listeners at a time, so that nothing
recursive has to be unfolded.

**Applications** (`AppStartProofs`). `IndInv` is the invariant of the controller below,
`SCP!IndInv`, and `AppInv`. `StartControllerProofs` is instantiated as `AppStart`
instantiates `StartController`, and its lemmas are used as they are: every step of
`AppStart` is one of the controller or leaves it alone (`StepOfController`), so that the
controller's part of the invariant needs no second proof, and the theorem
`RunsOnController`, `Spec => SC!Spec`, hands all its theorems on. `AppInv` adds:

- how the stages of `BaseApp.Start` lie in those of the controller (`Stages`), and that only an
  application's priority is ever set (`FixedPriorities`);
- who is registered: an application registers everything that is its own, and nothing of an
  application is registered before it is configured (`Provenance`, with `Registers` for
  what is whose);
- that a mounted application does not start before its master (`AfterMaster`), whatever its priority:
  it is registered by the master's `Start`;
- for modules, that one listens under its own database's name only, and one that still waits for its
  application's database is among the listeners (`Waiting`);
- that holders are filled by the starters, and by nothing else (`Holding`); and
- `RedisBeforeUstm`: when a state manager starts, the redis starters of its application and all its masters
  have. They were registered before it, as `AfterMaster` and `Provenance` say, and are preferred to it; had
  one not started, it would be in the array before the one that was taken (`QueueOrder` of the
  controller).

From it: `TypeCorrect`, `DbBound`, `SessionRedisAlwaysReady`, `ConfigAlwaysReady`,
`HoldersAreFilled` and `MountsAlwaysFollow`. The last two are about a startup that succeeded:
the controller's theorem says that everything registered has started then, and
`Provenance` that everything was registered.

**Distributed lock** (`DistLockProofs`). `IndInv` is `TypeOK`, `UserOwnsKey` and
`SeenBoundsTtl`. `MutualExclusion` is not inductive: it follows from
`UserOwnsKey`, which also speaks of a client whose `SET NX` has succeeded but is not
answered, and of one whose `DEL` is not executed. `ExtensionsExtend` needs
`SeenBoundsTtl`: what a client read before still bounds the rest of the lease up to
half a second when its `SET` arrives, and a second is the least it adds. `KeyOwned` states
`UserOwnsKey` by itself.

**Endpoints** (`EndpointProofs`). `IndInv` is `TypeOK`, `Guarded`, `Pipeline`,
`NoEffectWithoutRight` and `AnswerTellsEffect`. What a request may do follows from
where it stands in `Do`, so `Pipeline` says that `todo` is a rest of its endpoint's stages,
that the right check is behind it when it is no longer the first of them, that
nothing is answered or done before the end, and that there are no requests before the set-up is over; `Guarded` ties the
checkers of what is served to the calls that opened it last, so that an endpoint nobody opened, or that was guarded
again, is refused by its checker or the default of `register`. From it: `TypeCorrect`, `Rights`, `Answers`, for any number of
endpoints, names and calls. Two more invariants say what the builder has to keep for
those it will register: `OneFormat` (an endpoint without handlers of the program's own
has two of one format, or none yet) and `Created` (what is registered has a creator or
needs none). With `IndInv` they give `Served`. `Routed` needs nothing more: a
second registration is refused, and so is a route that is taken.

**Validator** (`ValidatorProofs`). Without the lock next to nothing can be said of
the cache while somebody translates: rule sets are replaced by empty ones, and written to after they were
replaced. What holds nevertheless is `Converging`: for every rule set in the cache
and every last clause about one of its fields (`Final`), the rules are there or some request is
about to write them to this very map (`Pending`). It is kept for three reasons, which are parts of `IndInv`:

- `FirstUse`: a request makes a new map only at its first call about a rule set, because the cache
  never loses one. So whoever replaces a map has all its calls still ahead, and will write
  everything there;
- `Ahead`: calls are made in order, so an earlier clause that overwrites a later one is
  followed by the later one of the same request;
- `Pointers`: a request writes to maps made for the rule set its call is about, and no other.

`Sourced` says that nothing is in a map that no clause gives to its rule set, and `Undisturbed` that
a request that nobody disturbed ranges over the cached map from the first entry to the last.
When nobody translates nothing is pending, so `Converging` and `Sourced` make the cached rule sets those of the tags
(`QuietIsAlwaysComplete`); for a request alone, `Undisturbed` makes it so when its loop
ends (`AloneIsAlwaysComplete`). `AppliesOnlyItsRules` follows from `Sourced`, `PanicsAreDeclared`
from `FirstUse` and `Pointers`. `Complete` speaks of clauses (`Concerns`), not of calls: that both mean the same is
`NamesConcerned`, `ConcernCall` and `CompleteCalls`. The numbers of fields, clauses, names and
requests are arbitrary, and tags may be bad.

**State stores** (`UserStateProofs`). `IndInv` is `TypeOK`, `Unpromised`, `Alone` and
`SeenAsExpected`. What the next request finds changes when an answer is delivered,
so one has to know beforehand what the answer will leave behind: `Alone` says that a
request no writer has overlapped with came with the cookie the browser still has,
has the values it may promise (none, if it could not load them), and that the
cookie it leaves (`Left`) leads to what it has promised. It holds for no other request,
which is why the history has to tell them apart. `Unpromised`: without a promise no cookie is
set, so a request that only reads cannot undo anything. From it: `TypeCorrect`,
`StateKept`.

**Trees** (`HelpersProofs`). `IndInv` is `TypeOK`, `Cached` and `Linked`. `Linked` speaks of
nodes that are linked; what waits in the map has to be right before its parent comes, which is
`Cached`: the map holds the first node of each id, and under the ids that are missing the
children so far, in order. `NothingLost` follows from `Linked` alone: if some
nodes were missing from the trees, well-formedness gives one among them whose
parent is not missing, and the parent has it as a child.

**Records** (`RecordsProofs`). `IndInv` is `TypeOK` and `Marked`: a row deleted for good
is marked so, and no client that is not stale holds a bean that says otherwise, which
is what `Update` could write back. From it: `TypeCorrect`, and `Hidden`, an action property of
`Find`. `Walked` (`WalkComplete`) needs an invariant of the walk, `WalkInv`: a row that has not been
returned has a rank beyond the pages that were read, as long as none leaves (`Missing`); one that has
been returned has a rank within them, as long as none joins (`Once`). Rows that join move the others to
greater ranks only, and rows that leave to smaller ones (`RankGrows`); no rank is beyond the last
page that `GetPager` counts (`LastPage`).

**Redis helpers and sender** (`HelpersProofs`). For `RedisKey`, `KeyInv` adds to the
types and `EmptyWasMissing` that a key is there exactly while it has time left (`Lives`), that
nobody expects more time than it has (`Outlives`), and what a caller knows
between its two commands (`GotValue`): `EmptyIsHonest`, `KeyRefreshed`. For `Sender`,
`SendInv` says that an undisturbed code stays in the map until it is looked up
(`OwnCode`), and that "0" is not there unless it was sent (`ZeroSaid`): `VerdictIsOwn`,
`SuccessIsSaid`.

Every invariant and every action property that the runs check is stated by a theorem, and so is
the refinement of `StartOrder`. Only model-checked: the liveness
properties (`EveryStarterStarts`, `RegistrarSettles`, `CrashedLetsGo`), which need fairness and `ENABLED`, and
`StringsSurvive` of `Columns`, a computation on data whose splitting is a fold.

## Where code and documentation disagree

- `module_db_name`: `BaseApp.Start` panics with "no name specified for module or
  app" also when the module does specify a name: the application's own default is
  asked for first.
- `config_file_name`: the comment in `app/app.go` promises a second try with the
  application's name when the given file is missing. The code makes the one or the
  other, never both.
- `bad_tag`: `ValidateStruct` panics over a tag whose rules it cannot translate, and
  says so in two messages, but only the first request meets the panic. Those after it find the part of
  the rules that was cached before, and validate against that.

## What is left out

- Drivers, network and files: redis (in `DistLock`) is modelled by what the code
  relies on, a database or pool by its name, a configuration by what it says.
- `HtmlTemplateStarter` does not implement `Starter` and cannot be registered.
- `web/rpc_endpoint.go`, the copy of the endpoints for the build tag `consul`: it uses a
  package `common` that it does not import, and does not compile.
- `hasRight` and `path` of an endpoint, which are never called; conflicts of wildcard routes
  inside gin; the predicates of the validation rules.
- Of `module.go`, `Alias` and the extra conditions of a query, which only narrow it; of
  `domain.go`, results, the JSON and date types and `Int64Array`: each converts one
  value and keeps no state.
- `DbBinding` does not cover modules that name another database than their application: they are
  bound by the application's name all the same, of which the repository does not say what it should be.
- `HoldersFilled` does not cover web applications whose configuration names no state manager:
  `ManageUserState` panics in them.
- An `AddTimeout` in the last half second of a lease returns nil and extends nothing. The model
  has it, and its callers then overrun their lease if they go on; no property calls it an error.
- What becomes of a lock once a caller has outlived its lease or repeated an `Unlock`.
- Two more hazards without a property: which `StateBuilder` counts when applications share a
  state manager, of which the repository does not say what it should be; and
  numbers in claims that come back as `float64`, since a user is an opaque value here.
- Interceptors and the cross-origin middleware, one check each;
  `ManageUserState`, which installs what `UserState` models.
- Mounted applications that the program also registers itself (a duplicate name,
  which panics), and clustered databases whose engine is nil.
- Formatting, printing and logging throughout.

## Plan

Done: the core of the system first (`StartOrder`, `StartController`, `AppStart`, `DistLock`,
`Endpoint`, `Validator`, `UserState`), then what serves one request at a time
(`Records`, `Trees`, `Columns`, `Sender`, `RedisKey`), and the proofs named above, which leave
no checked invariant unproved. Next, in this order:

1. `DistLock` with commands that are delayed beyond the caller's error, and what is left of `UserOwnsKey` then.
2. An abstract specification of the rule set cache (a rule set is absent, in the making, or complete) that
   `Validator` implements for requests that are not disturbed, from `IndInv`.
3. The step invariants of `Records` for walks in another order than that of ids.
