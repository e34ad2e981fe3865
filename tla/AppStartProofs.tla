----------------------------- MODULE AppStartProofs -----------------------------
(***************************************************************************)
(* For every set of applications, modules and connections and every        *)
(* configuration of them: the starters of package app take no step the     *)
(* start controller does not take, and the invariants of AppStart.         *)
(***************************************************************************)
EXTENDS AppStart, SequenceTheorems, TLAPS

\* The theorems of StartControllerProofs about the controller below.
SCP == INSTANCE StartControllerProofs WITH
           Priority <- Int, Listener <- {}, Registrar <- {}

-----------------------------------------------------------------------------
(***************************************************************************)
(* The inductive invariant                                                 *)
(***************************************************************************)

\* The starters that are registered, or about to be.
Known == ToSet(registered) \cup ToSet(todo)

\* Whether BaseApp.Start of a registers s.
Registers(a, s) ==
    \/ s \in {<<a, "DB">>, <<a, "REDIS">>}
    \/ \E b \in ToSet(mounts[a]) : s = AppOf(b)
    \/ a \in conf.web /\ s = <<a, "USTM">>

\* How the stages of BaseApp.Start lie in those of the controller.
Stages ==
    /\ pc = "setup" => started = {}
    /\ stage = "begin" => todo = <<>>
    /\ stage = "registering" => pc = "starting" /\ cur \in App \X {"APP"}
    /\ why # "" => ~SC!Running \/ outcome = "error"

\* Only the priority of an application is ever set.
FixedPriorities ==
    \A s \in Starter : s[2] # "APP" => prio[s] = StarterPriority(s)

\* Master() and Mounts are two views of one relation.
MountsAgree ==
    /\ \A a \in App : master[a] # None => a \in ToSet(mounts[master[a]])
    /\ \A m \in App : \A a \in ToSet(mounts[m]) : master[a] = m

\* A starter is registered by the application it belongs to, a mounted
\* application by its master, when that one's configuration is read; and an
\* application registers everything that is its own.
Provenance ==
    /\ \A a \in App : AppOf(a) \in Known /\ master[a] # None
                        => Configured(master[a])
    /\ \A a \in App, k \in {"DB", "REDIS", "USTM"} :
          <<a, k>> \in Known => Configured(a)
    /\ \A a \in App, s \in Starter :
          Configured(a) /\ Registers(a, s) => s \in Known

\* A mounted application does not start before its master has.
AfterMaster ==
    \A a \in App : AppOf(a) \in started \cup {cur} /\ master[a] # None
                     => AppOf(master[a]) \in started

\* What a configured application has.
Configurations ==
    \A a \in App : Configured(a) =>
        /\ config[a] # None
        /\ ModulesOf(a) # {} => conf.appDb[a] # None

\* A module listens under its own name and no other, from the configuration
\* of its application on; until then it has no engine. One that waits for the
\* database of its application is not forgotten.
Waiting ==
    /\ \A d \in Db : \A m \in dbListeners[d] :
          LET a == conf.owner[m]
          IN  a \in App /\ Configured(a) /\ d = NameOf(a, m)
    /\ \A m \in Module : ~Configured(conf.owner[m]) => engine[m] = None
    /\ \A m \in Module :
          LET a == conf.owner[m]
              d == conf.appDb[a]
          IN  Configured(a) /\ conf.moduleDb[m] \in {None, d}
                            /\ d \notin connected
                => m \in dbListeners[d]

\* An application holds what its configuration names as soon as the starter
\* has started, and nothing before.
Holding ==
    /\ \A a \in App :
          IF <<a, "REDIS">> \in started
          THEN redisOf[a] = conf.appRedis[a] /\ redisOf[a] \in pools \cup {None}
          ELSE redisOf[a] = None
    /\ \A a \in App :
          managerOf[a] = IF <<a, "USTM">> \in started THEN conf.appUstm[a]
                         ELSE None

\* By the time a state manager starts, the redis starters it may need are
\* through: they are registered before it and preferred to it.
RedisBeforeUstm ==
    \A a \in App : pc = "starting" /\ cur = <<a, "USTM">> =>
        \A b \in {a} \cup Masters(a) : <<b, "REDIS">> \in started

\* An answer "no redis" comes from a state manager's starter, and Start is
\* about to return it.
NoRedisAnswer == why = "no redis" => cur \in App \X {"USTM"}

AppInv ==
    /\ TypeOK
    /\ conf \in Setting
    /\ Stages
    /\ FixedPriorities
    /\ MountsAgree
    /\ Provenance
    /\ AfterMaster
    /\ Configurations
    /\ Waiting
    /\ DbBinding
    /\ Holding
    /\ RedisBeforeUstm
    /\ NoRedisAnswer
    /\ SessionRedisReady
    /\ ConfigReady

-----------------------------------------------------------------------------
(***************************************************************************)
(* The controller below                                                    *)
(***************************************************************************)

USE NoneIsNoName

\* SC and SCP instantiate the same definitions.
LEMMA SameController ==
    /\ SC!Init <=> SCP!Init
    /\ SC!TypeOK <=> SCP!TypeOK
    /\ SC!Next <=> SCP!Next
    /\ SC!vars = SCP!vars
<1>1. SC!Init <=> SCP!Init
  BY DEF SC!Init, SCP!Init
<1>2. SC!TypeOK <=> SCP!TypeOK
  BY DEF SC!TypeOK, SCP!TypeOK
<1>3. \A s : SC!Register(s) <=> SCP!Register(s)
  BY DEF SC!Register, SCP!Register, SC!Enqueue, SCP!Enqueue,
         SC!RejectDuplicate, SCP!RejectDuplicate, SC!InsertPoints,
         SCP!InsertPoints, SC!ToSet, SCP!ToSet, SC!InsertAt, SCP!InsertAt
<1>4. \A s : SC!MainRegister(s) <=> SCP!MainRegister(s)
  BY <1>3 DEF SC!MainRegister, SCP!MainRegister, SC!Running, SCP!Running,
              SC!InUserCode, SCP!InUserCode, SC!mainVars, SCP!mainVars,
              SC!listenerVars, SCP!listenerVars
<1>5. \A s, p : SC!SetPriority(s, p) <=> SCP!SetPriority(s, p)
  BY DEF SC!SetPriority, SCP!SetPriority, SC!Running, SCP!Running,
         SC!InUserCode, SCP!InUserCode, SC!mainVars, SCP!mainVars,
         SC!listenerVars, SCP!listenerVars, SC!ToSet, SCP!ToSet
<1>6. /\ SC!Panic <=> SCP!Panic
      /\ SC!Start <=> SCP!Start
      /\ SC!UseAfterStart <=> SCP!UseAfterStart
  BY DEF SC!Panic, SCP!Panic, SC!Start, SCP!Start, SC!UseAfterStart,
         SCP!UseAfterStart, SC!Running, SCP!Running, SC!InUserCode,
         SCP!InUserCode, SC!mainVars, SCP!mainVars, SC!listenerVars,
         SCP!listenerVars
<1>7. SC!vars = SCP!vars
  BY DEF SC!vars, SCP!vars
<1>8. SC!Terminated <=> SCP!Terminated
  BY DEF SC!Terminated, SCP!Terminated, SC!Running, SCP!Running, SC!vars,
         SCP!vars
<1>9. /\ SC!StartNext <=> SCP!StartNext
      /\ SC!StartNextEmpty <=> SCP!StartNextEmpty
      /\ SC!StartReturns <=> SCP!StartReturns
      /\ SC!StartFails <=> SCP!StartFails
      /\ SC!Notified <=> SCP!Notified
      /\ SC!Exit <=> SCP!Exit
  BY DEF SC!StartNext, SCP!StartNext, SC!StartNextEmpty, SCP!StartNextEmpty,
         SC!StartReturns, SCP!StartReturns, SC!StartFails, SCP!StartFails,
         SC!Notified, SCP!Notified, SC!Exit, SCP!Exit, SC!Running, SCP!Running,
         SC!listenerVars, SCP!listenerVars
<1>10. /\ SC!ListenerReturns <=> SCP!ListenerReturns
       /\ SC!ListenerFails <=> SCP!ListenerFails
  BY DEF SC!ListenerReturns, SCP!ListenerReturns, SC!ListenerFails,
         SCP!ListenerFails, SC!Running, SCP!Running, SC!listenerVars,
         SCP!listenerVars
<1>11. SC!MainStep <=> SCP!MainStep
  BY <1>9, <1>10 DEF SC!MainStep, SCP!MainStep
<1>12. SC!Next <=> SCP!Next
  BY <1>4, <1>5, <1>6, <1>8, <1>11 DEF SC!Next, SCP!Next
<1> QED
  BY <1>1, <1>2, <1>7, <1>12

\* What StartControllerProofs knows of the state of the controller.
LEMMA ControllerFacts ==
    ASSUME SCP!IndInv
    PROVE  /\ SC!TypeOK
           /\ registered \in Seq(Starter) /\ queue \in Seq(Starter)
           /\ prio \in [Starter -> Int] /\ started \subseteq Starter
           /\ cur \in Starter \cup {None}
           /\ pc \in {"setup", "next", "starting", "notifying", "exit",
                      "returned"}
           /\ pc = "starting" => cur # None /\ cur \notin started
           /\ pc \in {"setup", "next"} => cur = None
           /\ pc \in {"exit", "returned"} <=> outcome # "none"
           /\ ToSet(registered)
                = ToSet(queue) \cup started \cup ({cur} \ {None})
           /\ IsInjective(queue)
           /\ \A i, j \in DOMAIN queue :
                 i < j => prio[queue[i]] >= prio[queue[j]]
           /\ outcome = "ok" => ToSet(registered) \subseteq started
<1>1. SCP!TypeOK /\ SCP!ControlState /\ SCP!Ledger /\ SCP!QueueOrder
  BY DEF SCP!IndInv
<1>2. SC!TypeOK
  BY <1>1, SameController
<1>3. /\ registered \in Seq(Starter) /\ queue \in Seq(Starter)
      /\ prio \in [Starter -> Int] /\ started \subseteq Starter
      /\ cur \in Starter \cup {None}
      /\ pc \in {"setup", "next", "starting", "notifying", "exit", "returned"}
      /\ pc = "starting" => cur # None
  BY <1>1 DEF SCP!TypeOK
<1>4. /\ pc \in {"setup", "next"} => cur = None
      /\ pc \in {"exit", "returned"} <=> outcome # "none"
      /\ outcome = "ok" => queue = <<>> /\ cur = None
  BY <1>1 DEF SCP!ControlState
<1>5. /\ ToSet(registered) = ToSet(queue) \cup started \cup ({cur} \ {None})
      /\ pc = "starting" => cur \notin started
      /\ IsInjective(queue)
  BY <1>1 DEF SCP!Ledger, SCP!ToSet, ToSet, SCP!IsInjective, IsInjective
<1>6. ASSUME NEW i \in DOMAIN queue, NEW j \in DOMAIN queue, i < j
      PROVE  prio[queue[i]] >= prio[queue[j]]
  <2>1. queue[i] \in Starter /\ queue[j] \in Starter
    BY <1>3, LenProperties, ElementOfSeq
  <2>2. prio[queue[i]] \in Int /\ prio[queue[j]] \in Int
    BY <2>1, <1>3
  <2> QED
    BY <2>2, <1>1, <1>6 DEF SCP!QueueOrder
<1>7. outcome = "ok" => ToSet(registered) \subseteq started
  <2>1. ToSet(<<>>) = {}
    BY DEF ToSet
  <2> QED
    BY <2>1, <1>4, <1>5
<1> QED
  BY <1>2, <1>3, <1>4, <1>5, <1>6, <1>7

\* What register does, seen from here: the starter is registered afterwards,
\* or was before and the program has panicked.
LEMMA RegisterEffect ==
    ASSUME registered \in Seq(Starter), NEW s \in Starter, SC!MainRegister(s)
    PROVE  /\ ToSet(registered') = ToSet(registered) \cup {s}
           /\ pc \in {"setup", "starting", "notifying"}
           /\ UNCHANGED <<started, pc, cur, outcome, prio>>
           /\ SC!Running
<1>1. /\ SC!Enqueue(s) \/ SC!RejectDuplicate(s)
      /\ UNCHANGED <<started, pc, cur, outcome, prio>>
      /\ pc \in {"setup", "starting", "notifying"} /\ SC!Running
  BY DEF SC!MainRegister, SC!Register, SC!mainVars, SC!InUserCode
<1>2. ToSet(registered') = ToSet(registered) \cup {s}
  <2>1. CASE SC!Enqueue(s)
    BY <2>1, SCP!AppendNew DEF SC!Enqueue, SCP!ToSet, ToSet
  <2>2. CASE SC!RejectDuplicate(s)
    BY <2>2 DEF SC!RejectDuplicate, SC!ToSet, ToSet
  <2> QED
    BY <2>1, <2>2, <1>1
<1> QED
  BY <1>1, <1>2

\* Every step of the applications and their starters is a step of the
\* controller, or none of its business.
LEMMA StepOfController ==
    ASSUME TypeOK, prio \in [Starter -> Int], [Next]_vars
    PROVE  [SC!Next]_(SC!vars)
<1>1. CASE RegisterLog
  <2>1. Log \in Starter
    BY DEF Log, Starter
  <2> QED
    BY <1>1, <2>1 DEF RegisterLog, SC!Next
<1>2. ASSUME NEW m \in App, NEW a \in App, Mount(m, a) PROVE SC!Next
  <2>1. AppOf(a) \in Starter /\ AppOf(m) \in Starter
    BY DEF AppOf, Starter
  <2> DEFINE p == IF prio[AppOf(a)] > prio[AppOf(m)] THEN prio[AppOf(m)] - 1
                  ELSE prio[AppOf(a)]
  <2>2. p \in Int
    BY <2>1
  <2>3. SC!SetPriority(AppOf(a), p)
    BY <1>2 DEF Mount
  <2> HIDE DEF p
  <2> QED
    BY <2>1, <2>2, <2>3 DEF SC!Next
<1>3. ASSUME NEW a \in App, RegisterApp(a) PROVE SC!Next
  <2>1. AppOf(a) \in Starter
    BY DEF AppOf, Starter
  <2> QED
    BY <1>3, <2>1 DEF RegisterApp, SC!Next
<1>4. CASE RegisterNext
  <2>1. todo \in Seq(Starter) /\ todo # <<>>
    BY <1>4 DEF TypeOK, RegisterNext
  <2>2. Head(todo) \in Starter
    BY <2>1, HeadTailProperties
  <2> QED
    BY <1>4, <2>2 DEF RegisterNext, SC!Next
<1>5. ASSUME NEW a \in App,
             StartApp(a) \/ StartDb(a) \/ StartRedis(a) \/ StartUstm(a)
      PROVE  SC!Next \/ UNCHANGED SC!vars
  <2>1. SC!StartReturns \/ SC!StartFails \/ SC!Panic \/ UNCHANGED scVars
    <3>1. CASE StartApp(a)
      BY <3>1 DEF StartApp, MasterConfigFails, ConfigPanics,
                  SubscriptionFails, NoDbNamePanics, Configure
    <3>2. CASE StartDb(a)
      BY <3>2 DEF StartDb, MustGetPanics
    <3>3. CASE StartRedis(a)
      BY <3>3 DEF StartRedis, MustGetPanics
    <3>4. CASE StartUstm(a)
      BY <3>4 DEF StartUstm, MustGetPanics
    <3> QED
      BY <1>5, <3>1, <3>2, <3>3, <3>4
  <2> QED
    BY <2>1 DEF SC!Next, SC!MainStep, SC!vars, scVars
<1>6. CASE Start \/ ControllerStep \/ StartLog \/ AppStarted
  BY <1>6 DEF Start, ControllerStep, StartLog, AppStarted, SC!Next, SC!MainStep
<1>7. CASE Terminated
  BY <1>7 DEF Terminated, SC!Next
<1>8. CASE UNCHANGED vars
  BY <1>8 DEF vars, scVars, SC!vars
<1> QED
  BY <1>1, <1>2, <1>3, <1>4, <1>5, <1>6, <1>7, <1>8 DEF Next

\* So the controller keeps its invariant under them.
LEMMA StepControllerInv ==
    ASSUME SCP!IndInv, TypeOK, [Next]_vars
    PROVE  SCP!IndInv'
<1>1. prio \in [Starter -> Int]
  BY ControllerFacts
<1>2. [SCP!Next]_(SCP!vars)
  BY <1>1, StepOfController, SameController DEF SC!vars, SCP!vars
<1> QED
  BY <1>2, SCP!StepIndInv

LEMMA InitControllerInv == Init => SCP!IndInv
<1>1. Init => SCP!Init
  BY SameController DEF Init
<1> QED
  BY <1>1, SCP!InitIndInv

-----------------------------------------------------------------------------
(***************************************************************************)
(* What BaseApp.Start registers                                            *)
(***************************************************************************)

\* Short sequences and concatenations, as sets.
LEMMA SingletonSet ==
    ASSUME NEW S, NEW e \in S
    PROVE  <<e>> \in Seq(S) /\ ToSet(<<e>>) = {e}
<1>1. <<e>> \in Seq(S) /\ DOMAIN <<e>> = {1} /\ <<e>>[1] = e
  OBVIOUS
<1> QED
  BY <1>1 DEF ToSet

LEMMA PairSet ==
    ASSUME NEW S, NEW e \in S, NEW f \in S
    PROVE  <<e, f>> \in Seq(S) /\ ToSet(<<e, f>>) = {e, f}
<1>1. /\ <<e, f>> \in Seq(S) /\ DOMAIN <<e, f>> = {1, 2}
      /\ <<e, f>>[1] = e /\ <<e, f>>[2] = f
  OBVIOUS
<1> QED
  BY <1>1 DEF ToSet

LEMMA ConcatSet ==
    ASSUME NEW S, NEW q \in Seq(S), NEW r \in Seq(S)
    PROVE  q \o r \in Seq(S) /\ ToSet(q \o r) = ToSet(q) \cup ToSet(r)
<1>1. /\ q \o r \in Seq(S)
      /\ SCP!ToSet(q \o r) = SCP!ToSet(q) \cup SCP!ToSet(r)
  BY SCP!ConcatParts
<1> QED
  BY <1>1 DEF ToSet, SCP!ToSet

LEMMA AppendSet ==
    ASSUME NEW S, NEW q \in Seq(S), NEW e \in S
    PROVE  /\ Append(q, e) \in Seq(S)
           /\ ToSet(Append(q, e)) = ToSet(q) \cup {e}
<1>1. /\ Append(q, e) \in Seq(S)
      /\ SCP!ToSet(Append(q, e)) = SCP!ToSet(q) \cup {e}
  BY SCP!AppendNew
<1> QED
  BY <1>1 DEF ToSet, SCP!ToSet

\* The starters an application registers, as a set.
LEMMA StartersOfSet ==
    ASSUME mounts \in [App -> Seq(App)], NEW a \in App
    PROVE  /\ StartersOf(a) \in Seq(Starter)
           /\ \A s : s \in ToSet(StartersOf(a)) <=> Registers(a, s)
<1> DEFINE own == <<<<a, "DB">>, <<a, "REDIS">>>>
           apps == [i \in DOMAIN mounts[a] |-> AppOf(mounts[a][i])]
           ustm == IF a \in conf.web THEN <<<<a, "USTM">>>> ELSE <<>>
<1>1. mounts[a] \in Seq(App)
  OBVIOUS
<1>2. DOMAIN mounts[a] = 1 .. Len(mounts[a]) /\ Len(mounts[a]) \in Nat
  BY <1>1, LenProperties
<1>3. \A i \in DOMAIN mounts[a] : mounts[a][i] \in App
  BY <1>1, <1>2, ElementOfSeq
<1>4. own \in Seq(Starter) /\ ToSet(own) = {<<a, "DB">>, <<a, "REDIS">>}
  <2>1. <<a, "DB">> \in Starter /\ <<a, "REDIS">> \in Starter
    BY DEF Starter
  <2> QED
    BY <2>1, PairSet
<1>5. apps \in Seq(Starter)
  <2>1. apps \in [1 .. Len(mounts[a]) -> Starter]
    BY <1>2, <1>3 DEF AppOf, Starter
  <2> QED
    BY <2>1, <1>2
<1>6. ToSet(apps) = {AppOf(b) : b \in ToSet(mounts[a])}
  BY DEF ToSet
<1>7. /\ ustm \in Seq(Starter)
      /\ \A s : s \in ToSet(ustm) <=> a \in conf.web /\ s = <<a, "USTM">>
  <2>1. <<a, "USTM">> \in Starter
    BY DEF Starter
  <2>2. <<>> \in Seq(Starter) /\ ToSet(<<>>) = {}
    BY DEF ToSet
  <2>3. CASE a \in conf.web
    <3>1. ustm = <<<<a, "USTM">>>>
      BY <2>3
    <3>2. ustm \in Seq(Starter) /\ ToSet(ustm) = {<<a, "USTM">>}
      BY <2>1, <3>1, SingletonSet
    <3> HIDE DEF ustm
    <3> QED
      BY <2>3, <3>2
  <2>4. CASE a \notin conf.web
    BY <2>2, <2>4
  <2> QED
    BY <2>3, <2>4
<1>8. StartersOf(a) = own \o apps \o ustm
  BY DEF StartersOf
<1> HIDE DEF own, apps, ustm
<1>9. /\ own \o apps \in Seq(Starter)
      /\ ToSet(own \o apps) = ToSet(own) \cup ToSet(apps)
  BY <1>4, <1>5, ConcatSet
<1> DEFINE first == own \o apps
<1>10. first \in Seq(Starter) /\ ToSet(first) = ToSet(own) \cup ToSet(apps)
  BY <1>9 DEF first
<1>11. ustm \in Seq(Starter)
  BY <1>7
<1> HIDE DEF first
<1>12. /\ first \o ustm \in Seq(Starter)
       /\ ToSet(first \o ustm) = ToSet(first) \cup ToSet(ustm)
  BY <1>10, <1>11, ConcatSet
<1> QED
  BY <1>4, <1>6, <1>7, <1>8, <1>10, <1>12 DEF first, Registers

-----------------------------------------------------------------------------
(***************************************************************************)
(* The inductive invariant holds                                           *)
(***************************************************************************)

IndInv == SCP!IndInv /\ AppInv

USE ConfsAssumption

\* What sets no priority but that of an application keeps them as they are.
LEMMA PrioritiesKept ==
    ASSUME FixedPriorities, UNCHANGED conf,
           \A s \in Starter : s[2] # "APP" => prio'[s] = prio[s]
    PROVE  FixedPriorities'
<1>1. \A s \in Starter : StarterPriority(s)' = StarterPriority(s)
  BY DEF StarterPriority
<1> QED
  BY <1>1 DEF FixedPriorities

LEMMA InitIndInv == Init => IndInv
<1> SUFFICES ASSUME Init PROVE IndInv
  OBVIOUS
<1>1. SCP!IndInv
  BY InitControllerInv
<1>2. /\ pc = "setup" /\ cur = None /\ started = {} /\ registered = <<>>
      /\ outcome = "none"
  BY DEF Init, SC!Init
<1>3. ToSet(<<>>) = {}
  BY DEF ToSet
<1>4. Known = {}
  BY <1>2, <1>3 DEF Init, Known
<1>5. \A a : ~Configured(a)
  BY <1>2 DEF Init, Configured
<1>6. TypeOK
  <2>1. SC!TypeOK
    BY <1>1, ControllerFacts
  <2>2. <<>> \in Seq(App) /\ <<>> \in Seq(Starter)
    OBVIOUS
  <2> QED
    BY <2>1, <2>2 DEF Init, TypeOK
<1>7. conf \in Setting
  BY DEF Init
<1>8. Stages /\ FixedPriorities
  BY <1>2 DEF Init, Stages, FixedPriorities
<1>9. MountsAgree
  BY <1>3 DEF Init, MountsAgree
<1>10. Provenance /\ AfterMaster /\ Configurations
  BY <1>4, <1>5 DEF Init, Provenance, AfterMaster, Configurations
<1>11. Waiting /\ DbBinding
  BY <1>5 DEF Init, Waiting, DbBinding
<1>12. Holding
  BY <1>2 DEF Init, Holding
<1>13. RedisBeforeUstm
  BY <1>2 DEF RedisBeforeUstm
<1>14. NoRedisAnswer /\ SessionRedisReady /\ ConfigReady
  BY DEF Init, NoRedisAnswer, SessionRedisReady, ConfigReady
<1> QED
  BY <1>1, <1>6, <1>7, <1>8, <1>9, <1>10, <1>11, <1>12, <1>13, <1>14
     DEF IndInv, AppInv

\* Nothing has gone wrong while the main goroutine runs.
LEMMA NothingWrong ==
    ASSUME IndInv, SC!Running, pc \notin {"exit", "returned"}
    PROVE  why = ""
<1>1. outcome = "none"
  BY ControllerFacts DEF IndInv
<1> QED
  BY <1>1 DEF IndInv, AppInv, Stages

\* A step of the controller alone, between two starters.
LEMMA QuietStep ==
    ASSUME IndInv, stage = "begin",
           UNCHANGED <<appVars, registered, prio, started>>,
           why = "" \/ cur' = cur,
           SC!TypeOK', Stages', AfterMaster', RedisBeforeUstm'
    PROVE  AppInv'
<1>1. UNCHANGED <<conf, master, mounts, stage, todo, why, config, connected,
                  pools, managers, dbListeners, engine, redisOf, managerOf>>
  BY DEF appVars, topology, context, holders
<1> USE DEF IndInv, AppInv
<1>2. TypeOK'
  BY <1>1 DEF TypeOK
<1>3. FixedPriorities' /\ MountsAgree'
  BY <1>1 DEF FixedPriorities, MountsAgree, StarterPriority
<1>4. \A a : Configured(a)' <=> Configured(a)
  BY <1>1 DEF Configured
<1>5. Known' = Known
  BY <1>1 DEF Known, ToSet
<1>6. Provenance'
  BY <1>1, <1>4, <1>5 DEF Provenance, Registers, AppOf
<1>7. Configurations' /\ DbBinding'
  BY <1>1, <1>4 DEF Configurations, DbBinding, ModulesOf
<1>8. Waiting'
  BY <1>1, <1>4 DEF Waiting, NameOf
<1>9. Holding'
  BY <1>1 DEF Holding
<1>10. NoRedisAnswer' /\ SessionRedisReady' /\ ConfigReady'
  BY <1>1 DEF NoRedisAnswer, SessionRedisReady, ConfigReady, Masters
<1> QED
  BY <1>1, <1>2, <1>3, <1>6, <1>7, <1>8, <1>9, <1>10

\* The set-up registers the log, or an application that is not mounted.
LEMMA SetupRegisters ==
    ASSUME IndInv, pc = "setup", NEW s \in Starter, SC!MainRegister(s),
           s[2] \in {"APP", "LOG"}, UNCHANGED appVars,
           \A a \in App : s = AppOf(a) => master[a] = None,
           SC!TypeOK'
    PROVE  AppInv'
<1>1. /\ ToSet(registered') = ToSet(registered) \cup {s}
      /\ UNCHANGED <<started, pc, cur, outcome, prio>>
      /\ SC!Running
  BY RegisterEffect, ControllerFacts DEF IndInv
<1>2. why = ""
  BY <1>1, NothingWrong
<1>3. cur = None /\ started = {} /\ todo = <<>> /\ stage = "begin"
  BY ControllerFacts DEF IndInv, AppInv, Stages, TypeOK
<1>4. UNCHANGED <<conf, master, mounts, stage, todo, why, config, connected,
                  pools, managers, dbListeners, engine, redisOf, managerOf>>
  BY DEF appVars, topology, context, holders
<1> USE DEF IndInv, AppInv
<1>5. TypeOK'
  BY <1>3, <1>4 DEF TypeOK
<1>6. Stages' /\ FixedPriorities' /\ MountsAgree'
  <2>1. Stages'
    BY <1>1, <1>2, <1>3, <1>4 DEF Stages
  <2>2. FixedPriorities'
    BY <1>1, <1>4, PrioritiesKept
  <2>3. MountsAgree'
    BY <1>4 DEF MountsAgree
  <2> QED
    BY <2>1, <2>2, <2>3
<1>7. \A a : ~Configured(a) /\ ~Configured(a)'
  BY <1>1, <1>3, <1>4 DEF Configured
<1>8. Provenance'
  <2>1. Known' = Known \cup {s}
    BY <1>1, <1>4 DEF Known, ToSet
  <2>2. \A a \in App, k \in {"DB", "REDIS", "USTM"} : <<a, k>> # s
    OBVIOUS
  <2> QED
    BY <1>4, <1>7, <2>1, <2>2 DEF Provenance, AppOf
<1>9. Configurations' /\ DbBinding'
  BY <1>7 DEF Configurations, DbBinding
<1>10. Waiting'
  BY <1>4, <1>7 DEF Waiting
<1>11. Holding' /\ RedisBeforeUstm' /\ AfterMaster'
  BY <1>1, <1>3, <1>4 DEF Holding, RedisBeforeUstm, AfterMaster, AppOf
<1>12. NoRedisAnswer' /\ SessionRedisReady' /\ ConfigReady'
  BY <1>2, <1>4 DEF NoRedisAnswer, SessionRedisReady, ConfigReady
<1> QED
  BY <1>4, <1>5, <1>6, <1>8, <1>9, <1>10, <1>11, <1>12

LEMMA RegisterLogInv == ASSUME IndInv, RegisterLog, SC!TypeOK' PROVE AppInv'
<1>1. Log \in Starter /\ Log[2] = "LOG"
  BY DEF Log, Starter
<1>2. \A a \in App : Log # AppOf(a)
  BY DEF Log, AppOf
<1>3. registered = <<>> /\ SC!MainRegister(Log) /\ UNCHANGED appVars
  BY DEF RegisterLog
<1>4. pc = "setup"
  <2>1. ToSet(registered) = {}
    BY <1>3 DEF ToSet
  <2>2. pc \in {"setup", "starting", "notifying"}
    BY <1>1, <1>3, RegisterEffect, ControllerFacts DEF IndInv
  <2>3. cur \in started \/ pc # "notifying"
    BY DEF IndInv, SCP!IndInv, SCP!ControlState
  <2> QED
    BY <2>1, <2>2, <2>3, ControllerFacts DEF IndInv
<1> QED
  BY <1>1, <1>2, <1>3, <1>4, SetupRegisters

LEMMA RegisterAppInv ==
    ASSUME IndInv, NEW a \in App, RegisterApp(a), SC!TypeOK' PROVE AppInv'
<1>1. AppOf(a) \in Starter /\ AppOf(a)[2] = "APP"
  BY DEF AppOf, Starter
<1>2. \A b \in App : AppOf(a) = AppOf(b) => master[b] = None
  BY DEF AppOf, RegisterApp
<1> QED
  BY <1>1, <1>2, SetupRegisters DEF RegisterApp, InSetup

LEMMA StartInv == ASSUME IndInv, Start, SC!TypeOK' PROVE AppInv'
<1>1. /\ pc = "setup" /\ pc' = "next" /\ SC!Running
      /\ UNCHANGED <<registered, prio, started, cur, outcome, crash>>
      /\ UNCHANGED appVars
  BY DEF Start, SC!Start
<1>2. why = "" /\ UNCHANGED <<stage, todo, master, why>>
  BY <1>1, NothingWrong DEF appVars, topology
<1>3. stage = "begin"
  BY <1>1 DEF IndInv, AppInv, Stages, TypeOK
<1>4. Stages' /\ AfterMaster' /\ RedisBeforeUstm'
  BY <1>1, <1>2, <1>3
     DEF IndInv, AppInv, Stages, AfterMaster, RedisBeforeUstm, AppOf
<1> QED
  BY <1>1, <1>2, <1>3, <1>4, QuietStep

\* Mounting touches nothing but the two applications and the priority of the
\* mounted one.
LEMMA MountInv ==
    ASSUME IndInv, NEW m \in App, NEW a \in App, Mount(m, a), SC!TypeOK'
    PROVE  AppInv'
<1>1. /\ pc = "setup" /\ SC!Running /\ master[a] = None /\ m # a
      /\ master' = [master EXCEPT ![a] = m]
      /\ mounts' = [mounts EXCEPT ![m] = Append(@, a)]
      /\ AppOf(a) \notin ToSet(registered)
      /\ UNCHANGED <<registered, started, pc, cur, outcome, crash>>
      /\ UNCHANGED <<conf, stage, todo, why, config, connected, pools,
                     managers, dbListeners, engine, redisOf, managerOf>>
  BY DEF Mount, InSetup, SC!SetPriority, SC!mainVars, SC!ToSet, ToSet,
         context, holders
<1>2. \A s \in Starter : s # AppOf(a) => prio'[s] = prio[s]
  BY ControllerFacts DEF IndInv, Mount, SC!SetPriority
<1>3. why = ""
  BY <1>1, NothingWrong
<1>4. cur = None /\ started = {} /\ todo = <<>> /\ stage = "begin"
  BY <1>1, ControllerFacts DEF IndInv, AppInv, Stages, TypeOK
<1> USE DEF IndInv, AppInv
<1>5. /\ master \in [App -> App \cup {None}] /\ mounts \in [App -> Seq(App)]
      /\ mounts[m] \in Seq(App)
  BY DEF TypeOK
<1>6. /\ Append(mounts[m], a) \in Seq(App)
      /\ ToSet(Append(mounts[m], a)) = ToSet(mounts[m]) \cup {a}
  BY <1>5, AppendSet
<1>7. TypeOK'
  BY <1>1, <1>4, <1>5, <1>6 DEF TypeOK
<1>8. Stages'
  BY <1>1, <1>3, <1>4 DEF Stages
<1>9. FixedPriorities'
  <2>1. \A s \in Starter : s[2] # "APP" => prio'[s] = prio[s]
    BY <1>2 DEF AppOf
  <2> QED
    BY <1>1, <2>1, PrioritiesKept
<1>10. MountsAgree'
  <2>1. \A b \in App : /\ master'[b] = IF b = a THEN m ELSE master[b]
                       /\ mounts'[b] = IF b = m THEN Append(mounts[m], a)
                                       ELSE mounts[b]
    BY <1>1, <1>5
  <2>2. a \notin UNION {ToSet(mounts[b]) : b \in App}
    BY <1>1 DEF MountsAgree
  <2>3. m # None /\ \A b \in App : ToSet(mounts[b]) \subseteq App
    BY <1>5, LenProperties, ElementOfSeq DEF ToSet
  <2>4. \A b \in App : master'[b] # None => b \in ToSet(mounts'[master'[b]])
    BY <2>1, <1>1, <1>5, <1>6 DEF MountsAgree
  <2>5. \A n \in App : \A b \in ToSet(mounts'[n]) : master'[b] = n
    BY <2>1, <2>2, <2>3, <1>1, <1>5, <1>6 DEF MountsAgree
  <2> QED
    BY <2>4, <2>5 DEF MountsAgree
<1>11. \A b : ~Configured(b) /\ ~Configured(b)'
  BY <1>1, <1>4 DEF Configured
<1>12. Provenance'
  <2>1. ToSet(todo) = {}
    BY <1>4 DEF ToSet
  <2>2. Known' = Known /\ AppOf(a) \notin Known
    BY <1>1, <2>1 DEF Known
  <2> QED
    BY <1>1, <1>5, <1>11, <2>2 DEF Provenance
<1>13. Configurations' /\ DbBinding'
  BY <1>11 DEF Configurations, DbBinding
<1>14. Waiting'
  BY <1>1, <1>11 DEF Waiting
<1>15. Holding' /\ RedisBeforeUstm' /\ AfterMaster'
  <2>1. \A b \in App : AppOf(b) # None
    BY DEF AppOf, Starter
  <2> QED
    BY <1>1, <1>4, <2>1 DEF Holding, RedisBeforeUstm, AfterMaster
<1>16. NoRedisAnswer' /\ SessionRedisReady' /\ ConfigReady'
  BY <1>1, <1>3 DEF NoRedisAnswer, SessionRedisReady, ConfigReady
<1> QED
  BY <1>1, <1>7, <1>8, <1>9, <1>10, <1>12, <1>13, <1>14, <1>15, <1>16

\* Once an application has started, those it is mounted on have.
LEMMA MastersStarted ==
    ASSUME IndInv, NEW a \in App, AppOf(a) \in started \cup {cur},
           NEW b \in Masters(a)
    PROVE  AppOf(b) \in started
<1> DEFINE S == {c \in App : AppOf(c) \in started}
<1>1. \A c \in S \cup {a} : master[c] \in S \cup {None}
  BY DEF IndInv, AppInv, TypeOK, AfterMaster
<1>2. b \in S
  BY <1>1 DEF Masters
<1> QED
  BY <1>2

\* When startNext pops the starter of a state manager, the array holds
\* nothing that is preferred to it: no redis starter.
LEMMA RedisFirst ==
    ASSUME IndInv, SC!StartNext, NEW a \in App, Head(queue) = <<a, "USTM">>,
           NEW b \in {a} \cup Masters(a)
    PROVE  <<b, "REDIS">> \in started
<1>1. /\ pc = "next" /\ queue # <<>> /\ queue \in Seq(Starter)
      /\ cur = None /\ Head(queue) = queue[1]
      /\ ToSet(registered) = ToSet(queue) \cup started
      /\ \A i, j \in DOMAIN queue :
            i < j => prio[queue[i]] >= prio[queue[j]]
  BY ControllerFacts DEF IndInv, SC!StartNext
<1>2. stage = "begin" /\ todo = <<>>
  BY <1>1 DEF IndInv, AppInv, Stages, TypeOK
<1>3. ToSet(todo) = {}
  BY <1>2 DEF ToSet
<1>4. Known = ToSet(queue) \cup started
  BY <1>1, <1>3 DEF Known
<1>5. DOMAIN queue = 1 .. Len(queue) /\ Len(queue) \in Nat \ {0}
  BY <1>1, LenProperties, EmptySeq
<1>6. <<a, "USTM">> \in Known
  BY <1>1, <1>4, <1>5 DEF ToSet
<1>7. Configured(a)
  BY <1>6 DEF IndInv, AppInv, Provenance
<1>8. AppOf(a) \in started
  BY <1>2, <1>7 DEF Configured
<1>9. b \in App /\ AppOf(b) \in started
  BY <1>8, MastersStarted DEF Masters
<1>10. <<b, "REDIS">> \in Starter /\ <<a, "USTM">> \in Starter
  BY <1>9 DEF Starter
<1>11. <<b, "REDIS">> \in Known
  BY <1>9, <1>10 DEF Configured, IndInv, AppInv, Provenance, Registers
<1>12. <<b, "REDIS">> \notin ToSet(queue)
  <2> SUFFICES ASSUME NEW j \in DOMAIN queue, queue[j] = <<b, "REDIS">>
               PROVE  FALSE
    BY DEF ToSet
  <2>1. prio[<<b, "REDIS">>] = 600 /\ prio[<<a, "USTM">>] = 300
    <3>1. /\ StarterPriority(<<b, "REDIS">>) = 600
          /\ StarterPriority(<<a, "USTM">>) = 300
      BY DEF StarterPriority
    <3> QED
      BY <1>10, <3>1 DEF IndInv, AppInv, FixedPriorities
  <2>2. j # 1
    BY <1>1
  <2>3. prio[queue[1]] >= prio[queue[j]]
    <3>1. 1 \in DOMAIN queue /\ 1 < j
      BY <1>5, <2>2
    <3>2. \A i, k \in DOMAIN queue :
                i < k => prio[queue[i]] >= prio[queue[k]]
      BY <1>1
    <3> QED
      BY ONLY <3>1, <3>2
  <2>4. queue[1] = <<a, "USTM">>
    BY <1>1
  <2> QED
    BY <2>1, <2>3, <2>4
<1> QED
  BY <1>4, <1>11, <1>12

\* The controller pops a starter, finds none, ends one or ends.
LEMMA ControllerStepInv ==
    ASSUME IndInv, ControllerStep, SC!TypeOK' PROVE AppInv'
<1>1. UNCHANGED appVars
  BY DEF ControllerStep
<1>2. UNCHANGED <<conf, topology, stage, todo, why>>
  BY <1>1 DEF appVars
<1>3. CASE SC!StartNext
  <2>1. /\ pc = "next" /\ SC!Running /\ cur' = Head(queue) /\ queue # <<>>
        /\ UNCHANGED <<registered, prio, started, outcome>>
        /\ pc' \in {"next", "starting"}
        /\ pc' = "next" => crash' = "restarted"
    BY <1>3 DEF SC!StartNext
  <2>2. why = "" /\ stage = "begin" /\ cur = None
    BY <2>1, NothingWrong, ControllerFacts DEF IndInv, AppInv, Stages, TypeOK
  <2>3. Stages'
    BY <1>2, <2>1, <2>2 DEF IndInv, AppInv, Stages
  <2>4. AfterMaster'
    <3> SUFFICES ASSUME NEW a \in App, AppOf(a) \in started \cup {Head(queue)},
                        master[a] # None
                 PROVE  AppOf(master[a]) \in started
      BY <1>2, <2>1 DEF AfterMaster, topology, AppOf
    <3>1. queue \in Seq(Starter)
      BY ControllerFacts DEF IndInv
    <3>2. DOMAIN queue = 1 .. Len(queue) /\ Len(queue) \in Nat \ {0}
      BY <2>1, <3>1, LenProperties, EmptySeq
    <3>3. Head(queue) = queue[1] /\ Head(queue) \in ToSet(queue)
      BY <2>1, <3>1, <3>2 DEF ToSet
    <3>4. AppOf(a) \in Known
      BY <3>3, ControllerFacts DEF IndInv, Known
    <3>5. Configured(master[a])
      BY <3>4 DEF IndInv, AppInv, Provenance
    <3> QED
      BY <2>2, <3>5 DEF Configured
  <2>5. RedisBeforeUstm'
    <3> SUFFICES ASSUME NEW a \in App, Head(queue) = <<a, "USTM">>,
                        NEW b \in {a} \cup Masters(a)
                 PROVE  <<b, "REDIS">> \in started
      BY <1>2, <2>1 DEF RedisBeforeUstm, Masters, topology
    <3> QED
      BY <1>3, RedisFirst
  <2> QED
    BY <1>1, <2>1, <2>2, <2>3, <2>4, <2>5, QuietStep
<1>4. CASE SC!StartNextEmpty \/ SC!Notified
  <2>1. /\ pc \in {"next", "notifying"} /\ SC!Running
        /\ cur' = None /\ pc' \in {"next", "exit"}
        /\ UNCHANGED <<registered, prio, started>>
    BY <1>4, ControllerFacts DEF IndInv, SC!StartNextEmpty, SC!Notified
  <2>2. why = "" /\ stage = "begin"
    BY <2>1, NothingWrong DEF IndInv, AppInv, Stages, TypeOK
  <2>3. Stages' /\ RedisBeforeUstm'
    BY <1>2, <2>1, <2>2 DEF IndInv, AppInv, Stages, RedisBeforeUstm
  <2>4. AfterMaster'
    <3>1. \A b \in App : AppOf(b) # None
      BY DEF AppOf, Starter
    <3> QED
      BY <1>2, <2>1, <3>1 DEF IndInv, AppInv, AfterMaster, topology
  <2> QED
    BY <1>1, <2>1, <2>2, <2>3, <2>4, QuietStep
<1>5. CASE SC!Exit
  <2>1. /\ pc = "exit" /\ pc' = "returned"
        /\ UNCHANGED <<registered, prio, started, cur, outcome, crash>>
    BY <1>5 DEF SC!Exit
  <2>2. stage = "begin"
    BY <2>1 DEF IndInv, AppInv, Stages, TypeOK
  <2>3. Stages' /\ RedisBeforeUstm' /\ AfterMaster'
    BY <1>2, <2>1, <2>2
       DEF IndInv, AppInv, Stages, RedisBeforeUstm, AfterMaster, topology,
           SC!Running, AppOf
  <2> QED
    BY <1>1, <2>1, <2>2, <2>3, QuietStep
<1> QED
  BY <1>3, <1>4, <1>5 DEF ControllerStep

\* What the end of a starter's Start leaves alone, whichever way it ends.
LEMMA StarterEnds ==
    ASSUME IndInv, pc = "starting", stage = "begin",
           SC!StartReturns \/ SC!StartFails \/ SC!Panic,
           SC!StartReturns => cur \notin App \X {"APP"} /\ why' = why,
           UNCHANGED <<conf, topology, stage, todo>>
    PROVE  /\ why = "" /\ cur \in Starter \cap Known /\ cur \notin started
           /\ cur' = cur
           /\ started' = IF SC!StartReturns THEN started \cup {cur} ELSE started
           /\ \A a : Configured(a)' <=> Configured(a)
           /\ Stages' /\ FixedPriorities' /\ MountsAgree' /\ Provenance'
           /\ AfterMaster' /\ RedisBeforeUstm'
<1>1. /\ SC!Running /\ UNCHANGED <<registered, prio, cur>>
      /\ SC!StartReturns => started' = started \cup {cur} /\ pc' = "notifying"
      /\ SC!StartFails => started' = started /\ outcome' = "error"
                          /\ pc' = "exit"
      /\ SC!Panic => UNCHANGED <<started, pc>> /\ crash' = "user"
  BY DEF SC!StartReturns, SC!StartFails, SC!Panic, SC!listenerVars, SC!mainVars
<1>2. /\ why = "" /\ todo = <<>>
      /\ UNCHANGED <<conf, master, mounts, stage, todo>>
  BY <1>1, NothingWrong DEF IndInv, AppInv, Stages, topology
<1>3. cur \in Starter /\ cur \in Known /\ cur \notin started
  BY ControllerFacts DEF IndInv, Known
<1>4. started' = IF SC!StartReturns THEN started \cup {cur} ELSE started
  BY <1>1
<1>5. \A a : Configured(a)' <=> Configured(a)
  <2>1. \A a : SC!StartReturns => cur # AppOf(a)
    BY <1>3 DEF AppOf, Starter
  <2> QED
    BY <1>1, <1>2, <1>4, <2>1 DEF Configured
<1> USE DEF IndInv, AppInv
<1>6. Stages'
  BY <1>1, <1>2 DEF Stages, SC!Running
<1>7. FixedPriorities' /\ MountsAgree'
  BY <1>1, <1>2 DEF FixedPriorities, MountsAgree, StarterPriority
<1>8. Provenance'
  <2>1. Known' = Known
    BY <1>1, <1>2 DEF Known
  <2> QED
    BY <1>2, <1>5, <2>1 DEF Provenance, Registers
<1>9. AfterMaster'
  BY <1>1, <1>2, <1>4 DEF AfterMaster
<1>10. RedisBeforeUstm'
  BY <1>1, <1>2, <1>4 DEF RedisBeforeUstm, Masters
<1> QED
  BY <1>1, <1>2, <1>3, <1>4, <1>5, <1>6, <1>7, <1>8, <1>9, <1>10

LEMMA LoadedType ==
    ASSUME TypeOK, NEW a \in App PROVE Loaded(a) \in File \cup {None}
<1>1. FileTried(a) \in File
  BY DEF FileTried, File
<1> QED
  BY <1>1 DEF Loaded, TypeOK

\* BaseApp.Start fails or panics before it registers anything. The
\* configuration of the master it may fall back on is there.
LEMMA StartAppEnds ==
    ASSUME IndInv, NEW a \in App, Begins(AppOf(a)), SC!TypeOK',
           \/ MasterConfigFails(a) \/ ConfigPanics(a)
           \/ SubscriptionFails(a) \/ NoDbNamePanics(a)
    PROVE  AppInv'
<1>1. /\ pc = "starting" /\ cur = AppOf(a) /\ stage = "begin"
      /\ SC!StartFails \/ SC!Panic
      /\ UNCHANGED <<conf, topology, stage, todo, connected, pools, managers,
                     holders>>
  BY DEF Begins, MasterConfigFails, ConfigPanics, SubscriptionFails,
         NoDbNamePanics, context
<1>2. ~SC!StartReturns
  BY <1>1, ControllerFacts
     DEF IndInv, SC!StartReturns, SC!StartFails, SC!Panic, SC!mainVars
<1>3. /\ why = "" /\ AppOf(a) \in Known /\ AppOf(a) \notin started
      /\ cur' = cur /\ started' = started
      /\ \A b : Configured(b)' <=> Configured(b)
      /\ Stages' /\ FixedPriorities' /\ MountsAgree' /\ Provenance'
      /\ AfterMaster' /\ RedisBeforeUstm'
  BY <1>1, <1>2, StarterEnds
<1>4. UNCHANGED <<conf, master, mounts, stage, todo, connected, pools, managers,
                  dbListeners, engine, redisOf, managerOf>>
  BY <1>1 DEF topology, holders
<1> USE DEF IndInv, AppInv
<1>5. /\ config' \in [App -> File \cup {None}]
      /\ \A b \in App : config[b] # None => config'[b] # None
  <2>1. \/ config' = config
        \/ Loaded(a) # None /\ config' = [config EXCEPT ![a] = Loaded(a)]
    BY DEF MasterConfigFails, ConfigPanics, SubscriptionFails, NoDbNamePanics,
           context
  <2>2. Loaded(a) \in File \cup {None}
    BY LoadedType
  <2>3. config \in [App -> File \cup {None}]
    BY DEF TypeOK
  <2> QED
    BY <2>1, <2>2, <2>3
<1>6. why' \notin {"no config", "no redis"}
  <2>1. ASSUME ConfigPanics(a), master[a] # None PROVE FALSE
    <3>1. Configured(master[a]) /\ master[a] \in App
      BY <1>3, <2>1 DEF Provenance, TypeOK
    <3>2. config[master[a]] # None
      BY <3>1 DEF Configurations
    <3>3. FileTried(a) # None
      BY DEF FileTried, File
    <3> QED
      BY <2>1, <3>2, <3>3 DEF ConfigPanics, Loaded
  <2> QED
    BY <2>1 DEF MasterConfigFails, ConfigPanics, SubscriptionFails,
                NoDbNamePanics
<1>7. TypeOK'
  BY <1>1, <1>4, <1>5 DEF TypeOK
<1>8. Configurations'
  BY <1>3, <1>4, <1>5 DEF Configurations, ModulesOf
<1>9. Waiting' /\ DbBinding'
  BY <1>3, <1>4 DEF Waiting, DbBinding, NameOf
<1>10. Holding'
  BY <1>3, <1>4 DEF Holding
<1>11. NoRedisAnswer' /\ SessionRedisReady' /\ ConfigReady'
  BY <1>6 DEF NoRedisAnswer, SessionRedisReady, ConfigReady
<1> QED
  BY <1>3, <1>4, <1>7, <1>8, <1>9, <1>10, <1>11

LEMMA StartLogInv == ASSUME IndInv, StartLog, SC!TypeOK' PROVE AppInv'
<1>1. /\ pc = "starting" /\ cur = Log /\ stage = "begin"
      /\ SC!StartReturns \/ SC!StartFails
      /\ SC!StartReturns => why' = why \/ why' = "log"
      /\ why' = why \/ why' = "log"
      /\ SC!StartReturns \/ why' = "log"
      /\ UNCHANGED <<conf, topology, stage, todo, context, holders>>
  BY DEF Begins, StartLog
<1>2. SC!StartReturns => why' = why
  BY DEF StartLog, SC!StartReturns, SC!StartFails
<1>3. cur \notin App \X {"APP"}
  BY <1>1 DEF Log
<1>4. /\ why = "" /\ cur' = cur
      /\ started' = IF SC!StartReturns THEN started \cup {cur} ELSE started
      /\ \A b : Configured(b)' <=> Configured(b)
      /\ Stages' /\ FixedPriorities' /\ MountsAgree' /\ Provenance'
      /\ AfterMaster' /\ RedisBeforeUstm'
  BY <1>1, <1>2, <1>3, StarterEnds
<1>5. UNCHANGED <<conf, master, mounts, stage, todo, config, connected, pools,
                  managers, dbListeners, engine, redisOf, managerOf>>
  BY <1>1 DEF topology, context, holders
<1> USE DEF IndInv, AppInv
<1>6. TypeOK'
  BY <1>1, <1>5 DEF TypeOK
<1>7. Configurations' /\ Waiting' /\ DbBinding'
  BY <1>4, <1>5 DEF Configurations, ModulesOf, Waiting, DbBinding, NameOf
<1>8. Holding'
  <2>1. \A a, k : k # "LOG" => cur # <<a, k>>
    BY <1>1 DEF Log
  <2> QED
    BY <1>4, <1>5, <2>1 DEF Holding
<1>9. NoRedisAnswer' /\ SessionRedisReady' /\ ConfigReady'
  BY <1>1, <1>4 DEF NoRedisAnswer, SessionRedisReady, ConfigReady
<1> QED
  BY <1>4, <1>5, <1>6, <1>7, <1>8, <1>9

\* BaseApp.Start reads its configuration and goes through its modules. What
\* it is about to register is known from here on.
LEMMA ConfigureInv ==
    ASSUME IndInv, NEW a \in App, Begins(AppOf(a)), Configure(a), SC!TypeOK'
    PROVE  AppInv'
<1>1. /\ SC!Running /\ pc = "starting" /\ cur = AppOf(a) /\ stage = "begin"
      /\ stage' = "registering" /\ todo' = StartersOf(a)
      /\ Loaded(a) # None /\ config' = [config EXCEPT ![a] = Loaded(a)]
      /\ ModulesOf(a) = {} \/ conf.appDb[a] # None
      /\ UNCHANGED <<registered, prio, started, pc, cur, outcome, crash>>
      /\ UNCHANGED <<conf, master, mounts, why, connected, pools, managers,
                     redisOf, managerOf>>
  BY DEF Begins, Configure, scVars, topology
<1> USE DEF IndInv, AppInv
<1>2. AppOf(a) \in Known /\ AppOf(a) \notin started /\ todo = <<>>
  BY <1>1, ControllerFacts DEF Known, Stages
<1>3. /\ ~Configured(a)
      /\ \A b : Configured(b)' <=> Configured(b) \/ b = a
  BY <1>1, <1>2 DEF Configured, AppOf
<1>4. /\ config \in [App -> File \cup {None}] /\ mounts \in [App -> Seq(App)]
      /\ master \in [App -> App \cup {None}]
      /\ dbListeners \in [Db -> SUBSET Module] /\ connected \subseteq Db
      /\ engine \in [Module -> Db \cup {None}]
  BY DEF TypeOK
<1>5. /\ conf.owner \in [Module -> App \cup {None}]
      /\ conf.appDb \in [App -> Db \cup {None}]
  BY DEF Setting
<1>6. /\ StartersOf(a) \in Seq(Starter)
      /\ \A s : s \in ToSet(StartersOf(a)) <=> Registers(a, s)
  BY <1>4, StartersOfSet
<1>7. \A s : s \in Known' <=> s \in Known \/ Registers(a, s)
  <2>1. ToSet(todo) = {}
    BY <1>2 DEF ToSet
  <2> QED
    BY <1>1, <1>6, <2>1 DEF Known
<1>8. Loaded(a) \in File
  BY <1>1, LoadedType
<1>9. Stages' /\ FixedPriorities' /\ MountsAgree'
  BY <1>1 DEF Stages, FixedPriorities, MountsAgree, StarterPriority, AppOf,
              SC!Running
<1>10. Provenance'
  <2>1. \A b \in App : AppOf(b) \in Known' /\ master[b] # None
                          => Configured(master[b])'
    <3> SUFFICES ASSUME NEW b \in App, AppOf(b) \in Known', master[b] # None
                 PROVE  Configured(master[b])'
      OBVIOUS
    <3>1. CASE AppOf(b) \in Known
      BY <3>1, <1>1, <1>3 DEF Provenance
    <3>2. CASE Registers(a, AppOf(b))
      <4>1. b \in ToSet(mounts[a])
        BY <3>2 DEF Registers, AppOf
      <4> QED
        BY <4>1, <1>1, <1>3 DEF MountsAgree
    <3> QED
      BY <3>1, <3>2, <1>7
  <2>2. \A b \in App, k \in {"DB", "REDIS", "USTM"} :
           <<b, k>> \in Known' => Configured(b)'
    <3> SUFFICES ASSUME NEW b \in App, NEW k \in {"DB", "REDIS", "USTM"},
                        <<b, k>> \in Known'
                 PROVE  Configured(b)'
      OBVIOUS
    <3>1. CASE <<b, k>> \in Known
      BY <3>1, <1>3 DEF Provenance
    <3>2. CASE Registers(a, <<b, k>>)
      BY <3>2, <1>3 DEF Registers, AppOf
    <3> QED
      BY <3>1, <3>2, <1>7
  <2>3. \A b \in App, s \in Starter :
           Configured(b)' /\ Registers(b, s) => s \in Known'
    BY <1>3, <1>7 DEF Provenance
  <2>4. \A b, s : Registers(b, s)' <=> Registers(b, s)
    BY <1>1 DEF Registers
  <2> QED
    BY <1>1, <2>1, <2>2, <2>3, <2>4 DEF Provenance
<1>11. AfterMaster'
  BY <1>1 DEF AfterMaster
<1>12. Configurations'
  BY <1>1, <1>3, <1>4, <1>8 DEF Configurations, ModulesOf
<1>13. Holding' /\ RedisBeforeUstm'
  BY <1>1 DEF Holding, RedisBeforeUstm, Masters
<1>14. NoRedisAnswer' /\ SessionRedisReady' /\ ConfigReady'
  <2>1. why = ""
    BY <1>1, NothingWrong
  <2> QED
    BY <1>1, <2>1 DEF NoRedisAnswer, SessionRedisReady, ConfigReady
<1> DEFINE d == conf.appDb[a]
<1>15. CASE d \in connected
  <2>1. /\ dbListeners' = dbListeners
        /\ engine' = [m \in Module |-> IF m \in ModulesOf(a) THEN d
                                       ELSE engine[m]]
    BY <1>15 DEF Configure, BindModules
  <2>2. \A m \in Module :
           engine'[m] = IF conf.owner[m] = a THEN d ELSE engine[m]
    BY <2>1 DEF ModulesOf
  <2>3. Waiting'
    BY <1>1, <1>3, <1>5, <1>15, <2>1, <2>2 DEF Waiting, NameOf
  <2>4. DbBinding'
    BY <1>1, <1>3, <1>5, <1>15, <2>2 DEF DbBinding
  <2>5. TypeOK'
    BY <1>1, <1>4, <1>6, <1>8, <1>15, <2>1 DEF TypeOK, AppOf
  <2> QED
    BY <1>1, <1>9, <1>10, <1>11, <1>12, <1>13, <1>14, <2>3, <2>4, <2>5
<1>16. CASE d \notin connected
  <2>1. /\ engine' = engine
        /\ dbListeners' = [e \in Db |-> dbListeners[e] \cup
                              {m \in ModulesOf(a) : NameOf(a, m) = e}]
    BY <1>16 DEF Configure, BindModules
  <2>2. \A e \in Db, m \in Module :
           m \in dbListeners'[e] <=>
              m \in dbListeners[e] \/ (conf.owner[m] = a /\ NameOf(a, m) = e)
    BY <2>1 DEF ModulesOf
  <2>3. \A e \in Db : dbListeners'[e] \subseteq Module
    BY <1>4, <2>1 DEF ModulesOf
  <2>4. \A b, m : NameOf(b, m)' = NameOf(b, m)
    BY <1>1 DEF NameOf
  <2>5. Waiting'
    <3> DEFINE isConfigured(b) == Configured(b) \/ b = a
    <3>1. ASSUME NEW e \in Db, NEW m \in dbListeners'[e]
          PROVE  /\ conf.owner[m] \in App /\ isConfigured(conf.owner[m])
                 /\ e = NameOf(conf.owner[m], m)
      BY <3>1, <2>2, <2>3 DEF Waiting
    <3>2. ASSUME NEW m \in Module, ~isConfigured(conf.owner[m])
          PROVE  engine'[m] = None
      BY <3>2, <2>1 DEF Waiting
    <3>3. ASSUME NEW m \in Module, isConfigured(conf.owner[m]),
                 conf.moduleDb[m] \in {None, conf.appDb[conf.owner[m]]},
                 conf.appDb[conf.owner[m]] \notin connected
          PROVE  m \in dbListeners'[conf.appDb[conf.owner[m]]]
      <4>1. CASE conf.owner[m] = a
        <5>1. d # None
          BY <4>1, <1>1 DEF ModulesOf
        <5>2. d \in Db /\ NameOf(a, m) = d
          BY <5>1, <3>3, <4>1, <1>5 DEF NameOf
        <5> QED
          BY <4>1, <5>2, <2>2
      <4>2. CASE conf.owner[m] # a
        <5>1. m \in dbListeners[conf.appDb[conf.owner[m]]]
          BY <3>3, <4>2 DEF Waiting
        <5>2. conf.owner[m] \in App
          <6>1. AppOf(None) \notin Starter
            BY DEF AppOf, Starter
          <6>2. ~Configured(None)
            BY <1>1, <6>1, ControllerFacts DEF Configured
          <6> QED
            BY <6>2, <3>3, <4>2, <1>5
        <5>3. conf.appDb[conf.owner[m]] \in Db
          <6>1. conf.appDb[conf.owner[m]] # None
            BY <5>2, <3>3, <4>2 DEF Configurations, ModulesOf
          <6> QED
            BY <5>2, <6>1, <1>5
        <5> QED
          BY <5>1, <5>3, <2>2
      <4> QED
        BY <4>1, <4>2
    <3>4. \A b : isConfigured(b) <=>
                    \/ AppOf(b) \in started'
                    \/ cur' = AppOf(b) /\ stage' = "registering"
      BY <1>3 DEF Configured, AppOf
    <3> HIDE DEF isConfigured
    <3> QED
      BY <1>1, <2>4, <3>1, <3>2, <3>3, <3>4 DEF Waiting, Configured
  <2>6. DbBinding'
    BY <1>1, <1>3, <1>16, <2>1 DEF DbBinding, Waiting
  <2>7. dbListeners' \in [Db -> SUBSET Module]
    BY <2>1, <2>3
  <2>8. TypeOK'
    BY <1>1, <1>4, <1>6, <1>8, <2>1, <2>7 DEF TypeOK, AppOf
  <2> QED
    BY <1>1, <1>9, <1>10, <1>11, <1>12, <1>13, <1>14, <2>5, <2>6, <2>8
<1> QED
  BY <1>15, <1>16

LEMMA HeadTailSet ==
    ASSUME NEW S, NEW q \in Seq(S), q # <<>>
    PROVE  /\ Head(q) \in S /\ Tail(q) \in Seq(S)
           /\ ToSet(q) = {Head(q)} \cup ToSet(Tail(q))
<1>1. /\ Head(q) \in S /\ Head(q) = q[1] /\ Tail(q) \in Seq(S)
      /\ Len(Tail(q)) = Len(q) - 1
      /\ \A i \in 1 .. Len(Tail(q)) : Tail(q)[i] = q[i + 1]
  BY HeadTailProperties
<1>2. DOMAIN q = 1 .. Len(q) /\ Len(q) \in Nat \ {0}
  BY LenProperties, EmptySeq
<1> DEFINE t == Tail(q)
<1>3. /\ DOMAIN t = 1 .. Len(q) - 1
      /\ \A i \in DOMAIN t : i + 1 \in DOMAIN q /\ t[i] = q[i + 1]
  BY <1>1, <1>2, LenProperties
<1> HIDE DEF t
<1>4. ToSet(q) \subseteq {Head(q)} \cup ToSet(t)
  <2> SUFFICES ASSUME NEW i \in DOMAIN q, i # 1 PROVE q[i] \in ToSet(t)
    BY <1>1 DEF ToSet
  <2>1. i - 1 \in DOMAIN t /\ t[i - 1] = q[i]
    BY <1>2, <1>3
  <2> QED
    BY <2>1 DEF ToSet
<1>5. {Head(q)} \cup ToSet(t) \subseteq ToSet(q)
  BY <1>1, <1>2, <1>3 DEF ToSet
<1> QED
  BY <1>1, <1>4, <1>5 DEF t

\* BaseApp.Start registers the next starter: known before, and after.
LEMMA RegisterNextInv == ASSUME IndInv, RegisterNext, SC!TypeOK' PROVE AppInv'
<1> USE DEF IndInv, AppInv
<1>1. /\ stage = "registering" /\ todo # <<>> /\ todo' = Tail(todo)
      /\ SC!MainRegister(Head(todo))
      /\ UNCHANGED <<conf, master, mounts, stage, why, config, connected,
                     pools, managers, dbListeners, engine, redisOf, managerOf>>
  BY DEF RegisterNext, topology, context, holders
<1>2. todo \in Seq(Starter)
  BY DEF TypeOK
<1>3. /\ Head(todo) \in Starter /\ Tail(todo) \in Seq(Starter)
      /\ ToSet(todo) = {Head(todo)} \cup ToSet(Tail(todo))
  BY <1>1, <1>2, HeadTailSet
<1>4. /\ ToSet(registered') = ToSet(registered) \cup {Head(todo)}
      /\ UNCHANGED <<started, pc, cur, outcome, prio>>
      /\ SC!Running
  BY <1>1, <1>3, RegisterEffect, ControllerFacts
<1>5. Known' = Known
  BY <1>1, <1>3, <1>4 DEF Known
<1>6. why = "" /\ pc = "starting" /\ cur \in App \X {"APP"}
  BY <1>1, <1>4, NothingWrong DEF Stages
<1>7. \A b : Configured(b)' <=> Configured(b)
  BY <1>1, <1>4 DEF Configured
<1>8. TypeOK'
  BY <1>1, <1>3, <1>4 DEF TypeOK
<1>9. Stages' /\ FixedPriorities' /\ MountsAgree'
  BY <1>1, <1>4, <1>6
     DEF Stages, FixedPriorities, MountsAgree, StarterPriority
<1>10. Provenance'
  BY <1>1, <1>5, <1>7 DEF Provenance, Registers
<1>11. AfterMaster' /\ RedisBeforeUstm'
  BY <1>1, <1>4 DEF AfterMaster, RedisBeforeUstm, Masters
<1>12. Configurations' /\ Waiting' /\ DbBinding'
  BY <1>1, <1>7 DEF Configurations, ModulesOf, Waiting, DbBinding, NameOf
<1>13. Holding'
  BY <1>1, <1>4 DEF Holding
<1>14. NoRedisAnswer' /\ SessionRedisReady' /\ ConfigReady'
  BY <1>1, <1>6 DEF NoRedisAnswer, SessionRedisReady, ConfigReady
<1> QED
  BY <1>1, <1>8, <1>9, <1>10, <1>11, <1>12, <1>13, <1>14

\* An application is through: configured it stays.
LEMMA AppStartedInv == ASSUME IndInv, AppStarted, SC!TypeOK' PROVE AppInv'
<1> USE DEF IndInv, AppInv
<1>1. /\ stage = "registering" /\ todo = <<>> /\ stage' = "begin"
      /\ SC!Running /\ pc' = "notifying" /\ started' = started \cup {cur}
      /\ UNCHANGED <<registered, prio, cur, outcome, crash>>
      /\ UNCHANGED <<conf, master, mounts, todo, why, config, connected,
                     pools, managers, dbListeners, engine, redisOf, managerOf>>
  BY DEF AppStarted, SC!StartReturns, SC!listenerVars, topology, context,
         holders
<1>2. PICK a \in App : cur = AppOf(a)
  <2>1. cur \in App \X {"APP"}
    BY <1>1 DEF Stages
  <2>2. cur = AppOf(cur[1]) /\ cur[1] \in App
    BY <2>1 DEF AppOf
  <2> QED
    BY <2>2
<1>3. why = "" /\ pc = "starting"
  BY <1>1, NothingWrong DEF Stages
<1>4. Known' = Known
  BY <1>1 DEF Known
<1>5. \A b : Configured(b)' <=> Configured(b)
  BY <1>1, <1>2 DEF Configured, AppOf
<1>6. TypeOK'
  BY <1>1 DEF TypeOK
<1>7. Stages' /\ FixedPriorities' /\ MountsAgree'
  BY <1>1, <1>3 DEF Stages, FixedPriorities, MountsAgree, StarterPriority
<1>8. Provenance'
  BY <1>1, <1>4, <1>5 DEF Provenance, Registers
<1>9. AfterMaster' /\ RedisBeforeUstm'
  BY <1>1 DEF AfterMaster, RedisBeforeUstm
<1>10. Configurations' /\ Waiting' /\ DbBinding'
  BY <1>1, <1>5 DEF Configurations, ModulesOf, Waiting, DbBinding, NameOf
<1>11. Holding'
  <2>1. \A b : cur # <<b, "REDIS">> /\ cur # <<b, "USTM">>
    BY <1>2 DEF AppOf
  <2> QED
    BY <1>1, <2>1 DEF Holding
<1>12. NoRedisAnswer' /\ SessionRedisReady' /\ ConfigReady'
  BY <1>1, <1>3 DEF NoRedisAnswer, SessionRedisReady, ConfigReady
<1> QED
  BY <1>1, <1>6, <1>7, <1>8, <1>9, <1>10, <1>11, <1>12

\* A starter of an application runs when its configuration is there.
LEMMA ConfigIsThere ==
    ASSUME IndInv, NEW a \in App, NEW k \in {"DB", "REDIS", "USTM"},
           <<a, k>> \in Known
    PROVE  config[a] \in File
<1>1. Configured(a)
  BY DEF IndInv, AppInv, Provenance
<1> QED
  BY <1>1 DEF IndInv, AppInv, Configurations, TypeOK

\* Connecting databases nobody has connected: each module that waits for one
\* of them gets that one, under its own name.
LEMMA ConnectBinds ==
    ASSUME IndInv, NEW ds \in SUBSET (Db \ connected), Connect(ds),
           conf' = conf, \A b : Configured(b)' <=> Configured(b)
    PROVE  /\ connected' \subseteq Db
           /\ engine' \in [Module -> Db \cup {None}]
           /\ Waiting' /\ DbBinding'
<1> USE DEF IndInv, AppInv
<1>1. /\ connected' = connected \cup ds /\ dbListeners' = dbListeners
      /\ engine' = [m \in Module |->
                       IF \E d \in ds : m \in dbListeners[d]
                       THEN CHOOSE d \in ds : m \in dbListeners[d]
                       ELSE engine[m]]
  BY DEF Connect
<1>2. /\ connected \subseteq Db /\ engine \in [Module -> Db \cup {None}]
      /\ dbListeners \in [Db -> SUBSET Module]
      /\ conf.owner \in [Module -> App \cup {None}]
      /\ conf.appDb \in [App -> Db \cup {None}]
  BY DEF TypeOK, Setting
<1>3. \A m \in Module, e \in ds : m \in dbListeners[e] =>
         engine'[m] \in ds /\ m \in dbListeners[engine'[m]]
  BY <1>1
<1>4. \A m \in Module :
         (\A e \in ds : m \notin dbListeners[e]) => engine'[m] = engine[m]
  BY <1>1
<1>5. engine' \in [Module -> Db \cup {None}]
  <2>1. \A m \in Module : engine'[m] \in Db \cup {None}
    BY <1>2, <1>3, <1>4
  <2> QED
    BY <1>1, <2>1
<1>6. \A e \in ds : \A m \in dbListeners[e] :
         /\ conf.owner[m] \in App /\ Configured(conf.owner[m])
         /\ e = NameOf(conf.owner[m], m) /\ m \in Module
  BY <1>2 DEF Waiting
<1>7. Waiting'
  <2>1. ASSUME NEW m \in Module, ~Configured(conf.owner[m])
        PROVE  engine'[m] = None
    BY <2>1, <1>4, <1>6 DEF Waiting
  <2> QED
    BY <1>1, <2>1 DEF Waiting, NameOf
<1>8. ASSUME NEW m \in Module, Configured(conf.owner[m]),
             conf.moduleDb[m] \in {None, conf.appDb[conf.owner[m]]}
      PROVE  engine'[m] = IF conf.appDb[conf.owner[m]] \in connected'
                          THEN conf.appDb[conf.owner[m]] ELSE None
  <2> DEFINE d == conf.appDb[conf.owner[m]]
  <2>1. engine[m] = IF d \in connected THEN d ELSE None
    BY <1>8 DEF DbBinding
  <2>2. \A e \in ds : m \in dbListeners[e] => e = d
    BY <1>6, <1>8 DEF NameOf
  <2>3. CASE d \in ds
    <3>1. m \in dbListeners[d]
      BY <2>3, <1>8 DEF Waiting
    <3>2. engine'[m] = d
      BY <2>2, <2>3, <3>1, <1>3
    <3> QED
      BY <2>3, <3>2, <1>1
  <2>4. CASE d \notin ds
    <3>1. engine'[m] = engine[m]
      BY <2>2, <2>4, <1>4
    <3> QED
      BY <2>1, <2>4, <3>1, <1>1
  <2> QED
    BY <2>3, <2>4
<1>9. DbBinding'
  BY <1>8 DEF DbBinding
<1> QED
  BY <1>1, <1>2, <1>5, <1>7, <1>9

\* What a step keeps that neither configures an application nor connects a
\* database.
LEMMA SameBindings ==
    ASSUME IndInv, \A b : Configured(b)' <=> Configured(b),
           UNCHANGED <<conf, config, connected, dbListeners, engine>>
    PROVE  Configurations' /\ Waiting' /\ DbBinding'
<1>1. Configurations'
  BY DEF IndInv, AppInv, Configurations, ModulesOf
<1>2. Waiting'
  BY DEF IndInv, AppInv, Waiting, NameOf
<1>3. DbBinding'
  BY DEF IndInv, AppInv, DbBinding
<1> QED
  BY <1>1, <1>2, <1>3

\* DbStarter.Start connects all that is new, or fails on the way.
LEMMA StartDbInv ==
    ASSUME IndInv, NEW a \in App, StartDb(a), SC!TypeOK' PROVE AppInv'
<1>1. /\ pc = "starting" /\ cur = <<a, "DB">> /\ stage = "begin"
      /\ UNCHANGED <<conf, master, mounts, stage, todo>>
      /\ UNCHANGED <<conf, topology, stage, todo>>
  BY DEF StartDb, Begins, topology
<1>2. cur \in Known
  BY <1>1, ControllerFacts DEF IndInv, Known
<1>3. config[a] \in File /\ config[a] # None
  BY <1>1, <1>2, ConfigIsThere DEF File
<1>4. PICK ds \in SUBSET NewDbs(a) :
         /\ Connect(ds)
         /\ \/ SC!StartReturns /\ why' = why
            \/ (SC!StartFails \/ SC!Panic) /\ why' = "db"
  BY <1>3 DEF StartDb, BuiltBeforeFailure
<1>5. cur \notin App \X {"APP"}
  BY <1>1
<1>6. SC!StartReturns => why' = why
  BY <1>1, <1>4 DEF SC!StartReturns, SC!StartFails, SC!Panic, SC!mainVars
<1>7. /\ why = "" /\ cur' = cur
      /\ started' = IF SC!StartReturns THEN started \cup {cur} ELSE started
      /\ \A b : Configured(b)' <=> Configured(b)
      /\ Stages' /\ FixedPriorities' /\ MountsAgree' /\ Provenance'
      /\ AfterMaster' /\ RedisBeforeUstm'
  BY <1>1, <1>4, <1>5, <1>6, StarterEnds
<1>8. ds \in SUBSET (Db \ connected)
  BY <1>3 DEF IndInv, AppInv, Setting, NewDbs
<1>9. /\ connected' \subseteq Db /\ engine' \in [Module -> Db \cup {None}]
      /\ Waiting' /\ DbBinding'
  BY <1>1, <1>4, <1>7, <1>8, ConnectBinds
<1>10. UNCHANGED <<config, pools, managers, dbListeners, redisOf, managerOf>>
  BY <1>4 DEF Connect
<1> USE DEF IndInv, AppInv
<1>11. TypeOK'
  BY <1>1, <1>9, <1>10 DEF TypeOK
<1>12. Configurations'
  BY <1>1, <1>7, <1>10 DEF Configurations, ModulesOf
<1>13. Holding'
  <2>1. \A b : cur # <<b, "REDIS">> /\ cur # <<b, "USTM">>
    BY <1>1
  <2> QED
    BY <1>1, <1>7, <1>10, <2>1 DEF Holding
<1>14. NoRedisAnswer' /\ SessionRedisReady' /\ ConfigReady'
  BY <1>4, <1>7 DEF NoRedisAnswer, SessionRedisReady, ConfigReady
<1> QED
  BY <1>1, <1>7, <1>9, <1>11, <1>12, <1>13, <1>14

\* RedisStarter.Start gives the application its pool, or fails.
LEMMA StartRedisInv ==
    ASSUME IndInv, NEW a \in App, StartRedis(a), SC!TypeOK' PROVE AppInv'
<1> DEFINE r == conf.appRedis[a]
<1>1. /\ pc = "starting" /\ cur = <<a, "REDIS">> /\ stage = "begin"
      /\ UNCHANGED <<conf, master, mounts, stage, todo>>
      /\ UNCHANGED <<conf, topology, stage, todo>>
  BY DEF StartRedis, Begins, topology
<1>2. cur \in Known
  BY <1>1, ControllerFacts DEF IndInv, Known
<1>3. config[a] \in File /\ config[a] # None
  BY <1>1, <1>2, ConfigIsThere DEF File
<1>4. /\ \/ /\ SC!StartReturns /\ why' = why
            /\ r = None /\ UNCHANGED <<pools, redisOf>>
         \/ /\ SC!StartReturns /\ why' = why
            /\ r # None /\ pools' = pools \cup {r}
            /\ redisOf' = [redisOf EXCEPT ![a] = r]
         \/ /\ SC!StartFails /\ why' = "no redis config"
            /\ UNCHANGED <<pools, redisOf>>
      /\ UNCHANGED <<config, connected, managers, dbListeners, engine,
                     managerOf>>
  BY <1>3 DEF StartRedis
<1>5. SC!StartReturns => cur \notin App \X {"APP"} /\ why' = why
  BY <1>1, <1>4 DEF SC!StartReturns, SC!StartFails
<1>6. /\ why = "" /\ cur' = cur /\ cur \notin started
      /\ started' = IF SC!StartReturns THEN started \cup {cur} ELSE started
      /\ \A b : Configured(b)' <=> Configured(b)
      /\ Stages' /\ FixedPriorities' /\ MountsAgree' /\ Provenance'
      /\ AfterMaster' /\ RedisBeforeUstm'
  BY <1>1, <1>4, <1>5, StarterEnds
<1> USE DEF IndInv, AppInv
<1>7. r \in Redis \cup {None} /\ redisOf \in [App -> Redis \cup {None}]
  BY DEF Setting, TypeOK
<1>8. TypeOK'
  BY <1>1, <1>4, <1>7 DEF TypeOK
<1>9. Configurations' /\ Waiting' /\ DbBinding'
  BY <1>1, <1>4, <1>6, SameBindings
<1>10. Holding'
  <2>1. \A b \in App :
           /\ redisOf'[b] = IF SC!StartReturns /\ b = a THEN r ELSE redisOf[b]
           /\ <<b, "REDIS">> \in started' <=>
                 <<b, "REDIS">> \in started \/ (SC!StartReturns /\ b = a)
           /\ <<b, "USTM">> \in started' <=> <<b, "USTM">> \in started
    <3>1. ~SC!StartReturns \/ ~SC!StartFails
      BY DEF SC!StartReturns, SC!StartFails
    <3>2. redisOf[a] = None
      BY <1>1, <1>6 DEF Holding
    <3> QED
      BY <1>1, <1>4, <1>6, <1>7, <3>1, <3>2
  <2>2. pools \subseteq pools' /\ (SC!StartReturns => r \in pools' \cup {None})
    BY <1>4 DEF SC!StartReturns, SC!StartFails
  <2> QED
    BY <1>1, <1>4, <2>1, <2>2 DEF Holding
<1>11. NoRedisAnswer' /\ SessionRedisReady' /\ ConfigReady'
  BY <1>4, <1>6 DEF NoRedisAnswer, SessionRedisReady, ConfigReady
<1> QED
  BY <1>1, <1>6, <1>8, <1>9, <1>10, <1>11

\* StateManagerStarter.Start gives a web application its state manager, fails
\* or panics. When it misses a redis pool, the pool is of no application that
\* had to be connected first.
LEMMA StartUstmInv ==
    ASSUME IndInv, NEW a \in App, StartUstm(a), SC!TypeOK' PROVE AppInv'
<1> DEFINE u == conf.appUstm[a]
           store == conf.store[config[a]][u]
<1>1. /\ pc = "starting" /\ cur = <<a, "USTM">> /\ stage = "begin"
      /\ UNCHANGED <<conf, master, mounts, stage, todo>>
      /\ UNCHANGED <<conf, topology, stage, todo>>
  BY DEF StartUstm, Begins, topology
<1>2. cur \in Known
  BY <1>1, ControllerFacts DEF IndInv, Known
<1>3. config[a] \in File /\ config[a] # None
  BY <1>1, <1>2, ConfigIsThere DEF File
<1>4. /\ \/ /\ SC!StartReturns /\ why' = why
            /\ u = None /\ UNCHANGED <<managers, managerOf>>
         \/ /\ SC!StartReturns /\ why' = why
            /\ u # None /\ managers' = managers \cup {u}
            /\ managerOf' = [managerOf EXCEPT ![a] = u]
         \/ /\ SC!StartFails \/ SC!Panic
            /\ \/ why' \in {"invalid type", "no store", "nil store"}
               \/ why' = "no redis" /\ StoreResult(a, u) = "no redis"
            /\ UNCHANGED <<managers, managerOf>>
      /\ UNCHANGED <<config, connected, pools, dbListeners, engine, redisOf>>
  BY <1>3 DEF StartUstm
<1>5. ~SC!StartReturns \/ ~(SC!StartFails \/ SC!Panic)
  BY <1>1 DEF SC!StartReturns, SC!StartFails, SC!Panic, SC!mainVars
<1>6. SC!StartReturns => cur \notin App \X {"APP"} /\ why' = why
  BY <1>1, <1>4, <1>5
<1>7. /\ why = "" /\ cur' = cur /\ cur \notin started
      /\ started' = IF SC!StartReturns THEN started \cup {cur} ELSE started
      /\ \A b : Configured(b)' <=> Configured(b)
      /\ Stages' /\ FixedPriorities' /\ MountsAgree' /\ Provenance'
      /\ AfterMaster' /\ RedisBeforeUstm'
  BY <1>1, <1>4, <1>6, StarterEnds
<1> USE DEF IndInv, AppInv
<1>8. u \in Ustm \cup {None} /\ managerOf \in [App -> Ustm \cup {None}]
  BY DEF Setting, TypeOK
<1>9. TypeOK'
  BY <1>1, <1>4, <1>8 DEF TypeOK
<1>10. Configurations' /\ Waiting' /\ DbBinding'
  BY <1>1, <1>4, <1>7, SameBindings
<1>11. Holding'
  <2>1. \A b \in App :
           /\ managerOf'[b] = IF SC!StartReturns /\ b = a THEN u
                              ELSE managerOf[b]
           /\ <<b, "USTM">> \in started' <=>
                 <<b, "USTM">> \in started \/ (SC!StartReturns /\ b = a)
           /\ <<b, "REDIS">> \in started' <=> <<b, "REDIS">> \in started
    <3>1. managerOf[a] = None
      BY <1>1, <1>7 DEF Holding
    <3> QED
      BY <1>1, <1>4, <1>5, <1>7, <1>8, <3>1
  <2> QED
    BY <1>1, <1>4, <2>1 DEF Holding
<1>12. NoRedisAnswer' /\ ConfigReady'
  BY <1>1, <1>4, <1>7 DEF NoRedisAnswer, ConfigReady
<1>13. SessionRedisReady'
  <2> SUFFICES ASSUME StoreResult(a, u) = "no redis",
                      NEW b \in {a} \cup Masters(a)
               PROVE  store # conf.appRedis[b]
    BY <1>1, <1>4, <1>7 DEF SessionRedisReady, Masters
  <2>1. b \in App
    BY DEF Masters
  <2>2. store \in Redis /\ store \notin pools
    BY DEF StoreResult, NewSessionStore
  <2>3. <<b, "REDIS">> \in started
    BY <1>1 DEF RedisBeforeUstm
  <2>4. conf.appRedis[b] \in pools \cup {None}
    BY <2>1, <2>3 DEF Holding
  <2> QED
    BY <2>2, <2>4
<1> QED
  BY <1>1, <1>7, <1>9, <1>10, <1>11, <1>12, <1>13

LEMMA StepIndInv == IndInv /\ [Next]_vars => IndInv'
<1> SUFFICES ASSUME IndInv, [Next]_vars PROVE IndInv'
  OBVIOUS
<1>1. SCP!IndInv'
  BY StepControllerInv DEF IndInv, AppInv
<1>2. SC!TypeOK'
  BY <1>1, SameController DEF SCP!IndInv, SC!TypeOK, SCP!TypeOK
<1>3. CASE RegisterLog
  BY <1>1, <1>2, <1>3, RegisterLogInv DEF IndInv
<1>4. ASSUME NEW m \in App, NEW a \in App, Mount(m, a) PROVE IndInv'
  BY <1>1, <1>2, <1>4, MountInv DEF IndInv
<1>5. ASSUME NEW a \in App, RegisterApp(a) PROVE IndInv'
  BY <1>1, <1>2, <1>5, RegisterAppInv DEF IndInv
<1>6. CASE Start
  BY <1>1, <1>2, <1>6, StartInv DEF IndInv
<1>7. CASE ControllerStep
  BY <1>1, <1>2, <1>7, ControllerStepInv DEF IndInv
<1>8. ASSUME NEW a \in App, StartApp(a) PROVE IndInv'
  <2>1. Begins(AppOf(a))
    BY <1>8 DEF StartApp
  <2>2. CASE Configure(a)
    BY <1>1, <1>2, <2>1, <2>2, ConfigureInv DEF IndInv
  <2>3. CASE \/ MasterConfigFails(a) \/ ConfigPanics(a)
             \/ SubscriptionFails(a) \/ NoDbNamePanics(a)
    BY <1>1, <1>2, <2>1, <2>3, StartAppEnds DEF IndInv
  <2> QED
    BY <1>8, <2>2, <2>3 DEF StartApp
<1>9. ASSUME NEW a \in App, StartDb(a) PROVE IndInv'
  BY <1>1, <1>2, <1>9, StartDbInv DEF IndInv
<1>10. ASSUME NEW a \in App, StartRedis(a) PROVE IndInv'
  BY <1>1, <1>2, <1>10, StartRedisInv DEF IndInv
<1>11. ASSUME NEW a \in App, StartUstm(a) PROVE IndInv'
  BY <1>1, <1>2, <1>11, StartUstmInv DEF IndInv
<1>12. CASE StartLog
  BY <1>1, <1>2, <1>12, StartLogInv DEF IndInv
<1>13. CASE RegisterNext
  BY <1>1, <1>2, <1>13, RegisterNextInv DEF IndInv
<1>14. CASE AppStarted
  BY <1>1, <1>2, <1>14, AppStartedInv DEF IndInv
<1>15. CASE Terminated \/ UNCHANGED vars
  <2>1. UNCHANGED vars
    BY <1>15
       DEF Terminated, SC!Terminated, SC!vars, vars, scVars, appVars
  <2>2. /\ UNCHANGED appVars
        /\ UNCHANGED <<registered, prio, started, cur, pc, outcome, crash>>
    BY <2>1 DEF vars, scVars
  <2>3. UNCHANGED <<conf, master, mounts, stage, todo, why, config, connected,
                    pools, managers, dbListeners, engine, redisOf, managerOf>>
    BY <2>2 DEF appVars, topology, context, holders
  <2> USE DEF IndInv, AppInv
  <2>4. \A b : Configured(b)' <=> Configured(b)
    BY <2>2, <2>3 DEF Configured
  <2>5. TypeOK' /\ Stages'
    BY <1>2, <2>2, <2>3 DEF TypeOK, Stages, SC!Running
  <2>6. FixedPriorities' /\ MountsAgree'
    BY <2>2, <2>3 DEF FixedPriorities, MountsAgree, StarterPriority
  <2>7. Provenance'
    <3>1. Known' = Known
      BY <2>2, <2>3 DEF Known
    <3> QED
      BY <2>3, <2>4, <3>1 DEF Provenance, Registers
  <2>8. AfterMaster' /\ RedisBeforeUstm' /\ Holding'
    BY <2>2, <2>3 DEF AfterMaster, RedisBeforeUstm, Masters, Holding
  <2>9. Configurations' /\ Waiting' /\ DbBinding'
    BY <2>3, <2>4, SameBindings
  <2>10. NoRedisAnswer' /\ SessionRedisReady' /\ ConfigReady'
    BY <2>2, <2>3 DEF NoRedisAnswer, SessionRedisReady, ConfigReady, Masters
  <2> QED
    BY <1>1, <2>3, <2>5, <2>6, <2>7, <2>8, <2>9, <2>10
<1> QED
  BY <1>3, <1>4, <1>5, <1>6, <1>7, <1>8, <1>9, <1>10, <1>11, <1>12, <1>13,
     <1>14, <1>15 DEF Next

\* The inductive invariant holds in every reachable state.
THEOREM AppInvariant == Spec => []IndInv
BY InitIndInv, StepIndInv, PTL DEF Spec

\* Under the applications and their starters the start controller behaves as
\* StartController says, so everything proved of it holds here too.
THEOREM RunsOnController == Spec => SC!Spec
<1>1. Init => SC!Init
  BY DEF Init
<1>2. IndInv /\ [Next]_vars => [SC!Next]_(SC!vars)
  BY StepOfController, ControllerFacts DEF IndInv, AppInv
<1> QED
  BY <1>1, <1>2, AppInvariant, PTL DEF Spec, SC!Spec

\* Every variable of the applications keeps its type.
THEOREM TypeCorrect == Spec => []TypeOK
<1>1. IndInv => TypeOK
  BY DEF IndInv, AppInv
<1> QED
  BY <1>1, AppInvariant, PTL

\* A module gets the engine of its application's database, whichever of the
\* two comes first.
THEOREM DbBound == Spec => []DbBinding
<1>1. IndInv => DbBinding
  BY DEF IndInv, AppInv
<1> QED
  BY <1>1, AppInvariant, PTL

\* No starter of the package runs before the configuration it takes is there.
THEOREM ConfigAlwaysReady == Spec => []ConfigReady
<1>1. IndInv => ConfigReady
  BY DEF IndInv, AppInv
<1> QED
  BY <1>1, AppInvariant, PTL

\* A session store never misses the redis pool of its own application, or of
\* one that is above it.
THEOREM SessionRedisAlwaysReady == Spec => []SessionRedisReady
<1>1. IndInv => SessionRedisReady
  BY DEF IndInv, AppInv
<1> QED
  BY <1>1, AppInvariant, PTL

\* After a successful startup nothing registered is missing, and nothing is
\* on its way.
LEMMA AllStarted ==
    ASSUME IndInv, outcome = "ok", NEW s \in Known
    PROVE  s \in started
<1>1. pc # "starting" /\ ToSet(registered) \subseteq started
  BY ControllerFacts DEF IndInv
<1>2. todo = <<>>
  BY <1>1 DEF IndInv, AppInv, Stages, TypeOK
<1>3. ToSet(todo) = {}
  BY <1>2 DEF ToSet
<1> QED
  BY <1>1, <1>3 DEF Known

\* After a successful startup every application has the redis pool and the
\* state manager its configuration names.
THEOREM HoldersAreFilled == Spec => []HoldersFilled
<1>1. IndInv => HoldersFilled
  <2> SUFFICES ASSUME IndInv, outcome = "ok", NEW a \in App,
                      AppOf(a) \in started
               PROVE  /\ redisOf[a] = conf.appRedis[a]
                      /\ a \in conf.web => managerOf[a] = conf.appUstm[a]
    BY DEF HoldersFilled
  <2>1. Configured(a)
    BY DEF Configured
  <2>2. <<a, "REDIS">> \in Starter /\ <<a, "USTM">> \in Starter
    BY DEF Starter
  <2>3. <<a, "REDIS">> \in Known /\ (a \in conf.web => <<a, "USTM">> \in Known)
    BY <2>1, <2>2 DEF IndInv, AppInv, Provenance, Registers
  <2>4. /\ <<a, "REDIS">> \in started
        /\ a \in conf.web => <<a, "USTM">> \in started
    BY <2>3, AllStarted
  <2> QED
    BY <2>4 DEF IndInv, AppInv, Holding
<1> QED
  BY <1>1, AppInvariant, PTL

\* An application starts with every application mounted on it, and none of
\* those without it.
THEOREM MountsAlwaysFollow == Spec => []MountsFollow
<1>1. IndInv => MountsFollow
  <2> SUFFICES ASSUME IndInv PROVE MountsFollow
    OBVIOUS
  <2>1. \A a \in App : AppOf(a) \in started =>
           \A b \in Masters(a) : AppOf(b) \in started
    BY MastersStarted
  <2>2. ASSUME outcome = "ok", NEW a \in App, NEW b \in Masters(a),
               AppOf(b) \in started, AppOf(a) \notin started
        PROVE  FALSE
    <3> DEFINE S == {c \in App : AppOf(c) \notin started}
    <3>1. ASSUME NEW c \in S \cup {a} PROVE master[c] \in S \cup {None}
      <4>1. c \in App /\ AppOf(c) \notin started
        BY <2>2
      <4>2. master[c] \in App \cup {None}
        BY <4>1 DEF IndInv, AppInv, TypeOK
      <4>3. ASSUME master[c] # None, AppOf(master[c]) \in started
            PROVE  FALSE
        <5>1. Configured(master[c]) /\ c \in ToSet(mounts[master[c]])
          BY <4>1, <4>3 DEF Configured, IndInv, AppInv, MountsAgree
        <5>2. Registers(master[c], AppOf(c)) /\ AppOf(c) \in Starter
          BY <4>1, <5>1 DEF Registers, AppOf, Starter
        <5>3. AppOf(c) \in Known
          BY <4>2, <4>3, <5>1, <5>2 DEF IndInv, AppInv, Provenance
        <5> QED
          BY <2>2, <4>1, <5>3, AllStarted
      <4> QED
        BY <4>2, <4>3
    <3>2. b \in S
      BY <3>1 DEF Masters
    <3> QED
      BY <2>2, <3>2
  <2> QED
    BY <2>1, <2>2 DEF MountsFollow
<1> QED
  BY <1>1, AppInvariant, PTL

=============================================================================
