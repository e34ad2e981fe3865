------------------------------- MODULE Endpoint -------------------------------
(***************************************************************************)
(* The REST endpoints of web/endpoint.go: an EndpointBuilder makes Get,    *)
(* Create, Update, List and Delete endpoints of one module, the program    *)
(* configures and registers them in any order, and then requests run       *)
(* through their Do.                                                       *)
(*                                                                         *)
(* Requests share nothing but the endpoints, which do not change any more, *)
(* so one request at a time stands for all.  The domain creators, custom   *)
(* handlers and checkers of the application and the database answer in any *)
(* way they can.  Routing is gin's.                                        *)
(***************************************************************************)
EXTENDS Integers, Sequences, SequencesExt

CONSTANTS
    Endpoint,   \* the endpoints that may be made
    Name,       \* names under which the builder keeps them
    Kinds,      \* the types of endpoint that may be made
    Checkers,   \* the right checkers the program sets
    Types,      \* the types it switches endpoints to
    Customs,    \* the handlers it sets itself
    Path,       \* the router paths it sets
    Sessions,   \* the sets of rights, for this module, that requests have
    MaxCalls,   \* bound: the calls of the program before it serves
    None        \* nil

EndpointKind == {"get", "create", "list", "update", "delete"}
Checker == {"pass", "reject", "admin", "custom"}
EndpointType == {"html", "api"}
Handler == {"html", "api", "custom"}
Stage == {"right", "id", "domain", "filter", "array", "bind",
          "bind and validate", "exec"}
SuccessAnswer == {"200", "200 page", "custom success"}
FailureAnswer == {"400", "500", "to 500.html", "custom failure", "panic"}

ASSUME NoneAssumption == None \notin Endpoint \cup Checker \cup Handler
ASSUME KindsAssumption == Kinds \subseteq EndpointKind
ASSUME ChoicesAssumption ==
    /\ Checkers \subseteq Checker
    /\ Types \subseteq EndpointType
    /\ Customs \subseteq {"success", "fail"}
ASSUME SessionsAssumption == Sessions \subseteq SUBSET EndpointKind
ASSUME MaxCallsAssumption == MaxCalls \in Nat

VARIABLES
    kind,        \* rigid: the New that makes each endpoint
    endPoints,   \* builder.endPoints
    made,        \* the endpoints made so far
    path,        \* RouterPath
    type,        \* Type, END_POINT_TYPE_HTML until set
    success,     \* Success
    fail,        \* Fail
    checker,     \* RightChecker
    creator,     \* the creators: "none", "all", or "part" of a list's two
    registered,  \* the endpoints with registered set
    routes,      \* the endpoint behind each method and path
    rpcOn,       \* Module.RpcOn
    db,          \* rigid: whether Module.Db is set, by Db or SetDB
    phase,       \* "setup", "serving", or "panicked"
    calls,       \* the calls made so far
    opened,      \* history: the endpoints last guarded by "pass" or "custom"
    customised,  \* history: the endpoints given a handler of their own
    at,          \* the endpoint of the request, or None
    rights,      \* the right keys of its session, for this module
    todo,        \* what is left of Do
    effect,      \* whether it has done its operation
    answers      \* its answers, in order

endpointVars == <<kind, endPoints, made, path, type, success, fail, checker,
                  creator, registered, routes, rpcOn, db, opened, customised>>
requestVars == <<at, rights, todo, effect, answers>>
vars == <<endpointVars, phase, calls, requestVars>>

\* The HttpMethod and RouterPath that NewGet, NewCreate, ... fill in.
Method(k) ==
    CASE k \in {"get", "list"} -> "GET"
      [] k = "create"          -> "POST"
      [] k = "update"          -> "PUT"
      [] k = "delete"          -> "DELETE"
DefaultPath(k) == IF k \in {"get", "update", "delete"} THEN "/:id" ELSE ""

RouteOf(e) == <<Method(kind[e]), path[e]>>
Route == {"GET", "POST", "PUT", "DELETE"} \X ({"", "/:id"} \cup Path)

\* What Do goes through, for each type.
GetDo    == <<"right", "id", "domain", "exec">>
CreateDo == <<"right", "domain", "bind and validate", "exec">>
UpdateDo == <<"right", "domain", "bind and validate", "exec">>
ListDo   == <<"right", "filter", "bind", "array", "exec">>
DeleteDo == <<"right", "id", "exec">>

Do(k) ==
    CASE k = "get"    -> GetDo
      [] k = "create" -> CreateDo
      [] k = "list"   -> ListDo
      [] k = "update" -> UpdateDo
      [] k = "delete" -> DeleteDo

-----------------------------------------------------------------------------
Init ==
    /\ kind \in [Endpoint -> Kinds]
    /\ endPoints = [n \in Name |-> None]
    /\ made = {}
    /\ path = [e \in Endpoint |-> DefaultPath(kind[e])]
    /\ type = [e \in Endpoint |-> "html"]
    /\ success = [e \in Endpoint |-> None]
    /\ fail = [e \in Endpoint |-> None]
    /\ checker = [e \in Endpoint |-> None]
    /\ creator = [e \in Endpoint |-> "none"]
    /\ registered = {}
    /\ routes = [r \in Route |-> None]
    /\ rpcOn = FALSE
    /\ db \in BOOLEAN
    /\ phase = "setup"
    /\ calls = 0
    /\ opened = {}
    /\ customised = {}
    /\ at = None
    /\ rights = {}
    /\ todo = <<>>
    /\ effect = FALSE
    /\ answers = <<>>

-----------------------------------------------------------------------------
(***************************************************************************)
(* Set-up                                                                  *)
(***************************************************************************)

\* One more call of the program, before it serves.
SetUp ==
    /\ phase = "setup"
    /\ calls < MaxCalls
    /\ calls' = calls + 1
    /\ UNCHANGED <<kind, requestVars>>

\* The endpoints the builder has at the moment.
Built == {endPoints[n] : n \in Name} \ {None}

\* NewGet, NewCreate, NewList, NewUpdate, NewDelete: an endpoint that had the
\* name drops out of the builder, registered or not.
New(e, n) ==
    /\ SetUp
    /\ e \notin made
    /\ made' = made \cup {e}
    /\ endPoints' = [endPoints EXCEPT ![n] = e]
    /\ UNCHANGED <<path, type, success, fail, checker, creator, registered,
                   routes, rpcOn, db, phase, opened, customised>>

\* Creator; a list takes two, and may be given the first only.
SetCreator(e, c) ==
    /\ SetUp
    /\ e \in made /\ kind[e] # "delete"
    /\ c = "part" => kind[e] = "list"
    /\ creator' = [creator EXCEPT ![e] = c]
    /\ UNCHANGED <<endPoints, made, path, type, success, fail, checker,
                   registered, routes, rpcOn, db, phase, opened, customised>>

SetPath(e, p) ==
    /\ SetUp
    /\ e \in made
    /\ path' = [path EXCEPT ![e] = p]
    /\ UNCHANGED <<endPoints, made, type, success, fail, checker, creator,
                   registered, routes, rpcOn, db, phase, opened, customised>>

\* Html and Api of one endpoint replace its handlers.
SetEndpointType(e, t) ==
    /\ SetUp
    /\ e \in made
    /\ type' = [type EXCEPT ![e] = t]
    /\ success' = [success EXCEPT ![e] = t]
    /\ fail' = [fail EXCEPT ![e] = t]
    /\ customised' = customised \ {e}
    /\ UNCHANGED <<endPoints, made, path, checker, creator, registered, routes,
                   rpcOn, db, phase, opened>>

\* SetSuccess and SetFail.
SetHandler(e, which) ==
    /\ SetUp
    /\ e \in made
    /\ success' = IF which = "success" THEN [success EXCEPT ![e] = "custom"] ELSE success
    /\ fail' = IF which = "fail" THEN [fail EXCEPT ![e] = "custom"] ELSE fail
    /\ customised' = customised \cup {e}
    /\ UNCHANGED <<endPoints, made, path, type, checker, creator, registered,
                   routes, rpcOn, db, phase, opened>>

All(x) == [e \in Endpoint |-> x]

\* handler, with the default wherever an endpoint of es has none.
Fill(handler, es, default) ==
    [e \in Endpoint |-> IF e \in es /\ handler[e] = None THEN default[e]
                        ELSE handler[e]]

BugBuilderType(t) ==
    /\ SetUp
    /\ type' = [e \in Endpoint |-> IF e \in Built THEN t ELSE type[e]]
    /\ success' = [e \in Endpoint |-> IF e \in Built THEN t ELSE success[e]]
    /\ fail' = Fill(fail, Built, All(t))
    /\ UNCHANGED <<endPoints, made, path, checker, creator, registered, routes,
                   rpcOn, db, phase, opened, customised>>

\* Html and Api of the builder: SetType of every endpoint it has, which leaves
\* handlers that are set already.
BuilderType(t) ==
    /\ SetUp
    /\ type' = [e \in Endpoint |-> IF e \in Built THEN t ELSE type[e]]
    /\ success' = Fill(success, Built, All(t))
    /\ fail' = Fill(fail, Built, All(t))
    /\ UNCHANGED <<endPoints, made, path, checker, creator, registered, routes,
                   rpcOn, db, phase, opened, customised>>

\* The endpoints of es get the checker c.
Guard(es, c) ==
    /\ SetUp
    /\ checker' = [e \in Endpoint |-> IF e \in es THEN c ELSE checker[e]]
    /\ opened' = IF c \in {"pass", "custom"} THEN opened \cup es ELSE opened \ es
    /\ UNCHANGED <<endPoints, made, path, type, success, fail, creator,
                   registered, routes, rpcOn, db, phase, customised>>

\* SetRightChecker, AlwaysPassRightCheck and AdminRightCheck of an endpoint.
EndpointRightCheck(e, c) == e \in made /\ Guard({e}, c)

\* The same of the builder reach the endpoints it has at the moment.
BuilderRightCheck(c) == Guard(Built, c)

\* RpcOn and Rpc.
Rpc(on) ==
    /\ SetUp
    /\ rpcOn' = on
    /\ UNCHANGED <<endPoints, made, path, type, success, fail, checker, creator,
                   registered, routes, db, phase, opened, customised>>

-----------------------------------------------------------------------------
(***************************************************************************)
(* Registration                                                            *)
(***************************************************************************)

\* Register panics over a missing creator, registered or not.
CreatorMissing(e) == kind[e] # "delete" /\ creator[e] = "none"

BugFresh(es) == es

\* Those of es that are not registered yet.
Fresh(es) == es \ registered

\* gin panics when a method and path is taken.
RouteTaken(es) ==
    \E e \in Fresh(es) :
        \/ routes[RouteOf(e)] # None
        \/ \E f \in Fresh(es) \ {e} : RouteOf(f) = RouteOf(e)

BugDefaultChecker == "pass"

\* AlwaysRejectRightChecker, for an endpoint without a checker.
DefaultChecker == "reject"

\* register: those of es not registered before get default handlers, a default
\* checker, and their route.
RegisterEndpoints(es) ==
    /\ registered' = registered \cup es
    /\ routes' = [r \in Route |->
                    IF \E e \in Fresh(es) : RouteOf(e) = r
                    THEN CHOOSE e \in Fresh(es) : RouteOf(e) = r
                    ELSE routes[r]]
    /\ success' = Fill(success, Fresh(es), type)
    /\ fail' = Fill(fail, Fresh(es), type)
    /\ checker' = Fill(checker, Fresh(es), All(DefaultChecker))
    /\ UNCHANGED <<endPoints, made, path, type, creator, rpcOn, db, phase,
                   opened, customised>>

\* Registration panics somewhere among es, in the order of a map, and with it
\* the program.
RegistrationPanics(es) ==
    /\ (\E e \in es : CreatorMissing(e)) \/ RouteTaken(es)
    /\ phase' = "panicked"
    /\ UNCHANGED <<endPoints, made, path, type, success, fail, checker, creator,
                   registered, routes, rpcOn, db, opened, customised>>

RegisterSet(es) ==
    /\ SetUp
    /\ \/ RegistrationPanics(es)
       \/ /\ ~(\E e \in es : CreatorMissing(e)) /\ ~RouteTaken(es)
          /\ RegisterEndpoints(es)

\* Register of one endpoint, whether the builder still has it or not.
Register(e) == e \in made /\ RegisterSet({e})

RegisterAll == RegisterSet(Built)

\* The program starts to serve.
Serve ==
    /\ phase = "setup"
    /\ phase' = "serving"
    /\ UNCHANGED <<endpointVars, calls, requestVars>>

-----------------------------------------------------------------------------
(***************************************************************************)
(* Requests                                                                *)
(***************************************************************************)

\* A request of a session with the rights rs reaches the endpoint e.
Receive(r, rs) ==
    /\ phase = "serving"
    /\ at = None
    /\ routes[r] # None
    /\ at' = routes[r]
    /\ rights' = rs
    /\ todo' = Do(kind[routes[r]])
    /\ UNCHANGED <<endpointVars, phase, calls, effect, answers>>

AtStage(stage) == at # None /\ todo # <<>> /\ Head(todo) = stage

Continue ==
    /\ todo' = Tail(todo)
    /\ UNCHANGED <<endpointVars, phase, calls, at, rights, effect, answers>>

\* Do returns after one answer.
Answer(a) ==
    /\ answers' = Append(answers, a)
    /\ todo' = <<>>
    /\ UNCHANGED <<endpointVars, phase, calls, at, rights>>

BugFailure(e, err) ==
    CASE fail[e] = "api"    -> IF err = "unauthorized" THEN "401" ELSE "500"
      [] fail[e] = "html"   -> "to 500.html"
      [] fail[e] = "custom" -> "custom failure"

\* ApiFail and HtmlFail: what becomes of an error. Unauthorized, too, is a 500.
Failure(e, err) ==
    CASE fail[e] = "api"    -> IF err = "invalid" THEN "400" ELSE "500"
      [] fail[e] = "html"   -> "to 500.html"
      [] fail[e] = "custom" -> "custom failure"

BugFail(err) ==
    /\ answers' = Append(answers, Failure(at, err))
    /\ todo' = Tail(todo)
    /\ UNCHANGED <<endpointVars, phase, calls, at, rights>>

\* Fail, and return.
Fail(err) == Answer(Failure(at, err))

\* What a right checker may say to the request.
Verdicts ==
    CASE checker[at] = "pass"   -> {TRUE}
      [] checker[at] = "reject" -> {FALSE}
      [] checker[at] = "admin"  -> {kind[at] \in rights}
      [] checker[at] = "custom" -> BOOLEAN

CheckRight ==
    /\ AtStage("right")
    /\ \/ TRUE \in Verdicts /\ Continue
       \/ FALSE \in Verdicts /\ Fail("unauthorized") /\ UNCHANGED effect

\* The errors of the stages before the operation: a bad id or bad parameters,
\* whatever a creator of the application returns, and for the validator also
\* an empty error.
StageErrors(stage) ==
    CASE stage \in {"id", "bind"}                                   -> {"invalid"}
      [] stage \in {"domain", "filter", "array", "bind and validate"} ->
            {"invalid", "other"}

\* A list without its second creator, or a domain without rules.
StagePanics(stage) ==
    \/ stage = "array" /\ creator[at] = "part"
    \/ stage = "bind and validate"

Prepare(stage) ==
    /\ AtStage(stage)
    /\ \/ Continue
       \/ \E err \in StageErrors(stage) : Fail(err) /\ UNCHANGED effect
       \/ StagePanics(stage) /\ Answer("panic") /\ UNCHANGED effect

\* Success of the endpoint. An HTML page may be missing, since create, update
\* and delete set none: then gin panics.
Succeed ==
    \/ Answer(CASE success[at] = "api"    -> "200"
                [] success[at] = "html"   -> "200 page"
                [] success[at] = "custom" -> "custom success")
    \/ success[at] = "html" /\ Answer("panic")

\* The operation on the module's database, which may fail or be missing. For a
\* module with RpcOn nothing is done, since the call is commented out:
\* result.Ok stays false, and Fail gets an empty error.
Exec ==
    /\ AtStage("exec")
    /\ \/ ~rpcOn /\ db /\ effect' = TRUE /\ Succeed
       \/ ~rpcOn /\ db /\ effect' \in BOOLEAN /\ Fail("other")
       \/ ~rpcOn /\ ~db /\ Answer("panic") /\ UNCHANGED effect
       \/ rpcOn /\ Fail("other") /\ UNCHANGED effect

\* The request is over.
Done ==
    /\ at # None /\ todo = <<>>
    /\ at' = None
    /\ rights' = {}
    /\ effect' = FALSE
    /\ answers' = <<>>
    /\ UNCHANGED <<endpointVars, phase, calls, todo>>

\* The program has panicked while it registered, or has no request.
Idle ==
    /\ phase = "panicked" \/ (phase = "serving" /\ at = None)
    /\ UNCHANGED vars

SetUpCall ==
    \/ \E e \in Endpoint :
        \/ \E n \in Name : New(e, n)
        \/ \E c \in {"part", "all"} : SetCreator(e, c)
        \/ \E p \in Path : SetPath(e, p)
        \/ \E t \in Types : SetEndpointType(e, t)
        \/ \E h \in Customs : SetHandler(e, h)
        \/ \E c \in Checkers : EndpointRightCheck(e, c)
        \/ Register(e)
    \/ \E t \in Types : BuilderType(t)
    \/ \E c \in Checkers : BuilderRightCheck(c)
    \/ \E on \in BOOLEAN : Rpc(on)
    \/ RegisterAll

Next ==
    \/ SetUpCall
    \/ Serve
    \/ \E r \in Route, rs \in Sessions : Receive(r, rs)
    \/ CheckRight
    \/ \E stage \in Stage \ {"right", "exec"} : Prepare(stage)
    \/ Exec
    \/ Done
    \/ Idle

Spec == Init /\ [][Next]_vars

-----------------------------------------------------------------------------
TypeOK ==
    /\ kind \in [Endpoint -> Kinds]
    /\ endPoints \in [Name -> made \cup {None}]
    /\ made \in SUBSET Endpoint
    /\ path \in [Endpoint -> {"", "/:id"} \cup Path]
    /\ type \in [Endpoint -> EndpointType]
    /\ success \in [Endpoint -> Handler \cup {None}]
    /\ fail \in [Endpoint -> Handler \cup {None}]
    /\ checker \in [Endpoint -> Checker \cup {None}]
    /\ creator \in [Endpoint -> {"none", "part", "all"}]
    /\ registered \in SUBSET made
    /\ routes \in [Route -> registered \cup {None}]
    /\ rpcOn \in BOOLEAN
    /\ db \in BOOLEAN
    /\ phase \in {"setup", "serving", "panicked"}
    /\ calls \in 0 .. MaxCalls
    /\ opened \in SUBSET made
    /\ customised \in SUBSET made
    /\ at \in registered \cup {None}
    /\ rights \in SUBSET EndpointKind
    /\ todo \in Seq(Stage)
    /\ effect \in BOOLEAN
    /\ answers \in Seq(SuccessAnswer \cup FailureAnswer)

\* The session may do what the endpoint does, or anybody may.
Entitled == at \in opened \/ kind[at] \in rights

\* No operation is done for a request that has neither the right to this very
\* operation nor reached an endpoint that was opened explicitly and not guarded
\* again, whatever the order in which endpoints were made, replaced, guarded
\* and registered: an endpoint that nobody opened is closed.
NoEffectWithoutRight ==
    effect => Entitled

\* A request gets one answer, and it tells what has happened: success only of
\* an operation that was done, a bad request only of one that was not.
AnswerTellsEffect ==
    /\ at # None /\ todo = <<>> => Len(answers) = 1
    /\ \A i \in DOMAIN answers :
            /\ answers[i] \in SuccessAnswer => effect
            /\ answers[i] = "400" => ~effect

\* An endpoint that is served has all that Do calls, and answers successes and
\* failures in the same format unless it was given handlers of its own,
\* however often the types of endpoint and builder were switched.
ServedComplete ==
    \A e \in registered :
        /\ None \notin {success[e], fail[e], checker[e]}
        /\ creator[e] = "none" => kind[e] = "delete"
        /\ e \notin customised => success[e] = fail[e]

\* An endpoint has one route, the one it was registered with, although its
\* path may be changed and registration be repeated.
OneRoute ==
    /\ \A r, s \in Route : routes[r] = routes[s] /\ r # s => routes[r] = None
    /\ {routes[r] : r \in Route} \ {None} = registered

\* What the endpoints bring into a request: what lets everybody through has
\* been set by somebody, and nothing is missing.
Guarded ==
    /\ \A e \in Endpoint : checker[e] \in {"pass", "custom"} => e \in opened
    /\ \A e \in registered : None \notin {success[e], fail[e], checker[e]}

\* How Do goes on, once the set-up is over: the right is checked first, the operation comes last, and
\* nothing is answered or done in between.
Pipeline ==
    /\ at # None => phase = "serving"
    /\ at = None => todo = <<>> /\ answers = <<>> /\ ~effect
    /\ todo # <<>> => /\ answers = <<>> /\ ~effect
                      /\ todo[Len(todo)] = "exec"
                      /\ Head(todo) = "right" \/ Entitled
    /\ \A i \in DOMAIN todo : i > 1 => todo[i] # "right"

IndInv ==
    /\ TypeOK
    /\ Guarded
    /\ Pipeline
    /\ NoEffectWithoutRight
    /\ AnswerTellsEffect

=============================================================================
