---------------------------- MODULE EndpointProofs ----------------------------
(***************************************************************************)
(* For every number of endpoints, names, paths and calls: what Endpoint    *)
(* says of rights and answers.                                             *)
(***************************************************************************)
EXTENDS Endpoint, SequenceTheorems, TLAPS

Starts(s) ==
    /\ s \in Seq(Stage) /\ s # <<>> /\ Head(s) = "right"
    /\ s[Len(s)] = "exec"
    /\ \A i \in DOMAIN s : i > 1 => s[i] # "right"

\* What Do goes through begins with the right, has it nowhere else, and ends
\* with the operation.
LEMMA DoShape ==
    ASSUME NEW k \in EndpointKind
    PROVE  Starts(Do(k))
<1>1. Starts(GetDo)
  <2>1. GetDo \in Seq(Stage) /\ Len(GetDo) = 4 /\ DOMAIN GetDo = 1 .. 4
    BY DEF GetDo, Stage
  <2>2. /\ GetDo[1] = "right" /\ GetDo[2] # "right" /\ GetDo[3] # "right"
        /\ GetDo[4] = "exec"
    BY DEF GetDo
  <2> QED
    BY <2>1, <2>2 DEF Starts
<1>2. Starts(CreateDo)
  <2>1. CreateDo \in Seq(Stage) /\ Len(CreateDo) = 4 /\ DOMAIN CreateDo = 1 .. 4
    BY DEF CreateDo, Stage
  <2>2. /\ CreateDo[1] = "right" /\ CreateDo[2] # "right"
        /\ CreateDo[3] # "right" /\ CreateDo[4] = "exec"
    BY DEF CreateDo
  <2> QED
    BY <2>1, <2>2 DEF Starts
<1>3. UpdateDo = CreateDo
  BY DEF UpdateDo, CreateDo
<1>4. Starts(ListDo)
  <2>1. ListDo \in Seq(Stage) /\ Len(ListDo) = 5 /\ DOMAIN ListDo = 1 .. 5
    BY DEF ListDo, Stage
  <2>2. /\ ListDo[1] = "right" /\ ListDo[2] # "right" /\ ListDo[3] # "right"
        /\ ListDo[4] # "right" /\ ListDo[5] = "exec"
    BY DEF ListDo
  <2> QED
    BY <2>1, <2>2 DEF Starts
<1>5. Starts(DeleteDo)
  <2>1. DeleteDo \in Seq(Stage) /\ Len(DeleteDo) = 3 /\ DOMAIN DeleteDo = 1 .. 3
    BY DEF DeleteDo, Stage
  <2>2. DeleteDo[1] = "right" /\ DeleteDo[2] # "right" /\ DeleteDo[3] = "exec"
    BY DEF DeleteDo
  <2> QED
    BY <2>1, <2>2 DEF Starts
<1> QED
  BY <1>1, <1>2, <1>3, <1>4, <1>5 DEF Do, EndpointKind

LEMMA InitIndInv == Init => IndInv
<1> SUFFICES ASSUME Init PROVE IndInv
  OBVIOUS
<1>1. TypeOK
  <2>2. path \in [Endpoint -> {"", "/:id"} \cup Path]
    BY DEF Init, DefaultPath
  <2>3. todo \in Seq(Stage) /\ answers \in Seq(SuccessAnswer \cup FailureAnswer)
    BY DEF Init
  <2>4. calls \in 0 .. MaxCalls
    BY MaxCallsAssumption DEF Init
  <2>5. /\ routes \in [Route -> registered \cup {None}]
        /\ endPoints \in [Name -> made \cup {None}]
    BY DEF Init
  <2>6. /\ type \in [Endpoint -> EndpointType]
        /\ creator \in [Endpoint -> {"none", "part", "all"}]
        /\ success \in [Endpoint -> Handler \cup {None}]
        /\ fail \in [Endpoint -> Handler \cup {None}]
        /\ checker \in [Endpoint -> Checker \cup {None}]
    BY DEF Init, EndpointType
  <2> QED
    BY <2>2, <2>3, <2>4, <2>5, <2>6 DEF Init, TypeOK
<1>2. Guarded /\ Pipeline /\ NoEffectWithoutRight /\ AnswerTellsEffect
  BY NoneAssumption
  DEF Init, Guarded, Pipeline, NoEffectWithoutRight, AnswerTellsEffect,
      Entitled, Checker
<1> QED
  BY <1>1, <1>2 DEF IndInv

-----------------------------------------------------------------------------
\* A call of the program keeps the types and keeps every endpoint guarded that
\* nobody opened, and leaves the request alone.
SetUpKeeps ==
    /\ TypeOK' /\ Guarded'
    /\ kind' = kind /\ UNCHANGED requestVars

LEMMA CallsStay ==
    ASSUME TypeOK, SetUp
    PROVE  calls' \in 0 .. MaxCalls /\ kind' = kind /\ UNCHANGED requestVars
<1>1. calls \in 0 .. MaxCalls
  BY DEF TypeOK
<1>2. /\ calls < MaxCalls /\ calls' = calls + 1
      /\ kind' = kind /\ UNCHANGED requestVars
  BY DEF SetUp
<1> QED
  BY <1>1, <1>2, MaxCallsAssumption

LEMMA NewKeeps ==
    ASSUME TypeOK, Guarded, NEW e \in Endpoint, NEW n \in Name, New(e, n)
    PROVE  SetUpKeeps
<1>1. calls' \in 0 .. MaxCalls /\ kind' = kind /\ UNCHANGED requestVars
  BY CallsStay DEF New
<1> QED
  BY <1>1
  DEF TypeOK, Guarded, New, SetUpKeeps, requestVars

LEMMA SetCreatorKeeps ==
    ASSUME TypeOK, Guarded, NEW e \in Endpoint, NEW c \in {"part", "all"},
           SetCreator(e, c)
    PROVE  SetUpKeeps
<1>1. calls' \in 0 .. MaxCalls /\ kind' = kind /\ UNCHANGED requestVars
  BY CallsStay DEF SetCreator
<1> QED
  BY <1>1
  DEF TypeOK, Guarded, SetCreator, SetUpKeeps, requestVars

LEMMA SetPathKeeps ==
    ASSUME TypeOK, Guarded, NEW e \in Endpoint, NEW p \in Path, SetPath(e, p)
    PROVE  SetUpKeeps
<1>1. calls' \in 0 .. MaxCalls /\ kind' = kind /\ UNCHANGED requestVars
  BY CallsStay DEF SetPath
<1> QED
  BY <1>1
  DEF TypeOK, Guarded, SetPath, SetUpKeeps, requestVars

LEMMA SetEndpointTypeKeeps ==
    ASSUME TypeOK, Guarded, NEW e \in Endpoint, NEW t \in Types,
           SetEndpointType(e, t)
    PROVE  SetUpKeeps
<1>1. calls' \in 0 .. MaxCalls /\ kind' = kind /\ UNCHANGED requestVars
  BY CallsStay DEF SetEndpointType
<1> QED
  BY <1>1, ChoicesAssumption, NoneAssumption
  DEF TypeOK, Guarded, SetEndpointType, SetUpKeeps, requestVars, EndpointType, Handler

LEMMA SetHandlerKeeps ==
    ASSUME TypeOK, Guarded, NEW e \in Endpoint, NEW h \in Customs,
           SetHandler(e, h)
    PROVE  SetUpKeeps
<1>1. calls' \in 0 .. MaxCalls /\ kind' = kind /\ UNCHANGED requestVars
  BY CallsStay DEF SetHandler
<1>2. /\ success' \in {success, [success EXCEPT ![e] = "custom"]}
      /\ fail' \in {fail, [fail EXCEPT ![e] = "custom"]}
  BY DEF SetHandler
<1>3. /\ success' \in [Endpoint -> Handler \cup {None}]
      /\ fail' \in [Endpoint -> Handler \cup {None}]
      /\ \A x \in registered : None \notin {success'[x], fail'[x]}
  BY <1>2, NoneAssumption DEF TypeOK, Guarded, Handler
<1>4. e \in made /\ customised' = customised \cup {e}
  BY DEF SetHandler
<1> QED
  BY <1>1, <1>3, <1>4
  DEF TypeOK, Guarded, SetHandler, SetUpKeeps, requestVars

LEMMA BuilderTypeKeeps ==
    ASSUME TypeOK, Guarded, NEW t \in Types, BuilderType(t)
    PROVE  SetUpKeeps
<1>1. calls' \in 0 .. MaxCalls /\ kind' = kind /\ UNCHANGED requestVars
  BY CallsStay DEF BuilderType
<1> QED
  BY <1>1, ChoicesAssumption, NoneAssumption
  DEF TypeOK, Guarded, BuilderType, SetUpKeeps, requestVars, EndpointType, Handler,
      Fill, All

LEMMA GuardKeeps ==
    ASSUME TypeOK, Guarded, NEW es \in SUBSET made, NEW c \in Checkers,
           Guard(es, c)
    PROVE  SetUpKeeps
<1>1. calls' \in 0 .. MaxCalls /\ kind' = kind /\ UNCHANGED requestVars
  BY CallsStay DEF Guard
<1> QED
  BY <1>1, ChoicesAssumption, NoneAssumption
  DEF TypeOK, Guarded, Guard, SetUpKeeps, requestVars, Checker

LEMMA RpcKeeps ==
    ASSUME TypeOK, Guarded, NEW on \in BOOLEAN, Rpc(on)
    PROVE  SetUpKeeps
<1>1. calls' \in 0 .. MaxCalls /\ kind' = kind /\ UNCHANGED requestVars
  BY CallsStay DEF Rpc
<1> QED
  BY <1>1
  DEF TypeOK, Guarded, Rpc, SetUpKeeps, requestVars

LEMMA RegisterKeeps ==
    ASSUME TypeOK, Guarded, NEW es \in SUBSET made, RegisterSet(es)
    PROVE  SetUpKeeps
<1>1. calls' \in 0 .. MaxCalls /\ kind' = kind /\ UNCHANGED requestVars
  BY CallsStay DEF RegisterSet
<1>2. CASE RegistrationPanics(es)
  BY <1>1, <1>2
  DEF TypeOK, Guarded, RegistrationPanics, SetUpKeeps, requestVars
<1>3. CASE RegisterEndpoints(es)
  <2> DEFINE Filled(h) == [e \in Endpoint |-> IF e \in Fresh(es) /\ h[e] = None
                                             THEN type[e] ELSE h[e]]
  <2>1. success' = Filled(success) /\ fail' = Filled(fail)
    BY <1>3 DEF RegisterEndpoints, Fill
  <2>2. \A h \in [Endpoint -> Handler \cup {None}] :
           /\ Filled(h) \in [Endpoint -> Handler \cup {None}]
           /\ \A e \in Fresh(es) : Filled(h)[e] # None
           /\ \A e \in Endpoint : h[e] # None => Filled(h)[e] # None
    BY NoneAssumption DEF TypeOK, Handler, EndpointType, Fresh
  <2>3. /\ success' \in [Endpoint -> Handler \cup {None}]
        /\ fail' \in [Endpoint -> Handler \cup {None}]
        /\ \A e \in registered' : None \notin {success'[e], fail'[e]}
    <3>1. /\ success \in [Endpoint -> Handler \cup {None}]
          /\ fail \in [Endpoint -> Handler \cup {None}]
          /\ registered \subseteq Endpoint
      BY DEF TypeOK
    <3>2. registered' = registered \cup Fresh(es)
      BY <1>3 DEF RegisterEndpoints, Fresh
    <3>3. \A e \in registered : success[e] # None /\ fail[e] # None
      BY DEF Guarded
    <3>4. Fresh(es) \subseteq Endpoint
      BY DEF Fresh, TypeOK
    <3> QED
      BY <2>1, <2>2, <3>1, <3>2, <3>3, <3>4
  <2>4. /\ checker' \in [Endpoint -> Checker \cup {None}]
        /\ \A e \in registered' : checker'[e] # None
        /\ \A e \in Endpoint : checker'[e] \in {"pass", "custom"} => e \in opened
    BY <1>3, NoneAssumption
    DEF TypeOK, Guarded, RegisterEndpoints, Fill, All, Fresh, DefaultChecker,
        Checker
  <2>5. routes' \in [Route -> registered' \cup {None}]
    <3>1. routes \in [Route -> registered \cup {None}]
      BY DEF TypeOK
    <3>2. Fresh(es) \subseteq registered' /\ registered \subseteq registered'
      BY <1>3 DEF RegisterEndpoints, Fresh
    <3> QED
      BY <3>1, <3>2, <1>3 DEF RegisterEndpoints
  <2>6. /\ registered' \in SUBSET made'
        /\ at \in registered' \cup {None}
        /\ UNCHANGED <<endPoints, made, path, type, creator, rpcOn, db, phase,
                       opened, customised>>
    BY <1>3 DEF TypeOK, RegisterEndpoints
  <2> HIDE DEF Filled
  <2> QED
    BY <1>1, <2>3, <2>4, <2>5, <2>6
    DEF TypeOK, Guarded, SetUpKeeps, requestVars
<1> QED
  BY <1>2, <1>3 DEF RegisterSet

LEMMA CallKeeps ==
    ASSUME TypeOK, Guarded, SetUpCall
    PROVE  SetUpKeeps
<1>1. Built \in SUBSET made
  BY DEF Built, TypeOK
<1>2. CASE \E e \in Endpoint :
              \/ \E n \in Name : New(e, n)
              \/ \E c \in {"part", "all"} : SetCreator(e, c)
              \/ \E p \in Path : SetPath(e, p)
              \/ \E t \in Types : SetEndpointType(e, t)
              \/ \E h \in Customs : SetHandler(e, h)
  BY <1>2, NewKeeps, SetCreatorKeeps, SetPathKeeps, SetEndpointTypeKeeps,
     SetHandlerKeeps
<1>3. CASE \E e \in Endpoint, c \in Checkers : EndpointRightCheck(e, c)
  <2>1. PICK e \in made, c \in Checkers : Guard({e}, c)
    BY <1>3 DEF EndpointRightCheck
  <2>2. {e} \in SUBSET made
    OBVIOUS
  <2> QED
    BY <2>1, <2>2, GuardKeeps
<1>4. CASE \E e \in Endpoint : Register(e)
  <2>1. PICK e \in made : RegisterSet({e})
    BY <1>4 DEF Register
  <2>2. {e} \in SUBSET made
    OBVIOUS
  <2> QED
    BY <2>1, <2>2, RegisterKeeps
<1>5. CASE \E t \in Types : BuilderType(t)
  BY <1>5, BuilderTypeKeeps
<1>6. CASE \E c \in Checkers : BuilderRightCheck(c)
  BY <1>1, <1>6, GuardKeeps DEF BuilderRightCheck
<1>7. CASE \E on \in BOOLEAN : Rpc(on)
  BY <1>7, RpcKeeps
<1>8. CASE RegisterAll
  BY <1>1, <1>8, RegisterKeeps DEF RegisterAll
<1> QED
  BY <1>2, <1>3, <1>4, <1>5, <1>6, <1>7, <1>8 DEF SetUpCall

\* So a call of the program keeps the invariant: it is made before there are
\* requests.
LEMMA CallIndInv ==
    ASSUME IndInv, SetUpCall
    PROVE  IndInv'
<1>1. SetUpKeeps
  BY CallKeeps DEF IndInv
<1>2. phase = "setup"
  BY DEF SetUpCall, New, SetCreator, SetPath, SetEndpointType, SetHandler,
         BuilderType, EndpointRightCheck, BuilderRightCheck, Guard, Rpc,
         Register, RegisterAll, RegisterSet, SetUp
<1>3. at = None
  BY <1>2 DEF IndInv, Pipeline
<1>4. Pipeline' /\ NoEffectWithoutRight' /\ AnswerTellsEffect'
  BY <1>1, <1>3
  DEF SetUpKeeps, requestVars, IndInv, Pipeline, NoEffectWithoutRight,
      AnswerTellsEffect
<1> QED
  BY <1>1, <1>4 DEF SetUpKeeps, IndInv

-----------------------------------------------------------------------------
\* The rest of what Do goes through, once a stage before the last is over, is
\* without the right and ends with the operation.
LEMMA TailShape ==
    ASSUME NEW s \in Seq(Stage), s # <<>>, Head(s) # "exec",
           s[Len(s)] = "exec", \A i \in DOMAIN s : i > 1 => s[i] # "right"
    PROVE  /\ Tail(s) \in Seq(Stage) /\ Tail(s) # <<>>
           /\ Tail(s)[Len(Tail(s))] = "exec"
           /\ \A i \in DOMAIN Tail(s) : Tail(s)[i] # "right"
<1>1. Len(s) \in Nat /\ Len(s) > 1
  <2>1. Len(s) \in Nat /\ Len(s) # 0
    OBVIOUS
  <2>2. Len(s) # 1
    OBVIOUS
  <2> QED
    BY <2>1, <2>2
<1>2. /\ Tail(s) \in Seq(Stage) /\ Len(Tail(s)) = Len(s) - 1
      /\ \A i \in 1 .. Len(s) - 1 : Tail(s)[i] = s[i + 1]
  BY <1>1
<1>3. DOMAIN Tail(s) = 1 .. Len(s) - 1
  BY <1>2
<1>4. \A i \in DOMAIN Tail(s) : i + 1 \in DOMAIN s /\ i + 1 > 1
  BY <1>1, <1>3
<1> QED
  BY <1>1, <1>2, <1>3, <1>4

\* A stage that goes well leads to the next for those who are let through.
LEMMA ContinueIndInv ==
    ASSUME IndInv, at # None, todo # <<>>, Head(todo) # "exec", Entitled,
           Continue
    PROVE  IndInv'
<1>1. /\ Tail(todo) \in Seq(Stage) /\ Tail(todo) # <<>>
      /\ Tail(todo)[Len(Tail(todo))] = "exec"
      /\ \A i \in DOMAIN Tail(todo) : Tail(todo)[i] # "right"
  BY TailShape DEF IndInv, TypeOK, Pipeline
<1>2. Entitled'
  BY DEF Continue, Entitled, endpointVars
<1>3. TypeOK' /\ Guarded'
  BY <1>1 DEF IndInv, TypeOK, Guarded, Continue, endpointVars
<1>4. Pipeline' /\ NoEffectWithoutRight' /\ AnswerTellsEffect'
  BY <1>1, <1>2
  DEF IndInv, Continue, endpointVars, Pipeline, NoEffectWithoutRight,
      AnswerTellsEffect
<1> QED
  BY <1>3, <1>4 DEF IndInv

\* An answer that tells what happened is the only one.
LEMMA AnswerIndInv ==
    ASSUME IndInv, at # None, todo # <<>>,
           NEW a \in SuccessAnswer \cup FailureAnswer, Answer(a),
           effect' \in BOOLEAN, effect' => Entitled,
           a \in SuccessAnswer => effect', a = "400" => ~effect'
    PROVE  IndInv'
<1>1. answers' = <<a>> /\ todo' = <<>>
  BY DEF IndInv, Pipeline, Answer
<1>2. Entitled' <=> Entitled
  BY DEF Answer, Entitled, endpointVars
<1>3. TypeOK' /\ Guarded'
  <2>1. /\ todo' \in Seq(Stage)
        /\ answers' \in Seq(SuccessAnswer \cup FailureAnswer)
    BY <1>1
  <2> QED
    BY <2>1 DEF IndInv, TypeOK, Guarded, Answer, endpointVars
<1>4. Pipeline' /\ NoEffectWithoutRight' /\ AnswerTellsEffect'
  BY <1>1, <1>2
  DEF IndInv, Answer, Pipeline, NoEffectWithoutRight, AnswerTellsEffect
<1> QED
  BY <1>3, <1>4 DEF IndInv

\* Every failure has an answer; only invalid parameters make a bad request.
LEMMA FailureAnswers ==
    ASSUME IndInv, at # None, NEW err \in {"unauthorized", "invalid", "other"}
    PROVE  /\ Failure(at, err) \in FailureAnswer \ SuccessAnswer
           /\ Failure(at, err) = "400" => err = "invalid"
<1>1. fail[at] \in Handler
  BY DEF IndInv, TypeOK, Guarded
<1> QED
  BY <1>1 DEF Failure, FailureAnswer, SuccessAnswer, Handler

-----------------------------------------------------------------------------
LEMMA ReceiveIndInv ==
    ASSUME IndInv, NEW r \in Route, NEW rs \in Sessions, Receive(r, rs)
    PROVE  IndInv'
<1>1. /\ at' \in registered /\ at' # None /\ rights' \in SUBSET EndpointKind
      /\ kind[at'] \in EndpointKind
  BY NoneAssumption, KindsAssumption, SessionsAssumption
  DEF Receive, IndInv, TypeOK
<1>2. Starts(todo')
  BY <1>1, DoShape DEF Receive
<1>3. answers' = <<>> /\ effect' = FALSE /\ phase' = "serving"
  BY DEF Receive, IndInv, Pipeline, TypeOK
<1>4. TypeOK' /\ Guarded'
  BY <1>1, <1>2, <1>3
  DEF IndInv, TypeOK, Guarded, Receive, endpointVars, Starts
<1>5. Pipeline' /\ NoEffectWithoutRight' /\ AnswerTellsEffect'
  BY <1>1, <1>2, <1>3
  DEF Starts, Pipeline, NoEffectWithoutRight, AnswerTellsEffect
<1> QED
  BY <1>4, <1>5 DEF IndInv

LEMMA CheckRightIndInv ==
    ASSUME IndInv, CheckRight
    PROVE  IndInv'
<1>1. at # None /\ todo # <<>> /\ Head(todo) = "right" /\ ~effect
  BY DEF CheckRight, AtStage, IndInv, Pipeline
<1>2. CASE TRUE \in Verdicts /\ Continue
  <2>1. at \in registered /\ checker[at] \in Checker
    BY <1>1 DEF IndInv, TypeOK, Guarded
  <2>2. Entitled
    BY <1>2, <2>1
    DEF Verdicts, Entitled, IndInv, TypeOK, Guarded, Checker
  <2> QED
    BY <1>1, <1>2, <2>2, ContinueIndInv
<1>3. CASE Fail("unauthorized") /\ UNCHANGED effect
  BY <1>1, <1>3, AnswerIndInv, FailureAnswers DEF Fail, IndInv, TypeOK
<1> QED
  BY <1>2, <1>3 DEF CheckRight

LEMMA PrepareIndInv ==
    ASSUME IndInv, NEW stage \in Stage \ {"right", "exec"}, Prepare(stage)
    PROVE  IndInv'
<1>1. /\ at # None /\ todo # <<>> /\ Head(todo) \notin {"right", "exec"}
      /\ ~effect /\ Entitled
  BY DEF Prepare, AtStage, IndInv, Pipeline
<1>2. CASE Continue
  BY <1>1, <1>2, ContinueIndInv
<1>3. CASE \E err \in StageErrors(stage) : Fail(err) /\ UNCHANGED effect
  <2>1. StageErrors(stage) \subseteq {"unauthorized", "invalid", "other"}
    BY DEF StageErrors, Stage
  <2>2. PICK err \in {"unauthorized", "invalid", "other"} :
                Fail(err) /\ UNCHANGED effect
    BY <1>3, <2>1
  <2> QED
    BY <1>1, <2>2, AnswerIndInv, FailureAnswers DEF Fail, IndInv, TypeOK
<1>4. CASE Answer("panic") /\ UNCHANGED effect
  BY <1>1, <1>4, AnswerIndInv
  DEF SuccessAnswer, FailureAnswer, IndInv, TypeOK
<1> QED
  BY <1>2, <1>3, <1>4 DEF Prepare

LEMMA ExecIndInv ==
    ASSUME IndInv, Exec
    PROVE  IndInv'
<1>1. at # None /\ todo # <<>> /\ ~effect /\ Entitled
  BY DEF Exec, AtStage, IndInv, Pipeline
<1>2. CASE effect' = TRUE /\ Succeed
  <2>1. success[at] \in Handler
    BY <1>1 DEF IndInv, TypeOK, Guarded
  <2>2. PICK a \in SuccessAnswer \cup {"panic"} : Answer(a)
    BY <1>2, <2>1 DEF Succeed, SuccessAnswer, Handler
  <2> QED
    BY <1>1, <1>2, <2>2, AnswerIndInv DEF SuccessAnswer, FailureAnswer
<1>3. CASE effect' \in BOOLEAN /\ Fail("other")
  BY <1>1, <1>3, AnswerIndInv, FailureAnswers DEF Fail
<1>4. CASE Answer("panic") /\ UNCHANGED effect
  BY <1>1, <1>4, AnswerIndInv
  DEF SuccessAnswer, FailureAnswer, IndInv, TypeOK
<1>5. CASE Fail("other") /\ UNCHANGED effect
  BY <1>1, <1>5, AnswerIndInv, FailureAnswers DEF Fail, IndInv, TypeOK
<1> QED
  BY <1>2, <1>3, <1>4, <1>5 DEF Exec

LEMMA StepIndInv == IndInv /\ [Next]_vars => IndInv'
<1> SUFFICES ASSUME IndInv, [Next]_vars PROVE IndInv'
  OBVIOUS
<1>1. CASE SetUpCall
  BY <1>1, CallIndInv
<1>2. CASE Serve
  BY <1>2
  DEF Serve, endpointVars, requestVars, IndInv, TypeOK, Guarded, Pipeline,
      NoEffectWithoutRight, AnswerTellsEffect, Entitled
<1>3. CASE \E r \in Route, rs \in Sessions : Receive(r, rs)
  BY <1>3, ReceiveIndInv
<1>4. CASE CheckRight
  BY <1>4, CheckRightIndInv
<1>5. CASE \E stage \in Stage \ {"right", "exec"} : Prepare(stage)
  BY <1>5, PrepareIndInv
<1>6. CASE Exec
  BY <1>6, ExecIndInv
<1>7. CASE Done
  <2>1. at' = None /\ todo' = <<>> /\ answers' = <<>> /\ effect' = FALSE
    BY <1>7 DEF Done
  <2>2. /\ todo' \in Seq(Stage)
        /\ answers' \in Seq(SuccessAnswer \cup FailureAnswer)
    BY <2>1
  <2>3. TypeOK' /\ Guarded'
    BY <1>7, <2>1, <2>2 DEF Done, endpointVars, IndInv, TypeOK, Guarded
  <2>4. Pipeline' /\ NoEffectWithoutRight' /\ AnswerTellsEffect'
    BY <2>1 DEF Pipeline, NoEffectWithoutRight, AnswerTellsEffect
  <2> QED
    BY <2>3, <2>4 DEF IndInv
<1>8. CASE UNCHANGED vars
  BY <1>8
  DEF vars, endpointVars, requestVars, IndInv, TypeOK, Guarded, Pipeline,
      NoEffectWithoutRight, AnswerTellsEffect, Entitled
<1> QED
  BY <1>1, <1>2, <1>3, <1>4, <1>5, <1>6, <1>7, <1>8 DEF Next, Idle

-----------------------------------------------------------------------------
\* In every state the endpoints are guarded and Do runs in its order.
THEOREM IndInvariant == Spec => []IndInv
BY InitIndInv, StepIndInv, PTL DEF Spec

\* Every variable has its type; in particular a route leads to a registered
\* endpoint.
THEOREM TypeCorrect == Spec => []TypeOK
<1>1. IndInv => TypeOK
  BY DEF IndInv
<1> QED
  BY <1>1, IndInvariant, PTL

\* Nothing is done without the right, however many endpoints there are and in
\* whatever order they were made, replaced, guarded and registered.
THEOREM Rights == Spec => []NoEffectWithoutRight
<1>1. IndInv => NoEffectWithoutRight
  BY DEF IndInv
<1> QED
  BY <1>1, IndInvariant, PTL

\* A request gets one answer, and it tells what has happened.
THEOREM Answers == Spec => []AnswerTellsEffect
<1>1. IndInv => AnswerTellsEffect
  BY DEF IndInv
<1> QED
  BY <1>1, IndInvariant, PTL

-----------------------------------------------------------------------------
(***************************************************************************)
(* What is served is complete and has one route. Both need more than is    *)
(* served: an endpoint has its handlers in one format before it is         *)
(* registered.                                                             *)
(***************************************************************************)

OneFormat == \A e \in Endpoint : e \notin customised => success[e] = fail[e]

Created == \A e \in registered : creator[e] = "none" => kind[e] = "delete"

\* The program's calls, by what they have in common here.
LEMMA CallCases ==
    ASSUME TypeOK, SetUpCall
    PROVE  \/ \E e \in Endpoint, n \in Name : New(e, n)
           \/ \E e \in Endpoint, c \in {"part", "all"} : SetCreator(e, c)
           \/ \E e \in Endpoint, p \in Path : SetPath(e, p)
           \/ \E e \in Endpoint, t \in Types : SetEndpointType(e, t)
           \/ \E e \in Endpoint, h \in Customs : SetHandler(e, h)
           \/ \E t \in Types : BuilderType(t)
           \/ \E es, c : Guard(es, c)
           \/ \E on \in BOOLEAN : Rpc(on)
           \/ \E es : RegistrationPanics(es)
           \/ \E es \in SUBSET made :
                    /\ RegisterEndpoints(es) /\ ~RouteTaken(es)
                    /\ \A e \in es : ~CreatorMissing(e)
<1>1. CASE \E e \in Endpoint, c \in Checkers : EndpointRightCheck(e, c)
  BY <1>1 DEF EndpointRightCheck
<1>2. CASE \E c \in Checkers : BuilderRightCheck(c)
  BY <1>2 DEF BuilderRightCheck
<1>3. CASE \E e \in Endpoint : Register(e)
  <2>1. PICK e \in made : RegisterSet({e})
    BY <1>3 DEF Register
  <2>2. {e} \in SUBSET made
    OBVIOUS
  <2> QED
    BY <2>1, <2>2 DEF RegisterSet
<1>4. CASE RegisterAll
  <2>1. Built \in SUBSET made
    BY DEF Built, TypeOK
  <2> QED
    BY <1>4, <2>1 DEF RegisterAll, RegisterSet
<1> QED
  BY <1>1, <1>2, <1>3, <1>4 DEF SetUpCall

\* All the other steps leave the endpoints as they are.
LEMMA RequestKeeps ==
    ASSUME [Next]_vars, ~SetUpCall
    PROVE  UNCHANGED endpointVars
<1>1. CASE Serve \/ \E r \in Route, rs \in Sessions : Receive(r, rs)
  BY <1>1 DEF Serve, Receive
<1>2. CASE CheckRight
  BY <1>2 DEF CheckRight, Continue, Fail, Answer
<1>3. CASE \E stage \in Stage \ {"right", "exec"} : Prepare(stage)
  BY <1>3 DEF Prepare, Continue, Fail, Answer
<1>4. CASE Exec
  BY <1>4 DEF Exec, Succeed, Fail, Answer
<1>5. CASE Done \/ Idle \/ UNCHANGED vars
  BY <1>5 DEF Done, Idle, vars
<1> QED
  BY <1>1, <1>2, <1>3, <1>4, <1>5 DEF Next

LEMMA StepOneFormat ==
    ASSUME IndInv, OneFormat, [Next]_vars
    PROVE  OneFormat'
<1>1. /\ success \in [Endpoint -> Handler \cup {None}]
      /\ fail \in [Endpoint -> Handler \cup {None}]
      /\ customised \subseteq Endpoint
  BY DEF IndInv, TypeOK
<1>2. CASE SetUpCall
  <2>1. CASE \E e \in Endpoint, t \in Types : SetEndpointType(e, t)
    BY <1>1, <2>1 DEF SetEndpointType, OneFormat
  <2>2. CASE \E e \in Endpoint, h \in Customs : SetHandler(e, h)
    <3>1. PICK e \in Endpoint, h \in Customs : SetHandler(e, h)
      BY <2>2
    <3>2. /\ customised' = customised \cup {e}
          /\ success' \in {success, [success EXCEPT ![e] = "custom"]}
          /\ fail' \in {fail, [fail EXCEPT ![e] = "custom"]}
      BY <3>1 DEF SetHandler
    <3> QED
      BY <1>1, <3>2 DEF OneFormat
  <2>3. CASE \E t \in Types : BuilderType(t)
    BY <1>1, <2>3 DEF BuilderType, OneFormat, Fill, All
  <2>4. CASE \E es \in SUBSET made : RegisterEndpoints(es)
    BY <1>1, <2>4 DEF RegisterEndpoints, OneFormat, Fill
  <2>5. CASE UNCHANGED <<success, fail, customised>>
    BY <2>5 DEF OneFormat
  <2> QED
    <3>1. TypeOK
      BY DEF IndInv
    <3>2. \/ \E e \in Endpoint, n \in Name : New(e, n)
          \/ \E e \in Endpoint, c \in {"part", "all"} : SetCreator(e, c)
          \/ \E e \in Endpoint, p \in Path : SetPath(e, p)
          \/ \E es, c : Guard(es, c)
          \/ \E on \in BOOLEAN : Rpc(on)
          \/ \E es : RegistrationPanics(es)
          => UNCHANGED <<success, fail, customised>>
      BY DEF New, SetCreator, SetPath, Guard, Rpc, RegistrationPanics
    <3> QED
      BY <1>2, <2>1, <2>2, <2>3, <2>4, <2>5, <3>1, <3>2, CallCases
<1>3. CASE ~SetUpCall
  BY <1>3, RequestKeeps DEF endpointVars, OneFormat
<1> QED
  BY <1>2, <1>3

LEMMA StepCreated ==
    ASSUME IndInv, Created, [Next]_vars
    PROVE  Created'
<1>1. creator \in [Endpoint -> {"none", "part", "all"}] /\ registered \subseteq Endpoint
  BY DEF IndInv, TypeOK
<1>2. CASE SetUpCall
  <2>0. kind' = kind
    BY <1>2, CallKeeps DEF IndInv, SetUpKeeps
  <2>1. CASE \E e \in Endpoint, c \in {"part", "all"} : SetCreator(e, c)
    BY <1>1, <2>0, <2>1 DEF SetCreator, Created
  <2>2. CASE \E es \in SUBSET made :
                /\ RegisterEndpoints(es)
                /\ \A e \in es : ~CreatorMissing(e)
    BY <1>1, <2>0, <2>2 DEF RegisterEndpoints, CreatorMissing, Created
  <2>3. CASE UNCHANGED <<creator, registered>>
    BY <2>0, <2>3 DEF Created
  <2> QED
    <3>1. TypeOK
      BY DEF IndInv
    <3>2. \/ \E e \in Endpoint, n \in Name : New(e, n)
          \/ \E e \in Endpoint, p \in Path : SetPath(e, p)
          \/ \E e \in Endpoint, t \in Types : SetEndpointType(e, t)
          \/ \E e \in Endpoint, h \in Customs : SetHandler(e, h)
          \/ \E t \in Types : BuilderType(t)
          \/ \E es, c : Guard(es, c)
          \/ \E on \in BOOLEAN : Rpc(on)
          \/ \E es : RegistrationPanics(es)
          => UNCHANGED <<creator, registered>>
      BY DEF New, SetPath, SetEndpointType, SetHandler, BuilderType, Guard, Rpc,
             RegistrationPanics
    <3> QED
      BY <1>2, <2>1, <2>2, <2>3, <3>1, <3>2, CallCases
<1>3. CASE ~SetUpCall
  BY <1>3, RequestKeeps DEF endpointVars, Created
<1> QED
  BY <1>2, <1>3

LEMMA StepOneRoute ==
    ASSUME IndInv, OneRoute, [Next]_vars
    PROVE  OneRoute'
<1>1. /\ routes \in [Route -> registered \cup {None}]
      /\ registered \subseteq Endpoint /\ made \subseteq Endpoint
  BY DEF IndInv, TypeOK
<1>2. CASE SetUpCall
  <2>1. CASE \E es \in SUBSET made : RegisterEndpoints(es) /\ ~RouteTaken(es)
    <3>1. PICK es \in SUBSET made : RegisterEndpoints(es) /\ ~RouteTaken(es)
      BY <2>1
    <3> DEFINE new == Fresh(es)
    <3>2. /\ new \subseteq Endpoint /\ new \cap registered = {}
          /\ registered' = registered \cup new
      BY <1>1, <3>1 DEF Fresh, RegisterEndpoints
    <3>3. \A e \in new : RouteOf(e) \in Route /\ routes[RouteOf(e)] = None
      <4>1. \A e \in Endpoint : RouteOf(e) \in Route
        BY KindsAssumption
        DEF IndInv, TypeOK, RouteOf, Route, Method, EndpointKind
      <4> QED
        BY <3>1, <3>2, <4>1 DEF RouteTaken
    <3>4. \A e, f \in new : RouteOf(e) = RouteOf(f) => e = f
      BY <3>1 DEF RouteTaken
    <3>5. \A r \in Route : (\E e \in new : RouteOf(e) = r) =>
            routes'[r] \in new /\ RouteOf(routes'[r]) = r
      BY <3>1 DEF RegisterEndpoints
    <3>6. \A r \in Route : ~(\E e \in new : RouteOf(e) = r) => routes'[r] = routes[r]
      BY <3>1 DEF RegisterEndpoints
    <3> HIDE DEF new
    <3>7. \A r, s \in Route : routes'[r] = routes'[s] /\ r # s => routes'[r] = None
      BY <1>1, <3>2, <3>3, <3>5, <3>6, NoneAssumption DEF OneRoute
    <3>8. \A e \in new : \E r \in Route : routes'[r] = e
      BY <3>3, <3>4, <3>5
    <3>9. \A e \in registered : \E r \in Route : routes'[r] = e
      <4>1. \A e \in registered : \E r \in Route : routes[r] = e
        BY DEF OneRoute
      <4>2. None \notin registered
        BY <1>1, NoneAssumption
      <4> QED
        BY <3>3, <3>6, <4>1, <4>2
    <3>10. \A r \in Route : routes'[r] \in registered' \cup {None}
      BY <1>1, <3>2, <3>5, <3>6
    <3>11. None \notin registered'
      BY <1>1, <3>2, NoneAssumption
    <3>12. {routes'[r] : r \in Route} \ {None} = registered'
      BY <3>2, <3>8, <3>9, <3>10, <3>11
    <3> QED
      BY <3>7, <3>12 DEF OneRoute
  <2>2. CASE UNCHANGED <<routes, registered>>
    BY <2>2 DEF OneRoute
  <2> QED
    <3>1. TypeOK
      BY DEF IndInv
    <3>2. \/ \E e \in Endpoint, n \in Name : New(e, n)
          \/ \E e \in Endpoint, c \in {"part", "all"} : SetCreator(e, c)
          \/ \E e \in Endpoint, p \in Path : SetPath(e, p)
          \/ \E e \in Endpoint, t \in Types : SetEndpointType(e, t)
          \/ \E e \in Endpoint, h \in Customs : SetHandler(e, h)
          \/ \E t \in Types : BuilderType(t)
          \/ \E es, c : Guard(es, c)
          \/ \E on \in BOOLEAN : Rpc(on)
          \/ \E es : RegistrationPanics(es)
          => UNCHANGED <<routes, registered>>
      BY DEF New, SetCreator, SetPath, SetEndpointType, SetHandler, BuilderType,
             Guard, Rpc, RegistrationPanics
    <3> QED
      BY <1>2, <2>1, <2>2, <3>1, <3>2, CallCases
<1>3. CASE ~SetUpCall
  BY <1>3, RequestKeeps DEF endpointVars, OneRoute
<1> QED
  BY <1>2, <1>3

\* Whatever is served has its handlers, its checker and its creator, and
\* answers in one format, whatever the program has switched before and after.
THEOREM Served == Spec => []ServedComplete
<1>1. Init => OneFormat /\ Created
  BY DEF Init, OneFormat, Created
<1>2. IndInv /\ OneFormat /\ Created /\ [Next]_vars => OneFormat' /\ Created'
  BY StepOneFormat, StepCreated
<1>3. IndInv /\ OneFormat /\ Created => ServedComplete
  BY DEF IndInv, TypeOK, Guarded, OneFormat, Created, ServedComplete
<1> QED
  BY <1>1, <1>2, <1>3, IndInvariant, PTL DEF Spec

\* Every registered endpoint has one route, for any number of endpoints, paths
\* and registrations.
THEOREM Routed == Spec => []OneRoute
<1>1. Init => OneRoute
  BY DEF Init, OneRoute
<1>2. IndInv /\ OneRoute /\ [Next]_vars => OneRoute'
  BY StepOneRoute
<1> QED
  BY <1>1, <1>2, IndInvariant, PTL DEF Spec

=============================================================================
