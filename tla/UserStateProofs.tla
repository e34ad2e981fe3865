--------------------------- MODULE UserStateProofs ---------------------------
(***************************************************************************)
(* For every number of requests, users, values and operations: what the    *)
(* state stores promise is what the next request finds.                    *)
(***************************************************************************)
EXTENDS UserState, TLAPS

USE DEF UserKey

\* Values, and what may be expected of them, have the shapes used below.
LEMMA Shapes ==
    /\ NoValues \in Values
    /\ Fresh \in Expectation /\ Forgotten \in Expectation
    /\ Nothing \notin Expectation
    /\ Jwt => Fresh \in Cookie
    /\ ~Jwt => Fresh = NoValues
    /\ None \in Cookie
<1>1. NoValues \in Values
  BY DEF NoValues, Values
<1>2. CASE Jwt
  BY <1>1, <1>2, NothingAssumption, UnknownAssumption
  DEF Fresh, Forgotten, Expectation, Cookie
<1>3. CASE ~Jwt
  BY <1>1, <1>3, NothingAssumption, UnknownAssumption
  DEF Fresh, Forgotten, Expectation, Cookie, NoValues
<1> QED
  BY <1>1, <1>2, <1>3

\* Nothing is said of what is forgotten.
LEMMA ForgottenAgrees == \A c : Agrees(Forgotten, c)
BY DEF Agrees, Forgotten

\* What is fresh is what a request without a cookie finds.
LEMMA FreshAgrees == Agrees(Fresh, Contents(None))
BY DEF Agrees, Fresh, Contents

LEMMA ContentsType ==
    ASSUME TypeOK, ~Jwt, NEW c \in Cookie
    PROVE  Contents(c) \in Values
BY Shapes DEF TypeOK, Contents, Cookie

LEMMA InitIndInv == Init => IndInv
<1> SUFFICES ASSUME Init PROVE IndInv
  OBVIOUS
<1>1. TypeOK
  <2>1. ops \in 0 .. MaxOps
    BY MaxOpsAssumption DEF Init
  <2> QED
    BY <2>1, Shapes DEF Init, TypeOK
<1>2. Unpromised
  BY DEF Init, Unpromised
<1>3. Alone
  BY DEF Init, Alone, InFlight
<1>4. SeenAsExpected
  BY FreshAgrees DEF Init, SeenAsExpected
<1> QED
  BY <1>1, <1>2, <1>3, <1>4 DEF IndInv

-----------------------------------------------------------------------------
\* A request that only moves on, and keeps what it had, disturbs nothing.
LEMMA SendKeeps ==
    ASSUME IndInv, NEW r \in Request, Send(r)
    PROVE  IndInv'
<1> USE DEF Send, memory, history, IndInv
<1>1. TypeOK'
  BY DEF TypeOK, Cookie, Expectation, Jwt
<1>2. Unpromised'
  BY DEF Unpromised, Jwt, TypeOK
<1>3. Alone'
  <2> SUFFICES ASSUME NEW q \in InFlight' \ disturbed'
               PROVE  /\ carried'[q] = cookie
                      /\ ~Jwt /\ phase'[q] # "sent" =>
                            Agrees(intended[q], values[q])
                      /\ promised[q] # Nothing =>
                            Agrees(promised[q], Contents(Left(q)'))
    BY DEF Alone, Agrees, Contents, Jwt
  <2>1. CASE q = r
    BY <2>1 DEF TypeOK, Unpromised
  <2>2. CASE q # r
    BY <2>2 DEF TypeOK, Alone, InFlight, Left
  <2> QED
    BY <2>1, <2>2
<1>4. SeenAsExpected'
  BY DEF SeenAsExpected, Agrees, Contents, Jwt
<1> QED
  BY <1>1, <1>2, <1>3, <1>4

LEMMA ParseUserKeeps ==
    ASSUME IndInv, NEW r \in Request, ParseUser(r)
    PROVE  IndInv'
<1> USE DEF ParseUser, memory, IndInv
<1>1. PICK load \in Loads(r) :
         /\ IF Jwt THEN JwtParseUser(r) ELSE SessionParseUser(r, load)
         /\ intended' = [intended EXCEPT ![r] = IF load = "failed" THEN Forgotten
                                               ELSE expected]
  OBVIOUS
<1> DEFINE found == IF load = "failed" THEN NoValues ELSE Contents(carried[r])
           known == IF load = "failed" THEN Forgotten ELSE expected
<1>2. /\ phase' = [phase EXCEPT ![r] = "handling"] \/
         phase' = [phase EXCEPT ![r] = "answered"]
      /\ values' \in [Request -> Values]
      /\ Jwt => values' = values
      /\ ~Jwt => values' = [values EXCEPT ![r] = found]
  <2>1. CASE Jwt
    BY <1>1, <2>1 DEF JwtParseUser, TypeOK
  <2>2. CASE ~Jwt
    <3>1. found \in Values
      BY <2>2, ContentsType, Shapes DEF TypeOK
    <3> QED
      BY <1>1, <2>2, <3>1 DEF SessionParseUser, TypeOK
  <2> QED
    BY <2>1, <2>2
<1>3. known \in Expectation /\ intended' = [intended EXCEPT ![r] = known]
  BY <1>1, Shapes DEF TypeOK
<1> HIDE DEF found, known
<1>4. TypeOK'
  BY <1>2, <1>3 DEF TypeOK, Cookie, Expectation, Jwt
<1>5. Unpromised'
  BY <1>2 DEF Unpromised, Jwt, TypeOK
<1>6. Alone'
  <2> SUFFICES ASSUME NEW q \in InFlight' \ disturbed
               PROVE  /\ carried[q] = cookie
                      /\ ~Jwt /\ phase'[q] # "sent" =>
                            Agrees(intended'[q], values'[q])
                      /\ promised[q] # Nothing =>
                            Agrees(promised[q], Contents(Left(q)))
    BY DEF Alone, Agrees, Contents, Jwt, Left
  <2>1. q \in InFlight /\ q \in Request
    BY <1>2 DEF InFlight, TypeOK
  <2>2. CASE q = r
    <3>1. promised[r] = Nothing /\ carried[r] = cookie
      BY <2>1, <2>2 DEF Unpromised, Alone
    <3>2. intended'[r] = known /\ (~Jwt => values'[r] = found)
      BY <1>2, <1>3 DEF TypeOK
    <3>3. Agrees(known, found)
      BY <3>1, ForgottenAgrees DEF SeenAsExpected, known, found
    <3> QED
      BY <2>2, <3>1, <3>2, <3>3
  <2>3. CASE q # r
    <3>1. /\ phase'[q] = phase[q] /\ intended'[q] = intended[q]
          /\ values'[q] = values[q]
      BY <1>2, <1>3, <2>1, <2>3 DEF TypeOK
    <3> QED
      BY <2>1, <3>1 DEF Alone
  <2> QED
    BY <2>2, <2>3
<1>7. SeenAsExpected'
  BY DEF SeenAsExpected, Agrees, Contents, Jwt
<1> QED
  BY <1>4, <1>5, <1>6, <1>7

LEMMA AnswerKeeps ==
    ASSUME IndInv, NEW r \in Request, Answer(r)
    PROVE  IndInv'
<1> USE DEF Answer, memory, history, IndInv
<1>1. TypeOK'
  BY DEF TypeOK, Cookie, Expectation, Jwt
<1>2. Unpromised'
  BY DEF Unpromised, Jwt, TypeOK
<1>3. Alone'
  BY DEF Alone, InFlight, TypeOK, Agrees, Contents, Jwt, Left
<1>4. SeenAsExpected'
  BY DEF SeenAsExpected, Agrees, Contents, Jwt
<1> QED
  BY <1>1, <1>2, <1>3, <1>4

-----------------------------------------------------------------------------
\* What Promise notes of an operation that leaves r's session with v, or r's
\* token with after.
LEMMA PromiseType ==
    ASSUME TypeOK, NEW r \in Request, NEW after \in Expectation,
           NEW result \in {"ok", "failed", "lost"}, Promise(r, after, result)
    PROVE  /\ intended' \in [Request -> Expectation]
           /\ promised' \in [Request -> Expectation \cup {Nothing}]
           /\ disturbed' \subseteq Request
           /\ expected' \in Expectation
           /\ intended' = [intended EXCEPT ![r] = after]
           /\ promised' = IF result = "failed" THEN promised
                          ELSE [promised EXCEPT ![r] = after]
           /\ expected' = IF result = "failed" THEN expected ELSE Forgotten
           /\ disturbed \subseteq disturbed'
           /\ result # "failed" => Others(r) \subseteq disturbed'
           /\ result = "lost" => r \in disturbed'
BY Shapes DEF TypeOK, Promise, Others, InFlight

\* An operation on a session: whatever is saved, the others are disturbed,
\* and r leaves what it promises.
LEMMA SaveKeeps ==
    ASSUME IndInv, ~Jwt, NEW r \in Request, Handling(r),
           NEW v \in Values, NEW result \in {"ok", "failed", "lost"},
           NEW after \in Expectation,
           Agrees(intended[r], values[r]) => Agrees(after, v),
           Save(r, v, TRUE, result), Promise(r, after, result), Operation(r)
    PROVE  IndInv'
<1> USE DEF IndInv
<1>1. /\ store' = store /\ cookie' = cookie /\ carried' = carried
      /\ phase' = phase /\ ops' = ops + 1 /\ ops' \in 0 .. MaxOps
      /\ phase[r] = "handling"
  BY MaxOpsAssumption DEF Operation, Save, Handling, TypeOK
<1>2. SessionId(r) \in Request /\ SessionId(r) # None
  BY NoneAssumption DEF SessionId, TypeOK, Cookie
<1>3. /\ sessions' = IF result = "failed" THEN sessions
                     ELSE [sessions EXCEPT ![SessionId(r)] = v]
      /\ values' = [values EXCEPT ![r] = v]
      /\ written' = [written EXCEPT ![r] = result # "ok"]
      /\ reply' = IF result = "ok" THEN [reply EXCEPT ![r] = SessionId(r)]
                  ELSE reply
  BY DEF Save
<1>4. /\ intended' = [intended EXCEPT ![r] = after]
      /\ promised' = IF result = "failed" THEN promised
                     ELSE [promised EXCEPT ![r] = after]
      /\ expected' = IF result = "failed" THEN expected ELSE Forgotten
      /\ disturbed \subseteq disturbed'
      /\ result # "failed" => Others(r) \subseteq disturbed'
      /\ result = "lost" => r \in disturbed'
  BY PromiseType
<1>5. TypeOK'
  <2>1. /\ intended' \in [Request -> Expectation]
        /\ promised' \in [Request -> Expectation \cup {Nothing}]
        /\ disturbed' \subseteq Request
        /\ expected' \in Expectation
    BY PromiseType
  <2>2. /\ sessions' \in [Request -> Values]
        /\ values' \in [Request -> Values]
        /\ written' \in [Request -> BOOLEAN]
        /\ reply' \in [Request -> Cookie \cup {Nothing}]
    BY <1>2, <1>3 DEF TypeOK, Cookie
  <2>3. Cookie' = Cookie /\ Expectation' = Expectation
    BY <1>1 DEF Cookie, Expectation, Jwt
  <2> QED
    BY <1>1, <2>1, <2>2, <2>3 DEF TypeOK
<1>6. Unpromised'
  <2> SUFFICES ASSUME NEW q \in Request
               PROVE  /\ promised'[q] = Nothing => reply'[q] = Nothing
                      /\ phase[q] \in {"idle", "sent"} =>
                            promised'[q] = Nothing /\ ~written'[q]
    BY <1>1 DEF Unpromised, Jwt
  <2> QED
    BY <1>1, <1>3, <1>4, Shapes DEF Unpromised, TypeOK
<1>7. Alone'
  <2> SUFFICES ASSUME NEW q \in InFlight \ disturbed'
               PROVE  /\ carried[q] = cookie
                      /\ phase[q] # "sent" => Agrees(intended'[q], values'[q])
                      /\ promised'[q] # Nothing =>
                            Agrees(promised'[q], Contents(Left(q))')
    BY <1>1 DEF Alone, InFlight, Agrees, Jwt
  <2>1. q \in Request /\ q \in InFlight \ disturbed
    BY <1>4 DEF InFlight
  <2>2. CASE q = r
    <3>1. result # "lost"
      BY <1>4, <2>2
    <3>2. /\ carried[r] = cookie
          /\ Agrees(intended[r], values[r])
          /\ promised[r] # Nothing => Agrees(promised[r], Contents(Left(r)))
      BY <1>1, <2>1, <2>2 DEF Alone
    <3>3. Agrees(after, v) /\ intended'[r] = after /\ values'[r] = v
      BY <1>3, <1>4, <3>2 DEF TypeOK
    <3>4. CASE result = "ok"
      <4>1. Left(r)' = SessionId(r)
        BY <1>2, <1>3, <3>4, NothingAssumption DEF Left, TypeOK
      <4>2. Contents(Left(r))' = v
        BY <1>1, <1>2, <1>3, <3>4, <4>1 DEF Contents, TypeOK, Jwt
      <4> QED
        BY <1>4, <2>2, <3>2, <3>3, <3>4, <4>2 DEF TypeOK
    <3>5. CASE result = "failed"
      <4>1. Contents(Left(r))' = Contents(Left(r)) /\ promised' = promised
        BY <1>1, <1>3, <1>4, <3>5 DEF Contents, Left, Jwt
      <4> QED
        BY <2>2, <3>2, <3>3, <4>1
    <3> QED
      BY <3>1, <3>4, <3>5
  <2>3. CASE q # r
    <3>1. result = "failed"
      BY <1>4, <2>1, <2>3 DEF Others
    <3>2. /\ intended'[q] = intended[q] /\ values'[q] = values[q]
          /\ written'[q] = written[q] /\ promised'[q] = promised[q]
          /\ sessions' = sessions /\ reply' = reply
      BY <1>3, <1>4, <2>1, <2>3, <3>1 DEF TypeOK
    <3>3. Contents(Left(q))' = Contents(Left(q))
      BY <1>1, <3>2 DEF Contents, Left, Jwt
    <3> QED
      BY <2>1, <3>2, <3>3 DEF Alone
  <2> QED
    BY <2>2, <2>3
<1>8. SeenAsExpected'
  <2>1. CASE result = "failed"
    BY <1>1, <1>3, <1>4, <2>1 DEF SeenAsExpected, Agrees, Contents, Jwt
  <2>2. CASE result # "failed"
    BY <1>1, <1>4, <2>2 DEF SeenAsExpected, Agrees, Forgotten, Jwt
  <2> QED
    BY <2>1, <2>2
<1> QED
  BY <1>5, <1>6, <1>7, <1>8

\* An operation that has nothing to save changes nothing.
LEMMA IdleKeeps ==
    ASSUME IndInv, NEW r \in Request, Handling(r), Operation(r),
           UNCHANGED <<sessions, phase, values, written, reply, history>>
    PROVE  IndInv'
<1>1. UNCHANGED <<store, cookie, carried>> /\ ops' \in 0 .. MaxOps
  BY MaxOpsAssumption DEF Operation, Handling, IndInv, TypeOK
<1> USE <1>1 DEF IndInv, history
<1>2. TypeOK'
  BY DEF TypeOK, Cookie, Expectation, Jwt
<1>3. Unpromised'
  BY DEF Unpromised, Jwt
<1>4. Alone'
  BY DEF Alone, InFlight, Agrees, Contents, Left, Jwt
<1>5. SeenAsExpected'
  BY DEF SeenAsExpected, Agrees, Contents, Jwt
<1> QED
  BY <1>2, <1>3, <1>4, <1>5

\* An operation on a token: the answer sets it, whether the handler goes on
\* or panics.
LEMMA SignKeeps ==
    ASSUME IndInv, Jwt, NEW r \in Request, Handling(r),
           NEW claims \in User \cup Values \cup {None},
           phase' = phase \/ phase' = [phase EXCEPT ![r] = "answered"],
           Sign(r, claims), Promise(r, claims, "ok"), Operation(r)
    PROVE  IndInv'
<1> USE DEF IndInv
<1>1. /\ store' = store /\ cookie' = cookie /\ carried' = carried
      /\ sessions' = sessions /\ values' = values /\ written' = written
      /\ reply' = [reply EXCEPT ![r] = claims]
      /\ ops' = ops + 1 /\ ops' \in 0 .. MaxOps
      /\ phase[r] = "handling"
  BY MaxOpsAssumption DEF Operation, Sign, Handling, TypeOK
<1>2. claims \in Cookie /\ claims \in Expectation
  BY DEF Cookie, Expectation
<1>3. claims # Nothing
  BY <1>2, Shapes
<1>4. /\ intended' = [intended EXCEPT ![r] = claims]
      /\ promised' = [promised EXCEPT ![r] = claims]
      /\ expected' = Forgotten
      /\ disturbed \subseteq disturbed'
      /\ Others(r) \subseteq disturbed'
  BY <1>2, PromiseType
<1>5. TypeOK'
  <2>1. /\ intended' \in [Request -> Expectation]
        /\ promised' \in [Request -> Expectation \cup {Nothing}]
        /\ disturbed' \subseteq Request
        /\ expected' \in Expectation
    BY <1>2, PromiseType
  <2>2. Cookie' = Cookie /\ Expectation' = Expectation
    BY <1>1 DEF Cookie, Expectation, Jwt
  <2> QED
    BY <1>1, <1>2, <2>1, <2>2 DEF TypeOK
<1>6. Unpromised'
  BY <1>1, <1>3, <1>4 DEF Unpromised, TypeOK, Jwt
<1>7. Alone'
  <2> SUFFICES ASSUME NEW q \in InFlight' \ disturbed'
               PROVE  /\ carried[q] = cookie
                      /\ promised'[q] # Nothing =>
                            Agrees(promised'[q], Left(q)')
    BY <1>1 DEF Alone, Agrees, Jwt, Contents
  <2>1. q \in Request /\ q \in InFlight \ disturbed
    BY <1>1, <1>4 DEF InFlight, TypeOK
  <2>2. q = r
    BY <1>4, <2>1 DEF Others
  <2>3. Left(r)' = claims
    BY <1>1, <1>3 DEF Left, TypeOK
  <2> QED
    BY <1>4, <2>1, <2>2, <2>3 DEF Alone, Agrees, TypeOK
<1>8. SeenAsExpected'
  BY <1>1, <1>4 DEF SeenAsExpected, Agrees, Forgotten, Jwt
<1> QED
  BY <1>5, <1>6, <1>7, <1>8

-----------------------------------------------------------------------------
LEMMA SetUserKeeps ==
    ASSUME IndInv, NEW r \in Request, NEW u \in User, SetUser(r, u)
    PROVE  IndInv'
<1>1. PICK result \in Results :
          /\ IF Jwt THEN JwtSetUser(r, u) ELSE SessionSetUser(r, u, result)
          /\ Promise(r, IF Jwt THEN u ELSE [intended[r] EXCEPT ![UserKey] = u], result)
  BY DEF SetUser
<1>2. Handling(r) /\ Operation(r) /\ result \in {"ok", "failed", "lost"}
  BY DEF SetUser, Results
<1>3. CASE Jwt
  BY <1>1, <1>2, <1>3, SignKeeps DEF JwtSetUser, Results, Jwt
<1>4. CASE ~Jwt
  <2> DEFINE v == [values[r] EXCEPT ![UserKey] = u]
             after == [intended[r] EXCEPT ![UserKey] = u]
  <2>1. /\ values[r] \in Values
        /\ intended[r] \in [Key -> Value \cup {None, Unknown}]
    BY <1>4 DEF IndInv, TypeOK, Expectation
  <2>2. v \in Values /\ after \in Expectation
    BY <1>4, <2>1 DEF Values, Value, Expectation
  <2>3. Agrees(intended[r], values[r]) => Agrees(after, v)
    BY <1>4, <2>1 DEF Agrees, Values
  <2>4. Save(r, v, TRUE, result) /\ Promise(r, after, result)
    BY <1>1, <1>4 DEF SessionSetUser
  <2> HIDE DEF v, after
  <2> QED
    BY <1>2, <1>4, <2>2, <2>3, <2>4, SaveKeeps
<1> QED
  BY <1>3, <1>4

LEMMA SetAllKeeps ==
    ASSUME IndInv, NEW r \in Request, NEW m \in Maps, SetAll(r, m)
    PROVE  IndInv'
<1>1. PICK result \in Results :
          /\ IF Jwt THEN JwtSetAll(r, m) ELSE SessionSetAll(r, m, result)
          /\ IF Jwt \/ written[r] \/ m # NoValues
             THEN Promise(r, IF Jwt THEN m ELSE Merged(intended[r], m), result)
             ELSE UNCHANGED history
  BY DEF SetAll
<1>2. Handling(r) /\ Operation(r) /\ result \in {"ok", "failed", "lost"}
  BY DEF SetAll, Results
<1>3. m \in Values
  BY MapsAssumption
<1>4. CASE Jwt
  <2>1. phase' = phase \/ phase' = [phase EXCEPT ![r] = "answered"]
    BY <1>1, <1>4 DEF JwtSetAll, IndInv, TypeOK
  <2> QED
    BY <1>1, <1>2, <1>3, <1>4, <2>1, SignKeeps DEF JwtSetAll, Results, Jwt
<1>5. CASE ~Jwt
  <2> DEFINE v == Merged(values[r], m)
             after == Merged(intended[r], m)
  <2>1. /\ values[r] \in Values
        /\ intended[r] \in [Key -> Value \cup {None, Unknown}]
        /\ written[r] \in BOOLEAN
    BY <1>5 DEF IndInv, TypeOK, Expectation
  <2>2. v \in Values /\ after \in Expectation
    BY <1>3, <1>5, <2>1 DEF Merged, Values, Expectation
  <2>3. Agrees(intended[r], values[r]) => Agrees(after, v)
    BY <1>5 DEF Agrees, Merged
  <2>4. CASE written[r] \/ m # NoValues
    <3>1. Save(r, v, TRUE, result) /\ Promise(r, after, result)
      BY <1>1, <1>5, <2>1, <2>4 DEF SessionSetAll
    <3> HIDE DEF v, after
    <3> QED
      BY <1>2, <1>5, <2>2, <2>3, <3>1, SaveKeeps
  <2>5. CASE ~(written[r] \/ m # NoValues)
    <3>1. v = values[r]
      BY <2>1, <2>5 DEF Merged, NoValues, Values
    <3>2. Save(r, v, FALSE, result) /\ UNCHANGED history
      BY <1>1, <1>5, <2>1, <2>5 DEF SessionSetAll
    <3>3. UNCHANGED <<sessions, phase, values, written, reply>>
      BY <3>1, <3>2 DEF Save, IndInv, TypeOK
    <3> QED
      BY <1>2, <3>2, <3>3, IdleKeeps
  <2> QED
    BY <2>4, <2>5
<1> QED
  BY <1>4, <1>5

LEMMA ClearAllKeeps ==
    ASSUME IndInv, NEW r \in Request, NEW K \in Clears, ClearAll(r, K)
    PROVE  IndInv'
<1>1. PICK result \in Results :
          /\ IF Jwt THEN JwtClearAll(r) ELSE SessionClearAll(r, K, result)
          /\ IF Jwt \/ written[r] \/ K # {}
             THEN Promise(r, IF Jwt THEN None ELSE Without(intended[r], K), result)
             ELSE UNCHANGED history
  BY DEF ClearAll
<1>2. Handling(r) /\ Operation(r) /\ result \in {"ok", "failed", "lost"}
  BY DEF ClearAll, Results
<1>3. CASE Jwt
  BY <1>1, <1>2, <1>3, SignKeeps DEF JwtClearAll, Results, Jwt
<1>4. CASE ~Jwt
  <2> DEFINE v == Without(values[r], K)
             after == Without(intended[r], K)
  <2>1. /\ values[r] \in Values
        /\ intended[r] \in [Key -> Value \cup {None, Unknown}]
        /\ written[r] \in BOOLEAN
    BY <1>4 DEF IndInv, TypeOK, Expectation
  <2>2. v \in Values /\ after \in Expectation
    BY <1>4, <2>1 DEF Without, Values, Expectation
  <2>3. Agrees(intended[r], values[r]) => Agrees(after, v)
    BY <1>4 DEF Agrees, Without
  <2>4. CASE written[r] \/ K # {}
    <3>1. Save(r, v, TRUE, result) /\ Promise(r, after, result)
      BY <1>1, <1>4, <2>1, <2>4 DEF SessionClearAll
    <3> HIDE DEF v, after
    <3> QED
      BY <1>2, <1>4, <2>2, <2>3, <3>1, SaveKeeps
  <2>5. CASE ~(written[r] \/ K # {})
    <3>1. v = values[r]
      BY <2>1, <2>5 DEF Without, Values
    <3>2. Save(r, v, FALSE, result) /\ UNCHANGED history
      BY <1>1, <1>4, <2>1, <2>5 DEF SessionClearAll
    <3>3. UNCHANGED <<sessions, phase, values, written, reply>>
      BY <3>1, <3>2 DEF Save, IndInv, TypeOK
    <3> QED
      BY <1>2, <3>2, <3>3, IdleKeeps
  <2> QED
    BY <2>4, <2>5
<1> QED
  BY <1>3, <1>4

\* Set with nothing to make good for changes nothing; else it saves what an
\* operation that failed has left.
LEMMA SetKeeps ==
    ASSUME IndInv, NEW r \in Request, Set(r)
    PROVE  IndInv'
<1>1. PICK result \in Results :
          /\ IF Jwt THEN JwtSet(r) ELSE SessionSet(r, result)
          /\ IF written[r] THEN Promise(r, intended[r], result)
             ELSE UNCHANGED history
  BY DEF Set
<1>2. Handling(r) /\ Operation(r) /\ result \in {"ok", "failed", "lost"}
  BY DEF Set, Results
<1>3. CASE written[r]
  <2>1. ~Jwt
    BY <1>3 DEF IndInv, Unpromised
  <2>2. /\ values[r] \in Values /\ intended[r] \in Expectation
        /\ written[r] \in BOOLEAN
    BY DEF IndInv, TypeOK
  <2>3. Save(r, values[r], TRUE, result) /\ Promise(r, intended[r], result)
    BY <1>1, <1>3, <2>1, <2>2 DEF SessionSet
  <2> QED
    BY <1>2, <1>3, <2>1, <2>2, <2>3, SaveKeeps
<1>4. CASE ~written[r]
  <2>1. UNCHANGED <<sessions, phase, values, written, reply, history>>
    BY <1>1, <1>4 DEF JwtSet, SessionSet, Save, IndInv, TypeOK
  <2> QED
    BY <1>2, <2>1, IdleKeeps
<1> QED
  BY <1>3, <1>4

-----------------------------------------------------------------------------
\* Requests that end are not in flight, and leave the others what they have.
LEMMA FinishKeeps ==
    ASSUME IndInv, NEW R \in SUBSET Request, Finish(R), store' = store,
           cookie' \in Cookie, sessions' \in [Request -> Values],
           expected' \in Expectation, disturbed' \in SUBSET Request,
           SeenAsExpected',
           \A q \in (InFlight \ R) \ disturbed' :
              q \notin disturbed /\ cookie' = cookie /\ sessions' = sessions
    PROVE  IndInv'
<1> USE DEF IndInv, Finish
<1>1. TypeOK'
  <2>1. Cookie' = Cookie /\ Expectation' = Expectation /\ Fresh \in Expectation
    BY Shapes DEF Cookie, Expectation, Jwt
  <2> QED
    BY <2>1, Shapes DEF TypeOK
<1>2. Unpromised'
  BY DEF Unpromised, TypeOK, Jwt
<1>3. Alone'
  <2> SUFFICES ASSUME NEW q \in InFlight' \ disturbed'
               PROVE  /\ carried'[q] = cookie'
                      /\ ~Jwt /\ phase'[q] # "sent" =>
                            Agrees(intended'[q], values'[q])
                      /\ promised'[q] # Nothing =>
                            Agrees(promised'[q], Contents(Left(q))')
    BY DEF Alone, Agrees, Jwt
  <2>1. q \in Request /\ q \in InFlight \ R
    BY DEF InFlight, TypeOK
  <2>2. q \notin disturbed /\ cookie' = cookie /\ sessions' = sessions
    BY <2>1
  <2>3. /\ carried'[q] = carried[q] /\ phase'[q] = phase[q]
        /\ intended'[q] = intended[q] /\ values'[q] = values[q]
        /\ written'[q] = written[q] /\ promised'[q] = promised[q]
        /\ reply'[q] = reply[q]
    BY <2>1 DEF TypeOK
  <2>4. Contents(Left(q))' = Contents(Left(q))
    BY <2>2, <2>3 DEF Contents, Left, Jwt
  <2> QED
    BY <2>1, <2>2, <2>3, <2>4 DEF Alone
<1> QED
  BY <1>1, <1>2, <1>3

LEMMA DeliverKeeps ==
    ASSUME IndInv, NEW r \in Request, Deliver(r)
    PROVE  IndInv'
<1> USE DEF IndInv, Deliver
<1>1. /\ cookie' \in Cookie /\ sessions' \in [Request -> Values]
      /\ disturbed' \in SUBSET Request
  BY DEF TypeOK, Others, InFlight
<1>2. expected' \in Expectation
  BY Shapes DEF TypeOK
<1>3. promised[r] = Nothing => cookie' = cookie
  BY DEF Unpromised
<1>4. SeenAsExpected'
  <2>1. CASE promised[r] = Nothing
    BY <1>3, <2>1 DEF SeenAsExpected, Agrees, Contents, Jwt
  <2>2. CASE promised[r] # Nothing /\ r \in disturbed
    BY <2>2 DEF SeenAsExpected, Agrees, Forgotten, Jwt
  <2>3. CASE promised[r] # Nothing /\ r \notin disturbed
    <3>1. carried[r] = cookie /\ Agrees(promised[r], Contents(Left(r)))
      BY <2>3 DEF Alone, InFlight
    <3>2. Left(r) = cookie'
      BY <3>1 DEF Left
    <3> QED
      BY <2>3, <3>1, <3>2 DEF SeenAsExpected, Agrees, Contents, Jwt
  <2> QED
    BY <2>1, <2>2, <2>3
<1>5. \A q \in (InFlight \ {r}) \ disturbed' :
        q \notin disturbed /\ cookie' = cookie /\ sessions' = sessions
  BY <1>3 DEF Others
<1> QED
  BY <1>1, <1>2, <1>4, <1>5, FinishKeeps

LEMMA LoseKeeps ==
    ASSUME IndInv, NEW r \in Request, Lose(r)
    PROVE  IndInv'
<1> USE DEF IndInv, Lose, memory
<1>1. /\ cookie' \in Cookie /\ sessions' \in [Request -> Values]
      /\ disturbed' \in SUBSET Request /\ expected' \in Expectation
  BY Shapes DEF TypeOK
<1>2. SeenAsExpected'
  BY DEF SeenAsExpected, Agrees, Contents, Forgotten, Jwt
<1> QED
  BY <1>1, <1>2, FinishKeeps

LEMMA RestartKeeps ==
    ASSUME IndInv, Restart
    PROVE  IndInv'
<1> USE DEF IndInv, Restart
<1>1. InFlight \in SUBSET Request
  BY DEF InFlight
<1>2. /\ cookie' \in Cookie /\ sessions' \in [Request -> Values]
      /\ disturbed' \in SUBSET Request
  BY Shapes DEF TypeOK
<1>3. expected' \in Expectation /\ SeenAsExpected'
  <2>1. CASE store = "memory"
    <3>1. ~Jwt /\ Fresh = NoValues
      BY <2>1, Shapes DEF Jwt
    <3>2. Contents(cookie)' = NoValues
      BY <2>1, <3>1 DEF Contents, Jwt, TypeOK, Cookie
    <3> QED
      BY <2>1, <3>1, <3>2, Shapes DEF SeenAsExpected, Agrees, Jwt
  <2>2. CASE store # "memory"
    BY <2>2, Shapes DEF SeenAsExpected, Agrees, Contents, Forgotten, Jwt, TypeOK
  <2> QED
    BY <2>1, <2>2
<1> QED
  BY <1>1, <1>2, <1>3, FinishKeeps

\* What expires disturbs every request in flight, so that nothing is claimed
\* of any.
LEMMA ExpiryKeeps ==
    ASSUME IndInv, UNCHANGED <<store, handler, intended, promised>>,
           disturbed' = disturbed \cup InFlight,
           cookie' \in Cookie, sessions' \in [Request -> Values],
           expected' \in Expectation, SeenAsExpected'
    PROVE  IndInv'
<1> USE DEF IndInv, handler
<1>1. TypeOK'
  BY DEF TypeOK, Cookie, Expectation, Jwt, InFlight
<1>2. Unpromised'
  BY DEF Unpromised, Jwt
<1>3. Alone'
  BY DEF Alone, InFlight
<1> QED
  BY <1>1, <1>2, <1>3

LEMMA CookieExpiresKeeps ==
    ASSUME IndInv, CookieExpires
    PROVE  IndInv'
<1>1. SeenAsExpected'
  BY FreshAgrees
  DEF CookieExpires, SeenAsExpected, Agrees, Contents, Jwt, Fresh
<1> QED
  BY <1>1, Shapes, ExpiryKeeps DEF CookieExpires, IndInv, TypeOK

LEMMA SessionExpiresKeeps ==
    ASSUME IndInv, NEW s \in Request, SessionExpires(s)
    PROVE  IndInv'
<1> USE DEF IndInv, SessionExpires
<1>1. ~Jwt /\ NoValues = Fresh
  BY Shapes DEF Jwt
<1>2. SeenAsExpected'
  <2>1. CASE cookie = s
    <3>1. Contents(cookie)' = NoValues
      BY <1>1, <2>1 DEF Contents, Jwt, TypeOK
    <3> QED
      BY <1>1, <2>1, <3>1 DEF SeenAsExpected, Agrees, Jwt
  <2>2. CASE cookie # s
    <3>1. Contents(cookie)' = Contents(cookie)
      BY <1>1, <2>2 DEF Contents, Jwt, TypeOK, Cookie
    <3> QED
      BY <1>1, <2>2, <3>1 DEF SeenAsExpected, Agrees, Jwt
  <2> QED
    BY <2>1, <2>2
<1> QED
  BY <1>1, <1>2, Shapes, ExpiryKeeps DEF TypeOK

-----------------------------------------------------------------------------
LEMMA StepIndInv == IndInv /\ [Next]_vars => IndInv'
<1> SUFFICES ASSUME IndInv, [Next]_vars PROVE IndInv'
  OBVIOUS
<1>1. CASE UNCHANGED vars
  <2> USE <1>1 DEF vars, memory, handler, history, IndInv
  <2>1. TypeOK'
    BY DEF TypeOK, Cookie, Expectation, Jwt
  <2>2. Unpromised'
    BY DEF Unpromised, Jwt
  <2>3. Alone'
    BY DEF Alone, InFlight, Agrees, Contents, Left, Jwt
  <2>4. SeenAsExpected'
    BY DEF SeenAsExpected, Agrees, Contents, Jwt
  <2> QED
    BY <2>1, <2>2, <2>3, <2>4
<1>2. ASSUME NEW r \in Request,
             \/ Send(r) \/ ParseUser(r) \/ Answer(r) \/ Deliver(r) \/ Lose(r)
      PROVE  IndInv'
  BY <1>2, SendKeeps, ParseUserKeeps, AnswerKeeps, DeliverKeeps, LoseKeeps
<1>3. ASSUME NEW r \in Request,
             \/ \E u \in User : SetUser(r, u)
             \/ \E m \in Maps : SetAll(r, m)
             \/ \E K \in Clears : ClearAll(r, K)
             \/ Set(r)
      PROVE  IndInv'
  BY <1>3, SetUserKeeps, SetAllKeeps, ClearAllKeeps, SetKeeps
<1>4. CASE CookieExpires
  BY <1>4, CookieExpiresKeeps
<1>5. ASSUME NEW s \in Request, SessionExpires(s)
      PROVE  IndInv'
  BY <1>5, SessionExpiresKeeps
<1>6. CASE Restart
  BY <1>6, RestartKeeps
<1>7. CASE Terminated
  BY <1>1, <1>7 DEF Terminated
<1> QED
  BY <1>1, <1>2, <1>3, <1>4, <1>5, <1>6, <1>7 DEF Next

\* The inductive invariant of the state stores.
THEOREM IndInvariant == Spec => []IndInv
<1> QED
  BY InitIndInv, StepIndInv, PTL DEF Spec

\* Every variable keeps its type.
THEOREM TypeCorrect == Spec => []TypeOK
<1>1. IndInv => TypeOK
  BY DEF IndInv
<1> QED
  BY <1>1, IndInvariant, PTL

\* On every kind of store, for any number of requests in any interleaving,
\* with losses, expiry, restarts and a redis that fails to load or to save:
\* the next request finds what the operations have promised, unless requests
\* that write overlap.  What a request promises is what it sets and clears,
\* and of the rest what it has found; a request whose session could not be
\* loaded has found nothing.
THEOREM StateKept == Spec => []SeenAsExpected
<1>1. IndInv => SeenAsExpected
  BY DEF IndInv
<1> QED
  BY <1>1, IndInvariant, PTL

=============================================================================
