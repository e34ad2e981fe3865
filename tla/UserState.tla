------------------------------ MODULE UserState ------------------------------
(***************************************************************************)
(* The state stores of app/state_store.go at request time: how the user of *)
(* one browser is remembered between its requests, which may overlap.      *)
(*                                                                         *)
(* A "jwt" store keeps everything in a cookie, a "memory" or "redis" store *)
(* a session under an id that the cookie carries.  gin-contrib's sessions  *)
(* load the whole session when a request is parsed, and Save writes it     *)
(* back as a whole, whether or not it could be loaded.  Claims and session *)
(* values are strings, or something else; the JSON of a user is the user.  *)
(***************************************************************************)
EXTENDS Naturals

CONSTANTS
    Request,    \* the browser's requests, once each
    User,       \* what SetUser may be given
    Junk,       \* a string that is not the JSON of a user
    NonString,  \* a value that is not a string
    Maps,       \* what SetAll may be given
    Clears,     \* the sets of keys ClearAll may be given
    MaxOps,     \* bound on the operations of all requests
    None,       \* no value, no cookie
    Nothing,    \* no cookie in the answer, nothing promised
    Unknown     \* history: the requests raced, or one did not know the value

UserKey == "user"
Key == {UserKey, "other"}
Value == User \cup {Junk, NonString}
Values == [Key -> Value \cup {None}]
NoValues == [k \in Key |-> None]

ASSUME MapsAssumption == Maps \subseteq Values /\ Clears \subseteq SUBSET Key
ASSUME NoneAssumption == None \notin User \cup Values \cup Request \cup {Junk, NonString}
ASSUME NothingAssumption ==
    {Nothing, Unknown} \cap (User \cup Values \cup Request \cup {Junk, NonString, None}) = {}
ASSUME UnknownAssumption ==
    /\ Unknown # Nothing
    /\ Nothing \notin [Key -> Value \cup {None, Unknown}]
ASSUME MaxOpsAssumption == MaxOps \in Nat

VARIABLES
    store,      \* rigid: "jwt", "memory" or "redis"
    cookie,     \* the browser's: the claims of the token, or a session id
    sessions,   \* the values of each session; a request names the one it makes
    phase,      \* how far each request is
    carried,    \* the cookie it came with
    values,     \* its session's values, as loaded and changed since
    written,    \* it has changes that are not saved
    reply,      \* the cookie its answer sets
    ops,        \* how many operations there have been
    \* history
    intended,   \* the state after its operations, had it been alone
    promised,   \* the same at its last operation that returned no error
    disturbed,  \* the requests that overlapped with one that writes
    expected    \* the state the next request should find

memory == <<cookie, sessions>>
handler == <<phase, carried, values, written, reply, ops>>
history == <<intended, promised, disturbed, expected>>
vars == <<store, memory, handler, history>>

Jwt == store = "jwt"

\* What a request with cookie c finds.
Contents(c) ==
    IF Jwt THEN c ELSE IF c = None THEN NoValues ELSE sessions[c]

Fresh == IF Jwt THEN None ELSE NoValues

Init ==
    /\ store \in {"jwt", "memory", "redis"}
    /\ cookie = None
    /\ sessions = [r \in Request |-> NoValues]
    /\ phase = [r \in Request |-> "idle"]
    /\ carried = [r \in Request |-> None]
    /\ values = [r \in Request |-> NoValues]
    /\ written = [r \in Request |-> FALSE]
    /\ reply = [r \in Request |-> Nothing]
    /\ ops = 0
    /\ intended = [r \in Request |-> Fresh]
    /\ promised = [r \in Request |-> Nothing]
    /\ disturbed = {}
    /\ expected = Fresh

-----------------------------------------------------------------------------
(***************************************************************************)
(* History                                                                 *)
(***************************************************************************)
\* What is expected of a token, and of each value of a session.
Expectation ==
    IF Jwt THEN User \cup Values \cup {None, Unknown}
    ELSE [Key -> Value \cup {None, Unknown}]

Agrees(e, c) ==
    IF Jwt THEN e \in {Unknown, c} ELSE \A k \in Key : e[k] \in {Unknown, c[k]}

Forgotten == IF Jwt THEN Unknown ELSE [k \in Key |-> Unknown]

InFlight == {r \in Request : phase[r] \in {"sent", "handling", "answered"}}

Others(r) == InFlight \ {r}

Writers(R) == {q \in R : promised[q] # Nothing}

\* What operations promise, see SetUser and so on: what they set or clear, and
\* of the other values what the request has found, if it could load them.  An
\* operation that returns an error may have been executed or not.
Promise(r, after, result) ==
    /\ intended' = [intended EXCEPT ![r] = after]
    /\ IF result = "failed" THEN UNCHANGED <<promised, disturbed, expected>>
       ELSE /\ promised' = [promised EXCEPT ![r] = after]
            /\ disturbed' = disturbed \cup Others(r) \cup
                  (IF result = "lost" \/ Writers(Others(r)) # {} THEN {r} ELSE {})
            /\ expected' = Forgotten

-----------------------------------------------------------------------------
(***************************************************************************)
(* A request                                                               *)
(***************************************************************************)

\* The browser sends a request with its cookie.
Send(r) ==
    /\ phase[r] = "idle"
    /\ phase' = [phase EXCEPT ![r] = "sent"]
    /\ carried' = [carried EXCEPT ![r] = cookie]
    /\ UNCHANGED <<store, memory, values, written, reply, ops, history>>

\* JwtStore.ParseUser: the claims, if there are any, go to the StateBuilder;
\* without them the handlers run as well.
JwtParseUser(r) ==
    /\ phase' = [phase EXCEPT ![r] = "handling"]
    /\ UNCHANGED values

\* The session is loaded when it is first used, with a GET if the request
\* came with an id.  That redis fails is logged at most.
Loads(r) == IF store = "redis" /\ carried[r] # None THEN {"ok", "failed"} ELSE {"ok"}

BugSessionParseUser(r, load) ==
    LET loaded == IF load = "failed" THEN None ELSE Contents(carried[r]) IN
    /\ values' = [values EXCEPT ![r] = loaded]
    /\ phase' = [phase EXCEPT ![r] = "handling"]

\* SessionStore.ParseUser: a user that is not JSON ends the request with an
\* error, one that is no string with a panic.  Without a user, and so with a
\* session that could not be loaded, the handlers run; it keeps its id.
SessionParseUser(r, load) ==
    LET loaded == IF load = "failed" THEN NoValues ELSE Contents(carried[r]) IN
    /\ values' = [values EXCEPT ![r] = loaded]
    /\ phase' = [phase EXCEPT ![r] = IF loaded[UserKey] \in {Junk, NonString}
                                     THEN "answered" ELSE "handling"]

\* The middlewares of Use run, then the handlers.
ParseUser(r) ==
    /\ phase[r] = "sent"
    /\ \E load \in Loads(r) :
          /\ IF Jwt THEN JwtParseUser(r) ELSE SessionParseUser(r, load)
          /\ intended' = [intended EXCEPT ![r] = IF load = "failed" THEN Forgotten
                                                ELSE expected]
    /\ UNCHANGED <<store, memory, carried, written, reply, ops, promised,
                   disturbed, expected>>

-----------------------------------------------------------------------------
(***************************************************************************)
(* What the handlers do                                                    *)
(***************************************************************************)
Handling(r) == phase[r] = "handling" /\ ops < MaxOps

\* Redis may fail, having executed the command or not.
Results == IF store = "redis" THEN {"ok", "failed", "lost"} ELSE {"ok"}

\* The token of an earlier operation is overwritten in the answer.
Sign(r, claims) ==
    /\ reply' = [reply EXCEPT ![r] = claims]
    /\ UNCHANGED <<sessions, values, written>>

JwtSetUser(r, u) == Sign(r, u) /\ UNCHANGED phase

\* SetAll also sets a cookie for each key, and panics at a value that is no
\* string when the token is set already.
JwtSetAll(r, m) ==
    /\ Sign(r, m)
    /\ phase' = [phase EXCEPT ![r] = IF \E k \in Key : m[k] \notin User \cup {Junk, None}
                                     THEN "answered" ELSE @]

\* The token goes, whatever keys are named.
JwtClearAll(r) == Sign(r, None) /\ UNCHANGED phase

JwtSet(r) == UNCHANGED <<phase, sessions, values, written, reply>>

\* sessions.Session: the id that the request came with, or a new one.
SessionId(r) == IF carried[r] = None THEN r ELSE carried[r]

\* Session.Save: nothing, unless Set or Delete was called since the last one
\* that succeeded.
Save(r, v, changed, result) ==
    /\ values' = [values EXCEPT ![r] = v]
    /\ IF ~changed THEN UNCHANGED <<sessions, written, reply>>
       ELSE /\ sessions' = IF result = "failed" THEN sessions
                           ELSE [sessions EXCEPT ![SessionId(r)] = v]
            /\ written' = [written EXCEPT ![r] = result # "ok"]
            /\ reply' = IF result # "ok" THEN reply
                        ELSE [reply EXCEPT ![r] = SessionId(r)]
    /\ UNCHANGED phase

SessionSetUser(r, u, result) ==
    Save(r, [values[r] EXCEPT ![UserKey] = u], TRUE, result)

Merged(v, m) == [k \in Key |-> IF m[k] = None THEN v[k] ELSE m[k]]

SessionSetAll(r, m, result) ==
    Save(r, Merged(values[r], m), written[r] \/ m # NoValues, result)

Without(v, K) == [k \in Key |-> IF k \in K THEN None ELSE v[k]]

SessionClearAll(r, K, result) ==
    Save(r, Without(values[r], K), written[r] \/ K # {}, result)

BugSessionSet(r, result) == Save(r, values[r], TRUE, result)

\* Set puts the value into the request's context, not into the session.
SessionSet(r, result) == Save(r, values[r], written[r], result)

Operation(r) ==
    /\ ops' = ops + 1
    /\ UNCHANGED <<store, cookie, carried>>

SetUser(r, u) ==
    /\ Handling(r)
    /\ \E result \in Results :
          /\ IF Jwt THEN JwtSetUser(r, u) ELSE SessionSetUser(r, u, result)
          /\ Promise(r, IF Jwt THEN u ELSE [intended[r] EXCEPT ![UserKey] = u], result)
    /\ Operation(r)

\* SetAll and ClearAll of nothing promise nothing, nor does Set; but they may
\* make good for an operation that failed.
SetAll(r, m) ==
    /\ Handling(r)
    /\ \E result \in Results :
          /\ IF Jwt THEN JwtSetAll(r, m) ELSE SessionSetAll(r, m, result)
          /\ IF Jwt \/ written[r] \/ m # NoValues
             THEN Promise(r, IF Jwt THEN m ELSE Merged(intended[r], m), result)
             ELSE UNCHANGED history
    /\ Operation(r)

ClearAll(r, K) ==
    /\ Handling(r)
    /\ \E result \in Results :
          /\ IF Jwt THEN JwtClearAll(r) ELSE SessionClearAll(r, K, result)
          /\ IF Jwt \/ written[r] \/ K # {}
             THEN Promise(r, IF Jwt THEN None ELSE Without(intended[r], K), result)
             ELSE UNCHANGED history
    /\ Operation(r)

Set(r) ==
    /\ Handling(r)
    /\ \E result \in Results :
          /\ IF Jwt THEN JwtSet(r) ELSE SessionSet(r, result)
          /\ IF written[r] THEN Promise(r, intended[r], result)
             ELSE UNCHANGED history
    /\ Operation(r)

-----------------------------------------------------------------------------
(***************************************************************************)
(* Answers, and what happens meanwhile                                     *)
(***************************************************************************)
Answer(r) ==
    /\ phase[r] = "handling"
    /\ phase' = [phase EXCEPT ![r] = "answered"]
    /\ UNCHANGED <<store, memory, carried, values, written, reply, ops, history>>

\* The requests in R end, and with them what they keep.
Finish(R) ==
    /\ phase' = [r \in Request |-> IF r \in R THEN "done" ELSE phase[r]]
    /\ carried' = [r \in Request |-> IF r \in R THEN None ELSE carried[r]]
    /\ values' = [r \in Request |-> IF r \in R THEN NoValues ELSE values[r]]
    /\ written' = [r \in Request |-> r \notin R /\ written[r]]
    /\ reply' = [r \in Request |-> IF r \in R THEN Nothing ELSE reply[r]]
    /\ UNCHANGED ops
    /\ intended' = [r \in Request |-> IF r \in R THEN Fresh ELSE intended[r]]
    /\ promised' = [r \in Request |-> IF r \in R THEN Nothing ELSE promised[r]]

\* The answer arrives, and the browser keeps the cookie.
Deliver(r) ==
    /\ phase[r] = "answered"
    /\ cookie' = IF reply[r] = Nothing THEN cookie ELSE reply[r]
    /\ expected' = IF promised[r] = Nothing THEN expected
                   ELSE IF r \in disturbed THEN Forgotten ELSE promised[r]
    /\ disturbed' = IF promised[r] = Nothing THEN disturbed \ {r}
                    ELSE (disturbed \cup Others(r)) \ {r}
    /\ Finish({r})
    /\ UNCHANGED <<store, sessions>>

\* The request or its answer gets lost.
Lose(r) ==
    /\ phase[r] \in {"sent", "answered"}
    /\ expected' = IF promised[r] = Nothing THEN expected ELSE Forgotten
    /\ disturbed' = disturbed \ {r}
    /\ Finish({r})
    /\ UNCHANGED <<store, memory>>

\* The browser drops a cookie after its MaxAge.
CookieExpires ==
    /\ cookie # None
    /\ cookie' = None
    /\ expected' = Fresh
    /\ disturbed' = disturbed \cup InFlight
    /\ UNCHANGED <<store, sessions, handler, intended, promised>>

\* Redis drops a session after its MaxAge.
SessionExpires(s) ==
    /\ store = "redis" /\ sessions[s] # NoValues
    /\ sessions' = [sessions EXCEPT ![s] = NoValues]
    /\ expected' = IF cookie = s THEN NoValues ELSE expected
    /\ disturbed' = disturbed \cup InFlight
    /\ UNCHANGED <<store, cookie, handler, intended, promised>>

\* The program ends and is started again: sessions in memory are gone, and
\* so are the requests.
Restart ==
    /\ InFlight # {}
    /\ sessions' = IF store = "memory" THEN [r \in Request |-> NoValues] ELSE sessions
    /\ expected' = IF store = "memory" THEN NoValues
                   ELSE IF Writers(InFlight) = {} THEN expected ELSE Forgotten
    /\ disturbed' = {}
    /\ Finish(InFlight)
    /\ UNCHANGED <<store, cookie>>

Terminated ==
    /\ \A r \in Request : phase[r] = "done"
    /\ UNCHANGED vars

Next ==
    \/ \E r \in Request :
          \/ Send(r) \/ ParseUser(r)
          \/ \E u \in User : SetUser(r, u)
          \/ \E m \in Maps : SetAll(r, m)
          \/ \E K \in Clears : ClearAll(r, K)
          \/ Set(r)
          \/ Answer(r) \/ Deliver(r) \/ Lose(r)
    \/ CookieExpires
    \/ \E s \in Request : SessionExpires(s)
    \/ Restart
    \/ Terminated

Spec == Init /\ [][Next]_vars

-----------------------------------------------------------------------------
Cookie == IF Jwt THEN User \cup Values \cup {None} ELSE Request \cup {None}

TypeOK ==
    /\ store \in {"jwt", "memory", "redis"}
    /\ cookie \in Cookie
    /\ sessions \in [Request -> Values]
    /\ phase \in [Request -> {"idle", "sent", "handling", "answered", "done"}]
    /\ carried \in [Request -> Cookie]
    /\ values \in [Request -> Values]
    /\ written \in [Request -> BOOLEAN]
    /\ reply \in [Request -> Cookie \cup {Nothing}]
    /\ ops \in 0 .. MaxOps
    /\ intended \in [Request -> Expectation]
    /\ promised \in [Request -> Expectation \cup {Nothing}]
    /\ disturbed \subseteq Request
    /\ expected \in Expectation

\* What SetUser, SetAll and ClearAll have promised is what the next request
\* finds, unless requests that write have overlapped: nothing that only
\* reads, sets a value of its own context, fails or is lost changes it, also
\* when the session could not be loaded, and a user that was cleared does not
\* come back.  Where requests that write do overlap, nothing is said; and
\* nothing of the values that an operation did not name in a request whose
\* session could not be loaded: it overwrites them, also when it is alone.
SeenAsExpected == Agrees(expected, Contents(cookie))

\* The cookie the browser has when r is answered, if nothing else happens.
Left(r) == IF reply[r] = Nothing THEN carried[r] ELSE reply[r]

\* A request that has not promised anything sets no cookie, and has no
\* changes before its handlers run, nor ever with a token.
Unpromised ==
    \A r \in Request :
        /\ promised[r] = Nothing => reply[r] = Nothing
        /\ phase[r] \in {"idle", "sent"} => promised[r] = Nothing /\ ~written[r]
        /\ Jwt => ~written[r]

\* A request that is not disturbed came with the cookie the browser still
\* has, has the values it may promise, and will leave what it promised.
Alone ==
    \A r \in InFlight \ disturbed :
        /\ carried[r] = cookie
        /\ ~Jwt /\ phase[r] # "sent" => Agrees(intended[r], values[r])
        /\ promised[r] # Nothing => Agrees(promised[r], Contents(Left(r)))

IndInv == TypeOK /\ Unpromised /\ Alone /\ SeenAsExpected

=============================================================================
