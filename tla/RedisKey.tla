------------------------------ MODULE RedisKey ------------------------------
(***************************************************************************)
(* The helpers of db/redis.go on one key of an external redis:             *)
(* RedisGetAndRefreshExpireTime is a GET and an EXPIRE, and between the    *)
(* two the key may expire or be set by others. A connection that breaks    *)
(* leaves it open whether the command was executed.                        *)
(***************************************************************************)
EXTENDS Integers

CONSTANTS
    Caller,
    Val,    \* the values, Empty among them
    Empty,  \* the empty string
    Time,   \* the expiry everybody uses for the key, in ticks
    None

ASSUME TimeAssumption == Time \in Nat \ {0}
ASSUME ValAssumption == Empty \in Val /\ None \notin Val

VARIABLES
    value,     \* the key, None when there is none
    ttl,       \* the ticks it has left
    at,        \* where each caller stands
    str,       \* what GET gave it
    answer,    \* what its last call returned, and whether with an error
    missed,    \* history: the key was missing or empty at some moment of its call
    fresh      \* history: the ticks left of the time it asked for when it got a value

key == <<value, ttl>>
keyVars == <<key, at, str, answer, missed, fresh>>

KeyInit ==
    /\ value = None /\ ttl = 0
    /\ at = [c \in Caller |-> "idle"]
    /\ str = [c \in Caller |-> Empty]
    /\ answer = [c \in Caller |-> [str |-> Empty, err |-> TRUE]]
    /\ missed = [c \in Caller |-> FALSE]
    /\ fresh = [c \in Caller |-> 0]

Tick ==
    /\ ttl > 0
    /\ ttl' = ttl - 1
    /\ value' = IF ttl = 1 THEN None ELSE value
    /\ missed' = [c \in Caller |-> missed[c] \/ ttl = 1]
    /\ fresh' = [c \in Caller |-> IF fresh[c] > 0 THEN fresh[c] - 1 ELSE 0]
    /\ UNCHANGED <<at, str, answer>>

\* SetKeyWithExpireTime
SetKey(v) ==
    /\ value' = v /\ ttl' = Time
    /\ missed' = [c \in Caller |-> missed[c] \/ v = Empty]
    /\ UNCHANGED <<at, str, answer, fresh>>

Returns(c, s, err) ==
    /\ at' = [at EXCEPT ![c] = "idle"]
    /\ answer' = [answer EXCEPT ![c] = [str |-> s, err |-> err]]

\* GET: a missing key is an error (redis.ErrNil), an empty value is returned
\* and not refreshed.
Get(c) ==
    /\ at[c] = "idle"
    /\ missed' = [missed EXCEPT ![c] = value \in {None, Empty}]
    /\ IF value \in {None, Empty}
       THEN Returns(c, Empty, value = None) /\ UNCHANGED str
       ELSE /\ at' = [at EXCEPT ![c] = "got"]
            /\ str' = [str EXCEPT ![c] = value]
            /\ UNCHANGED answer
    /\ UNCHANGED <<key, fresh>>

\* What the helper returns for the result of EXPIRE.
BugReturned(c, res) == str[c]
BugReturnedNone(c, res) == IF res = 0 THEN str[c] ELSE Empty
Returned(c, res) == IF res = 1 THEN str[c] ELSE Empty

\* EXPIRE gives the key its full time and returns one, or finds no key any more
\* and returns zero.
Expire(c) ==
    LET res == IF value = None THEN 0 ELSE 1
    IN  /\ at[c] = "got"
        /\ ttl' = IF res = 1 THEN Time ELSE ttl
        /\ Returns(c, Returned(c, res), FALSE)
        /\ fresh' = [fresh EXCEPT ![c] = IF Returned(c, res) = Empty THEN @ ELSE Time]
        /\ UNCHANGED <<value, str, missed>>

\* A broken connection: the command was executed, or not.
Breaks(c) ==
    /\ at[c] = "idle" \/ at[c] = "got"
    /\ \/ UNCHANGED key
       \/ at[c] = "got" /\ value # None /\ ttl' = Time /\ UNCHANGED value
    /\ Returns(c, Empty, TRUE)
    /\ UNCHANGED <<str, missed, fresh>>

KeyNext ==
    \/ Tick
    \/ \E v \in Val : SetKey(v)
    \/ \E c \in Caller : Get(c) \/ Expire(c) \/ Breaks(c)

KeySpec == KeyInit /\ [][KeyNext]_keyVars

-----------------------------------------------------------------------------
KeyTypeOK ==
    /\ value \in Val \cup {None}
    /\ ttl \in 0 .. Time
    /\ at \in [Caller -> {"idle", "got"}]
    /\ str \in [Caller -> Val]
    /\ answer \in [Caller -> [str : Val, err : BOOLEAN]]
    /\ missed \in [Caller -> BOOLEAN]
    /\ fresh \in [Caller -> 0 .. Time]

\* The empty string without an error, by which a caller takes the key for
\* missing, is returned only if the key was missing or empty while the call
\* lasted: the value it read may be another's by then, but not gone unnoticed.
EmptyWasMissing ==
    \A c \in Caller : at[c] = "idle" /\ ~answer[c].err /\ answer[c].str = Empty => missed[c]

\* A key whose value was returned is there for as long as the caller has asked
\* for, counted from the EXPIRE and not from the GET before it.
RefreshedStays == \A c \in Caller : fresh[c] > 0 => value # None

=============================================================================
