------------------------------ MODULE MCHelpers ------------------------------
(***************************************************************************)
(* Instances of RedisKey, Columns and Sender for TLC. The three share      *)
(* nothing: a behaviour is one of one of them, the others stay at their    *)
(* initial states.                                                         *)
(***************************************************************************)
EXTENDS RedisKey, Sender, Sequences

CONSTANT Nil

VARIABLES
    running,         \* which of them it is
    array, receiver  \* of Columns

columnVars == <<array, receiver>>

\* The empty string, and strings with a comma, with quotes at an end, in the
\* middle and on both sides, and with a brace.
MCString == {<<>>, <<"a">>, <<",">>, <<"'">>, <<"a", ",", "a">>, <<"'", "a", "'">>,
             <<"a", "'", "a">>, <<"}">>}
MCArrays == {<<>>} \cup {<<s>> : s \in MCString} \cup {<<s, t>> : s, t \in MCString}

Column == INSTANCE Columns WITH Arrays <- MCArrays, MaxReceiver <- 1

HelpersInit ==
    /\ running \in {"redis key", "columns", "sender"}
    /\ KeyInit /\ Column!Init /\ SenderInit

HelpersNext ==
    \/ running = "redis key" /\ KeyNext /\ UNCHANGED <<running, columnVars, senderVars>>
    \/ running = "columns" /\ Column!Next /\ UNCHANGED <<running, keyVars, senderVars>>
    \/ running = "sender" /\ SenderNext /\ UNCHANGED <<running, keyVars, columnVars>>

HelpersSpec == HelpersInit /\ [][HelpersNext]_<<running, keyVars, columnVars, senderVars>>

\* Arrays of strings come back from their column as they were written, but for
\* commas, quotes, the one empty string and receivers that are used again.
StringsSurvive == Column!StringsSurvive
=============================================================================
