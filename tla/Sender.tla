------------------------------- MODULE Sender -------------------------------
(***************************************************************************)
(* SendCode of sender.go: it posts a message, decodes the provider's       *)
(* answer into a map that all calls share, and looks up the code there.    *)
(* json.Unmarshal adds the answer's keys to the map, forgets the map when  *)
(* the answer is null, and leaves it when the answer is no JSON.           *)
(***************************************************************************)
CONSTANTS Call

VARIABLES
    code,      \* response["code"], "none" when the map has no such key
    pc,        \* where each call stands, or what it came to
    body,      \* the code in its answer, or what is there instead
    disturbed, \* history: the calls that another's decoding got in the way of
    zero       \* history: an answer with code "0" was decoded since the program started

senderVars == <<code, pc, body, disturbed, zero>>

Codes == {"0", "1", "number"}
Bodies == Codes \cup {"no code", "null", "no JSON"}

SenderInit ==
    /\ code = "none" /\ zero = FALSE /\ disturbed = {}
    /\ pc = [r \in Call |-> "idle"] /\ body = [r \in Call |-> "no JSON"]

Goto(r, p) == pc' = [pc EXCEPT ![r] = p]

Ended == {"idle", "true", "false", "panicked"}

Post(r, b) ==
    /\ pc[r] \in Ended
    /\ Goto(r, "answered")
    /\ body' = [body EXCEPT ![r] = b]
    /\ disturbed' = disturbed \ {r}
    /\ UNCHANGED <<code, zero>>

PostFails(r) ==
    /\ pc[r] \in Ended
    /\ Goto(r, "false")
    /\ body' = [body EXCEPT ![r] = "no JSON"]
    /\ disturbed' = disturbed \ {r}
    /\ UNCHANGED <<code, zero>>

\* The code in the map after json.Unmarshal.
Decoded(b) ==
    CASE b \in Codes -> b
      [] b = "null" -> "none"
      [] OTHER -> code

Decode(r, c) ==
    /\ pc[r] = "answered"
    /\ Goto(r, "decoded")
    /\ code' = c
    /\ disturbed' = disturbed \cup {q \in Call \ {r} : pc[q] = "decoded"}
    /\ zero' = (zero \/ body[r] = "0")
    /\ UNCHANGED body

BugUnmarshal(r) == Decode(r, IF code = "none" THEN Decoded(body[r]) ELSE code)

Unmarshal(r) == Decode(r, Decoded(body[r]))

BugVerdict == CASE code = "1" -> "false" [] OTHER -> "true"

\* respCode.(string) panics at nil and at a number.
Verdict ==
    CASE code = "0" -> "true"
      [] code = "1" -> "false"
      [] OTHER -> "panicked"

LookUp(r) ==
    /\ pc[r] = "decoded"
    /\ Goto(r, Verdict)
    /\ UNCHANGED <<code, body, disturbed, zero>>

\* A map that one call forgets while another adds to it: the latter panics.
Collide(r, q) ==
    /\ r # q /\ pc[r] = "answered" /\ pc[q] = "answered"
    /\ body[r] \in Codes \cup {"no code"} /\ body[q] = "null"
    /\ pc' = [pc EXCEPT ![r] = "panicked", ![q] = "decoded"]
    /\ code' = "none"
    /\ disturbed' = disturbed \cup {r} \cup {c \in Call : pc[c] = "decoded"}
    /\ UNCHANGED <<body, zero>>

\* Two calls at the map at once, one of which writes it: the runtime may notice
\* and end the program, which then starts again.
Abort ==
    /\ \E r, q \in Call : r # q /\ pc[r] = "answered" /\ pc[q] \in {"answered", "decoded"}
    /\ code' = "none" /\ zero' = FALSE /\ disturbed' = {}
    /\ pc' = [r \in Call |-> "idle"] /\ body' = [r \in Call |-> "no JSON"]

SenderNext ==
    \/ \E r \in Call : \/ \E b \in Bodies : Post(r, b)
                       \/ PostFails(r) \/ Unmarshal(r) \/ LookUp(r)
                       \/ \E q \in Call : Collide(r, q)
    \/ Abort

SenderSpec == SenderInit /\ [][SenderNext]_senderVars

-----------------------------------------------------------------------------
\* A call whose answer has a code reports that code, whatever earlier calls have
\* left in the map, unless another answer is decoded before it looks or beside it.
OwnVerdict ==
    \A r \in Call : pc[r] \in Ended /\ r \notin disturbed =>
        /\ body[r] = "0" => pc[r] = "true"
        /\ body[r] = "1" => pc[r] = "false"

\* Also an answer without a code, which reports that of an earlier one
\* (sender.go:35), is a success only if the provider has said so to somebody.
SuccessWasSaid == \A r \in Call : pc[r] = "true" => zero

=============================================================================
