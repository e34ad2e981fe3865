------------------------------- MODULE Columns -------------------------------
(***************************************************************************)
(* StringArray of domain.go: it is written to a column and read back into  *)
(* a receiver, which may be one that was used before. Text is a sequence   *)
(* of characters, since what is lost is lost to commas and quotes.         *)
(***************************************************************************)
EXTENDS Integers, Sequences, SequencesExt

CONSTANTS
    Arrays,      \* the arrays of strings that are written
    Nil,         \* the nil pointer to one
    MaxReceiver  \* bound: the elements of a receiver that is used again

VARIABLES
    array,     \* what was written last; its text is in the column
    receiver   \* the StringArray that is read into

vars == <<array, receiver>>

Quote == "'"  \* stands for the double quote

TrimPrefix(s, c) == IF s # <<>> /\ Head(s) = c THEN Tail(s) ELSE s
TrimSuffix(s, c) == IF s # <<>> /\ Last(s) = c THEN Front(s) ELSE s

\* strings.Split(s, ",")
Split(s) ==
    FoldLeft(LAMBDA parts, c : IF c = "," THEN Append(parts, <<>>)
                               ELSE [parts EXCEPT ![Len(parts)] = Append(@, c)],
             << <<>> >>, s)

\* ToDB: the elements as they are; nothing for a nil pointer.
ToDB(strings) ==
    IF strings = Nil THEN <<>>
    ELSE <<"{">> \o FlattenSeq([i \in DOMAIN strings |-> IF i = 1 THEN strings[i]
                                ELSE <<",">> \o strings[i]]) \o <<"}">>

\* The elements of a text without its braces.
Items(body) ==
    LET items == Split(body)
    IN  [i \in DOMAIN items |-> TrimSuffix(TrimPrefix(items[i], Quote), Quote)]

BugFromDB(old, text) == old \o Items(TrimSuffix(TrimPrefix(text, "{"), "}"))

\* FromDB: nothing leaves the receiver alone, an empty array replaces what it has,
\* others are appended.
FromDB(old, text) ==
    LET body == TrimSuffix(TrimPrefix(text, "{"), "}")
    IN  CASE text = <<>> -> old
          [] text # <<>> /\ body = <<>> -> <<>>
          [] OTHER -> old \o Items(body)

-----------------------------------------------------------------------------
Init == array = <<>> /\ receiver = <<>>

Write(a) == array' = a /\ UNCHANGED receiver

Fresh == receiver' = <<>> /\ UNCHANGED array

Read ==
    /\ Len(receiver) <= MaxReceiver
    /\ receiver' = FromDB(receiver, ToDB(array))
    /\ UNCHANGED array

Next ==
    \/ \E a \in Arrays \cup {Nil} : Write(a)
    \/ Fresh
    \/ Read

Spec == Init /\ [][Next]_vars

-----------------------------------------------------------------------------
\* An element that neither Split nor the trimming touches.
Bare(s) == \A i \in DOMAIN s : s[i] # "," /\ (i \in {1, Len(s)} => s[i] # Quote)

\* What a receiver should have after the array was read into it.
Expected ==
    CASE array = Nil -> receiver
      [] array = <<>> -> <<>>
      [] OTHER -> receiver \o array

Survives == array # << <<>> >> /\ \A i \in DOMAIN array : Bare(array[i])

\* An array is read as it was written unless an element has a comma, or a quote
\* at an end, or the array is the one empty string, which is read as no string
\* at all; quotes around the elements, as the lines 377 and 379 of domain.go once
\* wrote, would not help, since FromDB splits at the commas first. A receiver that
\* is used again keeps what it has before the array, except before an empty one.
StringsSurvive == [][Read => (receiver' = Expected <=> array = Nil \/ Survives)]_vars

=============================================================================
