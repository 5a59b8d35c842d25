--------------------------- MODULE ListOfPointers ---------------------------
(***************************************************************************)
(* What the users of linked_list.c rely on: a list that grows at its head, *)
(* gives back its oldest element, and can be searched from the newest on.  *)
(* list is the data, newest first; result is the last call with what came  *)
(* of it and the data that it passed to the elements' dealloc function.    *)
(***************************************************************************)
EXTENDS Integers, Sequences, SequencesExt

CONSTANTS Pointers,  \* the data pointers
          Room,      \* how many elements malloc has room for
          Null       \* no data

VARIABLES list, result

Init == list = <<>> /\ result = <<>>

Add(x) ==
    IF Len(list) < Room
    THEN list' = <<x>> \o list /\ result' = <<"add", x, "success">>
    ELSE UNCHANGED list /\ result' = <<"add", x, "failure">>

TakeOldest ==
    IF list = <<>>
    THEN UNCHANGED list /\ result' = <<"remove", Null>>
    ELSE list' = Front(list) /\ result' = <<"remove", Last(list)>>

\* The newest element equal to x is copied out if the caller asks for it,
\* taken out if rm, and deallocated if taken out without being copied.
Search(x, copy, rm) ==
    LET hits == {i \in 1 .. Len(list) : list[i] = x} IN
    IF hits = {}
    THEN UNCHANGED list /\ result' = <<"search", Null, <<>>>>
    ELSE LET i == CHOOSE i \in hits : \A j \in hits : i <= j IN
         /\ list' = IF rm THEN RemoveAt(list, i) ELSE list
         /\ result' = <<"search", IF copy THEN x ELSE Null,
                        IF rm /\ ~ copy THEN <<x>> ELSE <<>>>>

Flush == list' = <<>> /\ result' = <<"flush", list>>

Next == \/ \E x \in Pointers : Add(x)
        \/ \E x \in Pointers, copy, rm \in BOOLEAN : Search(x, copy, rm)
        \/ TakeOldest
        \/ Flush

Spec == Init /\ [][Next]_<<list, result>>
=============================================================================
