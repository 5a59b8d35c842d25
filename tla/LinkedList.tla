----------------------------- MODULE LinkedList -----------------------------
(***************************************************************************)
(* The doubly linked list of libgps.utils (linked_list.c), which carries   *)
(* the message queues and the subscribers of the A-GPS state machines.     *)
(* Elements are addresses of a small heap; next and prev are their links.  *)
(* Every element has a dealloc function.                                   *)
(***************************************************************************)
EXTENDS Integers, Sequences, FiniteSets, Functions

CONSTANTS Pointers,  \* the data pointers
          Room,      \* how many elements malloc has room for
          Null       \* the null pointer

Addresses == 1 .. Room

VARIABLES p_head, p_tail,
          next, prev, data_ptr,  \* the fields of the elements
          allocated,             \* the addresses that malloc has given out
          result                 \* the last call and what came of it

listVars == <<p_head, p_tail, next, prev, data_ptr, allocated, result>>
fields == <<p_head, p_tail, next, prev, data_ptr, allocated>>

\* The elements that a loop over tmp = tmp->next comes to, from tmp = head on.
Walks == UNION {[1 .. n -> Addresses] : n \in 0 .. Room}
IsWalk(w, head, links) ==
    /\ head = IF w = <<>> THEN Null ELSE w[1]
    /\ \A i \in DOMAIN w : links[w[i]] = IF i = Len(w) THEN Null ELSE w[i + 1]
From(head, links) == IF head = Null THEN <<>> ELSE CHOOSE w \in Walks : IsWalk(w, head, links)
Walk == From(p_head, next)
DataOn(w) == [i \in DOMAIN w |-> data_ptr[w[i]]]

ListInit ==
    /\ p_head = Null /\ p_tail = Null
    /\ next = [e \in Addresses |-> Null]
    /\ prev = [e \in Addresses |-> Null]
    /\ data_ptr = [e \in Addresses |-> Null]
    /\ allocated = {}
    /\ result = <<>>

\* linked_list_add: a new head.
Add(x) ==
    IF allocated = Addresses
    THEN UNCHANGED fields /\ result' = <<"add", x, "failure">>
    ELSE \E e \in Addresses \ allocated :
         /\ allocated' = allocated \cup {e}
         /\ data_ptr' = [data_ptr EXCEPT ![e] = x]
         /\ p_head' = e
         /\ next' = [next EXCEPT ![e] = p_head]
         /\ prev' = [a \in Addresses |-> CASE a = e -> Null
                                           [] a = p_head -> e
                                           [] OTHER -> prev[a]]
         /\ p_tail' = IF p_head = Null THEN e ELSE p_tail
         /\ result' = <<"add", x, "success">>

\* linked_list_remove: the tail.
RemoveTail ==
    IF p_tail = Null
    THEN UNCHANGED fields /\ result' = <<"remove", Null>>
    ELSE LET last == prev[p_tail] IN
         /\ p_tail' = last
         /\ next' = [a \in Addresses |-> IF a = last THEN Null ELSE next[a]]
         /\ p_head' = IF last = Null THEN Null ELSE p_head
         /\ allocated' = allocated \ {p_tail}
         /\ result' = <<"remove", data_ptr[p_tail]>>
         /\ UNCHANGED <<prev, data_ptr>>

\* The element e is taken out between its neighbours, and freed.
Unlink(e) ==
    /\ p_head' = IF prev[e] = Null THEN next[e] ELSE p_head
    /\ p_tail' = IF next[e] = Null THEN prev[e] ELSE p_tail
    /\ next' = [a \in Addresses |-> CASE a = prev[e] -> next[e]
                                      [] a = e -> Null
                                      [] OTHER -> next[a]]
    /\ prev' = [a \in Addresses |-> CASE a = next[e] -> prev[e]
                                      [] a = e -> Null
                                      [] OTHER -> prev[a]]
    /\ allocated' = allocated \ {e}

\* Faulty variant: data that is copied out is deallocated too.
SearchFreeing(x, copy, rm) ==
    LET walk == Walk
        hits == {i \in DOMAIN walk : data_ptr[walk[i]] = x}
    IN IF hits = {}
       THEN UNCHANGED fields /\ result' = <<"search", Null, <<>>>>
       ELSE LET e == walk[CHOOSE i \in hits : \A j \in hits : i <= j] IN
            /\ IF rm THEN Unlink(e) /\ UNCHANGED data_ptr ELSE UNCHANGED fields
            /\ result' = <<"search", IF copy THEN data_ptr[e] ELSE Null,
                        IF rm THEN <<data_ptr[e]>> ELSE <<>>>>

\* linked_list_search with an equal() that compares to x; copy is whether the
\* caller passes data_p.
Search(x, copy, rm) ==
    LET walk == Walk
        hits == {i \in DOMAIN walk : data_ptr[walk[i]] = x}
    IN IF hits = {}
       THEN UNCHANGED fields /\ result' = <<"search", Null, <<>>>>
       ELSE LET e == walk[CHOOSE i \in hits : \A j \in hits : i <= j] IN
            /\ IF rm THEN Unlink(e) /\ UNCHANGED data_ptr ELSE UNCHANGED fields
            /\ result' = <<"search", IF copy THEN data_ptr[e] ELSE Null,
                        IF rm /\ ~ copy THEN <<data_ptr[e]>> ELSE <<>>>>

\* linked_list_flush
Flush ==
    /\ result' = <<"flush", DataOn(Walk)>>
    /\ p_head' = Null /\ p_tail' = Null
    /\ allocated' = allocated \ Range(Walk)
    /\ UNCHANGED <<next, prev, data_ptr>>

ListNext ==
    \/ \E x \in Pointers : Add(x)
    \/ \E x \in Pointers, copy, rm \in BOOLEAN : Search(x, copy, rm)
    \/ RemoveTail
    \/ Flush

ListSpec == ListInit /\ [][ListNext]_listVars

-----------------------------------------------------------------------------
(* Properties *)

\* The links agree in both directions, the ends have none beyond them, and
\* the elements between them are exactly those that malloc has given out, once
\* each: no link leads to a freed element and no element is left behind.
Agree(w) ==
    /\ IsWalk(w, p_head, next)
    /\ Range(w) = allocated /\ Len(w) = Cardinality(allocated)
    /\ p_tail = IF w = <<>> THEN Null ELSE w[Len(w)]
    /\ \A i \in DOMAIN w : prev[w[i]] = IF i = 1 THEN Null ELSE w[i - 1]
LinksAgree == Agree(Walk)

\* linked_list_empty looks at the head, linked_list_remove at the tail.
AbstractList == INSTANCE ListOfPointers WITH list <- DataOn(Walk)

\* The list implements the list of its data pointers, oldest out first.
IsListOfPointers == AbstractList!Spec /\ []LinksAgree
=============================================================================
