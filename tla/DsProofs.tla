------------------------------ MODULE DsProofs ------------------------------
(***************************************************************************)
(* Proofs about DSStateMachine. What the queue holds is seen through three  *)
(* predicates (In, Once, Before); one lemma says how each way of taking    *)
(* from the queue and posting to it changes them, and the inductive        *)
(* invariant is stated with them only.                                     *)
(***************************************************************************)
EXTENDS DSStateMachine, SequenceTheorems, FiniteSetTheorems, WellFoundedInduction, TLAPS

-----------------------------------------------------------------------------
(* Types. *)
Asking == {"RequestSuplEs", "RequestATL", "ReleaseATL"}
Messages ==
    [kind : Asking, id : Handles] \cup [kind : Kinds \ Asking, id : {NoHandle}]
Subscribers == [id : Handles, inactive : BOOLEAN]
AllActive(L) == \A i \in DOMAIN L : IsActive(L[i])

TypeInv ==
    /\ st \in {"Released", "Pending", "Acquired", "Releasing"}
    /\ list \in Seq(Subscribers)
    /\ st = "Released" => AllActive(list)
    /\ retries \in Nat /\ timers \in Nat
    /\ found \in Handles \cup {NoHandle}
    /\ msgq \in Seq(Messages)
    /\ call \in {"closed", "opening", "open", "stopping"}
    /\ supl \subseteq Handles
    /\ cs \in [Handles -> {"idle", "asked", "up", "leaving"}]

-----------------------------------------------------------------------------
(* What a queue holds: messages of kind k about c. *)
Is(m, k, c) == m.kind = k /\ m.id = c
In(q, k, c) == \E i \in DOMAIN q : Is(q[i], k, c)
Once(q, k, c) == \A i, j \in DOMAIN q : Is(q[i], k, c) /\ Is(q[j], k, c) => i = j
Before(q, k, l, c) == \E i, j \in DOMAIN q : i < j /\ Is(q[i], k, c) /\ Is(q[j], l, c)

Exempt == Seen({"left", "ghost", "crowd", "restart"})

NoNews == ~In(msgq, "Opened", NoHandle) /\ ~In(msgq, "Closed", NoHandle)

\* After a start that failed unseen: waiting for news that never comes.
Stuck ==
    /\ st \in {"Pending", "Releasing"} /\ call = "closed" /\ NoNews
    /\ found # NoHandle => HasSubscriber(list, found)

NewsInOrder ==
    /\ Once(msgq, "Opened", NoHandle) /\ Once(msgq, "Closed", NoHandle)
    /\ ~Before(msgq, "Closed", "Opened", NoHandle)

\* The state, the call and the news of it in the queue agree.
CallInv ==
    /\ NewsInOrder
    /\ call = "opening" => st = "Pending" /\ NoNews
    /\ call = "open" =>
         /\ ~In(msgq, "Closed", NoHandle)
         /\ st = IF In(msgq, "Opened", NoHandle) THEN "Pending" ELSE "Acquired"
    /\ call = "stopping" => st = "Releasing" /\ ~In(msgq, "Closed", NoHandle)
    /\ call = "closed" =>
         /\ st = "Released" => NoNews
         /\ st # "Released" => In(msgq, "Closed", NoHandle)
         /\ st = "Acquired" => ~In(msgq, "Opened", NoHandle)

ListInv ==
    /\ st = "Released" => Len(list) <= 1
    /\ st \in {"Pending", "Acquired"} => HasActive(list)

\* c waits for the subscription made for it to be tried again.
Owed(c) ==
    /\ ~In(msgq, "RequestSuplEs", c) /\ ~In(msgq, "RequestATL", c)
    /\ c \notin supl /\ cs[c] # "idle"

\* There is one retry at most: a timer, or what the timers' thread has found.
RetryInv ==
    /\ timers = 0 \/ (timers = 1 /\ found = NoHandle)
    /\ timers = 1 \/ found # NoHandle =>
         /\ st = "Released" /\ Len(list) = 1
         /\ found \in {NoHandle, list[1].id}
         /\ Owed(list[1].id)

Active(c) == \E i \in DOMAIN list : list[i].id = c /\ IsActive(list[i])

ClientInv(c) ==
    /\ cs[c] = "leaving" <=> In(msgq, "ReleaseATL", c)
    /\ Once(msgq, "ReleaseATL", c)
    /\ Once(msgq, "RequestSuplEs", c)
    /\ c \in supl => cs[c] # "idle"
    /\ In(msgq, "RequestSuplEs", c) =>
         /\ cs[c] # "idle" /\ c \notin supl /\ ~In(msgq, "RequestATL", c)
         /\ Active(c) => st = "Released"
    /\ Before(msgq, "ReleaseATL", "RequestSuplEs", c) => st = "Released" /\ Active(c)
    /\ Active(c) /\ st # "Released" =>
         cs[c] # "idle" /\ c \notin supl /\ ~In(msgq, "RequestATL", c)

Normal == CallInv /\ ListInv /\ RetryInv /\ \A c \in Handles : ClientInv(c)

IInv == TypeInv /\ (Exempt \/ Stuck \/ Normal)

-----------------------------------------------------------------------------
(* Taking from a queue and posting to it. *)
LEMMA TakeElements ==
  ASSUME NEW S, NEW q \in Seq(S), q # <<>>
  PROVE  /\ Head(q) = q[1] /\ Head(q) \in S /\ 1 \in DOMAIN q
         /\ Tail(q) \in Seq(S)
         /\ \A i \in DOMAIN Tail(q) :
              i \in Nat /\ i + 1 \in DOMAIN q /\ Tail(q)[i] = q[i + 1]
         /\ \A i \in DOMAIN q :
              i \in Nat /\ (i # 1 => i - 1 \in DOMAIN Tail(q) /\ Tail(q)[i - 1] = q[i])
BY HeadTailProperties, LenProperties, ElementOfSeq

LEMMA EmptyQueue ==
  ASSUME NEW q, q = <<>>, NEW k, NEW l, NEW c
  PROVE  ~In(q, k, c) /\ Once(q, k, c) /\ ~Before(q, k, l, c)
<1>1. \A i : i \notin DOMAIN q
  BY EmptySeq, LenProperties
<1> QED BY <1>1 DEF In, Once, Before

\* What is left of a queue whose head is taken.
LEMMA Take ==
  ASSUME NEW S, NEW q \in Seq(S), q # <<>>, NEW k, NEW c
  PROVE  /\ In(Tail(q), k, c) => In(q, k, c)
         /\ ~Is(Head(q), k, c) /\ In(q, k, c) => In(Tail(q), k, c)
         /\ Is(Head(q), k, c) => In(q, k, c)
         /\ Is(Head(q), k, c) /\ Once(q, k, c) => ~In(Tail(q), k, c)
         /\ Once(q, k, c) => Once(Tail(q), k, c)
         /\ \A l : Before(Tail(q), k, l, c) => Before(q, k, l, c)
         /\ \A l : Is(Head(q), k, c) /\ In(Tail(q), l, c) => Before(q, k, l, c)
<1> DEFINE p == Tail(q)
<1>1. /\ Head(q) = q[1] /\ 1 \in DOMAIN q
      /\ \A i \in DOMAIN p : i \in Nat /\ i + 1 \in DOMAIN q /\ p[i] = q[i + 1]
      /\ \A i \in DOMAIN q : i \in Nat /\ (i # 1 => i - 1 \in DOMAIN p /\ p[i - 1] = q[i])
  BY TakeElements
<1>2. \A i \in DOMAIN p : i + 1 # 1 /\ 1 < i + 1
  <2>1. q # <<>> /\ p \in Seq(S)
    BY TakeElements
  <2> QED BY <2>1, LenProperties
<1> HIDE DEF p
<1>3. In(p, k, c) => In(q, k, c)
  BY <1>1 DEF In
<1>4. ~Is(Head(q), k, c) /\ In(q, k, c) => In(p, k, c)
  BY <1>1 DEF In
<1>5. Is(Head(q), k, c) => In(q, k, c)
  BY <1>1 DEF In
<1>6. Is(Head(q), k, c) /\ Once(q, k, c) => ~In(p, k, c)
  BY <1>1, <1>2 DEF In, Once
<1>7. Once(q, k, c) => Once(p, k, c)
  BY <1>1 DEF Once
<1>8. ASSUME NEW l, Before(p, k, l, c) PROVE Before(q, k, l, c)
  <2>1. PICK i, j \in DOMAIN p : i < j /\ Is(p[i], k, c) /\ Is(p[j], l, c)
    BY <1>8 DEF Before
  <2>2. i + 1 < j + 1
    BY <1>1, <2>1
  <2> QED BY <1>1, <2>1, <2>2 DEF Before
<1>9. ASSUME NEW l, Is(Head(q), k, c), In(p, l, c) PROVE Before(q, k, l, c)
  <2>1. PICK j \in DOMAIN p : Is(p[j], l, c)
    BY <1>9 DEF In
  <2> QED BY <1>1, <1>2, <1>9, <2>1 DEF Before
<1> QED BY <1>3, <1>4, <1>5, <1>6, <1>7, <1>8, <1>9 DEF p

\* A queue with a message posted to it.
LEMMA Put ==
  ASSUME NEW S, NEW q \in Seq(S), NEW m \in S, NEW k, NEW c
  PROVE  /\ In(Append(q, m), k, c) <=> In(q, k, c) \/ Is(m, k, c)
         /\ Once(q, k, c) /\ (Is(m, k, c) => ~In(q, k, c)) => Once(Append(q, m), k, c)
         /\ \A l : Before(Append(q, m), k, l, c) =>
                     Before(q, k, l, c) \/ (Is(m, l, c) /\ In(q, k, c))
<1> DEFINE p == Append(q, m)
<1>1. /\ \A i \in DOMAIN q : i \in DOMAIN p /\ p[i] = q[i] /\ i \in Nat /\ i < Len(q) + 1
      /\ \A i \in DOMAIN p : i \in DOMAIN q \/ (i = Len(q) + 1 /\ p[i] = m)
      /\ Len(q) + 1 \in DOMAIN p /\ p[Len(q) + 1] = m /\ Len(q) \in Nat
  BY AppendProperties, LenProperties
<1> HIDE DEF p
<1>2. In(p, k, c) <=> In(q, k, c) \/ Is(m, k, c)
  BY <1>1 DEF In
<1>3. Once(q, k, c) /\ (Is(m, k, c) => ~In(q, k, c)) => Once(p, k, c)
  BY <1>1 DEF In, Once
<1>4. ASSUME NEW l, Before(p, k, l, c), ~(Is(m, l, c) /\ In(q, k, c))
      PROVE  Before(q, k, l, c)
  <2>1. PICK i, j \in DOMAIN p : i < j /\ Is(p[i], k, c) /\ Is(p[j], l, c)
    BY <1>4 DEF Before
  <2>2. i \in DOMAIN q
    BY <1>1, <2>1
  <2>3. j \in DOMAIN q
    BY <1>1, <1>4, <2>1, <2>2 DEF In
  <2> QED BY <1>1, <2>1, <2>2, <2>3 DEF Before
<1> QED BY <1>2, <1>3, <1>4 DEF p

\* A queue with several messages posted to it, none of them (k, c).
LEMMA PutAll ==
  ASSUME NEW S, NEW q \in Seq(S), NEW r \in Seq(S), NEW k, NEW c, ~In(r, k, c)
  PROVE  /\ In(q \o r, k, c) <=> In(q, k, c)
         /\ Once(q, k, c) => Once(q \o r, k, c)
         /\ \A l : Before(q \o r, l, k, c) => Before(q, l, k, c)
<1> DEFINE p == q \o r
<1>1. /\ Len(q) \in Nat /\ Len(r) \in Nat /\ DOMAIN q = 1 .. Len(q) /\ DOMAIN r = 1 .. Len(r)
      /\ DOMAIN p = 1 .. (Len(q) + Len(r))
      /\ \A i \in DOMAIN q : i \in DOMAIN p /\ p[i] = q[i]
      /\ \A i \in DOMAIN p : i \in DOMAIN q \/ (i - Len(q) \in DOMAIN r /\ p[i] = r[i - Len(q)])
  BY ConcatProperties, LenProperties
<1> HIDE DEF p
<1>2. \A i \in DOMAIN p : Is(p[i], k, c) => i \in DOMAIN q
  BY <1>1 DEF In
<1>3. In(p, k, c) <=> In(q, k, c)
  BY <1>1, <1>2 DEF In
<1>4. Once(q, k, c) => Once(p, k, c)
  BY <1>1, <1>2 DEF Once
<1>5. ASSUME NEW l, Before(p, l, k, c) PROVE Before(q, l, k, c)
  <2>1. PICK i, j \in DOMAIN p : i < j /\ Is(p[i], l, c) /\ Is(p[j], k, c)
    BY <1>5 DEF Before
  <2>2. i \in DOMAIN q /\ j \in DOMAIN q
    BY <1>1, <1>2, <2>1
  <2> QED BY <1>1, <2>1, <2>2 DEF Before
<1> QED BY <1>3, <1>4, <1>5 DEF p


-----------------------------------------------------------------------------
(* The first active subscriber. *)
LEMMA Smallest ==
  ASSUME NEW T \in SUBSET Nat, T # {}
  PROVE  \E x \in T : \A y \in T : ~(y < x)
<1> DEFINE U == {0 .. k : k \in T}
           R == StrictSubsetOrdering(Nat)
           F == FiniteSubsetsOf(Nat)
<1>1. IsWellFoundedOn(R, F)
  BY FS_StrictSubsetOrderingWellFounded
<1>2. U \subseteq F
  <2> SUFFICES ASSUME NEW k \in T PROVE 0 .. k \in F
    OBVIOUS
  <2>1. IsFiniteSet(0 .. k)
    BY FS_Interval
  <2> QED BY <2>1 DEF FiniteSubsetsOf
<1>3. U # {}
  OBVIOUS
<1>4. PICK u \in U : \A v \in U : ~(<<v, u>> \in R)
  <2> HIDE DEF R, F, U
  <2> QED BY <1>1, <1>2, <1>3, WFMin
<1>5. PICK x \in T : u = 0 .. x
  OBVIOUS
<1>6. ASSUME NEW y \in T, y < x PROVE FALSE
  <2>1. 0 .. y \in U
    OBVIOUS
  <2>2. x \in 0 .. x /\ x \notin 0 .. y
    BY <1>6
  <2>3. 0 .. y \subseteq 0 .. x /\ 0 .. y # 0 .. x
    BY <1>6, <2>2
  <2>4. <<0 .. y, 0 .. x>> \in R
    BY <2>3 DEF StrictSubsetOrdering
  <2> QED BY <1>4, <1>5, <2>1, <2>4
<1> QED BY <1>6

LEMMA FirstActiveIs ==
  ASSUME NEW L \in Seq(Subscribers), HasActive(L)
  PROVE  /\ \E i \in DOMAIN L : IsActive(L[i]) /\ FirstActive(L) = L[i].id
         /\ AllActive(L) => FirstActive(L) = L[1].id
<1> DEFINE T == {i \in DOMAIN L : IsActive(L[i])}
           First(i) == IsActive(L[i]) /\ \A j \in 1 .. (i - 1) : ~IsActive(L[j])
           f == CHOOSE i \in DOMAIN L : First(i)
<1>1. DOMAIN L = 1 .. Len(L) /\ Len(L) \in Nat
  BY LenProperties
<1>2. T \in SUBSET Nat /\ T # {}
  BY <1>1 DEF HasActive
<1>3. PICK x \in T : \A y \in T : ~(y < x)
  BY <1>2, Smallest
<1>4. x \in DOMAIN L /\ First(x)
  BY <1>1, <1>3
<1>5. f \in DOMAIN L /\ First(f)
  BY <1>4
<1>6. FirstActive(L) = L[f].id
  BY DEF FirstActive
<1> HIDE DEF f
<1>7. ASSUME AllActive(L), f # 1 PROVE FALSE
  <2>1. 1 \in 1 .. (f - 1) /\ 1 \in DOMAIN L
    BY <1>1, <1>5, <1>7
  <2> QED BY <1>5, <1>7, <2>1 DEF AllActive
<1>8. \E i \in DOMAIN L : IsActive(L[i]) /\ FirstActive(L) = L[i].id
  BY <1>5, <1>6
<1>9. AllActive(L) => FirstActive(L) = L[1].id
  BY <1>6, <1>7
<1> QED BY <1>8, <1>9

-----------------------------------------------------------------------------
(* Types. *)
LEMMA FirstActiveType ==
  ASSUME NEW L \in Seq(Subscribers)
  PROVE  /\ FirstActive(L) \in Handles \cup {NoHandle}
         /\ HasActive(L) => FirstActive(L) \in Handles
         /\ FirstActive(L) # NoHandle => HasSubscriber(L, FirstActive(L))
<1>1. CASE HasActive(L)
  <2>1. PICK i \in DOMAIN L : FirstActive(L) = L[i].id
    BY <1>1, FirstActiveIs
  <2>2. L[i] \in Subscribers
    BY ElementOfSeq, LenProperties
  <2> QED BY <2>1, <2>2 DEF Subscribers, HasSubscriber
<1>2. CASE ~HasActive(L)
  BY <1>2 DEF FirstActive
<1> QED BY <1>1, <1>2

LEMMA Prepended ==
  ASSUME NEW S, NEW L \in Seq(S), NEW s \in S, NEW K, K = <<s>> \o L
  PROVE  /\ K \in Seq(S)
         /\ \A i \in DOMAIN L : i + 1 \in DOMAIN K /\ K[i + 1] = L[i]
         /\ \A i \in DOMAIN K : K[i] = s \/ \E j \in DOMAIN L : K[i] = L[j]
         /\ 1 \in DOMAIN K /\ K[1] = s
<1>1. <<s>> \in Seq(S) /\ Len(<<s>>) = 1 /\ <<s>>[1] = s
  OBVIOUS
<1>2. /\ K \in Seq(S) /\ Len(K) = 1 + Len(L)
      /\ \A i \in 1 .. (1 + Len(L)) : K[i] = IF i <= 1 THEN <<s>>[i] ELSE L[i - 1]
  BY <1>1, ConcatProperties
<1>3. DOMAIN L = 1 .. Len(L) /\ Len(L) \in Nat /\ DOMAIN K = 1 .. (1 + Len(L))
  BY <1>2, LenProperties
<1> QED BY <1>1, <1>2, <1>3

LEMMA AddType ==
  ASSUME NEW L \in Seq(Subscribers), NEW c \in Handles
  PROVE  /\ Add(L, c) \in Seq(Subscribers)
         /\ AllActive(L) => AllActive(Add(L, c)) /\ HasActive(Add(L, c))
         /\ HasActive(L) => HasActive(Add(L, c))
         /\ \A d : HasSubscriber(L, d) => HasSubscriber(Add(L, c), d)
         /\ HasSubscriber(Add(L, c), c)
<1> DEFINE s == [id |-> c, inactive |-> FALSE]
<1>1. s \in Subscribers /\ IsActive(s) /\ s.id = c
  BY DEF Subscribers, IsActive
<1> HIDE DEF s
<1>2. CASE HasSubscriber(L, c)
  <2>1. Add(L, c) = L
    BY <1>2 DEF Add
  <2> QED BY <1>2, <2>1 DEF HasSubscriber, AllActive, HasActive
<1>3. CASE ~HasSubscriber(L, c)
  <2>1. /\ Add(L, c) = <<s>> \o L
        /\ <<s>> \in Seq(Subscribers) /\ Len(<<s>>) = 1 /\ <<s>>[1] = s
    BY <1>1, <1>3 DEF Add, s
  <2>2. /\ Add(L, c) \in Seq(Subscribers)
        /\ \A i \in DOMAIN L : i + 1 \in DOMAIN Add(L, c) /\ Add(L, c)[i + 1] = L[i]
        /\ \A i \in DOMAIN Add(L, c) :
             Add(L, c)[i] = s \/ \E j \in DOMAIN L : Add(L, c)[i] = L[j]
        /\ 1 \in DOMAIN Add(L, c) /\ Add(L, c)[1] = s
    BY <2>1, Prepended
  <2>3. AllActive(L) => AllActive(Add(L, c))
    BY <1>1, <2>2 DEF AllActive
  <2>4. HasActive(Add(L, c))
    BY <1>1, <2>2 DEF HasActive
  <2>5. \A d : HasSubscriber(L, d) => HasSubscriber(Add(L, c), d)
    BY <2>2 DEF HasSubscriber
  <2>6. HasSubscriber(Add(L, c), c)
    BY <1>1, <2>2 DEF HasSubscriber
  <2> QED BY <2>2, <2>3, <2>4, <2>5, <2>6
<1> QED BY <1>2, <1>3

LEMMA SetInactiveType ==
  ASSUME NEW L \in Seq(Subscribers), NEW c \in Handles
  PROVE  /\ SetInactive(L, c) \in Seq(Subscribers)
         /\ DOMAIN SetInactive(L, c) = DOMAIN L
         /\ \A i \in DOMAIN L :
              /\ SetInactive(L, c)[i].id = L[i].id
              /\ IsActive(SetInactive(L, c)[i]) <=> IsActive(L[i]) /\ L[i].id # c
<1> DEFINE K == SetInactive(L, c)
<1>1. DOMAIN L = 1 .. Len(L) /\ Len(L) \in Nat /\ \A i \in DOMAIN L : L[i] \in Subscribers
  BY LenProperties, ElementOfSeq
<1>2. K = [i \in 1 .. Len(L) |-> IF L[i].id = c THEN [L[i] EXCEPT !.inactive = TRUE] ELSE L[i]]
  BY <1>1 DEF SetInactive
<1> HIDE DEF K
<1>3. \A i \in 1 .. Len(L) : K[i] \in Subscribers
  BY <1>1, <1>2 DEF Subscribers
<1>4. K \in Seq(Subscribers)
  BY <1>1, <1>2, <1>3, IsASeq
<1>5. ASSUME NEW i \in DOMAIN L
      PROVE  K[i].id = L[i].id /\ (IsActive(K[i]) <=> IsActive(L[i]) /\ L[i].id # c)
  BY <1>1, <1>2 DEF Subscribers, IsActive
<1> QED BY <1>1, <1>2, <1>4, <1>5 DEF K


LEMMA MessageType ==
  /\ \A c \in Handles, k \in Asking : Message(k, c) \in Messages
  /\ \A k \in Kinds \ Asking : Message(k, NoHandle) \in Messages
  /\ \A k, c : Is(Message(k, c), k, c) /\ Message(k, c).kind = k /\ Message(k, c).id = c
  /\ \A k, c, l, d : Is(Message(k, c), l, d) => k = l /\ c = d
BY DEF Message, Messages, Asking, Kinds, Is

LEMMA HeadType ==
  ASSUME TypeInv, NEW k, Receive(k)
  PROVE  /\ msgq # <<>> /\ Is(Head(msgq), k, Id) /\ Tail(msgq) \in Seq(Messages)
         /\ k \in Asking => Id \in Handles
         /\ k \notin Asking => Id = NoHandle
<1>1. Head(msgq) \in Messages /\ Tail(msgq) \in Seq(Messages)
  BY TakeElements DEF TypeInv, Receive
<1>2. Head(msgq).kind = k
  BY DEF Receive
<1> QED BY <1>1, <1>2 DEF Receive, Id, Is, Messages

LEMMA StartType ==
  ASSUME TypeInv, NEW L \in Seq(Subscribers), HasActive(L), NEW q \in Seq(Messages),
         NEW r \in Results, Start(L, q, r)
  PROVE  /\ msgq' \in Seq(Messages) /\ retries' \in Nat /\ timers' \in Nat
         /\ call' \in {"closed", "opening", "open", "stopping"}
<1>1. Message("RequestATL", FirstActive(L)) \in Messages
  BY FirstActiveType, MessageType DEF Asking
<1>2. Append(q, Message("RequestATL", FirstActive(L))) \in Seq(Messages)
  BY <1>1, AppendProperties
<1> QED BY <1>2 DEF Start, TypeInv

LEMMA RequestSuplEsType ==
  ASSUME TypeInv, RequestSuplEs
  PROVE  TypeInv'
<1>1. Receive("RequestSuplEs") /\ UNCHANGED <<found, supl>>
  BY DEF RequestSuplEs
<1>2. Id \in Handles /\ Tail(msgq) \in Seq(Messages)
  BY <1>1, HeadType DEF Asking
<1>3. /\ Add(list, Id) \in Seq(Subscribers)
      /\ AllActive(list) => AllActive(Add(list, Id)) /\ HasActive(Add(list, Id))
  BY <1>2, AddType DEF TypeInv
<1>4. CASE SubscribeReleased
  <2>1. PICK r \in Results :
           Start(list', Tail(msgq), r) /\ st' = IF r = "SUCCESS" THEN "Pending" ELSE "Released"
    BY <1>4 DEF SubscribeReleased
  <2>2. list' = Add(list, Id) /\ st = "Released" /\ UNCHANGED cs
    BY <1>4 DEF SubscribeReleased
  <2>3. AllActive(list)
    BY <2>2 DEF TypeInv
  <2>4. /\ list' \in Seq(Subscribers) /\ HasActive(list') /\ AllActive(list')
    BY <1>3, <2>2, <2>3
  <2>5. /\ msgq' \in Seq(Messages) /\ retries' \in Nat /\ timers' \in Nat
        /\ call' \in {"closed", "opening", "open", "stopping"}
    BY <1>2, <2>1, <2>4, StartType
  <2> QED BY <1>1, <2>1, <2>2, <2>4, <2>5 DEF TypeInv, AllActive
<1>5. CASE SubscribeOther
  <2>1. /\ st # "Released" /\ list' = Add(list, Id) /\ msgq' = Tail(msgq)
        /\ UNCHANGED <<st, retries, timers, call>>
    BY <1>5 DEF SubscribeOther
  <2>2. cs' \in [Handles -> {"idle", "asked", "up", "leaving"}]
    BY <1>5 DEF SubscribeOther, Opened, TypeInv
  <2> QED BY <1>1, <1>2, <1>3, <2>1, <2>2 DEF TypeInv
<1> QED BY <1>4, <1>5 DEF RequestSuplEs

LEMMA ReleaseATLType ==
  ASSUME TypeInv, ReleaseATL
  PROVE  TypeInv'
<1>1. Receive("ReleaseATL") /\ msgq' = Tail(msgq) /\ UNCHANGED <<retries, timers, found>>
  BY DEF ReleaseATL
<1>2. Id \in Handles /\ Tail(msgq) \in Seq(Messages)
  BY <1>1, HeadType DEF Asking
<1>3. ClosedFor(Id) /\ supl' \subseteq supl
  BY DEF ReleaseATL, Leave
<1>4. cs' \in [Handles -> {"idle", "asked", "up", "leaving"}]
  BY <1>2, <1>3 DEF ClosedFor, TypeInv
<1>5. \/ UNCHANGED <<st, list, call>>
      \/ /\ st # "Released" /\ list' = SetInactive(list, Id)
         /\ \/ UNCHANGED <<st, call>>
            \/ st' = "Releasing" /\ StopDataCall
  BY DEF ReleaseATL, Leave
<1>6. SetInactive(list, Id) \in Seq(Subscribers)
  BY <1>2, SetInactiveType DEF TypeInv
<1>7. CASE UNCHANGED <<st, list, call>>
  BY <1>1, <1>2, <1>3, <1>4, <1>7 DEF TypeInv, AllActive
<1>8. CASE /\ st # "Released" /\ list' = SetInactive(list, Id)
           /\ \/ UNCHANGED <<st, call>>
              \/ st' = "Releasing" /\ StopDataCall
  BY <1>1, <1>2, <1>3, <1>4, <1>6, <1>8 DEF TypeInv, StopDataCall
<1> QED BY <1>5, <1>7, <1>8


LEMMA SuplEsClosedType ==
  ASSUME TypeInv, SuplEsClosed
  PROVE  TypeInv'
<1>1. Receive("Closed") /\ UNCHANGED <<found, supl, cs>>
  BY DEF SuplEsClosed
<1>2. Tail(msgq) \in Seq(Messages)
  BY <1>1, HeadType
<1>3. CASE ClosedPending
  <2> DEFINE r == [i \in DOMAIN list |-> Message("RequestATL", list[i].id)]
  <2>1. DOMAIN list = 1 .. Len(list) /\ Len(list) \in Nat
    BY LenProperties DEF TypeInv
  <2>2. \A i \in DOMAIN list : list[i].id \in Handles
    <3>1. \A i \in DOMAIN list : list[i] \in Subscribers
      BY ElementOfSeq, <2>1 DEF TypeInv
    <3> QED BY <3>1 DEF Subscribers
  <2>3. \A i \in 1 .. Len(list) : Message("RequestATL", list[i].id) \in Messages
    BY <2>1, <2>2, MessageType DEF Asking
  <2>4. r \in Seq(Messages)
    BY <2>1, <2>3, IsASeq
  <2>5. msgq' = Tail(msgq) \o r /\ st' = "Released" /\ list' = <<>> /\ retries' = 0
        /\ UNCHANGED <<timers, call>>
    BY <1>3 DEF ClosedPending
  <2> HIDE DEF r
  <2>6. msgq' \in Seq(Messages)
    BY <1>2, <2>4, <2>5, ConcatProperties
  <2> QED BY <1>1, <2>5, <2>6 DEF TypeInv, AllActive
<1>4. CASE ClosedAcquired
  BY <1>1, <1>2, <1>4 DEF ClosedAcquired, TypeInv, AllActive
<1>5. CASE ClosedReleasing
  <2>0. PICK n \in 0 .. Len(list) : \E at \in [1 .. n -> DOMAIN list] :
           ListsActive(at, list) /\ list' = [i \in 1 .. n |-> list[at[i]]]
    BY <1>5 DEF ClosedReleasing
  <2>1. PICK at \in [1 .. n -> DOMAIN list] :
           ListsActive(at, list) /\ list' = [i \in 1 .. n |-> list[at[i]]]
    BY <2>0
  <2>2. \A i \in 1 .. n : list[at[i]] \in Subscribers
    BY ElementOfSeq, LenProperties DEF TypeInv
  <2>3. n \in Nat
    BY LenProperties DEF TypeInv
  <2>4. list' \in Seq(Subscribers)
    BY <2>1, <2>2, <2>3, IsASeq
  <2>5. AllActive(list')
    BY <2>1 DEF ListsActive, AllActive
  <2>6. CASE list' = <<>>
    BY <1>1, <1>2, <1>5, <2>4, <2>5, <2>6 DEF ClosedReleasing, TypeInv
  <2>7. CASE list' # <<>>
    <3>1. PICK r \in Results : Start(list', Tail(msgq), r)
      BY <1>5, <2>7 DEF ClosedReleasing
    <3>2. HasActive(list')
      BY <2>4, <2>5, <2>7, LenProperties DEF AllActive, HasActive
    <3>3. /\ msgq' \in Seq(Messages) /\ retries' \in Nat /\ timers' \in Nat
          /\ call' \in {"closed", "opening", "open", "stopping"}
      BY <1>2, <2>4, <3>1, <3>2, StartType
    <3>4. st' = "Pending"
      BY <1>5, <2>7 DEF ClosedReleasing
    <3> QED BY <1>1, <2>4, <3>3, <3>4 DEF TypeInv
  <2> QED BY <2>6, <2>7
<1>6. CASE ClosedReleased
  BY <1>1, <1>2, <1>6 DEF ClosedReleased, machine, TypeInv, AllActive
<1> QED BY <1>3, <1>4, <1>5, <1>6 DEF SuplEsClosed

LEMMA OtherType ==
  ASSUME TypeInv, RequestATL \/ SuplEsOpened \/ EngineUp
  PROVE  TypeInv'
<1>1. CASE RequestATL
  <2>1. Id \in Handles /\ Tail(msgq) \in Seq(Messages)
    BY <1>1, HeadType DEF RequestATL, Asking
  <2> QED BY <1>1, <2>1 DEF RequestATL, machine, TypeInv, AllActive
<1>2. CASE SuplEsOpened
  <2>1. Tail(msgq) \in Seq(Messages)
    BY <1>2, HeadType DEF SuplEsOpened
  <2>2. cs' \in [Handles -> {"idle", "asked", "up", "leaving"}]
    BY <1>2 DEF SuplEsOpened, Opened, TypeInv
  <2>3. st' = "Released" => st = "Released"
    BY <1>2 DEF SuplEsOpened
  <2> QED BY <1>2, <2>1, <2>2, <2>3 DEF SuplEsOpened, TypeInv, AllActive
<1>3. CASE EngineUp
  <2>1. Tail(msgq) \in Seq(Messages)
    BY <1>3, HeadType DEF EngineUp
  <2> QED BY <1>3, <2>1 DEF EngineUp, machine, TypeInv, AllActive
<1> QED BY <1>1, <1>2, <1>3

LEMMA TimersType ==
  ASSUME TypeInv, Timers
  PROVE  TypeInv'
<1>1. CASE RetryFinds
  <2>1. FirstActive(list) \in Handles \cup {NoHandle}
    BY FirstActiveType DEF TypeInv
  <2>2. timers - 1 \in Nat
    BY <1>1 DEF RetryFinds, TypeInv
  <2> QED BY <1>1, <2>1, <2>2 DEF RetryFinds, TypeInv, AllActive
<1>2. CASE RetryPosts
  <2>1. Message("RequestSuplEs", found) \in Messages
    BY <1>2, MessageType DEF RetryPosts, TypeInv, Asking
  <2>2. msgq' \in Seq(Messages)
    BY <1>2, <2>1, AppendProperties DEF RetryPosts, TypeInv
  <2> QED BY <1>2, <2>2 DEF RetryPosts, machine, TypeInv, AllActive
<1> QED BY <1>1, <1>2 DEF Timers

LEMMA OutsideType ==
  ASSUME TypeInv, Dsi \/ SuplAnswers \/ Modem
  PROVE  TypeInv'
<1>1. ASSUME NEW m \in Messages PROVE Append(msgq, m) \in Seq(Messages)
  BY AppendProperties DEF TypeInv
<1>2. CASE Dsi
  <2>1. \A k \in {"Opened", "Closed"} : Message(k, NoHandle) \in Messages
    BY MessageType DEF Asking, Kinds
  <2> QED BY <1>1, <1>2, <2>1
        DEF Dsi, DsiOpens, DsiFails, DsiStops, DsiLoses, DsiMoves, TypeInv, AllActive
<1>3. CASE SuplAnswers
  BY <1>3 DEF SuplAnswers, machine, TypeInv, AllActive
<1>4. CASE ModemRestarts
  <2>1. Message("EngineUp", NoHandle) \in Messages
    BY MessageType DEF Asking, Kinds
  <2> QED BY <1>1, <1>4, <2>1 DEF ModemRestarts, machine, TypeInv, AllActive
<1>5. ASSUME NEW c \in Handles, ModemAsks(c) \/ ModemLeaves(c) PROVE TypeInv'
  <2>1. \A k \in Asking : Message(k, c) \in Messages
    BY MessageType
  <2>2. msgq' \in Seq(Messages)
    BY <1>1, <1>5, <2>1 DEF ModemAsks, ModemLeaves, Asking
  <2>3. cs' \in [Handles -> {"idle", "asked", "up", "leaving"}]
    BY <1>5 DEF ModemAsks, ModemLeaves, TypeInv
  <2> QED BY <1>5, <2>2, <2>3 DEF ModemAsks, ModemLeaves, machine, TypeInv, AllActive
<1> QED BY <1>2, <1>3, <1>4, <1>5 DEF Modem

LEMMA TypeStep == TypeInv /\ [Next]_vars => TypeInv'
<1> SUFFICES ASSUME TypeInv, [Next]_vars PROVE TypeInv'
  OBVIOUS
<1>1. CASE UNCHANGED vars
  BY <1>1 DEF vars, TypeInv, AllActive
<1>2. CASE Next
  BY <1>2, RequestSuplEsType, ReleaseATLType, SuplEsClosedType, OtherType, TimersType, OutsideType
     DEF Next, MsgTask
<1> QED BY <1>1, <1>2

LEMMA InitType == Init => TypeInv
BY EmptySeq DEF Init, TypeInv, AllActive

\* What every variable holds; a subscriber on the list while Released is active.
THEOREM DsTypeCorrect == Spec => []TypeInv
BY InitType, TypeStep, PTL DEF Spec


-----------------------------------------------------------------------------
(* The queue of the MsgTask when the head, of kind k, is taken, and when a *)
(* message (k, c) is posted.                                               *)
LEMMA Took ==
  ASSUME TypeInv, NEW k, Receive(k), NEW q, q = Tail(msgq)
  PROVE  /\ q \in Seq(Messages)
         /\ \A l, c : In(q, l, c) => In(msgq, l, c)
         /\ \A l, c : In(msgq, l, c) => In(q, l, c) \/ (l = k /\ c = Id)
         /\ In(msgq, k, Id)
         /\ Once(msgq, k, Id) => ~In(q, k, Id)
         /\ \A l, c : Once(msgq, l, c) => Once(q, l, c)
         /\ \A l, n, c : Before(q, l, n, c) => Before(msgq, l, n, c)
         /\ \A l : In(q, l, Id) => Before(msgq, k, l, Id)
<1>1. msgq \in Seq(Messages) /\ msgq # <<>> /\ Is(Head(msgq), k, Id) /\ q \in Seq(Messages)
  BY HeadType DEF TypeInv
<1>2. \A l, c : Is(Head(msgq), l, c) => l = k /\ c = Id
  BY <1>1 DEF Is
<1>3. \A l, c :
        /\ In(q, l, c) => In(msgq, l, c)
        /\ ~Is(Head(msgq), l, c) /\ In(msgq, l, c) => In(q, l, c)
        /\ Is(Head(msgq), l, c) => In(msgq, l, c)
        /\ Is(Head(msgq), l, c) /\ Once(msgq, l, c) => ~In(q, l, c)
        /\ Once(msgq, l, c) => Once(q, l, c)
  BY <1>1, Take
<1>4. \A l, n, c :
        /\ Before(q, l, n, c) => Before(msgq, l, n, c)
        /\ Is(Head(msgq), l, c) /\ In(q, n, c) => Before(msgq, l, n, c)
  BY <1>1, Take
<1> QED BY <1>1, <1>2, <1>3, <1>4

LEMMA Posted ==
  ASSUME NEW q \in Seq(Messages), NEW k, NEW c, Message(k, c) \in Messages,
         msgq' = Append(q, Message(k, c))
  PROVE  /\ \A l, d : In(msgq', l, d) <=> In(q, l, d) \/ (l = k /\ d = c)
         /\ \A l, d : Once(q, l, d) /\ (l = k /\ d = c => ~In(q, l, d)) => Once(msgq', l, d)
         /\ \A l, n, d : Before(msgq', l, n, d) =>
                           Before(q, l, n, d) \/ (n = k /\ d = c /\ In(q, l, d))
<1> DEFINE m == Message(k, c)
<1>1. \A l, d : Is(m, l, d) <=> l = k /\ d = c
  BY MessageType
<1> HIDE DEF m
<1>2. m \in Messages /\ msgq' = Append(q, m)
  BY DEF m
<1>3. \A l, d :
        /\ In(msgq', l, d) <=> In(q, l, d) \/ Is(m, l, d)
        /\ Once(q, l, d) /\ (Is(m, l, d) => ~In(q, l, d)) => Once(msgq', l, d)
  BY <1>2, Put
<1>4. \A l, n, d : Before(msgq', l, n, d) => Before(q, l, n, d) \/ (Is(m, n, d) /\ In(q, l, d))
  BY <1>2, Put
<1> QED BY <1>1, <1>3, <1>4

-----------------------------------------------------------------------------
(* The circumstances that are left out are not forgotten. *)
LEMMA SeenGrows == [Next]_vars => seen \subseteq seen'
<1> SUFFICES ASSUME [Next]_vars PROVE seen \subseteq seen'
  OBVIOUS
<1> USE DEF Note
<1>1. CASE MsgTask
  <2>1. CASE RequestSuplEs
    BY <2>1 DEF RequestSuplEs, SubscribeReleased, SubscribeOther
  <2>2. CASE ReleaseATL
    BY <2>2 DEF ReleaseATL, Leave
  <2>3. CASE RequestATL \/ SuplEsOpened \/ EngineUp
    BY <2>3 DEF RequestATL, SuplEsOpened, EngineUp
  <2>4. CASE SuplEsClosed
    BY <2>4 DEF SuplEsClosed, ClosedPending, ClosedAcquired, ClosedReleasing, ClosedReleased
  <2> QED BY <1>1, <2>1, <2>2, <2>3, <2>4 DEF MsgTask
<1>2. CASE Timers \/ Dsi \/ SuplAnswers \/ Modem
  BY <1>2 DEF Timers, RetryFinds, RetryPosts, Dsi, DsiOpens, DsiFails, DsiStops, DsiLoses, DsiMoves,
              SuplAnswers, Modem, ModemRestarts, ModemAsks, ModemLeaves
<1>3. CASE UNCHANGED vars
  BY <1>3 DEF vars
<1> QED BY <1>1, <1>2, <1>3 DEF Next

LEMMA ExemptStep == Exempt /\ [Next]_vars => Exempt'
BY SeenGrows DEF Exempt, Seen

-----------------------------------------------------------------------------
(* After a start that failed unseen the machine waits for ever. *)
LEMMA StuckStep ==
  ASSUME TypeInv, Stuck, [Next]_vars
  PROVE  Stuck' \/ Exempt'
<1> USE DSAssumption
<1>1. ASSUME NEW k, Receive(k), NEW q, q = Tail(msgq)
      PROVE  /\ k \notin {"Opened", "Closed"}
             /\ ~In(q, "Opened", NoHandle) /\ ~In(q, "Closed", NoHandle)
  <2>1. k \in {"Opened", "Closed"} => Id = NoHandle
    BY <1>1, HeadType DEF Asking
  <2> QED BY <1>1, <2>1, Took DEF Stuck, NoNews
<1>2. ASSUME NEW k, NEW c, Message(k, c) \in Messages, k \notin {"Opened", "Closed"},
             msgq' = Append(msgq, Message(k, c))
      PROVE  NoNews'
  <2>1. msgq \in Seq(Messages)
    BY DEF TypeInv
  <2>2. \A l, d : In(msgq', l, d) <=> In(msgq, l, d) \/ (l = k /\ d = c)
    BY <1>2, <2>1, Posted
  <2> QED BY <1>2, <2>2 DEF Stuck, NoNews
<1>3. CASE RequestSuplEs
  <2>1. Receive("RequestSuplEs") /\ UNCHANGED found /\ SubscribeOther
    BY <1>3 DEF RequestSuplEs, SubscribeReleased, Stuck
  <2>2. msgq' = Tail(msgq) /\ list' = Add(list, Id) /\ UNCHANGED <<st, call>>
    BY <2>1 DEF SubscribeOther
  <2>3. Id \in Handles
    BY <2>1, HeadType DEF Asking
  <2>4. NoNews'
    BY <1>1, <2>1, <2>2 DEF NoNews
  <2> QED BY <2>1, <2>2, <2>3, <2>4, AddType DEF Stuck, TypeInv
<1>4. CASE ReleaseATL
  <2>1. Receive("ReleaseATL") /\ msgq' = Tail(msgq) /\ UNCHANGED found
    BY <1>4 DEF ReleaseATL
  <2>2. Id \in Handles
    BY <2>1, HeadType DEF Asking
  <2>3. NoNews'
    BY <1>1, <2>1 DEF NoNews
  <2>4. \A c : HasSubscriber(list, c) => HasSubscriber(SetInactive(list, Id), c)
    <3>1. /\ DOMAIN SetInactive(list, Id) = DOMAIN list
          /\ \A i \in DOMAIN list : SetInactive(list, Id)[i].id = list[i].id
      BY <2>2, SetInactiveType DEF TypeInv
    <3> QED BY <3>1 DEF HasSubscriber
  <2>5. call' = call /\ st' \in {"Pending", "Releasing"} /\ list' \in {list, SetInactive(list, Id)}
    BY <1>4 DEF ReleaseATL, Leave, StopDataCall, Stuck
  <2> QED BY <2>1, <2>3, <2>4, <2>5 DEF Stuck
<1>5. CASE RequestATL \/ EngineUp
  <2>1. msgq' = Tail(msgq) /\ UNCHANGED <<st, list, call, found>>
    BY <1>5 DEF RequestATL, EngineUp, machine
  <2>2. NoNews'
    BY <1>1, <1>5, <2>1 DEF NoNews, RequestATL, EngineUp
  <2> QED BY <2>1, <2>2 DEF Stuck
<1>6. CASE SuplEsOpened \/ SuplEsClosed
  BY <1>1, <1>6 DEF SuplEsOpened, SuplEsClosed
<1>7. CASE RetryFinds
  BY <1>7, FirstActiveType DEF RetryFinds, Stuck, NoNews, TypeInv
<1>8. CASE RetryPosts
  <2>1. Message("RequestSuplEs", found) \in Messages
    BY <1>8, MessageType DEF RetryPosts, TypeInv, Asking
  <2>2. NoNews'
    BY <1>2, <1>8, <2>1 DEF RetryPosts
  <2> QED BY <1>8, <2>2 DEF RetryPosts, machine, Stuck
<1>9. CASE Dsi
  BY <1>9 DEF Dsi, DsiOpens, DsiFails, DsiStops, DsiLoses, DsiMoves, Stuck
<1>10. CASE SuplAnswers
  BY <1>10 DEF SuplAnswers, machine, Stuck, NoNews
<1>11. CASE ModemRestarts
  BY <1>11 DEF ModemRestarts, Note, Exempt, Seen
<1>12. ASSUME NEW c \in Handles, ModemAsks(c) \/ ModemLeaves(c) PROVE Stuck'
  <2>1. \A k \in Asking : Message(k, c) \in Messages
    BY MessageType
  <2>2. NoNews'
    BY <1>2, <1>12, <2>1 DEF ModemAsks, ModemLeaves, Asking
  <2> QED BY <1>12, <2>2 DEF ModemAsks, ModemLeaves, machine, Stuck
<1>13. CASE UNCHANGED vars
  BY <1>13 DEF vars, Stuck, NoNews
<1> QED BY <1>3, <1>4, <1>5, <1>6, <1>7, <1>8, <1>9, <1>10, <1>11, <1>12, <1>13
        DEF Next, MsgTask, Timers, Modem


-----------------------------------------------------------------------------
(* News of the call, and messages about clients, do not disturb each other. *)
LEMMA TookAsking ==
  ASSUME TypeInv, NEW k, Receive(k), k \notin {"Opened", "Closed"}, msgq' = Tail(msgq), NewsInOrder
  PROVE  /\ NewsInOrder'
         /\ \A l \in {"Opened", "Closed"} : In(msgq', l, NoHandle) <=> In(msgq, l, NoHandle)
<1>1. /\ \A l, c : In(msgq', l, c) => In(msgq, l, c)
      /\ \A l, c : In(msgq, l, c) => In(msgq', l, c) \/ (l = k /\ c = Id)
      /\ \A l, c : Once(msgq, l, c) => Once(msgq', l, c)
      /\ \A l, n, c : Before(msgq', l, n, c) => Before(msgq, l, n, c)
  BY Took
<1> QED BY <1>1 DEF NewsInOrder

LEMMA TookNews ==
  ASSUME TypeInv, NEW k, Receive(k), k \notin Asking, msgq' = Tail(msgq), NEW c \in Handles
  PROVE  /\ \A l : In(msgq', l, c) <=> In(msgq, l, c)
         /\ \A l : Once(msgq, l, c) => Once(msgq', l, c)
         /\ \A l, n : Before(msgq', l, n, c) => Before(msgq, l, n, c)
<1>1. Id # c
  BY HeadType, DSAssumption
<1> QED BY <1>1, Took

LEMMA PostedAsking ==
  ASSUME TypeInv, NEW k \in Kinds \ {"Opened", "Closed"}, NEW c, Message(k, c) \in Messages,
         msgq' = Append(msgq, Message(k, c)), NewsInOrder
  PROVE  /\ NewsInOrder'
         /\ \A l \in {"Opened", "Closed"} : In(msgq', l, NoHandle) <=> In(msgq, l, NoHandle)
<1>1. msgq \in Seq(Messages)
  BY DEF TypeInv
<1>2. /\ \A l, d : In(msgq', l, d) <=> In(msgq, l, d) \/ (l = k /\ d = c)
      /\ \A l, d : Once(msgq, l, d) /\ (l = k /\ d = c => ~In(msgq, l, d)) => Once(msgq', l, d)
      /\ \A l, n, d : Before(msgq', l, n, d) =>
                        Before(msgq, l, n, d) \/ (n = k /\ d = c /\ In(msgq, l, d))
  BY <1>1, Posted
<1> QED BY <1>2 DEF NewsInOrder

\* In Released there is no subscriber, or one, which is active.
LEMMA ReleasedList ==
  ASSUME TypeInv, ListInv, st = "Released"
  PROVE  /\ list # <<>> => Len(list) = 1
         /\ \A c : Active(c) <=> Len(list) = 1 /\ list[1].id = c
         /\ \A c : HasSubscriber(list, c) => Active(c)
<1>1. /\ Len(list) \in Nat /\ DOMAIN list = 1 .. Len(list) /\ Len(list) <= 1
      /\ list # <<>> => Len(list) # 0
  BY LenProperties, EmptySeq DEF TypeInv, ListInv
<1>2. AllActive(list)
  BY DEF TypeInv
<1> QED BY <1>1, <1>2 DEF Active, HasSubscriber, AllActive


-----------------------------------------------------------------------------
(* One lemma per step, from a normal state: the next is normal, or stuck. *)
LEMMA SubscribeReleasedStep ==
  ASSUME TypeInv, TypeInv', Normal, Receive("RequestSuplEs"), SubscribeReleased, ~Exempt',
         UNCHANGED <<found, supl>>
  PROVE  Normal'
<1> DEFINE q == Tail(msgq)
<1>1. /\ st = "Released" /\ list' = Add(list, Id) /\ UNCHANGED cs
      /\ list = <<>> \/ list' = list
      /\ Id \in Handles
  <2>1. Id \in Handles
    BY HeadType DEF Asking
  <2>2. PICK r \in Results :
           Note(When(list \notin {<<>>, list'}, "crowd") \cup When(r = "OTHER", "dropped"))
    BY DEF SubscribeReleased
  <2>3. list \in {<<>>, list'}
    BY <2>2 DEF Note, When, Exempt, Seen
  <2> QED BY <2>1, <2>3 DEF SubscribeReleased
<1>2. /\ HasSubscriber(list', Id) /\ HasActive(list') /\ AllActive(list')
      /\ list' \in Seq(Subscribers)
  BY <1>1, AddType DEF TypeInv
<1>3. Len(list') = 1 /\ list'[1].id = Id /\ DOMAIN list' = {1}
  <2>1. CASE list = <<>>
    <3>1. ~HasSubscriber(list, Id)
      BY <2>1 DEF HasSubscriber
    <3> DEFINE s == [id |-> Id, inactive |-> FALSE]
    <3>2. list' = <<s>> \o <<>>
      BY <1>1, <2>1, <3>1 DEF Add
    <3>3. s \in Subscribers /\ s.id = Id
      BY <1>1 DEF Subscribers
    <3> HIDE DEF s
    <3>4. list' = <<s>>
      BY <3>2, <3>3, ConcatEmptySeq
    <3> QED BY <3>3, <3>4
  <2>2. CASE list' = list
    <3>1. list # <<>>
      BY <1>2, <2>2 DEF HasSubscriber
    <3>2. Len(list) = 1 /\ DOMAIN list = 1 .. Len(list)
      BY <1>1, <3>1, ReleasedList, LenProperties DEF Normal, TypeInv
    <3> QED BY <1>2, <2>2, <3>2 DEF HasSubscriber
  <2> QED BY <1>1, <2>1, <2>2
<1>4. \A c : Active(c)' <=> c = Id
  BY <1>2, <1>3 DEF Active, AllActive
<1>5. FirstActive(list') = Id
  BY <1>2, <1>3, FirstActiveIs
<1>6. /\ q \in Seq(Messages)
      /\ \A l, c : In(q, l, c) => In(msgq, l, c)
      /\ \A l, c : In(msgq, l, c) => In(q, l, c) \/ (l = "RequestSuplEs" /\ c = Id)
      /\ In(msgq, "RequestSuplEs", Id) /\ ~In(q, "RequestSuplEs", Id)
      /\ \A l, c : Once(msgq, l, c) => Once(q, l, c)
      /\ \A l, n, c : Before(q, l, n, c) => Before(msgq, l, n, c)
  BY <1>1, Took DEF Normal, ClientInv
<1> HIDE DEF q
<1>7. call = "closed" /\ NoNews
  BY <1>1 DEF Normal, CallInv, TypeInv
<1>8. timers = 0 /\ found = NoHandle
  <2> SUFFICES ASSUME timers = 1 \/ found # NoHandle PROVE FALSE
    BY DEF Normal, RetryInv
  <2>1. Len(list) = 1 /\ ~In(msgq, "RequestSuplEs", list[1].id)
    BY DEF Normal, RetryInv, Owed
  <2>2. list' = list
    BY <1>1, <2>1
  <2> QED BY <1>3, <1>6, <2>1, <2>2
<1>9. PICK r \in Results :
         Start(list', q, r) /\ st' = IF r = "SUCCESS" THEN "Pending" ELSE "Released"
  BY DEF SubscribeReleased, q
<1>10. \/ msgq' = q
       \/ msgq' = Append(q, Message("RequestATL", Id)) /\ GivesUp(r)
  BY <1>5, <1>9 DEF Start
<1>11. /\ \A l, c : In(q, l, c) => In(msgq', l, c)
       /\ \A l, c : In(msgq', l, c) => In(q, l, c) \/ (l = "RequestATL" /\ c = Id /\ GivesUp(r))
       /\ \A l, c : l # "RequestATL" /\ Once(q, l, c) => Once(msgq', l, c)
       /\ \A l, n, c : n # "RequestATL" /\ Before(msgq', l, n, c) => Before(q, l, n, c)
  <2>1. CASE msgq' = q
    BY <2>1
  <2>2. CASE msgq' = Append(q, Message("RequestATL", Id)) /\ GivesUp(r)
    <3>1. Message("RequestATL", Id) \in Messages
      BY <1>1, MessageType DEF Asking
    <3>2. /\ \A l, d : In(msgq', l, d) <=> In(q, l, d) \/ (l = "RequestATL" /\ d = Id)
          /\ \A l, d : Once(q, l, d) /\ (l = "RequestATL" /\ d = Id => ~In(q, l, d)) => Once(msgq', l, d)
          /\ \A l, n, d : Before(msgq', l, n, d) =>
                            Before(q, l, n, d) \/ (n = "RequestATL" /\ d = Id /\ In(q, l, d))
      BY <1>6, <2>2, <3>1, Posted
    <3> QED BY <2>2, <3>2
  <2> QED BY <1>10, <2>1, <2>2
<1>12. /\ call' = IF r = "SUCCESS" THEN "opening" ELSE "closed"
       /\ timers' = IF r = "ENGINE_BUSY" /\ ~GivesUp(r) THEN 1 ELSE 0
  BY <1>7, <1>8, <1>9 DEF Start
<1>13. GivesUp(r) => r # "SUCCESS"
  BY DEF GivesUp
<1>14. CallInv'
  <2>1. NoNews' /\ NewsInOrder'
    BY <1>6, <1>7, <1>11 DEF NoNews, NewsInOrder, Normal, CallInv
  <2> QED BY <1>9, <1>12, <2>1 DEF CallInv
<1>15. ListInv'
  BY <1>2, <1>3 DEF ListInv
<1>16. ASSUME NEW c \in Handles PROVE ClientInv(c)'
  <2>1. ClientInv(c) /\ cs' = cs /\ supl' = supl
    BY <1>1 DEF Normal
  <2>2. Active(c) => c = Id
    BY <1>1, <1>3, ReleasedList DEF Normal
  <2>3. ~Before(msgq', "ReleaseATL", "RequestSuplEs", c)
    <3> SUFFICES ASSUME Before(msgq', "ReleaseATL", "RequestSuplEs", c) PROVE FALSE
      OBVIOUS
    <3>1. Before(q, "ReleaseATL", "RequestSuplEs", c)
      BY <1>11
    <3>2. c = Id
      BY <1>6, <2>1, <2>2, <3>1 DEF ClientInv
    <3>3. In(q, "RequestSuplEs", c)
      BY <3>1 DEF Before, In
    <3> QED BY <1>6, <3>2, <3>3
  <2>4. In(msgq', "RequestSuplEs", c) => c # Id /\ In(msgq, "RequestSuplEs", c)
    BY <1>6, <1>11
  <2>5. c # Id => (In(msgq', "RequestATL", c) <=> In(msgq, "RequestATL", c))
    BY <1>6, <1>11
  <2>6. r = "SUCCESS" => (In(msgq', "RequestATL", c) <=> In(msgq, "RequestATL", c))
    BY <1>6, <1>11, <1>13
  <2>7. /\ In(msgq', "ReleaseATL", c) <=> In(msgq, "ReleaseATL", c)
        /\ Once(msgq', "ReleaseATL", c) /\ Once(msgq', "RequestSuplEs", c)
    BY <1>6, <1>11, <2>1 DEF ClientInv
  <2> QED BY <1>4, <1>6, <1>9, <2>1, <2>3, <2>4, <2>5, <2>6, <2>7 DEF ClientInv
<1>17. RetryInv'
  <2>1. CASE timers' = 0
    BY <1>8, <2>1 DEF RetryInv
  <2>2. CASE timers' = 1
    <3>1. r = "ENGINE_BUSY" /\ ~GivesUp(r) /\ st' = "Released"
      BY <1>9, <1>12, <2>2
    <3>2. ~In(msgq', "RequestSuplEs", Id) /\ ~In(msgq', "RequestATL", Id)
      BY <1>1, <1>6, <1>11, <3>1 DEF Normal, ClientInv
    <3>3. Id \notin supl' /\ cs'[Id] # "idle"
      BY <1>1, <1>6 DEF Normal, ClientInv
    <3> QED BY <1>3, <1>8, <2>2, <3>1, <3>2, <3>3 DEF RetryInv, Owed
  <2> QED BY <1>12, <2>1, <2>2
<1> QED BY <1>14, <1>15, <1>16, <1>17 DEF Normal


LEMMA OneSubscriber ==
  ASSUME TypeInv, Len(list) = 1
  PROVE  list[1].id \in Handles
<1>1. 1 \in 1 .. Len(list) /\ list \in Seq(Subscribers)
  BY DEF TypeInv
<1>2. list[1] \in Subscribers
  BY <1>1, ElementOfSeq
<1> QED BY <1>2 DEF Subscribers

\* Outside Released nothing is being retried.
LEMMA NoRetry ==
  ASSUME TypeInv, Normal, st # "Released"
  PROVE  timers = 0 /\ found = NoHandle /\ \A c \in Handles : ~Before(msgq, "ReleaseATL", "RequestSuplEs", c)
BY DEF Normal, RetryInv, ClientInv

LEMMA SubscribeOtherStep ==
  ASSUME TypeInv, TypeInv', Normal, Receive("RequestSuplEs"), SubscribeOther,
         UNCHANGED <<found, supl>>
  PROVE  Normal'
<1>1. /\ st # "Released" /\ list' = Add(list, Id) /\ msgq' = Tail(msgq)
      /\ UNCHANGED <<st, retries, timers, call>>
  BY DEF SubscribeOther
<1>2. Id \in Handles
  BY HeadType DEF Asking
<1>3. /\ HasActive(list) => HasActive(list')
      /\ \A c : Active(c)' => Active(c) \/ c = Id
  <2>1. HasActive(list) => HasActive(list')
    BY <1>1, <1>2, AddType DEF TypeInv
  <2>2. CASE HasSubscriber(list, Id)
    BY <1>1, <2>1, <2>2 DEF Add, Active
  <2>3. CASE ~HasSubscriber(list, Id)
    <3> DEFINE s == [id |-> Id, inactive |-> FALSE]
    <3>1. s.id = Id /\ list' = <<s>> \o list /\ s \in Subscribers
      BY <1>1, <1>2, <2>3 DEF Add, Subscribers
    <3> HIDE DEF s
    <3>2. \A i \in DOMAIN list' : list'[i] = s \/ \E j \in DOMAIN list : list'[i] = list[j]
      BY <3>1, Prepended DEF TypeInv
    <3> QED BY <2>1, <3>1, <3>2 DEF Active
  <2> QED BY <2>2, <2>3
<1>4. /\ \A l, c : In(msgq', l, c) => In(msgq, l, c)
      /\ \A l, c : In(msgq, l, c) => In(msgq', l, c) \/ (l = "RequestSuplEs" /\ c = Id)
      /\ In(msgq, "RequestSuplEs", Id) /\ ~In(msgq', "RequestSuplEs", Id)
      /\ \A l, c : Once(msgq, l, c) => Once(msgq', l, c)
      /\ \A l, n, c : Before(msgq', l, n, c) => Before(msgq, l, n, c)
  BY <1>1, <1>2, Took DEF Normal, ClientInv
<1>5. CallInv'
  <2>1. NewsInOrder' /\ \A l \in {"Opened", "Closed"} : In(msgq', l, NoHandle) <=> In(msgq, l, NoHandle)
    BY <1>1, TookAsking DEF Normal, CallInv
  <2> QED BY <1>1, <2>1 DEF Normal, CallInv, NoNews
<1>6. ListInv'
  BY <1>1, <1>3 DEF Normal, ListInv
<1>7. RetryInv'
  BY <1>1, NoRetry DEF RetryInv
<1>8. \A c \in Handles : cs'[c] = cs[c] \/ (cs[c] = "asked" /\ cs'[c] = "up")
  BY DEF SubscribeOther, Opened, TypeInv
<1>9. ASSUME NEW c \in Handles PROVE ClientInv(c)'
  <2>1. ClientInv(c) /\ ClientInv(Id)
    BY <1>2 DEF Normal
  <2>2. ~Before(msgq', "ReleaseATL", "RequestSuplEs", c)
    BY <1>1, <1>4, NoRetry
  <2>3. (cs'[c] = "leaving" <=> cs[c] = "leaving") /\ (cs[c] # "idle" <=> cs'[c] # "idle")
    BY <1>8
  <2>4. Active(c)' => cs[c] # "idle" /\ c \notin supl /\ ~In(msgq', "RequestATL", c)
    BY <1>1, <1>3, <1>4, <2>1 DEF ClientInv
  <2>5. In(msgq', "RequestSuplEs", c) => c # Id /\ In(msgq, "RequestSuplEs", c) /\ ~Active(c)'
    BY <1>1, <1>3, <1>4, <2>1 DEF ClientInv
  <2>6. In(msgq', "ReleaseATL", c) <=> In(msgq, "ReleaseATL", c)
    BY <1>4
  <2>7. In(msgq', "RequestATL", c) => In(msgq, "RequestATL", c)
    BY <1>4
  <2>8. Once(msgq', "ReleaseATL", c) /\ Once(msgq', "RequestSuplEs", c)
    BY <1>4, <2>1 DEF ClientInv
  <2> QED BY <1>1, <2>1, <2>2, <2>3, <2>4, <2>5, <2>6, <2>7, <2>8 DEF ClientInv
<1> QED BY <1>5, <1>6, <1>7, <1>9 DEF Normal

LEMMA RequestATLStep ==
  ASSUME TypeInv, TypeInv', Normal, RequestATL, ~Exempt'
  PROVE  Normal'
<1>1. /\ Receive("RequestATL") /\ msgq' = Tail(msgq) /\ supl' = supl \cup {Id}
      /\ UNCHANGED <<st, list, timers, call, found, cs>>
  BY DEF RequestATL, machine
<1>2. cs[Id] = "asked"
  BY DEF RequestATL, Note, When, Exempt, Seen
<1>3. Id \in Handles
  BY <1>1, HeadType DEF Asking
<1>4. /\ \A l, c : In(msgq', l, c) => In(msgq, l, c)
      /\ \A l, c : In(msgq, l, c) => In(msgq', l, c) \/ (l = "RequestATL" /\ c = Id)
      /\ In(msgq, "RequestATL", Id)
      /\ \A l, c : Once(msgq, l, c) => Once(msgq', l, c)
      /\ \A l, n, c : Before(msgq', l, n, c) => Before(msgq, l, n, c)
  BY <1>1, Took
<1>5. CallInv'
  <2>1. NewsInOrder' /\ \A l \in {"Opened", "Closed"} : In(msgq', l, NoHandle) <=> In(msgq, l, NoHandle)
    BY <1>1, TookAsking DEF Normal, CallInv
  <2> QED BY <1>1, <2>1 DEF Normal, CallInv, NoNews
<1>6. ListInv'
  BY <1>1 DEF Normal, ListInv
<1>7. RetryInv'
  BY <1>1, <1>4 DEF Normal, RetryInv, Owed
<1>8. ASSUME NEW c \in Handles PROVE ClientInv(c)'
  <2>1. ClientInv(c) /\ (Active(c)' <=> Active(c))
    BY <1>1 DEF Normal, Active
  <2>2. In(msgq, "RequestSuplEs", c) \/ (Active(c) /\ st # "Released") => c # Id
    BY <1>4, <2>1 DEF ClientInv
  <2>3. /\ In(msgq', "ReleaseATL", c) <=> In(msgq, "ReleaseATL", c)
        /\ In(msgq', "RequestSuplEs", c) <=> In(msgq, "RequestSuplEs", c)
        /\ In(msgq', "RequestATL", c) => In(msgq, "RequestATL", c)
    BY <1>4
  <2>4. /\ Once(msgq', "ReleaseATL", c) /\ Once(msgq', "RequestSuplEs", c)
        /\ Before(msgq', "ReleaseATL", "RequestSuplEs", c) => Before(msgq, "ReleaseATL", "RequestSuplEs", c)
    BY <1>4, <2>1 DEF ClientInv
  <2> QED BY <1>1, <1>2, <2>1, <2>2, <2>3, <2>4 DEF ClientInv
<1> QED BY <1>5, <1>6, <1>7, <1>8 DEF Normal

LEMMA ReleaseATLStep ==
  ASSUME TypeInv, TypeInv', Normal, ReleaseATL, ~Exempt'
  PROVE  Normal'
<1>1. /\ Receive("ReleaseATL") /\ msgq' = Tail(msgq) /\ ClosedFor(Id)
      /\ supl' = supl \ {Id} /\ UNCHANGED <<timers, found>>
  BY DEF ReleaseATL, Leave
<1>2. Id \in Handles
  BY <1>1, HeadType DEF Asking
<1>3. /\ cs'[Id] = "idle" /\ \A c \in Handles : c # Id => cs'[c] = cs[c]
  BY <1>1, <1>2 DEF ClosedFor, TypeInv
<1>4. /\ \A l, c : In(msgq', l, c) => In(msgq, l, c)
      /\ \A l, c : In(msgq, l, c) => In(msgq', l, c) \/ (l = "ReleaseATL" /\ c = Id)
      /\ In(msgq, "ReleaseATL", Id) /\ ~In(msgq', "ReleaseATL", Id)
      /\ \A l, c : Once(msgq, l, c) => Once(msgq', l, c)
      /\ \A l, n, c : Before(msgq', l, n, c) => Before(msgq, l, n, c)
      /\ In(msgq', "RequestSuplEs", Id) => Before(msgq, "ReleaseATL", "RequestSuplEs", Id)
  BY <1>1, <1>2, Took DEF Normal, ClientInv
<1>5. NewsInOrder' /\ \A l \in {"Opened", "Closed"} : In(msgq', l, NoHandle) <=> In(msgq, l, NoHandle)
  BY <1>1, TookAsking DEF Normal, CallInv
<1>6. \/ /\ UNCHANGED <<st, list, call>>
         /\ Id \in supl \/ ~HasSubscriber(list, Id)
      \/ /\ st # "Released" /\ list' = SetInactive(list, Id) /\ Id \notin supl
         /\ \/ UNCHANGED <<st, call>> /\ (st = "Releasing" \/ HasActive(list'))
            \/ st # "Releasing" /\ st' = "Releasing" /\ StopDataCall
  BY DEF ReleaseATL, Leave, Note, Exempt, Seen
<1>7. /\ \A c : Active(c)' => Active(c)
      /\ st' = "Released" <=> st = "Released"
      /\ st = "Released" => UNCHANGED <<st, list>>
      /\ Id \in supl \/ ~HasSubscriber(list, Id) \/ \A c : Active(c)' => c # Id
  <2>1. CASE UNCHANGED <<st, list, call>> /\ (Id \in supl \/ ~HasSubscriber(list, Id))
    BY <2>1 DEF Active
  <2>2. CASE /\ st # "Released" /\ list' = SetInactive(list, Id)
             /\ \/ UNCHANGED <<st, call>>
                \/ st' = "Releasing" /\ StopDataCall
    <3> DEFINE K == SetInactive(list, Id)
    <3>1. /\ DOMAIN K = DOMAIN list
          /\ \A i \in DOMAIN list :
               K[i].id = list[i].id /\ (IsActive(K[i]) <=> IsActive(list[i]) /\ list[i].id # Id)
      BY <1>2, SetInactiveType DEF TypeInv
    <3> HIDE DEF K
    <3>2. list' = K /\ st # "Released" /\ st' # "Released"
      BY <2>2, <1>2 DEF K
    <3>3. \A c : Active(c)' => Active(c) /\ c # Id
      BY <3>1, <3>2 DEF Active
    <3> QED BY <3>2, <3>3
  <2> QED BY <1>6, <2>1, <2>2
<1>8. ~In(msgq', "RequestSuplEs", Id)
  <2>1. Before(msgq, "ReleaseATL", "RequestSuplEs", Id) => st = "Released" /\ Active(Id)
    BY <1>2 DEF Normal, ClientInv
  <2>2. Active(Id) => HasSubscriber(list, Id)
    BY DEF Active, HasSubscriber
  <2>3. Id \in supl => ~In(msgq, "RequestSuplEs", Id)
    BY <1>2 DEF Normal, ClientInv
  <2> QED BY <1>4, <1>6, <2>1, <2>2, <2>3
<1>9. st # "Released" => \A c : Active(c)' => c # Id
  <2>1. Active(Id) => HasSubscriber(list, Id)
    BY DEF Active, HasSubscriber
  <2>2. Active(Id) /\ st # "Released" => Id \notin supl
    BY <1>2 DEF Normal, ClientInv
  <2> QED BY <1>7, <2>1, <2>2
<1>10. CallInv'
  <2>1. CASE UNCHANGED <<st, call>>
    BY <1>5, <2>1 DEF Normal, CallInv, NoNews
  <2>2. CASE st # "Released" /\ st # "Releasing" /\ st' = "Releasing" /\ StopDataCall
    BY <1>5, <2>2 DEF Normal, CallInv, NoNews, StopDataCall, TypeInv
  <2> QED BY <1>6, <2>1, <2>2
<1>11. ListInv'
  BY <1>6, <1>7 DEF Normal, ListInv
<1>12. RetryInv'
  <2>1. CASE timers = 1 \/ found # NoHandle
    <3>1. /\ st = "Released" /\ Len(list) = 1 /\ found \in {NoHandle, list[1].id} /\ Owed(list[1].id)
          /\ UNCHANGED <<st, list>>
      BY <1>7, <2>1 DEF Normal, RetryInv
    <3>2. Active(list[1].id) /\ list[1].id \in Handles
      <4>1. Active(list[1].id)
        BY <3>1, ReleasedList DEF Normal
      <4> QED BY <3>1, <4>1, OneSubscriber
    <3>3. list[1].id # Id
      BY <1>6, <3>1, <3>2 DEF Owed, Active, HasSubscriber
    <3> QED BY <1>1, <1>3, <1>4, <3>1, <3>2, <3>3 DEF Normal, RetryInv, Owed
  <2>2. CASE ~(timers = 1 \/ found # NoHandle)
    BY <1>1, <2>2 DEF Normal, RetryInv
  <2> QED BY <2>1, <2>2
<1>13. ASSUME NEW c \in Handles PROVE ClientInv(c)'
  <2>1. ClientInv(c)
    BY DEF Normal
  <2>2. /\ In(msgq', "ReleaseATL", c) <=> In(msgq, "ReleaseATL", c) /\ c # Id
        /\ In(msgq', "RequestSuplEs", c) <=> In(msgq, "RequestSuplEs", c) /\ c # Id
        /\ In(msgq', "RequestATL", c) => In(msgq, "RequestATL", c)
    BY <1>4, <1>8
  <2>3. /\ Once(msgq', "ReleaseATL", c) /\ Once(msgq', "RequestSuplEs", c)
        /\ Before(msgq', "ReleaseATL", "RequestSuplEs", c) => Before(msgq, "ReleaseATL", "RequestSuplEs", c)
    BY <1>4, <2>1 DEF ClientInv
  <2>4. Before(msgq', "ReleaseATL", "RequestSuplEs", c) => st' = "Released" /\ Active(c)'
    BY <1>7, <2>1, <2>3 DEF ClientInv, Active
  <2>5. CASE c = Id
    BY <1>1, <1>3, <1>7, <1>9, <2>1, <2>2, <2>3, <2>4, <2>5 DEF ClientInv
  <2>6. CASE c # Id
    BY <1>1, <1>3, <1>7, <2>1, <2>2, <2>3, <2>4, <2>6 DEF ClientInv
  <2> QED BY <2>5, <2>6
<1> QED BY <1>10, <1>11, <1>12, <1>13 DEF Normal


LEMMA SuplEsOpenedStep ==
  ASSUME TypeInv, TypeInv', Normal, SuplEsOpened
  PROVE  Normal'
<1>1. /\ Receive("Opened") /\ msgq' = Tail(msgq)
      /\ UNCHANGED <<list, timers, call, found, supl>>
      /\ \/ st = "Pending" /\ st' = "Acquired"
         \/ st # "Pending" /\ st' = st
  BY DEF SuplEsOpened
<1>2. \A c \in Handles : cs'[c] = cs[c] \/ (cs[c] = "asked" /\ cs'[c] = "up")
  BY DEF SuplEsOpened, Opened, TypeInv
<1>3. Id = NoHandle
  BY <1>1, HeadType DEF Asking
<1>4. /\ In(msgq, "Opened", NoHandle) /\ ~In(msgq', "Opened", NoHandle)
      /\ In(msgq', "Closed", NoHandle) <=> In(msgq, "Closed", NoHandle)
      /\ NewsInOrder'
  BY <1>1, <1>3, Took DEF Normal, CallInv, NewsInOrder
<1>5. CallInv'
  BY <1>1, <1>4 DEF Normal, CallInv, NoNews, TypeInv
<1>6. ListInv'
  BY <1>1 DEF Normal, ListInv
<1>7. st # "Released" /\ st' # "Released"
  BY <1>1, <1>4 DEF Normal, CallInv, NoNews, TypeInv
<1>8. RetryInv'
  BY <1>1, <1>7, NoRetry DEF RetryInv
<1>9. ASSUME NEW c \in Handles PROVE ClientInv(c)'
  <2>1. ClientInv(c) /\ (Active(c)' <=> Active(c))
    BY <1>1 DEF Normal, Active
  <2>2. /\ \A l : In(msgq', l, c) <=> In(msgq, l, c)
        /\ \A l : Once(msgq, l, c) => Once(msgq', l, c)
        /\ \A l, n : Before(msgq', l, n, c) => Before(msgq, l, n, c)
    BY <1>1, TookNews DEF Asking
  <2>3. (cs'[c] = "leaving" <=> cs[c] = "leaving") /\ (cs[c] # "idle" <=> cs'[c] # "idle")
    BY <1>2
  <2> QED BY <1>1, <1>7, <2>1, <2>2, <2>3 DEF ClientInv
<1> QED BY <1>5, <1>6, <1>8, <1>9 DEF Normal

LEMMA EngineUpStep ==
  ASSUME TypeInv, TypeInv', Normal, EngineUp
  PROVE  Normal'
<1>1. /\ Receive("EngineUp") /\ msgq' = Tail(msgq) /\ supl' = {}
      /\ UNCHANGED <<st, list, timers, call, found, cs>>
  BY DEF EngineUp, machine
<1>2. NewsInOrder' /\ \A l \in {"Opened", "Closed"} : In(msgq', l, NoHandle) <=> In(msgq, l, NoHandle)
  BY <1>1, TookAsking DEF Normal, CallInv
<1>3. CallInv' /\ ListInv'
  BY <1>1, <1>2 DEF Normal, CallInv, NoNews, ListInv
<1>4. ASSUME NEW c \in Handles
      PROVE  /\ \A l : In(msgq', l, c) <=> In(msgq, l, c)
             /\ \A l : Once(msgq, l, c) => Once(msgq', l, c)
             /\ \A l, n : Before(msgq', l, n, c) => Before(msgq, l, n, c)
  BY <1>1, TookNews DEF Asking
<1>5. RetryInv'
  <2>1. ASSUME st = "Released", Len(list) = 1 PROVE list[1].id \in Handles
    BY <2>1, OneSubscriber
  <2> QED BY <1>1, <1>4, <2>1 DEF Normal, RetryInv, Owed
<1>6. ASSUME NEW c \in Handles PROVE ClientInv(c)'
  <2>1. ClientInv(c) /\ (Active(c)' <=> Active(c))
    BY <1>1 DEF Normal, Active
  <2> QED BY <1>1, <1>4, <2>1 DEF ClientInv
<1> QED BY <1>3, <1>5, <1>6 DEF Normal

LEMMA SuplEsClosedStep ==
  ASSUME TypeInv, TypeInv', Normal, SuplEsClosed, ~Exempt'
  PROVE  Normal' \/ Stuck'
<1> DEFINE q == Tail(msgq)
<1>1. Receive("Closed") /\ UNCHANGED <<found, supl, cs>>
  BY DEF SuplEsClosed
<1>2. Id = NoHandle
  BY <1>1, HeadType DEF Asking
<1>3. /\ q \in Seq(Messages)
      /\ In(msgq, "Closed", NoHandle)
      /\ ~In(q, "Opened", NoHandle) /\ ~In(q, "Closed", NoHandle)
      /\ Once(q, "Opened", NoHandle) /\ Once(q, "Closed", NoHandle)
      /\ ~Before(q, "Closed", "Opened", NoHandle)
      /\ \A c \in Handles :
           /\ \A l : In(q, l, c) <=> In(msgq, l, c)
           /\ \A l : Once(msgq, l, c) => Once(q, l, c)
           /\ \A l, n : Before(q, l, n, c) => Before(msgq, l, n, c)
  BY <1>1, <1>2, Took, DSAssumption DEF Normal, CallInv, NewsInOrder
<1> HIDE DEF q
<1>4. call = "closed" /\ st # "Released"
  BY <1>3 DEF Normal, CallInv, NoNews, TypeInv
<1>5. timers = 0 /\ found = NoHandle
  BY <1>4, NoRetry
<1>6. ASSUME NEW c \in Handles
      PROVE  /\ cs[c] = "leaving" <=> In(q, "ReleaseATL", c)
             /\ Once(q, "ReleaseATL", c) /\ Once(q, "RequestSuplEs", c)
             /\ c \in supl => cs[c] # "idle"
             /\ ~Before(q, "ReleaseATL", "RequestSuplEs", c)
             /\ In(q, "RequestSuplEs", c) =>
                  cs[c] # "idle" /\ c \notin supl /\ ~In(q, "RequestATL", c) /\ ~Active(c)
             /\ Active(c) => cs[c] # "idle" /\ c \notin supl /\ ~In(q, "RequestATL", c)
  BY <1>3, <1>4 DEF Normal, ClientInv
<1>7. CASE ClosedPending
  <2> DEFINE r == [i \in DOMAIN list |-> Message("RequestATL", list[i].id)]
  <2>1. msgq' = q \o r /\ st' = "Released" /\ list' = <<>> /\ UNCHANGED <<timers, call>>
    BY <1>7 DEF ClosedPending, q
  <2>2. DOMAIN list = 1 .. Len(list) /\ Len(list) \in Nat /\ \A i \in DOMAIN list : list[i] \in Subscribers
    BY LenProperties, ElementOfSeq DEF TypeInv
  <2>3. \A i \in 1 .. Len(list) : Message("RequestATL", list[i].id) \in Messages
    BY <2>2, MessageType DEF Asking, Subscribers
  <2>4. r \in Seq(Messages) /\ DOMAIN r = DOMAIN list
    BY <2>2, <2>3, IsASeq
  <2>5. \A i \in DOMAIN list : IsActive(list[i])
    BY <1>7 DEF ClosedPending, Note, When, Exempt, Seen, IsActive
  <2>6. \A k, c : In(r, k, c) => k = "RequestATL" /\ Active(c)
    BY <2>4, <2>5, MessageType DEF In, Active
  <2> HIDE DEF r
  <2>7. ASSUME NEW k, NEW c, k # "RequestATL" \/ ~Active(c)
        PROVE  /\ In(msgq', k, c) <=> In(q, k, c)
               /\ Once(q, k, c) => Once(msgq', k, c)
               /\ \A l : Before(msgq', l, k, c) => Before(q, l, k, c)
    BY <1>3, <2>1, <2>4, <2>6, <2>7, PutAll
  <2>8. CallInv'
    <3>1. NewsInOrder' /\ NoNews'
      BY <1>3, <2>7 DEF NewsInOrder, NoNews
    <3> QED BY <1>4, <2>1, <3>1 DEF CallInv
  <2>9. ListInv' /\ RetryInv'
    BY <1>1, <1>5, <2>1, EmptySeq DEF ListInv, RetryInv
  <2>10. ASSUME NEW c \in Handles PROVE ClientInv(c)'
    <3>1. ~Active(c)'
      BY <2>1 DEF Active
    <3>2. /\ In(msgq', "ReleaseATL", c) <=> In(q, "ReleaseATL", c)
          /\ In(msgq', "RequestSuplEs", c) <=> In(q, "RequestSuplEs", c)
          /\ Once(msgq', "ReleaseATL", c) /\ Once(msgq', "RequestSuplEs", c)
          /\ ~Before(msgq', "ReleaseATL", "RequestSuplEs", c)
      BY <1>6, <2>7
    <3>3. ~Active(c) /\ In(msgq', "RequestATL", c) => In(q, "RequestATL", c)
      BY <2>7
    <3> QED BY <1>1, <1>6, <3>1, <3>2, <3>3 DEF ClientInv
  <2> QED BY <2>8, <2>9, <2>10 DEF Normal
<1>8. ASSUME msgq' = q, UNCHANGED timers,
             \/ st' = "Released" /\ list' = <<>> /\ call' = "closed"
             \/ st' = "Pending" /\ HasActive(list') /\ call' = "opening",
             \A c : Active(c)' => Active(c)
      PROVE  Normal'
  <2>1. CallInv'
    BY <1>3, <1>8 DEF CallInv, NewsInOrder, NoNews
  <2>2. ListInv' /\ RetryInv'
    BY <1>1, <1>5, <1>8, EmptySeq DEF ListInv, RetryInv
  <2>3. ASSUME NEW c \in Handles PROVE ClientInv(c)'
    BY <1>1, <1>6, <1>8 DEF ClientInv
  <2> QED BY <2>1, <2>2, <2>3 DEF Normal
<1>9. CASE ClosedAcquired
  <2>1. \A c : ~Active(c)'
    BY <1>9 DEF ClosedAcquired, Active
  <2> QED BY <1>4, <1>8, <1>9, <2>1 DEF ClosedAcquired, q
<1>10. CASE ClosedReleasing
  <2>0. PICK n \in 0 .. Len(list) : \E at \in [1 .. n -> DOMAIN list] :
           ListsActive(at, list) /\ list' = [i \in 1 .. n |-> list[at[i]]]
    BY <1>10 DEF ClosedReleasing
  <2>1. PICK at \in [1 .. n -> DOMAIN list] :
           ListsActive(at, list) /\ list' = [i \in 1 .. n |-> list[at[i]]]
    BY <2>0
  <2>2. \A c : Active(c)' => Active(c)
    BY <2>1 DEF Active
  <2>3. CASE list' = <<>>
    BY <1>4, <1>8, <1>10, <2>2, <2>3 DEF ClosedReleasing, q
  <2>4. CASE list' # <<>>
    <3>1. /\ st' = "Pending"
          /\ \E r \in Results : Start(list', q, r) /\ Note(When(r # "SUCCESS", "unstarted"))
      BY <1>10, <2>4 DEF ClosedReleasing, q
    <3>2. PICK r \in Results : Start(list', q, r)
      BY <3>1
    <3>3. HasActive(list')
      <4>1. \A i \in DOMAIN list' : IsActive(list'[i])
        BY <2>1 DEF ListsActive
      <4>2. 1 \in DOMAIN list'
        BY <2>4, LenProperties DEF TypeInv
      <4> QED BY <4>1, <4>2 DEF HasActive
    <3>4. CASE r = "SUCCESS"
      <4>1. msgq' = q /\ UNCHANGED timers /\ call' = "opening"
        BY <3>2, <3>4 DEF Start, GivesUp
      <4> QED BY <1>8, <2>2, <3>1, <3>3, <4>1
    <3>5. CASE r # "SUCCESS"
      <4>1. call' = "closed" /\ (msgq' = q \/ msgq' = Append(q, Message("RequestATL", FirstActive(list'))))
        BY <1>4, <3>2, <3>5 DEF Start
      <4>2. FirstActive(list') \in Handles
        BY <3>3, FirstActiveType DEF TypeInv
      <4>3. Message("RequestATL", FirstActive(list')) \in Messages
        BY <4>2, MessageType DEF Asking
      <4>4. NoNews'
        <5>1. CASE msgq' = q
          BY <1>3, <5>1 DEF NoNews
        <5>2. CASE msgq' = Append(q, Message("RequestATL", FirstActive(list')))
          BY <1>3, <4>3, <5>2, Posted DEF NoNews
        <5> QED BY <4>1, <5>1, <5>2
      <4> QED BY <1>1, <1>5, <3>1, <4>1, <4>4 DEF Stuck
    <3> QED BY <3>4, <3>5
  <2> QED BY <2>3, <2>4
<1>11. CASE ClosedReleased
  BY <1>4, <1>11 DEF ClosedReleased
<1> QED BY <1>7, <1>9, <1>10, <1>11 DEF SuplEsClosed


\* The timers' thread.
LEMMA RetryFindsStep ==
  ASSUME TypeInv, TypeInv', Normal, RetryFinds
  PROVE  Normal'
<1>1. /\ timers > 0 /\ timers' = timers - 1 /\ found' = FirstActive(list)
      /\ UNCHANGED <<st, list, msgq, call, supl, cs>>
  BY DEF RetryFinds
<1>2. timers = 1 /\ st = "Released" /\ Len(list) = 1 /\ Owed(list[1].id)
  BY <1>1 DEF Normal, RetryInv
<1>3. FirstActive(list) = list[1].id
  <2>1. AllActive(list) /\ list \in Seq(Subscribers) /\ 1 \in DOMAIN list
    BY <1>2, LenProperties DEF TypeInv
  <2>2. HasActive(list)
    BY <2>1 DEF AllActive, HasActive
  <2> QED BY <2>1, <2>2, FirstActiveIs
<1>4. RetryInv'
  BY <1>1, <1>2, <1>3 DEF RetryInv, Owed
<1>5. CallInv' /\ ListInv'
  BY <1>1 DEF Normal, CallInv, NewsInOrder, NoNews, ListInv
<1>6. \A c \in Handles : ClientInv(c)'
  BY <1>1 DEF Normal, ClientInv, Active
<1> QED BY <1>4, <1>5, <1>6 DEF Normal

LEMMA RetryPostsStep ==
  ASSUME TypeInv, TypeInv', Normal, RetryPosts
  PROVE  Normal'
<1>1. /\ found # NoHandle /\ found' = NoHandle
      /\ msgq' = Append(msgq, Message("RequestSuplEs", found))
      /\ UNCHANGED <<st, list, timers, call, supl, cs>>
  BY DEF RetryPosts, machine
<1>2. /\ timers = 0 /\ st = "Released" /\ Len(list) = 1 /\ found = list[1].id /\ Owed(found)
      /\ found \in Handles
  BY <1>1 DEF Normal, RetryInv, TypeInv
<1>3. Active(found)
  BY <1>2, ReleasedList DEF Normal
<1>4. Message("RequestSuplEs", found) \in Messages /\ msgq \in Seq(Messages)
  BY <1>2, MessageType DEF Asking, TypeInv
<1>5. /\ \A l, d : In(msgq', l, d) <=> In(msgq, l, d) \/ (l = "RequestSuplEs" /\ d = found)
      /\ \A l, d : Once(msgq, l, d) /\ (l = "RequestSuplEs" /\ d = found => ~In(msgq, l, d))
                     => Once(msgq', l, d)
      /\ \A l, n, d : Before(msgq', l, n, d) =>
                        Before(msgq, l, n, d) \/ (n = "RequestSuplEs" /\ d = found /\ In(msgq, l, d))
  BY <1>1, <1>4, Posted
<1>6. NewsInOrder' /\ \A l \in {"Opened", "Closed"} : In(msgq', l, NoHandle) <=> In(msgq, l, NoHandle)
  BY <1>1, <1>4, PostedAsking DEF Normal, CallInv, Kinds
<1>7. CallInv' /\ ListInv'
  BY <1>1, <1>6 DEF Normal, CallInv, NoNews, ListInv
<1>8. RetryInv'
  BY <1>1, <1>2 DEF RetryInv
<1>9. ASSUME NEW c \in Handles PROVE ClientInv(c)'
  <2>1. ClientInv(c) /\ (Active(c)' <=> Active(c))
    BY <1>1 DEF Normal, Active
  <2>2. CASE c = found
    BY <1>1, <1>2, <1>3, <1>5, <2>1, <2>2 DEF ClientInv, Owed
  <2>3. CASE c # found
    <3>1. /\ \A l : In(msgq', l, c) <=> In(msgq, l, c)
          /\ \A l : Once(msgq, l, c) => Once(msgq', l, c)
          /\ \A l, n : Before(msgq', l, n, c) => Before(msgq, l, n, c)
      BY <1>5, <2>3
    <3> QED BY <1>1, <2>1, <3>1 DEF ClientInv
  <2> QED BY <2>2, <2>3
<1> QED BY <1>7, <1>8, <1>9 DEF Normal

\* News of the call is about no client.
LEMMA DsiStep ==
  ASSUME TypeInv, TypeInv', Normal, Dsi
  PROVE  Normal'
<1>1. PICK k \in {"Opened", "Closed"} :
        /\ msgq' = Append(msgq, Message(k, NoHandle))
        /\ UNCHANGED <<st, list, timers, found, supl, cs>>
        /\ \/ k = "Opened" /\ call = "opening" /\ call' = "open"
           \/ k = "Closed" /\ call \in {"opening", "open", "stopping"} /\ call' = "closed"
  BY DEF Dsi, DsiOpens, DsiFails, DsiStops, DsiLoses, DsiMoves
<1>2. Message(k, NoHandle) \in Messages /\ msgq \in Seq(Messages)
  BY MessageType DEF Asking, Kinds, TypeInv
<1>3. /\ \A l, d : In(msgq', l, d) <=> In(msgq, l, d) \/ (l = k /\ d = NoHandle)
      /\ \A l, d : Once(msgq, l, d) /\ (l = k /\ d = NoHandle => ~In(msgq, l, d)) => Once(msgq', l, d)
      /\ \A l, n, d : Before(msgq', l, n, d) =>
                        Before(msgq, l, n, d) \/ (n = k /\ d = NoHandle /\ In(msgq, l, d))
  BY <1>1, <1>2, Posted
<1>4. CallInv'
  <2>1. NewsInOrder'
    BY <1>1, <1>3 DEF Normal, CallInv, NewsInOrder, NoNews
  <2>2. CASE k = "Opened"
    BY <1>1, <1>3, <2>1, <2>2 DEF Normal, CallInv, NoNews
  <2>3. CASE k = "Closed"
    BY <1>1, <1>3, <2>1, <2>3 DEF Normal, CallInv, NoNews
  <2> QED BY <2>2, <2>3
<1>5. ListInv'
  BY <1>1 DEF Normal, ListInv
<1>6. ASSUME NEW c \in Handles
      PROVE  /\ \A l : In(msgq', l, c) <=> In(msgq, l, c)
             /\ \A l : Once(msgq, l, c) => Once(msgq', l, c)
             /\ \A l, n : Before(msgq', l, n, c) => Before(msgq, l, n, c)
  BY <1>3, DSAssumption
<1>7. RetryInv'
  BY <1>1, <1>6, OneSubscriber DEF Normal, RetryInv, Owed
<1>8. ASSUME NEW c \in Handles PROVE ClientInv(c)'
  <2>1. ClientInv(c) /\ (Active(c)' <=> Active(c))
    BY <1>1 DEF Normal, Active
  <2> QED BY <1>1, <1>6, <2>1 DEF ClientInv
<1> QED BY <1>4, <1>5, <1>7, <1>8 DEF Normal

LEMMA SuplAnswersStep ==
  ASSUME TypeInv, TypeInv', Normal, SuplAnswers
  PROVE  Normal'
<1>1. UNCHANGED <<st, list, timers, call, found, msgq>>
  BY DEF SuplAnswers, machine
<1>2. PICK d \in supl :
        /\ cs[d] = "asked"
        /\ \/ cs' = [cs EXCEPT ![d] = "up"] /\ UNCHANGED supl
           \/ cs' = [cs EXCEPT ![d] = "idle"] /\ supl' = supl \ {d}
  BY DEF SuplAnswers
<1>3. \A c \in Handles : c # d => cs'[c] = cs[c] /\ (c \in supl' <=> c \in supl)
  BY <1>2 DEF TypeInv
<1>4. d \in Handles /\ cs'[d] \in {"up", "idle"} /\ (cs'[d] = "idle" => d \notin supl')
  BY <1>2 DEF TypeInv
<1>5. CallInv' /\ ListInv'
  BY <1>1 DEF Normal, CallInv, NewsInOrder, NoNews, ListInv
<1>6. RetryInv'
  BY <1>1, <1>2, <1>3, OneSubscriber DEF Normal, RetryInv, Owed
<1>7. ASSUME NEW c \in Handles PROVE ClientInv(c)'
  <2>1. ClientInv(c) /\ (Active(c)' <=> Active(c))
    BY <1>1 DEF Normal, Active
  <2>2. CASE c = d
    BY <1>1, <1>2, <1>4, <2>1, <2>2 DEF ClientInv
  <2>3. CASE c # d
    BY <1>1, <1>3, <2>1, <2>3 DEF ClientInv
  <2> QED BY <2>2, <2>3
<1> QED BY <1>5, <1>6, <1>7 DEF Normal

LEMMA ModemStep ==
  ASSUME TypeInv, TypeInv', Normal, NEW d \in Handles, ModemAsks(d) \/ ModemLeaves(d)
  PROVE  Normal'
<1>1. UNCHANGED <<st, list, timers, call, found, supl>>
  BY DEF ModemAsks, ModemLeaves, machine
<1>2. PICK k \in {"RequestSuplEs", "ReleaseATL"} :
        /\ msgq' = Append(msgq, Message(k, d))
        /\ \/ /\ k = "RequestSuplEs" /\ cs[d] = "idle" /\ cs' = [cs EXCEPT ![d] = "asked"]
              /\ \A i \in DOMAIN msgq : msgq[i].id # d
           \/ k = "ReleaseATL" /\ cs[d] \in {"asked", "up"} /\ cs' = [cs EXCEPT ![d] = "leaving"]
  BY DEF ModemAsks, ModemLeaves
<1>3. k = "RequestSuplEs" => \A l : ~In(msgq, l, d)
  BY <1>2 DEF In, Is
<1>4. /\ \A c \in Handles : c # d => cs'[c] = cs[c]
      /\ cs'[d] = IF k = "RequestSuplEs" THEN "asked" ELSE "leaving"
  BY <1>2 DEF TypeInv
<1>5. Message(k, d) \in Messages /\ msgq \in Seq(Messages)
  BY MessageType DEF Asking, TypeInv
<1>6. /\ \A l, c : In(msgq', l, c) <=> In(msgq, l, c) \/ (l = k /\ c = d)
      /\ \A l, c : Once(msgq, l, c) /\ (l = k /\ c = d => ~In(msgq, l, c)) => Once(msgq', l, c)
      /\ \A l, n, c : Before(msgq', l, n, c) =>
                        Before(msgq, l, n, c) \/ (n = k /\ c = d /\ In(msgq, l, c))
  BY <1>2, <1>5, Posted
<1>7. NewsInOrder' /\ \A l \in {"Opened", "Closed"} : In(msgq', l, NoHandle) <=> In(msgq, l, NoHandle)
  BY <1>2, <1>5, PostedAsking DEF Normal, CallInv, Kinds
<1>8. CallInv' /\ ListInv'
  BY <1>1, <1>7 DEF Normal, CallInv, NoNews, ListInv
<1>9. RetryInv'
  <2> SUFFICES ASSUME timers = 1 \/ found # NoHandle PROVE Owed(list[1].id)'
    BY <1>1 DEF Normal, RetryInv
  <2>1. Len(list) = 1 /\ Owed(list[1].id) /\ list[1].id \in Handles
    BY OneSubscriber DEF Normal, RetryInv
  <2>2. k = "RequestSuplEs" => list[1].id # d
    BY <1>2, <2>1 DEF Owed
  <2> QED BY <1>1, <1>4, <1>6, <2>1, <2>2 DEF Owed
<1>10. ASSUME NEW c \in Handles PROVE ClientInv(c)'
  <2>1. ClientInv(c) /\ (Active(c)' <=> Active(c))
    BY <1>1 DEF Normal, Active
  <2>2. CASE c # d
    BY <1>1, <1>4, <1>6, <2>1, <2>2 DEF ClientInv
  <2>3. CASE c = d /\ k = "RequestSuplEs"
    BY <1>1, <1>2, <1>3, <1>4, <1>6, <2>1, <2>3 DEF ClientInv
  <2>4. CASE c = d /\ k = "ReleaseATL"
    BY <1>1, <1>2, <1>4, <1>6, <2>1, <2>4 DEF ClientInv
  <2> QED BY <1>2, <2>2, <2>3, <2>4
<1> QED BY <1>8, <1>9, <1>10 DEF Normal

-----------------------------------------------------------------------------
LEMMA NormalStep ==
  ASSUME TypeInv, TypeInv', Normal, [Next]_vars, ~Exempt'
  PROVE  Normal' \/ Stuck'
<1>1. CASE RequestSuplEs
  BY <1>1, SubscribeReleasedStep, SubscribeOtherStep DEF RequestSuplEs
<1>2. CASE ModemRestarts
  BY <1>2 DEF ModemRestarts, Note, Exempt, Seen
<1>3. CASE UNCHANGED vars
  BY <1>3 DEF vars, Normal, CallInv, NewsInOrder, NoNews, ListInv, RetryInv, Owed, ClientInv, Active
<1> QED BY <1>1, <1>2, <1>3, RequestATLStep, ReleaseATLStep, SuplEsOpenedStep, EngineUpStep,
           SuplEsClosedStep, RetryFindsStep, RetryPostsStep, DsiStep, SuplAnswersStep, ModemStep
        DEF Next, MsgTask, Timers, Modem

LEMMA InitNormal == Init => Normal
<1> SUFFICES ASSUME Init PROVE Normal
  OBVIOUS
<1>1. \A k, l, c : ~In(msgq, k, c) /\ Once(msgq, k, c) /\ ~Before(msgq, k, l, c)
  BY EmptyQueue DEF Init
<1>2. CallInv /\ ListInv /\ RetryInv
  BY <1>1 DEF Init, CallInv, NewsInOrder, NoNews, ListInv, RetryInv
<1>3. \A c \in Handles : ClientInv(c)
  BY <1>1 DEF Init, ClientInv, Active
<1> QED BY <1>2, <1>3 DEF Normal

LEMMA InvStep == IInv /\ [Next]_vars => IInv'
<1> SUFFICES ASSUME IInv, [Next]_vars PROVE IInv'
  OBVIOUS
<1>1. TypeInv'
  BY TypeStep DEF IInv
<1>2. CASE Exempt
  BY <1>1, <1>2, ExemptStep DEF IInv
<1>3. CASE Stuck
  BY <1>1, <1>3, StuckStep DEF IInv
<1>4. CASE Normal
  BY <1>1, <1>4, NormalStep DEF IInv
<1> QED BY <1>2, <1>3, <1>4 DEF IInv

LEMMA Invariant == Spec => []IInv
<1>1. Init => IInv
  BY InitType, InitNormal DEF IInv
<1> QED BY <1>1, InvStep, PTL DEF Spec

LEMMA InvStopsCall == IInv => CallIsStopped
<1> SUFFICES ASSUME IInv, ~Exempt, Quiet, \A c \in Handles : cs[c] = "idle"
             PROVE  call \in {"closed", "stopping"}
  BY DEF CallIsStopped, Exempt
<1>1. CASE Stuck
  BY <1>1 DEF Stuck
<1>2. CASE Normal
  <2>1. \A k, c : ~In(msgq, k, c)
    BY EmptyQueue DEF Quiet
  <2>2. ASSUME HasActive(list), st # "Released" PROVE FALSE
    <3>1. PICK i \in DOMAIN list : IsActive(list[i])
      BY <2>2 DEF HasActive
    <3>2. list[i] \in Subscribers
      BY ElementOfSeq, LenProperties DEF IInv, TypeInv
    <3>3. list[i].id \in Handles /\ Active(list[i].id)
      BY <3>1, <3>2 DEF Subscribers, Active
    <3> QED BY <1>2, <2>2, <3>3 DEF Normal, ClientInv
  <2>3. call \in {"opening", "open"} => st \in {"Pending", "Acquired"}
    BY <1>2, <2>1 DEF Normal, CallInv
  <2> QED BY <1>2, <2>2, <2>3 DEF Normal, ListInv, IInv, TypeInv
<1> QED BY <1>1, <1>2 DEF IInv

LEMMA InvReadsLive == IInv => RetryReadsLive
<1> SUFFICES ASSUME IInv, ~Exempt, found # NoHandle PROVE HasSubscriber(list, found)
  BY DEF RetryReadsLive, Exempt
<1>1. CASE Stuck
  BY <1>1 DEF Stuck
<1>2. CASE Normal
  <2>1. Len(list) = 1 /\ found = list[1].id /\ list \in Seq(Subscribers)
    BY <1>2 DEF Normal, RetryInv, IInv, TypeInv
  <2> QED BY <2>1, LenProperties DEF HasSubscriber
<1> QED BY <1>1, <1>2 DEF IInv

\* When every client has left and nothing is in flight, no retry, late grant or
\* repeated close has left a data call open for nobody.
THEOREM CallIsStoppedCorrect == Spec => []CallIsStopped
BY Invariant, InvStopsCall, PTL

\* The subscriber the timers' thread has found (retryCallback) is still on the
\* list when it is read, whatever the MsgTask has done in between.
THEOREM RetryReadsLiveCorrect == Spec => []RetryReadsLive
BY Invariant, InvReadsLive, PTL


=============================================================================
