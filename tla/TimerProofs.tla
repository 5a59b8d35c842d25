----------------------------- MODULE TimerProofs -----------------------------
(***************************************************************************)
(* Proofs about the timer service, for any number of clients, delegates    *)
(* and delays and any clock: a running timer is kept (TimerIsKept), and a  *)
(* timer stopped in time never calls back (StoppedIsSilent).               *)
(***************************************************************************)
EXTENDS LocTimer, TLAPS

Messages == {Push(d) : d \in Delegates} \cup {Remove(d) : d \in Delegates} \cup {Expire}
Lives == {"unborn", "live", "deleted"}
OptClient == Clients \cup {None}
OptDelegate == Delegates \cup {None}

TypeInv ==
    /\ now \in Nat
    /\ mTimer \in [Clients -> OptDelegate]
    /\ alive \subseteq Clients
    /\ dels \in [Delegates -> [client : OptClient, due : Nat, life : Lives]]
    /\ heap \subseteq Delegates
    /\ armed \in Nat \cup {None}
    /\ polled \in BOOLEAN
    /\ poller \in {"wait", "disarm", "remove", "send"}
    /\ queue \in Seq(Messages)
    /\ task \in [pc : {"idle", "read", "stop", "call", "next", "poll", "arm", "lost"},
                 cur : OptDelegate, client : OptClient, hit : OptDelegate, at : Nat]
    /\ task.pc \in {"read", "stop"} => task.cur \in Delegates
    /\ task.pc \in {"stop", "call"} => task.client \in Clients
    /\ task.pc = "call" => task.hit \in Delegates

(***************************************************************************)
(* The queue: a delegate is pushed once and removed once, in that order.   *)
(***************************************************************************)
In(m, q) == \E i \in 1 .. Len(q) : q[i] = m

InTurn(q) ==
    /\ \A i, j \in 1 .. Len(q) : q[i] = q[j] /\ q[i] # Expire => i = j
    /\ \A d \in Delegates, i, j \in 1 .. Len(q) : q[i] = Push(d) /\ q[j] = Remove(d) => i < j

(***************************************************************************)
(* The life of a delegate: it is alive wherever it is found, and it points *)
(* to its client exactly as long as the client points to it; only then its *)
(* remove message is still to be sent.                                     *)
(***************************************************************************)
LifeInv ==
    /\ InTurn(queue)
    /\ \A d \in Delegates :
          In(Push(d), queue) \/ d \in heap \/ dels[d].client # None => dels[d].life = "live"
    /\ \A d \in Delegates :
          In(Remove(d), queue) => dels[d].life = "live" /\ dels[d].client = None
    /\ \A d \in Delegates : dels[d].client # None => mTimer[dels[d].client] = d
    /\ \A c \in Clients : mTimer[c] # None => dels[mTimer[c]].client = c
    /\ task.pc \in {"read", "stop"} => dels[task.cur].life = "live"

(***************************************************************************)
(* The expire loop: after its copy the client may have stopped the timer,  *)
(* but the delegate has got no other client.                               *)
(***************************************************************************)
TrackInv ==
    /\ RunningIsTracked
    /\ task.pc = "stop" => dels[task.cur].client \in {task.client, None}

(***************************************************************************)
(* The wake-up: the poll thread may take the timerfd out of the epoll set  *)
(* between the two system calls of the task, but then it is about to send  *)
(* an expire message, or has.                                              *)
(***************************************************************************)
WakeInv ==
    /\ top \in Tops(heap)
    /\ WakeUpPending
    /\ task.pc = "arm" /\ heap # {} => polled \/ poller # "wait" \/ In(Expire, queue)

(***************************************************************************)
(* The end of a delegate, once and for all.                                *)
(***************************************************************************)
EndInv ==
    /\ withdrawn \cup called \subseteq Delegates
    /\ \A d \in withdrawn \cup called :
          dels[d].client = None /\ dels[d].life # "unborn"
    /\ task.pc = "call" =>
          /\ task.hit \notin withdrawn
          /\ dels[task.hit].client = None /\ dels[task.hit].life # "unborn"
    /\ StoppedIsSilent

TimerInv == TypeInv /\ LifeInv /\ TrackInv /\ WakeInv /\ EndInv

-----------------------------------------------------------------------------
(***************************************************************************)
(* The queue.                                                              *)
(***************************************************************************)
\* The messages are told apart by their kind and their delegate.
LEMMA MessageKinds ==
  /\ Expire \in Messages
  /\ \A d \in Delegates : Push(d) \in Messages /\ Remove(d) \in Messages
  /\ \A d, e \in Delegates : Push(d) # Remove(e) /\ Push(d) # Expire /\ Remove(d) # Expire
  /\ \A d, e \in Delegates : (Push(d) = Push(e) => d = e) /\ (Remove(d) = Remove(e) => d = e)
  BY DEF Messages, Push, Remove, Expire

\* A message is sent once, and a push not after its remove.
LEMMA Sent ==
  ASSUME NEW q \in Seq(Messages), NEW m \in Messages
  PROVE  /\ Append(q, m) \in Seq(Messages)
         /\ \A x : In(x, Append(q, m)) <=> In(x, q) \/ x = m
         /\ /\ InTurn(q)
            /\ m # Expire => ~In(m, q)
            /\ \A d \in Delegates : m = Push(d) => ~In(Remove(d), q)
            => InTurn(Append(q, m))
<1> DEFINE r == Append(q, m)
<1>1. r \in Seq(Messages) /\ Len(r) = Len(q) + 1 /\ Len(q) \in Nat
  OBVIOUS
<1>2. r[Len(r)] = m /\ \A i \in 1 .. Len(q) : r[i] = q[i]
  OBVIOUS
<1>3. 1 .. Len(r) = 1 .. Len(q) \cup {Len(r)} /\ Len(r) \notin 1 .. Len(q)
  BY <1>1
<1> HIDE DEF r
<1>4. ASSUME NEW x PROVE In(x, r) <=> In(x, q) \/ x = m
  BY <1>2, <1>3 DEF In
<1>5. ASSUME InTurn(q), m # Expire => ~In(m, q), \A d \in Delegates : m = Push(d) => ~In(Remove(d), q)
      PROVE  InTurn(r)
  <2>1. ASSUME NEW i \in 1 .. Len(r), NEW j \in 1 .. Len(r), r[i] = r[j], r[i] # Expire PROVE i = j
    BY <2>1, <1>2, <1>3, <1>5 DEF InTurn, In
  <2>2. ASSUME NEW d \in Delegates, NEW i \in 1 .. Len(r), NEW j \in 1 .. Len(r), r[i] = Push(d), r[j] = Remove(d)
        PROVE  i < j
    <3>1. i \in 1 .. Len(q)
      BY <2>2, <1>2, <1>3, <1>5, MessageKinds DEF In
    <3>2. CASE j \in 1 .. Len(q)
      BY <3>1, <3>2, <2>2, <1>2, <1>5 DEF InTurn
    <3>3. CASE j = Len(r)
      BY <3>1, <3>3, <1>1
    <3> QED
      BY <3>2, <3>3, <1>3
  <2> QED
    BY <2>1, <2>2 DEF InTurn
<1> QED
  BY <1>1, <1>4, <1>5 DEF r

\* The oldest message is taken: it was the only one of its kind, and a remove
\* comes when its push has been handled.
LEMMA Taken ==
  ASSUME NEW q \in Seq(Messages), q # <<>>, InTurn(q)
  PROVE  /\ Head(q) \in Messages /\ In(Head(q), q)
         /\ Tail(q) \in Seq(Messages) /\ InTurn(Tail(q))
         /\ \A x : In(x, Tail(q)) => In(x, q)
         /\ \A x : In(x, q) /\ x # Head(q) => In(x, Tail(q))
         /\ Head(q) # Expire => ~In(Head(q), Tail(q))
         /\ \A d \in Delegates : Head(q) = Remove(d) => ~In(Push(d), Tail(q))
<1> DEFINE r == Tail(q)
<1>1. /\ r \in Seq(Messages) /\ Len(r) = Len(q) - 1 /\ Len(q) \in Nat \ {0} /\ Head(q) = q[1]
      /\ Head(q) \in Messages
  OBVIOUS
<1>2. \A i \in 1 .. Len(r) : r[i] = q[i + 1] /\ i + 1 \in 1 .. Len(q)
  BY <1>1
<1>3. \A i \in 1 .. Len(q) : i = 1 \/ (i - 1 \in 1 .. Len(r) /\ r[i - 1] = q[i])
  BY <1>1
<1>4. 1 \in 1 .. Len(q)
  BY <1>1
<1> HIDE DEF r
<1>5. In(Head(q), q)
  BY <1>1, <1>4 DEF In
<1>6. ASSUME NEW x, In(x, r) PROVE In(x, q)
  BY <1>6, <1>2 DEF In
<1>7. ASSUME NEW x, In(x, q), x # Head(q) PROVE In(x, r)
  BY <1>7, <1>1, <1>3 DEF In
<1>8. InTurn(r)
  <2>1. ASSUME NEW i \in 1 .. Len(r), NEW j \in 1 .. Len(r), r[i] = r[j], r[i] # Expire PROVE i = j
    <3>1. i + 1 = j + 1
      BY <2>1, <1>2 DEF InTurn
    <3> QED
      BY <3>1, <1>1
  <2>2. ASSUME NEW d \in Delegates, NEW i \in 1 .. Len(r), NEW j \in 1 .. Len(r), r[i] = Push(d), r[j] = Remove(d)
        PROVE  i < j
    <3>1. i + 1 < j + 1
      BY <2>2, <1>2 DEF InTurn
    <3> QED
      BY <3>1, <1>1
  <2> QED
    BY <2>1, <2>2 DEF InTurn
<1>9. ASSUME Head(q) # Expire PROVE ~In(Head(q), r)
  <2>1. ASSUME NEW i \in 1 .. Len(r), r[i] = Head(q) PROVE FALSE
    <3>1. 1 = i + 1
      BY <2>1, <1>1, <1>2, <1>4, <1>9 DEF InTurn
    <3> QED
      BY <3>1, <1>1
  <2> QED
    BY <2>1 DEF In
<1>10. ASSUME NEW d \in Delegates, Head(q) = Remove(d) PROVE ~In(Push(d), r)
  <2>1. ASSUME NEW i \in 1 .. Len(r), r[i] = Push(d) PROVE FALSE
    <3>1. i + 1 < 1
      BY <2>1, <1>1, <1>2, <1>4, <1>10 DEF InTurn
    <3> QED
      BY <3>1, <1>1
  <2> QED
    BY <2>1 DEF In
<1> QED
  BY <1>1, <1>5, <1>6, <1>7, <1>8, <1>9, <1>10 DEF r

-----------------------------------------------------------------------------
(***************************************************************************)
(* Types.                                                                  *)
(***************************************************************************)
Tasks == [pc : {"idle", "read", "stop", "call", "next", "poll", "arm", "lost"},
          cur : OptDelegate, client : OptClient, hit : OptDelegate, at : Nat]

LEMMA IdleType == Idle \in Tasks /\ Idle.pc = "idle"
  BY DEF Idle, Tasks, OptDelegate, OptClient

LEMMA SoonestType ==
  ASSUME NEW p, NEW c
  PROVE  /\ UpdateSoonestTime(p, c) \in Tasks
         /\ UpdateSoonestTime(p, c).pc \in {"idle", "poll"}
  BY DEF UpdateSoonestTime, Idle, Tasks, OptDelegate, OptClient

\* The expire loop has popped a timer.
LEMMA PoppedFirst ==
  ASSUME NEW d \in Delegates, NEW n \in Nat
  PROVE  LET r == [Idle EXCEPT !.pc = "read", !.cur = d, !.at = n]
         IN r \in Tasks /\ r.pc = "read" /\ r.cur = d
  BY DEF Tasks, Idle, OptDelegate, OptClient

LEMMA PoppedNext ==
  ASSUME NEW d \in Delegates, NEW t \in Tasks
  PROVE  LET r == [t EXCEPT !.pc = "read", !.cur = d, !.client = None, !.hit = None]
         IN r \in Tasks /\ r.pc = "read" /\ r.cur = d
  BY DEF Tasks, OptDelegate, OptClient

LEMMA DestroyType ==
  ASSUME TypeInv, NEW c \in Clients, mTimer[c] # None, DestroyLocked(c)
  PROVE  /\ mTimer' \in [Clients -> OptDelegate]
         /\ dels' \in [Delegates -> [client : OptClient, due : Nat, life : Lives]]
         /\ queue' \in Seq(Messages)
<1>1. mTimer[c] \in Delegates
  BY DEF TypeInv, OptDelegate
<1>2. queue' \in Seq(Messages)
  BY <1>1, MessageKinds, Sent DEF DestroyLocked, TypeInv
<1> QED
  BY <1>1, <1>2 DEF DestroyLocked, TypeInv, OptDelegate, OptClient

LEMMA InitType == Init => TypeInv
<1> SUFFICES ASSUME Init PROVE TypeInv
  OBVIOUS
<1>1. task \in Tasks /\ task.pc = "idle"
  BY IdleType DEF Init
<1>2. queue \in Seq(Messages)
  BY DEF Init
<1> QED
  BY <1>1, <1>2, LocTimerAssumption DEF Init, TypeInv, Tasks, OptClient, OptDelegate, Lives

LEMMA ClientsType ==
  ASSUME TypeInv, NEW c \in Clients,
         Stop(c) \/ Delete(c) \/ \E delay \in Delays : Start(c, delay)
  PROVE  TypeInv'
<1>1. CASE Stop(c)
  BY <1>1, DestroyType DEF Stop, TypeInv, heapVars, fdVars
<1>2. CASE Delete(c)
  BY <1>2, DestroyType DEF Delete, TypeInv, heapVars, fdVars
<1>3. CASE \E delay \in Delays : Start(c, delay)
  <2>1. PICK delay \in Delays : Start(c, delay)
    BY <1>3
  <2>2. PICK d \in Delegates :
          /\ mTimer' = [mTimer EXCEPT ![c] = d]
          /\ dels' = [dels EXCEPT ![d] = [client |-> c, due |-> now + delay, life |-> "live"]]
          /\ queue' = Append(queue, Push(d))
    BY <2>1 DEF Start
  <2>3. queue' \in Seq(Messages)
    BY <2>2, MessageKinds, Sent DEF TypeInv
  <2>4. now + delay \in Nat
    BY LocTimerAssumption DEF TypeInv
  <2>5. dels' \in [Delegates -> [client : OptClient, due : Nat, life : Lives]]
    BY <2>2, <2>4 DEF TypeInv, OptClient, Lives
  <2>6. mTimer' \in [Clients -> OptDelegate]
    BY <2>2 DEF TypeInv, OptDelegate
  <2> QED
    BY <2>1, <2>3, <2>5, <2>6 DEF Start, TypeInv, heapVars, fdVars
<1> QED
  BY <1>1, <1>2, <1>3

LEMMA ReceivedType ==
  ASSUME TypeInv, NEW m, Receives(m)
  PROVE  queue' \in Seq(Messages) /\ m \in Messages
  BY DEF Receives, TypeInv

LEMMA TaskType ==
  ASSUME TypeInv, top \in OptDelegate, heap # {} => top \in heap, Task
  PROVE  TypeInv'
<1>1. task \in Tasks
  BY DEF TypeInv, Tasks
<1>2. CASE TimerPush
  <2>1. PICK d \in Delegates : Receives(Push(d)) /\ heap' = heap \cup {d} /\ task' = UpdateSoonestTime(top, PushTop(d))
    BY <1>2 DEF TimerPush
  <2> QED
    BY <1>2, <2>1, ReceivedType, SoonestType DEF TimerPush, TypeInv, Tasks, userVars, fdVars
<1>3. CASE TimerRemove
  <2>1. PICK d \in Delegates :
          /\ Receives(Remove(d)) /\ heap' = heap \ {d}
          /\ dels' = [dels EXCEPT ![d].life = "deleted"]
          /\ \/ task' = Idle
             \/ task' = UpdateSoonestTime(None, top')
    BY <1>3 DEF TimerRemove
  <2>2. task' \in Tasks /\ task'.pc \in {"idle", "poll"}
    BY <2>1, IdleType, SoonestType
  <2>3. dels' \in [Delegates -> [client : OptClient, due : Nat, life : Lives]]
    BY <2>1 DEF TypeInv, Lives
  <2> QED
    BY <1>3, <2>1, <2>2, <2>3, ReceivedType DEF TimerRemove, TypeInv, Tasks, userVars, fdVars
<1>4. CASE TimerExpire
  <2>1. \/ heap' = heap /\ task' = UpdateSoonestTime(None, top)
        \/ heap # {} /\ heap' \subseteq heap /\ task' = [Idle EXCEPT !.pc = "read", !.cur = top, !.at = now]
    BY <1>4 DEF TimerExpire, Pop, heapVars
  <2>2. /\ heap' \subseteq heap /\ task' \in Tasks /\ task'.pc \in {"idle", "poll", "read"}
        /\ task'.pc = "read" => task'.cur \in Delegates
    <3>1. CASE task' = UpdateSoonestTime(None, top)
      BY <2>1, <3>1, SoonestType
    <3>2. CASE task' # UpdateSoonestTime(None, top)
      <4>1. top \in Delegates /\ now \in Nat
        BY <2>1, <3>2 DEF TypeInv
      <4>2. task' = [Idle EXCEPT !.pc = "read", !.cur = top, !.at = now]
        BY <2>1, <3>2
      <4>3. task' \in Tasks /\ task'.pc = "read" /\ task'.cur = top
        BY <4>1, <4>2, PoppedFirst
      <4> QED
        BY <2>1, <4>1, <4>3
    <3> QED
      BY <3>1, <3>2
  <2> QED
    BY <1>4, <2>2, ReceivedType DEF TimerExpire, TypeInv, Tasks, userVars, fdVars
<1>5. CASE ReadClient
  <2>1. task.cur \in Delegates /\ dels[task.cur].client \in OptClient
    BY <1>5 DEF ReadClient, TypeInv
  <2> QED
    BY <1>1, <1>5, <2>1 DEF ReadClient, TypeInv, OptClient, userVars, heapVars, fdVars
<1>6. CASE StopClient
  <2>1. task.client \in Clients
    BY <1>6 DEF StopClient, TypeInv
  <2>2. CASE mTimer[task.client] # None /\ task.client \in alive
    <3>1. mTimer[task.client] \in Delegates
      BY <2>1, <2>2 DEF TypeInv, OptDelegate
    <3> QED
      BY <1>1, <1>6, <2>1, <2>2, <3>1, DestroyType DEF StopClient, TypeInv, OptDelegate, heapVars, fdVars
  <2>3. CASE ~(mTimer[task.client] # None /\ task.client \in alive)
    BY <1>1, <1>6, <2>3 DEF StopClient, TypeInv, heapVars, fdVars
  <2> QED
    BY <2>2, <2>3
<1>7. CASE TimeOutCallback
  BY <1>1, <1>7 DEF TimeOutCallback, TypeInv, userVars, heapVars, fdVars
<1>8. CASE NextExpired
  <2>1. \/ heap' = heap /\ task' = UpdateSoonestTime(None, top)
        \/ /\ heap # {} /\ heap' \subseteq heap
           /\ task' = [task EXCEPT !.pc = "read", !.cur = top, !.client = None, !.hit = None]
    BY <1>8 DEF NextExpired, Pop, heapVars
  <2>2. /\ heap' \subseteq heap /\ task' \in Tasks /\ task'.pc \in {"idle", "poll", "read"}
        /\ task'.pc = "read" => task'.cur \in Delegates
    <3>1. CASE task' = UpdateSoonestTime(None, top)
      BY <2>1, <3>1, SoonestType
    <3>2. CASE task' # UpdateSoonestTime(None, top)
      <4>1. top \in Delegates /\ now \in Nat
        BY <2>1, <3>2 DEF TypeInv
      <4>2. task' = [task EXCEPT !.pc = "read", !.cur = top, !.client = None, !.hit = None]
        BY <2>1, <3>2
      <4>3. task' \in Tasks /\ task'.pc = "read" /\ task'.cur = top
        BY <1>1, <4>1, <4>2, PoppedNext
      <4> QED
        BY <2>1, <4>1, <4>3
    <3> QED
      BY <3>1, <3>2
  <2> QED
    BY <1>8, <2>2 DEF NextExpired, TypeInv, Tasks, userVars, fdVars
<1>9. CASE SetPoll
  BY <1>1, <1>9 DEF SetPoll, TypeInv, userVars, heapVars
<1>10. CASE SetTime
  <2>1. armed' \in Nat \cup {None}
    BY <1>10 DEF SetTime, TypeInv, OptDelegate
  <2> QED
    BY <1>10, <2>1, IdleType DEF SetTime, TypeInv, Tasks, userVars, heapVars
<1> QED
  BY <1>2, <1>3, <1>4, <1>5, <1>6, <1>7, <1>8, <1>9, <1>10 DEF Task

LEMMA NextType ==
  ASSUME TypeInv, top \in Tops(heap), [Next]_vars
  PROVE  TypeInv'
<1>1. CASE Task
  BY <1>1, TaskType DEF Tops, TypeInv, OptDelegate
<1>2. CASE PollSend
  BY <1>2, MessageKinds, Sent DEF PollSend, TypeInv, userVars, heapVars, fdVars
<1>3. CASE PollWake \/ PollDisarm \/ PollRemove
  BY <1>3 DEF PollWake, PollDisarm, PollRemove, TypeInv, userVars, heapVars, fdVars
<1>4. CASE Tick
  BY <1>4 DEF Tick, TypeInv, userVars, heapVars, fdVars
<1>5. CASE UNCHANGED vars
  BY <1>5 DEF vars, TypeInv
<1> QED
  BY <1>1, <1>2, <1>3, <1>4, <1>5, ClientsType DEF Next, Poller

-----------------------------------------------------------------------------
(***************************************************************************)
(* The life of a delegate.                                                 *)
(***************************************************************************)
\* The delegates whose life the clients and the task change.
LEMMA DestroyedLife ==
  ASSUME TypeInv, LifeInv, NEW c \in Clients, mTimer[c] # None, DestroyLocked(c),
         heap' = heap, task'.pc \in {"read", "stop"} => UNCHANGED task
  PROVE  LifeInv'
<1> DEFINE d == mTimer[c]
<1>1. d \in Delegates /\ dels[d].client = c /\ c # None
  BY LocTimerAssumption DEF TypeInv, LifeInv, OptDelegate
<1>2. dels[d].life = "live" /\ ~In(Remove(d), queue)
  BY <1>1 DEF LifeInv
<1> HIDE DEF d
<1>3. /\ mTimer' = [mTimer EXCEPT ![c] = None]
      /\ \A e \in Delegates : /\ dels'[e].life = dels[e].life
                              /\ dels'[e].client = IF e = d THEN None ELSE dels[e].client
      /\ queue' = Append(queue, Remove(d))
  BY <1>1 DEF DestroyLocked, d, TypeInv
<1>4. queue \in Seq(Messages) /\ Remove(d) \in Messages
  BY <1>1, MessageKinds DEF TypeInv
<1>5. \A e \in Delegates : (In(Push(e), queue') <=> In(Push(e), queue))
  BY <1>1, <1>3, <1>4, Sent, MessageKinds
<1>6. \A e \in Delegates : In(Remove(e), queue') <=> In(Remove(e), queue) \/ e = d
  BY <1>1, <1>3, <1>4, Sent, MessageKinds
<1>7. InTurn(queue')
  BY <1>1, <1>2, <1>3, <1>4, Sent, MessageKinds DEF LifeInv
<1>8. \A e \in Delegates :
         In(Push(e), queue') \/ e \in heap' \/ dels'[e].client # None => dels'[e].life = "live"
  BY <1>1, <1>2, <1>3, <1>5 DEF LifeInv
<1>9. \A e \in Delegates :
         In(Remove(e), queue') => dels'[e].life = "live" /\ dels'[e].client = None
  BY <1>1, <1>2, <1>3, <1>6 DEF LifeInv
<1>10. \A e \in Delegates : dels'[e].client # None => mTimer'[dels'[e].client] = e
  <2> SUFFICES ASSUME NEW e \in Delegates, dels'[e].client # None PROVE mTimer'[dels'[e].client] = e
    OBVIOUS
  <2>1. e # d /\ dels'[e].client = dels[e].client /\ mTimer[dels[e].client] = e
    BY <1>3 DEF LifeInv
  <2>2. dels[e].client # c
    BY <2>1 DEF d
  <2> QED
    BY <1>3, <2>1, <2>2 DEF TypeInv
<1>11. \A b \in Clients : mTimer'[b] # None => dels'[mTimer'[b]].client = b
  <2> SUFFICES ASSUME NEW b \in Clients, mTimer'[b] # None PROVE dels'[mTimer'[b]].client = b
    OBVIOUS
  <2>1. b # c /\ mTimer'[b] = mTimer[b] /\ mTimer[b] \in Delegates
    BY <1>3 DEF TypeInv, OptDelegate
  <2>2. dels[mTimer[b]].client = b
    BY <2>1 DEF LifeInv
  <2> QED
    BY <1>1, <1>3, <2>1, <2>2
<1>12. task'.pc \in {"read", "stop"} => dels'[task'.cur].life = "live"
  BY <1>3 DEF LifeInv, TypeInv
<1> QED
  BY <1>7, <1>8, <1>9, <1>10, <1>11, <1>12 DEF LifeInv

LEMMA StartedLife ==
  ASSUME TypeInv, LifeInv, NEW c \in Clients, NEW delay \in Delays, Start(c, delay)
  PROVE  LifeInv'
<1>1. PICK d \in Delegates :
        /\ dels[d].life = "unborn"
        /\ mTimer' = [mTimer EXCEPT ![c] = d]
        /\ dels' = [dels EXCEPT ![d] = [client |-> c, due |-> now + delay, life |-> "live"]]
        /\ queue' = Append(queue, Push(d))
  BY DEF Start
<1>2. mTimer[c] = None /\ heap' = heap /\ task' = task /\ d # None /\ c # None
  BY LocTimerAssumption DEF Start, heapVars, Delegates
<1>3. \A e \in Delegates : e # d => dels'[e] = dels[e]
  BY <1>1 DEF TypeInv
<1>4. dels'[d].client = c /\ dels'[d].life = "live"
  BY <1>1 DEF TypeInv
<1>5. ~In(Push(d), queue) /\ ~In(Remove(d), queue) /\ d \notin heap /\ dels[d].client = None
  BY <1>1 DEF LifeInv
<1>6. queue \in Seq(Messages) /\ Push(d) \in Messages
  BY MessageKinds DEF TypeInv
<1>7. \A e \in Delegates : In(Push(e), queue') <=> In(Push(e), queue) \/ e = d
  BY <1>1, <1>6, Sent, MessageKinds
<1>8. \A e \in Delegates : In(Remove(e), queue') <=> In(Remove(e), queue)
  BY <1>1, <1>6, Sent, MessageKinds
<1>9. InTurn(queue')
  BY <1>1, <1>5, <1>6, Sent, MessageKinds DEF LifeInv
<1>10. \A e \in Delegates :
         In(Push(e), queue') \/ e \in heap' \/ dels'[e].client # None => dels'[e].life = "live"
  BY <1>2, <1>3, <1>4, <1>7 DEF LifeInv
<1>11. \A e \in Delegates :
         In(Remove(e), queue') => dels'[e].life = "live" /\ dels'[e].client = None
  BY <1>3, <1>5, <1>8 DEF LifeInv
<1>12. \A e \in Delegates : dels'[e].client # None => mTimer'[dels'[e].client] = e
  <2> SUFFICES ASSUME NEW e \in Delegates, dels'[e].client # None PROVE mTimer'[dels'[e].client] = e
    OBVIOUS
  <2>1. CASE e = d
    BY <2>1, <1>1, <1>4 DEF TypeInv
  <2>2. CASE e # d
    <3>1. dels'[e].client = dels[e].client /\ mTimer[dels[e].client] = e
      BY <2>2, <1>3 DEF LifeInv
    <3>2. dels[e].client # c /\ dels[e].client \in Clients
      BY <3>1, <1>2, <1>3, <2>2, LocTimerAssumption DEF TypeInv, OptClient, Delegates
    <3> QED
      BY <1>1, <3>1, <3>2 DEF TypeInv
  <2> QED
    BY <2>1, <2>2
<1>13. \A b \in Clients : mTimer'[b] # None => dels'[mTimer'[b]].client = b
  <2> SUFFICES ASSUME NEW b \in Clients, mTimer'[b] # None PROVE dels'[mTimer'[b]].client = b
    OBVIOUS
  <2>1. CASE b = c
    BY <2>1, <1>1, <1>4 DEF TypeInv
  <2>2. CASE b # c
    <3>1. mTimer'[b] = mTimer[b] /\ mTimer[b] \in Delegates /\ dels[mTimer[b]].client = b
      BY <2>2, <1>1 DEF TypeInv, OptDelegate, LifeInv
    <3>2. mTimer[b] # d
      BY <3>1, <1>5, LocTimerAssumption
    <3> QED
      BY <1>3, <3>1, <3>2
  <2> QED
    BY <2>1, <2>2
<1>14. task'.pc \in {"read", "stop"} => dels'[task'.cur].life = "live"
  BY <1>1, <1>2, <1>3 DEF LifeInv, TypeInv
<1> QED
  BY <1>9, <1>10, <1>11, <1>12, <1>13, <1>14 DEF LifeInv

\* A step that only takes timers out of the heap or sends an expire message.
LEMMA OtherLife ==
  ASSUME TypeInv, LifeInv, UNCHANGED <<mTimer, dels>>, heap' \subseteq heap,
         queue' = queue \/ queue' = Append(queue, Expire),
         task'.pc \in {"read", "stop"} =>
            \/ task.pc \in {"read", "stop"} /\ task'.cur = task.cur
            \/ task'.cur \in heap
  PROVE  LifeInv'
<1>1. InTurn(queue') /\ \A d \in Delegates : /\ In(Push(d), queue') <=> In(Push(d), queue)
                                             /\ In(Remove(d), queue') <=> In(Remove(d), queue)
  <2>1. CASE queue' = queue
    BY <2>1 DEF LifeInv
  <2>2. CASE queue' = Append(queue, Expire)
    <3>1. queue \in Seq(Messages) /\ InTurn(queue) /\ \A d \in Delegates : Expire # Push(d) /\ Expire # Remove(d)
      BY MessageKinds DEF TypeInv, LifeInv
    <3>2. InTurn(queue')
      BY <2>2, <3>1, Sent, MessageKinds
    <3>3. \A x : In(x, queue') <=> In(x, queue) \/ x = Expire
      BY <2>2, <3>1, Sent, MessageKinds
    <3> QED
      BY <3>1, <3>2, <3>3
  <2> QED
    BY <2>1, <2>2
<1>2. task'.pc \in {"read", "stop"} => dels'[task'.cur].life = "live"
  <2> SUFFICES ASSUME task'.pc \in {"read", "stop"} PROVE dels'[task'.cur].life = "live"
    OBVIOUS
  <2>1. CASE task.pc \in {"read", "stop"} /\ task'.cur = task.cur
    BY <2>1 DEF LifeInv
  <2>2. CASE task'.cur \in heap
    <3>1. task'.cur \in Delegates /\ dels[task'.cur].life = "live"
      BY <2>2 DEF LifeInv, TypeInv
    <3> QED
      BY <3>1
  <2> QED
    BY <2>1, <2>2
<1>3. \A d \in Delegates :
         In(Push(d), queue') \/ d \in heap' \/ dels'[d].client # None => dels'[d].life = "live"
  BY <1>1 DEF LifeInv
<1>4. \A d \in Delegates :
         In(Remove(d), queue') => dels'[d].life = "live" /\ dels'[d].client = None
  BY <1>1 DEF LifeInv
<1> QED
  BY <1>1, <1>2, <1>3, <1>4 DEF LifeInv

LEMMA PushLife ==
  ASSUME TypeInv, LifeInv, TimerPush
  PROVE  LifeInv'
<1>1. PICK d \in Delegates : /\ queue # <<>> /\ Head(queue) = Push(d) /\ queue' = Tail(queue)
                             /\ heap' = heap \cup {d} /\ task' = UpdateSoonestTime(top, PushTop(d))
  BY DEF TimerPush, Receives
<1>2. UNCHANGED <<mTimer, dels>> /\ task'.pc \notin {"read", "stop"}
  BY <1>1, SoonestType DEF TimerPush, userVars
<1>3. /\ InTurn(queue') /\ In(Push(d), queue)
      /\ \A x : In(x, queue') => In(x, queue)
  BY <1>1, Taken DEF TypeInv, LifeInv
<1>4. dels[d].life = "live"
  BY <1>3 DEF LifeInv
<1>5. \A e \in Delegates :
         In(Push(e), queue') \/ e \in heap' \/ dels'[e].client # None => dels'[e].life = "live"
  BY <1>1, <1>2, <1>3, <1>4 DEF LifeInv
<1>6. \A e \in Delegates :
         In(Remove(e), queue') => dels'[e].life = "live" /\ dels'[e].client = None
  BY <1>2, <1>3 DEF LifeInv
<1> QED
  BY <1>2, <1>3, <1>5, <1>6 DEF LifeInv

LEMMA RemoveLife ==
  ASSUME TypeInv, LifeInv, TimerRemove
  PROVE  LifeInv'
<1>1. PICK d \in Delegates : /\ queue # <<>> /\ Head(queue) = Remove(d) /\ queue' = Tail(queue)
                             /\ heap' = heap \ {d} /\ dels' = [dels EXCEPT ![d].life = "deleted"]
                             /\ task' \in {Idle, UpdateSoonestTime(None, top')}
  BY DEF TimerRemove, Receives
<1>2. UNCHANGED mTimer /\ task'.pc \notin {"read", "stop"}
  BY <1>1, SoonestType, IdleType DEF TimerRemove, userVars
<1>3. /\ InTurn(queue') /\ In(Remove(d), queue)
      /\ \A x : In(x, queue') => In(x, queue)
      /\ ~In(Remove(d), queue') /\ ~In(Push(d), queue')
  BY <1>1, Taken, MessageKinds DEF TypeInv, LifeInv
<1>4. dels[d].client = None
  BY <1>3 DEF LifeInv
<1>5. \A e \in Delegates : /\ dels'[e].client = dels[e].client
                           /\ e # d => dels'[e].life = dels[e].life
  BY <1>1 DEF TypeInv
<1>6. \A e \in Delegates :
         In(Push(e), queue') \/ e \in heap' \/ dels'[e].client # None => dels'[e].life = "live"
  BY <1>1, <1>3, <1>4, <1>5 DEF LifeInv
<1>7. \A e \in Delegates :
         In(Remove(e), queue') => dels'[e].life = "live" /\ dels'[e].client = None
  BY <1>3, <1>5 DEF LifeInv
<1>8. \A e \in Delegates : dels'[e].client # None => mTimer'[dels'[e].client] = e
  BY <1>2, <1>5 DEF LifeInv
<1>9. \A c \in Clients : mTimer'[c] # None => dels'[mTimer'[c]].client = c
  BY <1>2, <1>5 DEF LifeInv, TypeInv, OptDelegate
<1> QED
  BY <1>2, <1>3, <1>6, <1>7, <1>8, <1>9 DEF LifeInv

LEMMA ExpireLife ==
  ASSUME TypeInv, LifeInv, top \in Tops(heap), TimerExpire
  PROVE  LifeInv'
<1>1. queue # <<>> /\ Head(queue) = Expire /\ queue' = Tail(queue)
  BY DEF TimerExpire, Receives
<1>2. /\ InTurn(queue') /\ \A x : In(x, queue') => In(x, queue)
  BY <1>1, Taken DEF TypeInv, LifeInv
<1>3. UNCHANGED <<mTimer, dels>> /\ heap' \subseteq heap
  BY DEF TimerExpire, Pop, heapVars, userVars
<1>4. task'.pc \in {"read", "stop"} => dels'[task'.cur].life = "live"
  <2>1. CASE heap = {}
    BY <2>1, SoonestType DEF TimerExpire
  <2>2. CASE heap # {}
    <3>1. top \in heap /\ top \in Delegates
      BY <2>2 DEF Tops, TypeInv
    <3>2. task' = [Idle EXCEPT !.pc = "read", !.cur = top, !.at = now]
      BY <2>2 DEF TimerExpire
    <3>3. task'.cur = top
      BY <3>2 DEF Idle
    <3> QED
      BY <1>3, <3>1, <3>3 DEF LifeInv
  <2> QED
    BY <2>1, <2>2
<1>5. \A d \in Delegates :
         In(Push(d), queue') \/ d \in heap' \/ dels'[d].client # None => dels'[d].life = "live"
  BY <1>2, <1>3 DEF LifeInv
<1>6. \A d \in Delegates :
         In(Remove(d), queue') => dels'[d].life = "live" /\ dels'[d].client = None
  BY <1>2, <1>3 DEF LifeInv
<1> QED
  BY <1>2, <1>3, <1>4, <1>5, <1>6 DEF LifeInv

LEMMA InitLife == Init => LifeInv
<1> SUFFICES ASSUME Init PROVE LifeInv
  OBVIOUS
<1>1. InTurn(queue) /\ \A x : ~In(x, queue)
  BY DEF Init, InTurn, In
<1>2. task.pc \notin {"read", "stop"}
  BY IdleType DEF Init
<1> QED
  BY <1>1, <1>2 DEF Init, LifeInv

LEMMA NextLife ==
  ASSUME TypeInv, LifeInv, top \in Tops(heap), [Next]_vars
  PROVE  LifeInv'
<1>1. ASSUME NEW c \in Clients, Stop(c) \/ Delete(c) PROVE LifeInv'
  <2>1. CASE mTimer[c] # None
    BY <1>1, <2>1, DestroyedLife DEF Stop, Delete, heapVars
  <2>2. CASE mTimer[c] = None
    BY <1>1, <2>2, OtherLife DEF Stop, Delete, heapVars
  <2> QED
    BY <2>1, <2>2
<1>2. ASSUME ReadClient PROVE LifeInv'
  <2>1. UNCHANGED <<mTimer, dels, heap, queue>> /\ task.pc = "read" /\ task'.cur = task.cur
    BY <1>2 DEF ReadClient, userVars, heapVars, TypeInv
  <2> QED
    BY <2>1, OtherLife
<1>3. ASSUME TimeOutCallback \/ SetPoll \/ SetTime PROVE LifeInv'
  <2>1. UNCHANGED <<mTimer, dels, heap, queue>>
    BY <1>3 DEF TimeOutCallback, SetPoll, SetTime, userVars, heapVars
  <2>2. task'.pc \notin {"read", "stop"}
    BY <1>3, IdleType DEF TimeOutCallback, SetPoll, SetTime, TypeInv
  <2> QED
    BY <2>1, <2>2, OtherLife
<1>4. ASSUME StopClient PROVE LifeInv'
  <2>1. task.client \in Clients /\ task'.pc \notin {"read", "stop"} /\ heap' = heap
    BY <1>4 DEF StopClient, TypeInv, heapVars
  <2>2. CASE task.client \in alive /\ mTimer[task.client] # None
    BY <1>4, <2>1, <2>2, DestroyedLife DEF StopClient
  <2>3. CASE ~(task.client \in alive /\ mTimer[task.client] # None)
    BY <1>4, <2>1, <2>3, OtherLife DEF StopClient
  <2> QED
    BY <2>2, <2>3
<1>5. ASSUME NextExpired PROVE LifeInv'
  <2>1. UNCHANGED <<mTimer, dels, queue>> /\ heap' \subseteq heap
    BY <1>5 DEF NextExpired, Pop, userVars, heapVars
  <2>2. task'.pc \in {"read", "stop"} => task'.cur \in heap
    <3>1. CASE task' = UpdateSoonestTime(None, top)
      BY <3>1, SoonestType
    <3>2. CASE task' # UpdateSoonestTime(None, top)
      BY <1>5, <3>2 DEF NextExpired, TypeInv, Tops
    <3> QED
      BY <3>1, <3>2
  <2> QED
    BY <2>1, <2>2, OtherLife
<1>6. ASSUME Poller \/ Tick \/ UNCHANGED vars PROVE LifeInv'
  <2>1. /\ UNCHANGED <<mTimer, dels, heap, task>>
        /\ queue' = queue \/ queue' = Append(queue, Expire)
    BY <1>6 DEF Poller, PollWake, PollDisarm, PollRemove, PollSend, Tick, vars, userVars, heapVars
  <2> QED
    BY <2>1, OtherLife
<1> QED
  BY <1>1, <1>2, <1>3, <1>4, <1>5, <1>6, StartedLife, PushLife, RemoveLife, ExpireLife DEF Next, Task

-----------------------------------------------------------------------------
(***************************************************************************)
(* A running timer is tracked.                                             *)
(***************************************************************************)
\* RunningIsTracked without its quantified positions.
LEMMA TrackedIn ==
  RunningIsTracked <=>
     \A c \in Clients : mTimer[c] # None =>
        \/ mTimer[c] \in heap
        \/ In(Push(mTimer[c]), queue)
        \/ task.pc \in {"read", "stop"} /\ task.cur = mTimer[c]
        \/ task.pc = "lost"
  BY DEF RunningIsTracked, Queued, In

LEMMA TrackedInNext ==
  RunningIsTracked' <=>
     \A c \in Clients : mTimer'[c] # None =>
        \/ mTimer'[c] \in heap'
        \/ In(Push(mTimer'[c]), queue')
        \/ task'.pc \in {"read", "stop"} /\ task'.cur = mTimer'[c]
        \/ task'.pc = "lost"
  BY DEF RunningIsTracked, Queued, In

\* A client's call only adds to the queue.
LEMMA ClientsQueue ==
  ASSUME TypeInv, NEW c \in Clients,
         Stop(c) \/ Delete(c) \/ \E delay \in Delays : Start(c, delay)
  PROVE  \A x : In(x, queue) => In(x, queue')
<1>1. ASSUME NEW m \in Messages, queue' = Append(queue, m)
      PROVE  \A x : In(x, queue) => In(x, queue')
  BY <1>1, Sent DEF TypeInv
<1>2. CASE Stop(c) \/ Delete(c)
  <2>1. queue' = queue \/ (mTimer[c] # None /\ queue' = Append(queue, Remove(mTimer[c])))
    BY <1>2 DEF Stop, Delete, DestroyLocked
  <2>2. mTimer[c] # None => Remove(mTimer[c]) \in Messages
    BY MessageKinds DEF TypeInv, OptDelegate
  <2> QED
    BY <1>1, <2>1, <2>2
<1>3. CASE \E delay \in Delays : Start(c, delay)
  <2>1. PICK d \in Delegates : queue' = Append(queue, Push(d))
    BY <1>3 DEF Start
  <2> QED
    BY <1>1, <2>1, MessageKinds
<1> QED
  BY <1>2, <1>3

\* A client's call: timers end or a new one is pushed.
LEMMA ClientsTrack ==
  ASSUME TypeInv, LifeInv, TrackInv, NEW c \in Clients,
         Stop(c) \/ Delete(c) \/ \E delay \in Delays : Start(c, delay)
  PROVE  TrackInv'
<1>1. UNCHANGED <<heap, task>>
  BY DEF Stop, Delete, Start, heapVars
<1>2. \A b \in Clients : mTimer'[b] # None =>
         mTimer'[b] = mTimer[b] \/ In(Push(mTimer'[b]), queue')
  <2>1. CASE Stop(c) \/ Delete(c)
    BY <2>1 DEF Stop, Delete, DestroyLocked, TypeInv
  <2>2. CASE \E delay \in Delays : Start(c, delay)
    <3>1. PICK d \in Delegates : /\ mTimer' = [mTimer EXCEPT ![c] = d]
                                 /\ queue' = Append(queue, Push(d))
      BY <2>2 DEF Start
    <3>2. In(Push(d), queue')
      BY <3>1, Sent, MessageKinds DEF TypeInv
    <3> QED
      BY <3>1, <3>2 DEF TypeInv
  <2> QED
    BY <2>1, <2>2
<1>3. \A x : In(x, queue) => In(x, queue')
  BY ClientsQueue
<1>4. \A d \in Delegates : dels[d].life # "unborn" =>
         dels'[d].client = dels[d].client \/ dels'[d].client = None
  <2>1. CASE Stop(c) \/ Delete(c)
    BY <2>1 DEF Stop, Delete, DestroyLocked, TypeInv
  <2>2. CASE \E delay \in Delays : Start(c, delay)
    BY <2>2 DEF Start, TypeInv
  <2> QED
    BY <2>1, <2>2
<1>5. RunningIsTracked'
  BY <1>1, <1>2, <1>3, TrackedIn, TrackedInNext DEF TrackInv
<1>6. task'.pc = "stop" => dels'[task'.cur].client \in {task'.client, None}
  <2> SUFFICES ASSUME task.pc = "stop" PROVE dels'[task.cur].client \in {task.client, None}
    BY <1>1
  <2>1. task.cur \in Delegates /\ dels[task.cur].client \in {task.client, None}
    BY DEF TypeInv, TrackInv
  <2>2. dels[task.cur].life = "live"
    BY DEF LifeInv
  <2> QED
    BY <1>4, <2>1, <2>2
<1> QED
  BY <1>5, <1>6 DEF TrackInv

\* A step outside the copy of mClient and stop(): nothing leaves the queue or
\* the heap but to the next place.
LEMMA MovesTrack ==
  ASSUME TypeInv, TrackInv, UNCHANGED <<mTimer, dels>>,
         \A c \in Clients : mTimer[c] # None =>
            /\ mTimer[c] \in heap =>
                  mTimer[c] \in heap' \/ (task'.pc = "read" /\ task'.cur = mTimer[c])
            /\ In(Push(mTimer[c]), queue) =>
                  mTimer[c] \in heap' \/ In(Push(mTimer[c]), queue'),
         task.pc \in {"read", "stop", "lost"} => UNCHANGED task,
         task'.pc = "stop" => UNCHANGED task
  PROVE  TrackInv'
<1>1. ASSUME NEW c \in Clients, mTimer'[c] # None
      PROVE  \/ mTimer'[c] \in heap'
             \/ In(Push(mTimer'[c]), queue')
             \/ task'.pc \in {"read", "stop"} /\ task'.cur = mTimer'[c]
             \/ task'.pc = "lost"
  <2>1. mTimer'[c] = mTimer[c] /\ mTimer[c] # None
    BY <1>1
  <2>2. \/ mTimer[c] \in heap
        \/ In(Push(mTimer[c]), queue)
        \/ task.pc \in {"read", "stop"} /\ task.cur = mTimer[c]
        \/ task.pc = "lost"
    BY <2>1, TrackedIn DEF TrackInv
  <2>3. CASE mTimer[c] \in heap \/ In(Push(mTimer[c]), queue)
    BY <2>1, <2>3
  <2>4. CASE task.pc \in {"read", "stop"} /\ task.cur = mTimer[c]
    BY <2>1, <2>4
  <2>5. CASE task.pc = "lost"
    BY <2>5
  <2> QED
    BY <2>2, <2>3, <2>4, <2>5
<1>2. RunningIsTracked'
  BY <1>1, TrackedInNext
<1>3. task'.pc = "stop" => dels'[task'.cur].client \in {task'.client, None}
  BY DEF TrackInv
<1> QED
  BY <1>2, <1>3 DEF TrackInv

\* A pop takes the top, which the expire loop goes on with.
LEMMA PopTracks ==
  ASSUME TypeInv, TrackInv, top \in Tops(heap), UNCHANGED <<mTimer, dels>>, task.pc \in {"idle", "next"},
         \A c \in Clients : In(Push(mTimer[c]), queue) => In(Push(mTimer[c]), queue'),
         \/ heap' = heap /\ task'.pc \in {"idle", "poll"}
         \/ heap # {} /\ heap' = heap \ {top} /\ task'.pc = "read" /\ task'.cur = top
  PROVE  TrackInv'
  BY MovesTrack

LEMMA PushTracks ==
  ASSUME TypeInv, LifeInv, TrackInv, TimerPush
  PROVE  TrackInv'
<1>1. PICK d \in Delegates : /\ queue # <<>> /\ Head(queue) = Push(d) /\ queue' = Tail(queue)
                             /\ heap' = heap \cup {d} /\ task' = UpdateSoonestTime(top, PushTop(d))
  BY DEF TimerPush, Receives
<1>2. UNCHANGED <<mTimer, dels>> /\ task.pc = "idle" /\ task'.pc \in {"idle", "poll"}
  BY <1>1, SoonestType DEF TimerPush, Receives, userVars
<1>3. \A x : In(x, queue) /\ x # Push(d) => In(x, queue')
  BY <1>1, Taken DEF TypeInv, LifeInv
<1>4. \A c \in Clients : mTimer[c] # None /\ In(Push(mTimer[c]), queue) =>
         mTimer[c] \in heap' \/ In(Push(mTimer[c]), queue')
  <2> SUFFICES ASSUME NEW c \in Clients, mTimer[c] # None, In(Push(mTimer[c]), queue)
               PROVE  mTimer[c] \in heap' \/ In(Push(mTimer[c]), queue')
    OBVIOUS
  <2>1. CASE mTimer[c] = d
    BY <2>1, <1>1
  <2>2. CASE mTimer[c] # d
    <3>1. Push(mTimer[c]) # Push(d)
      BY <2>2, MessageKinds DEF TypeInv, OptDelegate
    <3> QED
      BY <3>1, <1>3
  <2> QED
    BY <2>1, <2>2
<1> QED
  BY <1>1, <1>2, <1>4, MovesTrack

LEMMA RemoveTracks ==
  ASSUME TypeInv, LifeInv, TrackInv, TimerRemove
  PROVE  TrackInv'
<1>1. PICK d \in Delegates : /\ queue # <<>> /\ Head(queue) = Remove(d) /\ queue' = Tail(queue)
                             /\ heap' = heap \ {d}
                             /\ task' \in {Idle, UpdateSoonestTime(None, top')}
  BY DEF TimerRemove, Receives
<1>2. UNCHANGED mTimer /\ task.pc = "idle" /\ task'.pc \in {"idle", "poll"}
  BY <1>1, SoonestType, IdleType DEF TimerRemove, Receives, userVars
<1>3. \A x : In(x, queue) /\ x # Remove(d) => In(x, queue')
  BY <1>1, Taken DEF TypeInv, LifeInv
<1>4. \A c \in Clients : mTimer[c] # None => mTimer[c] \in Delegates /\ mTimer[c] # d
  <2>1. dels[d].client = None
    BY <1>1, Taken DEF TypeInv, LifeInv
  <2> QED
    BY <2>1, LocTimerAssumption DEF LifeInv, TypeInv, OptDelegate
<1>5. RunningIsTracked'
  <2> SUFFICES ASSUME NEW c \in Clients, mTimer[c] # None
               PROVE  mTimer[c] \in heap' \/ In(Push(mTimer[c]), queue')
    BY <1>2, TrackedInNext
  <2>1. mTimer[c] \in heap \/ In(Push(mTimer[c]), queue)
    BY <1>2, TrackedIn DEF TrackInv
  <2>2. Push(mTimer[c]) # Remove(d)
    BY <1>4, MessageKinds
  <2> QED
    <3>1. CASE mTimer[c] \in heap
      BY <1>1, <1>4, <3>1
    <3>2. CASE In(Push(mTimer[c]), queue)
      BY <1>3, <2>2, <3>2
    <3> QED
      BY <2>1, <3>1, <3>2
<1> QED
  BY <1>2, <1>5 DEF TrackInv

\* stop() in the loop finds the client's timer running, or this one ended.
LEMMA LoopTracks ==
  ASSUME TypeInv, LifeInv, TrackInv, ReadClient \/ StopClient
  PROVE  TrackInv'
<1>1. UNCHANGED heap
  BY DEF ReadClient, StopClient, heapVars
<1>2. CASE ReadClient
  <2>1. /\ UNCHANGED <<mTimer, dels, queue>> /\ task.pc = "read" /\ task.cur \in Delegates
        /\ task' = [task EXCEPT !.client = dels[task.cur].client,
                                !.pc = IF dels[task.cur].client = None THEN "next" ELSE "stop"]
    BY <1>2 DEF ReadClient, userVars, TypeInv
  <2>2. /\ task'.cur = task.cur /\ task'.client = dels[task.cur].client
        /\ task'.pc = IF dels[task.cur].client = None THEN "next" ELSE "stop"
    BY <2>1 DEF TypeInv
  <2>3. \A c \in Clients : mTimer[c] # None /\ mTimer[c] = task.cur => dels[task.cur].client # None
    BY LocTimerAssumption DEF LifeInv
  <2>4. RunningIsTracked'
    BY <1>1, <2>1, <2>2, <2>3, TrackedIn, TrackedInNext DEF TrackInv
  <2> QED
    BY <2>1, <2>2, <2>4 DEF TrackInv
<1>3. CASE StopClient
  <2>1. /\ task.pc = "stop" /\ task.client \in Clients /\ task.cur \in Delegates
        /\ task'.pc \in {"lost", "next", "call"}
    BY <1>3 DEF StopClient, TypeInv
  <2>2. CASE task'.pc = "lost"
    BY <2>2, TrackedInNext DEF TrackInv
  <2>3. CASE task'.pc # "lost"
    <3>1. /\ \A c \in Clients : mTimer'[c] # None => mTimer'[c] = mTimer[c] /\ c # task.client
          /\ \A x : In(x, queue) => In(x, queue')
      <4>1. CASE mTimer[task.client] = None
        BY <1>3, <2>1, <2>3, <4>1 DEF StopClient, TypeInv
      <4>2. CASE mTimer[task.client] # None
        <5>1. DestroyLocked(task.client)
          BY <1>3, <2>1, <2>3, <4>2 DEF StopClient, TypeInv
        <5>2. queue' = Append(queue, Remove(mTimer[task.client])) /\ mTimer' = [mTimer EXCEPT ![task.client] = None]
          BY <5>1 DEF DestroyLocked
        <5>3. Remove(mTimer[task.client]) \in Messages
          BY <2>1, <4>2, MessageKinds DEF TypeInv, OptDelegate
        <5> QED
          BY <2>1, <5>2, <5>3, Sent DEF TypeInv
      <4> QED
        BY <4>1, <4>2
    <3>2. \A c \in Clients : mTimer[c] # None /\ mTimer[c] = task.cur => c = task.client
      BY <2>1, LocTimerAssumption DEF LifeInv, TrackInv
    <3>3. RunningIsTracked'
      BY <1>1, <2>1, <3>1, <3>2, TrackedIn, TrackedInNext DEF TrackInv
    <3> QED
      BY <2>1, <3>3 DEF TrackInv
  <2> QED
    BY <2>2, <2>3
<1> QED
  BY <1>2, <1>3

LEMMA InitTrack == Init => TrackInv
  BY IdleType DEF Init, TrackInv, RunningIsTracked

LEMMA NextTrack ==
  ASSUME TypeInv, LifeInv, TrackInv, top \in Tops(heap), [Next]_vars
  PROVE  TrackInv'
<1>1. CASE TimerExpire
  <2>1. queue # <<>> /\ Head(queue) = Expire /\ queue' = Tail(queue) /\ task.pc = "idle"
    BY <1>1 DEF TimerExpire, Receives
  <2>2. \A x : In(x, queue) /\ x # Expire => In(x, queue')
    BY <2>1, Taken DEF TypeInv, LifeInv
  <2>3. \A d : Push(d) # Expire
    BY DEF Push, Expire
  <2>4. CASE heap = {}
    BY <1>1, <2>1, <2>2, <2>3, <2>4, SoonestType, PopTracks DEF TimerExpire, heapVars, userVars
  <2>5. CASE heap # {}
    <3>1. top \in Delegates /\ now \in Nat
      BY <2>5 DEF Tops, TypeInv
    <3>2. task'.pc = "read" /\ task'.cur = top
      <4>1. task' = [Idle EXCEPT !.pc = "read", !.cur = top, !.at = now]
        BY <1>1, <2>5 DEF TimerExpire
      <4> QED
        BY <3>1, <4>1, PoppedFirst
    <3> QED
      BY <1>1, <2>1, <2>2, <2>3, <2>5, <3>2, PopTracks DEF TimerExpire, Pop, userVars
  <2> QED
    BY <2>4, <2>5
<1>2. CASE NextExpired
  <2>1. CASE heap # {} /\ dels[top].due <= task.at
    <3>1. top \in Delegates /\ task \in Tasks
      BY <2>1 DEF Tops, TypeInv, Tasks
    <3>2. task'.pc = "read" /\ task'.cur = top
      <4>1. task' = [task EXCEPT !.pc = "read", !.cur = top, !.client = None, !.hit = None]
        BY <1>2, <2>1 DEF NextExpired
      <4> QED
        BY <3>1, <4>1, PoppedNext
    <3> QED
      BY <1>2, <2>1, <3>2, PopTracks DEF NextExpired, Pop, userVars
  <2>2. CASE ~(heap # {} /\ dels[top].due <= task.at)
    BY <1>2, <2>2, SoonestType, PopTracks DEF NextExpired, heapVars, userVars
  <2> QED
    BY <2>1, <2>2
<1>3. CASE TimeOutCallback \/ SetPoll \/ SetTime
  <2>1. UNCHANGED <<mTimer, dels, heap, queue>> /\ task.pc \in {"call", "poll", "arm"}
    BY <1>3 DEF TimeOutCallback, SetPoll, SetTime, userVars, heapVars
  <2>2. task'.pc # "stop"
    BY <1>3, IdleType DEF TimeOutCallback, SetPoll, SetTime, TypeInv
  <2> QED
    BY <2>1, <2>2, MovesTrack
<1>4. CASE Poller \/ Tick \/ UNCHANGED vars
  <2>1. /\ UNCHANGED <<mTimer, dels, heap, task>>
        /\ queue' = queue \/ queue' = Append(queue, Expire)
    BY <1>4 DEF Poller, PollWake, PollDisarm, PollRemove, PollSend, Tick, vars, userVars, heapVars
  <2>2. \A x : In(x, queue) => In(x, queue')
    <3>1. CASE queue' = queue
      BY <3>1
    <3>2. CASE queue' = Append(queue, Expire)
      BY <3>2, Sent, MessageKinds DEF TypeInv
    <3> QED
      BY <2>1, <3>1, <3>2
  <2> QED
    BY <2>1, <2>2, MovesTrack
<1> QED
  BY <1>1, <1>2, <1>3, <1>4, ClientsTrack, PushTracks, RemoveTracks, LoopTracks DEF Next, Task

-----------------------------------------------------------------------------
(***************************************************************************)
(* A timer in the heap has a wake-up coming.                               *)
(***************************************************************************)
LEMMA WakeIn ==
  WakeUpPending <=>
     (heap # {} => \/ polled /\ armed # None /\ armed <= dels[top].due
                   \/ poller # "wait"
                   \/ In(Expire, queue)
                   \/ task.pc # "idle")
  BY DEF WakeUpPending, Queued, In

LEMMA WakeInNext ==
  WakeUpPending' <=>
     (heap' # {} => \/ polled' /\ armed' # None /\ armed' <= dels'[top'].due
                    \/ poller' # "wait"
                    \/ In(Expire, queue')
                    \/ task'.pc # "idle")
  BY DEF WakeUpPending, Queued, In

LEMMA NoneIsNoDelegate == None \notin Delegates
<1>1. \A d \in Delegates : d \in Nat
  BY LocTimerAssumption DEF Delegates
<1> QED
  BY <1>1, LocTimerAssumption

\* What peek() returns.
LEMMA TopIsSoonest ==
  ASSUME TypeInv, top \in Tops(heap)
  PROVE  /\ heap # {} => top \in heap /\ top \in Delegates /\ top # None
         /\ heap = {} => top = None
         /\ \A e \in heap : ~(dels[e].due < dels[top].due)
<1>1. CASE heap = {}
  BY <1>1 DEF Tops
<1>2. CASE heap # {}
  BY <1>2, NoneIsNoDelegate DEF Tops, OutRanks, TypeInv
<1> QED
  BY <1>1, <1>2

\* updateSoonestTime(NULL) programs the timerfd whatever it was set to.
LEMMA SoonestOf ==
  ASSUME NEW h \in SUBSET Delegates, NEW t \in Tops(h)
  PROVE  h # {} => UpdateSoonestTime(None, t).pc = "poll"
<1> SUFFICES ASSUME h # {} PROVE UpdateSoonestTime(None, t).pc = "poll"
  OBVIOUS
<1>1. t # None
  BY NoneIsNoDelegate DEF Tops
<1> QED
  BY <1>1 DEF UpdateSoonestTime, Idle

\* A step that leaves the heap, and of whose effects on the queue, the
\* timerfd and the epoll set none undoes a wake-up.
LEMMA WakeKept ==
  ASSUME TypeInv, WakeInv, UNCHANGED <<heap, top>>,
         \A d \in heap : dels'[d].due = dels[d].due,
         In(Expire, queue) => In(Expire, queue'),
         task'.pc = "idle" => task.pc = "idle",
         task'.pc = "arm" => task.pc = "arm",
         \/ UNCHANGED <<armed, polled, poller>>
         \/ poller' # "wait"
         \/ In(Expire, queue')
  PROVE  WakeInv'
<1>1. top' \in Tops(heap)'
  BY DEF WakeInv, Tops, OutRanks
<1>2. heap # {} => top \in heap
  BY DEF WakeInv, Tops
<1>3. WakeUpPending'
  BY <1>2, WakeIn, WakeInNext DEF WakeInv
<1>4. task'.pc = "arm" /\ heap' # {} => polled' \/ poller' # "wait" \/ In(Expire, queue')
  BY DEF WakeInv
<1> QED
  BY <1>1, <1>3, <1>4 DEF WakeInv

\* The push that outranks the top sets the timerfd; another leaves it.
LEMMA PushWakes ==
  ASSUME TypeInv, LifeInv, WakeInv, TimerPush
  PROVE  WakeInv'
<1>1. PICK d \in Delegates : /\ queue # <<>> /\ Head(queue) = Push(d) /\ queue' = Tail(queue)
                             /\ heap' = heap \cup {d} /\ top' = PushTop(d)
                             /\ task' = UpdateSoonestTime(top, PushTop(d))
  BY DEF TimerPush, Receives
<1>2. UNCHANGED <<dels, armed, polled, poller>> /\ task.pc = "idle"
  BY DEF TimerPush, Receives, fdVars
<1>3. In(Expire, queue) => In(Expire, queue')
  BY <1>1, Taken, MessageKinds DEF TypeInv, LifeInv
<1>4. /\ heap # {} => top \in heap /\ top # None
      /\ heap = {} => top = None
      /\ \A e \in heap : ~(dels[e].due < dels[top].due)
      /\ d # None
  BY TopIsSoonest, NoneIsNoDelegate DEF WakeInv
<1>5. \A e \in heap \cup {d} : dels[e].due \in Nat
  BY DEF TypeInv
<1>6. task'.pc \in {"idle", "poll"}
  BY <1>1, SoonestType
<1>7. CASE top' = top
  <2>1. heap # {} /\ ~(dels[d].due < dels[top].due) /\ top # None
    BY <1>1, <1>4, <1>7 DEF PushTop, OutRanks
  <2>2. top' \in Tops(heap)'
    BY <1>1, <1>2, <1>4, <1>7, <2>1 DEF Tops, OutRanks
  <2>3. WakeUpPending'
    BY <1>2, <1>3, <1>7, <2>1, WakeIn, WakeInNext DEF WakeInv
  <2> QED
    BY <1>6, <2>2, <2>3 DEF WakeInv
<1>8. CASE top' # top
  <2>1. top' = d /\ (heap = {} \/ dels[d].due < dels[top].due)
    BY <1>1, <1>4, <1>8 DEF PushTop, OutRanks
  <2>2. \A e \in heap : dels[d].due <= dels[e].due
    <3> SUFFICES ASSUME NEW e \in heap PROVE dels[d].due <= dels[e].due
      OBVIOUS
    <3>1. top \in heap /\ dels[d].due < dels[top].due /\ ~(dels[e].due < dels[top].due)
      BY <1>4, <2>1
    <3> QED
      BY <1>5, <3>1
  <2>3. top' \in Tops(heap)'
    BY <1>1, <1>2, <1>5, <2>1, <2>2 DEF Tops, OutRanks
  <2>4. task'.pc = "poll"
    BY <1>1, <1>4, <1>8, <2>1 DEF UpdateSoonestTime, OutRanks, Idle
  <2> QED
    BY <2>3, <2>4, WakeInNext DEF WakeInv
<1> QED
  BY <1>7, <1>8

\* When the top is removed the timerfd is set for the next one.
LEMMA RemoveWakes ==
  ASSUME TypeInv, LifeInv, WakeInv, TimerRemove
  PROVE  WakeInv'
<1>1. PICK d \in Delegates :
        /\ queue # <<>> /\ Head(queue) = Remove(d) /\ queue' = Tail(queue)
        /\ heap' = heap \ {d}
        /\ top' \in IF top = d THEN Tops(heap') ELSE {top}
        /\ task' = IF top = (IF d \in heap THEN d ELSE None) THEN UpdateSoonestTime(None, top') ELSE Idle
        /\ dels' = [dels EXCEPT ![d].life = "deleted"]
  BY DEF TimerRemove, Receives
<1>2. UNCHANGED <<armed, polled, poller>> /\ task.pc = "idle"
  BY DEF TimerRemove, Receives, fdVars
<1>3. In(Expire, queue) => In(Expire, queue')
  BY <1>1, Taken, MessageKinds DEF TypeInv, LifeInv
<1>4. \A e \in Delegates : dels'[e].due = dels[e].due
  BY <1>1 DEF TypeInv
<1>5. /\ heap # {} => top \in heap /\ top # None
      /\ heap = {} => top = None
      /\ \A e \in heap : ~(dels[e].due < dels[top].due)
      /\ d # None
  BY TopIsSoonest, NoneIsNoDelegate DEF WakeInv
<1>6. task'.pc \in {"idle", "poll"}
  BY <1>1, SoonestType, IdleType
<1>7. CASE top = d
  <2>1. d \in heap /\ task' = UpdateSoonestTime(None, top') /\ top' \in Tops(heap')
    BY <1>1, <1>5, <1>7
  <2>2. heap' # {} => top' \in heap' /\ \A e \in heap' : ~(dels[e].due < dels[top'].due)
    BY <2>1 DEF Tops, OutRanks
  <2>3. top' \in Tops(heap)'
    <3>1. heap' \subseteq Delegates
      BY <1>1 DEF TypeInv
    <3>2. CASE heap' = {}
      BY <2>1, <3>2 DEF Tops
    <3>3. CASE heap' # {}
      BY <1>4, <2>2, <3>1, <3>3 DEF Tops, OutRanks
    <3> QED
      BY <3>2, <3>3
  <2>4. heap' # {} => task'.pc = "poll"
    <3>1. heap' \in SUBSET Delegates
      BY <1>1 DEF TypeInv
    <3> QED
      BY <2>1, <3>1, SoonestOf
  <2> QED
    BY <1>6, <2>3, <2>4, WakeInNext DEF WakeInv
<1>8. CASE top # d
  <2>1. top' = top /\ (heap' # {} => top \in heap' /\ task' = Idle)
    BY <1>1, <1>5, <1>8
  <2>2. top' \in Tops(heap)'
    <3>1. heap' \subseteq Delegates
      BY <1>1 DEF TypeInv
    <3>2. CASE heap' = {}
      BY <1>1, <1>5, <1>8, <2>1, <3>2 DEF Tops
    <3>3. CASE heap' # {}
      BY <1>1, <1>4, <1>5, <2>1, <3>1, <3>3 DEF Tops, OutRanks
    <3> QED
      BY <3>2, <3>3
  <2>3. WakeUpPending'
    <3> SUFFICES ASSUME heap' # {}
                 PROVE  \/ polled' /\ armed' # None /\ armed' <= dels'[top'].due
                        \/ poller' # "wait"
                        \/ In(Expire, queue')
      BY WakeInNext
    <3>1. heap # {} /\ top \in Delegates
      BY <1>1, <1>5 DEF TypeInv
    <3> QED
      BY <1>2, <1>3, <1>4, <2>1, <3>1, WakeIn DEF WakeInv
  <2> QED
    BY <1>6, <2>2, <2>3 DEF WakeInv
<1> QED
  BY <1>7, <1>8

\* After a pop the loop goes on and sets the timerfd at its end.
LEMMA PopWakes ==
  ASSUME TypeInv, WakeInv, UNCHANGED dels,
         \/ UNCHANGED heapVars /\ task' = UpdateSoonestTime(None, top)
         \/ heap # {} /\ Pop /\ task'.pc = "read"
  PROVE  WakeInv'
<1>1. CASE UNCHANGED heapVars /\ task' = UpdateSoonestTime(None, top)
  <2>1. top' \in Tops(heap)' /\ UNCHANGED heap
    BY <1>1 DEF WakeInv, Tops, OutRanks, heapVars
  <2>2. heap # {} => task'.pc = "poll"
    <3>1. heap \in SUBSET Delegates
      BY DEF TypeInv
    <3> QED
      BY <1>1, <3>1, SoonestOf DEF WakeInv
  <2>3. task'.pc \in {"idle", "poll"}
    BY <1>1, SoonestType
  <2> QED
    BY <2>1, <2>2, <2>3, WakeInNext DEF WakeInv
<1>2. CASE heap # {} /\ Pop /\ task'.pc = "read"
  <2>1. top' \in Tops(heap)'
    BY <1>2 DEF Pop, Tops, OutRanks
  <2> QED
    BY <1>2, <2>1, WakeInNext DEF WakeInv
<1> QED
  BY <1>1, <1>2

LEMMA InitWake == Init => WakeInv
  BY DEF Init, WakeInv, WakeUpPending, Tops

LEMMA ClientsWake ==
  ASSUME TypeInv, LifeInv, WakeInv, NEW c \in Clients,
         Stop(c) \/ Delete(c) \/ \E delay \in Delays : Start(c, delay)
  PROVE  WakeInv'
<1>1. UNCHANGED <<heap, top, armed, polled, poller, task>>
  BY DEF Stop, Delete, Start, heapVars, fdVars
<1>2. \A d \in heap : dels'[d].due = dels[d].due
  <2>1. CASE Stop(c) \/ Delete(c)
    <3>1. dels' = dels \/ dels' = [dels EXCEPT ![mTimer[c]].client = None]
      BY <2>1 DEF Stop, Delete, DestroyLocked
    <3> QED
      BY <3>1 DEF TypeInv
  <2>2. CASE \E delay \in Delays : Start(c, delay)
    <3>1. PICK d \in Delegates, n \in Nat :
            /\ dels[d].life = "unborn"
            /\ dels' = [dels EXCEPT ![d] = [client |-> c, due |-> n, life |-> "live"]]
      <4>1. PICK delay \in Delays : Start(c, delay)
        BY <2>2
      <4>2. now + delay \in Nat
        BY LocTimerAssumption DEF TypeInv
      <4> QED
        BY <4>1, <4>2 DEF Start
    <3>2. d \notin heap
      BY <3>1 DEF LifeInv
    <3> QED
      BY <3>1, <3>2 DEF TypeInv
  <2> QED
    BY <2>1, <2>2
<1>3. In(Expire, queue) => In(Expire, queue')
  BY ClientsQueue
<1> QED
  BY <1>1, <1>2, <1>3, WakeKept

LEMMA NextWake ==
  ASSUME TypeInv, LifeInv, WakeInv, [Next]_vars
  PROVE  WakeInv'
<1>1. CASE TimerExpire
  <2>1. CASE heap = {}
    BY <1>1, <2>1, PopWakes DEF TimerExpire
  <2>2. CASE heap # {}
    <3>1. task' = [Idle EXCEPT !.pc = "read", !.cur = top, !.at = now]
      BY <1>1, <2>2 DEF TimerExpire
    <3>2. task'.pc = "read"
      BY <3>1 DEF Idle
    <3> QED
      BY <1>1, <2>2, <3>2, PopWakes DEF TimerExpire
  <2> QED
    BY <2>1, <2>2
<1>2. CASE NextExpired
  <2>1. CASE heap # {} /\ dels[top].due <= task.at
    <3>1. task'.pc = "read"
      BY <1>2, <2>1 DEF NextExpired, TypeInv
    <3> QED
      BY <1>2, <2>1, <3>1, PopWakes DEF NextExpired
  <2>2. CASE ~(heap # {} /\ dels[top].due <= task.at)
    BY <1>2, <2>2, PopWakes DEF NextExpired
  <2> QED
    BY <2>1, <2>2
<1>3. CASE ReadClient \/ TimeOutCallback
  <2>1. /\ UNCHANGED <<heap, top, dels, queue, armed, polled, poller>>
        /\ task'.pc \notin {"idle", "arm"}
    BY <1>3 DEF ReadClient, TimeOutCallback, TypeInv, heapVars, fdVars
  <2> QED
    BY <2>1, WakeKept
<1>4. CASE StopClient
  <2>1. UNCHANGED <<heap, top, armed, polled, poller>> /\ task'.pc \notin {"idle", "arm"}
    BY <1>4 DEF StopClient, TypeInv, heapVars, fdVars
  <2>2. /\ \A d \in heap : dels'[d].due = dels[d].due
        /\ In(Expire, queue) => In(Expire, queue')
    <3>1. CASE UNCHANGED <<dels, queue>>
      BY <3>1
    <3>2. CASE DestroyLocked(task.client) /\ mTimer[task.client] # None
      <4>1. mTimer[task.client] \in Delegates
        BY <1>4, <3>2 DEF StopClient, TypeInv, OptDelegate
      <4>2. Remove(mTimer[task.client]) \in Messages
        BY <4>1, MessageKinds
      <4>3. In(Expire, queue) => In(Expire, queue')
        BY <3>2, <4>2, Sent DEF DestroyLocked, TypeInv
      <4> QED
        BY <3>2, <4>1, <4>3 DEF DestroyLocked, TypeInv
    <3> QED
      BY <1>4, <3>1, <3>2 DEF StopClient
  <2> QED
    BY <2>1, <2>2, WakeKept
<1>5. CASE SetPoll
  <2>1. /\ UNCHANGED <<heap, top, dels, queue, armed, poller>>
        /\ task'.pc = "arm" /\ polled' = (top # None)
    BY <1>5 DEF SetPoll, TypeInv, heapVars
  <2>2. heap # {} => top # None
    BY TopIsSoonest DEF WakeInv
  <2>3. heap # {} => polled'
    BY <2>1, <2>2
  <2>4. top' \in Tops(heap)'
    BY <2>1 DEF WakeInv, Tops, OutRanks
  <2> QED
    BY <2>1, <2>3, <2>4, WakeInNext DEF WakeInv
<1>6. CASE SetTime
  <2>1. /\ UNCHANGED <<heap, top, dels, queue, polled, poller>> /\ task.pc = "arm"
        /\ armed' = (IF top = None THEN None ELSE dels[top].due) /\ task'.pc = "idle"
    BY <1>6, IdleType DEF SetTime, heapVars
  <2>2. heap # {} => top \in Delegates /\ top # None
    BY TopIsSoonest DEF WakeInv
  <2>3. heap # {} => armed' # None /\ armed' <= dels[top].due
    BY <2>1, <2>2, LocTimerAssumption DEF TypeInv
  <2>4. top' \in Tops(heap)'
    BY <2>1 DEF WakeInv, Tops, OutRanks
  <2>5. WakeUpPending'
    BY <2>1, <2>3, WakeInNext DEF WakeInv
  <2> QED
    BY <2>1, <2>4, <2>5 DEF WakeInv
<1>7. CASE PollWake \/ PollDisarm \/ PollRemove
  <2>1. UNCHANGED <<heap, top, dels, queue, task>> /\ poller' # "wait"
    BY <1>7 DEF PollWake, PollDisarm, PollRemove, heapVars
  <2> QED
    BY <2>1, WakeKept
<1>8. CASE PollSend
  <2>1. UNCHANGED <<heap, top, dels, task>> /\ queue' = Append(queue, Expire)
    BY <1>8 DEF PollSend, heapVars
  <2>2. In(Expire, queue')
    BY <2>1, Sent, MessageKinds DEF TypeInv
  <2> QED
    BY <2>1, <2>2, WakeKept
<1>9. CASE Tick \/ UNCHANGED vars
  BY <1>9, WakeKept DEF Tick, vars, heapVars, fdVars
<1> QED
  BY <1>1, <1>2, <1>3, <1>4, <1>5, <1>6, <1>7, <1>8, <1>9, ClientsWake, PushWakes, RemoveWakes
     DEF Next, Task, Poller

-----------------------------------------------------------------------------
(***************************************************************************)
(* A delegate ends once: by its client, or by the expire loop.             *)
(***************************************************************************)
\* The delegates that have ended stay so.
LEMMA EndKept ==
  ASSUME TypeInv, EndInv, UNCHANGED <<withdrawn, called>>,
         \A d \in Delegates : dels[d].life # "unborn" /\ dels[d].client = None =>
                                 dels'[d].life # "unborn" /\ dels'[d].client = None,
         task'.pc = "call" => UNCHANGED task
  PROVE  EndInv'
<1>1. \A d \in withdrawn' \cup called' : dels'[d].client = None /\ dels'[d].life # "unborn"
  BY DEF EndInv
<1>2. task'.pc = "call" => /\ task'.hit \notin withdrawn'
                           /\ dels'[task'.hit].client = None /\ dels'[task'.hit].life # "unborn"
  BY DEF EndInv, TypeInv
<1> QED
  BY <1>1, <1>2 DEF EndInv, StoppedIsSilent

\* stop() by the client or in the loop: the delegate had not ended before.
LEMMA DestroyedEnd ==
  ASSUME TypeInv, LifeInv, EndInv, NEW c \in Clients, mTimer[c] # None, DestroyLocked(c)
  PROVE  /\ mTimer[c] \in Delegates
         /\ dels'[mTimer[c]].client = None /\ dels'[mTimer[c]].life # "unborn"
         /\ mTimer[c] \notin withdrawn \cup called
         /\ task.pc = "call" => mTimer[c] # task.hit
         /\ \A d \in Delegates : dels[d].life # "unborn" /\ dels[d].client = None =>
                                    dels'[d].life # "unborn" /\ dels'[d].client = None
<1>1. mTimer[c] \in Delegates /\ dels[mTimer[c]].client = c /\ c # None
  BY LocTimerAssumption DEF TypeInv, LifeInv, OptDelegate
<1>2. dels[mTimer[c]].life = "live"
  BY <1>1 DEF LifeInv
<1>3. dels' = [dels EXCEPT ![mTimer[c]].client = None]
  BY DEF DestroyLocked
<1>4. /\ dels'[mTimer[c]].client = None /\ dels'[mTimer[c]].life = "live"
      /\ \A d \in Delegates : d # mTimer[c] => dels'[d] = dels[d]
  BY <1>1, <1>2, <1>3 DEF TypeInv
<1>5. mTimer[c] \notin withdrawn \cup called
  BY <1>1 DEF EndInv
<1>6. task.pc = "call" => mTimer[c] # task.hit
  BY <1>1 DEF EndInv
<1> QED
  BY <1>1, <1>4, <1>5, <1>6

LEMMA StoppedEnd ==
  ASSUME TypeInv, LifeInv, EndInv, NEW c \in Clients, mTimer[c] # None, DestroyLocked(c),
         withdrawn' = withdrawn \cup {mTimer[c]}, UNCHANGED <<called, task>>
  PROVE  EndInv'
<1>1. withdrawn' \cup called' \subseteq Delegates
  BY DestroyedEnd DEF EndInv
<1>2. \A d \in withdrawn' \cup called' : dels'[d].client = None /\ dels'[d].life # "unborn"
  BY DestroyedEnd DEF EndInv
<1>3. task'.pc = "call" => /\ task'.hit \notin withdrawn'
                           /\ dels'[task'.hit].client = None /\ dels'[task'.hit].life # "unborn"
  BY DestroyedEnd DEF EndInv, TypeInv
<1>4. StoppedIsSilent'
  BY DestroyedEnd DEF EndInv, StoppedIsSilent
<1> QED
  BY <1>1, <1>2, <1>3, <1>4 DEF EndInv

LEMMA LoopEnds ==
  ASSUME TypeInv, LifeInv, EndInv, StopClient \/ TimeOutCallback
  PROVE  EndInv'
<1>1. CASE StopClient
  <2>1. task.client \in Clients /\ UNCHANGED <<withdrawn, called>> /\ task.pc = "stop"
    BY <1>1 DEF StopClient, TypeInv, history
  <2>2. CASE task.client \in alive /\ mTimer[task.client] # None
    <3>1. DestroyLocked(task.client)
      BY <1>1, <2>2 DEF StopClient
    <3>2. task'.pc = "call" /\ task'.hit = mTimer[task.client]
      BY <1>1, <2>2 DEF StopClient, TypeInv
    <3>3. \A d \in withdrawn' \cup called' : dels'[d].client = None /\ dels'[d].life # "unborn"
      BY <2>1, <2>2, <3>1, DestroyedEnd DEF EndInv
    <3>4. /\ task'.hit \notin withdrawn'
          /\ dels'[task'.hit].client = None /\ dels'[task'.hit].life # "unborn"
      BY <2>1, <2>2, <3>1, <3>2, DestroyedEnd
    <3> QED
      BY <2>1, <3>3, <3>4 DEF EndInv, StoppedIsSilent
  <2>3. CASE ~(task.client \in alive /\ mTimer[task.client] # None)
    <3>1. task'.pc # "call" /\ UNCHANGED dels
      BY <1>1, <2>3 DEF StopClient, TypeInv
    <3> QED
      BY <2>1, <3>1, EndKept
  <2> QED
    BY <2>2, <2>3
<1>2. CASE TimeOutCallback
  <2>1. /\ task.pc = "call" /\ UNCHANGED <<dels, withdrawn>> /\ task.hit \in Delegates
        /\ task'.pc # "call" /\ called' \in {called, called \cup {task.hit}}
    BY <1>2 DEF TimeOutCallback, TypeInv
  <2>2. /\ task.hit \notin withdrawn
        /\ dels[task.hit].client = None /\ dels[task.hit].life # "unborn"
    BY <2>1 DEF EndInv
  <2> QED
    BY <2>1, <2>2 DEF EndInv, StoppedIsSilent
<1> QED
  BY <1>1, <1>2

LEMMA InitEnd == Init => EndInv
  BY IdleType DEF Init, EndInv, StoppedIsSilent

LEMMA NextEnd ==
  ASSUME TypeInv, LifeInv, EndInv, [Next]_vars
  PROVE  EndInv'
<1>1. ASSUME NEW c \in Clients, Stop(c) \/ Delete(c) PROVE EndInv'
  <2>1. CASE mTimer[c] # None
    BY <1>1, <2>1, StoppedEnd DEF Stop, Delete
  <2>2. CASE mTimer[c] = None
    BY <1>1, <2>2, EndKept DEF Stop, Delete
  <2> QED
    BY <2>1, <2>2
<1>2. ASSUME NEW c \in Clients, NEW delay \in Delays, Start(c, delay) PROVE EndInv'
  <2>1. PICK d \in Delegates :
          /\ dels[d].life = "unborn"
          /\ dels' = [dels EXCEPT ![d] = [client |-> c, due |-> now + delay, life |-> "live"]]
    BY <1>2 DEF Start
  <2>2. \A e \in Delegates : dels[e].life # "unborn" => dels'[e] = dels[e]
    BY <2>1 DEF TypeInv
  <2> QED
    BY <1>2, <2>2, EndKept DEF Start, history
<1>3. CASE TimerRemove
  <2>1. PICK d \in Delegates : /\ dels' = [dels EXCEPT ![d].life = "deleted"]
                               /\ task' \in {Idle, UpdateSoonestTime(None, top')}
    BY <1>3 DEF TimerRemove
  <2>2. \A e \in Delegates : dels'[e].client = dels[e].client /\ dels'[e].life \in {dels[e].life, "deleted"}
    BY <2>1 DEF TypeInv
  <2>3. task'.pc # "call"
    BY <2>1, SoonestType, IdleType
  <2> QED
    BY <1>3, <2>2, <2>3, EndKept DEF TimerRemove, history
<1>4. CASE TimerPush \/ TimerExpire \/ ReadClient \/ NextExpired \/ SetPoll \/ SetTime
  <2>1. UNCHANGED <<dels, withdrawn, called>>
    BY <1>4 DEF TimerPush, TimerExpire, ReadClient, NextExpired, SetPoll, SetTime, history
  <2>2. task'.pc # "call"
    <3>1. CASE TimerPush
      BY <3>1, SoonestType DEF TimerPush
    <3>2. CASE TimerExpire
      <4>1. \/ task' = UpdateSoonestTime(None, top)
            \/ task' = [Idle EXCEPT !.pc = "read", !.cur = top, !.at = now]
        BY <3>2 DEF TimerExpire
      <4> QED
        BY <4>1, SoonestType DEF Idle
    <3>3. CASE ReadClient
      BY <3>3 DEF ReadClient, TypeInv
    <3>4. CASE NextExpired
      <4>1. \/ task' = UpdateSoonestTime(None, top)
            \/ task' = [task EXCEPT !.pc = "read", !.cur = top, !.client = None, !.hit = None]
        BY <3>4 DEF NextExpired
      <4> QED
        BY <4>1, SoonestType DEF TypeInv
    <3>5. CASE SetPoll \/ SetTime
      BY <3>5, IdleType DEF SetPoll, SetTime, TypeInv
    <3> QED
      BY <1>4, <3>1, <3>2, <3>3, <3>4, <3>5
  <2> QED
    BY <2>1, <2>2, EndKept
<1>5. CASE Poller \/ Tick \/ UNCHANGED vars
  BY <1>5, EndKept DEF Poller, PollWake, PollDisarm, PollRemove, PollSend, Tick, vars, history
<1> QED
  BY <1>1, <1>2, <1>3, <1>4, <1>5, LoopEnds DEF Next, Task

-----------------------------------------------------------------------------
(***************************************************************************)
(* Together.                                                               *)
(***************************************************************************)
LEMMA InitTimer == Init => TimerInv
  BY InitType, InitLife, InitTrack, InitWake, InitEnd DEF TimerInv

LEMMA NextTimer == TimerInv /\ [Next]_vars => TimerInv'
<1> SUFFICES ASSUME TimerInv, [Next]_vars PROVE TimerInv'
  OBVIOUS
<1>1. TypeInv /\ LifeInv /\ TrackInv /\ WakeInv /\ EndInv /\ top \in Tops(heap)
  BY DEF TimerInv, WakeInv
<1> QED
  BY <1>1, NextType, NextLife, NextTrack, NextWake, NextEnd DEF TimerInv

\* Whatever holds a delegate holds a live one, and no message comes twice.
LEMMA NothingDangles == TimerInv => NoDanglingDelegate
<1> SUFFICES ASSUME TypeInv, LifeInv PROVE NoDanglingDelegate
  BY DEF TimerInv
<1>1. \A d \in heap : dels[d].life = "live"
  BY DEF TypeInv, LifeInv
<1>2. ASSUME NEW c \in Clients, mTimer[c] # None PROVE dels[mTimer[c]].life = "live"
  BY <1>2, LocTimerAssumption DEF TypeInv, LifeInv, OptDelegate
<1>3. ASSUME NEW i \in 1 .. Len(queue), queue[i].timer # None PROVE dels[queue[i].timer].life = "live"
  <2>1. queue[i] \in Messages /\ In(queue[i], queue)
    BY DEF TypeInv, In
  <2>2. CASE \E d \in Delegates : queue[i] = Push(d)
    BY <2>1, <2>2 DEF LifeInv, Push
  <2>3. CASE \E d \in Delegates : queue[i] = Remove(d)
    BY <2>1, <2>3 DEF LifeInv, Remove
  <2>4. CASE queue[i] = Expire
    BY <1>3, <2>4 DEF Expire
  <2> QED
    BY <2>1, <2>2, <2>3, <2>4 DEF Messages
<1>4. task.pc = "read" => dels[task.cur].life = "live"
  BY DEF LifeInv
<1>5. \A i, j \in 1 .. Len(queue) : queue[i] = queue[j] /\ queue[i] # Expire => i = j
  BY DEF LifeInv, InTurn
<1> QED
  BY <1>1, <1>2, <1>3, <1>4, <1>5 DEF NoDanglingDelegate

(***************************************************************************)
(* However the clients, the MsgTask and the poll thread interleave, and    *)
(* however many timers there are: a running timer is in the queue, in the  *)
(* heap or in the expire loop, a non-empty heap has a wake-up coming that  *)
(* is not too late, and nobody holds a deleted delegate (LocTimer.cpp).    *)
(***************************************************************************)
THEOREM TimerIsKeptCorrect == Spec => []TimerIsKept
<1>1. TimerInv => TimerIsKept
  BY NothingDangles DEF TimerInv, TrackInv, WakeInv, TimerIsKept
<1> QED
  BY <1>1, InitTimer, NextTimer, PTL DEF Spec

(***************************************************************************)
(* A timer that its client stopped in time never calls back, although the  *)
(* expire loop reads mClient without the client's lock: what stop() says   *)
(* decides.                                                                *)
(***************************************************************************)
THEOREM StoppedIsSilentCorrect == Spec => []StoppedIsSilent
<1>1. TimerInv => StoppedIsSilent
  BY DEF TimerInv, EndInv
<1> QED
  BY <1>1, InitTimer, NextTimer, PTL DEF Spec

=============================================================================
