------------------------------ MODULE LocTimer ------------------------------
(***************************************************************************)
(* The timer service of libgps.utils (LocTimer.cpp).  Three kinds of       *)
(* threads touch it:                                                       *)
(*   - the clients, which start, stop and delete LocTimer objects;         *)
(*   - the LocTimerMsgTask thread, which owns the heap of running timers   *)
(*     and serves a queue of push, remove and expire messages;             *)
(*   - the poll thread, blocked in epoll_wait on the timerfd.              *)
(* Each start() makes a LocTimerDelegate, deleted by the remove message    *)
(* that its stop() sends.  A client's mLock makes start() and stop()       *)
(* atomic; the MsgTask reads LocTimerDelegate::mClient without it.         *)
(*                                                                         *)
(* The heap is its set of delegates and its top (LocHeap shows that the    *)
(* tree behaves so).  One container is modelled: the timers and the alarms *)
(* differ in their timerfd only.                                           *)
(***************************************************************************)
EXTENDS Integers, Sequences, FiniteSets

CONSTANTS Clients,    \* the LocTimer objects
          Starts,     \* how many times a timer is started (bound)
          Delays,     \* the time-outs asked for
          MaxTime,    \* the clock stops there, and no timer is due later (bound)
          None        \* the null pointer, and a disarmed timerfd

ASSUME LocTimerAssumption ==
    /\ Starts \in Nat /\ MaxTime \in Nat
    /\ Delays \subseteq Nat
    /\ None \notin Clients /\ None \notin Nat

Delegates == 1 .. Starts

VARIABLES
    now,       \* CLOCK_BOOTTIME
    mTimer,    \* LocTimer::mTimer of each client
    alive,     \* the clients not deleted yet
    dels,      \* the delegates: mClient, mFutureTime, and where in life
    heap,      \* the delegates in the container's tree
    top,       \* peek()
    armed,     \* the time the timerfd is set to
    polled,    \* whether epoll watches it
    poller,    \* the poll thread: before epoll_wait or inside expire()
    queue,     \* the MsgTask's queue
    task,      \* the MsgTask thread and the locals of its handler
    withdrawn, \* history: delegates that a client's own stop() ended
    called     \* history: delegates whose end called the client back

vars == <<now, mTimer, alive, dels, heap, top, armed, polled, poller, queue,
          task, withdrawn, called>>

userVars == <<mTimer, alive>>
fdVars   == <<armed, polled>>
heapVars == <<heap, top>>
history  == <<withdrawn, called>>

Push(d)   == [kind |-> "push",   timer |-> d]
Remove(d) == [kind |-> "remove", timer |-> d]
Expire    == [kind |-> "expire", timer |-> None]

\* The MsgTask between two messages: pc is where it is, cur the popped timer,
\* client the copy of its mClient, hit the delegate that stop() ended, at the
\* clock read when the expire message was taken.
Idle == [pc |-> "idle", cur |-> None, client |-> None, hit |-> None, at |-> 0]

Init ==
    /\ now = 0
    /\ mTimer = [c \in Clients |-> None]
    /\ alive = Clients
    /\ dels = [d \in Delegates |-> [client |-> None, due |-> 0, life |-> "unborn"]]
    /\ heap = {} /\ top = None
    /\ armed = None /\ polled = FALSE
    /\ poller = "wait"
    /\ queue = <<>>
    /\ task = Idle
    /\ withdrawn = {} /\ called = {}

-----------------------------------------------------------------------------
(* The heap *)

OutRanks(d, e) == dels[d].due < dels[e].due

\* What peek() may return of a heap h: the tree decides between equals.
Tops(h) == IF h = {} THEN {None}
           ELSE {d \in h : \A e \in h : ~ OutRanks(e, d)}

PushTop(d) == IF top = None \/ OutRanks(d, top) THEN d ELSE top

\* Faulty variant: the null check of the prior top the wrong way round.
UpdateIfPrior(prior, cur) ==
    IF cur # prior /\ (cur = None \/ (prior # None /\ OutRanks(cur, prior)))
    THEN [Idle EXCEPT !.pc = "poll"]
    ELSE Idle

\* updateSoonestTime(prior) with the new top cur: either nothing changes or
\* the task goes on to set the poll and then the timerfd.
UpdateSoonestTime(prior, cur) ==
    IF cur # prior /\ (cur = None \/ prior = None \/ OutRanks(cur, prior))
    THEN [Idle EXCEPT !.pc = "poll"]
    ELSE Idle

-----------------------------------------------------------------------------
(* The clients *)

\* LocTimer::start, with the next delegate: refused while the timer runs.
Start(c, delay) ==
    LET fresh == {d \in Delegates : dels[d].life = "unborn"} IN
    /\ c \in alive
    /\ mTimer[c] = None
    /\ now + delay <= MaxTime
    /\ \E d \in fresh :
       /\ \A e \in fresh : d <= e
       /\ mTimer' = [mTimer EXCEPT ![c] = d]
       /\ dels' = [dels EXCEPT ![d] = [client |-> c, due |-> now + delay, life |-> "live"]]
       /\ queue' = Append(queue, Push(d))
    /\ UNCHANGED <<now, alive, heapVars, fdVars, poller, task, history>>

\* destroyLocked, under the client's lock.
DestroyLocked(c) ==
    /\ mTimer' = [mTimer EXCEPT ![c] = None]
    /\ dels' = [dels EXCEPT ![mTimer[c]].client = None]
    /\ queue' = Append(queue, Remove(mTimer[c]))

\* LocTimer::stop called by the client.
Stop(c) ==
    /\ c \in alive
    /\ mTimer[c] # None
    /\ DestroyLocked(c)
    /\ withdrawn' = withdrawn \cup {mTimer[c]}
    /\ UNCHANGED <<now, alive, heapVars, fdVars, poller, task, called>>

\* ~LocTimer: a stop() and then the object is gone.
Delete(c) ==
    /\ c \in alive
    /\ alive' = alive \ {c}
    /\ IF mTimer[c] = None
       THEN UNCHANGED <<mTimer, dels, queue, withdrawn>>
       ELSE DestroyLocked(c) /\ withdrawn' = withdrawn \cup {mTimer[c]}
    /\ UNCHANGED <<now, heapVars, fdVars, poller, task, called>>

-----------------------------------------------------------------------------
(* The MsgTask thread *)

Receives(m) == task.pc = "idle" /\ queue # <<>> /\ m = Head(queue) /\ queue' = Tail(queue)

\* MsgTimerPush
TimerPush ==
    /\ \E d \in Delegates :
       /\ Receives(Push(d))
       /\ heap' = heap \cup {d}
       /\ top' = PushTop(d)
       /\ task' = UpdateSoonestTime(top, PushTop(d))
    /\ UNCHANGED <<now, userVars, dels, fdVars, poller, history>>

\* MsgTimerRemove: the delegate may have left the heap already.
TimerRemove ==
    /\ \E d \in Delegates :
       /\ Receives(Remove(d))
       /\ heap' = heap \ {d}
       /\ top' \in IF top = d THEN Tops(heap') ELSE {top}
       /\ LET removed == IF d \in heap THEN d ELSE None IN
          task' = IF top = removed THEN UpdateSoonestTime(None, top') ELSE Idle
       /\ dels' = [dels EXCEPT ![d].life = "deleted"]
    /\ UNCHANGED <<now, userVars, fdVars, poller, history>>

\* LocHeap::pop
Pop == heap' = heap \ {top} /\ top' \in Tops(heap')

\* MsgTimerExpire: the first timer is popped whatever its time.
TimerExpire ==
    /\ Receives(Expire)
    /\ IF heap = {}
       THEN task' = UpdateSoonestTime(None, top) /\ UNCHANGED heapVars
       ELSE Pop /\ task' = [Idle EXCEPT !.pc = "read", !.cur = top, !.at = now]
    /\ UNCHANGED <<now, userVars, dels, fdVars, poller, history>>

\* LocTimerDelegate::expire copies mClient, without the lock.
ReadClient ==
    /\ task.pc = "read"
    /\ LET client == dels[task.cur].client IN
       task' = [task EXCEPT !.client = client,
                            !.pc = IF client = None THEN "next" ELSE "stop"]
    /\ UNCHANGED <<now, userVars, dels, heapVars, fdVars, poller, queue, history>>

\* Faulty variant: the result of stop() is not looked at.
StopAnyClient ==
    /\ task.pc = "stop"
    /\ IF mTimer[task.client] = None
       THEN task' = [task EXCEPT !.pc = "call", !.hit = task.cur] /\ UNCHANGED <<mTimer, dels, queue>>
       ELSE /\ DestroyLocked(task.client)
            /\ task' = [task EXCEPT !.pc = "call", !.hit = mTimer[task.client]]
    /\ UNCHANGED <<now, alive, heapVars, fdVars, poller, history>>

\* ... and stops that client.  A client deleted since the copy is undefined
\* behaviour: nothing is said of what the task does from there on.
StopClient ==
    /\ task.pc = "stop"
    /\ IF task.client \notin alive
       THEN task' = [task EXCEPT !.pc = "lost"] /\ UNCHANGED <<mTimer, dels, queue>>
       ELSE IF mTimer[task.client] = None
            THEN task' = [task EXCEPT !.pc = "next"] /\ UNCHANGED <<mTimer, dels, queue>>
            ELSE /\ DestroyLocked(task.client)
                 /\ task' = [task EXCEPT !.pc = "call", !.hit = mTimer[task.client]]
    /\ UNCHANGED <<now, alive, heapVars, fdVars, poller, history>>

\* ... and calls it back, only if stop() found it running.
TimeOutCallback ==
    /\ task.pc = "call"
    /\ IF task.client \in alive
       THEN called' = called \cup {task.hit} /\ task' = [task EXCEPT !.pc = "next"]
       ELSE task' = [task EXCEPT !.pc = "lost"] /\ UNCHANGED called
    /\ UNCHANGED <<now, userVars, dels, heapVars, fdVars, poller, queue, withdrawn>>

\* Faulty variant: the loop ends without setting the timerfd for the timers left.
NextExpiredOnly ==
    /\ task.pc = "next"
    /\ IF heap # {} /\ dels[top].due <= task.at
       THEN Pop /\ task' = [task EXCEPT !.pc = "read", !.cur = top, !.client = None, !.hit = None]
       ELSE task' = Idle /\ UNCHANGED heapVars
    /\ UNCHANGED <<now, userVars, dels, fdVars, poller, queue, history>>

\* popIfOutRanks(timerOfNow), the loop's next round or its end.
NextExpired ==
    /\ task.pc = "next"
    /\ IF heap # {} /\ dels[top].due <= task.at
       THEN Pop /\ task' = [task EXCEPT !.pc = "read", !.cur = top, !.client = None, !.hit = None]
       ELSE task' = UpdateSoonestTime(None, top) /\ UNCHANGED heapVars
    /\ UNCHANGED <<now, userVars, dels, fdVars, poller, queue, history>>

\* updateSoonestTime's two system calls: addPoll (or removePoll) ...
SetPoll ==
    /\ task.pc = "poll"
    /\ polled' = (top # None)
    /\ task' = [task EXCEPT !.pc = "arm"]
    /\ UNCHANGED <<now, userVars, dels, heapVars, armed, poller, queue, history>>

\* ... and timerfd_settime.
SetTime ==
    /\ task.pc = "arm"
    /\ armed' = IF top = None THEN None ELSE dels[top].due
    /\ task' = Idle
    /\ UNCHANGED <<now, userVars, dels, heapVars, polled, poller, queue, history>>

-----------------------------------------------------------------------------
(* The poll thread and the clock *)

\* The timerfd is never read: it stays readable until it is set again.
Readable == armed # None /\ armed <= now

\* epoll_wait returns: expire() runs in the poll thread.
PollWake ==
    /\ poller = "wait"
    /\ polled /\ Readable
    /\ poller' = "disarm"
    /\ UNCHANGED <<now, userVars, dels, heapVars, fdVars, queue, task, history>>

PollDisarm ==
    /\ poller = "disarm"
    /\ armed' = None
    /\ poller' = "remove"
    /\ UNCHANGED <<now, userVars, dels, heapVars, polled, queue, task, history>>

PollRemove ==
    /\ poller = "remove"
    /\ polled' = FALSE
    /\ poller' = "send"
    /\ UNCHANGED <<now, userVars, dels, heapVars, armed, queue, task, history>>

PollSend ==
    /\ poller = "send"
    /\ queue' = Append(queue, Expire)
    /\ poller' = "wait"
    /\ UNCHANGED <<now, userVars, dels, heapVars, fdVars, task, history>>

Tick ==
    /\ now < MaxTime
    /\ now' = now + 1
    /\ UNCHANGED <<userVars, dels, heapVars, fdVars, poller, queue, task, history>>

-----------------------------------------------------------------------------
Task == \/ TimerPush \/ TimerRemove \/ TimerExpire
        \/ ReadClient \/ StopClient \/ TimeOutCallback \/ NextExpired
        \/ SetPoll \/ SetTime
Poller == PollWake \/ PollDisarm \/ PollRemove \/ PollSend

Next == \/ \E c \in Clients : \/ \E delay \in Delays : Start(c, delay)
                              \/ Stop(c)
                              \/ Delete(c)
        \/ Task
        \/ Poller
        \/ Tick

Spec == Init /\ [][Next]_vars

\* Both threads are always scheduled and the clock runs; clients need not act.
Fairness == WF_vars(Task) /\ WF_vars(Poller) /\ WF_vars(Tick)
FairSpec == Spec /\ Fairness

-----------------------------------------------------------------------------
(* Properties *)

Queued(m) == \E i \in 1 .. Len(queue) : queue[i] = m

\* A timer in the heap has a wake-up coming: the timerfd is watched and set no
\* later than the soonest timer, or an expire message that will set it is queued
\* or about to be sent, or the task is on its way to set it.
WakeUpPending ==
    heap # {} =>
       \/ polled /\ armed # None /\ armed <= dels[top].due
       \/ poller # "wait"
       \/ Queued(Expire)
       \/ task.pc # "idle"

\* A timer its client believes to be running is in the heap, or its push is
\* queued, or the task is just expiring it.
RunningIsTracked ==
    \A c \in Clients : mTimer[c] # None =>
       \/ mTimer[c] \in heap
       \/ Queued(Push(mTimer[c]))
       \/ task.pc \in {"read", "stop"} /\ task.cur = mTimer[c]
       \/ task.pc = "lost"

\* "all timers are deleted here, and only here": a delegate that is in the
\* heap, in a message, held by its client or by the expire loop has not been
\* deleted, and at most one remove message will delete it.
NoDanglingDelegate ==
    LET held == heap \cup {mTimer[c] : c \in Clients}
                     \cup {queue[i].timer : i \in 1 .. Len(queue)}
                     \cup (IF task.pc = "read" THEN {task.cur} ELSE {})
    IN /\ \A d \in held \ {None} : dels[d].life = "live"
       /\ \A i, j \in 1 .. Len(queue) :
             queue[i] = queue[j] /\ queue[i] # Expire => i = j

\* A running timer is kept until it ends, however the two threads interleave as
\* they program the timerfd and the epoll set: it is not lost between the
\* queue, the heap and the loop of MsgTimerExpire, its wake-up is not undone,
\* and nobody deletes it under the others.
TimerIsKept == RunningIsTracked /\ WakeUpPending /\ NoDanglingDelegate

\* A timer that its client stopped in time never calls back.
StoppedIsSilent == withdrawn \cap called = {}

\* Every started timer ends: it calls back or its client stops it (or deletes
\* the client under the expire loop, and then nothing is promised).
TimerEnds ==
    \A d \in Delegates :
       dels[d].life = "live" ~> (d \in withdrawn \cup called \/ task.pc = "lost")
=============================================================================
