---------------------------- MODULE LocApiAdapters ----------------------------
(***************************************************************************)
(* LocApiBase and its adapters (gps/core): an array of adapters that their *)
(* owners' threads fill and compact, the thread of the modem's upcalls     *)
(* walks to deliver them, and the MsgTask reads to reopen the modem after  *)
(* a restart, all without a lock. An adapter's owner is one thread; it      *)
(* builds the adapter, changes its event mask and deletes it.              *)
(***************************************************************************)
EXTENDS Naturals, Sequences, FiniteSets

CONSTANTS
    Adapters, NULL,
    Events,          \* bits of LOC_API_ADAPTER_EVENT_MASK_T
    MAX_ADAPTERS,
    MaxLoad          \* bound on mask updates, upcalls and restarts together

ASSUME AdaptersAssumption ==
    /\ NULL \notin Adapters
    /\ MAX_ADAPTERS \in Nat \ {0}
    /\ MaxLoad   \in Nat

Slots == 1 .. MAX_ADAPTERS

VARIABLES
    mLocAdapters,
    mEvtMask,     \* of each adapter
    pc, tmp,      \* per owner: its place in addAdapter etc., its locals
    msgq, mt,     \* the message queue; the MsgTask inside LocSsrMsg or not
    handle,       \* the modem handle: closed, open or stale, and its events
    modem,        \* down, or up with its engine-up event outstanding or not
    loop,         \* the upcall being delivered
    load,
    registered,   \* history: adapters in the array, as their owners see it
    crossed       \* history: two owners were changing the array at once

array == <<mLocAdapters, mEvtMask, pc, tmp, registered, crossed>>
task == <<msgq, mt, handle>>
vars == <<array, task, modem, loop, load>>

Places == {"unborn", "store", "announce", "post", "idle", "renew", "fill", "trim", "leave", "gone"}
Idle == [at |-> "idle", kind |-> "all", i |-> 1, told |-> <<>>, taken |-> 0,
         wild |-> FALSE, present |-> {}, disturbed |-> FALSE]

NoLocals == [i |-> 0, mask |-> {}, next |-> "idle"]

Init ==
    /\ mLocAdapters = [i \in Slots |-> NULL]
    /\ mEvtMask \in [Adapters -> SUBSET Events]
    /\ pc = [a \in Adapters |-> "unborn"]
    /\ tmp = [a \in Adapters |-> NoLocals]
    /\ msgq = <<>> /\ mt = "idle"
    /\ handle = [st |-> "closed", mask |-> {}]
    /\ modem = "up" /\ loop = Idle
    /\ load = 0
    /\ registered = {} /\ crossed = FALSE

-----------------------------------------------------------------------------
\* Every walk over the array ends at the first NULL.
Holes == {i \in Slots : mLocAdapters[i] = NULL}
FirstHole == CHOOSE i \in 1 .. MAX_ADAPTERS + 1 :
                /\ i \in Holes \cup {MAX_ADAPTERS + 1}
                /\ \A j \in Holes : i <= j
Reached == {mLocAdapters[i] : i \in 1 .. FirstHole - 1}
PlaceOf(a) == CHOOSE i \in 1 .. FirstHole - 1 : mLocAdapters[i] = a

\* mExcludedMask is applied by the modem's open, with every mask it is given.
getEvtMask == UNION {mEvtMask[a] : a \in Reached}

\* open() adds its mask to mMask of an open handle, close() clears it. A stale
\* handle takes nothing before it is closed.
Open(h, mask) ==
    IF h.st = "stale" \/ (h.st = "closed" /\ modem = "down") THEN h
    ELSE [st |-> "open", mask |-> h.mask \cup mask]
Closed == [st |-> "closed", mask |-> {}]

Message(kind, mask) == [kind |-> kind, mask |-> mask]

\* An owner is between two accesses that belong together. That includes the
\* close() of the last one: an adapter added before it would be closed with it.
Changing(a) == pc[a] \in {"store", "fill", "trim"} \/ (pc[a] = "leave" /\ tmp[a].i = 1)
Cross(a) == crossed' = (crossed \/ \E b \in Adapters \ {a} : Changing(b))
Disturb == loop' = [loop EXCEPT !.disturbed = @ \/ loop.at # "idle"]

Goto(a, place) == pc' = [pc EXCEPT ![a] = place]

(***************************************************************************)
(* addAdapter, called by the constructor of LocAdapterBase. An adapter for *)
(* which there is no slot is not registered, and nobody is told.           *)
(***************************************************************************)
AddFind(a) ==
    /\ pc[a] = "unborn"
    /\ IF FirstHole \in Slots
       THEN tmp' = [tmp EXCEPT ![a].i = FirstHole] /\ Goto(a, "store")
       ELSE Goto(a, "idle") /\ UNCHANGED tmp
    /\ Cross(a)
    /\ UNCHANGED <<mLocAdapters, mEvtMask, registered, task, modem, loop, load>>

AddStore(a) ==
    /\ pc[a] = "store"
    /\ mLocAdapters' = [mLocAdapters EXCEPT ![tmp[a].i] = a]
    /\ registered' = registered \cup {a}
    /\ Goto(a, "announce") /\ tmp' = [tmp EXCEPT ![a] = NoLocals]
    /\ UNCHANGED <<mEvtMask, crossed, task, modem, loop, load>>

AddAnnounce(a) ==
    /\ pc[a] = "announce"
    /\ msgq' = Append(msgq, Message("LocOpenMsg", mEvtMask[a]))
    /\ Goto(a, "idle")
    /\ UNCHANGED <<mLocAdapters, mEvtMask, tmp, registered, crossed, mt, handle, modem, loop, load>>

\* updateEvtMask of the adapter, then of the LocApi: the mask, then the message.
UpdateMask(a, event) ==
    /\ pc[a] = "idle" /\ load < MaxLoad
    /\ \/ mEvtMask' = [mEvtMask EXCEPT ![a] = @ \cup {event}]
       \/ mEvtMask' = [mEvtMask EXCEPT ![a] = @ \ {event}]
    /\ load' = load + 1
    /\ Goto(a, "renew")
    /\ UNCHANGED <<mLocAdapters, tmp, registered, crossed, task, modem, loop>>

Renew(a) ==
    /\ pc[a] = "renew"
    /\ tmp' = [tmp EXCEPT ![a].mask = getEvtMask, ![a].next = "idle"]
    /\ Goto(a, "post")
    /\ UNCHANGED <<mLocAdapters, mEvtMask, registered, crossed, task, modem, loop, load>>

Post(a) ==
    /\ pc[a] = "post"
    /\ msgq' = Append(msgq, Message("LocOpenMsg", tmp[a].mask))
    /\ Goto(a, tmp[a].next) /\ tmp' = [tmp EXCEPT ![a] = NoLocals]
    /\ UNCHANGED <<mLocAdapters, mEvtMask, registered, crossed, mt, handle, modem, loop, load>>

(***************************************************************************)
(* removeAdapter, called by the destructor: the last adapter moves into    *)
(* the hole. The owner of the last one of all closes the handle itself.    *)
(***************************************************************************)
RemoveClear(a) ==
    /\ pc[a] = "idle"
    /\ IF a \in Reached
       THEN /\ mLocAdapters' = [mLocAdapters EXCEPT ![PlaceOf(a)] = NULL]
            /\ tmp' = [tmp EXCEPT ![a].i = PlaceOf(a)]
            /\ Goto(a, "fill") /\ Disturb
       ELSE Goto(a, "gone") /\ UNCHANGED <<mLocAdapters, tmp, loop>>
    /\ registered' = registered \ {a}
    /\ Cross(a)
    /\ UNCHANGED <<mEvtMask, task, modem, load>>

\* The scan for the last adapter starts behind the hole.
LastFrom(j) == CHOOSE i \in j .. MAX_ADAPTERS :
                  /\ \A k \in j + 1 .. i : mLocAdapters[k] # NULL
                  /\ i + 1 \in Slots => mLocAdapters[i + 1] = NULL

\* Faulty variant: the hole is left where it is.
FillNothing(a) ==
    /\ pc[a] = "fill"
    /\ tmp' = [tmp EXCEPT ![a].i = LastFrom(@)]
    /\ Goto(a, "leave") /\ Disturb
    /\ UNCHANGED <<mLocAdapters, mEvtMask, registered, crossed, task, modem, load>>

RemoveFill(a) ==
    /\ pc[a] = "fill"
    /\ LET j == tmp[a].i IN
       /\ mLocAdapters' = [mLocAdapters EXCEPT ![j] = mLocAdapters[LastFrom(j)]]
       /\ tmp' = [tmp EXCEPT ![a].i = LastFrom(j)]
    /\ Goto(a, "trim") /\ Disturb
    /\ UNCHANGED <<mEvtMask, registered, crossed, task, modem, load>>

RemoveTrim(a) ==
    /\ pc[a] = "trim"
    /\ mLocAdapters' = [mLocAdapters EXCEPT ![tmp[a].i] = NULL]
    /\ Goto(a, "leave") /\ Disturb
    /\ UNCHANGED <<mEvtMask, tmp, registered, crossed, task, modem, load>>

\* Faulty variant: nothing is posted when the array has been compacted.
LeaveSilently(a) ==
    /\ pc[a] = "leave"
    /\ Goto(a, "gone")
    /\ handle' = IF tmp[a].i = 1 THEN Closed ELSE handle
    /\ UNCHANGED <<tmp, mLocAdapters, mEvtMask, registered, crossed, msgq, mt, modem, loop, load>>

RemoveLeave(a) ==
    /\ pc[a] = "leave"
    /\ IF tmp[a].i = 1
       THEN handle' = Closed /\ Goto(a, "gone") /\ tmp' = [tmp EXCEPT ![a] = NoLocals]
       ELSE /\ tmp' = [tmp EXCEPT ![a] = [i |-> 0, mask |-> getEvtMask, next |-> "gone"]]
            /\ Goto(a, "post") /\ UNCHANGED handle
    /\ UNCHANGED <<mLocAdapters, mEvtMask, registered, crossed, msgq, mt, modem, loop, load>>

-----------------------------------------------------------------------------
\* The MsgTask. LocSsrMsg closes, then reads the array and opens.
LocOpenMsg ==
    /\ mt = "idle" /\ msgq # <<>> /\ Head(msgq).kind = "LocOpenMsg"
    /\ handle' = Open(handle, Head(msgq).mask)
    /\ msgq' = Tail(msgq)
    /\ UNCHANGED <<array, mt, modem, loop, load>>

LocSsrMsg ==
    /\ mt = "idle" /\ msgq # <<>> /\ Head(msgq).kind = "LocSsrMsg"
    /\ handle' = Closed
    /\ msgq' = Tail(msgq) /\ mt' = "reopen"
    /\ UNCHANGED <<array, modem, loop, load>>

Reopen ==
    /\ mt = "reopen"
    /\ handle' = Open(handle, getEvtMask)
    /\ mt' = "idle"
    /\ UNCHANGED <<array, msgq, modem, loop, load>>

-----------------------------------------------------------------------------
(***************************************************************************)
(* Upcalls: TO_ALL_LOCADAPTERS ("all": positions, statuses, engine down    *)
(* and up) and TO_1ST_HANDLING_LOCADAPTERS ("first": requests of the       *)
(* modem). The loop reads a slot twice, to compare it and to call it.      *)
(***************************************************************************)
Start(kind) ==
    loop' = [Idle EXCEPT !.at = "check", !.kind = kind, !.present = registered,
                         !.disturbed = \E a \in Adapters : pc[a] \in {"fill", "trim"}]

Deliver(kind) ==
    /\ loop.at = "idle" /\ load < MaxLoad
    /\ Start(kind)
    /\ load' = load + 1
    /\ UNCHANGED <<array, task, modem>>

DeliverToAll == Deliver("all")
DeliverToFirst == Deliver("first")

LoopCheck ==
    /\ loop.at = "check"
    /\ loop' = [loop EXCEPT !.at =
                   IF loop.i \in Slots /\ mLocAdapters[loop.i] # NULL
                      /\ ~(loop.kind = "first" /\ loop.taken > 0)
                   THEN "call" ELSE "end"]
    /\ UNCHANGED <<array, task, modem, load>>

LoopCall(takes) ==
    /\ loop.at = "call"
    /\ LET a == mLocAdapters[loop.i] IN
       loop' = IF a = NULL THEN [loop EXCEPT !.at = "end", !.wild = TRUE]
               ELSE [loop EXCEPT !.at = "check", !.i = @ + 1,
                        !.told = Append(@, a),
                        !.taken = @ + IF takes THEN 1 ELSE 0,
                        !.wild = @ \/ pc[a] = "gone"]
    /\ UNCHANGED <<array, task, modem, load>>

\* A LocEngAdapter that supports the modem's requests posts them and says so;
\* one that does not, and any other adapter by default, leaves them to the next.
LoopTakes == loop.kind = "first" /\ LoopCall(TRUE)
LoopPasses == LoopCall(FALSE)

LoopEnd ==
    /\ loop.at = "end"
    /\ loop' = Idle
    /\ UNCHANGED <<array, task, modem, load>>

-----------------------------------------------------------------------------
\* The modem goes down and comes up again, and the upcall tells so.
Crash ==
    /\ modem = "up" /\ load < MaxLoad
    /\ modem' = "down"
    /\ handle' = IF handle.st = "open" THEN [handle EXCEPT !.st = "stale"] ELSE handle
    /\ load' = load + 1
    /\ UNCHANGED <<array, msgq, mt, loop>>

ComesUp ==
    /\ modem = "down"
    /\ modem' = "back"
    /\ UNCHANGED <<array, task, loop, load>>

\* handleEngineUpEvent: the handle is renewed before the adapters are told.
EngineUp ==
    /\ modem = "back" /\ loop.at = "idle"
    /\ modem' = "up"
    /\ msgq' = Append(msgq, Message("LocSsrMsg", {}))
    /\ Start("all")
    /\ UNCHANGED <<array, mt, handle, load>>

Owner(a) ==
    \/ AddFind(a) \/ AddStore(a) \/ AddAnnounce(a)
    \/ \E event \in Events : UpdateMask(a, event)
    \/ Renew(a) \/ Post(a)
    \/ RemoveClear(a) \/ RemoveFill(a) \/ RemoveTrim(a) \/ RemoveLeave(a)

Upcalls ==
    \/ DeliverToAll \/ DeliverToFirst
    \/ LoopCheck \/ LoopEnd
    \/ LoopTakes \/ LoopPasses
    \/ EngineUp

Next ==
    \/ \E a \in Adapters : Owner(a)
    \/ LocOpenMsg \/ LocSsrMsg \/ Reopen
    \/ Upcalls
    \/ Crash \/ ComesUp

Spec == Init /\ [][Next]_vars
-----------------------------------------------------------------------------
AtRest ==
    /\ msgq = <<>> /\ mt = "idle" /\ modem = "up"
    /\ \A a \in Adapters : pc[a] \in {"unborn", "idle", "gone"}

(***************************************************************************)
(* Once the queue is drained the modem reports every event that some       *)
(* registered adapter asks for, in whatever order adapters came, went and  *)
(* changed their masks, and although LocSsrMsg may read the array while it *)
(* has a hole. What makes it true is that every owner posts after it has   *)
(* finished with the array (addAdapter, removeAdapter, updateEvtMask).     *)
(***************************************************************************)
Subscribed ==
    AtRest /\ ~crossed /\ registered # {} =>
        /\ handle.st = "open"
        /\ \A a \in registered : mEvtMask[a] \subseteq handle.mask

(***************************************************************************)
(* An upcall during which nobody is removed reaches every adapter that was *)
(* registered when it began, once each, and calls none that is gone, also  *)
(* while others are added; a request of the modem is taken at most once,   *)
(* and passed over only if all have refused it (TO_ALL_ADAPTERS,           *)
(* TO_1ST_HANDLING_ADAPTER, and the compaction in removeAdapter).          *)
(***************************************************************************)
EachToldOnce ==
    loop.at = "end" /\ ~loop.disturbed /\ ~crossed =>
        /\ ~loop.wild
        /\ \A m, n \in DOMAIN loop.told : m # n => loop.told[m] # loop.told[n]
        /\ loop.kind = "first" => loop.taken <= 1
        /\ (loop.kind = "all" \/ loop.taken = 0) =>
               loop.present \subseteq {loop.told[n] : n \in DOMAIN loop.told}

=============================================================================
