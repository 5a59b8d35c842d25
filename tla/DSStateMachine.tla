---------------------------- MODULE DSStateMachine ----------------------------
(***************************************************************************)
(* The emergency data connection of the location HAL: DSStateMachine of    *)
(* loc_eng_agps.cpp with its DSSubscribers. It is an AgpsStateMachine that  *)
(* asks the data services client (DSI) instead of the framework. What      *)
(* differs from the broker in Agps:                                        *)
(*   - the request to start a data call may fail at once; it is repeated   *)
(*     after a delay from the thread of the timers, and after too many     *)
(*     failures the client is passed on to the ordinary SUPL NIF, but      *)
(*     other errors are only logged;                                       *)
(*   - a subscriber that leaves waits, inactive, for the call to close     *)
(*     (state Releasing), and may ask again before that;                   *)
(*   - the list of subscribers is a sequence, as the newest goes to its    *)
(*     head and requests are made on behalf of its first active member.    *)
(* The SUPL NIF (Agps) is seen here only by what it promises: whoever is   *)
(* on its list is answered.                                                *)
(***************************************************************************)
EXTENDS Naturals, Sequences

CONSTANTS
    Handles,      \* connection handles of the modem (DSSubscriber IDs)
    NoHandle,
    MaxRetries,   \* MAX_START_DATA_CALL_RETRIES
    MaxRequests,  \* bound on the requests of the modem
    MaxRestarts   \* bound on modem restarts

ASSUME DSAssumption ==
    /\ NoHandle \notin Handles
    /\ MaxRetries \in Nat /\ MaxRequests \in Nat /\ MaxRestarts \in Nat

VARIABLES
    st,        \* mStatePtr
    list,      \* mSubscribers: [id, inactive], from its head
    retries,   \* mRetries
    timers,    \* retry timers that are running
    found,     \* the subscriber retryCallback has found, in the timers' thread
    msgq,      \* the adapter's message queue
    call,      \* the data call of the DSI
    supl,      \* the handles on the list of the SUPL NIF
    cs,        \* what the modem believes of each handle
    requests, restarts,
    seen       \* history: circumstances the properties name

vars == <<st, list, retries, timers, found, msgq, call, supl, cs, requests, restarts, seen>>
machine == <<st, list, retries, timers, call>>
modem == <<requests, restarts>>

Kinds == {"RequestSuplEs", "RequestATL", "ReleaseATL", "Opened", "Closed", "EngineUp"}
Message(kind, id) == [kind |-> kind, id |-> id]

(***************************************************************************)
(* left      - a subscriber left while its start was being retried: in     *)
(*             Released nobody is taken off the list                       *)
(* twin      - addSubscriber met the inactive subscriber of the same       *)
(*             handle: the newcomer is not added                           *)
(* unstarted - the start that follows a close failed; its result is not    *)
(*             looked at and the state is Pending all the same             *)
(* dropped   - the start of a call failed with an error that is neither     *)
(*             retried nor passed on: its client is on the list for good   *)
(* ghost     - the SUPL NIF was asked for a handle that had been released, *)
(*             by the fall-back of a request that its client gave up       *)
(* crowd     - a client asked while another was on the list in Released:   *)
(*             being retried, or left there by its fall-back or release    *)
(* restart   - the modem restarted: the list of this machine is kept       *)
(***************************************************************************)
Circumstances == {"left", "twin", "unstarted", "dropped", "ghost", "crowd", "restart"}

Init ==
    /\ st = "Released" /\ list = <<>> /\ retries = 0
    /\ timers = 0 /\ found = NoHandle
    /\ msgq = <<>> /\ call = "closed" /\ supl = {}
    /\ cs = [c \in Handles |-> "idle"]
    /\ requests = 0 /\ restarts = 0 /\ seen = {}

-----------------------------------------------------------------------------
IsActive(s) == ~s.inactive
HasSubscriber(L, c) == \E i \in DOMAIN L : L[i].id = c
HasActive(L) == \E i \in DOMAIN L : IsActive(L[i])
FirstActive(L) ==
    IF HasActive(L)
    THEN L[CHOOSE i \in DOMAIN L : IsActive(L[i]) /\ \A j \in 1 .. (i - 1) : ~IsActive(L[j])].id
    ELSE NoHandle
ActiveIds(L) == {L[i].id : i \in {j \in DOMAIN L : IsActive(L[j])}}
\* at gives the positions of the active members of L, in their order.
ListsActive(at, L) ==
    /\ {at[i] : i \in DOMAIN at} = {j \in DOMAIN L : IsActive(L[j])}
    /\ \A i, j \in DOMAIN at : i < j => at[i] < at[j]

\* addSubscriber: a subscriber of the same handle, active or not, is enough;
\* linked_list_add puts a new one at the head.
Add(L, c) == IF HasSubscriber(L, c) THEN L ELSE <<[id |-> c, inactive |-> FALSE]>> \o L
Twin(L, c) == \E i \in DOMAIN L : L[i].id = c /\ L[i].inactive

SetInactive(L, c) == [i \in DOMAIN L |-> IF L[i].id = c THEN [L[i] EXCEPT !.inactive = TRUE] ELSE L[i]]

Note(S) == seen' = seen \cup S
When(condition, circumstance) == IF condition THEN {circumstance} ELSE {}

\* atlOpenStatus and atlCloseStatus, as the modem takes them.
Opened(S) == cs' = [c \in Handles |-> IF c \in S /\ cs[c] = "asked" THEN "up" ELSE cs[c]]
ClosedFor(c) == cs' = [cs EXCEPT ![c] = "idle"]

-----------------------------------------------------------------------------
(***************************************************************************)
(* DSStateMachine::sendRsrcRequest(REQUEST) on behalf of the first active  *)
(* subscriber of L: the DSI answers at once with r. Busy is retried by a   *)
(* timer; the last retry and the other failures inform of RSRC_DENIED,     *)
(* which clears mRetries and asks the SUPL NIF, by a message, for the same *)
(* handle. Any OTHER error (a general failure, a timeout...) is logged,    *)
(* and nothing is done. q is the queue as the handler leaves it otherwise. *)
(***************************************************************************)
Results == {"SUCCESS", "ENGINE_BUSY", "UNSUPPORTED", "FAILED", "OTHER"}

GivesUp(r) == r \in {"UNSUPPORTED", "FAILED"} \/ (r = "ENGINE_BUSY" /\ retries = MaxRetries)

\* Faulty variant: the last failure is not passed on.
StartSilently(L, q, r) ==
    /\ r = "SUCCESS" => call = "closed"
    /\ call' = IF r = "SUCCESS" THEN "opening" ELSE call
    /\ msgq' = q
    /\ IF r = "ENGINE_BUSY" /\ ~GivesUp(r)
       THEN retries' = retries + 1 /\ timers' = timers + 1
       ELSE retries' = (IF GivesUp(r) THEN 0 ELSE retries) /\ UNCHANGED timers

\* Faulty variant: the timer runs while the call is being opened as well.
StartTimed(L, q, r) ==
    /\ r = "SUCCESS" => call = "closed"
    /\ call' = IF r = "SUCCESS" THEN "opening" ELSE call
    /\ msgq' = IF GivesUp(r) THEN Append(q, Message("RequestATL", FirstActive(L))) ELSE q
    /\ timers' = IF GivesUp(r) THEN timers ELSE timers + 1
    /\ retries' = IF GivesUp(r) THEN 0 ELSE IF r = "ENGINE_BUSY" THEN retries + 1 ELSE retries

Start(L, q, r) ==
    /\ r = "SUCCESS" => call = "closed"
    /\ call' = IF r = "SUCCESS" THEN "opening" ELSE call
    /\ msgq' = IF GivesUp(r) THEN Append(q, Message("RequestATL", FirstActive(L))) ELSE q
    /\ IF r = "ENGINE_BUSY" /\ ~GivesUp(r)
       THEN retries' = retries + 1 /\ timers' = timers + 1
       ELSE retries' = (IF GivesUp(r) THEN 0 ELSE retries) /\ UNCHANGED timers

\* sendRsrcRequest(RELEASE): stopDataCall. A call that has ended by itself has
\* its news in the queue.
StopDataCall == call' = IF call \in {"opening", "open"} THEN "stopping" ELSE call

-----------------------------------------------------------------------------
(***************************************************************************)
(* The message handlers, run by the MsgTask in queue order.                *)
(***************************************************************************)
Receive(kind) == msgq # <<>> /\ Head(msgq).kind = kind
Id == Head(msgq).id

\* Released (Subscribe): the subscriber goes on the list before the start,
\* and stays there when it fails, for the retry to find it.
SubscribeReleased ==
    /\ st = "Released"
    /\ list' = Add(list, Id)
    /\ \E r \in Results :
        /\ Start(list', Tail(msgq), r)
        /\ st' = IF r = "SUCCESS" THEN "Pending" ELSE "Released"
        /\ Note(When(list \notin {<<>>, list'}, "crowd") \cup When(r = "OTHER", "dropped"))
    /\ UNCHANGED cs

\* Pending and Releasing only add; Acquired grants at once.
SubscribeOther ==
    /\ st # "Released"
    /\ list' = Add(list, Id)
    /\ msgq' = Tail(msgq)
    /\ IF st = "Acquired" THEN Opened({Id}) ELSE UNCHANGED cs
    /\ Note(When(Twin(list, Id), "twin"))
    /\ UNCHANGED <<st, retries, timers, call>>

\* LocEngRequestSuplEs::proc, subscribeRsrc.
RequestSuplEs ==
    /\ Receive("RequestSuplEs")
    /\ SubscribeReleased \/ SubscribeOther
    /\ UNCHANGED <<found, supl, modem>>

\* Faulty variant: the call is kept although nobody active is left.
LeaveKeeping(c) ==
    /\ ClosedFor(c)
    /\ IF st = "Released" THEN Note({"left"}) /\ UNCHANGED <<st, list, call>>
       ELSE list' = SetInactive(list, c) /\ UNCHANGED <<st, call, seen>>

\* unsubscribeRsrc of a subscriber on the list. In Released it is told and
\* stays; otherwise it becomes inactive, and the last active one stops the call.
Leave(c) ==
    /\ ClosedFor(c)
    /\ IF st = "Released"
       THEN Note({"left"}) /\ UNCHANGED <<st, list, call>>
       ELSE /\ list' = SetInactive(list, c)
            /\ IF st = "Releasing" \/ HasActive(list')
               THEN UNCHANGED <<st, call>>
               ELSE st' = "Releasing" /\ StopDataCall
            /\ UNCHANGED seen

\* LocEngReleaseATL::proc: the SUPL NIF is asked first, then this one.
ReleaseATL ==
    /\ Receive("ReleaseATL")
    /\ msgq' = Tail(msgq)
    /\ IF Id \in supl
       THEN supl' = supl \ {Id} /\ ClosedFor(Id) /\ UNCHANGED <<st, list, call, seen>>
       ELSE /\ UNCHANGED supl
            /\ IF HasSubscriber(list, Id)
               THEN Leave(Id)
               ELSE ClosedFor(Id) /\ UNCHANGED <<st, list, call, seen>>
    /\ UNCHANGED <<retries, timers, found, modem>>

\* LocEngRequestATL::proc for AGPS_TYPE_SUPL: the SUPL NIF takes the handle.
RequestATL ==
    /\ Receive("RequestATL")
    /\ msgq' = Tail(msgq)
    /\ supl' = supl \cup {Id}
    /\ Note(When(cs[Id] # "asked", "ghost"))
    /\ UNCHANGED <<machine, found, cs, modem>>

\* LocEngSuplEsOpened::proc: only Pending takes it, for the active ones.
SuplEsOpened ==
    /\ Receive("Opened")
    /\ msgq' = Tail(msgq)
    /\ IF st = "Pending"
       THEN st' = "Acquired" /\ Opened(ActiveIds(list))
       ELSE UNCHANGED <<st, cs>>
    /\ UNCHANGED <<list, retries, timers, call, found, supl, modem, seen>>

\* Pending: RELEASED is taken for DENIED. Everybody is passed on to the SUPL
\* NIF, the inactive ones as well, and taken off the list.
ClosedPending ==
    /\ st = "Pending"
    /\ st' = "Released" /\ list' = <<>> /\ retries' = 0
    /\ msgq' = Tail(msgq) \o [i \in DOMAIN list |-> Message("RequestATL", list[i].id)]
    /\ Note(When(\E i \in DOMAIN list : list[i].inactive, "ghost"))
    /\ UNCHANGED <<timers, call>>

\* Acquired: the call is lost. closeDataCall; the modem is not told.
ClosedAcquired ==
    /\ st = "Acquired"
    /\ st' = "Released" /\ list' = <<>>
    /\ msgq' = Tail(msgq)
    /\ UNCHANGED <<retries, timers, call, seen>>

\* Releasing: the inactive go; for the active a new call is started, and the
\* state is Pending whatever came of it.
ClosedReleasing ==
    /\ st = "Releasing"
    /\ \E n \in 0 .. Len(list) : \E at \in [1 .. n -> DOMAIN list] :
          ListsActive(at, list) /\ list' = [i \in 1 .. n |-> list[at[i]]]
    /\ IF list' = <<>>
       THEN /\ st' = "Released" /\ msgq' = Tail(msgq)
            /\ UNCHANGED <<retries, timers, call, seen>>
       ELSE /\ st' = "Pending"
            /\ \E r \in Results :
                Start(list', Tail(msgq), r) /\ Note(When(r # "SUCCESS", "unstarted"))

ClosedReleased ==
    st = "Released" /\ msgq' = Tail(msgq) /\ UNCHANGED <<machine, seen>>

\* LocEngSuplEsClosed::proc, DSStateMachine::onRsrcEvent(RSRC_RELEASED).
SuplEsClosed ==
    /\ Receive("Closed")
    /\ ClosedPending \/ ClosedAcquired \/ ClosedReleasing \/ ClosedReleased
    /\ UNCHANGED <<found, supl, cs, modem>>

\* loc_eng_handle_engine_up drops the subscribers of the other NIFs only.
EngineUp ==
    /\ Receive("EngineUp")
    /\ msgq' = Tail(msgq)
    /\ supl' = {}
    /\ UNCHANGED <<machine, found, cs, modem, seen>>

MsgTask ==
    RequestSuplEs \/ ReleaseATL \/ RequestATL \/ SuplEsOpened \/ SuplEsClosed \/ EngineUp

-----------------------------------------------------------------------------
(***************************************************************************)
(* The timers' thread: delay_callback, retryCallback. It walks the list    *)
(* without the MsgTask knowing, and reads the subscriber it has found      *)
(* afterwards: the model keeps the ID, as if the subscriber's memory were  *)
(* intact even after a deletion (RetryReadsLive says when it is).          *)
(***************************************************************************)
RetryFinds ==
    /\ timers > 0 /\ found = NoHandle
    /\ timers' = timers - 1
    /\ found' = FirstActive(list)
    /\ UNCHANGED <<st, list, retries, msgq, call, supl, cs, modem, seen>>

\* mLocAdapter->requestSuplES(subscriber->ID)
RetryPosts ==
    /\ found # NoHandle
    /\ found' = NoHandle
    /\ msgq' = Append(msgq, Message("RequestSuplEs", found))
    /\ UNCHANGED <<machine, supl, cs, modem, seen>>

Timers == RetryFinds \/ RetryPosts

-----------------------------------------------------------------------------
(***************************************************************************)
(* Data services, the SUPL NIF and the modem (external).                   *)
(***************************************************************************)
DsiMoves(from, to, kind) ==
    /\ call = from
    /\ call' = to
    /\ msgq' = Append(msgq, Message(kind, NoHandle))
    /\ UNCHANGED <<st, list, retries, timers, found, supl, cs, modem, seen>>

\* reportDataCallOpened
DsiOpens == DsiMoves("opening", "open", "Opened")
\* reportDataCallClosed: the call fails, is stopped, or is lost.
DsiFails == DsiMoves("opening", "closed", "Closed")
DsiStops == DsiMoves("stopping", "closed", "Closed")
DsiLoses == DsiMoves("open", "closed", "Closed")

\* The SUPL NIF grants or denies; a denied handle is off its list.
SuplAnswers ==
    /\ \E c \in supl :
        /\ cs[c] = "asked"
        /\ \/ cs' = [cs EXCEPT ![c] = "up"] /\ UNCHANGED supl
           \/ cs' = [cs EXCEPT ![c] = "idle"] /\ supl' = supl \ {c}
    /\ UNCHANGED <<machine, found, msgq, modem, seen>>

\* A handle is not used again while a message about it is queued.
ModemAsks(c) ==
    /\ cs[c] = "idle" /\ requests < MaxRequests
    /\ \A i \in DOMAIN msgq : msgq[i].id # c
    /\ cs' = [cs EXCEPT ![c] = "asked"]
    /\ requests' = requests + 1
    /\ msgq' = Append(msgq, Message("RequestSuplEs", c))
    /\ UNCHANGED <<machine, found, supl, restarts, seen>>

ModemLeaves(c) ==
    /\ cs[c] \in {"asked", "up"}
    /\ cs' = [cs EXCEPT ![c] = "leaving"]
    /\ msgq' = Append(msgq, Message("ReleaseATL", c))
    /\ UNCHANGED <<machine, found, supl, modem, seen>>

\* A restarted modem knows no handle any more.
ModemRestarts ==
    /\ restarts < MaxRestarts
    /\ restarts' = restarts + 1
    /\ cs' = [c \in Handles |-> "idle"]
    /\ msgq' = Append(msgq, Message("EngineUp", NoHandle))
    /\ Note({"restart"})
    /\ UNCHANGED <<machine, found, supl, requests>>

Modem == ModemRestarts \/ \E c \in Handles : ModemAsks(c) \/ ModemLeaves(c)
Dsi == DsiOpens \/ DsiFails \/ DsiStops \/ DsiLoses
Next == MsgTask \/ Timers \/ Dsi \/ SuplAnswers \/ Modem

\* The MsgTask and the timers' thread loop as long as the process lives; data
\* services answer a start and a stop; so does the SUPL NIF (Agps).
Fairness ==
    /\ WF_vars(MsgTask) /\ WF_vars(Timers)
    /\ WF_vars(DsiOpens \/ DsiFails \/ DsiStops) /\ WF_vars(SuplAnswers)
Spec == Init /\ [][Next]_vars /\ Fairness

-----------------------------------------------------------------------------
Quiet == msgq = <<>> /\ timers = 0 /\ found = NoHandle
Seen(S) == seen \cap S # {}

\* When every client has left and nothing is in flight there is no data call:
\* no retry, late grant or repeated close leaves one open for nobody. The
\* exceptions are subscribers that nobody takes off the list.
CallIsStopped ==
    (Quiet /\ \A c \in Handles : cs[c] = "idle") =>
        call \in {"closed", "stopping"} \/ Seen({"left", "ghost", "crowd", "restart"})

\* The subscriber that the timers' thread has found and is about to read is
\* still on the list: nobody has deleted it in the MsgTask, as long as clients
\* do not come and go while a start is being retried.
RetryReadsLive ==
    found # NoHandle =>
        HasSubscriber(list, found) \/ Seen({"left", "ghost", "crowd", "restart"})

\* Refuted: "if the data call setup fails for DS State Machine, we want to retry
\* in released state" (loc_eng_agps.cpp:275-276): a client that waits on the list
\* in Released has a retry, or its fall-back to the SUPL NIF, under way. An error
\* that falls into the default branch of sendRsrcRequest has neither.
FailedIsRetried ==
    st = "Released" =>
        \A c \in ActiveIds(list) :
            \/ cs[c] # "asked" \/ c \in supl \/ timers > 0 \/ found = c
            \/ \E i \in DOMAIN msgq :
                  msgq[i].id = c /\ msgq[i].kind \in {"RequestSuplEs", "RequestATL"}

\* Every emergency request is answered, by a call that comes up after up to
\* MaxRetries retries or by the SUPL NIF, in spite of the calls that fail or are
\* lost, of others that leave, and of restarts; not when the start fails with an
\* error that is only logged, or with one nobody looks at.
EsAnswered ==
    \A c \in Handles :
        cs[c] = "asked" ~> (cs[c] # "asked" \/ Seen({"twin", "unstarted", "dropped", "crowd"}))

=============================================================================
