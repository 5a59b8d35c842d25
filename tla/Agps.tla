-------------------------------- MODULE Agps --------------------------------
(***************************************************************************)
(* The A-GPS data-connection broker of the location HAL                    *)
(* (src/gps/loc_api/libloc_api_50001/loc_eng_agps.cpp): one                *)
(* AgpsStateMachine per network interface (NIF) keeps the list of          *)
(* subscribers that want the NIF and asks the Android framework for it.    *)
(* Everything a state machine does runs in the adapter's MsgTask, which    *)
(* takes LocMsgs from one FIFO; the modem, the BIT daemon and the          *)
(* framework only put messages there, so what is hard is that each of them *)
(* has moved on by the time its message is handled.                        *)
(*                                                                         *)
(* The framework is asked for a NIF by its type, but answers through       *)
(* loc_agps_open, loc_agps_closed and loc_agps_open_failed (loc.cpp),      *)
(* which all say AGPS_TYPE_SUPL: whatever link an answer is about, it is   *)
(* given to agnss_nif, and none ever reaches internet_nif.                 *)
(*                                                                         *)
(* The two NIFs of this module are served by AGpsServicer: the subscribers *)
(* (ATLSubscriber, BITSubscriber) never wait for a close, so the Releasing *)
(* state is never entered and a subscriber is never inactive.              *)
(*                                                                         *)
(* The order of the subscriber list only picks the address put in the      *)
(* request and the order of the notifications: the list is a set here.     *)
(***************************************************************************)
EXTENDS Naturals, Sequences

CONSTANTS
    Atl,          \* connection handles of the modem (ATLSubscriber IDs)
    Bit,          \* addresses used by the BIT daemon (BITSubscriber IDs)
    agnss,        \* the SUPL NIF            (loc_eng_data.agnss_nif)
    internet,     \* the WWAN_ANY NIF        (loc_eng_data.internet_nif)
    BitNif,       \* the NIF the BIT daemon asks for
    NoApn,        \* the NIFs whose link may open without the name of its APN
    MaxInFlight,  \* clients send only below this many queued messages and calls
    MaxLosses,    \* bound on the times the framework loses a link by itself
    MaxRestarts   \* bound on modem restarts

Nifs == {agnss, internet}
Clients == Atl \cup Bit

ASSUME AgpsAssumption ==
    /\ Atl \cap Bit = {}
    /\ agnss # internet
    /\ BitNif \in Nifs /\ NoApn \subseteq Nifs
    /\ MaxInFlight \in Nat /\ MaxLosses \in Nat /\ MaxRestarts \in Nat

VARIABLES
    made,     \* the NIFs whose state machine exists
    st,       \* AgpsStateMachine::mStatePtr of each NIF
    subs,     \* AgpsStateMachine::mSubscribers of each NIF
    msgq,     \* the adapter's message queue
    calls,    \* agps_status_cb calls the framework has not handled yet
    conn,     \* the data connection the framework keeps for the NIF
    cs,       \* what each client believes of its own link
    link,     \* is the LocApi handle to the modem open?
    upcall,   \* where the LocApi thread is in handleEngineUpEvent
    dead,     \* has a handler dereferenced a NIF that does not exist?
    losses, restarts,
    hasty,    \* history: did a client release a link before it was granted?
    strayed,  \* history: did the SUPL machine act on news of the internet link?
    nameless  \* history: did the SUPL link open without the name of its APN?

vars == <<made, st, subs, msgq, calls, conn, cs, link, upcall, dead, losses, restarts,
          hasty, strayed, nameless>>
machines == <<made, st, subs, dead, strayed>>
modem == <<link, upcall, restarts>>

NoId == "none"
NoNif == "none"

\* about is history: the link an answer of the framework is about.
Msg ==
    [kind : {"NifInit", "Ssr", "EngineUp"}, id : {NoId}, nif : {NoNif}, about : {NoNif}]
    \cup [kind : {"RequestATL", "RequestBIT", "ReleaseBIT"},
          id : Clients, nif : Nifs, about : {NoNif}]
    \cup [kind : {"ReleaseATL"}, id : Clients, nif : {NoNif}, about : {NoNif}]
    \cup [kind : {"AtlOpenSuccess", "AtlClosed", "AtlOpenFailed"},
          id : {NoId}, nif : {agnss}, about : Nifs]

Message(kind, id, nif) == [kind |-> kind, id |-> id, nif |-> nif, about |-> NoNif]

\* loc_agps_open, loc_agps_closed and loc_agps_open_failed: AGPS_TYPE_SUPL.
Answer(kind, n) == [kind |-> kind, id |-> NoId, nif |-> agnss, about |-> n]

TypeOK ==
    /\ made \in SUBSET Nifs
    /\ st \in [Nifs -> {"Released", "Pending", "Acquired"}]
    /\ subs \in [Nifs -> SUBSET Clients]
    /\ msgq \in Seq(Msg)
    /\ calls \in [Nifs -> Seq({"REQUEST", "RELEASE"})]
    /\ conn \in [Nifs -> {"closed", "opening", "open"}]
    /\ cs \in [Clients -> {"idle", "asked", "up", "leaving"}]
    /\ link \in BOOLEAN
    /\ upcall \in {"idle", "down", "ssrSent"}
    /\ losses \in 0 .. MaxLosses
    /\ dead \in BOOLEAN
    /\ hasty \in BOOLEAN /\ strayed \in BOOLEAN /\ nameless \in BOOLEAN
    /\ restarts \in 0 .. MaxRestarts

\* loc_eng_agps_init has queued LocEngAgnssNifInit; nothing else has happened.
Init ==
    /\ made = {}
    /\ st = [n \in Nifs |-> "Released"]
    /\ subs = [n \in Nifs |-> {}]
    /\ msgq = <<Message("NifInit", NoId, NoNif)>>
    /\ calls = [n \in Nifs |-> <<>>]
    /\ conn = [n \in Nifs |-> "closed"]
    /\ cs = [c \in Clients |-> "idle"]
    /\ link = TRUE
    /\ upcall = "idle"
    /\ losses = 0
    /\ restarts = 0
    /\ dead = FALSE
    /\ hasty = FALSE /\ strayed = FALSE /\ nameless = FALSE

-----------------------------------------------------------------------------
(***************************************************************************)
(* What a client makes of a status (modem and BIT daemon are external).    *)
(***************************************************************************)
React(c, status) ==
    CASE status = "GRANTED" /\ cs[c] = "asked"                        -> "up"
      [] status = "DENIED" /\ cs[c] = "asked"                         -> "idle"
      [] status = "DENIED" /\ cs[c] = "leaving" /\ c \in Bit          -> "idle"
      [] status = "RELEASED" /\ cs[c] \in {"asked", "up", "leaving"}  -> "idle"
      [] status = "NOTFOUND" /\ cs[c] = "leaving"                     -> "idle"
      [] OTHER                                                        -> cs[c]

\* notifySubscribers / notifyRsrcStatus: the members of S are told the status.
Tell(S, status) ==
    cs' = [c \in Clients |-> IF c \in S THEN React(c, status) ELSE cs[c]]

\* AgpsStateMachine::sendRsrcRequest: the framework callback is only a post.
SendRsrcRequest(n, action) == calls' = [calls EXCEPT ![n] = Append(@, action)]

-----------------------------------------------------------------------------
(***************************************************************************)
(* The state machine of one NIF.                                           *)
(***************************************************************************)
\* Faulty variant: a subscriber that comes late is not told of the NIF.
SubscribeUntold(n, c) ==
    /\ subs' = [subs EXCEPT ![n] = @ \cup {c}]
    /\ IF st[n] = "Released"
       THEN SendRsrcRequest(n, "REQUEST") /\ st' = [st EXCEPT ![n] = "Pending"]
       ELSE UNCHANGED <<st, calls>>
    /\ UNCHANGED cs

\* subscribeRsrc: addSubscriber drops a duplicate; only Released asks for the
\* NIF; Acquired grants at once.
Subscribe(n, c) ==
    /\ subs' = [subs EXCEPT ![n] = @ \cup {c}]
    /\ \/ /\ st[n] = "Released"
          /\ SendRsrcRequest(n, "REQUEST")
          /\ st' = [st EXCEPT ![n] = "Pending"]
          /\ UNCHANGED cs
       \/ /\ st[n] = "Pending"
          /\ UNCHANGED <<st, calls, cs>>
       \/ /\ st[n] = "Acquired"
          /\ Tell({c}, "GRANTED")
          /\ UNCHANGED <<st, calls>>

\* Faulty variant: the last subscriber leaves and the NIF is not given back.
UnsubscribeKeepingNif(n, c) ==
    /\ st[n] \in {"Pending", "Acquired"}
    /\ subs' = [subs EXCEPT ![n] = @ \ {c}]
    /\ Tell({c}, "RELEASED")
    /\ st' = IF subs[n] \ {c} = {} THEN [st EXCEPT ![n] = "Released"] ELSE st
    /\ UNCHANGED calls

\* unsubscribeRsrc of a subscriber that is on the list, in Pending or Acquired.
Unsubscribe(n, c) ==
    /\ st[n] \in {"Pending", "Acquired"}
    /\ subs' = [subs EXCEPT ![n] = @ \ {c}]
    /\ Tell({c}, "RELEASED")
    /\ IF subs[n] \ {c} = {}
       THEN /\ st' = [st EXCEPT ![n] = "Released"]
            /\ SendRsrcRequest(n, "RELEASE")
       ELSE UNCHANGED <<st, calls>>

\* onRsrcEvent(RSRC_GRANTED): only Pending takes it.
Granted(n) ==
    /\ IF st[n] = "Pending"
       THEN /\ st' = [st EXCEPT ![n] = "Acquired"]
            /\ Tell(subs[n], "GRANTED")
       ELSE UNCHANGED <<st, cs>>
    /\ UNCHANGED <<subs, calls>>

\* BROADCAST_ALL with deletion: everybody is told and taken off the list.
DropAll(n, status) ==
    /\ st' = [st EXCEPT ![n] = "Released"]
    /\ subs' = [subs EXCEPT ![n] = {}]
    /\ Tell(subs[n], status)

\* Faulty variant: an event that is not expected is swallowed.
Swallow(n) == UNCHANGED <<st, subs, cs, calls>>

\* onRsrcEvent(RSRC_RELEASED): only Acquired takes it ("a force rsrc release").
Released(n) ==
    /\ IF st[n] = "Acquired" THEN DropAll(n, "RELEASED") ELSE UNCHANGED <<st, subs, cs>>
    /\ UNCHANGED calls

\* onRsrcEvent(RSRC_DENIED): only Pending takes it.
Denied(n) ==
    /\ IF st[n] = "Pending" THEN DropAll(n, "DENIED") ELSE UNCHANGED <<st, subs, cs>>
    /\ UNCHANGED calls

-----------------------------------------------------------------------------
(***************************************************************************)
(* The LocMsg handlers, run by the adapter's MsgTask in queue order.       *)
(***************************************************************************)
Receive(kind) ==
    /\ ~dead
    /\ msgq # <<>>
    /\ Head(msgq).kind = kind
    /\ msgq' = Tail(msgq)
    /\ UNCHANGED <<conn, losses, hasty, nameless>>

\* createAgnssNifs: the SUPL NIF exists only where gps.conf says that the
\* device is A-GPS capable.
NifInit ==
    /\ Receive("NifInit")
    /\ made' \in {Nifs, {internet}}
    /\ UNCHANGED <<st, subs, calls, cs, dead, strayed, modem>>

\* Faulty variant: nobody looks whether there is a state machine.
RequestATLUnchecked ==
    /\ Receive("RequestATL")
    /\ LET c == Head(msgq).id
           n == Head(msgq).nif
       IN  IF n \in made
           THEN Subscribe(n, c) /\ UNCHANGED dead
           ELSE dead' = TRUE /\ UNCHANGED <<st, subs, calls, cs>>
    /\ UNCHANGED <<made, strayed, modem>>

\* LocEngRequestATL::proc: without a state machine the request is refused.
RequestATL ==
    /\ Receive("RequestATL")
    /\ LET c == Head(msgq).id
           n == Head(msgq).nif
       IN  IF n \in made
           THEN Subscribe(n, c)
           ELSE Tell({c}, "DENIED") /\ UNCHANGED <<st, subs, calls>>
    /\ UNCHANGED <<made, dead, strayed, modem>>

\* LocEngReleaseATL::proc does not know the NIF: it tries agnss, then internet,
\* and answers with a failed close if the handle is on neither list.
ReleaseATL ==
    /\ Receive("ReleaseATL")
    /\ LET c == Head(msgq).id
       IN  IF c \in subs[agnss] THEN Unsubscribe(agnss, c)
           ELSE IF c \in subs[internet] THEN Unsubscribe(internet, c)
           ELSE Tell({c}, "NOTFOUND") /\ UNCHANGED <<st, subs, calls>>
    /\ UNCHANGED <<made, dead, strayed, modem>>

\* LocEngReqRelBIT::proc with mIsReq does not look for a state machine.
RequestBIT ==
    /\ Receive("RequestBIT")
    /\ LET n == Head(msgq).nif
       IN  /\ dead' = (n \notin made)
           /\ IF n \in made
              THEN Subscribe(n, Head(msgq).id)
              ELSE UNCHANGED <<st, subs, calls, cs>>
    /\ UNCHANGED <<made, strayed, modem>>

\* LocEngReqRelBIT::proc without mIsReq: an unknown subscriber gets no answer.
ReleaseBIT ==
    /\ Receive("ReleaseBIT")
    /\ LET c == Head(msgq).id
           n == Head(msgq).nif
       IN  /\ dead' = (n \notin made)
           /\ IF c \in subs[n]
              THEN Unsubscribe(n, c)
              ELSE UNCHANGED <<st, subs, calls, cs>>
    /\ UNCHANGED <<made, strayed, modem>>

\* The handlers of the framework's answers use what getAgpsStateMachine returns
\* for AGPS_TYPE_SUPL, also when it is NULL (st is then "Released", and stays).
Delivered ==
    /\ dead' = (Head(msgq).nif \notin made)
    /\ strayed' = (strayed \/ (Head(msgq).about = internet /\ st' # st))
    /\ UNCHANGED <<made, modem>>

AtlOpenSuccess == Receive("AtlOpenSuccess") /\ Granted(Head(msgq).nif) /\ Delivered
AtlClosed      == Receive("AtlClosed") /\ Released(Head(msgq).nif) /\ Delivered
AtlOpenFailed  == Receive("AtlOpenFailed") /\ Denied(Head(msgq).nif) /\ Delivered

\* LocSsrMsg::proc closes the dead LocApi handle and opens a new one.
Ssr ==
    /\ Receive("Ssr")
    /\ link' = TRUE
    /\ UNCHANGED <<machines, calls, cs, upcall, restarts>>

\* loc_eng_handle_engine_up drops every subscriber without telling anyone and
\* leaves mStatePtr alone.
EngineUp ==
    /\ Receive("EngineUp")
    /\ subs' = [n \in Nifs |-> {}]
    /\ UNCHANGED <<made, st, calls, cs, dead, strayed, modem>>

MsgTask ==
    \/ NifInit \/ RequestATL \/ ReleaseATL \/ RequestBIT \/ ReleaseBIT
    \/ AtlOpenSuccess \/ AtlClosed \/ AtlOpenFailed \/ Ssr \/ EngineUp

-----------------------------------------------------------------------------
(***************************************************************************)
(* The clients (external).                                                 *)
(***************************************************************************)
Send(m) == msgq' = Append(msgq, m)

\* The modem talks over an open link, through the LocApi thread.
CanTalk(c) ==
    /\ c \in Atl => link /\ upcall = "idle"
    /\ Len(msgq) + Len(calls[agnss]) + Len(calls[internet]) < MaxInFlight

\* The modem numbers its connections: a handle is not used again while a
\* message about it is queued, unless the modem restarted in between.
Fresh(c) ==
    \A i \in DOMAIN msgq : msgq[i].id = c =>
        \E j \in DOMAIN msgq : i < j /\ msgq[j].kind = "EngineUp"

Ask(c, n) ==
    /\ cs[c] = "idle" /\ CanTalk(c)
    /\ c \in Atl => Fresh(c)
    /\ c \in Bit => n = BitNif
    /\ cs' = [cs EXCEPT ![c] = "asked"]
    /\ Send(Message(IF c \in Atl THEN "RequestATL" ELSE "RequestBIT", c, n))
    /\ UNCHANGED <<machines, calls, conn, modem, losses, hasty, nameless>>

\* LocEngReleaseATL carries no NIF.
Leave(c) ==
    /\ CanTalk(c)
    /\ cs[c] \in {"asked", "up"}
    /\ hasty' = (hasty \/ cs[c] = "asked")
    /\ cs' = [cs EXCEPT ![c] = "leaving"]
    /\ Send(IF c \in Atl THEN Message("ReleaseATL", c, NoNif)
                         ELSE Message("ReleaseBIT", c, BitNif))
    /\ UNCHANGED <<machines, calls, conn, modem, losses, nameless>>

(***************************************************************************)
(* The framework (external): keeps one link for each type it is asked for, *)
(* handles the calls of a type in order, and tells how the link fares      *)
(* through loc_agps_open, _closed and _open_failed; it may lose an open    *)
(* link at any time, and an opened link may come without an APN name,      *)
(* which loc_eng_agps_open drops.                                          *)
(***************************************************************************)
NextCall(n, action) ==
    /\ calls[n] # <<>>
    /\ Head(calls[n]) = action
    /\ calls' = [calls EXCEPT ![n] = Tail(@)]
    /\ UNCHANGED <<machines, cs, modem, losses, hasty>>

TellOpen(n) ==
    \/ Send(Answer("AtlOpenSuccess", n)) /\ UNCHANGED nameless
    \/ n \in NoApn /\ nameless' = (nameless \/ n = agnss) /\ UNCHANGED msgq

FwRequest(n) ==
    /\ NextCall(n, "REQUEST")
    /\ \/ conn[n] = "open" /\ TellOpen(n) /\ UNCHANGED conn
       \/ /\ conn[n] # "open"
          /\ conn' = [conn EXCEPT ![n] = "opening"]
          /\ UNCHANGED <<msgq, nameless>>

FwRelease(n) ==
    /\ NextCall(n, "RELEASE")
    /\ IF conn[n] = "closed"
       THEN UNCHANGED <<conn, msgq>>
       ELSE conn' = [conn EXCEPT ![n] = "closed"] /\ Send(Answer("AtlClosed", n))
    /\ UNCHANGED nameless

FwOpened(n) ==
    /\ conn[n] = "opening"
    /\ conn' = [conn EXCEPT ![n] = "open"]
    /\ TellOpen(n)
    /\ UNCHANGED <<machines, calls, cs, modem, losses, hasty>>

FwFailed(n) ==
    /\ conn[n] = "opening"
    /\ conn' = [conn EXCEPT ![n] = "closed"]
    /\ Send(Answer("AtlOpenFailed", n))
    /\ UNCHANGED <<machines, calls, cs, modem, losses, hasty, nameless>>

FwLost(n) ==
    /\ conn[n] = "open" /\ losses < MaxLosses
    /\ losses' = losses + 1
    /\ conn' = [conn EXCEPT ![n] = "closed"]
    /\ Send(Answer("AtlClosed", n))
    /\ UNCHANGED <<machines, calls, cs, modem, hasty, nameless>>

(***************************************************************************)
(* Modem restart: the modem forgets its connections; when it is back, the  *)
(* LocApi thread runs LocApiBase::handleEngineUpEvent, which queues        *)
(* LocSsrMsg and then, through the adapters, LocEngUp.                     *)
(***************************************************************************)
ModemCrash ==
    /\ restarts < MaxRestarts /\ upcall = "idle" /\ link
    /\ restarts' = restarts + 1
    /\ link' = FALSE
    /\ upcall' = "down"
    /\ cs' = [c \in Clients |-> IF c \in Atl THEN "idle" ELSE cs[c]]
    /\ UNCHANGED <<machines, msgq, calls, conn, losses, hasty, nameless>>

UpcallSsr ==
    /\ upcall = "down" /\ upcall' = "ssrSent"
    /\ Send(Message("Ssr", NoId, NoNif))
    /\ UNCHANGED <<machines, calls, conn, cs, link, losses, hasty, nameless, restarts>>

UpcallEngineUp ==
    /\ upcall = "ssrSent" /\ upcall' = "idle"
    /\ Send(Message("EngineUp", NoId, NoNif))
    /\ UNCHANGED <<machines, calls, conn, cs, link, losses, hasty, nameless, restarts>>

Framework(n) == FwRequest(n) \/ FwRelease(n) \/ FwOpened(n) \/ FwFailed(n)

\* The process that holds the adapter has crashed.
Crashed == dead /\ UNCHANGED vars

Next ==
    \/ MsgTask
    \/ \E c \in Clients : Leave(c) \/ \E n \in Nifs : Ask(c, n)
    \/ \E n \in Nifs : Framework(n) \/ FwLost(n)
    \/ ModemCrash \/ UpcallSsr \/ UpcallEngineUp
    \/ Crashed

\* The MsgTask thread loops; the framework handles its calls and an opening
\* link opens or fails; nothing forces a client to ask, to leave or to lose.
Fairness == WF_vars(MsgTask) /\ \A n \in Nifs : WF_vars(Framework(n))

Spec == Init /\ [][Next]_vars /\ Fairness
-----------------------------------------------------------------------------
(***************************************************************************)
(* Safety.                                                                 *)
(***************************************************************************)
Queued(n, kinds) == \E i \in DOMAIN msgq : msgq[i].about = n /\ msgq[i].kind \in kinds

AnswerComes(n) ==
    \/ conn[n] = "opening"
    \/ \E i \in DOMAIN calls[n] : calls[n][i] = "REQUEST"
    \/ Queued(n, {"AtlOpenSuccess", "AtlOpenFailed"})

\* While the SUPL machine waits for the framework, an answer about its own link
\* is coming: its request is not handled yet, or the link is opening, or the
\* answer is queued.  No crossing of a release, a stale grant, news of the
\* internet link and a modem restart leaves it in Pending for ever; only an
\* opened link that comes without an APN name does.
PendingIsAnswered == st[agnss] = "Pending" /\ ~nameless => AnswerComes(agnss)

\* The links the SUPL machine may have been told of.
Bearers == IF strayed THEN Nifs ELSE {agnss}

\* When the SUPL machine grants (Acquired), its link is open, or the news of
\* the close is already queued, even when the grant it took was the answer to
\* an earlier, abandoned request.  Once it has acted on news of the internet
\* link, it may be that one which is open or about to be reported closed; but
\* it never grants with no link at all and no news coming.
AcquiredIsBacked ==
    st[agnss] = "Acquired" =>
        \E n \in Bearers : conn[n] = "open" \/ Queued(n, {"AtlClosed"})

\* A NIF nobody uses is not kept: the framework's link is closed, or a call is
\* on its way to it.  The SUPL NIF owes this to clients that release only what
\* they were granted, to a modem that does not restart, and to having taken no
\* news of the internet link for its own; internet_nif, which no news reaches,
\* keeps it whatever happens.
LinkIsReleased ==
    \A n \in Nifs : n = internet \/ (~hasty /\ ~strayed /\ restarts = 0) =>
        st[n] # "Released" \/ conn[n] = "closed" \/ calls[n] # <<>>

\* A device whose gps.conf makes no SUPL NIF survives whatever the modem asks:
\* its process is only brought down by an answer about the internet link, or by
\* a request of the BIT daemon.  It takes the check of LocEngRequestATL::proc,
\* and that no call for a NIF which does not exist ever reaches the framework.
OnlyStraysCrash ==
    [][dead' /\ ~dead => Head(msgq).about = internet \/ Head(msgq).kind = "RequestBIT"]_vars

\* Refuted: AgpsPendingState expects, on a close, "either GRANTED or DENIED" to
\* come (loc_eng_agps.cpp:381), and loc_agps_open "should inform ARM 9 about
\* the data open result" (loc.cpp:689).  The answer about the internet link is
\* taken by agnss_nif, and internet_nif waits for ever.
PendingExpects == \A n \in Nifs : st[n] = "Pending" /\ ~nameless => AnswerComes(n)

(***************************************************************************)
(* Liveness.                                                               *)
(***************************************************************************)
\* c's last word in the queue is a request for the SUPL NIF.
AsksSupl(c) ==
    \E i \in DOMAIN msgq :
        /\ msgq[i].id = c /\ msgq[i].nif = agnss /\ msgq[i].kind \in {"RequestATL", "RequestBIT"}
        /\ \A j \in DOMAIN msgq : j > i => msgq[j].id # c

\* Every request for the SUPL NIF is answered, granted or refused, also across
\* a restart and whatever goes on with the internet NIF.  What may leave the
\* client waiting is a restart for the BIT daemon, whose subscriber is dropped
\* silently, an opened link without an APN name, and the crash of the process.
RequestsAnswered ==
    \A c \in Clients : AsksSupl(c) ~>
        cs[c] # "asked" \/ (c \in Bit /\ restarts > 0) \/ nameless \/ dead
=============================================================================
