----------------------------- MODULE AgpsProofs -----------------------------
(***************************************************************************)
(* Proofs about Agps, for every set of clients, every bound and every      *)
(* number of restarts and losses.                                          *)
(***************************************************************************)
EXTENDS Agps, SequenceTheorems, TLAPS

States == {"Released", "Pending", "Acquired"}
Beliefs == {"idle", "asked", "up", "leaving"}

-----------------------------------------------------------------------------
(* Typing. *)

LEMMA TellType ==
    ASSUME TypeOK, NEW S, NEW status, Tell(S, status)
    PROVE  cs' \in [Clients -> Beliefs]
<1> SUFFICES ASSUME NEW c \in Clients PROVE React(c, status) \in Beliefs
    BY DEF Tell, TypeOK, Beliefs
<1> QED BY DEF React, TypeOK, Beliefs

LEMMA SendType ==
    ASSUME TypeOK, NEW m \in Msg, Send(m)
    PROVE  msgq' \in Seq(Msg)
BY DEF Send, TypeOK

LEMMA ReceiveType ==
    ASSUME TypeOK, NEW kind, Receive(kind)
    PROVE  /\ msgq' \in Seq(Msg) /\ Head(msgq) \in Msg
           /\ kind \in {"RequestATL", "RequestBIT", "ReleaseBIT"} =>
                 Head(msgq).id \in Clients /\ Head(msgq).nif \in Nifs
           /\ kind = "ReleaseATL" => Head(msgq).id \in Clients
           /\ kind \in {"AtlOpenSuccess", "AtlClosed", "AtlOpenFailed"} =>
                 Head(msgq).nif = agnss /\ Head(msgq).about \in Nifs
<1>1. msgq # <<>> /\ msgq \in Seq(Msg) /\ msgq' = Tail(msgq) /\ Head(msgq).kind = kind
  BY DEF Receive, TypeOK
<1>2. Head(msgq) \in Msg /\ Tail(msgq) \in Seq(Msg)
  BY <1>1
<1> QED BY <1>1, <1>2 DEF Msg

\* The part of the state a state machine works on.
NifType ==
    /\ st \in [Nifs -> States]
    /\ subs \in [Nifs -> SUBSET Clients]
    /\ calls \in [Nifs -> Seq({"REQUEST", "RELEASE"})]
    /\ cs \in [Clients -> Beliefs]

LEMMA CallType ==
    ASSUME TypeOK, NEW n \in Nifs, NEW a \in {"REQUEST", "RELEASE"}, SendRsrcRequest(n, a)
    PROVE  calls' \in [Nifs -> Seq({"REQUEST", "RELEASE"})]
BY DEF SendRsrcRequest, TypeOK

LEMMA SubscribeType ==
    ASSUME TypeOK, NEW n \in Nifs, NEW c \in Clients, Subscribe(n, c)
    PROVE  NifType'
<1>1. subs' \in [Nifs -> SUBSET Clients]
  BY DEF Subscribe, TypeOK
<1>2. CASE st[n] = "Released" /\ SendRsrcRequest(n, "REQUEST")
           /\ st' = [st EXCEPT ![n] = "Pending"] /\ UNCHANGED cs
  BY <1>1, <1>2, CallType DEF TypeOK, NifType, States, Beliefs
<1>3. CASE UNCHANGED <<st, calls, cs>>
  BY <1>1, <1>3 DEF TypeOK, NifType, States, Beliefs
<1>4. CASE Tell({c}, "GRANTED") /\ UNCHANGED <<st, calls>>
  BY <1>1, <1>4, TellType DEF TypeOK, NifType, States, Beliefs
<1> QED BY <1>2, <1>3, <1>4 DEF Subscribe

LEMMA UnsubscribeType ==
    ASSUME TypeOK, NEW n \in Nifs, NEW c, Unsubscribe(n, c)
    PROVE  NifType'
<1>1. subs' \in [Nifs -> SUBSET Clients]
  BY DEF Unsubscribe, TypeOK
<1>2. cs' \in [Clients -> Beliefs]
  BY TellType DEF Unsubscribe
<1>3. CASE subs[n] \ {c} = {}
  BY <1>1, <1>2, <1>3, CallType DEF Unsubscribe, TypeOK, NifType, States
<1>4. CASE subs[n] \ {c} # {}
  BY <1>1, <1>2, <1>4 DEF Unsubscribe, TypeOK, NifType, States
<1> QED BY <1>3, <1>4

LEMMA EventType ==
    ASSUME TypeOK, NEW n \in Nifs, Granted(n) \/ Released(n) \/ Denied(n)
    PROVE  NifType'
<1>1. CASE UNCHANGED <<st, subs, cs, calls>>
  BY <1>1 DEF TypeOK, NifType, States, Beliefs
<1>2. CASE /\ st' = [st EXCEPT ![n] = "Acquired"] /\ Tell(subs[n], "GRANTED")
           /\ UNCHANGED <<subs, calls>>
  BY <1>2, TellType DEF TypeOK, NifType, States
<1>3. CASE DropAll(n, "RELEASED") /\ UNCHANGED calls
  BY <1>3, TellType DEF DropAll, TypeOK, NifType, States
<1>4. CASE DropAll(n, "DENIED") /\ UNCHANGED calls
  BY <1>4, TellType DEF DropAll, TypeOK, NifType, States
<1> QED BY <1>1, <1>2, <1>3, <1>4 DEF Granted, Released, Denied

\* A handler types the whole state if it types the part of the state machines.
LEMMA HandlerType ==
    ASSUME TypeOK, NEW kind, Receive(kind), NifType',
           dead' \in BOOLEAN, strayed' \in BOOLEAN,
           UNCHANGED <<made, link, upcall, restarts>>
    PROVE  TypeOK'
<1>1. msgq' \in Seq(Msg)
  BY ReceiveType
<1>2. /\ UNCHANGED <<conn, losses, hasty, nameless>>
      /\ made' = made /\ link' = link /\ upcall' = upcall /\ restarts' = restarts
  BY DEF Receive
<1> QED BY <1>1, <1>2 DEF NifType, TypeOK, States, Beliefs

LEMMA MsgTaskType ==
    ASSUME TypeOK, MsgTask
    PROVE  TypeOK'
<1> USE DEF modem
<1>0. /\ dead \in BOOLEAN /\ strayed \in BOOLEAN
      /\ UNCHANGED dead => dead' \in BOOLEAN
      /\ UNCHANGED strayed => strayed' \in BOOLEAN
  BY DEF TypeOK
<1>1. CASE NifInit
  <2>1. Receive("NifInit") BY <1>1 DEF NifInit
  <2>2. msgq' \in Seq(Msg) BY <2>1, ReceiveType
  <2>3. made' \in SUBSET Nifs BY <1>1 DEF NifInit, Nifs
  <2> QED BY <1>1, <2>2, <2>3 DEF NifInit, Receive, TypeOK
<1>2. CASE RequestATL
  <2> DEFINE c == Head(msgq).id
             n == Head(msgq).nif
  <2>1. Receive("RequestATL") /\ UNCHANGED <<made, dead, strayed, link, upcall, restarts>>
    BY <1>2 DEF RequestATL
  <2>2. c \in Clients /\ n \in Nifs BY <2>1, ReceiveType
  <2>3. CASE n \in made
    <3>1. Subscribe(n, c) BY <1>2, <2>3 DEF RequestATL
    <3>2. NifType' BY <2>2, <3>1, SubscribeType
    <3> QED BY <1>0, <2>1, <3>2, HandlerType
  <2>4. CASE n \notin made
    <3>1. Tell({c}, "DENIED") /\ UNCHANGED <<st, subs, calls>>
      BY <1>2, <2>4 DEF RequestATL
    <3>2. NifType' BY <3>1, TellType DEF NifType, TypeOK, States
    <3> QED BY <1>0, <2>1, <3>2, HandlerType
  <2> QED BY <2>3, <2>4
<1>3. CASE ReleaseATL
  <2> DEFINE c == Head(msgq).id
  <2>1. Receive("ReleaseATL") /\ UNCHANGED <<made, dead, strayed, link, upcall, restarts>>
    BY <1>3 DEF ReleaseATL
  <2>2. CASE \E n \in Nifs : Unsubscribe(n, c)
    <3>1. NifType' BY <2>2, UnsubscribeType
    <3> QED BY <1>0, <2>1, <3>1, HandlerType
  <2>3. CASE Tell({c}, "NOTFOUND") /\ UNCHANGED <<st, subs, calls>>
    <3>1. NifType' BY <2>3, TellType DEF NifType, TypeOK, States
    <3> QED BY <1>0, <2>1, <3>1, HandlerType
  <2> QED BY <1>3, <2>2, <2>3 DEF ReleaseATL, Nifs
<1>4. CASE RequestBIT
  <2> DEFINE n == Head(msgq).nif
  <2>1. Receive("RequestBIT") /\ UNCHANGED <<made, strayed, link, upcall, restarts>>
    BY <1>4 DEF RequestBIT
  <2>2. Head(msgq).id \in Clients /\ n \in Nifs BY <2>1, ReceiveType
  <2>3. dead' \in BOOLEAN BY <1>4 DEF RequestBIT
  <2>4. NifType'
    <3>1. CASE n \in made BY <1>4, <2>2, <3>1, SubscribeType DEF RequestBIT
    <3>2. CASE n \notin made
      BY <1>4, <3>2 DEF RequestBIT, NifType, TypeOK, States, Beliefs
    <3> QED BY <3>1, <3>2
  <2> QED BY <1>0, <2>1, <2>3, <2>4, HandlerType
<1>5. CASE ReleaseBIT
  <2> DEFINE c == Head(msgq).id
             n == Head(msgq).nif
  <2>1. Receive("ReleaseBIT") /\ UNCHANGED <<made, strayed, link, upcall, restarts>>
    BY <1>5 DEF ReleaseBIT
  <2>2. n \in Nifs BY <2>1, ReceiveType
  <2>3. dead' \in BOOLEAN BY <1>5 DEF ReleaseBIT
  <2>4. CASE Unsubscribe(n, c)
    <3>1. NifType' BY <2>2, <2>4, UnsubscribeType
    <3> QED BY <1>0, <2>1, <2>3, <3>1, HandlerType
  <2>5. CASE UNCHANGED <<st, subs, calls, cs>>
    <3>1. NifType' BY <2>5 DEF NifType, TypeOK, States, Beliefs
    <3> QED BY <1>0, <2>1, <2>3, <3>1, HandlerType
  <2> QED BY <1>5, <2>4, <2>5 DEF ReleaseBIT
<1>6. CASE AtlOpenSuccess \/ AtlClosed \/ AtlOpenFailed
  <2>1. PICK kind \in {"AtlOpenSuccess", "AtlClosed", "AtlOpenFailed"} : Receive(kind)
    BY <1>6 DEF AtlOpenSuccess, AtlClosed, AtlOpenFailed
  <2>2. Head(msgq).nif \in Nifs BY <2>1, ReceiveType DEF Nifs
  <2>3. NifType'
    BY <1>6, <2>2, EventType DEF AtlOpenSuccess, AtlClosed, AtlOpenFailed
  <2>4. /\ dead' \in BOOLEAN /\ strayed' \in BOOLEAN
        /\ UNCHANGED <<made, link, upcall, restarts>>
    BY <1>0, <1>6 DEF AtlOpenSuccess, AtlClosed, AtlOpenFailed, Delivered
  <2> QED BY <2>1, <2>3, <2>4, HandlerType
<1>7. CASE Ssr
  <2>1. msgq' \in Seq(Msg) BY <1>7, ReceiveType DEF Ssr
  <2> QED BY <1>7, <2>1 DEF Ssr, Receive, TypeOK, machines
<1>8. CASE EngineUp
  <2>1. Receive("EngineUp") /\ UNCHANGED <<made, dead, strayed, link, upcall, restarts>>
    BY <1>8 DEF EngineUp
  <2>2. NifType' BY <1>8 DEF EngineUp, NifType, TypeOK, States, Beliefs
  <2> QED BY <1>0, <2>1, <2>2, HandlerType
<1> QED BY <1>1, <1>2, <1>3, <1>4, <1>5, <1>6, <1>7, <1>8 DEF MsgTask

LEMMA ClientType ==
    ASSUME TypeOK, NEW c \in Clients, NEW n \in Nifs, Ask(c, n) \/ Leave(c)
    PROVE  TypeOK'
<1>1. CASE Ask(c, n)
  <2>1. Message(IF c \in Atl THEN "RequestATL" ELSE "RequestBIT", c, n) \in Msg
    BY DEF Message, Msg
  <2>2. msgq' \in Seq(Msg) BY <1>1, <2>1, SendType DEF Ask
  <2> QED BY <1>1, <2>2 DEF Ask, TypeOK, machines, modem
<1>2. CASE Leave(c)
  <2>1. Message("ReleaseATL", c, NoNif) \in Msg /\ Message("ReleaseBIT", c, BitNif) \in Msg
    BY AgpsAssumption DEF Message, Msg
  <2>2. msgq' \in Seq(Msg) BY <1>2, <2>1, SendType DEF Leave
  <2> QED BY <1>2, <2>2 DEF Leave, TypeOK, machines, modem
<1> QED BY <1>1, <1>2

LEMMA FrameworkType ==
    ASSUME TypeOK, NEW n \in Nifs, Framework(n) \/ FwLost(n)
    PROVE  TypeOK'
<1>1. \A kind \in {"AtlOpenSuccess", "AtlOpenFailed", "AtlClosed"} : Answer(kind, n) \in Msg
  BY DEF Answer, Msg
<1>2. ASSUME NEW a, NextCall(n, a)
      PROVE  calls' \in [Nifs -> Seq({"REQUEST", "RELEASE"})]
  BY <1>2 DEF NextCall, TypeOK
<1>3. ASSUME TellOpen(n) PROVE msgq' \in Seq(Msg) /\ nameless' \in BOOLEAN
  BY <1>1, <1>3, SendType DEF TellOpen, TypeOK
<1>4. CASE FwRequest(n)
  <2>1. msgq' \in Seq(Msg) /\ nameless' \in BOOLEAN
    BY <1>4, <1>3 DEF FwRequest, TypeOK
  <2>2. conn' \in [Nifs -> {"closed", "opening", "open"}]
    BY <1>4 DEF FwRequest, TypeOK
  <2> QED BY <1>2, <1>4, <2>1, <2>2 DEF FwRequest, NextCall, TypeOK, machines, modem
<1>5. CASE FwRelease(n)
  <2>1. msgq' \in Seq(Msg)
    BY <1>5, <1>1, SendType DEF FwRelease, TypeOK
  <2>2. conn' \in [Nifs -> {"closed", "opening", "open"}]
    BY <1>5 DEF FwRelease, TypeOK
  <2> QED BY <1>2, <1>5, <2>1, <2>2 DEF FwRelease, NextCall, TypeOK, machines, modem
<1>6. CASE FwOpened(n)
  <2>1. msgq' \in Seq(Msg) /\ nameless' \in BOOLEAN BY <1>6, <1>3 DEF FwOpened
  <2> QED BY <1>6, <2>1 DEF FwOpened, TypeOK, machines, modem
<1>7. CASE FwFailed(n)
  <2>1. msgq' \in Seq(Msg) BY <1>7, <1>1, SendType DEF FwFailed
  <2> QED BY <1>7, <2>1 DEF FwFailed, TypeOK, machines, modem
<1>8. CASE FwLost(n)
  <2>1. msgq' \in Seq(Msg) BY <1>8, <1>1, SendType DEF FwLost
  <2>2. losses' \in 0 .. MaxLosses BY <1>8, AgpsAssumption DEF FwLost, TypeOK
  <2> QED BY <1>8, <2>1, <2>2 DEF FwLost, TypeOK, machines, modem
<1> QED BY <1>4, <1>5, <1>6, <1>7, <1>8 DEF Framework

LEMMA RestartType ==
    ASSUME TypeOK, ModemCrash \/ UpcallSsr \/ UpcallEngineUp
    PROVE  TypeOK'
<1>1. Message("Ssr", NoId, NoNif) \in Msg /\ Message("EngineUp", NoId, NoNif) \in Msg
  BY DEF Message, Msg
<1>2. CASE ModemCrash
  <2>1. cs' \in [Clients -> Beliefs] BY <1>2 DEF ModemCrash, TypeOK, Beliefs
  <2>2. restarts' \in 0 .. MaxRestarts
    BY <1>2, AgpsAssumption DEF ModemCrash, TypeOK
  <2>3. /\ link' = FALSE /\ upcall' = "down"
        /\ UNCHANGED <<made, st, subs, msgq, calls, conn, dead, losses, hasty, strayed, nameless>>
    BY <1>2 DEF ModemCrash, machines
  <2> QED BY <2>1, <2>2, <2>3 DEF TypeOK, Beliefs
<1>3. CASE UpcallSsr
  <2>1. msgq' \in Seq(Msg) BY <1>1, <1>3, SendType DEF UpcallSsr
  <2> QED BY <1>3, <2>1 DEF UpcallSsr, TypeOK, machines
<1>4. CASE UpcallEngineUp
  <2>1. msgq' \in Seq(Msg) BY <1>1, <1>4, SendType DEF UpcallEngineUp
  <2> QED BY <1>4, <2>1 DEF UpcallEngineUp, TypeOK, machines
<1> QED BY <1>2, <1>3, <1>4

LEMMA TypeStep == TypeOK /\ [Next]_vars => TypeOK'
<1> SUFFICES ASSUME TypeOK, [Next]_vars PROVE TypeOK'
  OBVIOUS
<1>1. CASE MsgTask BY <1>1, MsgTaskType
<1>2. CASE \E c \in Clients : Leave(c) \/ \E n \in Nifs : Ask(c, n)
  BY <1>2, ClientType DEF Nifs
<1>3. CASE \E n \in Nifs : Framework(n) \/ FwLost(n)
  BY <1>3, FrameworkType
<1>4. CASE ModemCrash \/ UpcallSsr \/ UpcallEngineUp
  BY <1>4, RestartType
<1>5. CASE UNCHANGED vars \/ Crashed
  BY <1>5 DEF vars, TypeOK, Crashed
<1> QED BY <1>1, <1>2, <1>3, <1>4, <1>5 DEF Next

LEMMA TypeInit == Init => TypeOK
<1> SUFFICES ASSUME Init PROVE TypeOK
  OBVIOUS
<1>1. Message("NifInit", NoId, NoNif) \in Msg BY DEF Message, Msg
<1>2. msgq \in Seq(Msg) BY <1>1 DEF Init
<1>3. hasty \in BOOLEAN /\ strayed \in BOOLEAN /\ nameless \in BOOLEAN /\ dead \in BOOLEAN
  BY DEF Init
<1> QED BY <1>2, <1>3, AgpsAssumption DEF Init, TypeOK, Nifs

\* Every variable keeps its type: messages name a NIF where their handler
\* needs one, and the bounds hold.
THEOREM TypeCorrect == Spec => []TypeOK
BY TypeInit, TypeStep, PTL DEF Spec

-----------------------------------------------------------------------------
(* What one step of the MsgTask does to one state machine. *)

Stays(n) == st'[n] = st[n] /\ calls'[n] = calls[n]
Asks(n) ==
    /\ st[n] = "Released" /\ st'[n] = "Pending"
    /\ calls'[n] = Append(calls[n], "REQUEST")
GivesBack(n) == st'[n] = "Released" /\ calls'[n] = Append(calls[n], "RELEASE")
IsGranted(n) ==
    /\ n = agnss /\ st[n] = "Pending" /\ st'[n] = "Acquired" /\ calls'[n] = calls[n]
    /\ Head(msgq).kind = "AtlOpenSuccess"
Ends(n) == n = agnss /\ st'[n] = "Released" /\ calls'[n] = calls[n]

MachineStep(n) == Stays(n) \/ Asks(n) \/ GivesBack(n) \/ IsGranted(n) \/ Ends(n)

\* The SUPL machine takes an answer, whatever link it is about: Pending ends
\* with a grant or a denial, Acquired with a close.  An empty list is kept
\* empty in Released.
Taken(n) ==
    /\ n = agnss /\ Head(msgq).kind \in {"AtlOpenSuccess", "AtlOpenFailed"}
          => st'[n] # "Pending"
    /\ n = agnss /\ Head(msgq).kind = "AtlClosed" => st'[n] # "Acquired"
    /\ st'[n] = "Released" => subs'[n] = {}

\* A machine in Released has no subscribers: AgpsReleasedState::onRsrcEvent
\* logs "subscriber list not empty!!!" and does not know how to recover.
ReleasedIsEmpty == \A n \in Nifs : st[n] = "Released" => subs[n] = {}

LEMMA SubscribeStep ==
    ASSUME TypeOK, ReleasedIsEmpty, NEW m \in Nifs, NEW c, Subscribe(m, c), NEW n \in Nifs
    PROVE  MachineStep(n) /\ (st'[n] = "Released" => subs'[n] = {})
<1>1. CASE n = m
  BY <1>1 DEF Subscribe, SendRsrcRequest, MachineStep, Stays, Asks, TypeOK
<1>2. CASE n # m
  BY <1>2 DEF Subscribe, SendRsrcRequest, MachineStep, Stays, TypeOK, ReleasedIsEmpty
<1> QED BY <1>1, <1>2

LEMMA UnsubscribeStep ==
    ASSUME TypeOK, ReleasedIsEmpty, NEW m \in Nifs, NEW c, Unsubscribe(m, c), NEW n \in Nifs
    PROVE  MachineStep(n) /\ (st'[n] = "Released" => subs'[n] = {})
<1>1. CASE n = m
  BY <1>1 DEF Unsubscribe, SendRsrcRequest, MachineStep, Stays, GivesBack, TypeOK
<1>2. CASE n # m
  BY <1>2 DEF Unsubscribe, SendRsrcRequest, MachineStep, Stays, TypeOK, ReleasedIsEmpty
<1> QED BY <1>1, <1>2

LEMMA IdleStep ==
    ASSUME ReleasedIsEmpty, UNCHANGED <<st, subs, calls>>, NEW n \in Nifs
    PROVE  MachineStep(n) /\ (st'[n] = "Released" => subs'[n] = {})
BY DEF MachineStep, Stays, ReleasedIsEmpty

LEMMA MsgTaskStep ==
    ASSUME TypeOK, ReleasedIsEmpty, MsgTask, NEW n \in Nifs
    PROVE  MachineStep(n) /\ Taken(n)
<1> DEFINE Good == MachineStep(n) /\ (st'[n] = "Released" => subs'[n] = {})
<1>1. ASSUME NEW kind, Receive(kind),
             kind \notin {"AtlOpenSuccess", "AtlOpenFailed", "AtlClosed"}, Good
      PROVE  MachineStep(n) /\ Taken(n)
  BY <1>1 DEF Receive, Taken
<1>2. CASE NifInit
  <2>1. Good BY <1>2, IdleStep DEF NifInit
  <2> QED BY <1>1, <1>2, <2>1 DEF NifInit
<1>3. CASE RequestATL
  <2>1. Receive("RequestATL") BY <1>3 DEF RequestATL
  <2>2. Head(msgq).nif \in Nifs BY <2>1, ReceiveType
  <2>3. Good BY <1>3, <2>2, SubscribeStep, IdleStep DEF RequestATL
  <2> QED BY <1>1, <2>1, <2>3
<1>4. CASE ReleaseATL
  <2>1. Good BY <1>4, UnsubscribeStep, IdleStep DEF ReleaseATL, Nifs
  <2> QED BY <1>1, <1>4, <2>1 DEF ReleaseATL
<1>5. CASE RequestBIT
  <2>1. Receive("RequestBIT") BY <1>5 DEF RequestBIT
  <2>2. Head(msgq).nif \in Nifs BY <2>1, ReceiveType
  <2>3. Good BY <1>5, <2>2, SubscribeStep, IdleStep DEF RequestBIT
  <2> QED BY <1>1, <2>1, <2>3
<1>6. CASE ReleaseBIT
  <2>1. Receive("ReleaseBIT") BY <1>6 DEF ReleaseBIT
  <2>2. Head(msgq).nif \in Nifs BY <2>1, ReceiveType
  <2>3. Good BY <1>6, <2>2, UnsubscribeStep, IdleStep DEF ReleaseBIT
  <2> QED BY <1>1, <2>1, <2>3
<1>7. CASE AtlOpenSuccess
  <2>1. Head(msgq).nif = agnss /\ Head(msgq).kind = "AtlOpenSuccess" /\ agnss \in Nifs
    BY <1>7, ReceiveType DEF AtlOpenSuccess, Receive, Nifs
  <2>2. Granted(agnss) BY <1>7, <2>1 DEF AtlOpenSuccess
  <2>3. CASE n = agnss
    BY <2>1, <2>2, <2>3
       DEF Granted, MachineStep, Stays, IsGranted, Taken, TypeOK, ReleasedIsEmpty
  <2>4. CASE n # agnss
    BY <2>1, <2>2, <2>4 DEF Granted, MachineStep, Stays, Taken, TypeOK, ReleasedIsEmpty
  <2> QED BY <2>3, <2>4
<1>8. CASE AtlClosed
  <2>1. Head(msgq).nif = agnss /\ Head(msgq).kind = "AtlClosed" /\ agnss \in Nifs
    BY <1>8, ReceiveType DEF AtlClosed, Receive, Nifs
  <2>2. Released(agnss) BY <1>8, <2>1 DEF AtlClosed
  <2>3. CASE n = agnss
    BY <2>1, <2>2, <2>3
       DEF Released, DropAll, MachineStep, Stays, Ends, Taken, TypeOK, ReleasedIsEmpty
  <2>4. CASE n # agnss
    BY <2>1, <2>2, <2>4 DEF Released, DropAll, MachineStep, Stays, Taken, TypeOK, ReleasedIsEmpty
  <2> QED BY <2>3, <2>4
<1>9. CASE AtlOpenFailed
  <2>1. Head(msgq).nif = agnss /\ Head(msgq).kind = "AtlOpenFailed" /\ agnss \in Nifs
    BY <1>9, ReceiveType DEF AtlOpenFailed, Receive, Nifs
  <2>2. Denied(agnss) BY <1>9, <2>1 DEF AtlOpenFailed
  <2>3. CASE n = agnss
    BY <2>1, <2>2, <2>3
       DEF Denied, DropAll, MachineStep, Stays, Ends, Taken, TypeOK, ReleasedIsEmpty
  <2>4. CASE n # agnss
    BY <2>1, <2>2, <2>4 DEF Denied, DropAll, MachineStep, Stays, Taken, TypeOK, ReleasedIsEmpty
  <2> QED BY <2>3, <2>4
<1>10. CASE Ssr
  <2>1. Good BY <1>10, IdleStep DEF Ssr, machines
  <2> QED BY <1>1, <1>10, <2>1 DEF Ssr
<1>11. CASE EngineUp
  <2>1. Good BY <1>11 DEF EngineUp, MachineStep, Stays
  <2> QED BY <1>1, <1>11, <2>1 DEF EngineUp
<1> QED BY <1>2, <1>3, <1>4, <1>5, <1>6, <1>7, <1>8, <1>9, <1>10, <1>11 DEF MsgTask

-----------------------------------------------------------------------------
\* What the SUPL machine does upon news of the internet link is noted.
LEMMA StrayStep ==
    ASSUME MsgTask, strayed \in BOOLEAN
    PROVE  /\ strayed => strayed'
           /\ Head(msgq).kind \in {"AtlOpenSuccess", "AtlClosed", "AtlOpenFailed"}
                 /\ Head(msgq).about = internet /\ st' # st => strayed'
           /\ nameless' = nameless
<1>1. CASE AtlOpenSuccess \/ AtlClosed \/ AtlOpenFailed
  BY <1>1 DEF AtlOpenSuccess, AtlClosed, AtlOpenFailed, Delivered, Receive
<1>2. CASE NifInit \/ RequestATL \/ ReleaseATL \/ RequestBIT \/ ReleaseBIT \/ Ssr \/ EngineUp
  BY <1>2 DEF NifInit, RequestATL, ReleaseATL, RequestBIT, ReleaseBIT, Ssr, EngineUp,
              Receive, machines
<1> QED BY <1>1, <1>2 DEF MsgTask

-----------------------------------------------------------------------------
(***************************************************************************)
(* The inductive invariant.  PendingIsAnswered and AcquiredIsBacked are    *)
(* not inductive: a queued or unhandled message may be about to be         *)
(* overtaken by what stands behind it, so the invariant says in which      *)
(* order they stand.                                                       *)
(***************************************************************************)
IsAnswer(m, n) == m.about = n /\ m.kind \in {"AtlOpenSuccess", "AtlOpenFailed"}
IsGrant(m, n) == m.about = n /\ m.kind = "AtlOpenSuccess"
IsClose(m, n) == m.about = n /\ m.kind = "AtlClosed"

\* In Pending the last call the framework will handle is the request, or all
\* calls are handled and the answer is on its way.
PendingInv ==
    st[agnss] = "Pending" /\ ~nameless =>
        \/ calls[agnss] # <<>> /\ calls[agnss][Len(calls[agnss])] = "REQUEST"
        \/ /\ calls[agnss] = <<>>
           /\ \/ conn[agnss] = "opening"
              \/ \E i \in 1 .. Len(msgq) : IsAnswer(msgq[i], agnss)

\* The link of n is open, or its close is queued behind position i.
BackedBy(n, i) ==
    \/ conn[n] = "open"
    \/ \E j \in 1 .. Len(msgq) : j > i /\ IsClose(msgq[j], n)

\* Every queued grant, and every grant taken, has its link or its close.
BackedInv ==
    /\ st[agnss] = "Acquired" => \E n \in Bearers : BackedBy(n, 0)
    /\ \A n \in Nifs : \A i \in 1 .. Len(msgq) : IsGrant(msgq[i], n) => BackedBy(n, i)

AgpsInv == TypeOK /\ ReleasedIsEmpty /\ PendingInv /\ BackedInv

LEMMA SendFacts ==
    ASSUME TypeOK, NEW m \in Msg, Send(m)
    PROVE  /\ Len(msgq) \in Nat /\ Len(msgq') = Len(msgq) + 1
           /\ \A i \in 1 .. Len(msgq) : msgq'[i] = msgq[i]
           /\ msgq'[Len(msgq) + 1] = m
BY DEF Send, TypeOK

LEMMA ReceiveFacts ==
    ASSUME TypeOK, msgq # <<>>, msgq' = Tail(msgq)
    PROVE  /\ Len(msgq) \in Nat /\ Len(msgq) >= 1 /\ Len(msgq') = Len(msgq) - 1
           /\ \A i \in 1 .. Len(msgq') : msgq'[i] = msgq[i + 1]
           /\ Head(msgq) = msgq[1]
BY DEF TypeOK

LEMMA MsgTaskReceives ==
    ASSUME MsgTask
    PROVE  msgq # <<>> /\ msgq' = Tail(msgq) /\ conn' = conn
BY DEF MsgTask, NifInit, RequestATL, ReleaseATL, RequestBIT, ReleaseBIT,
       AtlOpenSuccess, AtlClosed, AtlOpenFailed, Ssr, EngineUp, Receive

\* A close behind the head moves up with the queue.
LEMMA BackedReceive ==
    ASSUME TypeOK, MsgTask, NEW n \in Nifs, NEW i \in Nat, BackedBy(n, i + 1)
    PROVE  BackedBy(n, i)'
<1> USE MsgTaskReceives, ReceiveFacts
<1>1. CASE conn[n] = "open" BY <1>1 DEF BackedBy
<1>2. CASE \E j \in 1 .. Len(msgq) : j > i + 1 /\ IsClose(msgq[j], n)
  <2>1. PICK j \in 1 .. Len(msgq) : j > i + 1 /\ IsClose(msgq[j], n) BY <1>2
  <2>2. j - 1 \in 1 .. Len(msgq') /\ j - 1 > i /\ msgq'[j - 1] = msgq[j]
    BY <2>1
  <2>3. IsClose(msgq'[j - 1], n) BY <2>1, <2>2
  <2> QED BY <2>2, <2>3 DEF BackedBy, IsClose
<1> QED BY <1>1, <1>2 DEF BackedBy

\* A message put behind the queue hides nothing, whatever the link does, as
\* long as an open link is not closed without a word.
LEMMA BackedSend ==
    ASSUME TypeOK, NEW m \in Msg, Send(m), NEW n \in Nifs, NEW i \in 0 .. Len(msgq),
           BackedBy(n, i), conn[n] = "open" => conn'[n] = "open" \/ IsClose(m, n)
    PROVE  BackedBy(n, i)'
<1> USE SendFacts
<1>1. CASE conn'[n] = "open" BY <1>1 DEF BackedBy
<1>2. CASE conn[n] = "open" /\ IsClose(m, n)
  <2>1. Len(msgq) + 1 \in 1 .. Len(msgq') /\ Len(msgq) + 1 > i OBVIOUS
  <2> QED BY <1>2, <2>1 DEF BackedBy, IsClose
<1>3. CASE \E j \in 1 .. Len(msgq) : j > i /\ IsClose(msgq[j], n)
  <2>1. PICK j \in 1 .. Len(msgq) : j > i /\ IsClose(msgq[j], n) BY <1>3
  <2>2. j \in 1 .. Len(msgq') /\ msgq'[j] = msgq[j] OBVIOUS
  <2> QED BY <2>1, <2>2 DEF BackedBy, IsClose
<1> QED BY <1>1, <1>2, <1>3 DEF BackedBy

LEMMA BackedMsgTask ==
    ASSUME AgpsInv, MsgTask
    PROVE  BackedInv'
<1>1. agnss \in Nifs /\ TypeOK /\ BackedInv /\ MachineStep(agnss) /\ Taken(agnss)
  BY MsgTaskStep DEF AgpsInv, Nifs
<1>2. /\ msgq # <<>> /\ msgq' = Tail(msgq) /\ conn' = conn
      /\ Len(msgq) \in Nat /\ Len(msgq) >= 1 /\ Len(msgq') = Len(msgq) - 1
      /\ \A i \in 1 .. Len(msgq') : msgq'[i] = msgq[i + 1]
      /\ Head(msgq) = msgq[1]
  BY <1>1, MsgTaskReceives, ReceiveFacts
<1>3. Bearers \subseteq Nifs /\ \A n \in Bearers : n \in Bearers'
  BY <1>1, StrayStep DEF Bearers, TypeOK
<1>4. ASSUME st'[agnss] = "Acquired" PROVE \E n \in Bearers' : BackedBy(n, 0)'
  <2>1. CASE IsGranted(agnss)
    <3>1. Receive("AtlOpenSuccess")
      BY <2>1 DEF IsGranted, MsgTask, NifInit, RequestATL, ReleaseATL, RequestBIT, ReleaseBIT,
         AtlOpenSuccess, AtlClosed, AtlOpenFailed, Ssr, EngineUp, Receive
    <3>2. PICK n \in Nifs : n = Head(msgq).about BY <1>1, <3>1, ReceiveType
    <3>3. IsGrant(msgq[1], n) BY <1>2, <2>1, <3>2 DEF IsGranted, IsGrant
    <3>4. BackedBy(n, 0 + 1) BY <1>1, <1>2, <3>2, <3>3 DEF BackedInv
    <3>5. BackedBy(n, 0)' BY <1>1, <3>2, <3>4, BackedReceive
    <3>6. n = internet => strayed'
      BY <1>1, <2>1, <3>2, StrayStep DEF IsGranted, TypeOK
    <3>7. n \in Bearers' BY <3>2, <3>6 DEF Bearers, Nifs
    <3> QED BY <3>5, <3>7
  <2>2. CASE Stays(agnss)
    <3>1. PICK n \in Bearers : BackedBy(n, 0) BY <1>1, <1>4, <2>2 DEF BackedInv, Stays
    <3>2. ~ IsClose(msgq[1], n) BY <1>1, <1>2, <1>4 DEF Taken, IsClose
    <3>3. BackedBy(n, 0 + 1) BY <1>2, <3>1, <3>2 DEF BackedBy
    <3>4. BackedBy(n, 0)' BY <1>1, <1>3, <3>1, <3>3, BackedReceive
    <3> QED BY <1>3, <3>1, <3>4
  <2> QED BY <1>1, <1>4, <2>1, <2>2 DEF MachineStep, Asks, GivesBack, Ends
<1>5. ASSUME NEW n \in Nifs, NEW i \in 1 .. Len(msgq'), IsGrant(msgq'[i], n)
      PROVE  BackedBy(n, i)'
  <2>1. i + 1 \in 1 .. Len(msgq) /\ msgq'[i] = msgq[i + 1] BY <1>2
  <2>2. IsGrant(msgq[i + 1], n) BY <1>5, <2>1
  <2>3. BackedBy(n, i + 1) BY <1>1, <2>1, <2>2 DEF BackedInv
  <2> QED BY <1>1, <2>3, BackedReceive
<1> QED BY <1>4, <1>5 DEF BackedInv, IsGrant

LEMMA PendingMsgTask ==
    ASSUME AgpsInv, MsgTask
    PROVE  PendingInv'
<1> DEFINE n == agnss
<1>0. n \in Nifs BY DEF Nifs
<1> SUFFICES ASSUME st'[n] = "Pending", ~nameless
             PROVE  \/ calls'[n] # <<>> /\ calls'[n][Len(calls'[n])] = "REQUEST"
                    \/ /\ calls'[n] = <<>>
                       /\ \/ conn'[n] = "opening"
                          \/ \E i \in 1 .. Len(msgq') : IsAnswer(msgq'[i], n)
    BY StrayStep DEF PendingInv, IsAnswer, AgpsInv, TypeOK
<1>1. TypeOK /\ PendingInv /\ MachineStep(n) /\ Taken(n) BY <1>0, MsgTaskStep DEF AgpsInv
<1>2. /\ conn' = conn
      /\ Len(msgq) \in Nat /\ Len(msgq) >= 1 /\ Len(msgq') = Len(msgq) - 1
      /\ \A i \in 1 .. Len(msgq') : msgq'[i] = msgq[i + 1]
      /\ Head(msgq) = msgq[1]
  BY <1>1, MsgTaskReceives, ReceiveFacts
<1>3. CASE Asks(n)
  <2>1. calls[n] \in Seq({"REQUEST", "RELEASE"}) BY <1>0, <1>1 DEF TypeOK
  <2> QED BY <1>3, <2>1 DEF Asks
<1>4. CASE Stays(n)
  <2>1. ~ IsAnswer(msgq[1], n) BY <1>1, <1>2 DEF Taken, IsAnswer
  <2>2. CASE calls[n] = <<>> /\ \E i \in 1 .. Len(msgq) : IsAnswer(msgq[i], n)
    <3>1. PICK i \in 1 .. Len(msgq) : IsAnswer(msgq[i], n) BY <2>2
    <3>2. i # 1 BY <2>1, <3>1
    <3>3. i - 1 \in 1 .. Len(msgq') /\ msgq'[i - 1] = msgq[i] BY <1>2, <3>2
    <3> QED BY <1>4, <2>2, <3>1, <3>3 DEF Stays
  <2> QED BY <1>1, <1>2, <1>4, <2>2 DEF Stays, PendingInv
<1> QED BY <1>1, <1>3, <1>4 DEF MachineStep, GivesBack, IsGranted, Ends

\* A message other than a grant, put in the queue while the machines stand still.
LEMMA SendStep ==
    ASSUME AgpsInv, NEW m \in Msg, Send(m), UNCHANGED <<machines, calls, conn, nameless>>,
           m.kind \notin {"AtlOpenSuccess"}
    PROVE  ReleasedIsEmpty' /\ PendingInv' /\ BackedInv'
<1> USE SendFacts DEF AgpsInv
<1>0. UNCHANGED <<st, subs, strayed>> /\ Bearers' = Bearers /\ Bearers \subseteq Nifs
  BY DEF machines, Bearers, Nifs
<1>1. ReleasedIsEmpty' BY <1>0 DEF ReleasedIsEmpty
<1>2. PendingInv'
  <2> SUFFICES ASSUME NEW i \in 1 .. Len(msgq), IsAnswer(msgq[i], agnss)
               PROVE  \E j \in 1 .. Len(msgq') : IsAnswer(msgq'[j], agnss)
    BY <1>0 DEF PendingInv, IsAnswer
  <2>1. i \in 1 .. Len(msgq') /\ msgq'[i] = msgq[i] OBVIOUS
  <2> QED BY <2>1
<1>3. BackedInv'
  <2>1. ASSUME st'[agnss] = "Acquired" PROVE \E n \in Bearers' : BackedBy(n, 0)'
    <3>1. PICK n \in Bearers : BackedBy(n, 0) BY <1>0, <2>1 DEF BackedInv
    <3>2. n \in Nifs /\ 0 \in 0 .. Len(msgq) BY <1>0
    <3>3. BackedBy(n, 0)' BY <3>1, <3>2, BackedSend
    <3> QED BY <1>0, <3>3
  <2>2. ASSUME NEW n \in Nifs, NEW i \in 1 .. Len(msgq'), IsGrant(msgq'[i], n)
        PROVE  BackedBy(n, i)'
    <3>1. i \in 1 .. Len(msgq) /\ msgq'[i] = msgq[i] BY <2>2 DEF IsGrant
    <3>2. BackedBy(n, i) BY <2>2, <3>1 DEF BackedInv
    <3> QED BY <3>1, <3>2, BackedSend
  <2> QED BY <2>1, <2>2 DEF BackedInv, IsGrant
<1> QED BY <1>1, <1>2, <1>3

LEMMA ClientStep ==
    ASSUME AgpsInv, NEW c \in Clients, NEW n \in Nifs, Ask(c, n) \/ Leave(c)
    PROVE  ReleasedIsEmpty' /\ PendingInv' /\ BackedInv'
<1>1. CASE Ask(c, n)
  <2> DEFINE m == Message(IF c \in Atl THEN "RequestATL" ELSE "RequestBIT", c, n)
  <2>1. m \in Msg /\ m.kind \notin {"AtlOpenSuccess"} BY DEF Message, Msg
  <2> HIDE DEF m
  <2> QED BY <1>1, <2>1, SendStep DEF Ask, machines, m
<1>2. CASE Leave(c)
  <2> DEFINE m == IF c \in Atl THEN Message("ReleaseATL", c, NoNif)
                               ELSE Message("ReleaseBIT", c, BitNif)
  <2>1. m \in Msg /\ m.kind \notin {"AtlOpenSuccess"}
    BY AgpsAssumption DEF Message, Msg
  <2> HIDE DEF m
  <2> QED BY <1>2, <2>1, SendStep DEF Leave, machines, m
<1> QED BY <1>1, <1>2

LEMMA RestartStep ==
    ASSUME AgpsInv, ModemCrash \/ UpcallSsr \/ UpcallEngineUp
    PROVE  ReleasedIsEmpty' /\ PendingInv' /\ BackedInv'
<1>1. CASE ModemCrash
  BY <1>1 DEF AgpsInv, ModemCrash, machines, ReleasedIsEmpty, PendingInv, BackedInv, BackedBy,
              Bearers
<1>2. CASE UpcallSsr
  <2> DEFINE m == Message("Ssr", NoId, NoNif)
  <2>1. m \in Msg /\ m.kind \notin {"AtlOpenSuccess"} BY DEF Message, Msg
  <2> HIDE DEF m
  <2> QED BY <1>2, <2>1, SendStep DEF UpcallSsr, machines, m
<1>3. CASE UpcallEngineUp
  <2> DEFINE m == Message("EngineUp", NoId, NoNif)
  <2>1. m \in Msg /\ m.kind \notin {"AtlOpenSuccess"} BY DEF Message, Msg
  <2> HIDE DEF m
  <2> QED BY <1>3, <2>1, SendStep DEF UpcallEngineUp, machines, m
<1> QED BY <1>1, <1>2, <1>3

\* The framework puts an answer in the queue.
LEMMA AnswerBacked ==
    ASSUME AgpsInv, NEW n \in Nifs, NEW m \in Msg, Send(m), m.about = n,
           UNCHANGED <<st, strayed>>, \A k \in Nifs : k # n => conn'[k] = conn[k],
           conn[n] = "open" => conn'[n] = "open" \/ IsClose(m, n),
           m.kind = "AtlOpenSuccess" => conn'[n] = "open"
    PROVE  BackedInv'
<1> USE SendFacts DEF AgpsInv
<1>0. Bearers' = Bearers /\ Bearers \subseteq Nifs BY DEF Bearers, Nifs
<1>1. ASSUME NEW k \in Nifs, NEW i \in 0 .. Len(msgq), BackedBy(k, i) PROVE BackedBy(k, i)'
  BY <1>1, BackedSend
<1>2. ASSUME st'[agnss] = "Acquired" PROVE \E k \in Bearers' : BackedBy(k, 0)'
  <2>1. PICK k \in Bearers : BackedBy(k, 0) BY <1>2 DEF BackedInv
  <2>2. k \in Nifs /\ 0 \in 0 .. Len(msgq) BY <1>0
  <2>3. BackedBy(k, 0)' BY <1>1, <2>1, <2>2
  <2> QED BY <1>0, <2>3
<1>3. ASSUME NEW k \in Nifs, NEW i \in 1 .. Len(msgq'), IsGrant(msgq'[i], k)
      PROVE  BackedBy(k, i)'
  <2>1. CASE i = Len(msgq) + 1
    BY <1>3, <2>1 DEF IsGrant, BackedBy
  <2>2. CASE i # Len(msgq) + 1
    <3>1. i \in 1 .. Len(msgq) /\ msgq'[i] = msgq[i] BY <2>2
    <3>2. BackedBy(k, i) BY <1>3, <3>1 DEF BackedInv
    <3> QED BY <1>1, <3>1, <3>2
  <2> QED BY <2>1, <2>2
<1> QED BY <1>2, <1>3 DEF BackedInv, IsGrant

\* The framework acts without a word, and closes no link.
LEMMA QuietBacked ==
    ASSUME BackedInv, UNCHANGED <<msgq, st, strayed>>,
           \A k \in Nifs : conn[k] = "open" => conn'[k] = "open"
    PROVE  BackedInv'
BY DEF BackedInv, BackedBy, Bearers, IsGrant, IsClose, Nifs

\* Taking the head of the calls does not take what stands last.
LEMMA LastCall ==
    ASSUME NEW s \in Seq({"REQUEST", "RELEASE"}), s # <<>>, NEW a,
           NEW t \in Seq({"REQUEST", "RELEASE"}), t = Tail(s), s[Len(s)] = a
    PROVE  \/ t = <<>> /\ Head(s) = a
           \/ t # <<>> /\ t[Len(t)] = a
<1>1. Len(s) \in Nat /\ Len(s) >= 1 /\ Len(t) = Len(s) - 1
  OBVIOUS
<1>2. CASE Len(s) = 1
  <2>1. Len(t) = 0 BY <1>1, <1>2
  <2>2. t = <<>> BY <1>1, <2>1
  <2> QED BY <1>2, <2>2
<1>3. CASE Len(s) > 1
  <2>1. Len(t) \in 1 .. Len(t) /\ t[Len(t)] = s[Len(t) + 1] BY <1>1, <1>3
  <2>2. t[Len(t)] = a BY <1>1, <2>1
  <2>3. Len(<<>>) = 0 BY EmptySeq
  <2>4. t # <<>>
    <3>1. Len(t) # Len(<<>>) BY <1>1, <1>3, <2>3
    <3> QED BY <3>1, Zenon
  <2> QED BY <2>2, <2>4
<1> QED BY <1>1, <1>2, <1>3

\* What the framework does with the calls of the SUPL NIF: it leaves them, or
\* takes the first; a request it takes opens the link or is answered.
CallTaken(n) ==
    \/ calls'[n] = calls[n]
    \/ calls[n] # <<>> /\ calls'[n] = Tail(calls[n]) /\ Head(calls[n]) = "RELEASE"
    \/ /\ calls[n] # <<>> /\ calls'[n] = Tail(calls[n])
       /\ \/ conn'[n] = "opening"
          \/ \E i \in 1 .. Len(msgq') : IsAnswer(msgq'[i], n)

\* The machine that waits keeps waiting for something.
LEMMA FrameworkPending ==
    ASSUME TypeOK, PendingInv, NEW n \in Nifs, n = agnss, UNCHANGED st, nameless => nameless',
           calls' \in [Nifs -> Seq({"REQUEST", "RELEASE"})],
           nameless' \/ CallTaken(n),
           \/ nameless' \/ calls'[n] # calls[n]
           \/ conn[n] = "opening" =>
                 conn'[n] = "opening" \/ \E i \in 1 .. Len(msgq') : IsAnswer(msgq'[i], n),
           \A i \in 1 .. Len(msgq) : i \in 1 .. Len(msgq') /\ msgq'[i] = msgq[i]
    PROVE  PendingInv'
<1> SUFFICES ASSUME st[n] = "Pending", ~nameless, ~nameless'
             PROVE  \/ calls'[n] # <<>> /\ calls'[n][Len(calls'[n])] = "REQUEST"
                    \/ /\ calls'[n] = <<>>
                       /\ \/ conn'[n] = "opening"
                          \/ \E i \in 1 .. Len(msgq') : IsAnswer(msgq'[i], n)
  BY DEF PendingInv, IsAnswer
<1>1. (\E i \in 1 .. Len(msgq) : IsAnswer(msgq[i], n)) =>
         \E i \in 1 .. Len(msgq') : IsAnswer(msgq'[i], n)
  OBVIOUS
<1>2. CASE calls'[n] = calls[n] BY <1>1, <1>2 DEF PendingInv
<1>3. CASE calls'[n] # calls[n]
  <2>1. /\ calls[n] # <<>> /\ calls'[n] = Tail(calls[n])
        /\ \/ Head(calls[n]) = "RELEASE" \/ conn'[n] = "opening"
           \/ \E i \in 1 .. Len(msgq') : IsAnswer(msgq'[i], n)
    BY <1>3 DEF CallTaken
  <2>2. calls[n][Len(calls[n])] = "REQUEST" BY <2>1 DEF PendingInv
  <2>3. calls[n] \in Seq({"REQUEST", "RELEASE"}) /\ calls'[n] \in Seq({"REQUEST", "RELEASE"})
    BY DEF TypeOK
  <2>4. \/ calls'[n] = <<>> /\ Head(calls[n]) = "REQUEST"
        \/ calls'[n] # <<>> /\ calls'[n][Len(calls'[n])] = "REQUEST"
    BY <2>1, <2>2, <2>3, LastCall
  <2> QED BY <2>1, <2>4
<1> QED BY <1>2, <1>3

\* Each step of the framework, by what it says and what it does.
FwSays(n, m) ==
    /\ Send(m) /\ m \in Msg /\ m.about = n
    /\ m.kind \in {"AtlOpenSuccess", "AtlOpenFailed", "AtlClosed"}

Worded(n, m) ==
    /\ FwSays(n, m) /\ UNCHANGED nameless
    /\ m.kind = "AtlOpenSuccess" => conn'[n] = "open"
    /\ conn[n] = "open" => conn'[n] = "open" \/ m.kind = "AtlClosed"
    /\ conn[n] = "opening" /\ calls'[n] = calls[n] => m.kind # "AtlClosed"
    /\ \/ calls'[n] = calls[n]
       \/ /\ calls[n] # <<>> /\ calls'[n] = Tail(calls[n])
          /\ m.kind = IF Head(calls[n]) = "REQUEST" THEN "AtlOpenSuccess" ELSE "AtlClosed"

Wordless(n) ==
    /\ UNCHANGED msgq /\ (conn[n] = "open" => conn'[n] = "open")
    /\ \/ n = agnss /\ nameless'
       \/ n # agnss
       \/ /\ calls[n] # <<>> /\ calls'[n] = Tail(calls[n])
          /\ Head(calls[n]) = "REQUEST" => conn'[n] = "opening"

LEMMA FrameworkCases ==
    ASSUME TypeOK, NEW n \in Nifs, Framework(n) \/ FwLost(n)
    PROVE  /\ UNCHANGED <<machines, cs, modem, hasty>>
           /\ nameless => nameless'
           /\ \A k \in Nifs : k # n => conn'[k] = conn[k] /\ calls'[k] = calls[k]
           /\ Wordless(n) \/ \E m \in Msg : Worded(n, m)
<1> USE DEF TypeOK, Worded, Wordless
<1>1. \A kind \in {"AtlOpenSuccess", "AtlOpenFailed", "AtlClosed"} :
         /\ Answer(kind, n) \in Msg /\ Answer(kind, n).about = n /\ Answer(kind, n).kind = kind
         /\ Send(Answer(kind, n)) => FwSays(n, Answer(kind, n))
  BY DEF Answer, Msg, FwSays
<1>2. CASE FwRequest(n)
  <2>1. CASE conn[n] = "open" /\ TellOpen(n) /\ UNCHANGED conn
    <3>1. CASE Send(Answer("AtlOpenSuccess", n)) /\ UNCHANGED nameless
      BY <1>1, <1>2, <2>1, <3>1 DEF FwRequest, NextCall
    <3>2. CASE nameless' = (nameless \/ n = agnss) /\ UNCHANGED msgq
      BY <1>2, <2>1, <3>2 DEF FwRequest, NextCall
    <3> QED BY <2>1, <3>1, <3>2 DEF TellOpen
  <2>2. CASE conn[n] # "open"
    BY <1>2, <2>2 DEF FwRequest, NextCall
  <2> QED BY <1>2, <2>1, <2>2 DEF FwRequest
<1>3. CASE FwRelease(n)
  <2>1. /\ calls[n] # <<>> /\ calls'[n] = Tail(calls[n]) /\ Head(calls[n]) = "RELEASE"
        /\ UNCHANGED <<machines, cs, modem, hasty, nameless>>
        /\ \A k \in Nifs : k # n => conn'[k] = conn[k] /\ calls'[k] = calls[k]
    BY <1>3 DEF FwRelease, NextCall
  <2>2. CASE conn[n] = "closed"
    BY <1>3, <2>1, <2>2 DEF FwRelease
  <2>3. CASE conn[n] # "closed"
    <3>1. Send(Answer("AtlClosed", n)) BY <1>3, <2>3 DEF FwRelease
    <3>2. FwSays(n, Answer("AtlClosed", n)) /\ Answer("AtlClosed", n).kind = "AtlClosed"
          /\ Answer("AtlClosed", n) \in Msg
      BY <1>1, <3>1
    <3>3. calls'[n] # calls[n]
      <4>1. Len(calls'[n]) # Len(calls[n]) BY <2>1
      <4> QED BY <4>1, Zenon
    <3>4. Worded(n, Answer("AtlClosed", n)) BY <2>1, <3>2, <3>3
    <3> QED BY <2>1, <3>2, <3>4
  <2> QED BY <2>2, <2>3
<1>4. CASE FwOpened(n)
  <2>1. CASE Send(Answer("AtlOpenSuccess", n)) /\ UNCHANGED nameless
    BY <1>1, <1>4, <2>1 DEF FwOpened
  <2>2. CASE nameless' = (nameless \/ n = agnss) /\ UNCHANGED msgq
    BY <1>4, <2>2 DEF FwOpened
  <2> QED BY <1>4, <2>1, <2>2 DEF FwOpened, TellOpen
<1>5. CASE FwFailed(n)
  BY <1>1, <1>5 DEF FwFailed
<1>6. CASE FwLost(n)
  BY <1>1, <1>6 DEF FwLost
<1> QED BY <1>2, <1>3, <1>4, <1>5, <1>6 DEF Framework

LEMMA FrameworkStep ==
    ASSUME AgpsInv, NEW n \in Nifs, Framework(n) \/ FwLost(n)
    PROVE  ReleasedIsEmpty' /\ PendingInv' /\ BackedInv'
<1>1. TypeOK /\ TypeOK' /\ ReleasedIsEmpty /\ PendingInv /\ BackedInv
  BY FrameworkType DEF AgpsInv
<1>2. UNCHANGED <<st, subs, strayed>> /\ (nameless => nameless')
  BY <1>1, FrameworkCases DEF machines
<1>3. ReleasedIsEmpty' BY <1>1, <1>2 DEF ReleasedIsEmpty
<1>4. \A k \in Nifs : k # n => conn'[k] = conn[k] /\ calls'[k] = calls[k]
  BY <1>1, FrameworkCases
<1>5. calls' \in [Nifs -> Seq({"REQUEST", "RELEASE"})] /\ agnss \in Nifs
  BY <1>1 DEF TypeOK, Nifs
<1>6. ASSUME \A i \in 1 .. Len(msgq) : i \in 1 .. Len(msgq') /\ msgq'[i] = msgq[i], n # agnss
      PROVE  PendingInv'
  <2>1. conn'[agnss] = conn[agnss] /\ calls'[agnss] = calls[agnss] BY <1>4, <1>5, <1>6
  <2> QED BY <1>1, <1>2, <1>5, <1>6, <2>1, FrameworkPending DEF CallTaken
<1>7. ASSUME NEW m \in Msg, Worded(n, m)
      PROVE  PendingInv' /\ BackedInv'
  <2>1. Send(m) /\ m.about = n BY <1>7 DEF FwSays, Worded
  <2>2. BackedInv' BY <1>2, <1>4, <1>7, <2>1, AnswerBacked DEF IsClose, Worded
  <2>3. /\ \A i \in 1 .. Len(msgq) : i \in 1 .. Len(msgq') /\ msgq'[i] = msgq[i]
        /\ Len(msgq) + 1 \in 1 .. Len(msgq') /\ msgq'[Len(msgq) + 1] = m
    BY <1>1, <2>1, SendFacts
  <2>4. IsAnswer(m, n) => \E i \in 1 .. Len(msgq') : IsAnswer(msgq'[i], n) BY <2>3
  <2>5. IsAnswer(m, n) <=> m.kind # "AtlClosed" BY <1>7 DEF FwSays, IsAnswer, Worded
  <2>6. calls[n] \in Seq({"REQUEST", "RELEASE"}) BY <1>1 DEF TypeOK
  <2>7. calls[n] # <<>> => Head(calls[n]) \in {"REQUEST", "RELEASE"} BY <2>6
  <2>8. CallTaken(n) BY <1>7, <2>4, <2>5, <2>7 DEF CallTaken, Worded
  <2>9. PendingInv'
    <3>1. CASE n = agnss
      BY <1>1, <1>2, <1>5, <1>7, <2>3, <2>4, <2>5, <2>8, <3>1, FrameworkPending DEF Worded
    <3> QED BY <1>6, <2>3, <3>1
  <2> QED BY <2>2, <2>9
<1>8. ASSUME Wordless(n)
      PROVE  PendingInv' /\ BackedInv'
  <2>1. BackedInv' BY <1>1, <1>2, <1>4, <1>8, QuietBacked DEF Wordless
  <2>2. PendingInv'
    <3>1. CASE n # agnss BY <1>6, <1>8, <3>1 DEF Wordless
    <3>2. CASE nameless' BY <3>2 DEF PendingInv
    <3>3. CASE /\ n = agnss /\ calls[n] # <<>> /\ calls'[n] = Tail(calls[n])
               /\ Head(calls[n]) = "REQUEST" => conn'[n] = "opening"
      <4>1. calls[n] \in Seq({"REQUEST", "RELEASE"}) BY <1>1 DEF TypeOK
      <4>2. Head(calls[n]) \in {"REQUEST", "RELEASE"} BY <3>3, <4>1
      <4>3. calls'[n] # calls[n]
        <5>1. Len(calls'[n]) # Len(calls[n]) BY <3>3, <4>1
        <5> QED BY <5>1, Zenon
      <4> QED BY <1>1, <1>2, <1>5, <1>8, <3>3, <4>2, <4>3, FrameworkPending
            DEF CallTaken, Wordless
    <3> QED BY <1>8, <3>1, <3>2, <3>3 DEF Wordless
  <2> QED BY <2>1, <2>2
<1> QED BY <1>1, <1>3, <1>7, <1>8, FrameworkCases

LEMMA InvStep == AgpsInv /\ [Next]_vars => AgpsInv'
<1> SUFFICES ASSUME AgpsInv, [Next]_vars PROVE ReleasedIsEmpty' /\ PendingInv' /\ BackedInv'
  BY TypeStep DEF AgpsInv
<1>1. CASE MsgTask
  <2>1. ReleasedIsEmpty' BY <1>1, MsgTaskStep DEF AgpsInv, Taken, ReleasedIsEmpty
  <2> QED BY <1>1, <2>1, BackedMsgTask, PendingMsgTask
<1>2. CASE \E c \in Clients : Leave(c) \/ \E n \in Nifs : Ask(c, n)
  BY <1>2, ClientStep DEF Nifs
<1>3. CASE \E n \in Nifs : Framework(n) \/ FwLost(n)
  BY <1>3, FrameworkStep
<1>4. CASE ModemCrash \/ UpcallSsr \/ UpcallEngineUp
  BY <1>4, RestartStep
<1>5. CASE UNCHANGED vars \/ Crashed
  BY <1>5 DEF vars, Crashed, AgpsInv, ReleasedIsEmpty, PendingInv, BackedInv, BackedBy, Bearers
<1> QED BY <1>1, <1>2, <1>3, <1>4, <1>5 DEF Next

LEMMA InvInit == Init => AgpsInv
<1> SUFFICES ASSUME Init PROVE AgpsInv
  OBVIOUS
<1>1. TypeOK BY TypeInit
<1>2. st[agnss] = "Released" BY DEF Init, Nifs
<1>3. ReleasedIsEmpty /\ PendingInv BY <1>2 DEF Init, ReleasedIsEmpty, PendingInv
<1>4. BackedInv
  <2>1. Len(msgq) = 1 /\ msgq[1].kind = "NifInit" BY DEF Init, Message
  <2> QED BY <1>2, <2>1 DEF BackedInv, IsGrant
<1> QED BY <1>1, <1>3, <1>4 DEF AgpsInv

LEMMA InvCorrect == Spec => []AgpsInv
BY InvInit, InvStep, PTL DEF Spec

\* A machine in Released has no subscribers, for any number of clients and
\* restarts: the branch of AgpsReleasedState::onRsrcEvent that logs
\* "subscriber list not empty!!!" is dead code for AGpsServicer's NIFs.
THEOREM ReleasedCorrect == Spec => []ReleasedIsEmpty
<1>1. AgpsInv => ReleasedIsEmpty BY DEF AgpsInv
<1> QED BY <1>1, InvCorrect, PTL

\* While the SUPL machine is in Pending an answer about its own link is coming,
\* whatever news of the internet link, releases and restarts crossed before, and
\* unless its link once opened without an APN name.
THEOREM PendingCorrect == Spec => []PendingIsAnswered
<1>1. AgpsInv => PendingIsAnswered
  <2> SUFFICES ASSUME AgpsInv, st[agnss] = "Pending", ~nameless
               PROVE  AnswerComes(agnss)
    BY DEF PendingIsAnswered
  <2>1. msgq \in Seq(Msg) /\ calls[agnss] \in Seq({"REQUEST", "RELEASE"})
    BY DEF AgpsInv, TypeOK, Nifs
  <2>2. CASE calls[agnss] # <<>> /\ calls[agnss][Len(calls[agnss])] = "REQUEST"
    <3>1. Len(calls[agnss]) \in DOMAIN calls[agnss] BY <2>1, <2>2
    <3> QED BY <2>2, <3>1 DEF AnswerComes
  <2>3. CASE \E i \in 1 .. Len(msgq) : IsAnswer(msgq[i], agnss)
    BY <2>1, <2>3 DEF IsAnswer, Queued, AnswerComes
  <2> QED BY <2>2, <2>3 DEF AgpsInv, PendingInv, AnswerComes
<1> QED BY <1>1, InvCorrect, PTL

\* When the SUPL machine is in Acquired its link is open or the news of its
\* close queued; the internet link may stand in only after a stray answer.
THEOREM AcquiredCorrect == Spec => []AcquiredIsBacked
<1>1. AgpsInv => AcquiredIsBacked
  <2> SUFFICES ASSUME AgpsInv, st[agnss] = "Acquired"
               PROVE  \E n \in Bearers : conn[n] = "open" \/ Queued(n, {"AtlClosed"})
    BY DEF AcquiredIsBacked
  <2>1. msgq \in Seq(Msg) BY DEF AgpsInv, TypeOK
  <2>2. PICK n \in Bearers : BackedBy(n, 0) BY DEF AgpsInv, BackedInv
  <2> QED BY <2>1, <2>2 DEF BackedBy, IsClose, Queued
<1> QED BY <1>1, InvCorrect, PTL

-----------------------------------------------------------------------------
(***************************************************************************)
(* LinkIsReleased, of the SUPL NIF.  While clients release only what they  *)
(* were granted, the modem does not restart and no news of the internet    *)
(* link moves the machine, calls, link and queued answers of the NIF go    *)
(* through fixed phases (PhaseInv).  A release that reached a machine in   *)
(* Pending would break them, so the invariant follows each client's own    *)
(* messages and lists too (StandsInv): a queued release finds its machine  *)
(* granted, or finds nothing.                                              *)
(***************************************************************************)
Calm == ~hasty /\ ~strayed /\ restarts = 0

\* Nothing of a restart is on its way before the first one.
UpInv ==
    restarts = 0 => upcall = "idle" /\ \A i \in 1 .. Len(msgq) : msgq[i].kind # "EngineUp"

IsRequest(m, c) == m.id = c /\ m.kind \in {"RequestATL", "RequestBIT"}
IsRelease(m, c) == m.id = c /\ m.kind \in {"ReleaseATL", "ReleaseBIT"}
Requested(c) == \E i \in 1 .. Len(msgq) : IsRequest(msgq[i], c)
Releasing(c) == \E i \in 1 .. Len(msgq) : IsRelease(msgq[i], c)
Listed(c) == \E n \in Nifs : c \in subs[n]

\* The queue holds at most one request of a client, behind its releases.
OrderInv ==
    \A c \in Clients : \A i, j \in 1 .. Len(msgq) :
        /\ IsRequest(msgq[i], c) /\ IsRequest(msgq[j], c) => i = j
        /\ IsRequest(msgq[i], c) /\ IsRelease(msgq[j], c) => j < i

\* A client is on no list before its request is handled and after it has been
\* told of the end, never on two lists, and what it releases is granted.
Stands(c) ==
    /\ Requested(c) => cs[c] = "asked" /\ ~ Listed(c)
    /\ cs[c] = "idle" => ~ Listed(c)
    /\ \A n, m \in Nifs : c \in subs[n] /\ c \in subs[m] => n = m
    /\ Releasing(c) \/ cs[c] = "up" =>
          \A n \in Nifs : c \in subs[n] => st[n] = "Acquired"

StandsInv == \A c \in Clients : Stands(c)

NoAnswer(n) == \A i \in 1 .. Len(msgq) : ~ IsAnswer(msgq[i], n)

\* The link of n is closed, or open with no close queued behind position i.
Settled(n, i) ==
    \/ conn[n] = "closed"
    \/ conn[n] = "open" /\ \A j \in 1 .. Len(msgq) : j > i => ~ IsClose(msgq[j], n)

\* Position i holds the only queued answer, and the link agrees with it.
AnswerAt(n, i) ==
    /\ IsAnswer(msgq[i], n)
    /\ \A j \in 1 .. Len(msgq) : IsAnswer(msgq[j], n) => j = i
    /\ Settled(n, i)
    /\ msgq[i].kind = "AtlOpenFailed" => conn[n] = "closed"

Answered(n) == calls[n] = <<>> /\ \E i \in 1 .. Len(msgq) : AnswerAt(n, i)

Unanswered(n) ==
    /\ NoAnswer(n)
    /\ \/ calls[n] = <<"RELEASE", "REQUEST">> /\ conn[n] # "opening"
       \/ calls[n] = <<"REQUEST">> /\ conn[n] = "closed"
       \/ calls[n] = <<>> /\ conn[n] = "opening"

GivenBack(n) ==
    /\ NoAnswer(n)
    /\ \/ calls[n] = <<"RELEASE">> /\ conn[n] # "opening"
       \/ calls[n] = <<>> /\ conn[n] = "closed"

InUse(n) == NoAnswer(n) /\ calls[n] = <<>> /\ Settled(n, 0)

\* The link has opened without a name: nothing is coming.
Unnamed(n) == nameless /\ NoAnswer(n) /\ calls[n] = <<>> /\ conn[n] # "opening"

Phase(n) ==
    /\ st[n] = "Released" => GivenBack(n)
    /\ st[n] = "Pending" => Unanswered(n) \/ Answered(n) \/ Unnamed(n)
    /\ st[n] = "Acquired" => InUse(n)

PhaseInv == Phase(agnss)

CalmInv == TypeOK /\ ReleasedIsEmpty /\ UpInv /\ (Calm => OrderInv /\ StandsInv /\ PhaseInv)

-----------------------------------------------------------------------------
(* The queue. *)

LEMMA UpStep ==
    ASSUME CalmInv, [Next]_vars
    PROVE  UpInv'
<1> USE DEF CalmInv
<1> SUFFICES ASSUME restarts' = 0
             PROVE  upcall' = "idle" /\ \A i \in 1 .. Len(msgq') : msgq'[i].kind # "EngineUp"
  BY DEF UpInv
<1>1. ASSUME NEW m \in Msg, Send(m), m.kind # "EngineUp", UNCHANGED <<restarts, upcall>>
      PROVE  upcall' = "idle" /\ \A i \in 1 .. Len(msgq') : msgq'[i].kind # "EngineUp"
  <2>1. ASSUME NEW i \in 1 .. Len(msgq') PROVE msgq'[i].kind # "EngineUp"
    <3>1. CASE i = Len(msgq) + 1 BY <1>1, <3>1, SendFacts
    <3>2. CASE i # Len(msgq) + 1
      <4>1. i \in 1 .. Len(msgq) /\ msgq'[i] = msgq[i] BY <1>1, <3>2, SendFacts
      <4> QED BY <1>1, <4>1 DEF UpInv
    <3> QED BY <3>1, <3>2
  <2> QED BY <1>1, <2>1 DEF UpInv
<1>2. CASE MsgTask
  <2>1. UNCHANGED <<restarts, upcall>>
    BY <1>2 DEF MsgTask, NifInit, RequestATL, ReleaseATL, RequestBIT, ReleaseBIT,
       AtlOpenSuccess, AtlClosed, AtlOpenFailed, Delivered, Ssr, EngineUp, modem
  <2>2. ASSUME NEW i \in 1 .. Len(msgq') PROVE msgq'[i].kind # "EngineUp"
    <3>1. i + 1 \in 1 .. Len(msgq) /\ msgq'[i] = msgq[i + 1]
      BY <1>2, MsgTaskReceives, ReceiveFacts
    <3> QED BY <2>1, <3>1 DEF UpInv
  <2> QED BY <2>1, <2>2 DEF UpInv
<1>3. ASSUME NEW c \in Clients, NEW n \in Nifs, Ask(c, n)
      PROVE  upcall' = "idle" /\ \A i \in 1 .. Len(msgq') : msgq'[i].kind # "EngineUp"
  <2> DEFINE m == Message(IF c \in Atl THEN "RequestATL" ELSE "RequestBIT", c, n)
  <2>1. m \in Msg /\ m.kind # "EngineUp" BY DEF Message, Msg
  <2> HIDE DEF m
  <2> QED BY <1>1, <1>3, <2>1 DEF Ask, modem, m
<1>4. ASSUME NEW c \in Clients, Leave(c)
      PROVE  upcall' = "idle" /\ \A i \in 1 .. Len(msgq') : msgq'[i].kind # "EngineUp"
  <2> DEFINE m == IF c \in Atl THEN Message("ReleaseATL", c, NoNif)
                               ELSE Message("ReleaseBIT", c, BitNif)
  <2>1. m \in Msg /\ m.kind # "EngineUp" BY AgpsAssumption DEF Message, Msg
  <2> HIDE DEF m
  <2> QED BY <1>1, <1>4, <2>1 DEF Leave, modem, m
<1>5. ASSUME NEW n \in Nifs, Framework(n) \/ FwLost(n)
      PROVE  upcall' = "idle" /\ \A i \in 1 .. Len(msgq') : msgq'[i].kind # "EngineUp"
  <2>1. UNCHANGED <<restarts, upcall>>
    BY <1>5 DEF Framework, FwRequest, FwRelease, FwOpened, FwFailed, FwLost, NextCall, modem
  <2>2. CASE UNCHANGED msgq BY <2>1, <2>2 DEF UpInv
  <2>3. CASE \E m \in Msg : Send(m) /\ m.kind # "EngineUp" BY <1>1, <2>1, <2>3
  <2>4. UNCHANGED msgq \/ \E m \in Msg : Send(m) /\ m.kind # "EngineUp"
    <3>1. TypeOK OBVIOUS
    <3>2. Wordless(n) \/ \E m \in Msg : Worded(n, m) BY <1>5, <3>1, FrameworkCases
    <3>3. Wordless(n) => UNCHANGED msgq BY DEF Wordless
    <3>4. ASSUME NEW m \in Msg, Worded(n, m) PROVE Send(m) /\ m.kind # "EngineUp"
      BY <3>4 DEF Worded, FwSays
    <3> QED BY <3>2, <3>3, <3>4
  <2> QED BY <2>2, <2>3, <2>4
<1>6. CASE ModemCrash BY <1>6 DEF ModemCrash, TypeOK
<1>7. CASE UpcallSsr \/ UpcallEngineUp
  BY <1>7 DEF UpcallSsr, UpcallEngineUp, UpInv
<1>8. CASE UNCHANGED vars \/ Crashed BY <1>8 DEF vars, Crashed, UpInv
<1> QED BY <1>2, <1>3, <1>4, <1>5, <1>6, <1>7, <1>8 DEF Next

\* What taking the head does to a client's messages.
LEMMA TakenFrom ==
    ASSUME TypeOK, OrderInv, MsgTask, NEW c \in Clients
    PROVE  /\ Requested(c)' => Requested(c) /\ ~ IsRequest(Head(msgq), c)
           /\ Releasing(c)' => Releasing(c) /\ ~ IsRequest(Head(msgq), c)
           /\ IsRequest(Head(msgq), c) => Requested(c)
           /\ IsRelease(Head(msgq), c) => Releasing(c)
<1>1. /\ Len(msgq) \in Nat /\ Len(msgq) >= 1 /\ Len(msgq') = Len(msgq) - 1
      /\ \A i \in 1 .. Len(msgq') : msgq'[i] = msgq[i + 1]
      /\ Head(msgq) = msgq[1]
  BY MsgTaskReceives, ReceiveFacts
<1>2. 1 \in 1 .. Len(msgq) BY <1>1
<1>3. ASSUME NEW i \in 1 .. Len(msgq') PROVE i + 1 \in 1 .. Len(msgq) /\ i + 1 # 1 /\ ~ (i + 1 < 1)
  BY <1>1
<1>4. Requested(c)' => Requested(c) /\ ~ IsRequest(Head(msgq), c)
  <2> SUFFICES ASSUME NEW i \in 1 .. Len(msgq'), IsRequest(msgq'[i], c)
               PROVE  Requested(c) /\ ~ IsRequest(msgq[1], c)
    BY <1>1 DEF Requested, IsRequest
  <2>1. IsRequest(msgq[i + 1], c) BY <1>1
  <2> QED BY <1>2, <1>3, <2>1 DEF Requested, OrderInv
<1>5. Releasing(c)' => Releasing(c) /\ ~ IsRequest(Head(msgq), c)
  <2> SUFFICES ASSUME NEW i \in 1 .. Len(msgq'), IsRelease(msgq'[i], c)
               PROVE  Releasing(c) /\ ~ IsRequest(msgq[1], c)
    BY <1>1 DEF Releasing, IsRelease
  <2>1. IsRelease(msgq[i + 1], c) BY <1>1
  <2> QED BY <1>2, <1>3, <2>1 DEF Releasing, OrderInv
<1> QED BY <1>1, <1>2, <1>4, <1>5 DEF Requested, Releasing

LEMMA OrderReceive ==
    ASSUME TypeOK, OrderInv, MsgTask
    PROVE  OrderInv'
<1>1. /\ Len(msgq) \in Nat /\ Len(msgq) >= 1 /\ Len(msgq') = Len(msgq) - 1
      /\ \A i \in 1 .. Len(msgq') : msgq'[i] = msgq[i + 1]
  BY MsgTaskReceives, ReceiveFacts
<1> SUFFICES ASSUME NEW c \in Clients, NEW i \in 1 .. Len(msgq'), NEW j \in 1 .. Len(msgq')
             PROVE  /\ IsRequest(msgq'[i], c) /\ IsRequest(msgq'[j], c) => i = j
                    /\ IsRequest(msgq'[i], c) /\ IsRelease(msgq'[j], c) => j < i
  BY DEF OrderInv, IsRequest, IsRelease
<1>2. i + 1 \in 1 .. Len(msgq) /\ j + 1 \in 1 .. Len(msgq) BY <1>1
<1>3. /\ IsRequest(msgq[i + 1], c) /\ IsRequest(msgq[j + 1], c) => i + 1 = j + 1
      /\ IsRequest(msgq[i + 1], c) /\ IsRelease(msgq[j + 1], c) => j + 1 < i + 1
  BY <1>2 DEF OrderInv
<1> QED BY <1>1, <1>3

\* A message put behind the queue.
LEMMA SentTo ==
    ASSUME TypeOK, NEW m \in Msg, Send(m), NEW c \in Clients
    PROVE  /\ Requested(c)' <=> Requested(c) \/ IsRequest(m, c)
           /\ Releasing(c)' <=> Releasing(c) \/ IsRelease(m, c)
<1>1. /\ Len(msgq) \in Nat /\ Len(msgq') = Len(msgq) + 1
      /\ \A i \in 1 .. Len(msgq) : msgq'[i] = msgq[i]
      /\ msgq'[Len(msgq) + 1] = m
  BY SendFacts
<1>2. \A i : i \in 1 .. Len(msgq') <=> i \in 1 .. Len(msgq) \/ i = Len(msgq) + 1
  BY <1>1
<1>3. Requested(c)' <=> Requested(c) \/ IsRequest(m, c)
  BY <1>1, <1>2, Zenon DEF Requested, IsRequest
<1>4. Releasing(c)' <=> Releasing(c) \/ IsRelease(m, c)
  BY <1>1, <1>2, Zenon DEF Releasing, IsRelease
<1> QED BY <1>3, <1>4

LEMMA OrderSend ==
    ASSUME TypeOK, OrderInv, NEW m \in Msg, Send(m),
           \A c \in Clients : IsRequest(m, c) \/ IsRelease(m, c) => ~ Requested(c)
    PROVE  OrderInv'
<1>1. /\ Len(msgq) \in Nat /\ Len(msgq') = Len(msgq) + 1
      /\ \A i \in 1 .. Len(msgq) : msgq'[i] = msgq[i]
      /\ msgq'[Len(msgq) + 1] = m
  BY SendFacts
<1> SUFFICES ASSUME NEW c \in Clients, NEW i \in 1 .. Len(msgq'), NEW j \in 1 .. Len(msgq')
             PROVE  /\ IsRequest(msgq'[i], c) /\ IsRequest(msgq'[j], c) => i = j
                    /\ IsRequest(msgq'[i], c) /\ IsRelease(msgq'[j], c) => j < i
  BY DEF OrderInv, IsRequest, IsRelease
<1>2. CASE i \in 1 .. Len(msgq) /\ j \in 1 .. Len(msgq)
  BY <1>1, <1>2 DEF OrderInv
<1>3. CASE i = Len(msgq) + 1 /\ j \in 1 .. Len(msgq)
  <2>1. IsRequest(msgq'[i], c) => ~ IsRequest(msgq'[j], c) BY <1>1, <1>3 DEF Requested
  <2> QED BY <1>1, <1>3, <2>1
<1>4. CASE i \in 1 .. Len(msgq) /\ j = Len(msgq) + 1
  <2>1. IsRequest(msgq'[i], c) => ~ IsRequest(msgq'[j], c) /\ ~ IsRelease(msgq'[j], c)
    BY <1>1, <1>4 DEF Requested
  <2> QED BY <2>1
<1>5. CASE i = Len(msgq) + 1 /\ j = Len(msgq) + 1
  BY <1>1, <1>5 DEF IsRequest, IsRelease
<1> QED BY <1>1, <1>2, <1>3, <1>4, <1>5

-----------------------------------------------------------------------------
(* The clients. *)

\* What the queue does to d's messages while c's request, if any, is taken.
Moves(d) ==
    /\ Requested(d)' => Requested(d) /\ ~ IsRequest(Head(msgq), d)
    /\ Releasing(d)' => Releasing(d) /\ ~ IsRequest(Head(msgq), d)

LEMMA SubscribeStands ==
    ASSUME TypeOK, NEW n \in Nifs, NEW c \in Clients, IsRequest(Head(msgq), c), Requested(c),
           Subscribe(n, c), NEW d \in Clients, Stands(c), Stands(d), Moves(d)
    PROVE  Stands(d)'
<1>1. \A k \in Nifs : d \in subs'[k] <=> d \in subs[k] \/ (k = n /\ d = c)
  BY DEF Subscribe, TypeOK
<1>2. \A k \in Nifs : st[k] = "Acquired" => st'[k] = "Acquired"
  BY DEF Subscribe, TypeOK
<1>3. CASE d = c
  <2>1. cs[c] = "asked" /\ \A k \in Nifs : c \notin subs[k] BY DEF Stands, Listed
  <2>2. ~ Requested(d)' /\ ~ Releasing(d)' BY <1>3 DEF Moves
  <2>3. cs'[c] # "idle" /\ (cs'[c] = "up" => st[n] = "Acquired")
    BY <2>1 DEF Subscribe, Tell, React, TypeOK
  <2>4. \A k \in Nifs : d \in subs'[k] => k = n BY <1>1, <1>3, <2>1
  <2> QED BY <1>2, <1>3, <2>2, <2>3, <2>4 DEF Stands
<1>4. CASE d # c
  <2>1. cs'[d] = cs[d] BY <1>4 DEF Subscribe, Tell, TypeOK
  <2>2. Listed(d)' <=> Listed(d) BY <1>1, <1>4 DEF Listed
  <2> QED BY <1>1, <1>2, <1>4, <2>1, <2>2 DEF Stands, Moves
<1> QED BY <1>3, <1>4

LEMMA UnsubscribeStands ==
    ASSUME TypeOK, NEW n \in Nifs, NEW c \in Clients, c \in subs[n],
           Unsubscribe(n, c), NEW d \in Clients, Stands(d), Moves(d)
    PROVE  Stands(d)'
<1>1. \A k \in Nifs : d \in subs'[k] <=> d \in subs[k] /\ ~ (k = n /\ d = c)
  BY DEF Unsubscribe, TypeOK
<1>2. CASE d = c
  <2>1. \A k \in Nifs : d \notin subs'[k] BY <1>1, <1>2 DEF Stands
  <2>2. ~ Requested(d)' BY <1>2 DEF Moves, Stands, Listed
  <2> QED BY <2>1, <2>2 DEF Stands, Listed
<1>3. CASE d # c
  <2>1. cs'[d] = cs[d] BY <1>3 DEF Unsubscribe, Tell, TypeOK
  <2>2. Listed(d)' <=> Listed(d) BY <1>1, <1>3 DEF Listed
  <2>3. ASSUME NEW k \in Nifs, d \in subs[k] PROVE st'[k] = st[k]
    BY <1>3, <2>3 DEF Unsubscribe, SendRsrcRequest, TypeOK
  <2> QED BY <1>1, <1>3, <2>1, <2>2, <2>3 DEF Stands, Moves
<1> QED BY <1>2, <1>3

LEMMA GrantedStands ==
    ASSUME TypeOK, NEW n \in Nifs, Granted(n), NEW d \in Clients, Stands(d), Moves(d)
    PROVE  Stands(d)'
<1>1. subs' = subs /\ (Listed(d)' <=> Listed(d)) BY DEF Granted, Listed
<1>2. \A k \in Nifs : st[k] = "Acquired" => st'[k] = "Acquired"
  BY DEF Granted, TypeOK
<1>3. CASE cs'[d] = cs[d]
  BY <1>1, <1>2, <1>3 DEF Stands, Moves
<1>4. CASE cs'[d] # cs[d]
  <2>1. d \in subs[n] /\ cs'[d] = "up" /\ st'[n] = "Acquired"
    BY <1>4 DEF Granted, Tell, React, TypeOK
  <2>2. ~ Requested(d)' BY <2>1 DEF Moves, Stands, Listed
  <2>3. \A k \in Nifs : d \in subs'[k] => k = n BY <1>1, <2>1 DEF Stands
  <2> QED BY <2>1, <2>2, <2>3 DEF Stands
<1> QED BY <1>3, <1>4

LEMMA DropStands ==
    ASSUME TypeOK, NEW n \in Nifs, NEW status, DropAll(n, status),
           NEW d \in Clients, Stands(d), Moves(d)
    PROVE  Stands(d)'
<1>1. \A k \in Nifs : d \in subs'[k] <=> d \in subs[k] /\ k # n
  BY DEF DropAll, TypeOK
<1>2. CASE d \in subs[n]
  <2>1. \A k \in Nifs : d \notin subs'[k] BY <1>1, <1>2 DEF Stands
  <2>2. ~ Requested(d)' BY <1>2 DEF Moves, Stands, Listed
  <2> QED BY <2>1, <2>2 DEF Stands, Listed
<1>3. CASE d \notin subs[n]
  <2>1. cs'[d] = cs[d] BY <1>3 DEF DropAll, Tell, TypeOK
  <2>2. Listed(d)' <=> Listed(d) BY <1>1, <1>3 DEF Listed
  <2>3. ASSUME NEW k \in Nifs, d \in subs[k] PROVE st'[k] = st[k]
    BY <1>3, <2>3 DEF DropAll, TypeOK
  <2> QED BY <1>1, <1>3, <2>1, <2>2, <2>3 DEF Stands, Moves
<1> QED BY <1>2, <1>3

\* The lists stand still and d is told nothing, or d is on no list and is not
\* waiting for an answer any more.
LEMMA UnlistedStands ==
    ASSUME UNCHANGED <<st, subs>>, NEW d \in Clients, Stands(d), Moves(d),
           cs'[d] = cs[d] \/ (~ Listed(d) /\ ~ Requested(d)')
    PROVE  Stands(d)'
<1>1. Listed(d)' <=> Listed(d) BY DEF Listed
<1>2. CASE cs'[d] = cs[d] BY <1>1, <1>2 DEF Stands, Moves
<1>3. CASE ~ Listed(d) /\ ~ Requested(d)'
  BY <1>1, <1>3 DEF Stands, Listed
<1> QED BY <1>2, <1>3

LEMMA StandsReceive ==
    ASSUME CalmInv, Calm, MsgTask
    PROVE  StandsInv'
<1> SUFFICES ASSUME NEW d \in Clients PROVE Stands(d)'
  BY DEF StandsInv
<1>1. TypeOK /\ OrderInv /\ StandsInv /\ Stands(d) BY DEF CalmInv, StandsInv
<1>2. Moves(d) BY <1>1, TakenFrom DEF Moves
<1>3. ASSUME NEW c \in Clients, IsRequest(Head(msgq), c) PROVE Requested(c) /\ Stands(c)
  BY <1>1, <1>3, TakenFrom DEF StandsInv
<1>4. CASE UNCHANGED <<st, subs, cs>>
  BY <1>1, <1>2, <1>4, UnlistedStands
<1>5. CASE RequestATL
  <2> DEFINE c == Head(msgq).id
             n == Head(msgq).nif
  <2>1. Receive("RequestATL") BY <1>5 DEF RequestATL
  <2>2. c \in Clients /\ n \in Nifs BY <1>1, <2>1, ReceiveType
  <2>3. IsRequest(Head(msgq), c) BY <2>1 DEF Receive, IsRequest
  <2>4. Requested(c) /\ Stands(c) BY <1>3, <2>2, <2>3
  <2>5. CASE n \in made
    <3>1. Subscribe(n, c) BY <1>5, <2>5 DEF RequestATL
    <3> QED BY <1>1, <1>2, <2>2, <2>3, <2>4, <3>1, SubscribeStands
  <2>6. CASE n \notin made
    <3>1. Tell({c}, "DENIED") /\ UNCHANGED <<st, subs>> BY <1>5, <2>6 DEF RequestATL
    <3>2. d # c => cs'[d] = cs[d] BY <1>1, <3>1 DEF Tell, TypeOK
    <3>3. d = c => ~ Listed(d) /\ ~ Requested(d)' BY <1>2, <2>3, <2>4 DEF Stands, Moves
    <3> QED BY <1>1, <1>2, <3>1, <3>2, <3>3, UnlistedStands
  <2> QED BY <2>5, <2>6
<1>6. CASE ReleaseATL
  <2> DEFINE c == Head(msgq).id
  <2>1. Receive("ReleaseATL") BY <1>6 DEF ReleaseATL
  <2>2. c \in Clients BY <1>1, <2>1, ReceiveType
  <2>3. CASE \E n \in Nifs : c \in subs[n] /\ Unsubscribe(n, c)
    BY <1>1, <1>2, <2>2, <2>3, UnsubscribeStands
  <2>4. CASE ~ Listed(c) /\ Tell({c}, "NOTFOUND") /\ UNCHANGED <<st, subs>>
    <3>1. cs'[d] # cs[d] => d = c /\ cs[d] = "leaving"
      BY <1>1, <2>4 DEF Tell, React, TypeOK
    <3>2. cs[d] = "leaving" => ~ Requested(d)' BY <1>1, <1>2 DEF Stands, Moves
    <3> QED BY <1>1, <1>2, <2>4, <3>1, <3>2, UnlistedStands
  <2> QED BY <1>6, <2>3, <2>4 DEF ReleaseATL, Nifs, Listed
<1>7. CASE RequestBIT
  <2> DEFINE c == Head(msgq).id
             n == Head(msgq).nif
  <2>1. Receive("RequestBIT") BY <1>7 DEF RequestBIT
  <2>2. c \in Clients /\ n \in Nifs BY <1>1, <2>1, ReceiveType
  <2>3. IsRequest(Head(msgq), c) BY <2>1 DEF Receive, IsRequest
  <2>4. Requested(c) /\ Stands(c) BY <1>3, <2>2, <2>3
  <2>5. CASE n \in made
    <3>1. Subscribe(n, c) BY <1>7, <2>5 DEF RequestBIT
    <3> QED BY <1>1, <1>2, <2>2, <2>3, <2>4, <3>1, SubscribeStands
  <2>6. CASE n \notin made BY <1>4, <1>7, <2>6 DEF RequestBIT
  <2> QED BY <2>5, <2>6
<1>8. CASE ReleaseBIT
  <2> DEFINE c == Head(msgq).id
             n == Head(msgq).nif
  <2>1. Receive("ReleaseBIT") BY <1>8 DEF ReleaseBIT
  <2>2. c \in Clients /\ n \in Nifs BY <1>1, <2>1, ReceiveType
  <2>3. CASE c \in subs[n]
    <3>1. Unsubscribe(n, c) BY <1>8, <2>3 DEF ReleaseBIT
    <3> QED BY <1>1, <1>2, <2>2, <2>3, <3>1, UnsubscribeStands
  <2>4. CASE c \notin subs[n] BY <1>4, <1>8, <2>4 DEF ReleaseBIT
  <2> QED BY <2>3, <2>4
<1>9. CASE AtlOpenSuccess
  <2>1. Head(msgq).nif \in Nifs BY <1>1, <1>9, ReceiveType DEF AtlOpenSuccess, Nifs
  <2> QED BY <1>1, <1>2, <1>9, <2>1, GrantedStands DEF AtlOpenSuccess
<1>10. CASE AtlClosed
  <2>1. Head(msgq).nif \in Nifs BY <1>1, <1>10, ReceiveType DEF AtlClosed, Nifs
  <2>2. Released(Head(msgq).nif) BY <1>10 DEF AtlClosed
  <2> QED BY <1>1, <1>2, <1>4, <2>1, <2>2, DropStands DEF Released
<1>11. CASE AtlOpenFailed
  <2>1. Head(msgq).nif \in Nifs BY <1>1, <1>11, ReceiveType DEF AtlOpenFailed, Nifs
  <2>2. Denied(Head(msgq).nif) BY <1>11 DEF AtlOpenFailed
  <2> QED BY <1>1, <1>2, <1>4, <2>1, <2>2, DropStands DEF Denied
<1>12. CASE NifInit \/ Ssr
  BY <1>4, <1>12 DEF NifInit, Ssr, machines
<1>13. CASE EngineUp
  <2>1. Head(msgq).kind = "EngineUp" /\ msgq # <<>> BY <1>13 DEF EngineUp, Receive
  <2>2. 1 \in 1 .. Len(msgq) /\ Head(msgq) = msgq[1]
    BY <1>1, <2>1, MsgTaskReceives, ReceiveFacts
  <2> QED BY <2>1, <2>2 DEF CalmInv, Calm, UpInv
<1> QED BY <1>5, <1>6, <1>7, <1>8, <1>9, <1>10, <1>11, <1>12, <1>13 DEF MsgTask

\* Only a client itself sends about it.
LEMMA ClientStands ==
    ASSUME TypeOK, OrderInv, StandsInv, NEW c \in Clients, NEW n \in Nifs,
           Ask(c, n) \/ (Leave(c) /\ cs[c] = "up")
    PROVE  OrderInv' /\ StandsInv'
<1> DEFINE asks   == Message(IF c \in Atl THEN "RequestATL" ELSE "RequestBIT", c, n)
           leaves == IF c \in Atl THEN Message("ReleaseATL", c, NoNif)
                                  ELSE Message("ReleaseBIT", c, BitNif)
<1>1. asks \in Msg /\ leaves \in Msg BY AgpsAssumption DEF Message, Msg
<1>2. \A d \in Clients : /\ IsRequest(asks, d) <=> d = c
                         /\ ~ IsRelease(asks, d)
                         /\ IsRelease(leaves, d) <=> d = c
                         /\ ~ IsRequest(leaves, d)
  BY DEF Message, IsRequest, IsRelease
<1> HIDE DEF asks, leaves
<1>3. UNCHANGED <<st, subs>> BY DEF Ask, Leave, machines
<1>4. \A d \in Clients : Listed(d)' <=> Listed(d) BY <1>3 DEF Listed
<1>5. CASE Ask(c, n)
  <2>1. Send(asks) /\ cs[c] = "idle" /\ cs' = [cs EXCEPT ![c] = "asked"]
    BY <1>5 DEF Ask, asks
  <2>2. ~ Requested(c) /\ ~ Listed(c) BY <2>1 DEF StandsInv, Stands
  <2>3. OrderInv' BY <1>1, <1>2, <2>1, <2>2, OrderSend
  <2>4. ASSUME NEW d \in Clients PROVE Stands(d)'
    <3>1. /\ Requested(d)' <=> Requested(d) \/ d = c
          /\ Releasing(d)' <=> Releasing(d)
      BY <1>1, <1>2, <2>1, SentTo
    <3>2. CASE d = c
      <4>1. cs'[d] = "asked" BY <2>1, <3>2 DEF TypeOK
      <4> QED BY <1>3, <1>4, <2>2, <3>2, <4>1 DEF Stands, Listed
    <3>3. CASE d # c
      <4>1. cs'[d] = cs[d] BY <2>1, <3>3 DEF TypeOK
      <4> QED BY <1>3, <1>4, <3>1, <3>3, <4>1 DEF StandsInv, Stands
    <3> QED BY <3>2, <3>3
  <2> QED BY <2>3, <2>4 DEF StandsInv
<1>6. CASE Leave(c) /\ cs[c] = "up"
  <2>1. Send(leaves) /\ cs[c] = "up" /\ cs' = [cs EXCEPT ![c] = "leaving"]
    BY <1>6 DEF Leave, leaves
  <2>2. ~ Requested(c) BY <2>1 DEF StandsInv, Stands
  <2>3. OrderInv' BY <1>1, <1>2, <2>1, <2>2, OrderSend
  <2>4. ASSUME NEW d \in Clients PROVE Stands(d)'
    <3>1. /\ Requested(d)' <=> Requested(d)
          /\ Releasing(d)' <=> Releasing(d) \/ d = c
      BY <1>1, <1>2, <2>1, SentTo
    <3>2. CASE d = c
      <4>1. cs'[d] = "leaving" BY <2>1, <3>2 DEF TypeOK
      <4>2. Stands(c) BY DEF StandsInv
      <4> QED BY <1>3, <2>1, <2>2, <3>1, <3>2, <4>1, <4>2 DEF Stands
    <3>3. CASE d # c
      <4>1. cs'[d] = cs[d] BY <2>1, <3>3 DEF TypeOK
      <4> QED BY <1>3, <1>4, <3>1, <3>3, <4>1 DEF StandsInv, Stands
    <3> QED BY <3>2, <3>3
  <2> QED BY <2>3, <2>4 DEF StandsInv
<1> QED BY <1>5, <1>6

\* A message about no client changes nothing for the clients.
LEMMA OthersStand ==
    ASSUME TypeOK, OrderInv, StandsInv, NEW m \in Msg, Send(m), UNCHANGED <<st, subs, cs>>,
           m.kind \notin {"RequestATL", "RequestBIT", "ReleaseATL", "ReleaseBIT"}
    PROVE  OrderInv' /\ StandsInv'
<1>1. \A d \in Clients : ~ IsRequest(m, d) /\ ~ IsRelease(m, d)
  BY DEF IsRequest, IsRelease
<1>2. OrderInv' BY <1>1, OrderSend
<1>3. ASSUME NEW d \in Clients PROVE Stands(d)'
  <2>1. (Requested(d)' <=> Requested(d)) /\ (Releasing(d)' <=> Releasing(d))
    BY <1>1, SentTo
  <2>2. Listed(d)' <=> Listed(d) BY DEF Listed
  <2> QED BY <2>1, <2>2 DEF StandsInv, Stands
<1> QED BY <1>2, <1>3 DEF StandsInv

-----------------------------------------------------------------------------
(* The phases of a NIF. *)

\* Which message ends a subscription of the machine of n.
Ended(n) ==
    /\ st[n] = "Pending" /\ st'[n] = "Released" /\ calls'[n] = calls[n] =>
          Head(msgq).kind = "AtlOpenFailed"
    /\ st[n] = "Acquired" /\ st'[n] = "Released" /\ calls'[n] = calls[n] =>
          Head(msgq).kind = "AtlClosed"
    /\ calls'[n] = Append(calls[n], "RELEASE") =>
          \E c \in Clients : c \in subs[n] /\ IsRelease(Head(msgq), c)

LEMMA SameCalls ==
    ASSUME TypeOK, NEW n \in Nifs, calls'[n] = calls[n]
    PROVE  calls'[n] # Append(calls[n], "RELEASE")
<1>1. calls[n] \in Seq({"REQUEST", "RELEASE"}) BY DEF TypeOK
<1>2. Len(Append(calls[n], "RELEASE")) = Len(calls[n]) + 1 /\ Len(calls[n]) \in Nat
  BY <1>1
<1>3. Len(Append(calls[n], "RELEASE")) # Len(calls[n]) BY <1>2
<1> QED BY <1>3, Zenon

LEMMA AsksCalls ==
    ASSUME TypeOK, NEW n \in Nifs
    PROVE  Append(calls[n], "REQUEST") # Append(calls[n], "RELEASE")
<1>1. calls[n] \in Seq({"REQUEST", "RELEASE"}) BY DEF TypeOK
<1>2. /\ Append(calls[n], "REQUEST")[Len(calls[n]) + 1] = "REQUEST"
      /\ Append(calls[n], "RELEASE")[Len(calls[n]) + 1] = "RELEASE"
  BY <1>1
<1> QED BY <1>2

LEMMA MsgTaskEnds ==
    ASSUME TypeOK, MsgTask, NEW n \in Nifs
    PROVE  Ended(n)
<1>1. CASE st'[n] = st[n] /\ calls'[n] = calls[n]
  BY <1>1, SameCalls DEF Ended
<1>2. ASSUME NEW m \in Nifs, NEW c \in Clients, Subscribe(m, c) PROVE Ended(n)
  <2>1. \/ st'[n] = st[n] /\ calls'[n] = calls[n]
        \/ st[n] = "Released" /\ calls'[n] = Append(calls[n], "REQUEST")
    BY <1>2 DEF Subscribe, SendRsrcRequest, TypeOK
  <2> QED BY <1>1, <2>1, AsksCalls DEF Ended
<1>3. ASSUME NEW m \in Nifs, NEW c \in Clients, c \in subs[m], IsRelease(Head(msgq), c),
             Unsubscribe(m, c)
      PROVE  Ended(n)
  <2>1. CASE n # m \/ subs[m] \ {c} # {}
    BY <1>1, <1>3, <2>1 DEF Unsubscribe, SendRsrcRequest, TypeOK
  <2>2. CASE n = m /\ subs[m] \ {c} = {}
    <3>1. calls'[n] = Append(calls[n], "RELEASE")
      BY <1>3, <2>2 DEF Unsubscribe, SendRsrcRequest, TypeOK
    <3>2. calls'[n] # calls[n] BY <3>1, SameCalls
    <3> QED BY <1>3, <2>2, <3>2 DEF Ended
  <2> QED BY <2>1, <2>2
<1>4. CASE NifInit \/ Ssr \/ EngineUp
  BY <1>1, <1>4 DEF NifInit, Ssr, EngineUp, machines
<1>5. CASE RequestATL
  <2>1. Receive("RequestATL") BY <1>5 DEF RequestATL
  <2>2. Head(msgq).id \in Clients /\ Head(msgq).nif \in Nifs BY <2>1, ReceiveType
  <2> QED BY <1>1, <1>2, <1>5, <2>2 DEF RequestATL
<1>6. CASE ReleaseATL
  <2>1. Receive("ReleaseATL") BY <1>6 DEF ReleaseATL
  <2>2. Head(msgq).id \in Clients BY <2>1, ReceiveType
  <2>3. IsRelease(Head(msgq), Head(msgq).id) BY <2>1 DEF Receive, IsRelease
  <2> QED BY <1>1, <1>3, <1>6, <2>2, <2>3 DEF ReleaseATL, Nifs
<1>7. CASE RequestBIT
  <2>1. Receive("RequestBIT") BY <1>7 DEF RequestBIT
  <2>2. Head(msgq).id \in Clients /\ Head(msgq).nif \in Nifs BY <2>1, ReceiveType
  <2> QED BY <1>1, <1>2, <1>7, <2>2 DEF RequestBIT
<1>8. CASE ReleaseBIT
  <2>1. Receive("ReleaseBIT") BY <1>8 DEF ReleaseBIT
  <2>2. Head(msgq).id \in Clients /\ Head(msgq).nif \in Nifs BY <2>1, ReceiveType
  <2>3. IsRelease(Head(msgq), Head(msgq).id) BY <2>1 DEF Receive, IsRelease
  <2> QED BY <1>1, <1>3, <1>8, <2>2, <2>3 DEF ReleaseBIT
<1>9. CASE AtlOpenSuccess
  <2>1. Head(msgq).nif \in Nifs BY <1>9, ReceiveType DEF AtlOpenSuccess, Nifs
  <2>2. calls'[n] = calls[n] /\ (st'[n] = st[n] \/ st'[n] = "Acquired")
    BY <1>9, <2>1 DEF AtlOpenSuccess, Granted, TypeOK
  <2> QED BY <2>2, SameCalls DEF Ended
<1>10. CASE AtlClosed
  <2>1. Head(msgq).nif \in Nifs /\ Head(msgq).kind = "AtlClosed"
    BY <1>10, ReceiveType DEF AtlClosed, Receive, Nifs
  <2>2. calls'[n] = calls[n] /\ (st'[n] = st[n] \/ st[n] = "Acquired")
    BY <1>10, <2>1 DEF AtlClosed, Released, DropAll, TypeOK
  <2> QED BY <2>1, <2>2, SameCalls DEF Ended
<1>11. CASE AtlOpenFailed
  <2>1. Head(msgq).nif \in Nifs /\ Head(msgq).kind = "AtlOpenFailed"
    BY <1>11, ReceiveType DEF AtlOpenFailed, Receive, Nifs
  <2>2. calls'[n] = calls[n] /\ (st'[n] = st[n] \/ st[n] = "Pending")
    BY <1>11, <2>1 DEF AtlOpenFailed, Denied, DropAll, TypeOK
  <2> QED BY <2>1, <2>2, SameCalls DEF Ended
<1> QED BY <1>4, <1>5, <1>6, <1>7, <1>8, <1>9, <1>10, <1>11 DEF MsgTask

LEMMA AppendTwo ==
    ASSUME NEW a, NEW b
    PROVE  Append(<<a>>, b) = <<a, b>>
<1> DEFINE s == Append(<<a>>, b)
           t == <<a, b>>
<1>1. <<a>> \in Seq({a, b}) /\ Len(<<a>>) = 1 /\ <<a>>[1] = a OBVIOUS
<1>2. s \in Seq({a, b}) /\ Len(s) = 2 /\ s[1] = a /\ s[2] = b
  BY <1>1, AppendProperties
<1>3. t \in Seq({a, b}) OBVIOUS
<1>4. Len(t) = 2 /\ t[1] = a /\ t[2] = b OBVIOUS
<1> HIDE DEF s, t
<1>5. \A i \in 1 .. 2 : s[i] = t[i]
  <2> SUFFICES ASSUME NEW i \in 1 .. 2 PROVE s[i] = t[i] OBVIOUS
  <2>1. i = 1 \/ i = 2 OBVIOUS
  <2> QED BY <1>2, <1>4, <2>1
<1>6. s = t BY <1>2, <1>3, <1>4, <1>5, SeqEqual
<1> QED BY <1>6 DEF s, t

LEMMA PhaseReceive ==
    ASSUME CalmInv, Calm, Calm', MsgTask, NEW n \in Nifs, n = agnss
    PROVE  Phase(n)'
<1>1. TypeOK /\ ReleasedIsEmpty /\ StandsInv /\ OrderInv /\ Phase(n)
  BY DEF CalmInv, PhaseInv
<1>2. /\ msgq # <<>> /\ conn' = conn
      /\ Len(msgq) \in Nat /\ Len(msgq) >= 1 /\ Len(msgq') = Len(msgq) - 1
      /\ \A i \in 1 .. Len(msgq') : msgq'[i] = msgq[i + 1]
      /\ Head(msgq) = msgq[1]
  BY <1>1, MsgTaskReceives, ReceiveFacts
<1>3. MachineStep(n) /\ Taken(n) /\ Ended(n) BY <1>1, MsgTaskStep, MsgTaskEnds
\* What moves the machine is news of its own link.
<1>0. ASSUME st'[n] # st[n],
             Head(msgq).kind \in {"AtlOpenSuccess", "AtlClosed", "AtlOpenFailed"}
      PROVE  Head(msgq).about = n
  <2>1. Head(msgq) \in Msg BY <1>1, <1>2 DEF TypeOK
  <2>2. Head(msgq).about \in Nifs BY <1>0, <2>1 DEF Msg
  <2>3. Head(msgq).about # internet
    BY <1>0, <1>1, StrayStep DEF Calm, TypeOK
  <2> QED BY <2>2, <2>3 DEF Nifs
<1>4. NoAnswer(n) => NoAnswer(n)'
  <2> SUFFICES ASSUME NoAnswer(n), NEW i \in 1 .. Len(msgq') PROVE ~ IsAnswer(msgq'[i], n)
    BY DEF NoAnswer, IsAnswer
  <2>1. i + 1 \in 1 .. Len(msgq) BY <1>2
  <2> QED BY <1>2, <2>1 DEF NoAnswer
<1>5. ASSUME NEW i \in Nat, Settled(n, i + 1) PROVE Settled(n, i)'
  <2> SUFFICES ASSUME conn[n] = "open", NEW j \in 1 .. Len(msgq'), j > i
               PROVE  ~ IsClose(msgq'[j], n)
    BY <1>2, <1>5 DEF Settled, IsClose
  <2>1. j + 1 \in 1 .. Len(msgq) /\ j + 1 > i + 1 BY <1>2
  <2> QED BY <1>2, <1>5, <2>1 DEF Settled
<1>6. 1 \in 1 .. Len(msgq) BY <1>2
<1>7. NoAnswer(n) => ~ IsAnswer(msgq[1], n) BY <1>6 DEF NoAnswer
<1>8. CASE Stays(n)
  <2>1. CASE st[n] = "Released"
    BY <1>1, <1>2, <1>4, <1>8, <2>1 DEF Stays, Phase, GivenBack
  <2>2. CASE st[n] = "Acquired"
    <3>1. Settled(n, 0) BY <1>1, <2>2 DEF Phase, InUse
    <3>2. Settled(n, 0 + 1) BY <1>2, <3>1 DEF Settled
    <3>3. Settled(n, 0)' BY <1>5, <3>2
    <3> QED BY <1>1, <1>4, <1>8, <2>2, <3>3 DEF Stays, Phase, InUse
  <2>3. CASE st[n] = "Pending" /\ Unanswered(n)
    BY <1>2, <1>4, <1>8, <2>3 DEF Stays, Phase, Unanswered
  <2>4. CASE st[n] = "Pending" /\ Answered(n)
    <3>1. PICK i \in 1 .. Len(msgq) : AnswerAt(n, i) BY <2>4 DEF Answered
    <3>2. i # 1 BY <1>2, <1>3, <1>8, <2>4, <3>1 DEF Taken, AnswerAt, IsAnswer, Stays
    <3> DEFINE k == i - 1
    <3>3. k \in Nat /\ k \in 1 .. Len(msgq') /\ k + 1 = i /\ msgq'[k] = msgq[i]
      BY <1>2, <3>2
    <3> HIDE DEF k
    <3>4. Settled(n, k)' BY <1>5, <3>1, <3>3 DEF AnswerAt
    <3>5. ASSUME NEW j \in 1 .. Len(msgq'), IsAnswer(msgq'[j], n) PROVE j = k
      <4>1. j + 1 \in 1 .. Len(msgq) /\ msgq'[j] = msgq[j + 1] BY <1>2
      <4>2. j + 1 = i BY <3>1, <3>5, <4>1 DEF AnswerAt
      <4> QED BY <3>3, <4>2
    <3>6. AnswerAt(n, k)'
      BY <1>2, <3>1, <3>3, <3>4, <3>5 DEF AnswerAt, IsAnswer
    <3>7. Answered(n)' BY <1>8, <2>4, <3>3, <3>6 DEF Answered, Stays
    <3> QED BY <1>8, <2>4, <3>7 DEF Phase, Stays
  <2>5. CASE st[n] = "Pending" /\ Unnamed(n)
    <3>1. nameless' = nameless BY <1>1, StrayStep DEF TypeOK
    <3> QED BY <1>2, <1>4, <1>8, <2>5, <3>1 DEF Stays, Phase, Unnamed
  <2> QED BY <1>1, <2>1, <2>2, <2>3, <2>4, <2>5 DEF Phase, TypeOK
<1>9. CASE Asks(n)
  <2>1. GivenBack(n) /\ NoAnswer(n)' BY <1>1, <1>4, <1>9 DEF Asks, Phase, GivenBack
  <2>2. /\ Append(<<>>, "REQUEST") = <<"REQUEST">>
        /\ Append(<<"RELEASE">>, "REQUEST") = <<"RELEASE", "REQUEST">>
    BY AppendTwo
  <2>3. Unanswered(n)' BY <1>2, <1>9, <2>1, <2>2 DEF Asks, GivenBack, Unanswered
  <2> QED BY <1>9, <2>3 DEF Asks, Phase
<1>10. CASE GivesBack(n)
  <2>1. PICK c \in Clients : c \in subs[n] /\ IsRelease(msgq[1], c)
    BY <1>2, <1>3, <1>10 DEF GivesBack, Ended
  <2>2. Releasing(c) BY <1>6, <2>1 DEF Releasing
  <2>3. st[n] = "Acquired" BY <1>1, <2>1, <2>2 DEF StandsInv, Stands
  <2>4. InUse(n) BY <1>1, <2>3 DEF Phase
  <2>5. Append(<<>>, "RELEASE") = <<"RELEASE">> OBVIOUS
  <2>6. GivenBack(n)'
    BY <1>2, <1>4, <1>10, <2>4, <2>5 DEF GivesBack, InUse, Settled, GivenBack
  <2> QED BY <1>10, <2>6 DEF GivesBack, Phase
<1>11. CASE IsGranted(n)
  <2>1. IsAnswer(msgq[1], n) /\ msgq[1].kind = "AtlOpenSuccess"
    BY <1>0, <1>2, <1>11 DEF IsGranted, IsAnswer
  <2>2. Answered(n) BY <1>1, <1>7, <1>11, <2>1 DEF IsGranted, Phase, Unanswered, Unnamed
  <2>3. AnswerAt(n, 1)
    <3>1. PICK i \in 1 .. Len(msgq) : AnswerAt(n, i) BY <2>2 DEF Answered
    <3>2. i = 1 BY <1>6, <2>1, <3>1 DEF AnswerAt
    <3> QED BY <3>1, <3>2
  <2>4. NoAnswer(n)'
    <3> SUFFICES ASSUME NEW i \in 1 .. Len(msgq') PROVE ~ IsAnswer(msgq'[i], n)
      BY DEF NoAnswer, IsAnswer
    <3>1. i + 1 \in 1 .. Len(msgq) /\ i + 1 # 1 BY <1>2
    <3> QED BY <1>2, <2>3, <3>1 DEF AnswerAt
  <2>5. Settled(n, 0 + 1) BY <2>3 DEF AnswerAt
  <2>6. Settled(n, 0)' BY <1>5, <2>5
  <2>7. InUse(n)' BY <1>11, <2>2, <2>4, <2>6 DEF IsGranted, Answered, InUse
  <2> QED BY <1>11, <2>7 DEF IsGranted, Phase
<1>12. CASE Ends(n) /\ ~ Stays(n)
  <2>1. CASE st[n] = "Pending"
    <3>1. IsAnswer(msgq[1], n) /\ msgq[1].kind = "AtlOpenFailed"
      BY <1>0, <1>2, <1>3, <1>12, <2>1 DEF Ends, Ended, IsAnswer
    <3>2. Answered(n) BY <1>1, <1>7, <2>1, <3>1 DEF Phase, Unanswered, Unnamed
    <3>3. AnswerAt(n, 1)
      <4>1. PICK i \in 1 .. Len(msgq) : AnswerAt(n, i) BY <3>2 DEF Answered
      <4>2. i = 1 BY <1>6, <3>1, <4>1 DEF AnswerAt
      <4> QED BY <4>1, <4>2
    <3>4. NoAnswer(n)'
      <4> SUFFICES ASSUME NEW i \in 1 .. Len(msgq') PROVE ~ IsAnswer(msgq'[i], n)
        BY DEF NoAnswer, IsAnswer
      <4>1. i + 1 \in 1 .. Len(msgq) /\ i + 1 # 1 BY <1>2
      <4> QED BY <1>2, <3>3, <4>1 DEF AnswerAt
    <3>5. GivenBack(n)'
      BY <1>2, <1>12, <3>1, <3>2, <3>3, <3>4 DEF Ends, Answered, AnswerAt, GivenBack
    <3> QED BY <1>12, <3>5 DEF Ends, Phase
  <2>2. CASE st[n] = "Acquired"
    <3>1. IsClose(msgq[1], n) BY <1>0, <1>2, <1>3, <1>12, <2>2 DEF Ends, Ended, IsClose
    <3>2. InUse(n) BY <1>1, <2>2 DEF Phase
    <3>3. conn[n] = "closed" BY <1>6, <3>1, <3>2 DEF InUse, Settled
    <3>4. GivenBack(n)'
      BY <1>2, <1>4, <1>12, <3>2, <3>3 DEF Ends, InUse, GivenBack
    <3> QED BY <1>12, <3>4 DEF Ends, Phase
  <2> QED BY <1>1, <1>12, <2>1, <2>2 DEF Ends, Stays, TypeOK
<1> QED BY <1>3, <1>8, <1>9, <1>10, <1>11, <1>12 DEF MachineStep

\* What a message put behind the queue does to the answers and closes of n.
LEMMA SentAnswers ==
    ASSUME TypeOK, NEW m \in Msg, Send(m), NEW n \in Nifs
    PROVE  /\ NoAnswer(n) /\ ~ IsAnswer(m, n) => NoAnswer(n)'
           /\ \A i \in 1 .. Len(msgq) : AnswerAt(n, i) /\ ~ IsAnswer(m, n)
                 /\ (conn'[n] = "closed" \/ (conn'[n] = conn[n] /\ ~ IsClose(m, n)))
                 => i \in 1 .. Len(msgq') /\ AnswerAt(n, i)'
           /\ Settled(n, 0) /\ conn'[n] = conn[n] /\ ~ IsClose(m, n) => Settled(n, 0)'
<1>1. /\ Len(msgq) \in Nat /\ Len(msgq') = Len(msgq) + 1
      /\ \A i \in 1 .. Len(msgq) : msgq'[i] = msgq[i]
      /\ msgq'[Len(msgq) + 1] = m
  BY SendFacts
<1>2. \A i \in 1 .. Len(msgq') : i \in 1 .. Len(msgq) \/ i = Len(msgq) + 1
  BY <1>1
<1>3. NoAnswer(n) /\ ~ IsAnswer(m, n) => NoAnswer(n)'
  BY <1>1, <1>2, Zenon DEF NoAnswer, IsAnswer
<1>4. ASSUME NEW i \in 0 .. Len(msgq), Settled(n, i), conn'[n] = conn[n], ~ IsClose(m, n)
      PROVE  Settled(n, i)'
  <2> SUFFICES ASSUME conn[n] = "open", NEW j \in 1 .. Len(msgq'), j > i
               PROVE  ~ IsClose(msgq'[j], n)
    BY <1>4 DEF Settled, IsClose
  <2> QED BY <1>1, <1>2, <1>4 DEF Settled
<1>5. ASSUME NEW i \in 1 .. Len(msgq), AnswerAt(n, i), ~ IsAnswer(m, n),
             conn'[n] = "closed" \/ (conn'[n] = conn[n] /\ ~ IsClose(m, n))
      PROVE  i \in 1 .. Len(msgq') /\ AnswerAt(n, i)'
  <2>1. i \in 1 .. Len(msgq') /\ msgq'[i] = msgq[i] BY <1>1
  <2>2. Settled(n, i)' BY <1>1, <1>4, <1>5 DEF AnswerAt, Settled
  <2>3. \A j \in 1 .. Len(msgq') : IsAnswer(msgq'[j], n) => j = i
    BY <1>1, <1>2, <1>5 DEF AnswerAt
  <2>4. msgq'[i].kind = "AtlOpenFailed" => conn'[n] = "closed"
    BY <1>5, <2>1 DEF AnswerAt
  <2> QED BY <1>5, <2>1, <2>2, <2>3, <2>4 DEF AnswerAt, IsAnswer
<1>6. 0 \in 0 .. Len(msgq) BY <1>1
<1> QED BY <1>3, <1>4, <1>5, <1>6

LEMMA PhaseSend ==
    ASSUME TypeOK, NEW m \in Msg, Send(m), NEW n \in Nifs, Phase(n),
           st'[n] = st[n], calls'[n] = calls[n], conn'[n] = conn[n],
           ~ IsAnswer(m, n), ~ IsClose(m, n), nameless => nameless'
    PROVE  Phase(n)'
<1>1. GivenBack(n) => GivenBack(n)' BY SentAnswers DEF GivenBack
<1>2. Unanswered(n) => Unanswered(n)' BY SentAnswers DEF Unanswered
<1>3. InUse(n) => InUse(n)' BY SentAnswers DEF InUse
<1>4. ASSUME Answered(n) PROVE Answered(n)'
  <2>1. PICK i \in 1 .. Len(msgq) : AnswerAt(n, i) BY <1>4 DEF Answered
  <2>2. i \in 1 .. Len(msgq') /\ AnswerAt(n, i)' BY <2>1, SentAnswers
  <2> QED BY <1>4, <2>2 DEF Answered
<1>5. Unnamed(n) => Unnamed(n)' BY SentAnswers DEF Unnamed
<1> QED BY <1>1, <1>2, <1>3, <1>4, <1>5 DEF Phase

LEMMA PhaseStill ==
    ASSUME NEW n \in Nifs, Phase(n), UNCHANGED msgq, nameless => nameless',
           st'[n] = st[n], calls'[n] = calls[n], conn'[n] = conn[n]
    PROVE  Phase(n)'
BY DEF Phase, GivenBack, Unanswered, Answered, Unnamed, InUse, NoAnswer, AnswerAt, Settled,
       IsAnswer, IsClose

\* A link opens only for a machine that waits for it.
LEMMA OpeningPhase ==
    ASSUME TypeOK, NEW n \in Nifs, conn[n] = "opening", Phase(n)
    PROVE  st[n] = "Pending" /\ Unanswered(n) /\ calls[n] = <<>>
<1>1. \A i \in 1 .. Len(msgq) : ~ AnswerAt(n, i) BY DEF AnswerAt, Settled
<1> QED BY <1>1 DEF Phase, GivenBack, InUse, Settled, Answered, Unanswered, Unnamed, TypeOK

\* The framework's own step on its NIF.  A message is put behind the queue.
LEMMA AnswerPhase ==
    ASSUME TypeOK, NEW m \in Msg, Send(m), NEW n \in Nifs, IsAnswer(m, n), ~ IsClose(m, n),
           conn[n] = "opening", st'[n] = st[n], calls'[n] = calls[n], Phase(n),
           conn'[n] = IF m.kind = "AtlOpenFailed" THEN "closed" ELSE "open"
    PROVE  Phase(n)'
<1>1. /\ Len(msgq) \in Nat /\ Len(msgq') = Len(msgq) + 1
      /\ \A i \in 1 .. Len(msgq) : msgq'[i] = msgq[i]
      /\ msgq'[Len(msgq) + 1] = m
  BY SendFacts
<1>2. st[n] = "Pending" /\ Unanswered(n) /\ calls[n] = <<>> BY OpeningPhase
<1> PICK k \in Nat : k = Len(msgq) + 1 BY <1>1
<1>3. k \in 1 .. Len(msgq') /\ msgq'[k] = m BY <1>1
<1>4. ASSUME NEW j \in 1 .. Len(msgq'), IsAnswer(msgq'[j], n) PROVE j = k
  BY <1>1, <1>2, <1>4 DEF Unanswered, NoAnswer
<1>5. Settled(n, k)'
  <2>1. \A j \in 1 .. Len(msgq') : ~ (j > k) BY <1>1
  <2> QED BY <1>1, <2>1 DEF Settled
<1>6. AnswerAt(n, k)' BY <1>3, <1>4, <1>5 DEF AnswerAt, IsAnswer
<1> QED BY <1>2, <1>3, <1>6 DEF Phase, Answered

LEMMA CallsDiffer ==
    /\ <<"RELEASE">> # <<>> /\ <<"REQUEST">> # <<>> /\ <<"RELEASE", "REQUEST">> # <<>>
    /\ <<"RELEASE">> # <<"REQUEST">> /\ <<"RELEASE">> # <<"RELEASE", "REQUEST">>
    /\ <<"REQUEST">> # <<"RELEASE", "REQUEST">>
<1>1. /\ Len(<<>>) = 0 /\ Len(<<"RELEASE">>) = 1 /\ Len(<<"REQUEST">>) = 1
      /\ Len(<<"RELEASE", "REQUEST">>) = 2
  OBVIOUS
<1>2. <<"RELEASE">>[1] = "RELEASE" /\ <<"REQUEST">>[1] = "REQUEST" OBVIOUS
<1> QED BY <1>1, <1>2

LEMMA ClosePhase ==
    ASSUME TypeOK, NEW m \in Msg, Send(m), NEW n \in Nifs, ~ IsAnswer(m, n), conn[n] = "open",
           conn'[n] = "closed", st'[n] = st[n], Phase(n), nameless => nameless',
           \/ calls'[n] = calls[n]
           \/ calls[n] = <<"RELEASE">> /\ calls'[n] = <<>>
           \/ calls[n] = <<"RELEASE", "REQUEST">> /\ calls'[n] = <<"REQUEST">>
    PROVE  Phase(n)'
<1>1. NoAnswer(n) => NoAnswer(n)' BY SentAnswers
<1>2. CASE st[n] = "Released"
  <2>1. GivenBack(n) BY <1>2 DEF Phase
  <2>2. calls'[n] \in {<<>>, <<"RELEASE">>} BY <2>1, CallsDiffer DEF GivenBack
  <2>3. GivenBack(n)' BY <1>1, <2>1, <2>2 DEF GivenBack
  <2> QED BY <1>2, <2>3 DEF Phase
<1>3. CASE st[n] = "Acquired"
  <2>1. InUse(n) BY <1>3 DEF Phase
  <2>2. calls'[n] = <<>> BY <2>1, CallsDiffer DEF InUse
  <2>3. InUse(n)' BY <1>1, <2>1, <2>2 DEF InUse, Settled
  <2> QED BY <1>3, <2>3 DEF Phase
<1>4. CASE st[n] = "Pending" /\ Unanswered(n)
  <2>1. \/ calls'[n] = calls[n]
        \/ calls[n] = <<"RELEASE", "REQUEST">> /\ calls'[n] = <<"REQUEST">>
    BY <1>4, CallsDiffer DEF Unanswered
  <2>2. Unanswered(n)' BY <1>1, <1>4, <2>1 DEF Unanswered
  <2> QED BY <1>4, <2>2 DEF Phase
<1>5. CASE st[n] = "Pending" /\ Answered(n)
  <2>1. PICK i \in 1 .. Len(msgq) : AnswerAt(n, i) BY <1>5 DEF Answered
  <2>2. i \in 1 .. Len(msgq') /\ AnswerAt(n, i)' BY <2>1, SentAnswers
  <2>3. calls'[n] = <<>> BY <1>5, CallsDiffer DEF Answered
  <2>4. Answered(n)' BY <2>2, <2>3 DEF Answered
  <2> QED BY <1>5, <2>4 DEF Phase
<1>6. CASE st[n] = "Pending" /\ Unnamed(n)
  <2>1. calls'[n] = <<>> BY <1>6, CallsDiffer DEF Unnamed
  <2>2. Unnamed(n)' BY <1>1, <1>6, <2>1 DEF Unnamed
  <2> QED BY <1>6, <2>2 DEF Phase
<1> QED BY <1>2, <1>3, <1>4, <1>5, <1>6 DEF Phase, TypeOK

\* The calls a NIF can have, by what stands first.
LEMMA PhaseCalls ==
    ASSUME TypeOK, NEW n \in Nifs, Phase(n), calls[n] # <<>>
    PROVE  /\ Head(calls[n]) = "REQUEST" =>
                 /\ st[n] = "Pending" /\ NoAnswer(n) /\ conn[n] = "closed"
                 /\ calls[n] = <<"REQUEST">> /\ Tail(calls[n]) = <<>>
           /\ Head(calls[n]) = "RELEASE" =>
                 /\ NoAnswer(n) /\ conn[n] # "opening"
                 /\ \/ /\ st[n] = "Released" /\ calls[n] = <<"RELEASE">>
                       /\ Tail(calls[n]) = <<>>
                    \/ /\ st[n] = "Pending" /\ calls[n] = <<"RELEASE", "REQUEST">>
                       /\ Tail(calls[n]) = <<"REQUEST">>
<1>1. CASE calls[n] = <<"RELEASE">> /\ st[n] = "Released" /\ GivenBack(n)
  <2>1. Head(<<"RELEASE">>) = "RELEASE" /\ Tail(<<"RELEASE">>) = <<>> OBVIOUS
  <2> QED BY <1>1, <2>1 DEF GivenBack
<1>2. CASE calls[n] = <<"REQUEST">> /\ st[n] = "Pending" /\ Unanswered(n)
  <2>1. Head(<<"REQUEST">>) = "REQUEST" /\ Tail(<<"REQUEST">>) = <<>> OBVIOUS
  <2> QED BY <1>2, <2>1, CallsDiffer DEF Unanswered
<1>3. CASE calls[n] = <<"RELEASE", "REQUEST">> /\ st[n] = "Pending" /\ Unanswered(n)
  <2>1. Head(<<"RELEASE", "REQUEST">>) = "RELEASE" OBVIOUS
  <2>2. Tail(<<"RELEASE", "REQUEST">>) = <<"REQUEST">> OBVIOUS
  <2> QED BY <1>3, <2>1, <2>2, CallsDiffer DEF Unanswered
<1> QED BY <1>1, <1>2, <1>3 DEF Phase, GivenBack, Unanswered, Answered, Unnamed, InUse, TypeOK

\* The framework's step on the SUPL NIF.
LEMMA FrameworkPhase ==
    ASSUME TypeOK, NEW n \in Nifs, n = agnss, Phase(n), Framework(n) \/ FwLost(n)
    PROVE  Phase(n)'
<1>1. /\ st'[n] = st[n] /\ (nameless => nameless')
      /\ calls \in [Nifs -> Seq({"REQUEST", "RELEASE"})]
      /\ conn \in [Nifs -> {"closed", "opening", "open"}]
  BY FrameworkCases DEF machines, TypeOK
<1>2. \A kind \in {"AtlOpenSuccess", "AtlOpenFailed", "AtlClosed"} :
         /\ Answer(kind, n) \in Msg
         /\ IsAnswer(Answer(kind, n), n) <=> kind # "AtlClosed"
         /\ IsClose(Answer(kind, n), n) <=> kind = "AtlClosed"
         /\ Answer(kind, n).kind = kind
  BY DEF Answer, Msg, IsAnswer, IsClose
<1>3. CASE FwRequest(n)
  <2>1. calls[n] # <<>> /\ Head(calls[n]) = "REQUEST" /\ calls'[n] = Tail(calls[n])
    BY <1>1, <1>3 DEF FwRequest, NextCall
  <2>2. st[n] = "Pending" /\ NoAnswer(n) /\ conn[n] = "closed" /\ calls'[n] = <<>>
    BY <2>1, PhaseCalls
  <2>3. conn'[n] = "opening" /\ UNCHANGED msgq BY <1>1, <1>3, <2>2 DEF FwRequest
  <2>4. NoAnswer(n)' BY <2>2, <2>3 DEF NoAnswer, IsAnswer
  <2> QED BY <1>1, <2>2, <2>3, <2>4 DEF Phase, Unanswered
<1>4. CASE FwRelease(n)
  <2>1. calls[n] # <<>> /\ Head(calls[n]) = "RELEASE" /\ calls'[n] = Tail(calls[n])
    BY <1>1, <1>4 DEF FwRelease, NextCall
  <2>2. /\ NoAnswer(n) /\ conn[n] # "opening"
        /\ \/ st[n] = "Released" /\ calls[n] = <<"RELEASE">> /\ calls'[n] = <<>>
           \/ /\ st[n] = "Pending" /\ calls[n] = <<"RELEASE", "REQUEST">>
              /\ calls'[n] = <<"REQUEST">>
    BY <2>1, PhaseCalls
  <2>3. CASE conn[n] = "closed"
    <3>1. UNCHANGED <<conn, msgq>> BY <1>4, <2>3 DEF FwRelease
    <3>2. NoAnswer(n)' BY <2>2, <3>1 DEF NoAnswer, IsAnswer
    <3> QED BY <1>1, <2>2, <2>3, <3>1, <3>2 DEF Phase, Unanswered, GivenBack
  <2>4. CASE conn[n] # "closed"
    <3>1. conn' = [conn EXCEPT ![n] = "closed"] /\ Send(Answer("AtlClosed", n))
      BY <1>4, <2>4 DEF FwRelease
    <3>2. conn[n] = "open" /\ conn'[n] = "closed" BY <1>1, <2>2, <2>4, <3>1
    <3> QED BY <1>1, <1>2, <2>2, <3>1, <3>2, ClosePhase
  <2> QED BY <2>3, <2>4
<1>5. CASE FwOpened(n)
  <2>1. conn[n] = "opening" /\ conn'[n] = "open" /\ UNCHANGED calls /\ TellOpen(n)
    BY <1>1, <1>5 DEF FwOpened
  <2>2. CASE Send(Answer("AtlOpenSuccess", n))
    BY <1>1, <1>2, <2>1, <2>2, AnswerPhase
  <2>3. CASE nameless' = (nameless \/ n = agnss) /\ UNCHANGED msgq
    <3>1. st[n] = "Pending" /\ NoAnswer(n) /\ calls[n] = <<>>
      BY <2>1, OpeningPhase DEF Unanswered
    <3>2. NoAnswer(n)' BY <2>3, <3>1 DEF NoAnswer, IsAnswer
    <3> QED BY <1>1, <2>1, <2>3, <3>1, <3>2 DEF Phase, Unnamed
  <2> QED BY <2>1, <2>2, <2>3 DEF TellOpen
<1>6. CASE FwFailed(n)
  <2>1. /\ Send(Answer("AtlOpenFailed", n)) /\ conn[n] = "opening" /\ conn'[n] = "closed"
        /\ UNCHANGED calls
    BY <1>1, <1>6 DEF FwFailed
  <2> QED BY <1>1, <1>2, <2>1, AnswerPhase
<1>7. CASE FwLost(n)
  <2>1. /\ Send(Answer("AtlClosed", n)) /\ conn[n] = "open" /\ conn'[n] = "closed"
        /\ UNCHANGED calls
    BY <1>1, <1>7 DEF FwLost
  <2> QED BY <1>1, <1>2, <2>1, ClosePhase
<1> QED BY <1>3, <1>4, <1>5, <1>6, <1>7 DEF Framework

LEMMA FrameworkCalm ==
    ASSUME CalmInv, Calm, NEW n \in Nifs, Framework(n) \/ FwLost(n)
    PROVE  OrderInv' /\ StandsInv' /\ PhaseInv'
<1>1. TypeOK /\ OrderInv /\ StandsInv /\ PhaseInv /\ agnss \in Nifs
  BY DEF CalmInv, Nifs
<1>2. /\ UNCHANGED <<st, subs, cs>> /\ (nameless => nameless')
      /\ \A k \in Nifs : k # n => conn'[k] = conn[k] /\ calls'[k] = calls[k]
  BY <1>1, FrameworkCases DEF machines
<1>3. CASE Wordless(n)
  <2>1. UNCHANGED msgq BY <1>3 DEF Wordless
  <2>2. OrderInv' BY <1>1, <2>1 DEF OrderInv, IsRequest, IsRelease
  <2>3. StandsInv'
    BY <1>1, <1>2, <2>1
       DEF StandsInv, Stands, Requested, Releasing, Listed, IsRequest, IsRelease
  <2>4. PhaseInv'
    BY <1>1, <1>2, <2>1, FrameworkPhase, PhaseStill DEF PhaseInv
  <2> QED BY <2>2, <2>3, <2>4
<1>4. ASSUME NEW m \in Msg, Worded(n, m) PROVE OrderInv' /\ StandsInv' /\ PhaseInv'
  <2>1. Send(m) /\ m.about = n /\ m.kind \in {"AtlOpenSuccess", "AtlOpenFailed", "AtlClosed"}
    BY <1>4 DEF Worded, FwSays
  <2>2. OrderInv' /\ StandsInv' BY <1>1, <1>2, <2>1, OthersStand
  <2>3. PhaseInv'
    <3>1. CASE n = agnss BY <1>1, <3>1, FrameworkPhase DEF PhaseInv
    <3>2. CASE n # agnss
      <4>1. ~ IsAnswer(m, agnss) /\ ~ IsClose(m, agnss)
        BY <2>1, <3>2 DEF IsAnswer, IsClose
      <4> QED BY <1>1, <1>2, <2>1, <3>2, <4>1, PhaseSend DEF PhaseInv
    <3> QED BY <3>1, <3>2
  <2> QED BY <2>2, <2>3
<1> QED BY <1>1, <1>3, <1>4, FrameworkCases

LEMMA SendCalm ==
    ASSUME CalmInv, Calm, NEW m \in Msg, Send(m), UNCHANGED <<st, calls, conn, nameless>>,
           m.kind \notin {"AtlOpenSuccess", "AtlOpenFailed", "AtlClosed"}
    PROVE  PhaseInv'
<1>1. ~ IsAnswer(m, agnss) /\ ~ IsClose(m, agnss) /\ agnss \in Nifs
  BY DEF IsAnswer, IsClose, Nifs
<1> QED BY <1>1, PhaseSend DEF CalmInv, PhaseInv

LEMMA CalmStep == CalmInv /\ [Next]_vars => CalmInv'
<1> SUFFICES ASSUME CalmInv, [Next]_vars PROVE CalmInv'
  OBVIOUS
<1>1. UpInv' BY UpStep
<1>2. TypeOK' BY TypeStep DEF CalmInv
<1>3. ReleasedIsEmpty'
  <2>1. CASE MsgTask BY <2>1, MsgTaskStep DEF CalmInv, Taken, ReleasedIsEmpty
  <2>2. CASE UNCHANGED <<st, subs>> BY <2>2 DEF CalmInv, ReleasedIsEmpty
  <2> QED BY <2>1, <2>2
     DEF Next, Ask, Leave, Framework, FwRequest, FwRelease, FwOpened, FwFailed, FwLost,
         NextCall, ModemCrash, UpcallSsr, UpcallEngineUp, machines, vars, Crashed
<1>4. ASSUME Calm' PROVE OrderInv' /\ StandsInv' /\ PhaseInv'
  <2>1. CASE MsgTask
    <3>1. UNCHANGED <<hasty, restarts>> /\ (strayed => strayed')
      BY <2>1, StrayStep
         DEF MsgTask, NifInit, RequestATL, ReleaseATL, RequestBIT, ReleaseBIT,
             AtlOpenSuccess, AtlClosed, AtlOpenFailed, Delivered, Ssr, EngineUp, modem, Receive,
             CalmInv, TypeOK
    <3>2. Calm BY <1>4, <3>1 DEF Calm
    <3>3. PhaseInv'
      <4>1. agnss \in Nifs BY DEF Nifs
      <4> QED BY <1>4, <2>1, <3>2, <4>1, PhaseReceive DEF PhaseInv
    <3> QED BY <2>1, <3>2, <3>3, OrderReceive, StandsReceive DEF CalmInv
  <2>2. ASSUME NEW c \in Clients, NEW n \in Nifs, Ask(c, n)
        PROVE  OrderInv' /\ StandsInv' /\ PhaseInv'
    <3>1. Calm BY <1>4, <2>2 DEF Ask, machines, modem, Calm
    <3> DEFINE m == Message(IF c \in Atl THEN "RequestATL" ELSE "RequestBIT", c, n)
    <3>2. m \in Msg /\ m.kind \notin {"AtlOpenSuccess", "AtlOpenFailed", "AtlClosed"}
      BY DEF Message, Msg
    <3> HIDE DEF m
    <3>3. PhaseInv' BY <2>2, <3>1, <3>2, SendCalm DEF Ask, machines, m
    <3> QED BY <2>2, <3>1, <3>3, ClientStands DEF CalmInv
  <2>3. ASSUME NEW c \in Clients, Leave(c)
        PROVE  OrderInv' /\ StandsInv' /\ PhaseInv'
    <3>1. Calm /\ cs[c] = "up" BY <1>4, <2>3 DEF Leave, machines, modem, Calm, CalmInv, TypeOK
    <3> DEFINE m == IF c \in Atl THEN Message("ReleaseATL", c, NoNif)
                                 ELSE Message("ReleaseBIT", c, BitNif)
    <3>2. m \in Msg /\ m.kind \notin {"AtlOpenSuccess", "AtlOpenFailed", "AtlClosed"}
      BY AgpsAssumption DEF Message, Msg
    <3> HIDE DEF m
    <3>3. PhaseInv' BY <2>3, <3>1, <3>2, SendCalm DEF Leave, machines, m
    <3>4. agnss \in Nifs BY DEF Nifs
    <3> QED BY <2>3, <3>1, <3>3, <3>4, ClientStands DEF CalmInv
  <2>4. ASSUME NEW n \in Nifs, Framework(n) \/ FwLost(n)
        PROVE  OrderInv' /\ StandsInv' /\ PhaseInv'
    <3>1. Calm BY <1>4, <2>4, FrameworkCases DEF CalmInv, machines, modem, Calm
    <3> QED BY <2>4, <3>1, FrameworkCalm
  <2>5. ~ ModemCrash BY <1>4 DEF ModemCrash, CalmInv, TypeOK, Calm
  <2>6. ~ UpcallSsr /\ ~ UpcallEngineUp
    BY <1>4 DEF UpcallSsr, UpcallEngineUp, CalmInv, UpInv, Calm
  <2>7. CASE UNCHANGED vars \/ Crashed
    <3>1. agnss \in Nifs BY DEF Nifs
    <3> QED BY <1>4, <2>7, <3>1, PhaseStill
       DEF vars, Crashed, CalmInv, Calm, OrderInv, StandsInv, Stands, Requested, Releasing,
           Listed, IsRequest, IsRelease, PhaseInv
  <2> QED BY <2>1, <2>2, <2>3, <2>4, <2>5, <2>6, <2>7 DEF Next
<1> QED BY <1>1, <1>2, <1>3, <1>4 DEF CalmInv

LEMMA CalmInit == Init => CalmInv
<1> SUFFICES ASSUME Init PROVE CalmInv
  OBVIOUS
<1>1. TypeOK /\ ReleasedIsEmpty BY InvInit DEF AgpsInv
<1>2. Len(msgq) = 1 /\ msgq[1].kind = "NifInit" BY DEF Init, Message
<1>3. UpInv BY <1>2 DEF Init, UpInv
<1>4. OrderInv BY <1>2 DEF OrderInv, IsRequest
<1>5. StandsInv
  BY <1>2 DEF Init, StandsInv, Stands, Requested, Releasing, Listed, IsRequest, IsRelease
<1>6. PhaseInv
  <2>1. st[agnss] = "Released" /\ calls[agnss] = <<>> /\ conn[agnss] = "closed"
    BY DEF Init, Nifs
  <2>2. NoAnswer(agnss) BY <1>2 DEF NoAnswer, IsAnswer
  <2>3. GivenBack(agnss) BY <2>1, <2>2 DEF GivenBack
  <2> QED BY <2>1, <2>3 DEF PhaseInv, Phase
<1> QED BY <1>1, <1>3, <1>4, <1>5, <1>6 DEF CalmInv

-----------------------------------------------------------------------------
(***************************************************************************)
(* LinkIsReleased, of the internet NIF.  No answer reaches its machine, so *)
(* it never grants, and leaves Pending only with a call to release.        *)
(***************************************************************************)
InternetInv ==
    /\ st[internet] # "Acquired"
    /\ st[internet] = "Released" =>
          \/ calls[internet] = <<>> /\ conn[internet] = "closed"
          \/ /\ calls[internet] # <<>>
             /\ calls[internet][Len(calls[internet])] = "RELEASE"

LEMMA InternetStep == AgpsInv /\ InternetInv /\ [Next]_vars => InternetInv'
<1> SUFFICES ASSUME AgpsInv, InternetInv, [Next]_vars PROVE InternetInv'
  OBVIOUS
<1> DEFINE n == internet
<1>1. TypeOK /\ TypeOK' /\ ReleasedIsEmpty /\ n \in Nifs /\ n # agnss
  BY TypeStep, AgpsAssumption DEF AgpsInv, Nifs
<1>2. calls[n] \in Seq({"REQUEST", "RELEASE"}) /\ calls'[n] \in Seq({"REQUEST", "RELEASE"})
  BY <1>1 DEF TypeOK
<1>3. CASE MsgTask
  <2>1. MachineStep(n) BY <1>1, <1>3, MsgTaskStep
  <2>2. conn' = conn BY <1>3, MsgTaskReceives
  <2>3. CASE Stays(n) BY <2>2, <2>3 DEF Stays, InternetInv
  <2>4. CASE Asks(n) BY <2>4 DEF Asks, InternetInv
  <2>5. CASE GivesBack(n)
    <3>1. calls'[n] # <<>> /\ calls'[n][Len(calls'[n])] = "RELEASE"
      BY <1>2, <2>5 DEF GivesBack
    <3> QED BY <2>5, <3>1 DEF GivesBack, InternetInv
  <2> QED BY <1>1, <2>1, <2>3, <2>4, <2>5 DEF MachineStep, IsGranted, Ends
<1>4. CASE \E k \in Nifs : Framework(k) \/ FwLost(k)
  <2>1. PICK k \in Nifs : Framework(k) \/ FwLost(k) BY <1>4
  <2>2. st' = st /\ (k # n => conn'[n] = conn[n] /\ calls'[n] = calls[n])
    BY <1>1, <2>1, FrameworkCases DEF machines
  <2>3. CASE k # n BY <2>2, <2>3 DEF InternetInv
  <2>4. CASE k = n /\ (FwRequest(k) \/ FwRelease(k))
    <3>1. calls[n] # <<>> /\ calls'[n] = Tail(calls[n])
      BY <1>1, <2>4 DEF FwRequest, FwRelease, NextCall, TypeOK
    <3>2. st[n] = "Released" => \/ calls'[n] = <<>> /\ Head(calls[n]) = "RELEASE"
                                \/ calls'[n] # <<>> /\ calls'[n][Len(calls'[n])] = "RELEASE"
      BY <1>2, <3>1, LastCall DEF InternetInv
    <3>3. Head(calls[n]) = "RELEASE" => conn'[n] = "closed"
      BY <1>1, <2>4 DEF FwRequest, FwRelease, NextCall, TypeOK
    <3> QED BY <2>2, <3>2, <3>3 DEF InternetInv
  <2>5. CASE k = n /\ (FwOpened(k) \/ FwFailed(k) \/ FwLost(k))
    BY <2>2, <2>5 DEF InternetInv, FwOpened, FwFailed, FwLost
  <2> QED BY <2>1, <2>3, <2>4, <2>5 DEF Framework
<1>5. CASE UNCHANGED <<st, calls, conn>>
  BY <1>5 DEF InternetInv
<1> QED BY <1>3, <1>4, <1>5
   DEF Next, Ask, Leave, ModemCrash, UpcallSsr, UpcallEngineUp, machines, vars, Crashed

LEMMA InternetInit == Init => InternetInv
<1> SUFFICES ASSUME Init PROVE InternetInv
  OBVIOUS
<1>1. internet \in Nifs BY DEF Nifs
<1> QED BY <1>1 DEF Init, InternetInv

\* A NIF nobody uses is not kept.  The SUPL NIF: as long as clients release only
\* what they were granted, the modem does not restart and no news of the
\* internet link moves the machine, the link under a machine in Released is
\* closed or a call is on its way to the framework.  The internet NIF: always.
THEOREM LinkCorrect == Spec => []LinkIsReleased
<1>1. CalmInv /\ InternetInv => LinkIsReleased
  <2> SUFFICES ASSUME CalmInv, InternetInv, NEW n \in Nifs, st[n] = "Released",
                      n = internet \/ (~hasty /\ ~strayed /\ restarts = 0)
               PROVE  conn[n] = "closed" \/ calls[n] # <<>>
    BY DEF LinkIsReleased
  <2>1. CASE n = internet BY <2>1 DEF InternetInv
  <2>2. CASE n = agnss /\ Calm
    BY <2>2, CallsDiffer DEF CalmInv, PhaseInv, Phase, GivenBack
  <2> QED BY <2>1, <2>2 DEF Nifs, Calm
<1>2. Spec => []InternetInv BY InternetInit, InternetStep, InvCorrect, PTL DEF Spec
<1> QED BY <1>1, <1>2, CalmInit, CalmStep, PTL DEF Spec

=============================================================================
