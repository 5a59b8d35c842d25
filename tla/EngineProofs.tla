---------------------------- MODULE EngineProofs ----------------------------
(***************************************************************************)
(* Proofs about EngineSession, for every set of aiding data and any number *)
(* of sessions, messages and events.                                       *)
(***************************************************************************)
EXTENDS EngineSession, SequenceTheorems, TLAPS

Marks == SUBSET Circumstances

-----------------------------------------------------------------------------
(* The queue. *)

LEMMA ReceiveQueue ==
    ASSUME TypeOK, NEW type, Receive(type)
    PROVE  /\ msgq \in Seq(Message) /\ Len(msgq) \in Nat \ {0}
           /\ msgq' \in Seq(Message) /\ Len(msgq') = Len(msgq) - 1
           /\ \A i \in 1 .. Len(msgq') : msgq'[i] = msgq[i + 1]
           /\ Head(msgq) = msgq[1] /\ Head(msgq) \in Message /\ Head(msgq).type = type
<1>1. msgq \in Seq(Message) /\ msgq # <<>> /\ msgq' = Tail(msgq) /\ Head(msgq).type = type
  BY DEF Receive, TypeOK
<1>2. Len(msgq) \in Nat \ {0}
  BY <1>1, EmptySeq
<1> QED BY <1>1, <1>2

LEMMA PostQueue ==
    ASSUME TypeOK, NEW m \in Message, Post(m)
    PROVE  /\ msgq \in Seq(Message) /\ Len(msgq) \in Nat
           /\ msgq' \in Seq(Message) /\ Len(msgq') = Len(msgq) + 1
           /\ \A i \in 1 .. Len(msgq) : msgq'[i] = msgq[i]
           /\ msgq'[Len(msgq) + 1] = m
<1>1. msgq \in Seq(Message) /\ msgq' = Append(msgq, m)
  BY DEF Post, TypeOK
<1> QED BY <1>1

LEMMA WaitingAfterReceive ==
    ASSUME TypeOK, NEW type, Receive(type), NEW t
    PROVE  /\ Waiting(t)' => Waiting(t)
           /\ Waiting(t) /\ t # type => Waiting(t)'
<1>1. ASSUME Waiting(t)' PROVE Waiting(t)
  <2>1. PICK i \in 1 .. Len(msgq') : msgq'[i].type = t
    BY <1>1 DEF Waiting
  <2>2. i + 1 \in 1 .. Len(msgq) /\ msgq[i + 1].type = t
    BY <2>1, ReceiveQueue
  <2> QED BY <2>2 DEF Waiting
<1>2. ASSUME Waiting(t), t # type PROVE Waiting(t)'
  <2>1. PICK i \in 1 .. Len(msgq) : msgq[i].type = t
    BY <1>2 DEF Waiting
  <2>2. i # 1
    BY <2>1, <1>2, ReceiveQueue
  <2>3. i - 1 \in 1 .. Len(msgq') /\ msgq'[i - 1] = msgq[(i - 1) + 1] /\ (i - 1) + 1 = i
    BY <2>1, <2>2, ReceiveQueue
  <2>4. msgq'[i - 1].type = t
    BY <2>1, <2>3
  <2> QED BY <2>3, <2>4 DEF Waiting
<1> QED BY <1>1, <1>2

LEMMA WaitingAfterPost ==
    ASSUME TypeOK, NEW m \in Message, Post(m), NEW t
    PROVE  Waiting(t)' <=> Waiting(t) \/ m.type = t
<1>1. ASSUME Waiting(t)', m.type # t PROVE Waiting(t)
  <2>1. PICK i \in 1 .. Len(msgq') : msgq'[i].type = t
    BY <1>1 DEF Waiting
  <2>2. i \in 1 .. Len(msgq) /\ msgq[i].type = t
    BY <1>1, <2>1, PostQueue
  <2> QED BY <2>2 DEF Waiting
<1>2. ASSUME Waiting(t) PROVE Waiting(t)'
  <2>1. PICK i \in 1 .. Len(msgq) : msgq[i].type = t
    BY <1>2 DEF Waiting
  <2>2. i \in 1 .. Len(msgq') /\ msgq'[i].type = t
    BY <2>1, PostQueue
  <2> QED BY <2>2 DEF Waiting
<1>3. ASSUME m.type = t PROVE Waiting(t)'
  <2>1. Len(msgq) + 1 \in 1 .. Len(msgq') /\ msgq'[Len(msgq) + 1].type = t
    BY <1>3, PostQueue
  <2> QED BY <2>1 DEF Waiting
<1> QED BY <1>1, <1>2, <1>3

-----------------------------------------------------------------------------
(* Typing. *)

\* The part of the state that a start or a stop of a session works on.
SessionType ==
    /\ inSession \in BOOLEAN /\ criteria \in Criteria
    /\ handle \in BOOLEAN
    /\ run \in [id : Sessions, criteria : Criteria] \cup {NoRun}
    /\ sessions \in 0 .. MaxSessions
    /\ seen \in Marks

ReportType ==
    /\ engine_status \in {"NONE", "ENGINE_ON", "ENGINE_OFF"}
    /\ mute \in {"NONE", "WAIT", "IN_SESSION"}
    /\ told \in BOOLEAN
    /\ muted \in SUBSET Sessions

LEMMA SetInSessionType ==
    ASSUME NEW b \in BOOLEAN, NEW c \in Criteria, SetInSession(b, c)
    PROVE  inSession' \in BOOLEAN /\ criteria' \in Criteria
BY DEF SetInSession, Criteria

LEMMA StartSessionType ==
    ASSUME TypeOK, NEW c \in Criteria, NEW why \in Marks, StartSession(c, why)
    PROVE  SessionType'
<1>1. CASE /\ handle /\ sessions < MaxSessions
           /\ sessions' = sessions + 1 /\ run' = [id |-> sessions + 1, criteria |-> c]
           /\ SetInSession(TRUE, c) /\ Note(why) /\ UNCHANGED handle
  <2>1. sessions' \in 0 .. MaxSessions /\ sessions + 1 \in Sessions
    BY <1>1, EngineAssumption DEF TypeOK, Sessions
  <2>2. inSession' \in BOOLEAN /\ criteria' \in Criteria
    BY <1>1, SetInSessionType
  <2> QED BY <1>1, <2>1, <2>2 DEF TypeOK, SessionType, Note, Marks
<1>2. CASE SetInSession(TRUE, c) /\ Note(why \cup If(handle, "refused")) /\ UNCHANGED modem
  <2>1. inSession' \in BOOLEAN /\ criteria' \in Criteria
    BY <1>2, SetInSessionType
  <2>2. seen' \in Marks
    BY <1>2 DEF TypeOK, Note, If, Marks, Circumstances
  <2> QED BY <1>2, <2>1, <2>2 DEF TypeOK, SessionType, modem
<1>3. CASE /\ inSession' = FALSE /\ criteria' = c
           /\ Note(why \cup If(run # NoRun, "denied")) /\ UNCHANGED modem
  <2>1. seen' \in Marks
    BY <1>3 DEF TypeOK, Note, If, Marks, Circumstances
  <2> QED BY <1>3, <2>1 DEF TypeOK, SessionType, modem
<1> QED BY <1>1, <1>2, <1>3 DEF StartSession

LEMMA ReportIsTyped ==
    ASSUME TypeOK, NEW status \in Statuses, NEW session \in Sessions \cup {NoSession},
           status = "SESSION_BEGIN" => session \in Sessions,
           Report(status, session)
    PROVE  ReportType'
<1>1. mute' \in {"NONE", "WAIT", "IN_SESSION"}
  BY DEF Report, TypeOK
<1>2. muted' \in SUBSET Sessions
  BY DEF Report, TypeOK
<1>3. told' \in BOOLEAN
  BY DEF Report, TypeOK
<1>4. engine_status' \in {"NONE", "ENGINE_ON", "ENGINE_OFF"}
  BY DEF Report, TypeOK
<1> QED BY <1>1, <1>2, <1>3, <1>4 DEF ReportType

\* What the messages of each type carry.
LEMMA MessageFields ==
    ASSUME TypeOK, NEW type, Receive(type)
    PROVE  /\ type = "PositionMode" => Head(msgq).recurrence \in Recurrences
           /\ type = "DelAidData" => Head(msgq).mask \in (SUBSET AidingTypes) \ {{}}
           /\ type = "Status" => /\ Head(msgq).status \in Statuses
                                 /\ Head(msgq).session \in Sessions \cup {NoSession}
           /\ type = "Position" => Head(msgq).session \in Sessions
BY ReceiveQueue DEF Message

\* A begin carries its session.
BeginsNamed ==
    \A i \in 1 .. Len(msgq) :
        msgq[i].type = "Status" /\ msgq[i].status = "SESSION_BEGIN" => msgq[i].session \in Sessions

LEMMA NamedAfterReceive ==
    ASSUME TypeOK, BeginsNamed, NEW type, Receive(type)
    PROVE  BeginsNamed'
<1> SUFFICES ASSUME NEW i \in 1 .. Len(msgq'),
                    msgq'[i].type = "Status", msgq'[i].status = "SESSION_BEGIN"
             PROVE  msgq'[i].session \in Sessions
    BY DEF BeginsNamed
<1>1. i + 1 \in 1 .. Len(msgq) /\ msgq'[i] = msgq[i + 1]
  BY ReceiveQueue
<1> QED BY <1>1 DEF BeginsNamed

LEMMA NamedAfterPost ==
    ASSUME TypeOK, BeginsNamed, NEW m \in Message, Post(m),
           m.type = "Status" /\ m.status = "SESSION_BEGIN" => m.session \in Sessions
    PROVE  BeginsNamed'
<1> SUFFICES ASSUME NEW i \in 1 .. Len(msgq'),
                    msgq'[i].type = "Status", msgq'[i].status = "SESSION_BEGIN"
             PROVE  msgq'[i].session \in Sessions
    BY DEF BeginsNamed
<1>1. CASE i \in 1 .. Len(msgq)
  BY <1>1, PostQueue DEF BeginsNamed
<1>2. CASE i = Len(msgq) + 1
  BY <1>2, PostQueue
<1> QED BY <1>1, <1>2, PostQueue

TypeInv == TypeOK /\ BeginsNamed

LEMMA MsgTaskType ==
    ASSUME TypeInv, MsgTask
    PROVE  TypeInv'
<1> USE DEF TypeInv
<1>a. ASSUME NEW type, Receive(type) PROVE msgq' \in Seq(Message) /\ BeginsNamed'
  BY <1>a, ReceiveQueue, NamedAfterReceive
<1>1. CASE StartFix
  <2>1. msgq' \in Seq(Message) /\ BeginsNamed'
    BY <1>1, <1>a DEF StartFix
  <2>2. SessionType'
    <3>1. {} \in Marks
      BY DEF Marks
    <3>2. CASE ~inSession /\ StartSession(criteria, {})
      BY <3>1, <3>2, StartSessionType DEF TypeOK
    <3>3. CASE UNCHANGED <<engine, modem, seen>>
      BY <3>3 DEF TypeOK, SessionType, engine, modem, Marks
    <3> QED BY <1>1, <3>2, <3>3 DEF StartFix
  <2> QED BY <1>1, <2>1, <2>2
          DEF StartFix, TypeOK, SessionType, Marks, reports, framework, radio
<1>2. CASE StopFix
  <2>1. msgq' \in Seq(Message) /\ BeginsNamed'
    BY <1>2, <1>a DEF StopFix
  <2>2. inSession' \in BOOLEAN /\ criteria' \in Criteria
    BY <1>2, SetInSessionType DEF StopFix, TypeOK, engine
  <2>3. run' \in [id : Sessions, criteria : Criteria] \cup {NoRun}
    BY <1>2 DEF StopFix, TypeOK
  <2> QED BY <1>2, <2>1, <2>2, <2>3 DEF StopFix, TypeOK, reports, framework, radio
<1>3. CASE PositionMode
  <2>1. msgq' \in Seq(Message) /\ BeginsNamed' /\ Head(msgq).recurrence \in Recurrences
    BY <1>3, <1>a, MessageFields DEF PositionMode
  <2>2. criteria' \in Criteria
    BY <1>3, <2>1 DEF PositionMode, Criteria
  <2> QED BY <1>3, <2>1, <2>2 DEF PositionMode, TypeOK, reports, framework, modem, radio
<1>4. CASE ReportPosition
  <2>1. msgq' \in Seq(Message) /\ BeginsNamed'
    BY <1>4, <1>a DEF ReportPosition
  <2>2. inSession' \in BOOLEAN /\ criteria' \in Criteria
    BY <1>4, SetInSessionType DEF ReportPosition, TypeOK, engine
  <2>3. run' \in [id : Sessions, criteria : Criteria] \cup {NoRun}
    BY <1>4 DEF ReportPosition, TypeOK
  <2>4. seen' \in Marks
    BY <1>4 DEF ReportPosition, TypeOK, Note, If, Marks, Circumstances
  <2> QED BY <1>4, <2>1, <2>2, <2>3, <2>4
          DEF ReportPosition, TypeOK, Marks, reports, framework, radio
<1>5. CASE ReportStatus
  <2>1. msgq' \in Seq(Message) /\ BeginsNamed'
    BY <1>5, <1>a DEF ReportStatus
  <2>2. ReportType'
    <3>1. /\ Head(msgq).status \in Statuses
          /\ Head(msgq).session \in Sessions \cup {NoSession}
          /\ Head(msgq).status = "SESSION_BEGIN" => Head(msgq).session \in Sessions
      BY <1>5, MessageFields, ReceiveQueue DEF ReportStatus, BeginsNamed
    <3> QED BY <1>5, <3>1, ReportIsTyped DEF ReportStatus
  <2>3. aiding' \in SUBSET AidingTypes
    BY <1>5 DEF ReportStatus, UpdateAiding, TypeOK
  <2> QED BY <1>5, <2>1, <2>2, <2>3
          DEF ReportStatus, ReportType, TypeOK, engine, framework, modem, radio
<1>6. CASE DelAidData
  <2>1. msgq' \in Seq(Message) /\ BeginsNamed' /\ Head(msgq).mask \in (SUBSET AidingTypes) \ {{}}
    BY <1>6, <1>a, MessageFields DEF DelAidData
  <2>2. aiding' \in SUBSET AidingTypes
    BY <1>6, <2>1 DEF DelAidData, UpdateAiding
  <2> QED BY <1>6, <2>1, <2>2 DEF DelAidData, TypeOK, engine, reports, framework, modem, radio
<1>7. CASE MuteOneSession
  <2>1. msgq' \in Seq(Message) /\ BeginsNamed'
    BY <1>7, <1>a DEF MuteOneSession
  <2>2. seen' \in Marks
    BY <1>7 DEF MuteOneSession, TypeOK, Note, If, Marks, Circumstances
  <2> QED BY <1>7, <2>1, <2>2
          DEF MuteOneSession, TypeOK, Marks, engine, framework, modem, radio
<1>8. CASE EngineDown
  <2>1. msgq' \in Seq(Message) /\ BeginsNamed'
    BY <1>8, <1>a DEF EngineDown
  <2>2. ReportType'
    BY <1>8, ReportIsTyped DEF EngineDown, Statuses
  <2>3. seen' \in Marks
    BY <1>8 DEF EngineDown, TypeOK, Note, If, Marks, Circumstances
  <2> QED BY <1>8, <2>1, <2>2, <2>3
          DEF EngineDown, ReportType, TypeOK, Marks, engine, framework, modem, radio
<1>9. CASE Ssr
  <2>1. msgq' \in Seq(Message) /\ BeginsNamed'
    BY <1>9, <1>a DEF Ssr
  <2> QED BY <1>9, <2>1 DEF Ssr, TypeOK, engine, reports, framework, radio
<1>10. CASE EngineUp
  <2>1. msgq' \in Seq(Message) /\ BeginsNamed'
    BY <1>10, <1>a DEF EngineUp
  <2>2. SessionType'
    <3>1. {"restarted"} \in Marks /\ [criteria EXCEPT !.mode = "INVALID"] \in Criteria
      BY DEF Marks, Circumstances, TypeOK, Criteria
    <3>2. CASE inSession /\ StartSession([criteria EXCEPT !.mode = "INVALID"], {"restarted"})
      BY <3>1, <3>2, StartSessionType
    <3>3. CASE UNCHANGED <<engine, modem, seen>>
      BY <3>3 DEF TypeOK, SessionType, engine, modem, Marks
    <3> QED BY <1>10, <3>2, <3>3 DEF EngineUp
  <2> QED BY <1>10, <2>1, <2>2
          DEF EngineUp, TypeOK, SessionType, Marks, reports, framework, radio
<1> QED BY <1>1, <1>2, <1>3, <1>4, <1>5, <1>6, <1>7, <1>8, <1>9, <1>10 DEF MsgTask

LEMMA PostType ==
    ASSUME TypeInv, NEW m \in Message, Post(m),
           m.type = "Status" /\ m.status = "SESSION_BEGIN" => m.session \in Sessions
    PROVE  msgq' \in Seq(Message) /\ BeginsNamed'
BY PostQueue, NamedAfterPost DEF TypeInv

LEMMA BareMessages ==
    ASSUME NEW type \in {"StartFix", "StopFix", "Ni", "EngineDown", "Ssr", "EngineUp"}
    PROVE  [type |-> type] \in Message
BY DEF Message

LEMMA FrameworkType ==
    ASSUME TypeInv, Framework
    PROVE  TypeInv'
<1> USE DEF TypeInv
<1>1. ASSUME NEW r \in Recurrences, FwPositionMode(r) PROVE TypeInv'
  <2>1. [type |-> "PositionMode", recurrence |-> r] \in Message
    BY DEF Message
  <2>2. msgq' \in Seq(Message) /\ BeginsNamed'
    BY <1>1, <2>1, PostType DEF FwPositionMode, BoundedPost
  <2> QED BY <1>1, <2>2 DEF FwPositionMode, TypeOK, engine, reports, modem, radio
<1>2. CASE FwStart
  <2>1. msgq' \in Seq(Message) /\ BeginsNamed'
    BY <1>2, BareMessages, PostType DEF FwStart, BoundedPost
  <2> QED BY <1>2, <2>1 DEF FwStart, TypeOK, engine, reports, modem, radio
<1>3. CASE FwStop
  <2>1. msgq' \in Seq(Message) /\ BeginsNamed'
    BY <1>3, BareMessages, PostType DEF FwStop, BoundedPost
  <2> QED BY <1>3, <2>1 DEF FwStop, TypeOK, engine, reports, modem, radio
<1>4. CASE FwCleanup
  <2>1. msgq' \in Seq(Message) /\ BeginsNamed'
    <3>1. CASE inSession
      BY <1>4, <3>1, BareMessages, PostType DEF FwCleanup, BoundedPost
    <3>2. CASE ~inSession
      BY <1>4, <3>2 DEF FwCleanup, TypeOK, BeginsNamed
    <3> QED BY <3>1, <3>2
  <2>2. seen' \in Marks /\ events' \in 0 .. MaxEvents
    BY <1>4, EngineAssumption DEF FwCleanup, TypeOK, Note, If, Marks, Circumstances, Event
  <2> QED BY <1>4, <2>1, <2>2 DEF FwCleanup, TypeOK, Marks, engine, reports, modem, radio
<1>5. CASE FwInit
  <2>1. BeginsNamed'
    BY <1>5 DEF FwInit, BeginsNamed
  <2> QED BY <1>5, <2>1 DEF FwInit, TypeOK, engine, reports, modem, radio
<1>6. ASSUME NEW mask \in (SUBSET AidingTypes) \ {{}}, FwDeleteAidingData(mask) PROVE TypeInv'
  <2>1. [type |-> "DelAidData", mask |-> mask] \in Message
    BY DEF Message
  <2>2. msgq' \in Seq(Message) /\ BeginsNamed'
    BY <1>6, <2>1, PostType DEF FwDeleteAidingData, BoundedPost
  <2>3. events' \in 0 .. MaxEvents
    BY <1>6, EngineAssumption DEF FwDeleteAidingData, TypeOK, Event
  <2> QED BY <1>6, <2>2, <2>3
          DEF FwDeleteAidingData, TypeOK, engine, reports, framework, modem, radio
<1> QED BY <1>1, <1>2, <1>3, <1>4, <1>5, <1>6 DEF Framework

LEMMA StatusPosted ==
    ASSUME TypeInv, NEW status \in Statuses, NEW session \in Sessions \cup {NoSession},
           status = "SESSION_BEGIN" => session \in Sessions, PostStatus(status, session)
    PROVE  msgq' \in Seq(Message) /\ BeginsNamed'
<1>1. [type |-> "Status", status |-> status, session |-> session] \in Message
  BY DEF Message
<1> QED BY <1>1, PostType DEF PostStatus, BoundedPost

LEMMA RunIsSession ==
    ASSUME TypeInv, run # NoRun
    PROVE  run.id \in Sessions
<1>1. run \in [id : Sessions, criteria : Criteria]
  BY DEF TypeInv, TypeOK
<1> QED BY <1>1

LEMMA ModemType ==
    ASSUME TypeInv, Modem
    PROVE  TypeInv'
<1> USE DEF TypeInv
<1>1. CASE ModemEngineOn
  <2>1. msgq' \in Seq(Message) /\ BeginsNamed'
    BY <1>1, StatusPosted DEF ModemEngineOn, Statuses
  <2> QED BY <1>1, <2>1 DEF ModemEngineOn, TypeOK, engine, reports, framework, modem
<1>2. CASE ModemSessionBegin
  <2>1. run.id \in Sessions
    BY <1>2, RunIsSession DEF ModemSessionBegin
  <2>2. msgq' \in Seq(Message) /\ BeginsNamed'
    BY <1>2, <2>1, StatusPosted DEF ModemSessionBegin, Statuses
  <2>3. begun' \in BOOLEAN
        /\ UNCHANGED <<engine, reports, aiding, framework, link, modem, engineOn, seen, events>>
    BY <1>2 DEF ModemSessionBegin
  <2> QED BY <2>2, <2>3 DEF TypeOK, engine, reports, framework, modem
<1>3. CASE ModemSessionEnd
  <2>1. msgq' \in Seq(Message) /\ BeginsNamed'
    BY <1>3, StatusPosted DEF ModemSessionEnd, Statuses
  <2>2. begun' \in BOOLEAN
        /\ UNCHANGED <<engine, reports, aiding, framework, link, modem, engineOn, seen, events>>
    BY <1>3 DEF ModemSessionEnd
  <2> QED BY <2>1, <2>2 DEF TypeOK, engine, reports, framework, modem
<1>4. CASE ModemEngineOff
  <2>1. msgq' \in Seq(Message) /\ BeginsNamed'
    BY <1>4, StatusPosted DEF ModemEngineOff, Statuses
  <2>2. engineOn' \in BOOLEAN
        /\ UNCHANGED <<engine, reports, aiding, framework, link, modem, begun, seen, events>>
    BY <1>4 DEF ModemEngineOff
  <2> QED BY <2>1, <2>2 DEF TypeOK, engine, reports, framework, modem
<1>5. ASSUME NEW status \in {"SUCCESS", "INTERMEDIATE"}, ModemPosition(status) PROVE TypeInv'
  <2>1. [type |-> "Position", status |-> status, session |-> run.id] \in Message
    BY <1>5, RunIsSession DEF ModemPosition, Message
  <2>2. msgq' \in Seq(Message) /\ BeginsNamed'
    BY <1>5, <2>1, PostType DEF ModemPosition, BoundedPost
  <2>3. run' \in [id : Sessions, criteria : Criteria] \cup {NoRun}
    BY <1>5 DEF ModemPosition, TypeOK
  <2> QED BY <1>5, <2>2, <2>3 DEF ModemPosition, TypeOK, engine, reports, framework, radio
<1>6. CASE ModemNi
  <2>1. msgq' \in Seq(Message) /\ BeginsNamed'
    BY <1>6, BareMessages, PostType DEF ModemNi, BoundedPost
  <2>2. events' \in 0 .. MaxEvents
    BY <1>6, EngineAssumption DEF ModemNi, TypeOK, Event
  <2> QED BY <1>6, <2>1, <2>2 DEF ModemNi, TypeOK, engine, reports, framework, modem, radio
<1>7. CASE ModemCrash
  <2>1. BeginsNamed' /\ events' \in 0 .. MaxEvents
    BY <1>7, EngineAssumption DEF ModemCrash, BeginsNamed, TypeOK, Event
  <2> QED BY <1>7, <2>1 DEF ModemCrash, TypeOK, engine, reports, framework
<1> QED BY <1>1, <1>2, <1>3, <1>4, <1>5, <1>6, <1>7 DEF Modem

LEMMA LocApiType ==
    ASSUME TypeInv, LocApi
    PROVE  TypeInv'
<1>1. msgq' \in Seq(Message) /\ BeginsNamed'
  BY BareMessages, PostType DEF LocApi, LocApiDown, LocApiSsr, LocApiUp
<1>2. link' \in {"down", "back", "up"}
  BY DEF LocApi, LocApiDown, LocApiSsr, LocApiUp
<1>3. UNCHANGED <<engine, reports, aiding, framework, modem, radio, seen, events>>
  BY DEF LocApi, LocApiDown, LocApiSsr, LocApiUp
<1> QED BY <1>1, <1>2, <1>3 DEF TypeInv, TypeOK, engine, reports, framework, modem, radio

LEMMA InitType ==
    ASSUME Init
    PROVE  TypeInv
<1>1. msgq \in Seq(Message) /\ BeginsNamed
  BY EmptySeq DEF Init, BeginsNamed
<1>2. criteria \in Criteria
  BY DEF Init, Criteria, Recurrences
<1>3. sessions \in 0 .. MaxSessions /\ events \in 0 .. MaxEvents
  BY EngineAssumption DEF Init
<1> QED BY <1>1, <1>2, <1>3 DEF Init, TypeInv, TypeOK

LEMMA NextType ==
    ASSUME TypeInv, [Next]_vars
    PROVE  TypeInv'
<1>1. CASE UNCHANGED vars
  BY <1>1 DEF TypeInv, TypeOK, BeginsNamed, vars, engine, reports, framework, modem, radio
<1> QED BY <1>1, MsgTaskType, FrameworkType, ModemType, LocApiType DEF Next

\* Every variable keeps its type: whatever is queued, each handler finds the
\* fields it reads, and the counters stay within their bounds.
THEOREM TypeCorrect == Spec => []TypeOK
<1>1. Init => TypeInv
  BY InitType
<1>2. TypeInv /\ [Next]_vars => TypeInv'
  BY NextType
<1>3. TypeInv => TypeOK
  BY DEF TypeInv
<1> QED BY <1>1, <1>2, <1>3, PTL DEF Spec

-----------------------------------------------------------------------------
(* Deletion of aiding data. *)

LEMMA NextAiding ==
    ASSUME AidingIsDeleted, [Next]_vars
    PROVE  AidingIsDeleted'
<1>1. CASE ReportStatus
  BY <1>1 DEF ReportStatus, UpdateAiding, AidingIsDeleted
<1>2. CASE DelAidData
  BY <1>2 DEF DelAidData, UpdateAiding, AidingIsDeleted, reports
<1>3. CASE EngineDown
  BY <1>3 DEF EngineDown, Note, If, AidingIsDeleted
<1>4. ASSUME UNCHANGED <<aiding, engine_status>>, seen \subseteq seen' PROVE AidingIsDeleted'
  BY <1>4 DEF AidingIsDeleted
<1>5. CASE StartFix \/ EngineUp
  <2>1. UNCHANGED <<aiding, engine_status>>
    BY <1>5 DEF StartFix, EngineUp, reports
  <2>2. seen \subseteq seen'
    BY <1>5 DEF StartFix, EngineUp, StartSession, Note
  <2> QED BY <2>1, <2>2, <1>4
<1>6. CASE StopFix \/ PositionMode \/ ReportPosition \/ MuteOneSession \/ Ssr
  <2>1. UNCHANGED <<aiding, engine_status>>
    BY <1>6 DEF StopFix, PositionMode, ReportPosition, MuteOneSession, Ssr, reports
  <2>2. seen \subseteq seen'
    BY <1>6 DEF StopFix, PositionMode, ReportPosition, MuteOneSession, Ssr, Note
  <2> QED BY <2>1, <2>2, <1>4
<1>7. CASE Framework \/ Modem \/ LocApi \/ UNCHANGED vars
  <2>1. UNCHANGED <<aiding, engine_status>>
    BY <1>7 DEF Framework, FwPositionMode, FwStart, FwStop, FwDeleteAidingData, FwCleanup, FwInit,
                Modem, ModemEngineOn, ModemSessionBegin, ModemPosition, ModemSessionEnd,
                ModemEngineOff, ModemNi, ModemCrash, LocApi, LocApiDown, LocApiSsr, LocApiUp,
                vars, reports
  <2>2. seen \subseteq seen'
    BY <1>7 DEF Framework, FwPositionMode, FwStart, FwStop, FwDeleteAidingData, FwCleanup, FwInit,
                Modem, ModemEngineOn, ModemSessionBegin, ModemPosition, ModemSessionEnd,
                ModemEngineOff, ModemNi, ModemCrash, LocApi, LocApiDown, LocApiSsr, LocApiUp,
                vars, Note
  <2> QED BY <2>1, <2>2, <1>4
<1> QED BY <1>1, <1>2, <1>3, <1>5, <1>6, <1>7 DEF Next, MsgTask

\* Aiding data to be deleted does not outlive the engine's run: once it was
\* reported off all is deleted (update_aiding_data_for_deletion), unless the
\* engine went down by a crash.
THEOREM AidingCorrect == Spec => []AidingIsDeleted
<1>1. Init => AidingIsDeleted
  BY DEF Init, AidingIsDeleted
<1> QED BY <1>1, NextAiding, PTL DEF Spec

-----------------------------------------------------------------------------
(* Cleaning up. *)

\* Unless it crashes, each step of the modem posts what it has to say.
LEMMA ModemPosts ==
    ASSUME TypeInv, Modem, ~ModemCrash
    PROVE  \E m \in Message : m.type \in {"Status", "Position", "Ni"} /\ Post(m)
<1>1. ASSUME NEW status \in Statuses, NEW session \in Sessions \cup {NoSession},
             PostStatus(status, session)
      PROVE  \E m \in Message : m.type \in {"Status", "Position", "Ni"} /\ Post(m)
  <2>1. [type |-> "Status", status |-> status, session |-> session] \in Message
    BY DEF Message
  <2> QED BY <1>1, <2>1 DEF PostStatus, BoundedPost
<1>2. CASE ModemEngineOn \/ ModemSessionEnd \/ ModemEngineOff
  BY <1>1, <1>2 DEF ModemEngineOn, ModemSessionEnd, ModemEngineOff, Statuses
<1>3. CASE ModemSessionBegin
  BY <1>1, <1>3, RunIsSession DEF ModemSessionBegin, Statuses
<1>4. ASSUME NEW status \in {"SUCCESS", "INTERMEDIATE"}, ModemPosition(status)
      PROVE  \E m \in Message : m.type \in {"Status", "Position", "Ni"} /\ Post(m)
  <2>1. [type |-> "Position", status |-> status, session |-> run.id] \in Message
    BY <1>4, RunIsSession DEF ModemPosition, Message
  <2> QED BY <1>4, <2>1 DEF ModemPosition, BoundedPost
<1>5. CASE ModemNi
  BY <1>5, BareMessages DEF ModemNi, BoundedPost
<1> QED BY <1>2, <1>3, <1>4, <1>5 DEF Modem

\* Strengthens CleanupStops: after a clean-up no start waits unnoticed either.
CleanupInv ==
    ~open => /\ inSession => Waiting("StopFix") \/ "late" \in seen
             /\ Waiting("StartFix") => "late" \in seen

LEMMA CleanupAfterReceive ==
    ASSUME TypeOK, CleanupInv, UNCHANGED open, seen \subseteq seen',
           NEW type, type # "StopFix", Receive(type),
           inSession' => inSession \/ type = "StartFix"
    PROVE  CleanupInv'
<1>1. /\ Waiting("StopFix") => Waiting("StopFix")'
      /\ Waiting("StartFix")' => Waiting("StartFix")
  BY WaitingAfterReceive
<1>2. type = "StartFix" => Waiting("StartFix")
  <2>1. 1 \in 1 .. Len(msgq) /\ msgq[1].type = type
    BY ReceiveQueue
  <2> QED BY <2>1 DEF Waiting
<1> QED BY <1>1, <1>2 DEF CleanupInv

LEMMA CleanupAfterPost ==
    ASSUME TypeOK, CleanupInv, UNCHANGED <<open, inSession, seen>>,
           NEW m \in Message, open \/ m.type # "StartFix", Post(m)
    PROVE  CleanupInv'
<1>1. /\ Waiting("StopFix") => Waiting("StopFix")'
      /\ Waiting("StartFix")' => Waiting("StartFix") \/ m.type = "StartFix"
  BY WaitingAfterPost
<1> QED BY <1>1 DEF CleanupInv

LEMMA NextCleanup ==
    ASSUME TypeInv, CleanupInv, [Next]_vars
    PROVE  CleanupInv'
<1> TypeOK
  BY DEF TypeInv
<1>1. CASE StartFix
  BY <1>1, CleanupAfterReceive DEF StartFix, StartSession, Note, framework
<1>2. CASE StopFix
  <2>1. inSession' = FALSE \/ (inSession' = inSession /\ ~inSession)
    BY <1>2 DEF StopFix, SetInSession, engine
  <2>2. Waiting("StartFix")' => Waiting("StartFix")
    BY <1>2, WaitingAfterReceive DEF StopFix
  <2> QED BY <1>2, <2>1, <2>2 DEF StopFix, CleanupInv, framework
<1>3. CASE PositionMode \/ ReportStatus \/ DelAidData \/ MuteOneSession \/ EngineDown \/ Ssr
  <2>1. UNCHANGED <<open, inSession>>
    BY <1>3 DEF PositionMode, ReportStatus, DelAidData, MuteOneSession, EngineDown, Ssr,
                framework, engine
  <2>2. seen \subseteq seen'
    BY <1>3 DEF PositionMode, ReportStatus, DelAidData, MuteOneSession, EngineDown, Ssr, Note
  <2>3. \E type \in {"PositionMode", "Status", "DelAidData", "Ni", "EngineDown", "Ssr"} :
           Receive(type)
    BY <1>3 DEF PositionMode, ReportStatus, DelAidData, MuteOneSession, EngineDown, Ssr
  <2> QED BY <2>1, <2>2, <2>3, CleanupAfterReceive
<1>4. CASE ReportPosition
  <2>1. inSession' => inSession
    BY <1>4 DEF ReportPosition, SetInSession, engine
  <2>2. Receive("Position") /\ UNCHANGED open /\ seen \subseteq seen'
    BY <1>4 DEF ReportPosition, Note, framework
  <2> QED BY <2>1, <2>2, CleanupAfterReceive
<1>5. CASE EngineUp
  <2>1. inSession' => inSession
    BY <1>5 DEF EngineUp, engine
  <2>2. Receive("EngineUp") /\ UNCHANGED open /\ seen \subseteq seen'
    BY <1>5 DEF EngineUp, StartSession, Note, framework
  <2> QED BY <2>1, <2>2, CleanupAfterReceive
<1>6. CASE FwCleanup
  <2>1. CASE inSession
    <3>1. Waiting("StopFix")' /\ (Waiting("StartFix")' => Waiting("StartFix"))
      BY <1>6, <2>1, BareMessages, WaitingAfterPost DEF FwCleanup, BoundedPost
    <3> QED BY <1>6, <3>1 DEF FwCleanup, Note, If, CleanupInv
  <2>2. CASE ~inSession
    <3>1. msgq' = msgq /\ ~inSession'
      BY <1>6, <2>2 DEF FwCleanup, engine
    <3>2. Waiting("StartFix")' => Waiting("StartFix")
      BY <3>1 DEF Waiting
    <3>3. Waiting("StartFix") => "late" \in seen'
      BY <1>6 DEF FwCleanup, Note, If
    <3> QED BY <3>1, <3>2, <3>3 DEF CleanupInv
  <2> QED BY <2>1, <2>2
<1>7. CASE Framework /\ ~FwCleanup
  <2>1. (open' = open /\ open) \/ open' = TRUE
    BY <1>7 DEF Framework, FwPositionMode, FwStart, FwStop, FwDeleteAidingData, FwInit, framework
  <2>2. open'
    BY <2>1
  <2> QED BY <2>2 DEF CleanupInv
<1>8. CASE Modem
  <2>1. UNCHANGED <<open, inSession, seen>>
    BY <1>8 DEF Modem, ModemEngineOn, ModemSessionBegin, ModemPosition, ModemSessionEnd,
                ModemEngineOff, ModemNi, ModemCrash, framework, engine
  <2>2. CASE ModemCrash
    BY <2>1, <2>2 DEF ModemCrash, CleanupInv, Waiting
  <2>3. CASE ~ModemCrash
    <3>1. PICK m : m \in Message /\ m.type \in {"Status", "Position", "Ni"} /\ Post(m)
      BY <1>8, <2>3, ModemPosts
    <3> QED BY <2>1, <3>1, CleanupAfterPost
  <2> QED BY <2>2, <2>3
<1>9. CASE LocApi
  <2>1. UNCHANGED <<open, inSession, seen>>
    BY <1>9 DEF LocApi, LocApiDown, LocApiSsr, LocApiUp, framework, engine
  <2>2. PICK type \in {"EngineDown", "Ssr", "EngineUp"} : Post([type |-> type])
    BY <1>9 DEF LocApi, LocApiDown, LocApiSsr, LocApiUp
  <2> QED BY <2>1, <2>2, BareMessages, CleanupAfterPost
<1>10. CASE UNCHANGED vars
  BY <1>10 DEF vars, engine, framework, CleanupInv, Waiting
<1> QED BY <1>1, <1>2, <1>3, <1>4, <1>5, <1>6, <1>7, <1>8, <1>9, <1>10 DEF Next, MsgTask

\* After loc_cleanup the engine is out of its session or has its stop waiting,
\* although the flag was read in another thread: a missed start is the only
\* way around it.
THEOREM CleanupCorrect == Spec => []CleanupStops
<1>1. Init => TypeInv /\ CleanupInv
  BY InitType DEF Init, CleanupInv
<1>2. TypeInv /\ CleanupInv /\ [Next]_vars => (TypeInv /\ CleanupInv)'
  BY NextType, NextCleanup
<1>3. CleanupInv => CleanupStops
  BY DEF CleanupInv, CleanupStops
<1> QED BY <1>1, <1>2, <1>3, PTL DEF Spec

-----------------------------------------------------------------------------
(* An engine restart. *)

\* As long as the handle is closed it is known to be: the modem has crashed, or
\* the message that opens the handle waits, in front of the engine's return.
HandleInv ==
    ~handle => \/ link \in {"crashed", "down"}
               \/ \E i \in 1 .. Len(msgq) :
                     /\ msgq[i].type = "Ssr"
                     /\ \/ link = "back"
                        \/ \E j \in 1 .. Len(msgq) : i < j /\ msgq[j].type = "EngineUp"

AwayInv == link \in {"crashed", "down"} => ~handle /\ ~engineOn

RestartInv == HandleInv /\ AwayInv

LEMMA HandleAfterReceive ==
    ASSUME TypeOK, HandleInv, UNCHANGED <<link, handle>>,
           NEW type, type # "Ssr", Receive(type)
    PROVE  HandleInv'
<1> SUFFICES ASSUME ~handle, link \notin {"crashed", "down"}
             PROVE  \E i \in 1 .. Len(msgq') :
                       /\ msgq'[i].type = "Ssr"
                       /\ \/ link = "back"
                          \/ \E j \in 1 .. Len(msgq') : i < j /\ msgq'[j].type = "EngineUp"
    BY DEF HandleInv
<1>1. PICK i \in 1 .. Len(msgq) :
         /\ msgq[i].type = "Ssr"
         /\ \/ link = "back"
            \/ \E j \in 1 .. Len(msgq) : i < j /\ msgq[j].type = "EngineUp"
  BY DEF HandleInv
<1>2. i # 1
  BY <1>1, ReceiveQueue
<1>3. \A k \in 1 .. Len(msgq) : k # 1 => k - 1 \in 1 .. Len(msgq') /\ msgq'[k - 1] = msgq[k]
  <2> SUFFICES ASSUME NEW k \in 1 .. Len(msgq), k # 1
               PROVE  k - 1 \in 1 .. Len(msgq') /\ msgq'[k - 1] = msgq[k]
      OBVIOUS
  <2>1. k - 1 \in 1 .. Len(msgq') /\ (k - 1) + 1 = k
    BY ReceiveQueue
  <2>2. msgq'[k - 1] = msgq[(k - 1) + 1]
    BY <2>1, ReceiveQueue
  <2> QED BY <2>1, <2>2
<1>4. i - 1 \in 1 .. Len(msgq') /\ msgq'[i - 1].type = "Ssr"
  BY <1>1, <1>2, <1>3
<1>5. ASSUME NEW j \in 1 .. Len(msgq), i < j, msgq[j].type = "EngineUp"
      PROVE  \E l \in 1 .. Len(msgq') : i - 1 < l /\ msgq'[l].type = "EngineUp"
  <2>1. j # 1 /\ i - 1 < j - 1
    BY <1>5, ReceiveQueue
  <2>2. j - 1 \in 1 .. Len(msgq') /\ msgq'[j - 1].type = "EngineUp"
    BY <1>3, <1>5, <2>1
  <2> QED BY <2>1, <2>2
<1> QED BY <1>1, <1>4, <1>5

LEMMA HandleAfterPost ==
    ASSUME TypeOK, HandleInv, UNCHANGED <<link, handle>>, NEW m \in Message, Post(m)
    PROVE  HandleInv'
<1>1. Len(msgq) \in Nat /\ Len(msgq') = Len(msgq) + 1
  BY PostQueue
<1>2. \A k \in 1 .. Len(msgq) : k \in 1 .. Len(msgq') /\ msgq'[k] = msgq[k]
  BY PostQueue
<1> QED BY <1>1, <1>2 DEF HandleInv

\* What the other handlers, and the framework, leave alone.
LEMMA HandlersButSsr ==
    ASSUME MsgTask, ~Ssr
    PROVE  /\ UNCHANGED <<link, handle, engineOn>> /\ seen \subseteq seen'
           /\ \E type \in {"StartFix", "StopFix", "PositionMode", "Position", "Status",
                           "DelAidData", "Ni", "EngineDown", "EngineUp"} : Receive(type)
<1>1. CASE StartFix \/ EngineUp
  <2>1. UNCHANGED <<link, engineOn>>
    BY <1>1 DEF StartFix, EngineUp, radio
  <2>2. UNCHANGED handle
    BY <1>1 DEF StartFix, EngineUp, StartSession, modem
  <2>3. seen \subseteq seen'
    BY <1>1 DEF StartFix, EngineUp, StartSession, Note
  <2> QED BY <1>1, <2>1, <2>2, <2>3 DEF StartFix, EngineUp
<1>2. CASE StopFix \/ PositionMode \/ ReportPosition
  <2>1. UNCHANGED <<link, handle, engineOn>>
    BY <1>2 DEF StopFix, PositionMode, ReportPosition, radio, modem
  <2>2. seen \subseteq seen'
    BY <1>2 DEF StopFix, PositionMode, ReportPosition, Note
  <2> QED BY <1>2, <2>1, <2>2 DEF StopFix, PositionMode, ReportPosition
<1>3. CASE ReportStatus \/ DelAidData \/ MuteOneSession \/ EngineDown
  <2>1. UNCHANGED <<link, handle, engineOn>>
    BY <1>3 DEF ReportStatus, DelAidData, MuteOneSession, EngineDown, radio, modem
  <2>2. seen \subseteq seen'
    BY <1>3 DEF ReportStatus, DelAidData, MuteOneSession, EngineDown, Note
  <2> QED BY <1>3, <2>1, <2>2 DEF ReportStatus, DelAidData, MuteOneSession, EngineDown
<1> QED BY <1>1, <1>2, <1>3 DEF MsgTask

LEMMA FrameworkPosts ==
    ASSUME Framework
    PROVE  /\ UNCHANGED <<link, handle, engineOn, run, inSession, engine_status, aiding>>
           /\ seen \subseteq seen'
           /\ \/ msgq' = msgq
              \/ \E m \in Message :
                    m.type \in {"StartFix", "StopFix", "PositionMode", "DelAidData"} /\ Post(m)
<1>1. UNCHANGED <<link, handle, engineOn, run, inSession, engine_status, aiding>>
  BY DEF Framework, FwPositionMode, FwStart, FwStop, FwDeleteAidingData, FwCleanup, FwInit,
         modem, radio, engine, reports
<1>2. seen \subseteq seen'
  BY DEF Framework, FwPositionMode, FwStart, FwStop, FwDeleteAidingData, FwCleanup, FwInit, Note
<1>3. ASSUME NEW r \in Recurrences, FwPositionMode(r)
      PROVE  \E m \in Message : m.type = "PositionMode" /\ Post(m)
  <2>1. [type |-> "PositionMode", recurrence |-> r] \in Message
    BY DEF Message
  <2> QED BY <1>3, <2>1 DEF FwPositionMode, BoundedPost
<1>4. ASSUME NEW mask \in (SUBSET AidingTypes) \ {{}}, FwDeleteAidingData(mask)
      PROVE  \E m \in Message : m.type = "DelAidData" /\ Post(m)
  <2>1. [type |-> "DelAidData", mask |-> mask] \in Message
    BY DEF Message
  <2> QED BY <1>4, <2>1 DEF FwDeleteAidingData, BoundedPost
<1>5. ASSUME NEW type \in {"StartFix", "StopFix"}, Post([type |-> type])
      PROVE  \E m \in Message : m.type \in {"StartFix", "StopFix"} /\ Post(m)
  <2>1. [type |-> type] \in Message
    BY BareMessages
  <2> QED BY <1>5, <2>1
<1>6. CASE FwStart \/ FwStop
  <2>1. Post([type |-> "StartFix"]) \/ Post([type |-> "StopFix"])
    BY <1>6 DEF FwStart, FwStop, BoundedPost
  <2> QED BY <1>1, <1>2, <1>5, <2>1
<1>7. CASE FwCleanup
  <2>1. Post([type |-> "StopFix"]) \/ msgq' = msgq
    BY <1>7 DEF FwCleanup, BoundedPost
  <2> QED BY <1>1, <1>2, <1>5, <2>1
<1>8. CASE FwInit
  <2>1. msgq' = msgq
    BY <1>8 DEF FwInit
  <2> QED BY <1>1, <1>2, <2>1
<1> QED BY <1>1, <1>2, <1>3, <1>4, <1>6, <1>7, <1>8 DEF Framework

LEMMA NextRestart ==
    ASSUME TypeInv, RestartInv, [Next]_vars
    PROVE  RestartInv'
<1> TypeOK
  BY DEF TypeInv
<1> HandleInv /\ AwayInv
  BY DEF RestartInv
<1>1. CASE Ssr
  BY <1>1 DEF Ssr, RestartInv, HandleInv, AwayInv, TypeOK, radio
<1>2. CASE MsgTask /\ ~Ssr
  <2>1. AwayInv'
    BY <1>2, HandlersButSsr DEF AwayInv
  <2>2. HandleInv'
    BY <1>2, HandlersButSsr, HandleAfterReceive
  <2> QED BY <2>1, <2>2 DEF RestartInv
<1>3. CASE Framework
  <2>1. UNCHANGED <<link, handle, engineOn>>
    BY <1>3, FrameworkPosts
  <2>2. CASE msgq' = msgq
    BY <2>1, <2>2 DEF RestartInv, HandleInv, AwayInv
  <2>3. ASSUME NEW m \in Message, Post(m) PROVE RestartInv'
    BY <2>1, <2>3, HandleAfterPost DEF RestartInv, AwayInv
  <2> QED BY <1>3, <2>2, <2>3, FrameworkPosts
<1>4. CASE ModemCrash
  BY <1>4 DEF ModemCrash, RestartInv, HandleInv, AwayInv
<1>5. CASE Modem /\ ~ModemCrash
  <2>1. UNCHANGED <<link, handle>> /\ (engineOn' => engineOn \/ handle)
    BY <1>5 DEF Modem, ModemEngineOn, ModemSessionBegin, ModemPosition, ModemSessionEnd,
                ModemEngineOff, ModemNi, modem, radio
  <2>2. AwayInv'
    BY <2>1 DEF AwayInv
  <2>3. HandleInv'
    BY <1>5, <2>1, ModemPosts, HandleAfterPost
  <2> QED BY <2>2, <2>3 DEF RestartInv
<1>6. CASE LocApiDown
  BY <1>6 DEF LocApiDown, RestartInv, HandleInv, AwayInv, modem, radio
<1>7. CASE LocApiSsr
  <2>1. Len(msgq) + 1 \in 1 .. Len(msgq') /\ msgq'[Len(msgq) + 1].type = "Ssr"
    BY <1>7, BareMessages, PostQueue DEF LocApiSsr
  <2>2. link' = "back"
    BY <1>7 DEF LocApiSsr
  <2> QED BY <2>1, <2>2 DEF RestartInv, HandleInv, AwayInv
<1>8. CASE LocApiUp
  <2>1. link = "back" /\ link' = "up" /\ UNCHANGED handle
    BY <1>8 DEF LocApiUp, modem
  <2>2. /\ Len(msgq) \in Nat /\ Len(msgq') = Len(msgq) + 1
        /\ \A i \in 1 .. Len(msgq) : msgq'[i] = msgq[i]
        /\ msgq'[Len(msgq) + 1] = [type |-> "EngineUp"]
    BY <1>8, BareMessages, PostQueue DEF LocApiUp
  <2>3. HandleInv'
    <3> SUFFICES ASSUME ~handle
                 PROVE  \E i, j \in 1 .. Len(msgq') :
                           i < j /\ msgq'[i].type = "Ssr" /\ msgq'[j].type = "EngineUp"
        BY <2>1 DEF HandleInv
    <3>1. PICK i \in 1 .. Len(msgq) : msgq[i].type = "Ssr"
      BY <2>1 DEF HandleInv
    <3>2. i \in 1 .. Len(msgq') /\ Len(msgq) + 1 \in 1 .. Len(msgq') /\ i < Len(msgq) + 1
      BY <2>2
    <3>3. msgq'[i].type = "Ssr" /\ msgq'[Len(msgq) + 1].type = "EngineUp"
      BY <2>2, <3>1
    <3> QED BY <3>2, <3>3
  <2>4. AwayInv'
    BY <2>1 DEF AwayInv
  <2> QED BY <2>3, <2>4 DEF RestartInv
<1>9. CASE UNCHANGED vars
  BY <1>9 DEF vars, modem, radio, RestartInv, HandleInv, AwayInv
<1> QED BY <1>1, <1>2, <1>3, <1>4, <1>5, <1>6, <1>7, <1>8, <1>9 DEF Next, Modem, LocApi

LEMMA InitRestart ==
    ASSUME Init
    PROVE  RestartInv
BY DEF Init, RestartInv, HandleInv, AwayInv

-----------------------------------------------------------------------------
(* The session survives a restart. *)

FixWaiting == \E i \in 1 .. Len(msgq) : msgq[i].type = "Position" /\ msgq[i].status = "SUCCESS"

Excused == seen \cap {"refused", "unheard"} # {}

LEMMA FixAfterReceive ==
    ASSUME TypeOK, NEW type, type # "Position", Receive(type), FixWaiting
    PROVE  FixWaiting'
<1>1. PICK i \in 1 .. Len(msgq) : msgq[i].type = "Position" /\ msgq[i].status = "SUCCESS"
  BY DEF FixWaiting
<1>2. i # 1
  BY <1>1, ReceiveQueue
<1>3. i - 1 \in 1 .. Len(msgq') /\ msgq'[i - 1] = msgq[(i - 1) + 1] /\ (i - 1) + 1 = i
  BY <1>2, ReceiveQueue
<1> QED BY <1>1, <1>3 DEF FixWaiting

LEMMA FixAfterPost ==
    ASSUME TypeOK, NEW m \in Message, Post(m),
           FixWaiting \/ (m.type = "Position" /\ m.status = "SUCCESS")
    PROVE  FixWaiting'
<1>1. /\ Len(msgq) \in Nat /\ Len(msgq') = Len(msgq) + 1 /\ msgq'[Len(msgq) + 1] = m
      /\ \A i \in 1 .. Len(msgq) : msgq'[i] = msgq[i]
  BY PostQueue
<1>2. CASE FixWaiting
  <2>1. PICK i \in 1 .. Len(msgq) : msgq[i].type = "Position" /\ msgq[i].status = "SUCCESS"
    BY <1>2 DEF FixWaiting
  <2>2. i \in 1 .. Len(msgq') /\ msgq'[i] = msgq[i]
    BY <1>1
  <2> QED BY <2>1, <2>2 DEF FixWaiting
<1>3. CASE m.type = "Position" /\ m.status = "SUCCESS"
  <2>1. Len(msgq) + 1 \in 1 .. Len(msgq')
    BY <1>1
  <2> QED BY <1>1, <1>3, <2>1 DEF FixWaiting
<1> QED BY <1>2, <1>3

\* A session that could not be started because the modem is away is started
\* when it is back.
LEMMA StartIsKept ==
    ASSUME NEW c, NEW why, StartSession(c, why), RestartInv'
    PROVE  inSession' => run' # NoRun \/ link' # "up" \/ Waiting("EngineUp")' \/ Excused'
<1>1. CASE run' = [id |-> sessions + 1, criteria |-> c] /\ sessions' = sessions + 1
  <2>1. run' # NoRun
    BY <1>1 DEF NoRun
  <2> QED BY <2>1
<1>2. CASE Note(why \cup If(handle, "refused")) /\ UNCHANGED modem
  <2>1. CASE handle
    BY <1>2, <2>1 DEF Note, If, Excused
  <2>2. CASE ~handle
    <3>1. ~handle'
      BY <1>2, <2>2 DEF modem
    <3>2. link' # "up" \/ Waiting("EngineUp")'
      BY <3>1 DEF RestartInv, HandleInv, Waiting
    <3> QED BY <3>2
  <2> QED BY <2>1, <2>2
<1>3. CASE inSession' = FALSE
  BY <1>3
<1> QED BY <1>1, <1>2, <1>3 DEF StartSession

LEMMA SessionAfterReceive ==
    ASSUME TypeOK, SessionIsKept, UNCHANGED <<link, run>>, seen \subseteq seen',
           NEW type, type \notin {"Position", "EngineUp"}, Receive(type),
           inSession' => inSession
    PROVE  SessionIsKept'
<1>1. /\ Waiting("EngineUp") => Waiting("EngineUp")'
      /\ FixWaiting => FixWaiting'
  BY WaitingAfterReceive, FixAfterReceive
<1> QED BY <1>1 DEF SessionIsKept, FixWaiting

LEMMA SessionAfterPost ==
    ASSUME TypeOK, SessionIsKept, UNCHANGED <<inSession, seen>>, NEW m \in Message, Post(m),
           link' # "up" \/ UNCHANGED link \/ m.type = "EngineUp",
           UNCHANGED run \/ (m.type = "Position" /\ m.status = "SUCCESS")
    PROVE  SessionIsKept'
<1>1. /\ Waiting("EngineUp") \/ m.type = "EngineUp" => Waiting("EngineUp")'
      /\ FixWaiting \/ (m.type = "Position" /\ m.status = "SUCCESS") => FixWaiting'
  BY WaitingAfterPost, FixAfterPost
<1> QED BY <1>1 DEF SessionIsKept, FixWaiting

LEMMA NextSession ==
    ASSUME TypeInv, RestartInv', SessionIsKept, [Next]_vars
    PROVE  SessionIsKept'
<1> TypeOK
  BY DEF TypeInv
<1>1. CASE StartFix
  <2>1. CASE StartSession(criteria, {})
    BY <2>1, StartIsKept DEF SessionIsKept, Excused
  <2>2. CASE UNCHANGED <<engine, modem, seen>>
    <3>1. UNCHANGED <<link, run, inSession, seen>> /\ Receive("StartFix")
      BY <1>1, <2>2 DEF StartFix, engine, modem
    <3> QED BY <3>1, SessionAfterReceive
  <2> QED BY <1>1, <2>1, <2>2 DEF StartFix
<1>2. CASE StopFix
  <2>1. ~inSession'
    BY <1>2 DEF StopFix, SetInSession, engine
  <2> QED BY <2>1 DEF SessionIsKept
<1>3. CASE PositionMode \/ ReportStatus \/ DelAidData \/ MuteOneSession \/ EngineDown \/ Ssr
  <2>1. UNCHANGED <<link, run, inSession>>
    BY <1>3 DEF PositionMode, ReportStatus, DelAidData, MuteOneSession, EngineDown, Ssr,
                engine, modem
  <2>2. seen \subseteq seen'
    BY <1>3 DEF PositionMode, ReportStatus, DelAidData, MuteOneSession, EngineDown, Ssr, Note
  <2>3. \E type \in {"PositionMode", "Status", "DelAidData", "Ni", "EngineDown", "Ssr"} :
           Receive(type)
    BY <1>3 DEF PositionMode, ReportStatus, DelAidData, MuteOneSession, EngineDown, Ssr
  <2> QED BY <2>1, <2>2, <2>3, SessionAfterReceive
<1>4. CASE ReportPosition
  <2>1. CASE inSession' = FALSE
    BY <2>1 DEF SessionIsKept
  <2>2. CASE /\ UNCHANGED <<engine, run>>
             /\ seen \cup If(inSession /\ run = NoRun, "unheard") \subseteq seen'
    <3>1. UNCHANGED <<inSession, run>>
      BY <2>2 DEF engine
    <3>2. CASE inSession /\ run = NoRun
      BY <2>2, <3>2 DEF If, SessionIsKept
    <3>3. CASE ~inSession \/ run # NoRun
      BY <3>1, <3>3 DEF SessionIsKept
    <3> QED BY <3>2, <3>3
  <2> QED BY <1>4, <2>1, <2>2 DEF ReportPosition, SetInSession, Note
<1>5. CASE EngineUp
  <2>1. CASE StartSession([criteria EXCEPT !.mode = "INVALID"], {"restarted"})
    BY <2>1, StartIsKept DEF SessionIsKept, Excused
  <2>2. CASE ~inSession /\ UNCHANGED engine
    <3>1. ~inSession'
      BY <2>2 DEF engine
    <3> QED BY <3>1 DEF SessionIsKept
  <2> QED BY <1>5, <2>1, <2>2 DEF EngineUp
<1>6. CASE Framework
  <2>1. UNCHANGED <<link, run, inSession>> /\ seen \subseteq seen'
    BY <1>6, FrameworkPosts
  <2>2. CASE msgq' = msgq
    BY <2>1, <2>2 DEF SessionIsKept, Waiting
  <2>3. ASSUME NEW m \in Message, Post(m) PROVE SessionIsKept'
    <3>1. /\ Waiting("EngineUp") => Waiting("EngineUp")'
          /\ FixWaiting => FixWaiting'
      BY <2>3, WaitingAfterPost, FixAfterPost
    <3> QED BY <2>1, <3>1 DEF SessionIsKept, FixWaiting
  <2> QED BY <1>6, <2>2, <2>3, FrameworkPosts
<1>7. CASE ModemCrash
  BY <1>7 DEF ModemCrash, SessionIsKept
<1>8. ASSUME NEW status \in {"SUCCESS", "INTERMEDIATE"}, ModemPosition(status)
      PROVE  SessionIsKept'
  <2>1. [type |-> "Position", status |-> status, session |-> run.id] \in Message
    BY <1>8, RunIsSession DEF ModemPosition, Message
  <2>2. UNCHANGED <<link, inSession, seen>> /\ (UNCHANGED run \/ status = "SUCCESS")
    BY <1>8 DEF ModemPosition, engine
  <2> QED BY <1>8, <2>1, <2>2, SessionAfterPost DEF ModemPosition, BoundedPost
<1>9. CASE ModemEngineOn \/ ModemSessionBegin \/ ModemSessionEnd \/ ModemEngineOff \/ ModemNi
  <2>1. UNCHANGED <<link, run, inSession, seen>>
    BY <1>9 DEF ModemEngineOn, ModemSessionBegin, ModemSessionEnd, ModemEngineOff, ModemNi,
                engine, modem
  <2>2. PICK m \in Message : Post(m)
    <3>1. CASE ModemCrash
      BY <1>9, <3>1 DEF ModemCrash, ModemEngineOn, ModemSessionBegin, ModemSessionEnd,
                        ModemEngineOff, ModemNi
    <3>2. CASE ~ModemCrash
      BY <1>9, <3>2, ModemPosts DEF Modem
    <3> QED BY <3>1, <3>2
  <2> QED BY <2>1, <2>2, SessionAfterPost
<1>10. CASE LocApi
  <2>1. UNCHANGED <<run, inSession, seen>>
    BY <1>10 DEF LocApi, LocApiDown, LocApiSsr, LocApiUp, engine, modem
  <2>2. CASE LocApiUp
    BY <2>1, <2>2, BareMessages, SessionAfterPost DEF LocApiUp
  <2>3. CASE LocApiDown \/ LocApiSsr
    <3>1. link' # "up"
      BY <2>3 DEF LocApiDown, LocApiSsr
    <3> QED BY <3>1 DEF SessionIsKept
  <2> QED BY <1>10, <2>2, <2>3 DEF LocApi
<1>11. CASE UNCHANGED vars
  BY <1>11 DEF vars, engine, modem, SessionIsKept, Waiting
<1> QED BY <1>1, <1>2, <1>3, <1>4, <1>5, <1>6, <1>7, <1>8, <1>9, <1>10, <1>11
        DEF Next, MsgTask, Modem

\* A session the engine counts itself in is run by the modem, has just had its
\* final fix, or will be started again (loc_eng_handle_engine_up): whatever
\* crashes, stops and late reports come in between, it is not lost.
THEOREM SessionCorrect == Spec => []SessionIsKept
<1>1. Init => TypeInv /\ RestartInv /\ SessionIsKept
  BY InitType, InitRestart DEF Init, SessionIsKept
<1>2. TypeInv /\ RestartInv /\ SessionIsKept /\ [Next]_vars
        => (TypeInv /\ RestartInv /\ SessionIsKept)'
  BY NextType, NextRestart, NextSession
<1> QED BY <1>1, <1>2, PTL DEF Spec

-----------------------------------------------------------------------------
(* Deletion under a running engine. *)

IsOn(m) == m.type = "Status" /\ m.status = "ENGINE_ON"
IsOff(m) == m.type = "EngineDown" \/ (m.type = "Status" /\ m.status = "ENGINE_OFF")

\* While the modem's engine runs, the last word on it, handled or waiting, is
\* that it runs.
LastWordIsOn ==
    \/ engine_status = "ENGINE_ON" /\ \A j \in 1 .. Len(msgq) : ~IsOff(msgq[j])
    \/ \E i \in 1 .. Len(msgq) :
          IsOn(msgq[i]) /\ \A j \in 1 .. Len(msgq) : i < j => ~IsOff(msgq[j])

EngineInv == engineOn => LastWordIsOn

LEMMA LastWordAfterReceive ==
    ASSUME TypeOK, LastWordIsOn, NEW type, Receive(type),
           \/ UNCHANGED engine_status /\ ~IsOn(Head(msgq))
           \/ engine_status' = "ENGINE_ON" /\ IsOn(Head(msgq))
           \/ IsOff(Head(msgq))
    PROVE  LastWordIsOn'
<1>1. \A k \in 1 .. Len(msgq') : k + 1 \in 1 .. Len(msgq) /\ msgq'[k] = msgq[k + 1]
  BY ReceiveQueue
<1>2. 1 \in 1 .. Len(msgq) /\ msgq[1] = Head(msgq)
  BY ReceiveQueue
<1>3. CASE engine_status = "ENGINE_ON" /\ \A j \in 1 .. Len(msgq) : ~IsOff(msgq[j])
  <2>1. engine_status' = "ENGINE_ON"
    BY <1>2, <1>3
  <2>2. \A j \in 1 .. Len(msgq') : ~IsOff(msgq'[j])
    BY <1>1, <1>3
  <2> QED BY <2>1, <2>2 DEF LastWordIsOn, IsOff
<1>4. ASSUME NEW i \in 1 .. Len(msgq), IsOn(msgq[i]),
             \A j \in 1 .. Len(msgq) : i < j => ~IsOff(msgq[j])
      PROVE  LastWordIsOn'
  <2>1. CASE i = 1
    <3>1. \A j \in 1 .. Len(msgq') : ~IsOff(msgq'[j])
      <4> TAKE j \in 1 .. Len(msgq')
      <4>1. 1 < j + 1 /\ j + 1 \in 1 .. Len(msgq) /\ msgq'[j] = msgq[j + 1]
        BY <1>1, ReceiveQueue
      <4> QED BY <1>4, <2>1, <4>1
    <3>2. IsOn(Head(msgq)) /\ ~IsOff(Head(msgq))
      BY <1>2, <1>4, <2>1 DEF IsOn, IsOff
    <3> QED BY <3>1, <3>2 DEF LastWordIsOn, IsOff
  <2>2. CASE i # 1
    <3>1. i - 1 \in 1 .. Len(msgq') /\ (i - 1) + 1 = i
      BY <2>2, ReceiveQueue
    <3>2. msgq'[i - 1] = msgq[i]
      BY <1>1, <3>1
    <3>3. \A j \in 1 .. Len(msgq') : i - 1 < j => ~IsOff(msgq'[j])
      <4> TAKE j \in 1 .. Len(msgq')
      <4> HAVE i - 1 < j
      <4>1. i < j + 1 /\ j + 1 \in 1 .. Len(msgq) /\ msgq'[j] = msgq[j + 1]
        BY <1>1, <3>1, ReceiveQueue
      <4> QED BY <1>4, <4>1
    <3> QED BY <1>4, <3>1, <3>2, <3>3 DEF LastWordIsOn, IsOn, IsOff
  <2> QED BY <2>1, <2>2
<1> QED BY <1>3, <1>4 DEF LastWordIsOn

LEMMA LastWordAfterPost ==
    ASSUME TypeOK, NEW m \in Message, Post(m), UNCHANGED engine_status,
           IsOn(m) \/ (LastWordIsOn /\ ~IsOff(m))
    PROVE  LastWordIsOn'
<1>1. /\ Len(msgq) \in Nat /\ Len(msgq') = Len(msgq) + 1 /\ msgq'[Len(msgq) + 1] = m
      /\ \A i \in 1 .. Len(msgq) : msgq'[i] = msgq[i]
  BY PostQueue
<1>2. Len(msgq) + 1 \in 1 .. Len(msgq')
      /\ \A j \in 1 .. Len(msgq') : j \in 1 .. Len(msgq) \/ j = Len(msgq) + 1
  BY <1>1
<1>3. CASE IsOn(m)
  <2>1. \A j \in 1 .. Len(msgq') : ~(Len(msgq) + 1 < j)
    BY <1>1
  <2>2. IsOn(msgq'[Len(msgq) + 1])
    BY <1>1, <1>3
  <2> QED BY <1>2, <2>1, <2>2 DEF LastWordIsOn, IsOn, IsOff
<1>4. CASE ~IsOff(m) /\ engine_status = "ENGINE_ON" /\ \A j \in 1 .. Len(msgq) : ~IsOff(msgq[j])
  <2>1. \A j \in 1 .. Len(msgq') : ~IsOff(msgq'[j])
    BY <1>1, <1>2, <1>4
  <2> QED BY <1>4, <2>1 DEF LastWordIsOn, IsOff
<1>5. ASSUME NEW i \in 1 .. Len(msgq), IsOn(msgq[i]), ~IsOff(m),
             \A j \in 1 .. Len(msgq) : i < j => ~IsOff(msgq[j])
      PROVE  LastWordIsOn'
  <2>1. i \in 1 .. Len(msgq') /\ IsOn(msgq'[i])
    BY <1>1, <1>5
  <2>2. \A j \in 1 .. Len(msgq') : i < j => ~IsOff(msgq'[j])
    BY <1>1, <1>2, <1>5
  <2> QED BY <2>1, <2>2 DEF LastWordIsOn, IsOn, IsOff
<1> QED BY <1>3, <1>4, <1>5 DEF LastWordIsOn

LEMMA NextEngine ==
    ASSUME TypeInv, RestartInv, EngineInv, [Next]_vars
    PROVE  EngineInv'
<1> TypeOK
  BY DEF TypeInv
<1>1. CASE MsgTask
  <2> SUFFICES ASSUME engineOn' PROVE LastWordIsOn'
      BY DEF EngineInv
  <2>1. engineOn
    BY <1>1, HandlersButSsr DEF Ssr, radio
  <2>2. LastWordIsOn
    BY <2>1 DEF EngineInv
  <2>3. CASE ReportStatus
    <3>1. Receive("Status") /\ Head(msgq).type = "Status"
      BY <2>3, ReceiveQueue DEF ReportStatus
    <3>2. engine_status' = IF Head(msgq).status \in {"ENGINE_ON", "ENGINE_OFF"}
                           THEN Head(msgq).status ELSE engine_status
      BY <2>3 DEF ReportStatus, Report
    <3>3. \/ UNCHANGED engine_status /\ ~IsOn(Head(msgq))
          \/ engine_status' = "ENGINE_ON" /\ IsOn(Head(msgq))
          \/ IsOff(Head(msgq))
      BY <3>1, <3>2 DEF IsOn, IsOff
    <3> QED BY <2>2, <3>1, <3>3, LastWordAfterReceive
  <2>4. CASE EngineDown
    <3>1. Receive("EngineDown") /\ IsOff(Head(msgq))
      BY <2>4, ReceiveQueue DEF EngineDown, IsOff
    <3> QED BY <2>2, <3>1, LastWordAfterReceive
  <2>5. CASE MsgTask /\ ~ReportStatus /\ ~EngineDown
    <3>1. UNCHANGED engine_status
      BY <2>5 DEF MsgTask, StartFix, StopFix, PositionMode, ReportPosition, DelAidData,
                  MuteOneSession, Ssr, EngineUp, reports
    <3>2. PICK type \in {"StartFix", "StopFix", "PositionMode", "Position",
                         "DelAidData", "Ni", "Ssr", "EngineUp"} : Receive(type)
      BY <2>5 DEF MsgTask, StartFix, StopFix, PositionMode, ReportPosition, DelAidData,
                  MuteOneSession, Ssr, EngineUp
    <3>3. ~IsOn(Head(msgq))
      BY <3>2, ReceiveQueue DEF IsOn
    <3> QED BY <2>2, <3>1, <3>2, <3>3, LastWordAfterReceive
  <2> QED BY <1>1, <2>3, <2>4, <2>5
<1>2. CASE Framework
  <2>1. UNCHANGED <<engineOn, engine_status>>
    BY <1>2, FrameworkPosts
  <2>2. CASE msgq' = msgq
    BY <2>1, <2>2 DEF EngineInv, LastWordIsOn, IsOn, IsOff
  <2>3. ASSUME NEW m \in Message, Post(m),
               m.type \in {"StartFix", "StopFix", "PositionMode", "DelAidData"}
        PROVE  EngineInv'
    <3>1. ~IsOff(m)
      BY <2>3 DEF IsOff
    <3> QED BY <2>1, <2>3, <3>1, LastWordAfterPost DEF EngineInv
  <2> QED BY <1>2, <2>2, <2>3, FrameworkPosts
<1>3. CASE ModemEngineOff \/ ModemCrash
  <2>1. ~engineOn'
    BY <1>3 DEF ModemEngineOff, ModemCrash
  <2> QED BY <2>1 DEF EngineInv
<1>4. ASSUME NEW status \in Statuses \ {"ENGINE_OFF"}, NEW session \in Sessions \cup {NoSession},
             PostStatus(status, session), UNCHANGED engine_status,
             UNCHANGED engineOn \/ status = "ENGINE_ON"
      PROVE  EngineInv'
  <2> DEFINE m == [type |-> "Status", status |-> status, session |-> session]
  <2>1. m \in Message /\ Post(m)
    BY <1>4 DEF Message, PostStatus, BoundedPost
  <2>2. ~IsOff(m) /\ (status = "ENGINE_ON" => IsOn(m))
    BY DEF IsOn, IsOff
  <2> HIDE DEF m
  <2> QED BY <1>4, <2>1, <2>2, LastWordAfterPost DEF EngineInv
<1>5. CASE ModemEngineOn
  BY <1>4, <1>5 DEF ModemEngineOn, Statuses, reports
<1>6. CASE ModemSessionBegin
  BY <1>4, <1>6, RunIsSession DEF ModemSessionBegin, Statuses, reports
<1>7. CASE ModemSessionEnd
  BY <1>4, <1>7 DEF ModemSessionEnd, Statuses, reports
<1>8. ASSUME NEW status \in {"SUCCESS", "INTERMEDIATE"}, ModemPosition(status)
      PROVE  EngineInv'
  <2> DEFINE m == [type |-> "Position", status |-> status, session |-> run.id]
  <2>1. m \in Message /\ Post(m)
    BY <1>8, RunIsSession DEF ModemPosition, Message, BoundedPost
  <2>2. ~IsOff(m)
    BY DEF IsOff
  <2>3. UNCHANGED <<engineOn, engine_status>>
    BY <1>8 DEF ModemPosition, radio, reports
  <2> HIDE DEF m
  <2> QED BY <2>1, <2>2, <2>3, LastWordAfterPost DEF EngineInv
<1>9. ASSUME NEW type \in {"Ni", "Ssr", "EngineUp"}, Post([type |-> type]),
             UNCHANGED <<engineOn, engine_status>>
      PROVE  EngineInv'
  <2> DEFINE m == [type |-> type]
  <2>1. m \in Message /\ Post(m) /\ ~IsOff(m)
    BY <1>9, BareMessages DEF IsOff
  <2> HIDE DEF m
  <2> QED BY <1>9, <2>1, LastWordAfterPost DEF EngineInv
<1>10. CASE ModemNi
  BY <1>9, <1>10 DEF ModemNi, BoundedPost, radio, reports
<1>11. CASE LocApiSsr \/ LocApiUp
  BY <1>9, <1>11 DEF LocApiSsr, LocApiUp, radio, reports
<1>12. CASE LocApiDown
  <2>1. ~engineOn'
    BY <1>12 DEF LocApiDown, radio, RestartInv, AwayInv
  <2> QED BY <2>1 DEF EngineInv
<1>13. CASE UNCHANGED vars
  BY <1>13 DEF vars, radio, reports, EngineInv, LastWordIsOn, IsOn, IsOff
<1> QED BY <1>1, <1>2, <1>3, <1>5, <1>6, <1>7, <1>8, <1>10, <1>11, <1>12, <1>13
        DEF Next, Modem, LocApi

LEMMA DeletesWhen ==
    ASSUME TypeInv, Next, Deletes
    PROVE  \/ ReportStatus /\ engine_status' # "ENGINE_ON"
           \/ DelAidData /\ engine_status # "ENGINE_ON"
<1> TypeOK
  BY DEF TypeInv
<1>1. CASE ReportStatus
  <2>1. aiding # {}
    BY <1>1, ReceiveQueue DEF Deletes, ReportStatus
  <2> QED BY <1>1, <2>1 DEF Deletes, ReportStatus, UpdateAiding
<1>2. CASE DelAidData
  <2>1. Head(msgq).mask # {}
    BY <1>2, MessageFields DEF DelAidData
  <2> QED BY <1>2, <2>1 DEF Deletes, DelAidData, UpdateAiding
<1>3. ASSUME ~ReportStatus, ~DelAidData PROVE FALSE
  <2>1. UNCHANGED aiding
    <3>1. CASE MsgTask
      BY <1>3, <3>1 DEF MsgTask, StartFix, StopFix, PositionMode, ReportPosition, MuteOneSession,
                        EngineDown, Ssr, EngineUp
    <3>2. CASE Framework
      BY <3>2, FrameworkPosts
    <3>3. CASE Modem \/ LocApi
      BY <3>3 DEF Modem, ModemEngineOn, ModemSessionBegin, ModemPosition, ModemSessionEnd,
                  ModemEngineOff, ModemNi, ModemCrash, LocApi, LocApiDown, LocApiSsr, LocApiUp
    <3> QED BY <3>1, <3>2, <3>3 DEF Next
  <2>2. msgq # <<>> /\ Head(msgq).type = "DelAidData" /\ msgq' = Tail(msgq)
    BY <2>1 DEF Deletes
  <2>3. Receive("DelAidData")
    BY <2>2 DEF Receive
  <2>4. Len(msgq) \in Nat \ {0} /\ Len(msgq') = Len(msgq) - 1
    BY <2>3, ReceiveQueue
  <2>5. ~(msgq' = msgq) /\ \A m \in Message : ~Post(m)
    <3>1. msgq' # msgq
      BY <2>4
    <3>2. ASSUME NEW m \in Message, Post(m) PROVE FALSE
      BY <2>4, <3>2, PostQueue
    <3> QED BY <3>1, <3>2
  <2>6. CASE MsgTask
    <3>1. \E type \in {"StartFix", "StopFix", "PositionMode", "Position", "Ni",
                       "EngineDown", "Ssr", "EngineUp"} : Head(msgq).type = type
      BY <1>3, <2>6 DEF MsgTask, StartFix, StopFix, PositionMode, ReportPosition, MuteOneSession,
                        EngineDown, Ssr, EngineUp, Receive
    <3> QED BY <2>2, <3>1
  <2>7. CASE Framework
    BY <2>5, <2>7, FrameworkPosts
  <2>8. CASE Modem
    <3>1. CASE ModemCrash
      BY <2>5, <3>1 DEF ModemCrash
    <3> QED BY <2>5, <2>8, <3>1, ModemPosts
  <2>9. CASE LocApi
    BY <2>5, <2>9, BareMessages DEF LocApi, LocApiDown, LocApiSsr, LocApiUp
  <2> QED BY <2>6, <2>7, <2>8, <2>9 DEF Next
<1> QED BY <1>1, <1>2, <1>3

LEMMA LastWordWaits ==
    ASSUME LastWordIsOn, engine_status # "ENGINE_ON"
    PROVE  StatusWaiting({"ENGINE_ON"})
BY DEF LastWordIsOn, StatusWaiting, IsOn

LEMMA OnWaitedBefore ==
    ASSUME TypeOK, NEW type, Receive(type), LastWordIsOn', engine_status' # "ENGINE_ON"
    PROVE  StatusWaiting({"ENGINE_ON"})
<1>1. PICK i \in 1 .. Len(msgq') : IsOn(msgq'[i])
  BY DEF LastWordIsOn, IsOn, IsOff
<1>2. i + 1 \in 1 .. Len(msgq) /\ msgq'[i] = msgq[i + 1]
  BY ReceiveQueue
<1>3. msgq[i + 1].type = "Status" /\ msgq[i + 1].status = "ENGINE_ON"
  BY <1>1, <1>2 DEF IsOn
<1> QED BY <1>2, <1>3 DEF StatusWaiting

\* The code's own condition, "aiding data can only be deleted when GPS engine
\* is off" (loc_eng.h:116), against the modem: the status kept in the engine is
\* wrong only while the message that corrects it waits.
THEOREM DeletionCorrect == Spec => DeletedWhileOff
<1>1. Init => TypeInv /\ RestartInv /\ EngineInv
  BY InitType, InitRestart DEF Init, EngineInv
<1>2. TypeInv /\ RestartInv /\ EngineInv /\ [Next]_vars
        => (TypeInv /\ RestartInv /\ EngineInv)'
  BY NextType, NextRestart, NextEngine
<1>3. TypeInv /\ RestartInv /\ EngineInv /\ [Next]_vars
        => [Deletes => ~engineOn \/ StatusWaiting({"ENGINE_ON"})]_vars
  <2> SUFFICES ASSUME TypeInv, RestartInv, EngineInv, Next, Deletes, engineOn
               PROVE  StatusWaiting({"ENGINE_ON"})
      OBVIOUS
  <2>1. TypeOK /\ LastWordIsOn
    BY DEF TypeInv, EngineInv
  <2>2. CASE ReportStatus /\ engine_status' # "ENGINE_ON"
    <3>1. EngineInv' /\ engineOn' = engineOn
      BY <2>2, NextEngine DEF ReportStatus, radio
    <3>2. LastWordIsOn'
      BY <3>1 DEF EngineInv
    <3> QED BY <2>1, <2>2, <3>2, OnWaitedBefore DEF ReportStatus
  <2>3. CASE DelAidData /\ engine_status # "ENGINE_ON"
    BY <2>1, <2>3, LastWordWaits
  <2> QED BY <2>2, <2>3, DeletesWhen
<1> QED BY <1>1, <1>2, <1>3, PTL DEF Spec, DeletedWhileOff
-----------------------------------------------------------------------------
(* The end of what the framework was told. *)

\* What was, and what its handler does to the messages behind it: they move up.
LEMMA QueueMovesUp ==
    ASSUME TypeOK, NEW type, Receive(type)
    PROVE  /\ \A i \in 1 .. Len(msgq') : i + 1 \in 1 .. Len(msgq) /\ msgq'[i] = msgq[i + 1]
           /\ \A k \in 1 .. Len(msgq) : k # 1 => /\ k - 1 \in 1 .. Len(msgq') /\ (k - 1) + 1 = k
                                                 /\ msgq'[k - 1] = msgq[k]
           /\ 1 \in 1 .. Len(msgq) /\ msgq[1] = Head(msgq) /\ msgq[1].type = type
<1>1. \A i \in 1 .. Len(msgq') : i + 1 \in 1 .. Len(msgq) /\ msgq'[i] = msgq[i + 1]
  BY ReceiveQueue
<1>2. ASSUME NEW k \in 1 .. Len(msgq), k # 1
      PROVE  /\ k - 1 \in 1 .. Len(msgq') /\ (k - 1) + 1 = k
             /\ msgq'[k - 1] = msgq[k]
  <2>1. k - 1 \in 1 .. Len(msgq') /\ (k - 1) + 1 = k
    BY <1>2, ReceiveQueue
  <2>2. msgq'[k - 1] = msgq[(k - 1) + 1]
    BY <2>1, ReceiveQueue
  <2> QED BY <2>1, <2>2
<1>3. 1 \in 1 .. Len(msgq) /\ msgq[1] = Head(msgq) /\ msgq[1].type = type
  BY ReceiveQueue
<1> QED BY <1>1, <1>2, <1>3

\* A message that is posted is the last one, the others stay.
LEMMA QueueGrows ==
    ASSUME TypeOK, NEW m \in Message, Post(m)
    PROVE  /\ Len(msgq) \in Nat /\ Len(msgq') = Len(msgq) + 1
           /\ \A i \in 1 .. Len(msgq) : i \in 1 .. Len(msgq') /\ msgq'[i] = msgq[i]
           /\ Len(msgq) + 1 \in 1 .. Len(msgq') /\ msgq'[Len(msgq) + 1] = m
           /\ \A i \in 1 .. Len(msgq') : i \in 1 .. Len(msgq) \/ i = Len(msgq) + 1
<1>1. Len(msgq) \in Nat /\ Len(msgq') = Len(msgq) + 1
  BY PostQueue
<1> QED BY <1>1, PostQueue

IsBegin(m) == m.type = "Status" /\ m.status = "SESSION_BEGIN"

\* The engine runs, or that it does not is said behind the n-th message.
OffComes(n) ==
    engineOn \/ link = "crashed" \/ \E j \in 1 .. Len(msgq) : n < j /\ IsOff(msgq[j])

ToldInv ==
    /\ told => OffComes(0)
    /\ \A i \in 1 .. Len(msgq) : IsBegin(msgq[i]) => OffComes(i)

LEMMA OffAfterReceive ==
    ASSUME TypeOK, NEW type, Receive(type), UNCHANGED <<link, engineOn>>,
           NEW n \in Nat, OffComes(n + 1)
    PROVE  OffComes(n)'
<1>1. CASE engineOn \/ link = "crashed"
  BY <1>1 DEF OffComes
<1>2. ASSUME NEW j \in 1 .. Len(msgq), n + 1 < j, IsOff(msgq[j]) PROVE OffComes(n)'
  <2>1. j # 1 /\ n < j - 1
    BY <1>2
  <2>2. j - 1 \in 1 .. Len(msgq') /\ msgq'[j - 1] = msgq[j]
    BY <2>1, QueueMovesUp
  <2> QED BY <1>2, <2>1, <2>2 DEF OffComes, IsOff
<1> QED BY <1>1, <1>2 DEF OffComes

LEMMA OffAfterPost ==
    ASSUME TypeOK, NEW m \in Message, Post(m), NEW n \in 0 .. Len(msgq), OffComes(n),
           engineOn \/ link = "crashed" => engineOn' \/ link' = "crashed" \/ IsOff(m)
    PROVE  OffComes(n)'
<1>1. CASE engineOn' \/ link' = "crashed"
  BY <1>1 DEF OffComes
<1>2. CASE IsOff(m)
  <2>1. n < Len(msgq) + 1
    BY QueueGrows
  <2> QED BY <1>2, <2>1, QueueGrows DEF OffComes, IsOff
<1>3. ASSUME NEW j \in 1 .. Len(msgq), n < j, IsOff(msgq[j]) PROVE OffComes(n)'
  BY <1>3, QueueGrows DEF OffComes, IsOff
<1> QED BY <1>1, <1>2, <1>3 DEF OffComes

LEMMA ToldAfterReceive ==
    ASSUME TypeOK, ToldInv, NEW type, Receive(type), UNCHANGED <<link, engineOn>>,
           told' => (told /\ ~IsOff(Head(msgq))) \/ IsBegin(Head(msgq))
    PROVE  ToldInv'
<1>1. ASSUME told' PROVE OffComes(0)'
  <2>1. CASE IsBegin(Head(msgq))
    <3>1. OffComes(0 + 1)
      BY <2>1, QueueMovesUp DEF ToldInv, IsBegin
    <3> QED BY <3>1, OffAfterReceive
  <2>2. CASE told /\ ~IsOff(Head(msgq))
    <3>1. ASSUME NEW j \in 1 .. Len(msgq), IsOff(msgq[j]) PROVE 0 + 1 < j
      BY <2>2, <3>1, QueueMovesUp DEF IsOff
    <3>2. OffComes(0 + 1)
      BY <2>2, <3>1 DEF ToldInv, OffComes
    <3> QED BY <3>2, OffAfterReceive
  <2> QED BY <1>1, <2>1, <2>2
<1>2. ASSUME NEW i \in 1 .. Len(msgq'), IsBegin(msgq'[i]) PROVE OffComes(i)'
  <2>1. i + 1 \in 1 .. Len(msgq) /\ IsBegin(msgq[i + 1])
    BY <1>2, QueueMovesUp DEF IsBegin
  <2>2. OffComes(i + 1)
    BY <2>1 DEF ToldInv
  <2> QED BY <2>2, OffAfterReceive
<1> QED BY <1>1, <1>2 DEF ToldInv, IsBegin

LEMMA ToldAfterPost ==
    ASSUME TypeOK, ToldInv, UNCHANGED told, NEW m \in Message, Post(m),
           engineOn \/ link = "crashed" => engineOn' \/ link' = "crashed" \/ IsOff(m),
           IsBegin(m) => engineOn'
    PROVE  ToldInv'
<1>1. ASSUME told' PROVE OffComes(0)'
  <2>1. OffComes(0) /\ 0 \in 0 .. Len(msgq)
    BY <1>1, QueueGrows DEF ToldInv
  <2> QED BY <2>1, OffAfterPost
<1>2. ASSUME NEW i \in 1 .. Len(msgq'), IsBegin(msgq'[i]) PROVE OffComes(i)'
  <2>1. CASE i \in 1 .. Len(msgq)
    <3>1. IsBegin(msgq[i]) /\ i \in 0 .. Len(msgq)
      BY <1>2, <2>1, QueueGrows DEF IsBegin
    <3>2. OffComes(i)
      BY <2>1, <3>1 DEF ToldInv
    <3> QED BY <3>1, <3>2, OffAfterPost
  <2>2. CASE i = Len(msgq) + 1
    <3>1. engineOn'
      BY <1>2, <2>2, QueueGrows DEF IsBegin
    <3> QED BY <3>1 DEF OffComes
  <2> QED BY <2>1, <2>2, QueueGrows
<1> QED BY <1>1, <1>2 DEF ToldInv, IsBegin

LEMMA ReportTells ==
    ASSUME NEW status \in Statuses, NEW session, Report(status, session), told'
    PROVE  (told /\ status # "ENGINE_OFF") \/ status = "SESSION_BEGIN"
BY DEF Report, Statuses

LEMMA NextTold ==
    ASSUME TypeInv, ToldInv, [Next]_vars
    PROVE  ToldInv'
<1> TypeOK
  BY DEF TypeInv
<1>1. CASE ReportStatus
  <2>1. Receive("Status") /\ UNCHANGED <<link, engineOn>>
    BY <1>1 DEF ReportStatus, radio
  <2>2. Head(msgq).status \in Statuses /\ Head(msgq).type = "Status"
    BY <2>1, MessageFields, ReceiveQueue
  <2>3. told' => (told /\ ~IsOff(Head(msgq))) \/ IsBegin(Head(msgq))
    BY <1>1, <2>2, ReportTells DEF ReportStatus, IsOff, IsBegin
  <2> QED BY <2>1, <2>3, ToldAfterReceive
<1>2. CASE EngineDown
  <2>1. Receive("EngineDown") /\ UNCHANGED <<link, engineOn>>
    BY <1>2 DEF EngineDown, radio
  <2>2. ~told'
    BY <1>2, ReportTells DEF EngineDown, Statuses
  <2> QED BY <2>1, <2>2, ToldAfterReceive
<1>3. CASE MsgTask /\ ~ReportStatus /\ ~EngineDown
  <2>1. UNCHANGED <<told, link, engineOn>>
    BY <1>3, HandlersButSsr DEF MsgTask, StartFix, StopFix, PositionMode, ReportPosition,
                DelAidData, MuteOneSession, Ssr, EngineUp, reports, radio
  <2>2. PICK type \in {"StartFix", "StopFix", "PositionMode", "Position",
                       "DelAidData", "Ni", "Ssr", "EngineUp"} : Receive(type)
    BY <1>3 DEF MsgTask, StartFix, StopFix, PositionMode, ReportPosition, DelAidData,
                MuteOneSession, Ssr, EngineUp
  <2>3. ~IsOff(Head(msgq))
    BY <2>2, ReceiveQueue DEF IsOff
  <2> QED BY <2>1, <2>2, <2>3, ToldAfterReceive
<1>4. CASE Framework
  <2>1. UNCHANGED <<engineOn, link, told>>
    BY <1>4, FrameworkPosts DEF Framework, FwPositionMode, FwStart, FwStop, FwDeleteAidingData,
                                FwCleanup, FwInit, reports
  <2>2. CASE msgq' = msgq
    BY <2>1, <2>2 DEF ToldInv, OffComes, IsOff, IsBegin
  <2>3. ASSUME NEW m \in Message, Post(m),
               m.type \in {"StartFix", "StopFix", "PositionMode", "DelAidData"}
        PROVE  ToldInv'
    BY <2>1, <2>3, ToldAfterPost DEF IsBegin
  <2> QED BY <1>4, <2>2, <2>3, FrameworkPosts
<1>5. ASSUME NEW status \in Statuses, NEW session \in Sessions \cup {NoSession},
             PostStatus(status, session), UNCHANGED <<told, link>>,
             engineOn' \/ (UNCHANGED engineOn /\ status # "SESSION_BEGIN") \/ status = "ENGINE_OFF"
      PROVE  ToldInv'
  <2> DEFINE m == [type |-> "Status", status |-> status, session |-> session]
  <2>1. m \in Message /\ Post(m)
    BY <1>5 DEF Message, PostStatus, BoundedPost
  <2>2. (status = "ENGINE_OFF" => IsOff(m)) /\ (IsBegin(m) => status = "SESSION_BEGIN")
    BY DEF IsOff, IsBegin
  <2> HIDE DEF m
  <2> QED BY <1>5, <2>1, <2>2, ToldAfterPost
<1>6. CASE ModemEngineOn \/ ModemEngineOff \/ ModemSessionEnd
  BY <1>5, <1>6 DEF ModemEngineOn, ModemEngineOff, ModemSessionEnd, Statuses, reports
<1>7. CASE ModemSessionBegin
  BY <1>5, <1>7, RunIsSession DEF ModemSessionBegin, Statuses, reports
<1>8. ASSUME NEW status \in {"SUCCESS", "INTERMEDIATE"}, ModemPosition(status)
      PROVE  ToldInv'
  <2> DEFINE m == [type |-> "Position", status |-> status, session |-> run.id]
  <2>1. m \in Message /\ Post(m)
    BY <1>8, RunIsSession DEF ModemPosition, Message, BoundedPost
  <2>2. ~IsBegin(m)
    BY DEF IsBegin
  <2>3. UNCHANGED <<told, link, engineOn>>
    BY <1>8 DEF ModemPosition, radio, reports
  <2> HIDE DEF m
  <2> QED BY <2>1, <2>2, <2>3, ToldAfterPost
<1>9. CASE ModemCrash
  <2>1. told' = told /\ msgq' = msgq /\ link' = "crashed"
    BY <1>9 DEF ModemCrash, reports
  <2> QED BY <2>1 DEF ToldInv, OffComes
<1>10. ASSUME NEW type \in {"Ni", "EngineDown", "Ssr", "EngineUp"}, Post([type |-> type]),
              UNCHANGED <<told, engineOn>>, type = "EngineDown" \/ UNCHANGED link \/ link # "crashed"
       PROVE  ToldInv'
  <2> DEFINE m == [type |-> type]
  <2>1. m \in Message /\ Post(m) /\ ~IsBegin(m) /\ (type = "EngineDown" => IsOff(m))
    BY <1>10, BareMessages DEF IsOff, IsBegin
  <2> HIDE DEF m
  <2> QED BY <1>10, <2>1, ToldAfterPost
<1>11. CASE ModemNi
  BY <1>10, <1>11 DEF ModemNi, BoundedPost, radio, reports
<1>12. CASE LocApi
  BY <1>10, <1>12 DEF LocApi, LocApiDown, LocApiSsr, LocApiUp, radio, reports
<1>13. CASE UNCHANGED vars
  BY <1>13 DEF vars, radio, reports, ToldInv, OffComes, IsOff, IsBegin
<1> QED BY <1>1, <1>2, <1>3, <1>4, <1>6, <1>7, <1>8, <1>9, <1>11, <1>12, <1>13
        DEF Next, Modem

\* A begin that the framework was told is always followed by the news that the
\* engine is off, which nothing hides (loc_eng_report_status): neither a
\* session in progress nor a muted one, nor a crash in between.
THEOREM EndIsToldCorrect == Spec => []EndIsTold
<1>1. Init => TypeInv /\ ToldInv
  <2> SUFFICES ASSUME Init PROVE ToldInv
      BY InitType
  <2>1. ~told /\ Len(msgq) = 0
    BY DEF Init
  <2> QED BY <2>1 DEF ToldInv
<1>2. TypeInv /\ ToldInv /\ [Next]_vars => (TypeInv /\ ToldInv)'
  BY NextType, NextTold
<1>3. ToldInv => EndIsTold
  BY DEF ToldInv, EndIsTold, OffComes, IsOff, Waiting, StatusWaiting
<1> QED BY <1>1, <1>2, <1>3, PTL DEF Spec

-----------------------------------------------------------------------------
(* A stop reaches the modem. *)

\* A position mode waits at place n of the queue, or may be posted there.
ModeAt(n) ==
    \/ n \in 1 .. Len(msgq) /\ msgq[n].type = "PositionMode"
    \/ n = Len(msgq) + 1 /\ asked # "started"

\* Before the message at place n is handled the session has been stopped: the
\* one in progress, and every one that a start in front of it begins.
StoppedBy(n) ==
    /\ inSession => \E j \in 1 .. Len(msgq) : j < n /\ msgq[j].type = "StopFix"
    /\ \A k \in 1 .. Len(msgq) : k < n /\ msgq[k].type = "StartFix" =>
           \E j \in 1 .. Len(msgq) : k < j /\ j < n /\ msgq[j].type = "StopFix"

\* The framework sets a mode between a stop and the next start only.
OrderInv == \A n \in 1 .. Len(msgq) + 1 : ModeAt(n) => StoppedBy(n)

\* The modem's session is the last one, and the engine's, whose recurrence it has.
RunInv ==
    run # NoRun => /\ inSession /\ run.id = sessions
                   /\ run.criteria.recurrence = criteria.recurrence

\* The session of a waiting fix has been started; its final fix has ended it
\* if it was a single shot.
FixesInv ==
    \A i \in 1 .. Len(msgq) : msgq[i].type = "Position" =>
        /\ msgq[i].session <= sessions
        /\ msgq[i].status = "SUCCESS" /\ run # NoRun /\ msgq[i].session = run.id
               => run.criteria.recurrence = "PERIODIC"

Exempt == seen \cap {"superseded", "denied", "late"} # {}

StopInv == Exempt \/ (OrderInv /\ RunInv /\ FixesInv)

LEMMA StoppedAfterReceive ==
    ASSUME TypeOK, NEW type, Receive(type), NEW n \in Nat \ {0}, StoppedBy(n + 1),
           inSession' => (inSession /\ type # "StopFix") \/ type = "StartFix"
    PROVE  StoppedBy(n)'
<1>1. ASSUME NEW k \in 0 .. Len(msgq), NEW j \in 1 .. Len(msgq), k < j, j < n + 1,
             msgq[j].type = "StopFix", j # 1
      PROVE  \E l \in 1 .. Len(msgq') : k - 1 < l /\ l < n /\ msgq'[l].type = "StopFix"
  <2>1. j - 1 \in 1 .. Len(msgq') /\ msgq'[j - 1] = msgq[j]
    BY <1>1, QueueMovesUp
  <2>2. k - 1 < j - 1 /\ j - 1 < n
    BY <1>1
  <2> QED BY <1>1, <2>1, <2>2
<1>2. ASSUME inSession' PROVE \E l \in 1 .. Len(msgq') : l < n /\ msgq'[l].type = "StopFix"
  <2>1. CASE inSession /\ type # "StopFix"
    <3>1. PICK j \in 1 .. Len(msgq) : j < n + 1 /\ msgq[j].type = "StopFix"
      BY <2>1 DEF StoppedBy
    <3>2. j # 1 /\ 0 \in 0 .. Len(msgq) /\ 0 < j
      BY <2>1, <3>1, QueueMovesUp
    <3> QED BY <1>1, <3>1, <3>2
  <2>2. CASE type = "StartFix"
    <3>1. 1 \in 1 .. Len(msgq) /\ 1 < n + 1 /\ msgq[1].type = "StartFix"
      BY <2>2, QueueMovesUp
    <3>2. PICK j \in 1 .. Len(msgq) : 1 < j /\ j < n + 1 /\ msgq[j].type = "StopFix"
      BY <3>1 DEF StoppedBy
    <3>3. j # 1 /\ 0 \in 0 .. Len(msgq) /\ 0 < j
      BY <3>2
    <3> QED BY <1>1, <3>2, <3>3
  <2> QED BY <1>2, <2>1, <2>2
<1>3. ASSUME NEW k \in 1 .. Len(msgq'), k < n, msgq'[k].type = "StartFix"
      PROVE  \E l \in 1 .. Len(msgq') : k < l /\ l < n /\ msgq'[l].type = "StopFix"
  <2>1. k + 1 \in 1 .. Len(msgq) /\ msgq[k + 1].type = "StartFix" /\ k + 1 < n + 1
    BY <1>3, QueueMovesUp
  <2>2. PICK j \in 1 .. Len(msgq) : k + 1 < j /\ j < n + 1 /\ msgq[j].type = "StopFix"
    BY <2>1 DEF StoppedBy
  <2>3. j # 1 /\ k + 1 \in 0 .. Len(msgq) /\ (k + 1) - 1 = k
    BY <2>1, <2>2
  <2>4. \E l \in 1 .. Len(msgq') : (k + 1) - 1 < l /\ l < n /\ msgq'[l].type = "StopFix"
    BY <1>1, <2>2, <2>3
  <2> QED BY <2>3, <2>4
<1> QED BY <1>2, <1>3 DEF StoppedBy

LEMMA OrderAfterReceive ==
    ASSUME TypeOK, OrderInv, NEW type, Receive(type), UNCHANGED asked,
           inSession' => (inSession /\ type # "StopFix") \/ type = "StartFix"
    PROVE  OrderInv'
<1> SUFFICES ASSUME NEW n \in 1 .. Len(msgq') + 1, ModeAt(n)' PROVE StoppedBy(n)'
    BY DEF OrderInv
<1>1. Len(msgq) \in Nat /\ Len(msgq') = Len(msgq) - 1
  BY ReceiveQueue
<1>2. n + 1 \in 1 .. Len(msgq) + 1 /\ n \in Nat \ {0}
  BY <1>1
<1>3. ModeAt(n + 1)
  <2>1. CASE n \in 1 .. Len(msgq') /\ msgq'[n].type = "PositionMode"
    BY <2>1, QueueMovesUp DEF ModeAt
  <2>2. CASE n = Len(msgq') + 1 /\ asked # "started"
    BY <1>1, <2>2 DEF ModeAt
  <2> QED BY <2>1, <2>2 DEF ModeAt
<1> QED BY <1>2, <1>3, StoppedAfterReceive DEF OrderInv

LEMMA StoppedAfterPost ==
    ASSUME TypeOK, NEW m \in Message, Post(m), UNCHANGED inSession,
           NEW n \in 1 .. Len(msgq) + 1, StoppedBy(n)
    PROVE  StoppedBy(n)'
<1>1. ASSUME NEW k \in 1 .. Len(msgq'), k < n PROVE k \in 1 .. Len(msgq) /\ msgq'[k] = msgq[k]
  BY <1>1, QueueGrows
<1>2. inSession' => \E j \in 1 .. Len(msgq') : j < n /\ msgq'[j].type = "StopFix"
  BY QueueGrows DEF StoppedBy
<1>3. ASSUME NEW k \in 1 .. Len(msgq'), k < n, msgq'[k].type = "StartFix"
      PROVE  \E j \in 1 .. Len(msgq') : k < j /\ j < n /\ msgq'[j].type = "StopFix"
  BY <1>1, <1>3, QueueGrows DEF StoppedBy
<1> QED BY <1>2, <1>3 DEF StoppedBy

LEMMA OrderAfterPost ==
    ASSUME TypeOK, OrderInv, UNCHANGED inSession, NEW m \in Message, Post(m),
           m.type = "PositionMode" => asked # "started",
           asked' # "started" => \/ m.type = "StopFix"
                                 \/ asked # "started" /\ m.type # "StartFix"
    PROVE  OrderInv'
<1> SUFFICES ASSUME NEW n \in 1 .. Len(msgq') + 1, ModeAt(n)' PROVE StoppedBy(n)'
    BY DEF OrderInv
<1>1. Len(msgq) \in Nat /\ Len(msgq') = Len(msgq) + 1
  BY QueueGrows
<1>2. CASE n \in 1 .. Len(msgq)
  <2>1. ModeAt(n) /\ n \in 1 .. Len(msgq) + 1
    BY <1>1, <1>2, QueueGrows DEF ModeAt
  <2> QED BY <2>1, StoppedAfterPost DEF OrderInv
<1>3. CASE n = Len(msgq) + 1
  <2>1. ModeAt(n) /\ n \in 1 .. Len(msgq) + 1
    BY <1>1, <1>3, QueueGrows DEF ModeAt
  <2> QED BY <2>1, StoppedAfterPost DEF OrderInv
<1>4. CASE n = Len(msgq) + 2
  <2>1. asked' # "started"
    BY <1>1, <1>4 DEF ModeAt
  <2>2. CASE m.type = "StopFix"
    <3>1. Len(msgq) + 1 \in 1 .. Len(msgq') /\ msgq'[Len(msgq) + 1].type = "StopFix"
      BY <2>2, QueueGrows
    <3>2. \A k \in 1 .. Len(msgq') : msgq'[k].type = "StartFix" => k < Len(msgq) + 1
      BY <1>1, <2>2, QueueGrows
    <3>3. Len(msgq) + 1 < n
      BY <1>1, <1>4
    <3> QED BY <3>1, <3>2, <3>3 DEF StoppedBy
  <2>3. CASE asked # "started" /\ m.type # "StartFix"
    <3>1. StoppedBy(Len(msgq) + 1)
      BY <1>1, <2>3 DEF OrderInv, ModeAt
    <3>2. inSession' => \E j \in 1 .. Len(msgq') : j < n /\ msgq'[j].type = "StopFix"
      BY <1>1, <1>4, <3>1, QueueGrows DEF StoppedBy
    <3>3. ASSUME NEW k \in 1 .. Len(msgq'), k < n, msgq'[k].type = "StartFix"
          PROVE  \E j \in 1 .. Len(msgq') : k < j /\ j < n /\ msgq'[j].type = "StopFix"
      <4>1. k \in 1 .. Len(msgq) /\ k < Len(msgq) + 1 /\ msgq[k].type = "StartFix"
        BY <1>1, <2>3, <3>3, QueueGrows
      <4>2. PICK j \in 1 .. Len(msgq) : k < j /\ msgq[j].type = "StopFix"
        BY <3>1, <4>1 DEF StoppedBy
      <4>3. j < n /\ j \in 1 .. Len(msgq') /\ msgq'[j] = msgq[j]
        BY <1>1, <1>4, QueueGrows
      <4> QED BY <4>2, <4>3
    <3> QED BY <3>2, <3>3 DEF StoppedBy
  <2> QED BY <2>1, <2>2, <2>3
<1> QED BY <1>1, <1>2, <1>3, <1>4

LEMMA FixesAfterReceive ==
    ASSUME TypeOK, FixesInv, NEW type, Receive(type), UNCHANGED sessions,
           UNCHANGED run \/ run' = NoRun
    PROVE  FixesInv'
BY QueueMovesUp DEF FixesInv

LEMMA FixesAfterPost ==
    ASSUME TypeOK, FixesInv, NEW m \in Message, Post(m), m.type # "Position",
           UNCHANGED <<run, sessions>>
    PROVE  FixesInv'
BY QueueGrows DEF FixesInv

\* A new session is the last one and has the engine's criteria.
LEMMA StartRuns ==
    ASSUME TypeOK, RunInv, FixesInv, NEW type, Receive(type),
           NEW c \in Criteria, NEW why, StartSession(c, why),
           c.recurrence = criteria.recurrence, "denied" \notin seen'
    PROVE  RunInv' /\ FixesInv'
<1>1. CASE /\ sessions' = sessions + 1 /\ run' = [id |-> sessions + 1, criteria |-> c]
           /\ SetInSession(TRUE, c)
  <2>1. run'.id = sessions + 1 /\ run'.criteria = c /\ sessions \in Nat
    BY <1>1 DEF TypeOK
  <2>2. RunInv'
    BY <1>1, <2>1 DEF RunInv, SetInSession
  <2>3. ASSUME NEW i \in 1 .. Len(msgq'), msgq'[i].type = "Position"
        PROVE  msgq'[i].session <= sessions /\ msgq'[i].session \in Nat
    <3>1. i + 1 \in 1 .. Len(msgq) /\ msgq'[i] = msgq[i + 1]
      BY QueueMovesUp
    <3>2. msgq[i + 1] \in Message
      BY <3>1, ReceiveQueue
    <3>3. msgq[i + 1].session \in Nat
      BY <2>3, <3>1, <3>2 DEF Message, Sessions
    <3> QED BY <2>3, <3>1, <3>3 DEF FixesInv
  <2>4. ASSUME NEW i \in 1 .. Len(msgq'), msgq'[i].type = "Position"
        PROVE  msgq'[i].session <= sessions' /\ msgq'[i].session # run'.id
    BY <1>1, <2>1, <2>3, <2>4
  <2>5. FixesInv'
    BY <2>4 DEF FixesInv
  <2> QED BY <2>2, <2>5
<1>2. CASE SetInSession(TRUE, c) /\ UNCHANGED modem
  <2>1. RunInv'
    BY <1>2 DEF RunInv, SetInSession, modem
  <2>2. FixesInv'
    BY <1>2, FixesAfterReceive DEF modem
  <2> QED BY <2>1, <2>2
<1>3. CASE Note(why \cup If(run # NoRun, "denied")) /\ UNCHANGED modem
  <2>1. run = NoRun
    BY <1>3 DEF Note, If
  <2>2. RunInv'
    BY <1>3, <2>1 DEF RunInv, modem
  <2>3. FixesInv'
    BY <1>3, FixesAfterReceive DEF modem
  <2> QED BY <2>2, <2>3
<1> QED BY <1>1, <1>2, <1>3 DEF StartSession

\* The rest of the handlers.
LEMMA HandlersAside ==
    ASSUME MsgTask, ~StartFix, ~EngineUp, ~StopFix, ~PositionMode, ~ReportPosition
    PROVE  /\ UNCHANGED <<inSession, criteria, run, sessions, asked>>
           /\ \E type \in {"Status", "DelAidData", "Ni", "EngineDown", "Ssr"} : Receive(type)
<1>1. UNCHANGED <<inSession, criteria, run, sessions, asked>>
  BY DEF MsgTask, ReportStatus, DelAidData, MuteOneSession, EngineDown, Ssr,
         engine, modem, framework
<1>2. \E type \in {"Status", "DelAidData", "Ni", "EngineDown", "Ssr"} : Receive(type)
  BY DEF MsgTask, ReportStatus, DelAidData, MuteOneSession, EngineDown, Ssr
<1> QED BY <1>1, <1>2

LEMMA MarksStay ==
    ASSUME [Next]_vars
    PROVE  seen \subseteq seen'
<1>1. CASE MsgTask
  BY <1>1, HandlersButSsr DEF Ssr
<1>2. CASE Framework
  BY <1>2, FrameworkPosts
<1>3. CASE Modem \/ LocApi \/ UNCHANGED vars
  BY <1>3 DEF Modem, ModemEngineOn, ModemSessionBegin, ModemPosition, ModemSessionEnd,
              ModemEngineOff, ModemNi, ModemCrash, LocApi, LocApiDown, LocApiSsr, LocApiUp, vars
<1> QED BY <1>1, <1>2, <1>3 DEF Next

LEMMA StopMsgTask ==
    ASSUME TypeInv, OrderInv, RunInv, FixesInv, MsgTask, ~Exempt'
    PROVE  OrderInv' /\ RunInv' /\ FixesInv'
<1> TypeOK
  BY DEF TypeInv
<1>1. CASE StartFix
  <2>1. Receive("StartFix") /\ UNCHANGED asked /\ criteria \in Criteria
    BY <1>1 DEF StartFix, framework, TypeOK
  <2>2. OrderInv'
    BY <2>1, OrderAfterReceive
  <2>3. CASE StartSession(criteria, {})
    BY <2>1, <2>2, <2>3, StartRuns DEF Exempt
  <2>4. CASE UNCHANGED <<engine, modem>>
    BY <2>1, <2>2, <2>4, FixesAfterReceive DEF RunInv, engine, modem
  <2> QED BY <1>1, <2>3, <2>4 DEF StartFix
<1>2. CASE EngineUp
  <2>1. Receive("EngineUp") /\ UNCHANGED asked /\ (inSession' => inSession)
    BY <1>2 DEF EngineUp, framework, engine
  <2>2. OrderInv'
    BY <2>1, OrderAfterReceive
  <2>3. CASE StartSession([criteria EXCEPT !.mode = "INVALID"], {"restarted"})
    <3>1. [criteria EXCEPT !.mode = "INVALID"] \in Criteria
      BY DEF TypeOK, Criteria
    <3>2. [criteria EXCEPT !.mode = "INVALID"].recurrence = criteria.recurrence
      BY DEF TypeOK, Criteria
    <3> QED BY <2>1, <2>2, <2>3, <3>1, <3>2, StartRuns DEF Exempt
  <2>4. CASE UNCHANGED <<engine, modem>>
    BY <2>1, <2>2, <2>4, FixesAfterReceive DEF RunInv, engine, modem
  <2> QED BY <1>2, <2>3, <2>4 DEF EngineUp
<1>3. CASE StopFix
  <2>1. Receive("StopFix") /\ UNCHANGED <<asked, sessions>> /\ ~inSession'
    BY <1>3 DEF StopFix, framework, engine, SetInSession
  <2>2. OrderInv'
    BY <2>1, OrderAfterReceive
  <2>3. run' = NoRun
    BY <1>3 DEF StopFix, RunInv
  <2> QED BY <2>1, <2>2, <2>3, FixesAfterReceive DEF RunInv
<1>4. CASE PositionMode
  <2>1. Receive("PositionMode") /\ UNCHANGED <<asked, sessions, run, inSession>>
    BY <1>4 DEF PositionMode, framework, modem
  <2>2. OrderInv'
    BY <2>1, OrderAfterReceive
  <2>3. run = NoRun
    <3>1. Len(msgq) \in Nat /\ 1 \in 1 .. Len(msgq) + 1 /\ ModeAt(1)
      BY <2>1, ReceiveQueue DEF ModeAt
    <3>2. ~inSession
      BY <3>1 DEF OrderInv, StoppedBy
    <3> QED BY <3>2 DEF RunInv
  <2> QED BY <2>1, <2>2, <2>3, FixesAfterReceive DEF RunInv
<1>5. CASE ReportPosition
  <2>1. Receive("Position") /\ UNCHANGED <<asked, sessions>> /\ (inSession' => inSession)
    BY <1>5 DEF ReportPosition, framework, SetInSession, engine
  <2>2. OrderInv'
    BY <2>1, OrderAfterReceive
  <2>3. CASE UNCHANGED <<engine, run>>
    BY <2>1, <2>2, <2>3, FixesAfterReceive DEF RunInv, engine
  <2>4. CASE /\ criteria.recurrence = "SINGLE" /\ SetInSession(FALSE, criteria)
             /\ run' = IF Head(msgq).status = "INTERMEDIATE" THEN NoRun ELSE run
             /\ If(inSession /\ Head(msgq).session < sessions, "superseded") \subseteq seen'
    <3>1. CASE run = NoRun \/ run' = NoRun
      BY <2>1, <2>2, <2>4, <3>1, FixesAfterReceive DEF RunInv
    <3>2. CASE run # NoRun /\ Head(msgq).status # "INTERMEDIATE"
      <4>1. inSession /\ run.id = sessions /\ run.criteria.recurrence = "SINGLE"
        BY <2>4, <3>2 DEF RunInv
      <4>2. Head(msgq).session >= sessions
        BY <2>1, <2>4, <4>1, MessageFields DEF If, Exempt, Sessions, TypeOK
      <4>3. Head(msgq).session <= sessions /\ Head(msgq).status = "SUCCESS"
        BY <2>1, <3>2, QueueMovesUp, ReceiveQueue DEF FixesInv, Message
      <4>4. Head(msgq).session = run.id
        BY <2>1, <4>1, <4>2, <4>3, MessageFields DEF Sessions, TypeOK
      <4>5. run.criteria.recurrence = "PERIODIC"
        BY <2>1, <3>2, <4>3, <4>4, QueueMovesUp DEF FixesInv
      <4> QED BY <4>1, <4>5
    <3> QED BY <2>4, <3>1, <3>2
  <2>5. UNCHANGED <<engine, run>> \/
        /\ criteria.recurrence = "SINGLE" /\ SetInSession(FALSE, criteria)
        /\ run' = IF Head(msgq).status = "INTERMEDIATE" THEN NoRun ELSE run
        /\ If(inSession /\ Head(msgq).session < sessions, "superseded") \subseteq seen'
    BY <1>5 DEF ReportPosition, Note
  <2> QED BY <2>3, <2>4, <2>5
<1>6. CASE ~StartFix /\ ~EngineUp /\ ~StopFix /\ ~PositionMode /\ ~ReportPosition
  <2>1. /\ UNCHANGED <<inSession, criteria, run, sessions, asked>>
        /\ \E type \in {"Status", "DelAidData", "Ni", "EngineDown", "Ssr"} : Receive(type)
    BY <1>6, HandlersAside
  <2> QED BY <2>1, OrderAfterReceive, FixesAfterReceive DEF RunInv
<1> QED BY <1>1, <1>2, <1>3, <1>4, <1>5, <1>6

LEMMA StopFramework ==
    ASSUME TypeInv, OrderInv, RunInv, FixesInv, Framework, ~Exempt'
    PROVE  OrderInv' /\ RunInv' /\ FixesInv'
<1> TypeOK
  BY DEF TypeInv
<1>1. UNCHANGED <<inSession, criteria, run, sessions>>
  BY DEF Framework, FwPositionMode, FwStart, FwStop, FwDeleteAidingData, FwCleanup, FwInit,
         engine, modem
<1>2. RunInv'
  BY <1>1 DEF RunInv
<1>3. FixesInv'
  <2>1. CASE msgq' = msgq
    BY <1>1, <2>1 DEF FixesInv
  <2>2. ASSUME NEW m \in Message, Post(m), m.type # "Position" PROVE FixesInv'
    BY <1>1, <2>2, FixesAfterPost
  <2> QED BY <2>1, <2>2, FrameworkPosts
<1>4. OrderInv'
  <2>1. ASSUME NEW r \in Recurrences, FwPositionMode(r) PROVE OrderInv'
    <3> DEFINE m == [type |-> "PositionMode", recurrence |-> r]
    <3>1. m \in Message /\ Post(m) /\ m.type = "PositionMode"
      BY <2>1 DEF Message, FwPositionMode, BoundedPost
    <3>2. asked = "stopped"
      BY <2>1 DEF FwPositionMode
    <3> HIDE DEF m
    <3> QED BY <1>1, <3>1, <3>2, OrderAfterPost
  <2>2. CASE FwStart
    <3>1. [type |-> "StartFix"] \in Message /\ Post([type |-> "StartFix"]) /\ asked' = "started"
      BY <2>2, BareMessages DEF FwStart, BoundedPost
    <3> QED BY <1>1, <3>1, OrderAfterPost
  <2>3. CASE FwStop
    <3>1. [type |-> "StopFix"] \in Message /\ Post([type |-> "StopFix"])
      BY <2>3, BareMessages DEF FwStop, BoundedPost
    <3> QED BY <1>1, <3>1, OrderAfterPost
  <2>4. CASE FwCleanup
    <3>1. CASE inSession
      <4>1. [type |-> "StopFix"] \in Message /\ Post([type |-> "StopFix"])
        BY <2>4, <3>1, BareMessages DEF FwCleanup, BoundedPost
      <4> QED BY <1>1, <4>1, OrderAfterPost
    <3>2. CASE ~inSession
      <4>1. msgq' = msgq /\ ~inSession'
        BY <2>4, <3>2, <1>1 DEF FwCleanup
      <4>2. ~Waiting("StartFix")
        BY <2>4 DEF FwCleanup, Note, If, Exempt
      <4> QED BY <4>1, <4>2 DEF OrderInv, StoppedBy, Waiting
    <3> QED BY <3>1, <3>2
  <2>5. CASE FwInit
    BY <1>1, <2>5 DEF FwInit, OrderInv, ModeAt, StoppedBy
  <2>6. ASSUME NEW mask \in (SUBSET AidingTypes) \ {{}}, FwDeleteAidingData(mask) PROVE OrderInv'
    <3> DEFINE m == [type |-> "DelAidData", mask |-> mask]
    <3>1. m \in Message /\ Post(m) /\ m.type = "DelAidData"
      BY <2>6 DEF Message, FwDeleteAidingData, BoundedPost
    <3>2. UNCHANGED asked
      BY <2>6 DEF FwDeleteAidingData, framework
    <3> HIDE DEF m
    <3> QED BY <1>1, <3>1, <3>2, OrderAfterPost
  <2> QED BY <2>1, <2>2, <2>3, <2>4, <2>5, <2>6 DEF Framework
<1> QED BY <1>2, <1>3, <1>4

LEMMA StopModem ==
    ASSUME TypeInv, OrderInv, RunInv, FixesInv, Modem \/ LocApi
    PROVE  OrderInv' /\ RunInv' /\ FixesInv'
<1> TypeOK
  BY DEF TypeInv
<1>1. UNCHANGED <<inSession, criteria, sessions, asked>>
  BY DEF Modem, ModemEngineOn, ModemSessionBegin, ModemPosition, ModemSessionEnd,
         ModemEngineOff, ModemNi, ModemCrash, LocApi, LocApiDown, LocApiSsr, LocApiUp,
         engine, modem, framework
<1>2. UNCHANGED run \/ run' = NoRun
  BY DEF Modem, ModemEngineOn, ModemSessionBegin, ModemPosition, ModemSessionEnd,
         ModemEngineOff, ModemNi, ModemCrash, LocApi, LocApiDown, LocApiSsr, LocApiUp, modem
<1>3. RunInv'
  BY <1>1, <1>2 DEF RunInv
<1>4. CASE ModemCrash
  <2>1. msgq' = msgq /\ run' = NoRun
    BY <1>4 DEF ModemCrash
  <2>2. OrderInv'
    BY <1>1, <2>1 DEF OrderInv, ModeAt, StoppedBy
  <2>3. FixesInv'
    BY <1>1, <2>1 DEF FixesInv
  <2> QED BY <1>3, <2>2, <2>3
<1>5. ASSUME NEW m \in Message, Post(m), m.type \notin {"PositionMode", "StartFix"} PROVE OrderInv'
  BY <1>1, <1>5, OrderAfterPost
<1>6. ASSUME NEW status \in {"SUCCESS", "INTERMEDIATE"}, ModemPosition(status)
      PROVE  OrderInv' /\ FixesInv'
  <2> DEFINE m == [type |-> "Position", status |-> status, session |-> run.id]
  <2>1. m \in Message /\ Post(m)
    BY <1>6, RunIsSession DEF ModemPosition, Message, BoundedPost
  <2>2. m.type = "Position" /\ m.status = status /\ m.session = run.id
    OBVIOUS
  <2>3. run # NoRun /\ run.criteria.recurrence \in Recurrences
    BY <1>6 DEF ModemPosition, TypeOK, Criteria
  <2> HIDE DEF m
  <2>4. OrderInv'
    BY <1>5, <2>1, <2>2
  <2>5. run' # NoRun => run' = run /\ (status = "SUCCESS" => run.criteria.recurrence = "PERIODIC")
    BY <1>6, <2>3 DEF ModemPosition, Recurrences
  <2>6. m.session <= sessions
    BY <2>2, <2>3, RunIsSession DEF RunInv, TypeOK
  <2>7. FixesInv'
    <3> SUFFICES ASSUME NEW i \in 1 .. Len(msgq'), msgq'[i].type = "Position"
                 PROVE  /\ msgq'[i].session <= sessions'
                        /\ msgq'[i].status = "SUCCESS" /\ run' # NoRun /\ msgq'[i].session = run'.id
                               => run'.criteria.recurrence = "PERIODIC"
        BY DEF FixesInv
    <3>1. CASE i = Len(msgq) + 1
      <4>1. msgq'[i] = m
        BY <2>1, <3>1, QueueGrows
      <4> QED BY <1>1, <2>2, <2>5, <2>6, <4>1
    <3>2. CASE i \in 1 .. Len(msgq)
      <4>1. msgq'[i] = msgq[i]
        BY <2>1, <3>2, QueueGrows
      <4> QED BY <1>1, <2>5, <3>2, <4>1 DEF FixesInv
    <3> QED BY <2>1, <3>1, <3>2, QueueGrows
  <2> QED BY <2>4, <2>7
<1>7. ASSUME ~ModemCrash, \A status \in {"SUCCESS", "INTERMEDIATE"} : ~ModemPosition(status)
      PROVE  OrderInv' /\ FixesInv'
  <2>1. UNCHANGED run
    BY <1>7 DEF Modem, ModemEngineOn, ModemSessionBegin, ModemSessionEnd, ModemEngineOff,
                ModemNi, LocApi, LocApiDown, LocApiSsr, LocApiUp, modem
  <2>2. PICK m \in Message : Post(m) /\ m.type \in {"Status", "Ni", "EngineDown", "Ssr", "EngineUp"}
    <3>1. CASE LocApi
      <4>1. PICK type \in {"EngineDown", "Ssr", "EngineUp"} : Post([type |-> type])
        BY <3>1 DEF LocApi, LocApiDown, LocApiSsr, LocApiUp
      <4> QED BY <4>1, BareMessages
    <3>2. CASE ModemNi
      BY <3>2, BareMessages DEF ModemNi, BoundedPost
    <3>3. ASSUME NEW status \in Statuses, NEW session \in Sessions \cup {NoSession},
                 PostStatus(status, session)
          PROVE  \E m \in Message : Post(m) /\ m.type = "Status"
      <4>1. [type |-> "Status", status |-> status, session |-> session] \in Message
        BY DEF Message
      <4> QED BY <3>3, <4>1 DEF PostStatus, BoundedPost
    <3>4. CASE ModemEngineOn \/ ModemSessionEnd \/ ModemEngineOff
      BY <3>3, <3>4 DEF ModemEngineOn, ModemSessionEnd, ModemEngineOff, Statuses
    <3>5. CASE ModemSessionBegin
      BY <3>3, <3>5, RunIsSession DEF ModemSessionBegin, Statuses
    <3> QED BY <1>7, <3>1, <3>2, <3>4, <3>5 DEF Modem
  <2>3. OrderInv'
    BY <1>5, <2>2
  <2>4. FixesInv'
    BY <1>1, <2>1, <2>2, FixesAfterPost
  <2> QED BY <2>3, <2>4
<1> QED BY <1>3, <1>4, <1>6, <1>7

LEMMA NextStop ==
    ASSUME TypeInv, StopInv, [Next]_vars
    PROVE  StopInv'
<1> SUFFICES ASSUME ~Exempt' PROVE OrderInv' /\ RunInv' /\ FixesInv'
    BY DEF StopInv
<1>1. ~Exempt
  BY MarksStay DEF Exempt
<1>2. OrderInv /\ RunInv /\ FixesInv
  BY <1>1 DEF StopInv
<1>3. CASE UNCHANGED vars
  <2>1. UNCHANGED <<msgq, inSession, criteria, run, sessions, asked>>
    BY <1>3 DEF vars, engine, modem, framework
  <2>2. OrderInv'
    BY <1>2, <2>1 DEF OrderInv, ModeAt, StoppedBy
  <2>3. RunInv' /\ FixesInv'
    BY <1>2, <2>1 DEF RunInv, FixesInv
  <2> QED BY <2>2, <2>3
<1> QED BY <1>2, <1>3, StopMsgTask, StopFramework, StopModem DEF Next

\* A session the modem runs is one the engine counts itself in, so that a stop
\* reaches it (loc_eng_stop_handler); a fix of an earlier session, a start that
\* fails while one runs and a clean-up in front of a start are the only ways
\* around it.
THEOREM StopCorrect == Spec => []StopIsObeyed
<1>1. Init => TypeInv /\ StopInv
  <2> SUFFICES ASSUME Init PROVE StopInv
      BY InitType
  <2>1. Len(msgq) = 0 /\ ~inSession /\ run = NoRun
    BY DEF Init
  <2> QED BY <2>1 DEF StopInv, OrderInv, StoppedBy, RunInv, FixesInv
<1>2. TypeInv /\ StopInv /\ [Next]_vars => (TypeInv /\ StopInv)'
  BY NextType, NextStop
<1>3. StopInv => StopIsObeyed
  BY DEF StopInv, RunInv, Exempt, StopIsObeyed
<1> QED BY <1>1, <1>2, <1>3, PTL DEF Spec

-----------------------------------------------------------------------------
(* The mode of a session. *)

\* A start waits at place n of the queue, or may be posted there.
StartAt(n) ==
    \/ n \in 1 .. Len(msgq) /\ msgq[n].type = "StartFix"
    \/ n = Len(msgq) + 1 /\ asked = "mode"

NoStop(i, n) == \A j \in 1 .. Len(msgq) : i < j /\ j < n => msgq[j].type # "StopFix"

\* The message at place n finds a valid mode: the adapter's, or one that is set
\* in front of it; no stop comes after it.
ModeBefore(n) ==
    \/ criteria.mode = "VALID" /\ NoStop(0, n)
    \/ \E i \in 1 .. Len(msgq) : i < n /\ msgq[i].type = "PositionMode" /\ NoStop(i, n)

GivenInv == \A n \in 1 .. Len(msgq) + 1 : StartAt(n) => ModeBefore(n)

ValidRun == run # NoRun => run.criteria.mode = "VALID"

Undone == seen \cap {"restarted", "wiped"} # {}

ModeInv == Undone \/ (GivenInv /\ ValidRun)

LEMMA NoStopAfterReceive ==
    ASSUME TypeOK, NEW type, Receive(type), NEW i \in Nat, NEW n \in Nat, NoStop(i + 1, n + 1)
    PROVE  NoStop(i, n)'
<1> SUFFICES ASSUME NEW j \in 1 .. Len(msgq'), i < j, j < n PROVE msgq'[j].type # "StopFix"
    BY DEF NoStop
<1>1. j + 1 \in 1 .. Len(msgq) /\ msgq'[j] = msgq[j + 1] /\ i + 1 < j + 1 /\ j + 1 < n + 1
  BY QueueMovesUp
<1> QED BY <1>1 DEF NoStop

LEMMA ModeAfterReceive ==
    ASSUME TypeOK, NEW type, Receive(type), NEW n \in Nat \ {0}, ModeBefore(n + 1),
           type = "PositionMode" => criteria'.mode = "VALID",
           criteria.mode = "VALID" => criteria'.mode = "VALID" \/ type = "StopFix"
    PROVE  ModeBefore(n)'
<1>1. CASE criteria.mode = "VALID" /\ NoStop(0, n + 1)
  <2>1. type # "StopFix"
    BY <1>1, QueueMovesUp DEF NoStop
  <2>2. NoStop(0 + 1, n + 1)
    BY <1>1 DEF NoStop
  <2>3. NoStop(0, n)'
    BY <2>2, NoStopAfterReceive
  <2> QED BY <1>1, <2>1, <2>3 DEF ModeBefore
<1>2. ASSUME NEW i \in 1 .. Len(msgq), i < n + 1, msgq[i].type = "PositionMode", NoStop(i, n + 1)
      PROVE  ModeBefore(n)'
  <2>1. CASE i = 1
    <3>1. type = "PositionMode" /\ NoStop(0 + 1, n + 1)
      BY <1>2, <2>1, QueueMovesUp
    <3>2. NoStop(0, n)'
      BY <3>1, NoStopAfterReceive
    <3> QED BY <3>1, <3>2 DEF ModeBefore
  <2>2. CASE i # 1
    <3> DEFINE k == i - 1
    <3>1. k \in 1 .. Len(msgq') /\ k + 1 = i /\ msgq'[k] = msgq[i] /\ k < n
      BY <1>2, <2>2, QueueMovesUp
    <3> HIDE DEF k
    <3>2. NoStop(k + 1, n + 1) /\ k \in Nat
      BY <1>2, <3>1
    <3>3. NoStop(k, n)'
      BY <3>2, NoStopAfterReceive
    <3> QED BY <1>2, <3>1, <3>3 DEF ModeBefore
  <2> QED BY <2>1, <2>2
<1> QED BY <1>1, <1>2 DEF ModeBefore

LEMMA GivenAfterReceive ==
    ASSUME TypeOK, GivenInv, NEW type, Receive(type), UNCHANGED asked,
           type = "PositionMode" => criteria'.mode = "VALID",
           criteria.mode = "VALID" /\ StartToCome => criteria'.mode = "VALID" \/ type = "StopFix"
    PROVE  GivenInv'
<1> SUFFICES ASSUME NEW n \in 1 .. Len(msgq') + 1, StartAt(n)' PROVE ModeBefore(n)'
    BY DEF GivenInv
<1>1. Len(msgq) \in Nat /\ Len(msgq') = Len(msgq) - 1
  BY ReceiveQueue
<1>2. n + 1 \in 1 .. Len(msgq) + 1 /\ n \in Nat \ {0}
  BY <1>1
<1>3. StartAt(n + 1) /\ StartToCome
  <2>1. CASE n \in 1 .. Len(msgq') /\ msgq'[n].type = "StartFix"
    BY <2>1, QueueMovesUp DEF StartAt, StartToCome, Waiting
  <2>2. CASE n = Len(msgq') + 1 /\ asked = "mode"
    BY <1>1, <2>2 DEF StartAt, StartToCome
  <2> QED BY <2>1, <2>2 DEF StartAt
<1> QED BY <1>2, <1>3, ModeAfterReceive DEF GivenInv

LEMMA NoStopAfterPost ==
    ASSUME TypeOK, NEW m \in Message, Post(m), NEW i \in Nat, NEW n \in Nat, NoStop(i, n),
           n <= Len(msgq) + 1 \/ m.type # "StopFix"
    PROVE  NoStop(i, n)'
<1> SUFFICES ASSUME NEW j \in 1 .. Len(msgq'), i < j, j < n PROVE msgq'[j].type # "StopFix"
    BY DEF NoStop
<1>1. CASE j \in 1 .. Len(msgq)
  BY <1>1, QueueGrows DEF NoStop
<1>2. CASE j = Len(msgq) + 1
  BY <1>2, QueueGrows
<1> QED BY <1>1, <1>2, QueueGrows

LEMMA ModeAfterPost ==
    ASSUME TypeOK, NEW m \in Message, Post(m), UNCHANGED criteria, NEW n \in Nat, ModeBefore(n),
           n <= Len(msgq) + 1 \/ m.type # "StopFix"
    PROVE  ModeBefore(n)'
<1>1. CASE criteria.mode = "VALID" /\ NoStop(0, n)
  BY <1>1, NoStopAfterPost DEF ModeBefore
<1>2. ASSUME NEW i \in 1 .. Len(msgq), i < n, msgq[i].type = "PositionMode", NoStop(i, n)
      PROVE  ModeBefore(n)'
  <2>1. i \in 1 .. Len(msgq') /\ msgq'[i] = msgq[i] /\ i \in Nat
    BY QueueGrows
  <2>2. NoStop(i, n)'
    BY <1>2, <2>1, NoStopAfterPost
  <2> QED BY <1>2, <2>1, <2>2 DEF ModeBefore
<1> QED BY <1>1, <1>2 DEF ModeBefore

LEMMA GivenAfterPost ==
    ASSUME TypeOK, GivenInv, UNCHANGED criteria, NEW m \in Message, Post(m),
           m.type = "StartFix" => asked = "mode",
           asked' = "mode" => \/ m.type = "PositionMode"
                              \/ asked = "mode" /\ m.type # "StopFix"
    PROVE  GivenInv'
<1> SUFFICES ASSUME NEW n \in 1 .. Len(msgq') + 1, StartAt(n)' PROVE ModeBefore(n)'
    BY DEF GivenInv
<1>1. Len(msgq) \in Nat /\ Len(msgq') = Len(msgq) + 1
  BY QueueGrows
<1>2. CASE n \in 1 .. Len(msgq) + 1
  <2>1. StartAt(n)
    BY <1>1, <1>2, QueueGrows DEF StartAt
  <2>2. ModeBefore(n) /\ n \in Nat /\ n <= Len(msgq) + 1
    BY <1>1, <1>2, <2>1 DEF GivenInv
  <2> QED BY <2>2, ModeAfterPost
<1>3. CASE n = Len(msgq) + 2
  <2>1. asked' = "mode"
    BY <1>1, <1>3 DEF StartAt
  <2>2. CASE m.type = "PositionMode"
    <3>1. Len(msgq) + 1 \in 1 .. Len(msgq') /\ msgq'[Len(msgq) + 1].type = "PositionMode"
      BY <2>2, QueueGrows
    <3>2. \A j \in 1 .. Len(msgq') : ~(Len(msgq) + 1 < j)
      BY <1>1
    <3>3. Len(msgq) + 1 < n
      BY <1>1, <1>3
    <3> QED BY <3>1, <3>2, <3>3 DEF ModeBefore, NoStop
  <2>3. CASE asked = "mode" /\ m.type # "StopFix"
    <3>1. ModeBefore(Len(msgq) + 1)
      BY <1>1, <2>3 DEF GivenInv, StartAt
    <3>2. ModeBefore(n)
      BY <1>1, <1>3, <3>1 DEF ModeBefore, NoStop
    <3> QED BY <1>1, <2>3, <3>2, ModeAfterPost
  <2> QED BY <2>1, <2>2, <2>3
<1> QED BY <1>1, <1>2, <1>3

LEMMA ModeMsgTask ==
    ASSUME TypeInv, GivenInv, ValidRun, MsgTask, ~Undone'
    PROVE  GivenInv' /\ ValidRun'
<1> TypeOK
  BY DEF TypeInv
<1>1. CASE StartFix
  <2>1. Receive("StartFix") /\ UNCHANGED asked
    BY <1>1 DEF StartFix, framework
  <2>2. UNCHANGED criteria
    BY <1>1 DEF StartFix, StartSession, SetInSession, engine
  <2>3. GivenInv'
    BY <2>1, <2>2, GivenAfterReceive
  <2>4. criteria.mode = "VALID"
    <3>1. Len(msgq) \in Nat /\ 1 \in 1 .. Len(msgq) + 1 /\ StartAt(1)
      BY <2>1, QueueMovesUp, ReceiveQueue DEF StartAt
    <3>2. ModeBefore(1)
      BY <3>1 DEF GivenInv
    <3> QED BY <3>1, <3>2 DEF ModeBefore
  <2>5. UNCHANGED run \/ run' = [id |-> sessions + 1, criteria |-> criteria]
    BY <1>1 DEF StartFix, StartSession, modem
  <2> QED BY <2>3, <2>4, <2>5 DEF ValidRun
<1>2. CASE EngineUp
  <2>1. UNCHANGED <<engine, modem>>
    BY <1>2 DEF EngineUp, StartSession, Note, Undone
  <2>2. Receive("EngineUp") /\ UNCHANGED <<asked, criteria, run>>
    BY <1>2, <2>1 DEF EngineUp, framework, engine, modem
  <2> QED BY <2>2, GivenAfterReceive DEF ValidRun
<1>3. CASE StopFix
  <2>1. Receive("StopFix") /\ UNCHANGED asked /\ (UNCHANGED run \/ run' = NoRun)
    BY <1>3 DEF StopFix, framework
  <2> QED BY <2>1, GivenAfterReceive DEF ValidRun
<1>4. CASE PositionMode
  <2>1. Receive("PositionMode") /\ UNCHANGED <<asked, run>> /\ criteria'.mode = "VALID"
    BY <1>4 DEF PositionMode, framework, modem
  <2> QED BY <2>1, GivenAfterReceive DEF ValidRun
<1>5. CASE ReportPosition
  <2>1. Receive("Position") /\ UNCHANGED asked /\ (UNCHANGED run \/ run' = NoRun)
    BY <1>5 DEF ReportPosition, framework
  <2>2. \/ UNCHANGED engine
        \/ If(criteria.mode = "VALID" /\ StartToCome, "wiped") \subseteq seen'
    BY <1>5 DEF ReportPosition, Note
  <2>3. criteria.mode = "VALID" /\ StartToCome => criteria'.mode = "VALID"
    BY <2>2 DEF If, Undone, engine
  <2> QED BY <2>1, <2>3, GivenAfterReceive DEF ValidRun
<1>6. CASE ~StartFix /\ ~EngineUp /\ ~StopFix /\ ~PositionMode /\ ~ReportPosition
  <2>1. /\ UNCHANGED <<inSession, criteria, run, sessions, asked>>
        /\ \E type \in {"Status", "DelAidData", "Ni", "EngineDown", "Ssr"} : Receive(type)
    BY <1>6, HandlersAside
  <2> QED BY <2>1, GivenAfterReceive DEF ValidRun
<1> QED BY <1>1, <1>2, <1>3, <1>4, <1>5, <1>6

LEMMA GivenFramework ==
    ASSUME TypeInv, GivenInv, Framework
    PROVE  GivenInv'
<1> TypeOK
  BY DEF TypeInv
<1>1. UNCHANGED criteria
  BY DEF Framework, FwPositionMode, FwStart, FwStop, FwDeleteAidingData, FwCleanup, FwInit, engine
<1>2. ASSUME NEW r \in Recurrences, FwPositionMode(r) PROVE GivenInv'
  <2> DEFINE m == [type |-> "PositionMode", recurrence |-> r]
  <2>1. m \in Message /\ Post(m) /\ m.type = "PositionMode"
    BY <1>2 DEF Message, FwPositionMode, BoundedPost
  <2> HIDE DEF m
  <2> QED BY <1>1, <2>1, GivenAfterPost
<1>3. CASE FwStart
  <2>1. [type |-> "StartFix"] \in Message /\ Post([type |-> "StartFix"])
    BY <1>3, BareMessages DEF FwStart, BoundedPost
  <2>2. asked = "mode" /\ asked' = "started"
    BY <1>3 DEF FwStart
  <2> QED BY <1>1, <2>1, <2>2, GivenAfterPost
<1>4. CASE FwStop
  <2>1. [type |-> "StopFix"] \in Message /\ Post([type |-> "StopFix"]) /\ asked' = "stopped"
    BY <1>4, BareMessages DEF FwStop, BoundedPost
  <2> QED BY <1>1, <2>1, GivenAfterPost
<1>5. CASE FwCleanup
  <2>1. asked' = "stopped"
    BY <1>5 DEF FwCleanup
  <2>2. CASE inSession
    <3>1. [type |-> "StopFix"] \in Message /\ Post([type |-> "StopFix"])
      BY <1>5, <2>2, BareMessages DEF FwCleanup, BoundedPost
    <3> QED BY <1>1, <2>1, <3>1, GivenAfterPost
  <2>3. CASE ~inSession
    <3>1. msgq' = msgq
      BY <1>5, <2>3 DEF FwCleanup
    <3> QED BY <1>1, <2>1, <3>1 DEF GivenInv, StartAt, ModeBefore, NoStop
  <2> QED BY <2>2, <2>3
<1>6. CASE FwInit
  BY <1>1, <1>6 DEF FwInit, GivenInv, StartAt, ModeBefore, NoStop
<1>7. ASSUME NEW mask \in (SUBSET AidingTypes) \ {{}}, FwDeleteAidingData(mask) PROVE GivenInv'
  <2> DEFINE m == [type |-> "DelAidData", mask |-> mask]
  <2>1. m \in Message /\ Post(m) /\ m.type = "DelAidData"
    BY <1>7 DEF Message, FwDeleteAidingData, BoundedPost
  <2>2. UNCHANGED asked
    BY <1>7 DEF FwDeleteAidingData, framework
  <2> HIDE DEF m
  <2> QED BY <1>1, <2>1, <2>2, GivenAfterPost
<1> QED BY <1>2, <1>3, <1>4, <1>5, <1>6, <1>7 DEF Framework

LEMMA NextMode ==
    ASSUME TypeInv, ModeInv, [Next]_vars
    PROVE  ModeInv'
<1> SUFFICES ASSUME ~Undone' PROVE GivenInv' /\ ValidRun'
    BY DEF ModeInv
<1>1. ~Undone
  BY MarksStay DEF Undone
<1>2. GivenInv /\ ValidRun /\ TypeOK
  BY <1>1 DEF ModeInv, TypeInv
<1>3. CASE Framework
  <2>1. UNCHANGED run
    BY <1>3, FrameworkPosts
  <2> QED BY <1>2, <1>3, <2>1, GivenFramework DEF ValidRun
<1>4. CASE Modem \/ LocApi
  <2>1. UNCHANGED <<criteria, asked>> /\ (UNCHANGED run \/ run' = NoRun)
    BY <1>4 DEF Modem, ModemEngineOn, ModemSessionBegin, ModemPosition, ModemSessionEnd,
                ModemEngineOff, ModemNi, ModemCrash, LocApi, LocApiDown, LocApiSsr, LocApiUp,
                engine, modem, framework
  <2>2. CASE ModemCrash
    <3>1. msgq' = msgq
      BY <2>2 DEF ModemCrash
    <3> QED BY <1>2, <2>1, <3>1 DEF GivenInv, StartAt, ModeBefore, NoStop, ValidRun
  <2>3. ASSUME NEW m \in Message, Post(m), m.type \notin {"PositionMode", "StartFix", "StopFix"}
        PROVE  GivenInv'
    BY <1>2, <2>1, <2>3, GivenAfterPost
  <2>4. CASE Modem /\ ~ModemCrash
    BY <1>2, <2>1, <2>3, <2>4, ModemPosts DEF ValidRun
  <2>5. CASE LocApi
    <3>1. PICK type \in {"EngineDown", "Ssr", "EngineUp"} : Post([type |-> type])
      BY <2>5 DEF LocApi, LocApiDown, LocApiSsr, LocApiUp
    <3> QED BY <1>2, <2>1, <2>3, <3>1, BareMessages DEF ValidRun
  <2> QED BY <1>4, <2>2, <2>4, <2>5
<1>5. CASE UNCHANGED vars
  <2>1. UNCHANGED <<msgq, criteria, run, asked>>
    BY <1>5 DEF vars, engine, modem, framework
  <2> QED BY <1>2, <2>1 DEF GivenInv, StartAt, ModeBefore, NoStop, ValidRun
<1> QED BY <1>2, <1>3, <1>4, <1>5, ModeMsgTask DEF Next

\* The modem runs a session with a mode the framework has set for it: each
\* start has its mode in front of it or in the adapter. Only a restart of the
\* session or a late fix of a single shot takes it away.
THEOREM ModeCorrect == Spec => []ModeIsGiven
<1>1. Init => TypeInv /\ ModeInv
  <2> SUFFICES ASSUME Init PROVE ModeInv
      BY InitType
  <2>1. Len(msgq) = 0 /\ asked = "stopped" /\ run = NoRun
    BY DEF Init
  <2> QED BY <2>1 DEF ModeInv, GivenInv, StartAt, ValidRun
<1>2. TypeInv /\ ModeInv /\ [Next]_vars => (TypeInv /\ ModeInv)'
  BY NextType, NextMode
<1>3. ModeInv => ModeIsGiven
  BY DEF ModeInv, ValidRun, Undone, ModeIsGiven
<1> QED BY <1>1, <1>2, <1>3, PTL DEF Spec

-----------------------------------------------------------------------------
(* The muted session. *)

\* A position of session s waits at place n of the queue, or may be posted there.
PositionAt(n, s) ==
    \/ n \in 1 .. Len(msgq) /\ msgq[n].type = "Position" /\ msgq[n].session = s
    \/ n = Len(msgq) + 1 /\ run # NoRun /\ begun /\ run.id = s

Begins(m, s) == IsBegin(m) /\ m.session = s
Leaves(m) ==
    m.type = "EngineDown" \/ (m.type = "Status" /\ m.status \in {"SESSION_END", "ENGINE_OFF"})

NoLeave(i, n) == \A j \in 1 .. Len(msgq) : i < j /\ j < n => ~Leaves(msgq[j])

\* A session is begun before its positions, and not ended in between.
BracketInv ==
    \A i \in 1 .. Len(msgq), n \in 1 .. Len(msgq) + 1, s \in Sessions :
        Begins(msgq[i], s) /\ PositionAt(n, s) => i < n /\ NoLeave(i, n)

\* The modem's session is the last one; nothing is known of it before it has begun.
NewInv ==
    /\ run # NoRun => run.id = sessions /\ handle
    /\ run # NoRun /\ ~begun =>
           /\ run.id \notin muted
           /\ \A i \in 1 .. Len(msgq) :
                 msgq[i].type \in {"Status", "Position"} => msgq[i].session # run.id
    /\ \A s \in muted : s <= sessions
    /\ \A i \in 1 .. Len(msgq) :
           msgq[i].type \in {"Status", "Position"} => msgq[i].session <= sessions

\* Where a position of a muted session is handled the engine is still muted.
SilentInv ==
    \A n \in 1 .. Len(msgq) + 1, s \in muted :
        PositionAt(n, s) => mute = "IN_SESSION" /\ NoLeave(0, n)

MuteInv ==
    /\ BracketInv /\ NewInv
    /\ "remuted" \in seen \/ (SilentInv /\ "leaked" \notin seen)

\* What a handler may do to the modem's session.
RunKept ==
    /\ UNCHANGED begun
    /\ \/ run' \in {run, NoRun} /\ UNCHANGED sessions
       \/ run' # NoRun /\ run'.id = sessions + 1 /\ sessions' = sessions + 1 /\ handle'
    /\ run' = NoRun \/ handle'

LEMMA PositionMovesUp ==
    ASSUME TypeOK, NEW type, Receive(type), RunKept,
           NEW n \in 1 .. Len(msgq') + 1, NEW s \in Sessions, s <= sessions, PositionAt(n, s)'
    PROVE  n \in Nat \ {0} /\ n + 1 \in 1 .. Len(msgq) + 1 /\ PositionAt(n + 1, s)
<1>1. Len(msgq) \in Nat /\ Len(msgq') = Len(msgq) - 1 /\ sessions \in Nat /\ s \in Nat
  BY ReceiveQueue DEF TypeOK, Sessions
<1>2. CASE n \in 1 .. Len(msgq') /\ msgq'[n].type = "Position" /\ msgq'[n].session = s
  BY <1>1, <1>2, QueueMovesUp DEF PositionAt
<1>3. CASE n = Len(msgq') + 1 /\ run' # NoRun /\ begun' /\ run'.id = s
  <2>1. run' = run /\ begun
    BY <1>1, <1>3 DEF RunKept
  <2> QED BY <1>1, <1>3, <2>1 DEF PositionAt
<1> QED BY <1>2, <1>3 DEF PositionAt

LEMMA NoLeaveAfterReceive ==
    ASSUME TypeOK, NEW type, Receive(type), NEW i \in Nat, NEW n \in Nat, NoLeave(i + 1, n + 1)
    PROVE  NoLeave(i, n)'
<1> SUFFICES ASSUME NEW j \in 1 .. Len(msgq'), i < j, j < n PROVE ~Leaves(msgq'[j])
    BY DEF NoLeave, Leaves
<1>1. j + 1 \in 1 .. Len(msgq) /\ msgq'[j] = msgq[j + 1] /\ i + 1 < j + 1 /\ j + 1 < n + 1
  BY QueueMovesUp
<1> QED BY <1>1 DEF NoLeave

LEMMA BracketAfterReceive ==
    ASSUME TypeOK, BracketInv, NewInv, NEW type, Receive(type), RunKept
    PROVE  BracketInv'
<1> SUFFICES ASSUME NEW i \in 1 .. Len(msgq'), NEW n \in 1 .. Len(msgq') + 1, NEW s \in Sessions,
                    Begins(msgq'[i], s), PositionAt(n, s)'
             PROVE  i < n /\ NoLeave(i, n)'
    BY DEF BracketInv, Begins, IsBegin
<1>1. i + 1 \in 1 .. Len(msgq) /\ Begins(msgq[i + 1], s)
  BY QueueMovesUp
<1>2. s <= sessions
  BY <1>1 DEF NewInv, Begins, IsBegin
<1>3. n \in Nat \ {0} /\ n + 1 \in 1 .. Len(msgq) + 1 /\ PositionAt(n + 1, s)
  BY <1>2, PositionMovesUp
<1>4. i + 1 < n + 1 /\ NoLeave(i + 1, n + 1)
  BY <1>1, <1>3 DEF BracketInv
<1>5. NoLeave(i, n)'
  BY <1>3, <1>4, NoLeaveAfterReceive
<1> QED BY <1>3, <1>4, <1>5

LEMMA NewAfterReceive ==
    ASSUME TypeOK, NewInv, NEW type, Receive(type), RunKept,
           \A s \in muted' : s \in muted \/ (type = "Status" /\ s = Head(msgq).session)
    PROVE  NewInv'
<1>1. ASSUME NEW i \in 1 .. Len(msgq'), msgq'[i].type \in {"Status", "Position"}
      PROVE  /\ msgq'[i].session <= sessions /\ msgq'[i].session \in Nat
             /\ run # NoRun /\ ~begun => msgq'[i].session # run.id
  <2>1. i + 1 \in 1 .. Len(msgq) /\ msgq'[i] = msgq[i + 1]
    BY QueueMovesUp
  <2>2. msgq[i + 1] \in Message
    BY <2>1, ReceiveQueue
  <2>3. msgq[i + 1].session \in Nat
    BY <1>1, <2>1, <2>2 DEF Message, Sessions, NoSession
  <2> QED BY <1>1, <2>1, <2>3 DEF NewInv
<1>2. ASSUME NEW s \in muted'
      PROVE  s <= sessions /\ s \in Nat /\ (run # NoRun /\ ~begun => s # run.id)
  <2>1. CASE s \in muted
    BY <2>1 DEF NewInv, TypeOK, Sessions
  <2>2. CASE type = "Status" /\ s = Head(msgq).session
    <3>1. 1 \in 1 .. Len(msgq) /\ msgq[1] = Head(msgq) /\ msgq[1].type = "Status"
      BY <2>2, QueueMovesUp
    <3>2. s \in Nat
      BY <2>2, MessageFields DEF Sessions, NoSession
    <3> QED BY <2>2, <3>1, <3>2 DEF NewInv
  <2> QED BY <1>2, <2>1, <2>2
<1>3. sessions \in Nat
  BY DEF TypeOK
<1>4. CASE run' \in {run, NoRun} /\ UNCHANGED sessions
  BY <1>1, <1>2, <1>4 DEF NewInv, RunKept
<1>5. CASE run' # NoRun /\ run'.id = sessions + 1 /\ sessions' = sessions + 1 /\ handle'
  <2>1. \A s \in muted' : s <= sessions' /\ s # run'.id
    BY <1>2, <1>3, <1>5
  <2>2. \A i \in 1 .. Len(msgq') : msgq'[i].type \in {"Status", "Position"} =>
            msgq'[i].session <= sessions' /\ msgq'[i].session # run'.id
    BY <1>1, <1>3, <1>5
  <2> QED BY <1>5, <2>1, <2>2 DEF NewInv
<1> QED BY <1>4, <1>5 DEF RunKept

LEMMA SilentAfterReceive ==
    ASSUME TypeOK, SilentInv, NewInv, NEW type, Receive(type), RunKept, UNCHANGED muted,
           UNCHANGED mute \/ mute # "IN_SESSION" \/ Leaves(Head(msgq))
    PROVE  SilentInv'
<1> SUFFICES ASSUME NEW n \in 1 .. Len(msgq') + 1, NEW s \in muted, PositionAt(n, s)'
             PROVE  mute' = "IN_SESSION" /\ NoLeave(0, n)'
    BY DEF SilentInv
<1>1. s \in Sessions /\ s <= sessions
  BY DEF TypeOK, NewInv
<1>2. n \in Nat \ {0} /\ n + 1 \in 1 .. Len(msgq) + 1 /\ PositionAt(n + 1, s)
  BY <1>1, PositionMovesUp
<1>3. mute = "IN_SESSION" /\ NoLeave(0, n + 1)
  BY <1>2 DEF SilentInv
<1>4. ~Leaves(Head(msgq))
  BY <1>2, <1>3, QueueMovesUp DEF NoLeave
<1>5. NoLeave(0 + 1, n + 1)
  BY <1>3 DEF NoLeave
<1>6. NoLeave(0, n)'
  BY <1>2, <1>5, NoLeaveAfterReceive
<1> QED BY <1>3, <1>4, <1>6

\* A status enters the muted session with its begin, and leaves it with its end.
LEMMA SilentAfterStatus ==
    ASSUME TypeOK, SilentInv, NewInv, BracketInv, RunKept, Receive("Status"),
           Report(Head(msgq).status, Head(msgq).session)
    PROVE  SilentInv'
<1> SUFFICES ASSUME NEW n \in 1 .. Len(msgq') + 1, NEW s \in muted', PositionAt(n, s)'
             PROVE  mute' = "IN_SESSION" /\ NoLeave(0, n)'
    BY DEF SilentInv
<1>1. /\ 1 \in 1 .. Len(msgq) /\ msgq[1] = Head(msgq) /\ msgq[1].type = "Status"
      /\ Head(msgq).status \in Statuses /\ Head(msgq).session \in Sessions \cup {NoSession}
  BY QueueMovesUp, MessageFields
<1>2. CASE s \in muted
  <2>1. s \in Sessions /\ s <= sessions
    BY <1>2 DEF TypeOK, NewInv
  <2>2. n \in Nat \ {0} /\ n + 1 \in 1 .. Len(msgq) + 1 /\ PositionAt(n + 1, s)
    BY <2>1, PositionMovesUp
  <2>3. mute = "IN_SESSION" /\ NoLeave(0, n + 1)
    BY <1>2, <2>2 DEF SilentInv
  <2>4. ~Leaves(Head(msgq))
    BY <1>1, <2>2, <2>3 DEF NoLeave
  <2>5. mute' = "IN_SESSION"
    BY <1>1, <2>3, <2>4 DEF Report, Leaves, Statuses
  <2>6. NoLeave(0 + 1, n + 1)
    BY <2>3 DEF NoLeave
  <2>7. NoLeave(0, n)'
    BY <2>2, <2>6, NoLeaveAfterReceive
  <2> QED BY <2>5, <2>7
<1>3. CASE s \notin muted
  <2>1. Head(msgq).status = "SESSION_BEGIN" /\ mute # "NONE" /\ s = Head(msgq).session
    BY <1>3 DEF Report
  <2>2. mute' = "IN_SESSION"
    BY <2>1 DEF Report, TypeOK
  <2>3. s <= sessions
    BY <1>1, <2>1 DEF NewInv
  <2>4. CASE s = NoSession
    <3>1. s = 0
      BY <2>4 DEF NoSession
    <3>2. CASE n \in 1 .. Len(msgq') /\ msgq'[n].type = "Position" /\ msgq'[n].session = s
      <4>1. n + 1 \in 1 .. Len(msgq) /\ msgq[n + 1].type = "Position" /\ msgq[n + 1].session = s
        BY <3>2, QueueMovesUp
      <4>2. msgq[n + 1] \in Message
        BY <4>1, ReceiveQueue
      <4> QED BY <3>1, <4>1, <4>2 DEF Message, Sessions
    <3>3. CASE run' # NoRun /\ run'.id = s
      <4>1. run' = run \/ run'.id = sessions + 1
        BY <3>3 DEF RunKept
      <4>2. run' = run
        BY <3>1, <3>3, <4>1 DEF TypeOK
      <4> QED BY <3>1, <3>3, <4>2 DEF TypeOK, Sessions
    <3> QED BY <3>2, <3>3 DEF PositionAt
  <2>5. CASE s \in Sessions
    <3>1. n \in Nat \ {0} /\ n + 1 \in 1 .. Len(msgq) + 1 /\ PositionAt(n + 1, s)
      BY <2>3, <2>5, PositionMovesUp
    <3>2. Begins(msgq[1], s)
      BY <1>1, <2>1 DEF Begins, IsBegin
    <3>3. NoLeave(0 + 1, n + 1)
      BY <1>1, <2>5, <3>1, <3>2 DEF BracketInv
    <3>4. NoLeave(0, n)'
      BY <3>1, <3>3, NoLeaveAfterReceive
    <3> QED BY <2>2, <3>4
  <2> QED BY <1>1, <2>1, <2>4, <2>5
<1> QED BY <1>2, <1>3

\* What the modem may post.
Posts(m) ==
    /\ Post(m) /\ UNCHANGED <<sessions, muted, mute, handle>>
    /\ m.type = "Position" => run # NoRun /\ begun /\ m.session = run.id
    /\ IsBegin(m) => run # NoRun /\ ~begun /\ m.session = run.id
    /\ m.type = "Status" => IsBegin(m) \/ m.session = NoSession
    /\ run' \in {run, NoRun}
    /\ run' # NoRun /\ begun' => ~Leaves(m) /\ (begun \/ IsBegin(m))
    /\ run' # NoRun /\ ~begun' => ~begun /\ ~IsBegin(m)

LEMMA NoLeaveAfterPost ==
    ASSUME TypeOK, NEW m \in Message, Post(m), NEW i \in Nat, NEW n \in Nat, NoLeave(i, n),
           n <= Len(msgq) + 1 \/ ~Leaves(m)
    PROVE  NoLeave(i, n)'
<1> SUFFICES ASSUME NEW j \in 1 .. Len(msgq'), i < j, j < n PROVE ~Leaves(msgq'[j])
    BY DEF NoLeave, Leaves
<1>1. CASE j \in 1 .. Len(msgq)
  BY <1>1, QueueGrows DEF NoLeave
<1>2. CASE j = Len(msgq) + 1
  BY <1>2, QueueGrows
<1> QED BY <1>1, <1>2, QueueGrows

LEMMA PositionsAfterPost ==
    ASSUME TypeOK, NEW m \in Message, Posts(m), NEW n \in 1 .. Len(msgq') + 1, NEW s,
           PositionAt(n, s)'
    PROVE  \/ n \in 1 .. Len(msgq) + 1 /\ PositionAt(n, s)
           \/ /\ n = Len(msgq) + 2 /\ run # NoRun /\ run.id = s /\ ~Leaves(m)
              /\ \/ PositionAt(Len(msgq) + 1, s)
                 \/ ~begun /\ IsBegin(m)
<1>1. Len(msgq) \in Nat /\ Len(msgq') = Len(msgq) + 1
  BY QueueGrows DEF Posts
<1>2. CASE n \in 1 .. Len(msgq') /\ msgq'[n].type = "Position" /\ msgq'[n].session = s
  <2>1. CASE n \in 1 .. Len(msgq)
    BY <1>1, <1>2, <2>1, QueueGrows DEF PositionAt, Posts
  <2>2. CASE n = Len(msgq) + 1
    BY <1>1, <1>2, <2>2, QueueGrows DEF PositionAt, Posts
  <2> QED BY <1>1, <1>2, <2>1, <2>2
<1>3. CASE n = Len(msgq') + 1 /\ run' # NoRun /\ begun' /\ run'.id = s
  BY <1>1, <1>3 DEF PositionAt, Posts
<1> QED BY <1>2, <1>3 DEF PositionAt

LEMMA BracketAfterPost ==
    ASSUME TypeOK, BracketInv, NewInv, NEW m \in Message, Posts(m)
    PROVE  BracketInv'
<1> SUFFICES ASSUME NEW i \in 1 .. Len(msgq'), NEW n \in 1 .. Len(msgq') + 1, NEW s \in Sessions,
                    Begins(msgq'[i], s), PositionAt(n, s)'
             PROVE  i < n /\ NoLeave(i, n)'
    BY DEF BracketInv, Begins, IsBegin
<1>1. Len(msgq) \in Nat /\ Len(msgq') = Len(msgq) + 1 /\ msgq'[Len(msgq) + 1] = m
  BY QueueGrows DEF Posts
<1>2. CASE i \in 1 .. Len(msgq)
  <2>1. Begins(msgq[i], s)
    BY <1>2, QueueGrows DEF Posts
  <2>2. CASE n \in 1 .. Len(msgq) + 1 /\ PositionAt(n, s)
    <3>1. i < n /\ NoLeave(i, n) /\ n <= Len(msgq) + 1 /\ i \in Nat /\ n \in Nat
      BY <1>1, <1>2, <2>1, <2>2 DEF BracketInv
    <3> QED BY <3>1, NoLeaveAfterPost DEF Posts
  <2>3. CASE n = Len(msgq) + 2 /\ PositionAt(Len(msgq) + 1, s) /\ ~Leaves(m)
    <3>1. NoLeave(i, Len(msgq) + 1)
      BY <1>1, <1>2, <2>1, <2>3 DEF BracketInv
    <3>2. NoLeave(i, n) /\ i \in Nat /\ n \in Nat /\ i < n
      BY <1>1, <1>2, <2>3, <3>1 DEF NoLeave
    <3> QED BY <2>3, <3>2, NoLeaveAfterPost DEF Posts
  <2>4. CASE run # NoRun /\ run.id = s /\ ~begun
    BY <1>2, <2>1, <2>4 DEF NewInv, Begins, IsBegin
  <2> QED BY <2>2, <2>3, <2>4, PositionsAfterPost
<1>3. CASE i = Len(msgq) + 1
  <2>1. IsBegin(m) /\ m.session = s /\ run # NoRun /\ ~begun /\ run.id = s
    BY <1>1, <1>3 DEF Begins, Posts
  <2>2. \A k \in 1 .. Len(msgq) + 1 : ~PositionAt(k, s)
    BY <1>1, <2>1 DEF NewInv, PositionAt
  <2>3. n = Len(msgq) + 2
    BY <2>2, PositionsAfterPost
  <2>4. NoLeave(i, n)'
    BY <1>1, <1>3, <2>3 DEF NoLeave
  <2> QED BY <1>1, <1>3, <2>3, <2>4
<1> QED BY <1>1, <1>2, <1>3

LEMMA NewAfterPost ==
    ASSUME TypeOK, NewInv, NEW m \in Message, Posts(m)
    PROVE  NewInv'
<1>1. m.type \in {"Status", "Position"} => m.session <= sessions
  <2>1. sessions \in Nat
    BY DEF TypeOK
  <2> QED BY <2>1 DEF Posts, NewInv, NoSession
<1>2. m.type \in {"Status", "Position"} /\ run' # NoRun /\ ~begun' => m.session # run'.id
  <2>1. run # NoRun => run.id \in Sessions
    BY DEF TypeOK
  <2> QED BY <2>1 DEF Posts, NoSession, Sessions
<1>3. ASSUME NEW i \in 1 .. Len(msgq'), msgq'[i].type \in {"Status", "Position"}
      PROVE  /\ msgq'[i].session <= sessions'
             /\ run' # NoRun /\ ~begun' => msgq'[i].session # run'.id
  <2>1. CASE i \in 1 .. Len(msgq)
    <3>1. msgq'[i] = msgq[i]
      BY <2>1, QueueGrows DEF Posts
    <3> QED BY <1>3, <2>1, <3>1 DEF NewInv, Posts
  <2>2. CASE i = Len(msgq) + 1
    <3>1. msgq'[i] = m
      BY <2>2, QueueGrows DEF Posts
    <3> QED BY <1>1, <1>2, <1>3, <3>1 DEF Posts
  <2> QED BY <2>1, <2>2, QueueGrows DEF Posts
<1>4. /\ run' # NoRun => run'.id = sessions' /\ handle'
      /\ run' # NoRun /\ ~begun' => run'.id \notin muted'
      /\ \A s \in muted' : s <= sessions'
  BY DEF NewInv, Posts
<1> QED BY <1>3, <1>4 DEF NewInv

LEMMA SilentAfterPost ==
    ASSUME TypeOK, SilentInv, NewInv, NEW m \in Message, Posts(m)
    PROVE  SilentInv'
<1> SUFFICES ASSUME NEW n \in 1 .. Len(msgq') + 1, NEW s \in muted, PositionAt(n, s)'
             PROVE  mute = "IN_SESSION" /\ NoLeave(0, n)'
    BY DEF SilentInv, Posts
<1>1. Len(msgq) \in Nat
  BY QueueGrows DEF Posts
<1>2. CASE n \in 1 .. Len(msgq) + 1 /\ PositionAt(n, s)
  <2>1. mute = "IN_SESSION" /\ NoLeave(0, n) /\ n \in Nat /\ n <= Len(msgq) + 1
    BY <1>1, <1>2 DEF SilentInv
  <2> QED BY <2>1, NoLeaveAfterPost DEF Posts
<1>3. CASE n = Len(msgq) + 2 /\ PositionAt(Len(msgq) + 1, s) /\ ~Leaves(m)
  <2>1. mute = "IN_SESSION" /\ NoLeave(0, Len(msgq) + 1)
    BY <1>1, <1>3 DEF SilentInv
  <2>2. NoLeave(0, n) /\ n \in Nat
    BY <1>1, <1>3, <2>1 DEF NoLeave
  <2> QED BY <1>3, <2>1, <2>2, NoLeaveAfterPost DEF Posts
<1>4. CASE run # NoRun /\ run.id = s /\ ~begun
  BY <1>4 DEF NewInv
<1> QED BY <1>2, <1>3, <1>4, PositionsAfterPost

LEMMA RunIsKept ==
    ASSUME TypeInv, RestartInv, NewInv, MsgTask
    PROVE  RunKept
<1> TypeOK
  BY DEF TypeInv
<1>1. UNCHANGED begun
  BY DEF MsgTask, StartFix, StopFix, PositionMode, ReportPosition, ReportStatus, DelAidData,
         MuteOneSession, EngineDown, Ssr, EngineUp, radio
<1>2. CASE StartFix \/ EngineUp
  <2>1. UNCHANGED handle
    BY <1>2 DEF StartFix, EngineUp, StartSession, modem
  <2>2. \/ UNCHANGED <<run, sessions>>
        \/ /\ handle /\ sessions' = sessions + 1
           /\ \E c : run' = [id |-> sessions + 1, criteria |-> c]
    BY <1>2 DEF StartFix, EngineUp, StartSession, modem
  <2>3. CASE UNCHANGED <<run, sessions>>
    BY <1>1, <2>1, <2>3 DEF RunKept, NewInv
  <2>4. CASE /\ handle /\ sessions' = sessions + 1
             /\ \E c : run' = [id |-> sessions + 1, criteria |-> c]
    <3>1. run'.id = sessions + 1 /\ run' # NoRun
      BY <2>4 DEF NoRun
    <3> QED BY <1>1, <2>1, <2>4, <3>1 DEF RunKept
  <2> QED BY <2>2, <2>3, <2>4
<1>3. CASE Ssr
  <2>1. UNCHANGED <<run, sessions>> /\ handle' = (link \in {"back", "up"})
    BY <1>3 DEF Ssr
  <2>2. run # NoRun => link \in {"back", "up"}
    BY DEF NewInv, RestartInv, AwayInv, TypeOK
  <2> QED BY <1>1, <2>1, <2>2 DEF RunKept
<1>4. CASE StopFix \/ PositionMode \/ ReportPosition \/ ReportStatus \/ DelAidData
              \/ MuteOneSession \/ EngineDown
  <2>1. UNCHANGED <<handle, sessions>> /\ run' \in {run, NoRun}
    BY <1>4 DEF StopFix, PositionMode, ReportPosition, ReportStatus, DelAidData, MuteOneSession,
                EngineDown, modem
  <2> QED BY <1>1, <2>1 DEF RunKept, NewInv
<1> QED BY <1>2, <1>3, <1>4 DEF MsgTask

\* Marks of the handlers other than of a position.
LEMMA NotLeaked ==
    ASSUME MsgTask, ~ReportPosition, "leaked" \notin seen
    PROVE  "leaked" \notin seen'
<1>1. CASE StartFix \/ EngineUp
  <2>1. ASSUME NEW c, NEW why \in {{}, {"restarted"}}, StartSession(c, why)
        PROVE  seen' \subseteq seen \cup {"restarted", "refused", "denied"}
    BY <2>1 DEF StartSession, Note, If
  <2>2. seen' \subseteq seen \cup {"restarted", "refused", "denied"}
    BY <1>1, <2>1 DEF StartFix, EngineUp
  <2> QED BY <2>2
<1>2. CASE MuteOneSession \/ EngineDown
  BY <1>2 DEF MuteOneSession, EngineDown, Note, If
<1>3. CASE StopFix \/ PositionMode \/ ReportStatus \/ DelAidData \/ Ssr
  BY <1>3 DEF StopFix, PositionMode, ReportStatus, DelAidData, Ssr
<1> QED BY <1>1, <1>2, <1>3 DEF MsgTask

LEMMA MuteMsgTask ==
    ASSUME TypeInv, RestartInv, MuteInv, MsgTask
    PROVE  MuteInv'
<1> TypeOK /\ BracketInv /\ NewInv
  BY DEF TypeInv, MuteInv
<1>1. RunKept
  BY RunIsKept
<1>2. PICK type : /\ Receive(type)
                  /\ \A s \in muted' : s \in muted \/ (type = "Status" /\ s = Head(msgq).session)
  <2>1. CASE ReportStatus
    BY <2>1 DEF ReportStatus, Report
  <2>2. CASE EngineDown
    BY <2>2 DEF EngineDown, Report
  <2>3. CASE ~ReportStatus /\ ~EngineDown
    <3>1. UNCHANGED muted
      BY <2>3 DEF MsgTask, StartFix, StopFix, PositionMode, ReportPosition, DelAidData,
                  MuteOneSession, Ssr, EngineUp, reports
    <3>2. \E type : Receive(type)
      BY <2>3 DEF MsgTask, StartFix, StopFix, PositionMode, ReportPosition, DelAidData,
                  MuteOneSession, Ssr, EngineUp
    <3> QED BY <3>1, <3>2
  <2> QED BY <2>1, <2>2, <2>3
<1>3. BracketInv' /\ NewInv'
  BY <1>1, <1>2, BracketAfterReceive, NewAfterReceive
<1>4. seen \subseteq seen'
  BY MarksStay DEF Next
<1>5. ASSUME "remuted" \notin seen', SilentInv, "leaked" \notin seen
      PROVE  SilentInv' /\ "leaked" \notin seen'
  <2>1. CASE ReportStatus
    <3>1. SilentInv'
      BY <1>1, <1>5, <2>1, SilentAfterStatus DEF ReportStatus
    <3> QED BY <1>5, <2>1, <3>1, NotLeaked DEF ReportStatus
  <2>2. CASE EngineDown
    <3>1. Receive("EngineDown") /\ Leaves(Head(msgq)) /\ UNCHANGED muted
      BY <2>2, ReceiveQueue DEF EngineDown, Report, Leaves
    <3>2. SilentInv'
      BY <1>1, <1>5, <3>1, SilentAfterReceive
    <3>3. "leaked" \notin seen'
      BY <1>5, <2>2 DEF EngineDown, Note, If
    <3> QED BY <3>2, <3>3
  <2>3. CASE MuteOneSession
    <3>1. Receive("Ni") /\ UNCHANGED muted /\ mute # "IN_SESSION"
      BY <1>5, <2>3 DEF MuteOneSession, Note, If
    <3>2. SilentInv'
      BY <1>1, <1>5, <3>1, SilentAfterReceive
    <3>3. "leaked" \notin seen'
      BY <1>5, <2>3 DEF MuteOneSession, Note, If
    <3> QED BY <3>2, <3>3
  <2>4. CASE ReportPosition
    <3>1. Receive("Position") /\ UNCHANGED <<mute, muted>>
      BY <2>4 DEF ReportPosition, reports
    <3>2. SilentInv'
      BY <1>1, <1>5, <3>1, SilentAfterReceive
    <3>3. Head(msgq).session \in muted => mute = "IN_SESSION"
      <4>1. Len(msgq) \in Nat /\ 1 \in 1 .. Len(msgq) + 1 /\ PositionAt(1, Head(msgq).session)
        BY <3>1, QueueMovesUp, ReceiveQueue DEF PositionAt
      <4> QED BY <1>5, <4>1 DEF SilentInv
    <3>4. "leaked" \notin seen'
      <4> DEFINE others == {"unheard", "superseded", "wiped"}
      <4>1. CASE mute = "IN_SESSION"
        <5>1. seen' \subseteq seen \cup others
          BY <2>4, <4>1 DEF ReportPosition, Note, If
        <5> QED BY <1>5, <5>1
      <4>2. CASE mute # "IN_SESSION"
        <5>1. If(Head(msgq).session \in muted, "leaked") = {}
          BY <3>3, <4>2 DEF If
        <5>2. If(inSession /\ run = NoRun, "unheard") \subseteq others
          BY DEF If
        <5>3. If(inSession /\ Head(msgq).session < sessions, "superseded") \subseteq others
          BY DEF If
        <5>4. If(criteria.mode = "VALID" /\ StartToCome, "wiped") \subseteq others
          BY DEF If
        <5> HIDE DEF others
        <5>5. seen' \subseteq seen \cup others
          BY <2>4, <5>1, <5>2, <5>3, <5>4 DEF ReportPosition, Note
        <5> QED BY <1>5, <5>5 DEF others
      <4> QED BY <4>1, <4>2
    <3> QED BY <3>2, <3>4
  <2>5. CASE ~ReportStatus /\ ~EngineDown /\ ~MuteOneSession /\ ~ReportPosition
    <3>1. UNCHANGED <<mute, muted>>
      BY <2>5 DEF MsgTask, StartFix, StopFix, PositionMode, DelAidData, Ssr, EngineUp, reports
    <3>2. SilentInv'
      BY <1>1, <1>2, <1>5, <3>1, SilentAfterReceive
    <3> QED BY <1>5, <2>5, <3>2, NotLeaked
  <2> QED BY <2>1, <2>2, <2>3, <2>4, <2>5
<1> QED BY <1>3, <1>4, <1>5 DEF MuteInv

\* A step that posts, or leaves the queue alone and at most ends the run.
LEMMA MuteAfterPost ==
    ASSUME TypeOK, MuteInv, NEW m \in Message, Posts(m),
           seen \subseteq seen', "leaked" \in seen' => "leaked" \in seen
    PROVE  MuteInv'
<1>1. BracketInv /\ NewInv
  BY DEF MuteInv
<1>2. BracketInv' /\ NewInv'
  BY <1>1, BracketAfterPost, NewAfterPost
<1>3. SilentInv => SilentInv'
  BY <1>1, SilentAfterPost
<1> QED BY <1>2, <1>3 DEF MuteInv

LEMMA MuteQuiet ==
    ASSUME MuteInv, msgq' = msgq, UNCHANGED <<sessions, muted, mute>>,
           UNCHANGED <<run, begun, handle>> \/ run' = NoRun,
           seen \subseteq seen', "leaked" \in seen' => "leaked" \in seen
    PROVE  MuteInv'
<1>1. \A n, s : PositionAt(n, s)' => PositionAt(n, s)
  BY DEF PositionAt
<1>2. \A i, n : NoLeave(i, n) => NoLeave(i, n)'
  BY DEF NoLeave, Leaves
<1>3. BracketInv'
  BY <1>1, <1>2 DEF MuteInv, BracketInv, Begins, IsBegin
<1>4. NewInv'
  BY DEF MuteInv, NewInv
<1>5. SilentInv => SilentInv'
  BY <1>1, <1>2 DEF SilentInv
<1> QED BY <1>3, <1>4, <1>5 DEF MuteInv

LEMMA NextMute ==
    ASSUME TypeInv, RestartInv, MuteInv, [Next]_vars
    PROVE  MuteInv'
<1> TypeOK /\ BracketInv /\ NewInv
  BY DEF TypeInv, MuteInv
<1>1. seen \subseteq seen'
  BY MarksStay
<1>2. CASE Framework
  <2>1. UNCHANGED <<run, begun, handle, sessions, mute, muted>>
    BY <1>2 DEF Framework, FwPositionMode, FwStart, FwStop, FwDeleteAidingData, FwCleanup, FwInit,
                modem, radio, reports
  <2>2. "leaked" \in seen' => "leaked" \in seen
    <3>1. CASE FwCleanup
      BY <3>1 DEF FwCleanup, Note, If
    <3>2. CASE ~FwCleanup
      BY <1>2, <3>2 DEF Framework, FwPositionMode, FwStart, FwStop, FwDeleteAidingData, FwInit
    <3> QED BY <3>1, <3>2
  <2>3. CASE msgq' = msgq
    BY <1>1, <2>1, <2>2, <2>3, MuteQuiet
  <2>4. ASSUME NEW m \in Message, Post(m),
               m.type \in {"StartFix", "StopFix", "PositionMode", "DelAidData"}
        PROVE  MuteInv'
    <3>1. Posts(m)
      BY <2>1, <2>4 DEF Posts, IsBegin, Leaves
    <3> QED BY <1>1, <2>2, <3>1, MuteAfterPost
  <2> QED BY <1>2, <2>3, <2>4, FrameworkPosts
<1>3. ASSUME Modem \/ LocApi
      PROVE  UNCHANGED <<sessions, mute, muted, seen>> /\ (UNCHANGED handle \/ ModemCrash)
  BY <1>3 DEF Modem, ModemEngineOn, ModemSessionBegin, ModemPosition, ModemSessionEnd,
              ModemEngineOff, ModemNi, ModemCrash, LocApi, LocApiDown, LocApiSsr, LocApiUp,
              modem, reports
<1>4. CASE ModemCrash
  BY <1>3, <1>4, MuteQuiet DEF ModemCrash, Modem
<1>5. ASSUME NEW status \in Statuses, NEW session \in Sessions \cup {NoSession},
             Modem, ~ModemCrash, PostStatus(status, session), UNCHANGED run,
             IF status = "SESSION_BEGIN"
             THEN run # NoRun /\ ~begun /\ session = run.id /\ begun'
             ELSE session = NoSession,
             status \in {"SESSION_END", "ENGINE_OFF"} => run = NoRun,
             status # "SESSION_BEGIN" => UNCHANGED begun \/ run = NoRun
      PROVE  MuteInv'
  <2> DEFINE m == [type |-> "Status", status |-> status, session |-> session]
  <2>1. m \in Message /\ Post(m)
    BY <1>5 DEF Message, PostStatus, BoundedPost
  <2>2. m.type = "Status" /\ m.status = status /\ m.session = session
    OBVIOUS
  <2> HIDE DEF m
  <2>3. Posts(m)
    BY <1>3, <1>5, <2>1, <2>2 DEF Posts, IsBegin, Leaves
  <2> QED BY <1>1, <1>3, <1>5, <2>1, <2>3, MuteAfterPost
<1>6. CASE ModemEngineOn
  BY <1>5, <1>6 DEF ModemEngineOn, Modem, ModemCrash, Statuses, modem
<1>7. CASE ModemSessionBegin
  <2>1. UNCHANGED run /\ run.id \in Sessions
    BY <1>7, RunIsSession DEF ModemSessionBegin, modem
  <2>2. ~ModemCrash
    BY <1>7 DEF ModemSessionBegin, ModemCrash
  <2> QED BY <1>5, <1>7, <2>1, <2>2 DEF ModemSessionBegin, Modem, Statuses
<1>8. CASE ModemSessionEnd
  <2>1. UNCHANGED run /\ run = NoRun
    BY <1>8 DEF ModemSessionEnd, modem
  <2>2. ~ModemCrash
    <3>1. Len(msgq) \in Nat /\ Len(msgq') = Len(msgq) + 1
      BY <1>8 DEF ModemSessionEnd, PostStatus, BoundedPost, Post, TypeOK
    <3> QED BY <3>1 DEF ModemCrash
  <2> QED BY <1>5, <1>8, <2>1, <2>2 DEF ModemSessionEnd, Modem, Statuses
<1>9. CASE ModemEngineOff
  <2>1. UNCHANGED run /\ run = NoRun
    BY <1>9 DEF ModemEngineOff, modem
  <2>2. ~ModemCrash
    <3>1. Len(msgq) \in Nat /\ Len(msgq') = Len(msgq) + 1
      BY <1>9 DEF ModemEngineOff, PostStatus, BoundedPost, Post, TypeOK
    <3> QED BY <3>1 DEF ModemCrash
  <2> QED BY <1>5, <1>9, <2>1, <2>2 DEF ModemEngineOff, Modem, Statuses
<1>10. ASSUME NEW status \in {"SUCCESS", "INTERMEDIATE"}, ModemPosition(status)
       PROVE  MuteInv'
  <2> DEFINE m == [type |-> "Position", status |-> status, session |-> run.id]
  <2>1. m \in Message /\ Post(m)
    BY <1>10, RunIsSession DEF ModemPosition, Message, BoundedPost
  <2>2. m.type = "Position" /\ m.session = run.id
    OBVIOUS
  <2> HIDE DEF m
  <2>3. /\ run # NoRun /\ begun /\ run' \in {run, NoRun}
        /\ UNCHANGED <<begun, sessions, muted, mute, handle, seen>>
    BY <1>10 DEF ModemPosition, radio, reports
  <2>4. Posts(m)
    BY <2>1, <2>2, <2>3 DEF Posts, IsBegin, Leaves
  <2> QED BY <2>1, <2>3, <2>4, MuteAfterPost
<1>11. ASSUME NEW type \in {"Ni", "EngineDown", "Ssr", "EngineUp"}, Post([type |-> type]),
              UNCHANGED <<run, begun, handle, sessions, muted, mute, seen>>,
              type = "EngineDown" => run = NoRun
       PROVE  MuteInv'
  <2> DEFINE m == [type |-> type]
  <2>1. m \in Message /\ Post(m) /\ m.type = type
    BY <1>11, BareMessages
  <2> HIDE DEF m
  <2>2. Posts(m)
    BY <1>11, <2>1 DEF Posts, IsBegin, Leaves
  <2> QED BY <1>11, <2>1, <2>2, MuteAfterPost
<1>12. CASE ModemNi
  BY <1>11, <1>12 DEF ModemNi, BoundedPost, modem, radio, reports
<1>13. CASE LocApiDown
  <2>1. run = NoRun
    BY <1>13 DEF LocApiDown, RestartInv, AwayInv, NewInv
  <2> QED BY <1>11, <1>13, <2>1 DEF LocApiDown, modem, radio, reports
<1>14. CASE LocApiSsr \/ LocApiUp
  BY <1>11, <1>14 DEF LocApiSsr, LocApiUp, modem, radio, reports
<1>15. CASE UNCHANGED vars
  BY <1>15, MuteQuiet DEF vars, modem, radio, reports
<1> QED BY <1>2, <1>4, <1>6, <1>7, <1>8, <1>9, <1>10, <1>12, <1>13, <1>14, <1>15, MuteMsgTask
        DEF Next, Modem, LocApi

\* No position of a session that began muted reaches the framework
\* (loc_eng_report_position), unless a second request to mute undoes the
\* first: the modem brackets its positions with a begin and an end, and the
\* engine is muted from the one to the other.
THEOREM MutedCorrect == Spec => []MutedIsSilent
<1>1. Init => TypeInv /\ RestartInv /\ MuteInv
  <2> SUFFICES ASSUME Init PROVE MuteInv
      BY InitType, InitRestart
  <2>1. Len(msgq) = 0 /\ run = NoRun /\ muted = {} /\ seen = {}
    BY DEF Init
  <2> QED BY <2>1 DEF MuteInv, BracketInv, NewInv, SilentInv
<1>2. TypeInv /\ RestartInv /\ MuteInv /\ [Next]_vars => (TypeInv /\ RestartInv /\ MuteInv)'
  BY NextType, NextRestart, NextMute
<1>3. MuteInv => MutedIsSilent
  BY DEF MuteInv, MutedIsSilent
<1> QED BY <1>1, <1>2, <1>3, PTL DEF Spec

=============================================================================
