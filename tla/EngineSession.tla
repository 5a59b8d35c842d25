--------------------------- MODULE EngineSession ---------------------------
(***************************************************************************)
(* Fix sessions of the location engine (src/gps/loc_api/libloc_api_50001:  *)
(* loc_eng.cpp, loc.cpp, LocEngAdapter).  The framework sets a position    *)
(* mode, starts, stops, deletes aiding data and cleans up; the modem       *)
(* reports positions and its status, may mute one session through an NI    *)
(* request, and may crash and come back.  All of them only post messages:  *)
(* the engine's state belongs to the MsgTask thread, one action per        *)
(* message here, and what a message was about may have changed when its    *)
(* turn comes.                                                             *)
(*                                                                         *)
(* A position mode is abstracted to whether it is valid and to its         *)
(* recurrence.  The ULP proxy is the base class, which keeps nothing from  *)
(* the MsgTask.  fix_session_status is left out: it is written, never read.*)
(* Framework and modem are external; the framework sets a mode before each *)
(* start, the modem runs at most one session for this client.              *)
(***************************************************************************)
EXTENDS Naturals, Sequences

CONSTANTS
    AidingTypes,  \* kinds of aiding data
    MaxSessions,  \* bound on the sessions the modem starts
    MaxLoad,      \* bound on the messages waiting plus the events so far, for
                  \* framework and modem to post
    MaxEvents     \* bound on the deletions asked for, NI requests that mute,
                  \* modem crashes and clean-ups together

ASSUME EngineAssumption ==
    MaxSessions \in Nat /\ MaxLoad \in Nat /\ MaxEvents \in Nat

Recurrences == {"SINGLE", "PERIODIC"}
Criteria == [mode : {"INVALID", "VALID"}, recurrence : Recurrences]
Statuses == {"SESSION_BEGIN", "SESSION_END", "ENGINE_ON", "ENGINE_OFF"}
Sessions == 1 .. MaxSessions
NoSession == 0
NoRun == [id |-> NoSession]

\* What the modem has not finished with: BEGIN carries its session.
Message ==
    [type : {"StartFix", "StopFix", "Ni", "EngineDown", "Ssr", "EngineUp"}]
    \cup [type : {"PositionMode"}, recurrence : Recurrences]
    \cup [type : {"DelAidData"}, mask : (SUBSET AidingTypes) \ {{}}]
    \cup [type : {"Status"}, status : Statuses, session : Sessions \cup {NoSession}]
    \cup [type : {"Position"}, status : {"SUCCESS", "INTERMEDIATE"}, session : Sessions]

\* The circumstances that the properties tell apart.
Circumstances ==
    {"refused",     \* startFix failed, in a way that counts as a session
     "denied",      \* startFix failed otherwise although the modem ran a session
     "superseded",  \* a fix of an earlier session has ended this one
     "wiped",       \* a late fix has invalidated the mode of the next start
     "unheard",     \* the final fix of a single shot did not end the session
     "remuted",     \* a mute was requested in the muted session
     "leaked",      \* a position of a muted session was passed on
     "restarted",   \* a session was started again after a crash
     "crashed",     \* the engine went down with aiding data to be deleted
     "late"}        \* cleaned up before the start was handled

VARIABLES
    msgq,           \* messages waiting for the MsgTask
    inSession,      \* LocEngAdapter::mNavigating
    criteria,       \* LocEngAdapter::mFixCriteria
    engine_status,  \* loc_eng_data.engine_status
    mute,           \* loc_eng_data.mute_session_state
    aiding,         \* loc_eng_data.aiding_data_for_deletion
    asked,          \* how far the framework is: "stopped", "mode", "started"
    open,           \* is the framework between loc_init and loc_cleanup?
    told,           \* a session begin was told, and no end or engine off since
    link,           \* the modem as LocApi sees it: "up", "crashed", "down", "back"
    handle,         \* is the modem's handle open?
    run,            \* the session the modem runs, with its criteria
    sessions,       \* sessions started so far
    engineOn,       \* is the modem's engine on?
    begun,          \* has the modem reported the begin of a session, not its end?
    muted,          \* history: sessions that began muted
    seen,           \* history: the circumstances met so far
    events          \* events so far

engine == <<inSession, criteria>>
reports == <<engine_status, mute, told, muted>>
framework == <<asked, open>>
modem == <<handle, run, sessions>>
radio == <<engineOn, begun>>
vars == <<msgq, engine, reports, aiding, framework, link, modem, radio, seen, events>>

TypeOK ==
    /\ msgq \in Seq(Message)
    /\ inSession \in BOOLEAN
    /\ criteria \in Criteria
    /\ engine_status \in {"NONE", "ENGINE_ON", "ENGINE_OFF"}
    /\ mute \in {"NONE", "WAIT", "IN_SESSION"}
    /\ aiding \in SUBSET AidingTypes
    /\ asked \in {"stopped", "mode", "started"}
    /\ open \in BOOLEAN /\ told \in BOOLEAN
    /\ link \in {"up", "crashed", "down", "back"}
    /\ handle \in BOOLEAN /\ engineOn \in BOOLEAN /\ begun \in BOOLEAN
    /\ run \in [id : Sessions, criteria : Criteria] \cup {NoRun}
    /\ sessions \in 0 .. MaxSessions
    /\ muted \in SUBSET Sessions
    /\ seen \in SUBSET Circumstances
    /\ events \in 0 .. MaxEvents

\* After loc_init: loc_eng_init clears the structure, the constructor of the
\* adapter the rest.
Init ==
    /\ msgq = <<>>
    /\ inSession = FALSE
    /\ criteria = [mode |-> "INVALID", recurrence |-> "PERIODIC"]
    /\ engine_status = "NONE" /\ mute = "NONE" /\ aiding = {}
    /\ asked = "stopped" /\ open = TRUE /\ told = FALSE
    /\ link = "up" /\ handle = TRUE
    /\ run = NoRun /\ sessions = 0
    /\ engineOn = FALSE /\ begun = FALSE
    /\ muted = {} /\ seen = {}
    /\ events = 0

Waiting(type) == \E i \in 1 .. Len(msgq) : msgq[i].type = type
StatusWaiting(statuses) ==
    \E i \in 1 .. Len(msgq) : msgq[i].type = "Status" /\ msgq[i].status \in statuses

\* LocAdapterBase::sendMsg, by a thread other than the MsgTask.
Post(m) == msgq' = Append(msgq, m)
BoundedPost(m) == Len(msgq) + events < MaxLoad /\ Post(m)
\* MsgTask::run takes the next message and calls its proc().
Receive(type) == msgq # <<>> /\ Head(msgq).type = type /\ msgq' = Tail(msgq)

Note(circumstances) == seen' = seen \cup circumstances
Event == events < MaxEvents /\ events' = events + 1
If(condition, circumstance) == IF condition THEN {circumstance} ELSE {}

-----------------------------------------------------------------------------
(***************************************************************************)
(* Start, stop and position mode.                                          *)
(***************************************************************************)
\* LocEngAdapter::setInSession; a session that ends takes the mode with it.
SetInSession(b, c) ==
    /\ inSession' = b
    /\ criteria' = IF b THEN c ELSE [c EXCEPT !.mode = "INVALID"]

\* loc_eng_start_handler out of a session, with these criteria: LocApi starts
\* the session, or fails in a way that counts as a session to be restarted
\* (engine down, phone offline, internal), or in another one that does not.
StartSession(c, why) ==
    \/ /\ handle /\ sessions < MaxSessions
       /\ sessions' = sessions + 1 /\ run' = [id |-> sessions + 1, criteria |-> c]
       /\ SetInSession(TRUE, c)
       /\ Note(why)
       /\ UNCHANGED handle
    \/ /\ SetInSession(TRUE, c)
       /\ Note(why \cup If(handle, "refused"))
       /\ UNCHANGED modem
    \/ /\ handle
       /\ inSession' = FALSE /\ criteria' = c
       /\ Note(why \cup If(run # NoRun, "denied"))
       /\ UNCHANGED modem

\* LocEngStartFix::proc
StartFix ==
    /\ Receive("StartFix")
    /\ \/ ~inSession /\ StartSession(criteria, {})
       \/ inSession /\ UNCHANGED <<engine, modem, seen>>
    /\ UNCHANGED <<reports, aiding, framework, link, radio, events>>

\* Faulty variant: the session flag follows the result of stopFix.
StopFixIfItCan ==
    /\ Receive("StopFix")
    /\ \/ inSession /\ handle /\ run' = NoRun /\ SetInSession(FALSE, criteria)
       \/ ~(inSession /\ handle) /\ UNCHANGED <<run, engine>>
    /\ UNCHANGED <<reports, aiding, framework, link, handle, sessions, radio, seen, events>>

\* Faulty variant: stopFix is left out.
StopFixQuietly ==
    /\ Receive("StopFix")
    /\ \/ inSession /\ SetInSession(FALSE, criteria)
       \/ ~inSession /\ UNCHANGED engine
    /\ UNCHANGED <<reports, aiding, framework, link, modem, radio, seen, events>>

\* LocEngStopFix::proc: stopFix fails while the modem is away, and nobody
\* looks at its result.
StopFix ==
    /\ Receive("StopFix")
    /\ \/ inSession /\ run' = NoRun /\ SetInSession(FALSE, criteria)
       \/ ~inSession /\ UNCHANGED <<run, engine>>
    /\ UNCHANGED <<reports, aiding, framework, link, handle, sessions, radio, seen, events>>

\* LocEngPositionMode::proc: the adapter keeps a copy, for the next start.
PositionMode ==
    /\ Receive("PositionMode")
    /\ criteria' = [mode |-> "VALID", recurrence |-> Head(msgq).recurrence]
    /\ UNCHANGED <<inSession, reports, aiding, framework, link, modem, radio, seen, events>>

-----------------------------------------------------------------------------
(***************************************************************************)
(* Reports of the modem.                                                   *)
(***************************************************************************)
\* The framework is between setting a mode and having its start handled.
StartToCome == asked = "mode" \/ Waiting("StartFix")

\* Faulty variant: a single shot is over even if the fix is not passed on.
ReportPositionAnyFix ==
    LET m == Head(msgq)
        single == criteria.recurrence = "SINGLE"
    IN  /\ Receive("Position")
        /\ \/ ~single /\ UNCHANGED <<engine, run, seen>>
           \/ \E passedOn \in BOOLEAN :
              /\ single
              /\ SetInSession(FALSE, criteria)
              /\ run' = IF passedOn /\ m.status = "INTERMEDIATE" THEN NoRun ELSE run
              /\ Note(If(passedOn /\ criteria.mode = "VALID" /\ StartToCome, "wiped"))
        /\ UNCHANGED <<reports, aiding, framework, link, handle, sessions, radio, events>>

\* LocEngReportPosition::proc.  A muted position is dropped with all that
\* goes with it; whether another one is dropped depends on its technology and
\* accuracy (the first alternative).  Once a fix is passed on a single shot is
\* over, and the modem is stopped if it may still be working.  "SUCCESS"
\* stands for the last report of a fix, be it a failure.
ReportPosition ==
    LET m == Head(msgq)
        single == criteria.recurrence = "SINGLE"
        stale == m.session < sessions
        unheard == If(inSession /\ run = NoRun, "unheard")
    IN  /\ Receive("Position")
        /\ \/ /\ Note(unheard)
              /\ UNCHANGED <<engine, run>>
           \/ /\ mute # "IN_SESSION" /\ ~single
              /\ Note(unheard \cup If(m.session \in muted, "leaked"))
              /\ UNCHANGED <<engine, run>>
           \/ /\ mute # "IN_SESSION" /\ single
              /\ SetInSession(FALSE, criteria)
              /\ run' = IF m.status = "INTERMEDIATE" THEN NoRun ELSE run
              /\ Note(If(m.session \in muted, "leaked")
                      \cup If(inSession /\ stale, "superseded")
                      \cup If(criteria.mode = "VALID" /\ StartToCome, "wiped"))
        /\ UNCHANGED <<reports, aiding, framework, link, handle, sessions, radio, events>>

\* Faulty variant: the muted session is left after the report.
ReportLateUnmute(status, session) ==
    LET entered == IF status \in {"SESSION_BEGIN", "ENGINE_ON"} /\ mute = "WAIT"
                   THEN "IN_SESSION" ELSE mute
        left == entered = "IN_SESSION" /\ status \in {"SESSION_END", "ENGINE_OFF"}
        hidden == \/ status = "SESSION_END" /\ inSession
                  \/ status = "SESSION_BEGIN" /\ ~inSession
                  \/ entered = "IN_SESSION"
    IN  /\ mute' = IF left THEN "NONE" ELSE entered
        /\ muted' = IF status = "SESSION_BEGIN" /\ mute # "NONE" THEN muted \cup {session} ELSE muted
        /\ told' = IF hidden \/ status = "ENGINE_ON" THEN told ELSE status = "SESSION_BEGIN"
        /\ engine_status' = IF status \in {"ENGINE_ON", "ENGINE_OFF"} THEN status ELSE engine_status

\* Faulty variant: only the engine's start begins the muted session.
ReportEngineOnMutes(status, session) ==
    LET entered == IF status = "ENGINE_ON" /\ mute = "WAIT"
                   THEN "IN_SESSION" ELSE mute
        left == entered = "IN_SESSION" /\ status \in {"SESSION_END", "ENGINE_OFF"}
        hidden == \/ status = "SESSION_END" /\ inSession
                  \/ status = "SESSION_BEGIN" /\ ~inSession
                  \/ entered = "IN_SESSION" /\ ~left
    IN  /\ mute' = IF left THEN "NONE" ELSE entered
        /\ muted' = IF status = "SESSION_BEGIN" /\ mute # "NONE" THEN muted \cup {session} ELSE muted
        /\ told' = IF hidden \/ status = "ENGINE_ON" THEN told ELSE status = "SESSION_BEGIN"
        /\ engine_status' = IF status \in {"ENGINE_ON", "ENGINE_OFF"} THEN status ELSE engine_status

\* loc_eng_report_status: enter or leave the muted session, tell the
\* framework unless it is muted or about a session it is not in, keep the
\* engine's status.
Report(status, session) ==
    LET entered == IF status \in {"SESSION_BEGIN", "ENGINE_ON"} /\ mute = "WAIT"
                   THEN "IN_SESSION" ELSE mute
        left == entered = "IN_SESSION" /\ status \in {"SESSION_END", "ENGINE_OFF"}
        hidden == \/ status = "SESSION_END" /\ inSession
                  \/ status = "SESSION_BEGIN" /\ ~inSession
                  \/ entered = "IN_SESSION" /\ ~left
    IN  /\ mute' = IF left THEN "NONE" ELSE entered
        /\ muted' = IF status = "SESSION_BEGIN" /\ mute # "NONE" THEN muted \cup {session} ELSE muted
        /\ told' = IF hidden \/ status = "ENGINE_ON" THEN told ELSE status = "SESSION_BEGIN"
        /\ engine_status' = IF status \in {"ENGINE_ON", "ENGINE_OFF"} THEN status ELSE engine_status

\* update_aiding_data_for_deletion: all that is pending, unless the engine
\* was last reported on.  The status and the pending mask are those the
\* handler has just set.
UpdateAiding(status, pending) == aiding' = IF status = "ENGINE_ON" THEN pending ELSE {}

\* Faulty variant: the engine's status is taken for the session's.
ReportStatusBySession ==
    LET m == Head(msgq)
    IN  /\ Receive("Status")
        /\ Report(m.status, m.session)
        /\ UpdateAiding(IF m.status = "SESSION_END" THEN "ENGINE_OFF" ELSE engine_status', aiding)
        /\ UNCHANGED <<engine, framework, link, modem, radio, seen, events>>

\* Faulty variant: only a status is reported, nothing deleted.
ReportStatusOnly ==
    LET m == Head(msgq)
    IN  /\ Receive("Status")
        /\ Report(m.status, m.session)
        /\ UNCHANGED <<aiding, engine, framework, link, modem, radio, seen, events>>

\* LocEngReportStatus::proc
ReportStatus ==
    LET m == Head(msgq)
    IN  /\ Receive("Status")
        /\ Report(m.status, m.session)
        /\ UpdateAiding(engine_status', aiding)
        /\ UNCHANGED <<engine, framework, link, modem, radio, seen, events>>

\* LocEngDelAidData::proc: the request takes the place of the pending one.
DelAidData ==
    /\ Receive("DelAidData")
    /\ UpdateAiding(engine_status, Head(msgq).mask)
    /\ UNCHANGED <<engine, reports, framework, link, modem, radio, seen, events>>

\* loc_eng_ni_request_handler on GPS_NI_PRIVACY_OVERRIDE:
\* loc_eng_mute_one_session.
MuteOneSession ==
    /\ Receive("Ni")
    /\ mute' = "WAIT"
    /\ Note(If(mute = "IN_SESSION", "remuted"))
    /\ UNCHANGED <<engine, engine_status, told, muted, aiding, framework, link, modem, radio, events>>

-----------------------------------------------------------------------------
(***************************************************************************)
(* An engine restart, as the MsgTask sees it.                              *)
(***************************************************************************)
\* loc_eng_handle_engine_down: NI requests are dropped (NiSession) and the
\* engine is reported off; pending deletions stay.
EngineDown ==
    /\ Receive("EngineDown")
    /\ Report("ENGINE_OFF", NoSession)
    /\ Note(If(aiding # {}, "crashed"))
    /\ UNCHANGED <<engine, aiding, framework, link, modem, radio, events>>

\* LocSsrMsg::proc: close and open the handle.
Ssr ==
    /\ Receive("Ssr")
    /\ handle' = (link \in {"back", "up"})
    /\ UNCHANGED <<engine, reports, aiding, framework, link, run, sessions, radio, seen, events>>

\* Faulty variant: the session is started without leaving it first.
EngineUpInSession ==
    /\ Receive("EngineUp")
    /\ UNCHANGED <<engine, modem, seen, reports, aiding, framework, link, radio, events>>

\* loc_eng_handle_engine_up: a session in progress is started again, with the
\* mode that setInSession(false) has just invalidated.  (Settings are sent
\* anew and A-GPS subscribers dropped: Agps.)
EngineUp ==
    /\ Receive("EngineUp")
    /\ \/ inSession /\ StartSession([criteria EXCEPT !.mode = "INVALID"], {"restarted"})
       \/ ~inSession /\ UNCHANGED <<engine, modem, seen>>
    /\ UNCHANGED <<reports, aiding, framework, link, radio, events>>

MsgTask ==
    \/ StartFix \/ StopFix \/ PositionMode
    \/ ReportPosition \/ ReportStatus \/ DelAidData \/ MuteOneSession
    \/ EngineDown \/ Ssr \/ EngineUp

-----------------------------------------------------------------------------
(***************************************************************************)
(* The framework's calls.                                                  *)
(***************************************************************************)
\* loc_set_position_mode
FwPositionMode(recurrence) ==
    /\ open /\ asked = "stopped"
    /\ asked' = "mode"
    /\ BoundedPost([type |-> "PositionMode", recurrence |-> recurrence])
    /\ UNCHANGED <<engine, reports, aiding, open, link, modem, radio, seen, events>>

\* loc_start
FwStart ==
    /\ open /\ asked = "mode"
    /\ asked' = "started"
    /\ BoundedPost([type |-> "StartFix"])
    /\ UNCHANGED <<engine, reports, aiding, open, link, modem, radio, seen, events>>

\* loc_stop
FwStop ==
    /\ open /\ asked = "started"
    /\ asked' = "stopped"
    /\ BoundedPost([type |-> "StopFix"])
    /\ UNCHANGED <<engine, reports, aiding, open, link, modem, radio, seen, events>>

\* loc_delete_aiding_data
FwDeleteAidingData(mask) ==
    /\ open /\ Event
    /\ BoundedPost([type |-> "DelAidData", mask |-> mask])
    /\ UNCHANGED <<engine, reports, aiding, framework, link, modem, radio, seen>>

\* loc_cleanup, loc_eng_cleanup: the session flag is read in the caller's
\* thread; nothing but a session is closed.
FwCleanup ==
    /\ open /\ Event
    /\ open' = FALSE /\ asked' = "stopped"
    /\ IF inSession THEN BoundedPost([type |-> "StopFix"]) ELSE msgq' = msgq
    /\ Note(If(Waiting("StartFix"), "late"))
    /\ UNCHANGED <<engine, reports, aiding, link, modem, radio>>

\* loc_init again: the instance is there, nothing is initialized.
FwInit ==
    /\ ~open
    /\ open' = TRUE
    /\ UNCHANGED <<msgq, engine, reports, aiding, asked, link, modem, radio, seen, events>>

Framework ==
    \/ \E r \in Recurrences : FwPositionMode(r)
    \/ FwStart \/ FwStop \/ FwCleanup \/ FwInit
    \/ \E mask \in (SUBSET AidingTypes) \ {{}} : FwDeleteAidingData(mask)

-----------------------------------------------------------------------------
(***************************************************************************)
(* The modem.                                                              *)
(***************************************************************************)
PostStatus(status, session) ==
    BoundedPost([type |-> "Status", status |-> status, session |-> session])

\* The engine also runs for other clients.
ModemEngineOn ==
    /\ handle /\ ~engineOn
    /\ engineOn' = TRUE
    /\ PostStatus("ENGINE_ON", NoSession)
    /\ UNCHANGED <<engine, reports, aiding, framework, link, modem, begun, seen, events>>

ModemSessionBegin ==
    /\ engineOn /\ run # NoRun /\ ~begun
    /\ begun' = TRUE
    /\ PostStatus("SESSION_BEGIN", run.id)
    /\ UNCHANGED <<engine, reports, aiding, framework, link, modem, engineOn, seen, events>>

\* A fix; the final one of a single shot is the end of it.
ModemPosition(status) ==
    /\ begun /\ run # NoRun /\ ~Waiting("Position")
    /\ BoundedPost([type |-> "Position", status |-> status, session |-> run.id])
    /\ run' = IF status = "SUCCESS" /\ run.criteria.recurrence = "SINGLE" THEN NoRun ELSE run
    /\ UNCHANGED <<engine, reports, aiding, framework, link, handle, sessions, radio, seen, events>>

ModemSessionEnd ==
    /\ begun /\ run = NoRun
    /\ begun' = FALSE
    /\ PostStatus("SESSION_END", NoSession)
    /\ UNCHANGED <<engine, reports, aiding, framework, link, modem, engineOn, seen, events>>

ModemEngineOff ==
    /\ engineOn /\ ~begun /\ run = NoRun
    /\ engineOn' = FALSE
    /\ PostStatus("ENGINE_OFF", NoSession)
    /\ UNCHANGED <<engine, reports, aiding, framework, link, modem, begun, seen, events>>

\* A network-initiated request that mutes the session.
ModemNi ==
    /\ handle /\ Event
    /\ BoundedPost([type |-> "Ni"])
    /\ UNCHANGED <<engine, reports, aiding, framework, link, modem, radio, seen>>

ModemCrash ==
    /\ link = "up" /\ handle /\ Event
    /\ link' = "crashed" /\ handle' = FALSE
    /\ run' = NoRun /\ engineOn' = FALSE /\ begun' = FALSE
    /\ UNCHANGED <<msgq, engine, reports, aiding, framework, sessions, seen>>

\* LocApiBase::handleEngineDownEvent
LocApiDown ==
    /\ link = "crashed"
    /\ link' = "down"
    /\ Post([type |-> "EngineDown"])
    /\ UNCHANGED <<engine, reports, aiding, framework, modem, radio, seen, events>>

\* LocApiBase::handleEngineUpEvent: first the handle,
LocApiSsr ==
    /\ link = "down"
    /\ link' = "back"
    /\ Post([type |-> "Ssr"])
    /\ UNCHANGED <<engine, reports, aiding, framework, modem, radio, seen, events>>

\* then the adapters.
LocApiUp ==
    /\ link = "back"
    /\ link' = "up"
    /\ Post([type |-> "EngineUp"])
    /\ UNCHANGED <<engine, reports, aiding, framework, modem, radio, seen, events>>

Modem ==
    \/ ModemEngineOn \/ ModemSessionBegin \/ ModemSessionEnd \/ ModemEngineOff
    \/ \E status \in {"SUCCESS", "INTERMEDIATE"} : ModemPosition(status)
    \/ ModemNi \/ ModemCrash
LocApi == LocApiDown \/ LocApiSsr \/ LocApiUp

Next == MsgTask \/ Framework \/ Modem \/ LocApi

Spec == Init /\ [][Next]_vars

-----------------------------------------------------------------------------
(***************************************************************************)
(* Properties.                                                             *)
(***************************************************************************)
\* The modem runs a session only while the engine counts itself in one, so
\* that a stop (loc_eng_stop_handler does nothing out of a session) always
\* reaches it.  A fix of an earlier session breaks this: it ends the new
\* single shot without stopFix.
StopIsObeyed ==
    run # NoRun => inSession \/ seen \cap {"superseded", "denied", "late"} # {}

\* A session is not lost: while the engine is in one the modem runs it, has
\* just finished it, or will be told to start it when it is back.
SessionIsKept ==
    inSession =>
        \/ run # NoRun
        \/ link # "up" \/ Waiting("EngineUp")
        \/ \E i \in 1 .. Len(msgq) : msgq[i].type = "Position" /\ msgq[i].status = "SUCCESS"
        \/ seen \cap {"refused", "unheard"} # {}

\* A framework that was told of a begin will be told that the engine is off,
\* although SESSION_END is hidden during a session and all is hidden in a
\* muted one: the engine runs, or the news that it does not are on their way.
EndIsTold ==
    told => \/ engineOn \/ StatusWaiting({"ENGINE_OFF"})
            \/ link = "crashed" \/ Waiting("EngineDown")

\* Once the engine was reported off nothing is left to be deleted, unless it
\* went off by a crash (loc_eng_handle_engine_down deletes nothing).
AidingIsDeleted ==
    aiding # {} => engine_status = "ENGINE_ON" \/ "crashed" \in seen

\* The step deletes aiding data: all that was pending, or on request.
Deletes ==
    /\ aiding' = {}
    /\ \/ aiding # {}
       \/ msgq # <<>> /\ Head(msgq).type = "DelAidData" /\ msgq' = Tail(msgq)

\* "aiding data can only be deleted when GPS engine is off" (loc_eng.h:116):
\* data is deleted under a running engine only if the news that it runs is
\* still waiting.
DeletedWhileOff == [][Deletes => ~engineOn \/ StatusWaiting({"ENGINE_ON"})]_vars

\* No position of a session that began muted is passed on, however statuses
\* and positions interleave; a second mute request in the session ends it.
MutedIsSilent == "leaked" \in seen => "remuted" \in seen

\* After loc_cleanup the engine leaves its session, even if the modem is away
\* when the stop is handled; a start still waiting at that time is missed.
CleanupStops ==
    ~open /\ inSession => Waiting("StopFix") \/ "late" \in seen

\* A session has the mode the framework has set, unless it was started by an
\* engine restart or a late fix of a single shot has come in between.
ModeIsGiven ==
    run # NoRun /\ run.criteria.mode = "INVALID" => seen \cap {"restarted", "wiped"} # {}

\* "This sets the copy in adapter to modem" (loc_eng.cpp:2986): a session that
\* is started again after a crash has its mode.
RestartKeepsMode ==
    run # NoRun /\ run.criteria.mode = "INVALID" => "wiped" \in seen
=============================================================================
