---------------------------- MODULE EngineSettings ----------------------------
(***************************************************************************)
(* What the framework sets and what reaches the modem: configuration       *)
(* updates, SUPL server, data availability, GPS lock, power vote,          *)
(* measurements and the capabilities reported back                         *)
(* (libloc_api_50001/loc_eng.cpp, loc.cpp, LocEngAdapter).                 *)
(*                                                                         *)
(* Two threads share gps_conf, agpsStatus and loc_eng_data without a lock: *)
(* the framework's, which changes them and posts messages, and the         *)
(* MsgTask, which reads them again whenever the modem comes (back) up.     *)
(* A message takes its value when it is made and its place in the queue    *)
(* when it is sent: the MsgTask's are made and sent in two steps.          *)
(* "late" names the settings whose newer message overtook an older one     *)
(* that way: a circumstance the properties leave out, as they do "mixed",  *)
(* capabilities used while a configuration update has replaced them.       *)
(***************************************************************************)
EXTENDS Naturals, Sequences

CONSTANTS Versions,     \* values of SUPL_VER (LPP_PROFILE and A_GLONASS go the same way)
          Locks,        \* values of GPS_LOCK
          Hosts,        \* SUPL servers
          Apns,         \* access points
          QCA1530,      \* the target: power votes, no MSA
          MaxOps,       \* calls of the framework after the first initialisations
          MaxRestarts   \* restarts of the modem

ASSUME SettingsAssumption ==
  /\ Versions \subseteq Nat /\ Versions # {} /\ Locks \subseteq Nat /\ Locks # {}
  /\ Hosts # {} /\ QCA1530 \in BOOLEAN /\ MaxOps \in Nat /\ MaxRestarts \in Nat

None == "none"
Keys == {"ver", "data", "apn", "server", "lock", "power", "meas"}

VARIABLES conf,     \* gps_conf: [ver, lock, caps]
          status,   \* agpsStatus
          host,     \* loc_eng_data.supl_host_buf, None while supl_host_set is 0
          apn,      \* the access point it gave last to an initialised engine (history)
          inited,   \* loc_eng_data.adapter is there
          agps,     \* loc_eng_data.agps_status_cb is there
          vote,     \* LocEngAdapter::mPowerVote, its value
          meas,     \* loc_eng_data.gnss_measurement_cb is there
          fw,       \* the framework's thread: [pc, v], v what it holds
          msgs,     \* the queue of the MsgTask
          todo,     \* what is left of the handler it runs
          held,     \* a message, or value, it has made and not yet sent
          modem,    \* "down", "up" and "open" (again)
          has,      \* what the modem has, of the settings it was given
          told,     \* what set_capabilities_cb was told: nothing, or one set
          late, mixed, outdated,  \* circumstances
          ops, restarts
fwVars == <<status, host, apn, inited, agps, vote, meas, fw>>
engVars == <<todo, held, told>>
bounds == <<ops, restarts>>
vars == <<conf, fwVars, msgs, engVars, modem, has, late, mixed, outdated, bounds>>

FileCaps == IF QCA1530 THEN {} ELSE {"MSA"}

\* What a client of the modem sets is kept only by one that is open.
Over(settings, old) ==
  [k \in DOMAIN settings \union DOMAIN old |-> IF k \in DOMAIN settings THEN settings[k] ELSE old[k]]
Give(settings) ==
  has' = IF modem = "open" THEN Over(settings, has) ELSE has

\* The framework posts, or sends, a new value of these settings: one the
\* MsgTask holds will be sent after it.
Newer(keys) == late' = (late \ keys) \union (IF held.k \in keys THEN {held.k} ELSE {})

Msg(k, v) == [k |-> k, v |-> v]
NoMsg == Msg(None, None)
Post(ms) == msgs' = msgs \o ms

Updating == fw.pc \in {"copied", "updated", "posted"}
Init ==
  /\ conf \in [ver : Versions, lock : Locks, caps : {FileCaps}]
  /\ status = FALSE /\ host = None /\ apn = None
  /\ inited = FALSE /\ agps = FALSE /\ vote = FALSE /\ meas = FALSE
  /\ fw = [pc |-> "idle", v |-> None]
  /\ msgs = <<>> /\ todo = <<>> /\ held = NoMsg /\ told = {}
  /\ modem = "up" /\ has = <<>>
  /\ late = {} /\ mixed = FALSE /\ outdated = FALSE
  /\ ops = 0 /\ restarts = 0

------------------------------------------------------------------------------
(* The framework's thread. *)
Call == fw.pc = "idle" /\ ops < MaxOps /\ ops' = ops + 1 /\ UNCHANGED restarts
\* The first initialisations happen once and are not counted.
FirstCall == fw.pc = "idle" /\ UNCHANGED bounds

\* LocEngAdapter::setPowerVote, in the caller's thread, and requestPowerVote.
VotePower(on) ==
  /\ vote' = on
  /\ IF QCA1530 THEN Give([power |-> on]) /\ Newer({"power", "lock"}) ELSE has' = has /\ Newer({"lock"})

\* loc_eng_init: everything in loc_eng_data is cleared; the new adapter makes
\* the LocApi open the modem and posts LocEngInit.
EngInit ==
  /\ inited' = TRUE
  /\ IF inited THEN UNCHANGED <<host, agps, meas>> ELSE host' = None /\ agps' = FALSE /\ meas' = FALSE

\* loc_init
FwInit ==
  /\ IF inited THEN Call ELSE FirstCall
  /\ EngInit
  /\ Post((IF inited THEN <<>> ELSE <<Msg("open", None), Msg("init", None)>>) \o <<Msg("lock", 0)>>)
  /\ VotePower(TRUE)
  /\ UNCHANGED <<conf, status, apn, fw, engVars, modem, mixed, outdated>>

\* loc_cleanup
FwCleanup ==
  /\ Call /\ inited
  /\ VotePower(FALSE)
  /\ Post(<<Msg("lock", conf.lock)>>)
  /\ UNCHANGED <<conf, status, host, apn, inited, agps, meas, fw, engVars, modem, mixed, outdated>>

\* loc_eng_agps_reinit: the server that was set before.
StoredServer == IF host = None THEN <<>> ELSE <<Msg("server", host)>>

\* loc_eng_agps_init
FwAgpsInit ==
  /\ FirstCall /\ inited /\ ~agps
  /\ agps' = TRUE
  /\ Post(StoredServer) /\ Newer(IF host = None THEN {} ELSE {"server"})
  /\ UNCHANGED <<conf, status, host, apn, inited, vote, meas, fw, engVars, modem, has, mixed, outdated>>

\* loc_eng_set_server_proxy copies the name: until it is done a reader in
\* another thread finds the old one, the new one or a mixture.
FwSetServer(h) ==
  /\ Call
  /\ fw' = [pc |-> "server", v |-> h]
  /\ UNCHANGED <<conf, status, host, apn, inited, agps, vote, meas, msgs, engVars, modem, has, late, mixed, outdated>>

\* ... then loc_eng_set_server posts it, if there is an adapter.
FwServerSet ==
  /\ fw.pc = "server"
  /\ fw' = [pc |-> "idle", v |-> None] /\ host' = fw.v
  /\ IF inited THEN Post(<<Msg("server", fw.v)>>) /\ Newer({"server"}) ELSE UNCHANGED <<msgs, late>>
  /\ UNCHANGED <<conf, status, apn, inited, agps, vote, meas, engVars, modem, has, mixed, outdated, bounds>>

\* loc_eng_agps_ril_update_network_availability: the status is kept, and
\* posted only with an access point.
FwAvailability(on, a) ==
  /\ Call
  /\ status' = on
  /\ IF inited /\ a # None
     THEN apn' = a /\ Post(<<Msg("data", [on |-> on, apn |-> a])>>) /\ Newer({"data"})
     ELSE late' = late \union (IF inited /\ on # status THEN {"data"} ELSE {}) /\ UNCHANGED <<apn, msgs>>
  /\ UNCHANGED <<conf, host, inited, agps, vote, meas, fw, engVars, modem, has, mixed, outdated>>

\* loc_eng_gps_measurement_init and _close
FwMeasurements(on) ==
  /\ Call /\ inited /\ meas # on
  /\ meas' = on /\ Post(<<Msg("meas", on)>>)
  /\ UNCHANGED <<conf, status, host, apn, inited, agps, vote, fw, engVars, modem, has, late, mixed, outdated>>

------------------------------------------------------------------------------
(* loc_configuration_update: a copy of gps_conf is put aside, the new data  *)
(* is read into gps_conf, what changed is posted, and everything but the    *)
(* updatable fields is restored from the copy.                              *)
FwUpdate ==
  /\ Call
  /\ fw' = [pc |-> "copied", v |-> conf]
  \* a capability the MsgTask is about to add is missing from the copy
  /\ mixed' = (mixed \/ (held.k = "caps"))
  /\ UNCHANGED <<conf, status, host, apn, inited, agps, vote, meas, msgs, engVars, modem, has, late, outdated>>

\* UTIL_UPDATE_CONF(config_data, length, gps_conf_table): CAPABILITIES may be
\* among the data.
FwReadData(ver, lock, caps) ==
  /\ fw.pc = "copied"
  /\ conf' = [ver |-> ver, lock |-> lock, caps |-> caps] /\ fw' = [fw EXCEPT !.pc = "updated"]
  /\ UNCHANGED <<status, host, apn, inited, agps, vote, meas, msgs, engVars, modem, has, late, mixed, outdated, bounds>>

\* Faulty variant: an update that locks the modem under a running HAL.
FwPostLock ==
  /\ fw.pc = "updated"
  /\ fw' = [fw EXCEPT !.pc = "posted"]
  /\ IF inited
     THEN /\ Post((IF fw.v.ver # conf.ver THEN <<Msg("ver", conf.ver)>> ELSE <<>>) \o <<Msg("lock", conf.lock)>>)
          /\ Newer({"lock"} \union (IF fw.v.ver # conf.ver THEN {"ver"} ELSE {}))
     ELSE UNCHANGED <<msgs, late>>
  /\ UNCHANGED <<conf, status, host, apn, inited, agps, vote, meas, engVars, modem, has, mixed, outdated, bounds>>

\* the messages: a version that changed, and the lock always
FwPostChanges ==
  /\ fw.pc = "updated"
  /\ fw' = [fw EXCEPT !.pc = "posted"]
  /\ LET changed == fw.v.ver # conf.ver
         lock == IF vote THEN 0 ELSE conf.lock
     IN IF inited
        THEN /\ Post((IF changed THEN <<Msg("ver", conf.ver)>> ELSE <<>>) \o <<Msg("lock", lock)>>)
             /\ Newer({"lock"} \union (IF changed THEN {"ver"} ELSE {}))
        ELSE UNCHANGED <<msgs, late>>
  /\ UNCHANGED <<conf, status, host, apn, inited, agps, vote, meas, engVars, modem, has, mixed, outdated, bounds>>

\* Faulty variant: an update that keeps the capabilities it has read.
FwRestoreNothing ==
  /\ fw.pc = "posted"
  /\ fw' = IF QCA1530 THEN [pc |-> "mask", v |-> conf.caps] ELSE [pc |-> "idle", v |-> None]
  /\ UNCHANGED <<conf, status, host, apn, inited, agps, vote, meas, msgs, engVars, modem, has, late, mixed, outdated, bounds>>

\* gps_conf = gps_conf_tmp, and the targets without MSA start to mask it
FwRestore ==
  /\ fw.pc = "posted"
  /\ conf' = [conf EXCEPT !.caps = fw.v.caps]
  /\ fw' = IF QCA1530 THEN [pc |-> "mask", v |-> fw.v.caps] ELSE [pc |-> "idle", v |-> None]
  /\ mixed' = (mixed \/ (held.k = "caps"))
  /\ UNCHANGED <<status, host, apn, inited, agps, vote, meas, msgs, engVars, modem, has, late, outdated, bounds>>

\* gps_conf.CAPABILITIES &= ~(MSA | MSB): read in the step before
FwMask ==
  /\ fw.pc = "mask"
  /\ conf' = [conf EXCEPT !.caps = fw.v \ {"MSA"}]
  /\ fw' = [pc |-> "idle", v |-> None]
  /\ mixed' = (mixed \/ (held.k = "caps"))
  /\ UNCHANGED <<status, host, apn, inited, agps, vote, meas, msgs, engVars, modem, has, late, outdated, bounds>>

Framework ==
  \/ FwInit \/ FwCleanup \/ FwAgpsInit \/ FwServerSet
  \/ \E h \in Hosts : FwSetServer(h)
  \/ \E on \in BOOLEAN, a \in Apns \union {None} : FwAvailability(on, a)
  \/ \E on \in BOOLEAN : FwMeasurements(on)
  \/ FwUpdate \/ FwPostChanges \/ FwRestore \/ FwMask
  \/ \E ver \in Versions, lock \in Locks, caps \in {conf.caps, {"MSA"}} : FwReadData(ver, lock, caps)

------------------------------------------------------------------------------
(* The MsgTask. *)
Idle == todo = <<>> /\ held.k = None

\* Faulty variant: an init that does not send the stored settings.
ReinitNothing == <<"ask">>

\* loc_eng_reinit, as far as it reads what the framework changes
Reinit == <<"ask", "ver", "data">>
\* LocEngInit::proc
InitSteps == Reinit \o <<"lock", "report">>
\* loc_eng_handle_engine_up
UpSteps == Reinit \o <<"power", "server">>

\* The next message of the queue that starts a longer handler.
HandleLong ==
  /\ Idle /\ msgs # <<>> /\ Head(msgs).k \in {"init", "up"}
  /\ todo' = IF Head(msgs).k = "init" THEN InitSteps ELSE UpSteps
  /\ msgs' = Tail(msgs)
  /\ UNCHANGED <<conf, fwVars, held, told, modem, has, late, mixed, outdated, bounds>>

\* The setters: LocEngSuplVer, LocEngSetServerUrl, LocEngAdapterGpsLock,
\* LocEngEnableData, LocEngUpdateRegistrationMask.
Settings(m) ==
  IF m.k # "data" THEN [k \in {m.k} |-> m.v]
  ELSE IF m.v.apn = None THEN [data |-> m.v.on] ELSE [data |-> m.v.on, apn |-> m.v.apn]
HandleSetting ==
  /\ Idle /\ msgs # <<>> /\ Head(msgs).k \in Keys
  /\ Give(Settings(Head(msgs)))
  /\ msgs' = Tail(msgs)
  /\ UNCHANGED <<conf, fwVars, engVars, modem, late, mixed, outdated, bounds>>

\* LocOpenMsg and LocSsrMsg: the client opens with the events of its adapters,
\* measurements among them.
HandleOpen ==
  /\ Idle /\ msgs # <<>> /\ Head(msgs).k = "open"
  /\ msgs' = Tail(msgs)
  /\ IF modem = "down" THEN UNCHANGED <<modem, has>>
     ELSE modem' = "open" /\ has' = Over([meas |-> TRUE], has)
  /\ UNCHANGED <<conf, fwVars, engVars, late, mixed, outdated, bounds>>

\* LocEngGnssConstellationConfig: a modem that answers supports measurements;
\* gps_conf.CAPABILITIES is read here and written in AddCapability.
HandleAsk ==
  /\ Idle /\ msgs # <<>> /\ Head(msgs).k = "ask"
  /\ msgs' = Tail(msgs)
  /\ IF modem = "open" THEN held' = Msg("caps", conf.caps) /\ mixed' = (mixed \/ Updating \/ fw.pc = "mask")
     ELSE UNCHANGED <<held, mixed>>
  /\ UNCHANGED <<conf, fwVars, todo, told, modem, has, late, outdated, bounds>>

AddCapability ==
  /\ held.k = "caps"
  /\ conf' = [conf EXCEPT !.caps = held.v \union {"MEAS"}]
  /\ held' = NoMsg
  /\ mixed' = (mixed \/ Updating \/ fw.pc = "mask")
  /\ outdated' = (outdated \/ (\E c \in told : "MEAS" \notin c))
  /\ UNCHANGED <<fwVars, msgs, todo, told, modem, has, late, bounds>>

\* LocEngSetCapabilities
HandleReport ==
  /\ Idle /\ msgs # <<>> /\ Head(msgs).k = "report"
  /\ msgs' = Tail(msgs)
  /\ told' = {conf.caps} /\ mixed' = (mixed \/ Updating \/ fw.pc = "mask")
  /\ UNCHANGED <<conf, fwVars, todo, held, modem, has, late, outdated, bounds>>

\* A step of a longer handler that reads nothing the framework changes.
StepPlain ==
  /\ held.k = None /\ todo # <<>> /\ Head(todo) \in {"ask", "report", "lock"}
  /\ todo' = Tail(todo)
  /\ IF Head(todo) = "lock" THEN Give([lock |-> 1]) /\ UNCHANGED msgs
     ELSE Post(<<Msg(Head(todo), None)>>) /\ UNCHANGED has
  /\ UNCHANGED <<conf, fwVars, held, told, modem, late, mixed, outdated, bounds>>

\* The values a message is made with: gps_conf.SUPL_VER, agpsStatus (with no
\* access point), getPowerVote, supl_host_buf.
Made(k) ==
  CASE k = "ver" -> {Msg(k, conf.ver)}
    [] k = "data" -> {Msg(k, [on |-> status, apn |-> None])}
    [] k = "power" -> IF QCA1530 THEN {Msg(k, vote)} ELSE {NoMsg}
    [] k = "server" -> IF ~agps THEN {NoMsg}
                       ELSE IF fw.pc = "server" THEN {Msg(k, host), Msg(k, fw.v), Msg(k, "torn")} \ {Msg(k, None)}
                       ELSE IF host = None THEN {NoMsg} ELSE {Msg(k, host)}
StepMake ==
  /\ held.k = None /\ todo # <<>> /\ Head(todo) \in {"ver", "data", "power", "server"}
  /\ todo' = Tail(todo)
  /\ held' \in Made(Head(todo))
  /\ late' = IF held'.k = None THEN late ELSE late \ {Head(todo)}
  /\ UNCHANGED <<conf, fwVars, msgs, told, modem, has, mixed, outdated, bounds>>

\* adapter->sendMsg, and setGpsLock with the vote
StepSend ==
  /\ held.k \notin {None, "caps"}
  /\ IF held.k = "power" THEN Give([power |-> held.v]) /\ UNCHANGED msgs
     ELSE Post(<<held>>) /\ UNCHANGED has
  /\ held' = NoMsg
  /\ UNCHANGED <<conf, fwVars, todo, told, modem, late, mixed, outdated, bounds>>

MsgTask == HandleLong \/ HandleSetting \/ HandleOpen \/ HandleAsk \/ AddCapability \/ HandleReport
             \/ StepPlain \/ StepMake \/ StepSend

------------------------------------------------------------------------------
(* The modem restarts and forgets what it was told; when it is back the     *)
(* LocApi opens it again and its adapters learn of it, in this order.       *)
ModemCrash ==
  /\ modem # "down" /\ restarts < MaxRestarts
  /\ modem' = "down" /\ has' = <<>>
  /\ restarts' = restarts + 1
  /\ UNCHANGED <<conf, fwVars, msgs, engVars, late, mixed, outdated, ops>>

ModemUp ==
  /\ modem = "down"
  /\ modem' = "up"
  /\ Post(IF inited THEN <<Msg("open", None), Msg("up", None)>> ELSE <<>>)
  /\ UNCHANGED <<conf, fwVars, engVars, has, late, mixed, outdated, bounds>>

Next == Framework \/ MsgTask \/ ModemCrash \/ ModemUp
Spec == Init /\ [][Next]_vars
------------------------------------------------------------------------------
Has(k, v) == k \in DOMAIN has /\ has[k] = v
AtRest == inited /\ modem = "open" /\ msgs = <<>> /\ Idle /\ fw.pc = "idle"

(* What the framework set last is what the modem has once both threads are  *)
(* at rest, after any number of restarts: version, data availability,       *)
(* server and power vote (loc_eng_reinit, loc_eng_agps_reinit,              *)
(* requestPowerVote), but for a message that overtook a newer one and a     *)
(* status that came with no access point.                                   *)
SettingsArrive ==
  AtRest =>
    /\ "ver" \notin late => Has("ver", conf.ver)
    /\ "data" \notin late => Has("data", status)
    /\ "server" \notin late /\ host # None /\ agps => Has("server", host)
    /\ "power" \in DOMAIN has \ late => Has("power", vote)
    /\ meas => Has("meas", TRUE)

(* What is not sent again after a restart is at least never stale: the lock *)
(* the modem has is 0 while the HAL has voted and GPS_LOCK after its        *)
(* clean-up, and its access point the last given one; before any restart    *)
(* it has them.                                                             *)
NothingStale ==
  AtRest =>
    /\ "lock" \in DOMAIN has \/ restarts = 0 => Has("lock", IF vote THEN 0 ELSE conf.lock)
    /\ "apn" \in DOMAIN has \/ (restarts = 0 /\ apn # None) => Has("apn", apn)

(* The capabilities the framework was told are those of gps_conf: the file's*)
(* without what the target lacks, with measurements if the modem answered   *)
(* before they were told; an update never changes them.                     *)
CapabilitiesTold ==
  ~mixed /\ ~outdated /\ ~Updating =>
    \A c \in told : c = conf.caps /\ c \in {FileCaps, FileCaps \union {"MEAS"}}

===============================================================================
