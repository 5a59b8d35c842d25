---------------------------- MODULE SettingsProofs ----------------------------
(***************************************************************************)
(* Proofs about EngineSettings. What a setting needs to arrive is stated    *)
(* once, for any setting s and any values T it may have in the end; the    *)
(* lemmas say what each way of taking from the queue, posting to it and    *)
(* changing what the modem has does to that, and the inductive invariant   *)
(* uses it for each setting with the value of that setting.                *)
(***************************************************************************)
EXTENDS EngineSettings, SequenceTheorems, TLAPS

-----------------------------------------------------------------------------
(* Types. *)
Capabilities == SUBSET {"MSA", "MEAS"}
Configurations == [ver : Versions, lock : Locks, caps : Capabilities]
Availability == [on : BOOLEAN, apn : Apns \union {None}]
Messages ==
  [k : {"open", "init", "up", "ask", "report"}, v : {None}]
    \union [k : {"ver"}, v : Versions] \union [k : {"lock"}, v : Locks \union {0}]
    \union [k : {"data"}, v : Availability] \union [k : {"server"}, v : Hosts \union {"torn"}]
    \union [k : {"meas"}, v : BOOLEAN]
Steps == {"ask", "ver", "data", "lock", "report", "power", "server"}

FwType ==
  /\ fw = [pc |-> fw.pc, v |-> fw.v]
  /\ fw.pc \in {"idle", "server", "copied", "updated", "posted", "mask"}
  /\ fw.pc = "server" => fw.v \in Hosts
  /\ Updating => fw.v \in Configurations
  /\ fw.pc = "mask" => fw.v \in Capabilities
HeldType ==
  \/ held = NoMsg
  \/ held.k \in {"ver", "data", "server"} /\ held \in Messages
  \/ held \in [k : {"power"}, v : BOOLEAN]
  \/ held \in [k : {"caps"}, v : Capabilities]
TypeInv ==
  /\ conf \in Configurations
  /\ status \in BOOLEAN /\ host \in Hosts \union {None} /\ apn \in Apns \union {None}
  /\ inited \in BOOLEAN /\ agps \in BOOLEAN /\ vote \in BOOLEAN /\ meas \in BOOLEAN
  /\ FwType /\ HeldType
  /\ msgs \in Seq(Messages) /\ todo \in Seq(Steps)
  /\ modem \in {"down", "up", "open"} /\ DOMAIN has \subseteq Keys
  /\ told \subseteq Capabilities /\ late \subseteq Keys
  /\ mixed \in BOOLEAN /\ outdated \in BOOLEAN
  /\ ops \in Nat /\ restarts \in Nat

-----------------------------------------------------------------------------
(* What a message is for: its kind, an access point besides the            *)
(* availability, and reading the settings again.                           *)
For(m, s) ==
  CASE s = "apn" -> m.k = "data" /\ m.v.apn # None
    [] s = "reads" -> m.k \in {"init", "up"}
    [] OTHER -> m.k = s
Value(m, s) == CASE s = "apn" -> m.v.apn [] s = "data" -> m.v.on [] OTHER -> m.v

\* A message for s is in q; one that an open modem will have when it is handled.
Waits(q, s) == \E i \in DOMAIN q : For(q[i], s)
WaitsOpen(q, m, s) ==
  \E i \in DOMAIN q : For(q[i], s) /\ (m = "open" \/ \E j \in DOMAIN q : j < i /\ q[j].k = "open")

\* What the modem will have in the end, if anything, is in T.
LastIn(q, s, T) ==
  \A i \in DOMAIN q : For(q[i], s) /\ (\A j \in DOMAIN q : j > i => ~For(q[j], s)) => Value(q[i], s) \in T
NotStale(q, h, s, T) ==
  /\ LastIn(q, s, T)
  /\ ~Waits(q, s) /\ s \in DOMAIN h => h[s] \in T

\* The modem will have something in the end.
Reaches(q, m, h, s) == WaitsOpen(q, m, s) \/ (m = "open" /\ s \in DOMAIN h)

\* What is left to do has s.
StillTo(t, s) == \E i \in DOMAIN t : t[i] = s

\* The modem will have a value in T, or the setting will be read again: by a
\* handler of a message for r, or because the modem is down and r is posted
\* when it is back.
Arrives(q, m, t, x, h, s, r, T) ==
  \/ m = "down" \/ WaitsOpen(q, m, r) \/ StillTo(t, s)
  \/ IF x.k = s THEN Value(x, s) \in T ELSE NotStale(q, h, s, T) /\ Reaches(q, m, h, s)

-----------------------------------------------------------------------------
(* The inductive invariant. *)
BaseInv ==
  /\ ~inited => msgs = <<>> /\ todo = <<>> /\ held = NoMsg /\ apn = None /\ modem # "open"
  /\ inited /\ modem = "up" => Waits(msgs, "open")
  /\ modem # "open" => DOMAIN has = {}
  /\ restarts = 0 => modem # "down"
  /\ held.k = "data" => held.v.apn = None

\* The version that arrives: between reading an update and posting what changed,
\* also the one put aside.
Vers == {conf.ver} \union (IF fw.pc = "updated" THEN {fw.v.ver} ELSE {})
VerInv ==
  /\ fw.pc = "copied" => fw.v.ver = conf.ver
  /\ inited /\ "ver" \notin late => Arrives(msgs, modem, todo, held, has, "ver", "reads", Vers)
DataInv ==
  inited /\ "data" \notin late => Arrives(msgs, modem, todo, held, has, "data", "reads", {status})
\* While a name is copied (fw.pc = "server") nothing is said of the server.
ServerInv ==
  inited /\ agps /\ host # None /\ fw.pc # "server" /\ "server" \notin late =>
    Arrives(msgs, modem, todo, held, has, "server", "up", {host})
\* The vote the MsgTask holds is the current one, or overtakes it.
PowerInv ==
  /\ held.k = "power" => held.v = vote \/ "power" \in late
  /\ "power" \in DOMAIN has \ late => has["power"] = vote \/ held.k = "power"
  /\ ~QCA1530 => "power" \notin DOMAIN has /\ held.k # "power"
\* A client that opens has measurements on, whether or not they were asked for.
MeasInv ==
  /\ NotStale(msgs, has, "meas", IF meas THEN {TRUE} ELSE BOOLEAN)
  /\ modem = "open" => "meas" \in DOMAIN has

\* The engine's first initialisation locks the modem on its way, and the
\* message that unlocks it is behind.
Followed(q) ==
  \A i \in DOMAIN q : q[i].k = "init" => \E j \in DOMAIN q : j > i /\ q[j].k = "lock"
LockFollows == Followed(msgs) /\ (StillTo(todo, "lock") => Waits(msgs, "lock"))
LockInv ==
  /\ LockFollows
  /\ fw.pc # "updated" => NotStale(msgs, has, "lock", {IF vote THEN 0 ELSE conf.lock})
  /\ inited /\ restarts = 0 => Reaches(msgs, modem, has, "lock")
ApnInv ==
  /\ NotStale(msgs, has, "apn", {apn})
  /\ inited /\ restarts = 0 /\ apn # None => Reaches(msgs, modem, has, "apn")

\* The capabilities in force: during an update, those put aside.
InForce == IF Updating THEN fw.v.caps ELSE conf.caps
CapsInv ==
  ~mixed /\ ~outdated =>
    /\ InForce \in {FileCaps, FileCaps \union {"MEAS"}}
    /\ \A c \in told : c = InForce
    /\ fw.pc = "mask" => QCA1530 /\ fw.v = conf.caps
    /\ held.k = "caps" => ~Updating /\ fw.pc # "mask" /\ held.v = conf.caps

\* Together with TypeInv this is inductive; CapsInv is with TypeInv alone.
Arriving ==
  BaseInv /\ VerInv /\ DataInv /\ ServerInv /\ PowerInv /\ MeasInv /\ LockInv /\ ApnInv

-----------------------------------------------------------------------------
(* Sequences. *)
LEMMA Singles ==
  ASSUME NEW S
  PROVE  /\ <<>> \in Seq(S)
         /\ \A a \in S : <<a>> \in Seq(S) /\ DOMAIN <<a>> = {1} /\ <<a>>[1] = a
         /\ \A a, b \in S : <<a, b>> \in Seq(S) /\ DOMAIN <<a, b>> = {1, 2}
                            /\ <<a, b>>[1] = a /\ <<a, b>>[2] = b
<1>1. <<>> \in Seq(S)
  BY EmptySeq
<1>2. ASSUME NEW a \in S PROVE <<a>> \in Seq(S) /\ DOMAIN <<a>> = {1} /\ <<a>>[1] = a
  OBVIOUS
<1>3. ASSUME NEW a \in S, NEW b \in S
      PROVE  <<a, b>> \in Seq(S) /\ DOMAIN <<a, b>> = {1, 2} /\ <<a, b>>[1] = a /\ <<a, b>>[2] = b
  OBVIOUS
<1> QED BY <1>1, <1>2, <1>3

LEMMA Joined ==
  ASSUME NEW S, NEW p \in Seq(S), NEW q \in Seq(S)
  PROVE  /\ p \o q \in Seq(S)
         /\ \A i \in DOMAIN p : i \in DOMAIN (p \o q) /\ (p \o q)[i] = p[i]
         /\ \A j \in DOMAIN q : Len(p) + j \in DOMAIN (p \o q) /\ (p \o q)[Len(p) + j] = q[j]
         /\ \A i \in DOMAIN (p \o q) : i \in DOMAIN p \/ (i - Len(p) \in DOMAIN q /\ i = Len(p) + (i - Len(p)))
         /\ \A i \in DOMAIN p : i \in Nat /\ i <= Len(p)
         /\ \A j \in DOMAIN q : j \in Nat /\ j >= 1
         /\ Len(p) \in Nat
  OBVIOUS

LEMMA Taken ==
  ASSUME NEW S, NEW q \in Seq(S), q # <<>>
  PROVE  /\ Head(q) = q[1] /\ Head(q) \in S /\ 1 \in DOMAIN q
         /\ Tail(q) \in Seq(S)
         /\ \A i \in DOMAIN Tail(q) :
              i \in Nat /\ i >= 1 /\ i + 1 \in DOMAIN q /\ Tail(q)[i] = q[i + 1]
         /\ \A i \in DOMAIN q :
              i \in Nat /\ i >= 1 /\ (i # 1 => i - 1 \in DOMAIN Tail(q) /\ Tail(q)[i - 1] = q[i])
BY HeadTailProperties, LenProperties, ElementOfSeq

-----------------------------------------------------------------------------
(* Type correctness. *)
LEMMA OverIs ==
  ASSUME NEW new, NEW old
  PROVE  /\ DOMAIN Over(new, old) = DOMAIN new \union DOMAIN old
         /\ \A k \in DOMAIN new : Over(new, old)[k] = new[k]
         /\ \A k \in DOMAIN old \ DOMAIN new : Over(new, old)[k] = old[k]
  BY DEF Over

\* A setter's message sets what it is for.
LEMMA SettingsAre ==
  ASSUME NEW m \in Messages, m.k \in Keys
  PROVE  /\ DOMAIN Settings(m) \subseteq Keys
         /\ \A s \in Keys : s \in DOMAIN Settings(m) <=> For(m, s)
         /\ \A s \in DOMAIN Settings(m) : Settings(m)[s] = Value(m, s)
<1>1. CASE m.k # "data"
  <2>1. Settings(m) = [k \in {m.k} |-> m.v]
    BY <1>1 DEF Settings
  <2>2. \A s \in Keys : For(m, s) <=> m.k = s
    BY <1>1 DEF For, Messages, Keys
  <2>3. m.k # "apn"
    BY DEF Messages
  <2> QED BY <2>1, <2>2, <2>3, <1>1 DEF Value
<1>2. CASE m.k = "data" /\ m.v.apn = None
  <2>1. Settings(m) = [data |-> m.v.on]
    BY <1>2 DEF Settings
  <2>2. DOMAIN Settings(m) = {"data"} /\ Settings(m)["data"] = m.v.on
    BY <2>1
  <2> QED BY <2>2, <1>2 DEF For, Value, Keys
<1>3. CASE m.k = "data" /\ m.v.apn # None
  <2>1. Settings(m) = [data |-> m.v.on, apn |-> m.v.apn]
    BY <1>3 DEF Settings
  <2>2. /\ DOMAIN Settings(m) = {"data", "apn"}
        /\ Settings(m)["data"] = m.v.on /\ Settings(m)["apn"] = m.v.apn
    BY <2>1
  <2> QED BY <2>2, <1>3 DEF For, Value, Keys
<1> QED BY <1>1, <1>2, <1>3

LEMMA MessagesAre ==
  /\ \A k \in {"open", "init", "up", "ask", "report"} : Msg(k, None) \in Messages
  /\ \A v \in Versions : Msg("ver", v) \in Messages
  /\ \A v \in Locks \union {0} : Msg("lock", v) \in Messages
  /\ \A on \in BOOLEAN, a \in Apns \union {None} : Msg("data", [on |-> on, apn |-> a]) \in Messages
  /\ \A h \in Hosts \union {"torn"} : Msg("server", h) \in Messages
  /\ \A on \in BOOLEAN : Msg("meas", on) \in Messages
  BY DEF Msg, Messages, Availability

\* What each action posts.
LEMMA PostType ==
  ASSUME msgs \in Seq(Messages), NEW ms \in Seq(Messages), Post(ms)
  PROVE  msgs' \in Seq(Messages)
  BY Joined DEF Post

LEMMA FwInitType == TypeInv /\ FwInit => TypeInv'
<1> SUFFICES ASSUME TypeInv, FwInit PROVE TypeInv'
  OBVIOUS
<1>1. msgs' \in Seq(Messages)
  <2>1. /\ <<Msg("lock", 0)>> \in Seq(Messages) /\ <<>> \in Seq(Messages)
        /\ <<Msg("open", None), Msg("init", None)>> \in Seq(Messages)
    BY MessagesAre, Singles
  <2>2. (IF inited THEN <<>> ELSE <<Msg("open", None), Msg("init", None)>>) \o <<Msg("lock", 0)>> \in Seq(Messages)
    BY <2>1, Joined
  <2> QED BY <2>2, PostType DEF FwInit, TypeInv
<1>2. DOMAIN has' \subseteq Keys
  BY OverIs DEF TypeInv, FwInit, VotePower, Give, Keys
<1>3. late' \subseteq Keys
  BY DEF TypeInv, FwInit, VotePower, Newer, Keys
<1>4. ops' \in Nat /\ restarts' \in Nat
  BY DEF TypeInv, FwInit, Call, FirstCall, bounds
<1>5. FwType' /\ HeldType'
  BY DEF TypeInv, FwType, HeldType, Updating, FwInit, engVars
<1>6. /\ inited' \in BOOLEAN /\ agps' \in BOOLEAN /\ vote' \in BOOLEAN /\ meas' \in BOOLEAN
      /\ host' \in Hosts \union {None}
  BY DEF TypeInv, FwInit, EngInit, VotePower
<1> QED
  BY <1>1, <1>2, <1>3, <1>4, <1>5, <1>6 DEF TypeInv, FwInit, engVars

LEMMA FwCleanupType == TypeInv /\ FwCleanup => TypeInv'
<1> SUFFICES ASSUME TypeInv, FwCleanup PROVE TypeInv'
  OBVIOUS
<1>1. msgs' \in Seq(Messages)
  BY MessagesAre, Singles, PostType DEF TypeInv, FwCleanup, Configurations
<1>2. DOMAIN has' \subseteq Keys
  BY OverIs DEF TypeInv, FwCleanup, VotePower, Give, Keys
<1>3. late' \subseteq Keys
  BY DEF TypeInv, FwCleanup, VotePower, Newer, Keys
<1>4. ops' \in Nat /\ restarts' \in Nat
  BY DEF TypeInv, FwCleanup, Call
<1>6. vote' \in BOOLEAN
  BY DEF FwCleanup, VotePower
<1>5. FwType' /\ HeldType'
  BY DEF TypeInv, FwType, HeldType, Updating, FwCleanup, engVars
<1> QED
  BY <1>1, <1>2, <1>3, <1>4, <1>5, <1>6 DEF TypeInv, FwCleanup, engVars

LEMMA FwAgpsInitType == TypeInv /\ FwAgpsInit => TypeInv'
<1> SUFFICES ASSUME TypeInv, FwAgpsInit PROVE TypeInv'
  OBVIOUS
<1>1. msgs' \in Seq(Messages)
  <2>1. CASE host = None
    BY <2>1, Singles, PostType DEF TypeInv, FwAgpsInit, StoredServer
  <2>2. CASE host # None
    BY <2>2, MessagesAre, Singles, PostType DEF TypeInv, FwAgpsInit, StoredServer
  <2> QED BY <2>1, <2>2
<1>3. late' \subseteq Keys
  BY DEF TypeInv, FwAgpsInit, Newer, Keys
<1>5. FwType' /\ HeldType'
  BY DEF TypeInv, FwType, HeldType, Updating, FwAgpsInit, engVars
<1> QED
  BY <1>1, <1>3, <1>5 DEF TypeInv, FwAgpsInit, FirstCall, bounds, engVars

LEMMA FwSetServerType ==
  ASSUME TypeInv, NEW h \in Hosts, FwSetServer(h)
  PROVE  TypeInv'
<1>5. FwType' /\ HeldType'
  BY DEF TypeInv, FwType, HeldType, Updating, FwSetServer, engVars
<1> QED
  BY <1>5 DEF TypeInv, FwSetServer, Call, engVars

LEMMA FwServerSetType == TypeInv /\ FwServerSet => TypeInv'
<1> SUFFICES ASSUME TypeInv, FwServerSet PROVE TypeInv'
  OBVIOUS
<1>1. msgs' \in Seq(Messages)
  BY MessagesAre, Singles, PostType DEF TypeInv, FwServerSet, FwType
<1>3. late' \subseteq Keys
  BY DEF TypeInv, FwServerSet, Newer, Keys
<1>4. host' \in Hosts
  BY DEF TypeInv, FwServerSet, FwType
<1>5. FwType' /\ HeldType'
  BY DEF TypeInv, FwType, HeldType, Updating, FwServerSet, engVars
<1> QED
  BY <1>1, <1>3, <1>4, <1>5 DEF TypeInv, FwServerSet, bounds, engVars

LEMMA FwAvailabilityType ==
  ASSUME TypeInv, NEW on \in BOOLEAN, NEW a \in Apns \union {None}, FwAvailability(on, a)
  PROVE  TypeInv'
<1>1. msgs' \in Seq(Messages)
  BY MessagesAre, Singles, PostType DEF TypeInv, FwAvailability
<1>3. late' \subseteq Keys
  BY DEF TypeInv, FwAvailability, Newer, Keys
<1>5. FwType' /\ HeldType'
  BY DEF TypeInv, FwType, HeldType, Updating, FwAvailability, engVars
<1> QED
  BY <1>1, <1>3, <1>5 DEF TypeInv, FwAvailability, Call, engVars

LEMMA FwMeasurementsType ==
  ASSUME TypeInv, NEW on \in BOOLEAN, FwMeasurements(on)
  PROVE  TypeInv'
<1>1. msgs' \in Seq(Messages)
  BY MessagesAre, Singles, PostType DEF TypeInv, FwMeasurements
<1>5. FwType' /\ HeldType'
  BY DEF TypeInv, FwType, HeldType, Updating, FwMeasurements, engVars
<1> QED
  BY <1>1, <1>5 DEF TypeInv, FwMeasurements, Call, engVars

LEMMA FwUpdateType == TypeInv /\ FwUpdate => TypeInv'
<1> SUFFICES ASSUME TypeInv, FwUpdate PROVE TypeInv'
  OBVIOUS
<1>5. FwType' /\ HeldType'
  BY DEF TypeInv, FwType, HeldType, Updating, FwUpdate, engVars
<1> QED
  BY <1>5 DEF TypeInv, FwUpdate, Call, engVars

LEMMA FwReadDataType ==
  ASSUME TypeInv, NEW ver \in Versions, NEW lock \in Locks, NEW caps \in {conf.caps, {"MSA"}}, FwReadData(ver, lock, caps)
  PROVE  TypeInv'
<1>1. conf' \in Configurations
  BY DEF TypeInv, FwReadData, Configurations, Capabilities
<1>5. FwType' /\ HeldType'
  BY DEF TypeInv, FwType, HeldType, Updating, FwReadData, engVars
<1> QED
  BY <1>1, <1>5 DEF TypeInv, FwReadData, bounds, engVars

LEMMA FwPostChangesType == TypeInv /\ FwPostChanges => TypeInv'
<1> SUFFICES ASSUME TypeInv, FwPostChanges PROVE TypeInv'
  OBVIOUS
<1>1. msgs' \in Seq(Messages)
  <2> DEFINE changes == IF fw.v.ver # conf.ver THEN <<Msg("ver", conf.ver)>> ELSE <<>>
             lock == IF vote THEN 0 ELSE conf.lock
  <2>1. changes \in Seq(Messages)
    BY MessagesAre, Singles DEF TypeInv, Configurations
  <2>2. <<Msg("lock", lock)>> \in Seq(Messages)
    BY MessagesAre, Singles DEF TypeInv, Configurations
  <2>3. changes \o <<Msg("lock", lock)>> \in Seq(Messages)
    BY <2>1, <2>2, Joined
  <2> QED BY <2>3, PostType DEF TypeInv, FwPostChanges
<1>3. late' \subseteq Keys
  BY DEF TypeInv, FwPostChanges, Newer, Keys
<1>5. FwType' /\ HeldType'
  BY DEF TypeInv, FwType, HeldType, Updating, FwPostChanges, engVars
<1> QED
  BY <1>1, <1>3, <1>5 DEF TypeInv, FwPostChanges, bounds, engVars

LEMMA FwRestoreType == TypeInv /\ FwRestore => TypeInv'
<1> SUFFICES ASSUME TypeInv, FwRestore PROVE TypeInv'
  OBVIOUS
<1>1. conf' \in Configurations
  BY DEF TypeInv, FwType, FwRestore, Updating, Configurations
<1>5. FwType' /\ HeldType'
  BY DEF TypeInv, FwType, HeldType, Updating, FwRestore, Configurations, engVars
<1> QED
  BY <1>1, <1>5 DEF TypeInv, FwRestore, bounds, engVars

LEMMA FwMaskType == TypeInv /\ FwMask => TypeInv'
<1> SUFFICES ASSUME TypeInv, FwMask PROVE TypeInv'
  OBVIOUS
<1>1. conf' \in Configurations
  BY DEF TypeInv, FwType, FwMask, Configurations, Capabilities
<1>5. FwType' /\ HeldType'
  BY DEF TypeInv, FwType, HeldType, Updating, FwMask, engVars
<1> QED
  BY <1>1, <1>5 DEF TypeInv, FwMask, bounds, engVars

LEMMA HandleLongType == TypeInv /\ HandleLong => TypeInv'
<1> SUFFICES ASSUME TypeInv, HandleLong PROVE TypeInv'
  OBVIOUS
<1>1. msgs' \in Seq(Messages)
  BY Taken DEF TypeInv, HandleLong
<1>2. todo' \in Seq(Steps)
  <2>1. /\ Reinit \in Seq(Steps) /\ <<"lock", "report">> \in Seq(Steps)
        /\ <<"power", "server">> \in Seq(Steps)
    BY DEF Reinit, Steps
  <2>2. InitSteps \in Seq(Steps) /\ UpSteps \in Seq(Steps)
    BY <2>1, Joined DEF InitSteps, UpSteps
  <2> QED BY <2>2 DEF HandleLong
<1>5. FwType'
  BY DEF TypeInv, FwType, Updating, HandleLong, fwVars
<1>6. HeldType'
  BY DEF TypeInv, HeldType, HandleLong
<1> QED
  BY <1>1, <1>2, <1>5, <1>6 DEF TypeInv, HandleLong, fwVars, bounds

LEMMA HandleSettingType == TypeInv /\ HandleSetting => TypeInv'
<1> SUFFICES ASSUME TypeInv, HandleSetting PROVE TypeInv'
  OBVIOUS
<1>1. msgs' \in Seq(Messages)
  BY Taken DEF TypeInv, HandleSetting
<1>2. DOMAIN has' \subseteq Keys
  BY OverIs, SettingsAre, Taken DEF TypeInv, HandleSetting, Give
<1>5. FwType'
  BY DEF TypeInv, FwType, Updating, HandleSetting, fwVars
<1>6. HeldType'
  BY DEF TypeInv, HeldType, HandleSetting, engVars
<1> QED
  BY <1>1, <1>2, <1>5, <1>6 DEF TypeInv, HandleSetting, fwVars, engVars, bounds

LEMMA HandleOpenType == TypeInv /\ HandleOpen => TypeInv'
<1> SUFFICES ASSUME TypeInv, HandleOpen PROVE TypeInv'
  OBVIOUS
<1>1. msgs' \in Seq(Messages)
  BY Taken DEF TypeInv, HandleOpen
<1>2. DOMAIN has' \subseteq Keys /\ modem' \in {"down", "up", "open"}
  <2>1. DOMAIN [meas |-> TRUE] \subseteq Keys
    BY DEF Keys
  <2>2. DOMAIN Over([meas |-> TRUE], has) \subseteq Keys
    BY <2>1, OverIs DEF TypeInv
  <2> QED BY <2>2 DEF TypeInv, HandleOpen
<1>5. FwType'
  BY DEF TypeInv, FwType, Updating, HandleOpen, fwVars
<1>6. HeldType'
  BY DEF TypeInv, HeldType, HandleOpen, engVars
<1> QED
  BY <1>1, <1>2, <1>5, <1>6 DEF TypeInv, HandleOpen, fwVars, engVars, bounds

LEMMA HandleAskType == TypeInv /\ HandleAsk => TypeInv'
<1> SUFFICES ASSUME TypeInv, HandleAsk PROVE TypeInv'
  OBVIOUS
<1>1. msgs' \in Seq(Messages)
  BY Taken DEF TypeInv, HandleAsk
<1>5. FwType'
  BY DEF TypeInv, FwType, Updating, HandleAsk, fwVars
<1>6. HeldType'
  BY DEF TypeInv, HeldType, HandleAsk, Msg, Configurations
<1> QED
  BY <1>1, <1>5, <1>6 DEF TypeInv, HandleAsk, fwVars, bounds, Updating

LEMMA AddCapabilityType == TypeInv /\ AddCapability => TypeInv'
<1> SUFFICES ASSUME TypeInv, AddCapability PROVE TypeInv'
  OBVIOUS
<1>1. conf' \in Configurations
  BY DEF TypeInv, HeldType, AddCapability, Configurations, Capabilities, NoMsg, Msg, Messages, None
<1>5. FwType'
  BY DEF TypeInv, FwType, Updating, AddCapability, fwVars
<1>6. HeldType'
  BY DEF TypeInv, HeldType, AddCapability
<1> QED
  BY <1>1, <1>5, <1>6 DEF TypeInv, AddCapability, fwVars, bounds, Updating

LEMMA HandleReportType == TypeInv /\ HandleReport => TypeInv'
<1> SUFFICES ASSUME TypeInv, HandleReport PROVE TypeInv'
  OBVIOUS
<1>1. msgs' \in Seq(Messages)
  BY Taken DEF TypeInv, HandleReport
<1>5. FwType'
  BY DEF TypeInv, FwType, Updating, HandleReport, fwVars
<1>6. HeldType'
  BY DEF TypeInv, HeldType, HandleReport
<1> QED
  BY <1>1, <1>5, <1>6 DEF TypeInv, HandleReport, fwVars, bounds, Updating, Configurations

LEMMA StepPlainType == TypeInv /\ StepPlain => TypeInv'
<1> SUFFICES ASSUME TypeInv, StepPlain PROVE TypeInv'
  OBVIOUS
<1>1. todo' \in Seq(Steps)
  BY Taken DEF TypeInv, StepPlain
<1>2. msgs' \in Seq(Messages)
  BY MessagesAre, Singles, PostType DEF TypeInv, StepPlain
<1>3. DOMAIN has' \subseteq Keys
  BY OverIs DEF TypeInv, StepPlain, Give, Keys
<1>5. FwType'
  BY DEF TypeInv, FwType, Updating, StepPlain, fwVars
<1>6. HeldType'
  BY DEF TypeInv, HeldType, StepPlain
<1> QED
  BY <1>1, <1>2, <1>3, <1>5, <1>6 DEF TypeInv, StepPlain, fwVars, bounds

LEMMA StepMakeType == TypeInv /\ StepMake => TypeInv'
<1> SUFFICES ASSUME TypeInv, StepMake PROVE TypeInv'
  OBVIOUS
<1>1. todo' \in Seq(Steps)
  BY Taken DEF TypeInv, StepMake
<1>3. late' \subseteq Keys
  BY DEF TypeInv, StepMake
<1>5. FwType'
  BY DEF TypeInv, FwType, Updating, StepMake, fwVars
<1>6. HeldType'
  <2>1. CASE Head(todo) = "ver"
    BY <2>1, MessagesAre DEF StepMake, Made, TypeInv, HeldType, Configurations, Msg
  <2>2. CASE Head(todo) = "data"
    BY <2>2, MessagesAre DEF StepMake, Made, TypeInv, HeldType, Msg
  <2>3. CASE Head(todo) = "power"
    BY <2>3 DEF StepMake, Made, TypeInv, HeldType, Msg
  <2>4. CASE Head(todo) = "server"
    BY <2>4, MessagesAre DEF StepMake, Made, TypeInv, HeldType, FwType, Msg
  <2> QED BY <2>1, <2>2, <2>3, <2>4 DEF StepMake
<1> QED
  BY <1>1, <1>3, <1>5, <1>6 DEF TypeInv, StepMake, fwVars, bounds

LEMMA StepSendType == TypeInv /\ StepSend => TypeInv'
<1> SUFFICES ASSUME TypeInv, StepSend PROVE TypeInv'
  OBVIOUS
<1>2. msgs' \in Seq(Messages)
  <2>1. CASE held.k = "power"
    BY <2>1 DEF StepSend, TypeInv
  <2>2. CASE held.k # "power"
    <3>1. held \in Messages
      BY <2>2 DEF StepSend, TypeInv, HeldType, NoMsg, Msg
    <3> QED BY <2>2, <3>1, Singles, PostType DEF StepSend, TypeInv
  <2> QED BY <2>1, <2>2
<1>3. DOMAIN has' \subseteq Keys
  <2>1. DOMAIN [power |-> held.v] \subseteq Keys
    BY DEF Keys
  <2>2. DOMAIN Over([power |-> held.v], has) \subseteq Keys
    BY <2>1, OverIs DEF TypeInv
  <2> QED BY <2>2 DEF TypeInv, StepSend, Give
<1>5. FwType'
  BY DEF TypeInv, FwType, Updating, StepSend, fwVars
<1>6. HeldType'
  BY DEF TypeInv, HeldType, StepSend
<1> QED
  BY <1>2, <1>3, <1>5, <1>6 DEF TypeInv, StepSend, fwVars, bounds

LEMMA ModemCrashType == TypeInv /\ ModemCrash => TypeInv'
<1> SUFFICES ASSUME TypeInv, ModemCrash PROVE TypeInv'
  OBVIOUS
<1>1. DOMAIN has' \subseteq Keys
  BY Singles DEF ModemCrash
<1>5. FwType'
  BY DEF TypeInv, FwType, Updating, ModemCrash, fwVars
<1>6. HeldType'
  BY DEF TypeInv, HeldType, ModemCrash, engVars
<1> QED
  BY <1>1, <1>5, <1>6 DEF TypeInv, ModemCrash, fwVars, engVars

LEMMA ModemUpType == TypeInv /\ ModemUp => TypeInv'
<1> SUFFICES ASSUME TypeInv, ModemUp PROVE TypeInv'
  OBVIOUS
<1>1. msgs' \in Seq(Messages)
  BY MessagesAre, Singles, PostType DEF TypeInv, ModemUp
<1>5. FwType'
  BY DEF TypeInv, FwType, Updating, ModemUp, fwVars
<1>6. HeldType'
  BY DEF TypeInv, HeldType, ModemUp, engVars
<1> QED
  BY <1>1, <1>5, <1>6 DEF TypeInv, ModemUp, fwVars, engVars, bounds

LEMMA NextType == TypeInv /\ [Next]_vars => TypeInv'
<1> SUFFICES ASSUME TypeInv, [Next]_vars PROVE TypeInv'
  OBVIOUS
<1>1. CASE UNCHANGED vars
  BY <1>1 DEF vars, fwVars, engVars, bounds, TypeInv, FwType, HeldType, Updating
<1>2. CASE Framework
  BY <1>2, FwInitType, FwCleanupType, FwAgpsInitType, FwServerSetType, FwSetServerType, FwAvailabilityType,
     FwMeasurementsType, FwUpdateType, FwPostChangesType, FwRestoreType, FwMaskType, FwReadDataType
     DEF Framework
<1>3. CASE MsgTask
  BY <1>3, HandleLongType, HandleSettingType, HandleOpenType, HandleAskType, AddCapabilityType,
     HandleReportType, StepPlainType, StepMakeType, StepSendType DEF MsgTask
<1> QED BY <1>1, <1>2, <1>3, ModemCrashType, ModemUpType DEF Next

LEMMA InitType == Init => TypeInv
<1> SUFFICES ASSUME Init PROVE TypeInv
  OBVIOUS
<1>1. conf \in Configurations
  BY DEF Init, Configurations, Capabilities, FileCaps
<1>2. FwType /\ HeldType
  BY DEF Init, FwType, HeldType, Updating
<1>3. msgs \in Seq(Messages) /\ todo \in Seq(Steps)
  BY Singles DEF Init
<1>4. DOMAIN has = {}
  BY DEF Init
<1> QED BY <1>1, <1>2, <1>3, <1>4 DEF Init, TypeInv

\* What every variable holds; what the MsgTask has made and what the framework's
\* thread holds at each of its steps among it.
THEOREM SettingsTypeCorrect == Spec => []TypeInv
BY InitType, NextType, PTL DEF Spec

-----------------------------------------------------------------------------
(* The capabilities. *)

\* Steps that touch neither them nor what is held of them.
LEMMA OtherCaps ==
  ASSUME TypeInv, CapsInv, UNCHANGED <<told, mixed, outdated>>,
         conf'.caps = conf.caps,
         held' = held \/ held'.k # "caps",
         fw' = fw \/ (~Updating /\ ~Updating' /\ fw.pc # "mask" /\ fw'.pc # "mask")
                  \/ (Updating /\ Updating' /\ fw'.v = fw.v /\ fw'.pc # "mask")
  PROVE  CapsInv'
<1>1. CASE fw' = fw
  BY <1>1 DEF CapsInv, InForce, Updating
<1>2. CASE ~Updating /\ ~Updating' /\ fw.pc # "mask" /\ fw'.pc # "mask"
  BY <1>2 DEF CapsInv, InForce
<1>3. CASE Updating /\ Updating' /\ fw'.v = fw.v /\ fw'.pc # "mask"
  BY <1>3 DEF CapsInv, InForce
<1> QED BY <1>1, <1>2, <1>3

\* A configuration update puts them aside, reads others and restores them.
LEMMA UpdateCaps ==
  ASSUME TypeInv, CapsInv,
         FwUpdate \/ FwPostChanges \/ FwRestore \/ FwMask
           \/ \E ver \in Versions, lock \in Locks, caps \in {conf.caps, {"MSA"}} : FwReadData(ver, lock, caps)
  PROVE  CapsInv'
<1>1. CASE FwUpdate
  BY <1>1 DEF FwUpdate, Call, CapsInv, InForce, Updating, TypeInv, engVars
<1>2. CASE FwPostChanges
  BY <1>2, OtherCaps DEF FwPostChanges, Updating, TypeInv, FwType, engVars
<1>3. CASE FwRestore
  BY <1>3 DEF FwRestore, CapsInv, InForce, Updating, TypeInv, FwType, Configurations, engVars
<1>4. CASE FwMask
  <2>1. conf'.caps = fw.v \ {"MSA"} /\ fw'.pc = "idle"
    BY <1>4 DEF FwMask, TypeInv, Configurations
  <2>2. ~mixed /\ ~outdated => QCA1530 /\ fw.v = conf.caps /\ InForce = conf.caps
    BY <1>4 DEF FwMask, CapsInv, InForce, Updating
  <2>3. ~mixed /\ ~outdated => conf'.caps = conf.caps
    BY <2>1, <2>2, <1>4 DEF CapsInv, FileCaps
  <2> QED BY <2>1, <2>2, <2>3, <1>4 DEF FwMask, CapsInv, InForce, Updating, engVars
<1>5. ASSUME NEW ver \in Versions, NEW lock \in Locks, NEW caps \in {conf.caps, {"MSA"}},
             FwReadData(ver, lock, caps)
      PROVE  CapsInv'
  BY <1>5 DEF FwReadData, CapsInv, InForce, Updating, TypeInv, FwType, engVars
<1> QED BY <1>1, <1>2, <1>3, <1>4, <1>5

\* A modem that answers adds its capability to those it was asked with.
LEMMA AddCaps == TypeInv /\ CapsInv /\ AddCapability => CapsInv'
<1> SUFFICES ASSUME TypeInv, CapsInv, AddCapability, ~mixed', ~outdated' PROVE CapsInv'
  BY DEF CapsInv
<1>1. ~mixed /\ ~outdated /\ ~Updating /\ fw.pc # "mask" /\ \A c \in told : "MEAS" \in c
  BY DEF AddCapability
<1>2. held.v = conf.caps /\ InForce = conf.caps
  BY <1>1 DEF AddCapability, CapsInv, InForce
<1>3. conf'.caps = conf.caps \union {"MEAS"} /\ fw' = fw /\ told' = told /\ held' = NoMsg
  BY <1>2 DEF AddCapability, TypeInv, Configurations, fwVars
<1>4. InForce' = conf.caps \union {"MEAS"}
  BY <1>1, <1>3 DEF InForce, Updating
<1>5. \A c \in told' : c = InForce'
  BY <1>1, <1>2, <1>3, <1>4 DEF CapsInv
<1> QED
  BY <1>1, <1>2, <1>3, <1>4, <1>5 DEF CapsInv, NoMsg, Msg, None

LEMMA NextCaps == TypeInv /\ CapsInv /\ [Next]_vars => CapsInv'
<1> SUFFICES ASSUME TypeInv, CapsInv, [Next]_vars PROVE CapsInv'
  OBVIOUS
<1>1. CASE UNCHANGED vars
  BY <1>1, OtherCaps DEF vars, fwVars, engVars
<1>2. CASE Framework
  <2>1. CASE FwInit
    BY <2>1, OtherCaps DEF FwInit, engVars
  <2>2. CASE FwCleanup
    BY <2>2, OtherCaps DEF FwCleanup, engVars
  <2>3. CASE FwAgpsInit
    BY <2>3, OtherCaps DEF FwAgpsInit, engVars
  <2>4. CASE FwServerSet
    BY <2>4, OtherCaps DEF FwServerSet, Updating, engVars
  <2>5. ASSUME NEW h \in Hosts, FwSetServer(h) PROVE CapsInv'
    BY <2>5, OtherCaps DEF FwSetServer, Call, Updating, engVars
  <2>6. ASSUME NEW on \in BOOLEAN, NEW a \in Apns \union {None}, FwAvailability(on, a) PROVE CapsInv'
    BY <2>6, OtherCaps DEF FwAvailability, engVars
  <2>7. ASSUME NEW on \in BOOLEAN, FwMeasurements(on) PROVE CapsInv'
    BY <2>7, OtherCaps DEF FwMeasurements, engVars
  <2> QED BY <1>2, <2>1, <2>2, <2>3, <2>4, <2>5, <2>6, <2>7, UpdateCaps DEF Framework
<1>3. CASE MsgTask
  <2>1. CASE HandleLong
    BY <2>1, OtherCaps DEF HandleLong, fwVars
  <2>2. CASE HandleSetting
    BY <2>2, OtherCaps DEF HandleSetting, fwVars, engVars
  <2>3. CASE HandleOpen
    BY <2>3, OtherCaps DEF HandleOpen, fwVars, engVars
  <2>4. CASE HandleAsk
    <3>1. CASE modem = "open"
      <4>1. held' = Msg("caps", conf.caps) /\ (mixed' <=> mixed \/ Updating \/ fw.pc = "mask")
        BY <2>4, <3>1, Zenon DEF HandleAsk
      <4>2. fw' = fw /\ conf' = conf /\ told' = told /\ outdated' = outdated
        BY <2>4 DEF HandleAsk, fwVars
      <4>3. InForce' = InForce /\ Updating' = Updating
        BY <4>2 DEF InForce, Updating
      <4>4. held'.v = conf.caps
        BY <4>1 DEF Msg
      <4> QED BY <4>1, <4>2, <4>3, <4>4 DEF CapsInv
    <3>2. CASE modem # "open"
      BY <2>4, <3>2, OtherCaps DEF HandleAsk, fwVars
    <3> QED BY <3>1, <3>2
  <2>5. CASE AddCapability
    BY <2>5, AddCaps
  <2>6. CASE HandleReport
    BY <2>6 DEF HandleReport, CapsInv, InForce, Updating, fwVars
  <2>7. CASE StepPlain
    BY <2>7, OtherCaps DEF StepPlain, fwVars
  <2>8. CASE StepMake
    <3>1. held'.k # "caps"
      BY <2>8 DEF StepMake, Made, Msg, NoMsg, None
    <3> QED BY <2>8, <3>1, OtherCaps DEF StepMake, fwVars
  <2>9. CASE StepSend
    BY <2>9, OtherCaps DEF StepSend, fwVars, NoMsg, Msg, None
  <2> QED BY <1>3, <2>1, <2>2, <2>3, <2>4, <2>5, <2>6, <2>7, <2>8, <2>9 DEF MsgTask
<1>4. CASE ModemCrash
  BY <1>4, OtherCaps DEF ModemCrash, fwVars, engVars
<1>5. CASE ModemUp
  BY <1>5, OtherCaps DEF ModemUp, fwVars, engVars
<1> QED BY <1>1, <1>2, <1>3, <1>4, <1>5 DEF Next

LEMMA InitCaps == Init => CapsInv
BY DEF Init, CapsInv, InForce, Updating, NoMsg, Msg, None

\* The capabilities told are those of gps_conf, up to the two circumstances:
\* an update (FwReadData to FwMask) never changes them, nor what was told.
THEOREM CapabilitiesCorrect == Spec => []CapabilitiesTold
<1>1. TypeInv /\ CapsInv => CapabilitiesTold
  BY DEF CapsInv, CapabilitiesTold, InForce
<1>2. Spec => [](TypeInv /\ CapsInv)
  BY InitType, NextType, InitCaps, NextCaps, PTL DEF Spec
<1> QED BY <1>1, <1>2, PTL

-----------------------------------------------------------------------------
(* Posting to a queue. *)
LEMMA PostWaits ==
  ASSUME NEW q \in Seq(Messages), NEW ms \in Seq(Messages), NEW s
  PROVE  Waits(q \o ms, s) <=> Waits(q, s) \/ Waits(ms, s)
<1>1. ASSUME Waits(q \o ms, s) PROVE Waits(q, s) \/ Waits(ms, s)
  <2>1. PICK i \in DOMAIN (q \o ms) : For((q \o ms)[i], s)
    BY <1>1 DEF Waits
  <2>2. CASE i \in DOMAIN q
    BY <2>1, <2>2, Joined DEF Waits
  <2>3. CASE i \notin DOMAIN q
    <3>1. i - Len(q) \in DOMAIN ms /\ i = Len(q) + (i - Len(q))
      BY <2>3, Joined
    <3>2. (q \o ms)[i] = ms[i - Len(q)]
      BY <3>1, Joined
    <3> QED BY <2>1, <3>1, <3>2 DEF Waits
  <2> QED BY <2>2, <2>3
<1>2. ASSUME Waits(q, s) PROVE Waits(q \o ms, s)
  <2>1. PICK i \in DOMAIN q : For(q[i], s)
    BY <1>2 DEF Waits
  <2>2. i \in DOMAIN (q \o ms) /\ (q \o ms)[i] = q[i]
    BY Joined
  <2> QED BY <2>1, <2>2 DEF Waits
<1>3. ASSUME Waits(ms, s) PROVE Waits(q \o ms, s)
  <2>1. PICK i \in DOMAIN ms : For(ms[i], s)
    BY <1>3 DEF Waits
  <2>2. Len(q) + i \in DOMAIN (q \o ms) /\ (q \o ms)[Len(q) + i] = ms[i]
    BY Joined
  <2> QED BY <2>1, <2>2 DEF Waits
<1> QED BY <1>1, <1>2, <1>3

LEMMA PostWaitsOpen ==
  ASSUME NEW q \in Seq(Messages), NEW ms \in Seq(Messages), NEW m, NEW s,
         \/ WaitsOpen(q, m, s) \/ WaitsOpen(ms, m, s)
         \/ Waits(ms, s) /\ (m = "open" \/ Waits(q, "open"))
  PROVE  WaitsOpen(q \o ms, m, s)
<1>1. CASE WaitsOpen(q, m, s)
  <2>1. PICK i \in DOMAIN q : For(q[i], s) /\ (m = "open" \/ \E j \in DOMAIN q : j < i /\ q[j].k = "open")
    BY <1>1 DEF WaitsOpen
  <2>2. i \in DOMAIN (q \o ms) /\ (q \o ms)[i] = q[i]
    BY Joined
  <2>3. ASSUME NEW j \in DOMAIN q, q[j].k = "open" PROVE j \in DOMAIN (q \o ms) /\ (q \o ms)[j].k = "open"
    BY <2>3, Joined
  <2> QED BY <2>1, <2>2, <2>3 DEF WaitsOpen
<1>2. CASE WaitsOpen(ms, m, s)
  <2>1. PICK i \in DOMAIN ms : For(ms[i], s) /\ (m = "open" \/ \E j \in DOMAIN ms : j < i /\ ms[j].k = "open")
    BY <1>2 DEF WaitsOpen
  <2>2. Len(q) + i \in DOMAIN (q \o ms) /\ (q \o ms)[Len(q) + i] = ms[i]
    BY Joined
  <2>3. ASSUME NEW j \in DOMAIN ms, j < i, ms[j].k = "open"
        PROVE  Len(q) + j \in DOMAIN (q \o ms) /\ (q \o ms)[Len(q) + j].k = "open" /\ Len(q) + j < Len(q) + i
    BY <2>3, Joined
  <2> QED BY <2>1, <2>2, <2>3 DEF WaitsOpen
<1>3. CASE Waits(ms, s) /\ (m = "open" \/ Waits(q, "open"))
  <2>1. PICK i \in DOMAIN ms : For(ms[i], s)
    BY <1>3 DEF Waits
  <2>2. Len(q) + i \in DOMAIN (q \o ms) /\ (q \o ms)[Len(q) + i] = ms[i]
    BY Joined
  <2>3. ASSUME NEW j \in DOMAIN q, q[j].k = "open"
        PROVE  j \in DOMAIN (q \o ms) /\ (q \o ms)[j].k = "open" /\ j < Len(q) + i
    BY <2>3, Joined
  <2>4. m = "open" \/ \E j \in DOMAIN q : q[j].k = "open"
    BY <1>3 DEF Waits, For
  <2> QED BY <2>1, <2>2, <2>3, <2>4 DEF WaitsOpen
<1> QED BY <1>1, <1>2, <1>3

LEMMA PostLastIn ==
  ASSUME NEW q \in Seq(Messages), NEW ms \in Seq(Messages), NEW s, NEW T,
         IF Waits(ms, s) THEN LastIn(ms, s, T) ELSE LastIn(q, s, T)
  PROVE  LastIn(q \o ms, s, T)
<1> SUFFICES ASSUME NEW i \in DOMAIN (q \o ms), For((q \o ms)[i], s),
                    \A j \in DOMAIN (q \o ms) : j > i => ~For((q \o ms)[j], s)
             PROVE  Value((q \o ms)[i], s) \in T
  BY DEF LastIn
<1>1. CASE i \in DOMAIN q
  <2>1. (q \o ms)[i] = q[i] /\ i \in Nat /\ i <= Len(q) /\ Len(q) \in Nat
    BY <1>1, Joined
  <2>2. ASSUME NEW j \in DOMAIN ms PROVE ~For(ms[j], s)
    <3>1. Len(q) + j \in DOMAIN (q \o ms) /\ (q \o ms)[Len(q) + j] = ms[j] /\ j \in Nat /\ j >= 1
      BY Joined
    <3>2. Len(q) + j > i
      BY <2>1, <3>1
    <3> QED BY <3>1, <3>2
  <2>3. ASSUME NEW j \in DOMAIN q, j > i PROVE ~For(q[j], s)
    BY <2>3, Joined
  <2> QED BY <1>1, <2>1, <2>2, <2>3 DEF LastIn, Waits
<1>2. CASE i \notin DOMAIN q
  <2>0. i - Len(q) \in DOMAIN ms /\ i = Len(q) + (i - Len(q)) /\ Len(q) \in Nat
    BY <1>2, Joined
  <2> DEFINE n == i - Len(q)
  <2>1. n \in DOMAIN ms /\ n \in Nat /\ (q \o ms)[i] = ms[n]
    BY <2>0, Joined
  <2>2. ASSUME NEW j \in DOMAIN ms, j > n PROVE ~For(ms[j], s)
    <3>1. Len(q) + j \in DOMAIN (q \o ms) /\ (q \o ms)[Len(q) + j] = ms[j] /\ j \in Nat
      BY Joined
    <3>2. Len(q) + j > i
      BY <2>2, <2>0, <2>1, <3>1
    <3> QED BY <3>1, <3>2
  <2>3. Waits(ms, s)
    BY <2>1 DEF Waits
  <2> HIDE DEF n
  <2> QED BY <2>1, <2>2, <2>3 DEF LastIn
<1> QED BY <1>1, <1>2

-----------------------------------------------------------------------------
(* Taking from a queue. *)
LEMMA TakeWaits ==
  ASSUME NEW q \in Seq(Messages), q # <<>>, NEW s
  PROVE  /\ Waits(Tail(q), s) => Waits(q, s)
         /\ Waits(q, s) => Waits(Tail(q), s) \/ For(Head(q), s)
<1>1. ASSUME Waits(Tail(q), s) PROVE Waits(q, s)
  BY <1>1, Taken DEF Waits
<1>2. ASSUME Waits(q, s) PROVE Waits(Tail(q), s) \/ For(Head(q), s)
  <2>1. PICK i \in DOMAIN q : For(q[i], s)
    BY <1>2 DEF Waits
  <2>2. CASE i = 1
    BY <2>1, <2>2, Taken
  <2>3. CASE i # 1
    <3>1. i - 1 \in DOMAIN Tail(q) /\ Tail(q)[i - 1] = q[i]
      BY <2>3, Taken
    <3> QED BY <2>1, <3>1 DEF Waits
  <2> QED BY <2>2, <2>3
<1> QED BY <1>1, <1>2

LEMMA TakeWaitsOpen ==
  ASSUME NEW q \in Seq(Messages), q # <<>>, NEW m, NEW n, NEW s, WaitsOpen(q, m, s),
         \/ n = "open" /\ (m = "open" \/ Head(q).k = "open") /\ ~For(Head(q), s)
         \/ m # "open" /\ Head(q).k # "open"
  PROVE  WaitsOpen(Tail(q), n, s)
<1>1. PICK i \in DOMAIN q : For(q[i], s) /\ (m = "open" \/ \E j \in DOMAIN q : j < i /\ q[j].k = "open")
  BY DEF WaitsOpen
<1>2. CASE n = "open" /\ ~For(Head(q), s)
  <2>1. i # 1
    BY <1>1, <1>2, Taken
  <2>2. i - 1 \in DOMAIN Tail(q) /\ Tail(q)[i - 1] = q[i]
    BY <2>1, Taken
  <2> QED BY <1>1, <1>2, <2>2 DEF WaitsOpen
<1>3. CASE m # "open" /\ Head(q).k # "open"
  <2>1. PICK j \in DOMAIN q : j < i /\ q[j].k = "open"
    BY <1>1, <1>3
  <2>2. j # 1 /\ i # 1
    BY <2>1, <1>3, Taken
  <2>3. /\ i - 1 \in DOMAIN Tail(q) /\ Tail(q)[i - 1] = q[i]
        /\ j - 1 \in DOMAIN Tail(q) /\ Tail(q)[j - 1] = q[j]
        /\ i \in Nat /\ j \in Nat
    BY <2>2, Taken
  <2>4. j - 1 < i - 1
    BY <2>1, <2>3
  <2> QED BY <1>1, <2>1, <2>3, <2>4 DEF WaitsOpen
<1> QED BY <1>2, <1>3

LEMMA TakeLastIn ==
  ASSUME NEW q \in Seq(Messages), q # <<>>, NEW s, NEW T, LastIn(q, s, T)
  PROVE  /\ LastIn(Tail(q), s, T)
         /\ For(Head(q), s) /\ ~Waits(Tail(q), s) => Value(Head(q), s) \in T
<1>1. LastIn(Tail(q), s, T)
  <2> SUFFICES ASSUME NEW i \in DOMAIN Tail(q), For(Tail(q)[i], s),
                      \A j \in DOMAIN Tail(q) : j > i => ~For(Tail(q)[j], s)
               PROVE  Value(Tail(q)[i], s) \in T
    BY DEF LastIn
  <2>1. i \in Nat /\ i >= 1 /\ i + 1 \in DOMAIN q /\ Tail(q)[i] = q[i + 1]
    BY Taken
  <2>2. ASSUME NEW j \in DOMAIN q, j > i + 1 PROVE ~For(q[j], s)
    <3>1. j \in Nat /\ j # 1
      BY <2>1, <2>2, Taken
    <3>2. j - 1 \in DOMAIN Tail(q) /\ Tail(q)[j - 1] = q[j] /\ j - 1 > i
      BY <3>1, <2>1, <2>2, Taken
    <3> QED BY <3>2
  <2> QED BY <2>1, <2>2 DEF LastIn
<1>2. ASSUME For(Head(q), s), ~Waits(Tail(q), s) PROVE Value(Head(q), s) \in T
  <2>1. ASSUME NEW j \in DOMAIN q, j > 1 PROVE ~For(q[j], s)
    <3>1. j - 1 \in DOMAIN Tail(q) /\ Tail(q)[j - 1] = q[j]
      BY <2>1, Taken
    <3> QED BY <3>1, <1>2 DEF Waits
  <2> QED BY <1>2, <2>1, Taken DEF LastIn
<1> QED BY <1>1, <1>2

-----------------------------------------------------------------------------
(* What that does to a setting s. *)
SameAt(h, g, s) == (s \in DOMAIN g <=> s \in DOMAIN h) /\ (s \in DOMAIN h => g[s] = h[s])

\* Something else is posted, and given to the modem.
LEMMA PostOther ==
  ASSUME NEW q \in Seq(Messages), NEW ms \in Seq(Messages), NEW m, NEW h, NEW g, NEW s, NEW T,
         ~Waits(ms, s), SameAt(h, g, s)
  PROVE  /\ NotStale(q, h, s, T) => NotStale(q \o ms, g, s, T)
         /\ Reaches(q, m, h, s) => Reaches(q \o ms, m, g, s)
<1>1. Waits(q \o ms, s) <=> Waits(q, s)
  BY PostWaits
<1>2. LastIn(q, s, T) => LastIn(q \o ms, s, T)
  BY PostLastIn
<1>3. WaitsOpen(q, m, s) => WaitsOpen(q \o ms, m, s)
  BY PostWaitsOpen
<1> QED BY <1>1, <1>2, <1>3 DEF NotStale, Reaches, SameAt

\* s itself is posted.
LEMMA PostSame ==
  ASSUME NEW q \in Seq(Messages), NEW ms \in Seq(Messages), NEW m, NEW h, NEW s, NEW T,
         Waits(ms, s)
  PROVE  /\ LastIn(ms, s, T) => NotStale(q \o ms, h, s, T)
         /\ m = "open" \/ Waits(q, "open") \/ WaitsOpen(ms, m, s) => Reaches(q \o ms, m, h, s)
<1>1. Waits(q \o ms, s)
  BY PostWaits
<1>2. LastIn(ms, s, T) => LastIn(q \o ms, s, T)
  BY PostLastIn
<1>3. m = "open" \/ Waits(q, "open") \/ WaitsOpen(ms, m, s) => WaitsOpen(q \o ms, m, s)
  BY PostWaitsOpen
<1> QED BY <1>1, <1>2, <1>3 DEF NotStale, Reaches

\* A message for something else is taken.
LEMMA TakeOther ==
  ASSUME NEW q \in Seq(Messages), q # <<>>, NEW m, NEW h, NEW g, NEW s, NEW T,
         ~For(Head(q), s), Head(q).k # "open", SameAt(h, g, s)
  PROVE  /\ NotStale(q, h, s, T) => NotStale(Tail(q), g, s, T)
         /\ Reaches(q, m, h, s) => Reaches(Tail(q), m, g, s)
<1>1. Waits(Tail(q), s) <=> Waits(q, s)
  BY TakeWaits
<1>2. LastIn(q, s, T) => LastIn(Tail(q), s, T)
  BY TakeLastIn
<1>3. WaitsOpen(q, m, s) => WaitsOpen(Tail(q), m, s)
  BY TakeWaitsOpen
<1> QED BY <1>1, <1>2, <1>3 DEF NotStale, Reaches, SameAt

\* A message for s is taken, and given to the modem if that is open.
LEMMA TakeSame ==
  ASSUME NEW q \in Seq(Messages), q # <<>>, NEW m, NEW h, NEW g, NEW s, NEW T,
         For(Head(q), s), Head(q).k # "open",
         m = "open" => s \in DOMAIN g /\ g[s] = Value(Head(q), s),
         m # "open" => s \notin DOMAIN g
  PROVE  /\ NotStale(q, h, s, T) => NotStale(Tail(q), g, s, T)
         /\ Reaches(q, m, h, s) => Reaches(Tail(q), m, g, s)
<1>1. ASSUME LastIn(q, s, T) PROVE LastIn(Tail(q), s, T) /\ (~Waits(Tail(q), s) => Value(Head(q), s) \in T)
  BY <1>1, TakeLastIn
<1>2. m # "open" /\ WaitsOpen(q, m, s) => WaitsOpen(Tail(q), m, s)
  BY TakeWaitsOpen
<1> QED BY <1>1, <1>2 DEF NotStale, Reaches

\* The modem is opened.
LEMMA TakeOpen ==
  ASSUME NEW q \in Seq(Messages), q # <<>>, NEW m, NEW h, NEW g, NEW s, NEW T,
         Head(q).k = "open", s # "open", SameAt(h, g, s)
  PROVE  /\ NotStale(q, h, s, T) => NotStale(Tail(q), g, s, T)
         /\ Reaches(q, m, h, s) => Reaches(Tail(q), "open", g, s)
<1>0. ~For(Head(q), s)
  BY DEF For
<1>1. Waits(Tail(q), s) <=> Waits(q, s)
  BY <1>0, TakeWaits
<1>2. LastIn(q, s, T) => LastIn(Tail(q), s, T)
  BY TakeLastIn
<1>3. WaitsOpen(q, m, s) => WaitsOpen(Tail(q), "open", s)
  BY <1>0, TakeWaitsOpen
<1> QED BY <1>1, <1>2, <1>3 DEF NotStale, Reaches, SameAt

LEMMA GiveOther ==
  ASSUME NEW new, NEW s, Give(new), s \notin DOMAIN new
  PROVE  SameAt(has, has', s)
<1>1. CASE modem = "open"
  <2>1. has' = Over(new, has)
    BY <1>1 DEF Give
  <2>2. s \in DOMAIN Over(new, has) <=> s \in DOMAIN has
    BY DEF Over
  <2>3. s \in DOMAIN has => Over(new, has)[s] = has[s]
    BY DEF Over
  <2> QED BY <2>1, <2>2, <2>3 DEF SameAt
<1>2. CASE modem # "open"
  BY <1>2 DEF Give, SameAt
<1> QED BY <1>1, <1>2

Settled == {"ver", "data", "apn", "server", "lock", "meas"}

\* What the MsgTask does to a setting it does not itself send or change. While
\* the modem is down an open that is handled is lost.
LEMMA TaskKeeps ==
  ASSUME TypeInv, BaseInv, MsgTask,
         NEW s \in Settled, NEW T,
         held.k # s, StepPlain => Head(todo) # s, s = "meas" => TRUE \in T
  PROVE  /\ NotStale(msgs, has, s, T) => NotStale(msgs', has', s, T)
         /\ modem # "down" /\ Reaches(msgs, modem, has, s) => Reaches(msgs', modem', has', s)
<1>0. msgs \in Seq(Messages) /\ s \in Keys /\ s # "open" /\ s # "reads"
  BY DEF TypeInv, Settled, Keys
<1>1. SameAt(has, has, s)
  BY DEF SameAt
<1>2. ASSUME msgs # <<>>, Head(msgs).k \notin Keys \union {"open"}, msgs' = Tail(msgs), has' = has, modem' = modem
      PROVE  /\ NotStale(msgs, has, s, T) => NotStale(msgs', has', s, T)
             /\ Reaches(msgs, modem, has, s) => Reaches(msgs', modem', has', s)
  <2>1. ~For(Head(msgs), s) /\ Head(msgs).k # "open"
    BY <1>0, <1>2 DEF For, Keys
  <2> QED BY <1>0, <1>1, <1>2, <2>1, TakeOther
<1>3. CASE HandleLong
  BY <1>2, <1>3 DEF HandleLong, Keys
<1>4. CASE HandleAsk
  BY <1>2, <1>4 DEF HandleAsk, Keys
<1>5. CASE HandleReport
  BY <1>2, <1>5 DEF HandleReport, Keys
<1>6. CASE HandleSetting
  <2> DEFINE m == Head(msgs)
  <2>1. msgs # <<>> /\ m \in Messages /\ m.k \in Keys /\ msgs' = Tail(msgs) /\ modem' = modem /\ Give(Settings(m))
    BY <1>0, <1>6, Taken DEF HandleSetting
  <2>2. m.k # "open"
    BY <2>1 DEF Keys
  <2>3. CASE For(m, s)
    <3>1. s \in DOMAIN Settings(m) /\ Settings(m)[s] = Value(m, s)
      BY <1>0, <2>1, <2>3, SettingsAre
    <3>2. ASSUME modem = "open" PROVE s \in DOMAIN has' /\ has'[s] = Value(m, s)
      <4>1. has' = Over(Settings(m), has)
        BY <2>1, <3>2 DEF Give
      <4>2. s \in DOMAIN Over(Settings(m), has) /\ Over(Settings(m), has)[s] = Settings(m)[s]
        BY <3>1 DEF Over
      <4> QED BY <4>1, <4>2, <3>1
    <3>3. modem # "open" => s \notin DOMAIN has'
      BY <2>1 DEF Give, BaseInv
    <3> HIDE DEF m
    <3> QED BY <1>0, <2>1, <2>2, <2>3, <3>2, <3>3, TakeSame DEF m
  <2>4. CASE ~For(m, s)
    <3>1. s \notin DOMAIN Settings(m)
      BY <1>0, <2>1, <2>4, SettingsAre
    <3>2. SameAt(has, has', s)
      BY <2>1, <3>1, GiveOther
    <3> QED BY <1>0, <2>1, <2>2, <2>4, <3>2, TakeOther
  <2> QED BY <2>3, <2>4
<1>7. CASE HandleOpen
  <2>1. msgs # <<>> /\ Head(msgs).k = "open" /\ msgs' = Tail(msgs)
    BY <1>7 DEF HandleOpen
  <2>2. CASE modem = "down"
    <3>1. has' = has /\ modem' = modem
      BY <1>7, <2>2 DEF HandleOpen
    <3> QED BY <1>0, <1>1, <2>1, <2>2, <3>1, TakeOpen
  <2>3. CASE modem # "down"
    <3>1. modem' = "open" /\ has' = Over([meas |-> TRUE], has)
      BY <1>7, <2>3 DEF HandleOpen
    <3> DEFINE new == [meas |-> TRUE]
    <3>0. DOMAIN new = {"meas"} /\ new["meas"] = TRUE
      OBVIOUS
    <3> HIDE DEF new
    <3>2. "meas" \in DOMAIN has' /\ has'["meas"] = TRUE
      <4>1. "meas" \in DOMAIN Over(new, has) /\ Over(new, has)["meas"] = new["meas"]
        BY <3>0 DEF Over
      <4> QED BY <4>1, <3>0, <3>1 DEF new
    <3>3. CASE s = "meas"
      <4>1. LastIn(msgs, s, T) => LastIn(msgs', s, T)
        BY <1>0, <2>1, TakeLastIn
      <4> QED BY <3>1, <3>2, <3>3, <4>1 DEF NotStale, Reaches
    <3>4. CASE s # "meas"
      <4>1. s \in DOMAIN Over(new, has) <=> s \in DOMAIN has
        BY <3>0, <3>4 DEF Over
      <4>3. s \in DOMAIN has => Over(new, has)[s] = has[s]
        BY <3>0, <3>4 DEF Over
      <4>2. SameAt(has, has', s)
        BY <3>1, <4>1, <4>3 DEF SameAt, new
      <4> QED BY <1>0, <2>1, <3>1, <4>2, TakeOpen
    <3> QED BY <3>3, <3>4
  <2> QED BY <2>2, <2>3
<1>8. CASE AddCapability \/ StepMake
  <2>1. msgs' = msgs /\ has' = has /\ modem' = modem
    BY <1>8 DEF AddCapability, StepMake
  <2> QED BY <2>1
<1>9. CASE StepPlain
  <2>1. CASE Head(todo) = "lock"
    <3>1. Give([lock |-> 1]) /\ msgs' = msgs /\ modem' = modem
      BY <1>9, <2>1 DEF StepPlain
    <3>2. s \notin DOMAIN [lock |-> 1]
      BY <1>9, <2>1
    <3>3. SameAt(has, has', s)
      BY <3>1, <3>2, GiveOther
    <3> QED BY <3>1, <3>3 DEF NotStale, Reaches, SameAt
  <2>2. CASE Head(todo) # "lock"
    <3> DEFINE ms == <<Msg(Head(todo), None)>>
    <3>1. Head(todo) \in {"ask", "report"} /\ msgs' = msgs \o ms /\ has' = has /\ modem' = modem
      BY <1>9, <2>2 DEF StepPlain, Post
    <3>2. ms \in Seq(Messages) /\ DOMAIN ms = {1} /\ ms[1] = Msg(Head(todo), None)
      BY <3>1, MessagesAre, Singles
    <3> HIDE DEF ms
    <3>3. ~Waits(ms, s)
      BY <1>0, <3>1, <3>2 DEF Waits, For, Msg, Keys
    <3> QED BY <1>0, <1>1, <3>1, <3>2, <3>3, PostOther
  <2> QED BY <2>1, <2>2
<1>10. CASE StepSend
  <2>1. CASE held.k = "power"
    <3>1. Give([power |-> held.v]) /\ msgs' = msgs /\ modem' = modem
      BY <1>10, <2>1 DEF StepSend
    <3>2. s \notin DOMAIN [power |-> held.v]
      BY DEF Settled
    <3>3. SameAt(has, has', s)
      BY <3>1, <3>2, GiveOther
    <3> QED BY <3>1, <3>3 DEF NotStale, Reaches, SameAt
  <2>2. CASE held.k # "power"
    <3>1. msgs' = msgs \o <<held>> /\ has' = has /\ modem' = modem
      BY <1>10, <2>2 DEF StepSend, Post
    <3>2. held \in Messages /\ held.k \in {"ver", "data", "server"}
      BY <1>10, <2>2 DEF StepSend, TypeInv, HeldType, NoMsg, Msg
    <3>3. <<held>> \in Seq(Messages) /\ DOMAIN <<held>> = {1} /\ <<held>>[1] = held
      BY <3>2, Singles
    <3>4. ~For(held, s)
      BY <1>0, <3>2 DEF For, BaseInv
    <3>5. ~Waits(<<held>>, s)
      BY <3>3, <3>4 DEF Waits
    <3> QED BY <1>0, <1>1, <3>1, <3>3, <3>5, PostOther
  <2> QED BY <2>1, <2>2
<1> QED
  BY <1>3, <1>4, <1>5, <1>6, <1>7, <1>8, <1>9, <1>10 DEF MsgTask

\* A message that reads the settings again stays in the queue until it is handled.
LEMMA TaskReads ==
  ASSUME TypeInv, BaseInv, MsgTask, modem # "down",
         NEW r \in {"reads", "up"}, WaitsOpen(msgs, modem, r)
  PROVE  WaitsOpen(msgs', modem', r) \/ (HandleLong /\ For(Head(msgs), r))
<1>0. msgs \in Seq(Messages)
  BY DEF TypeInv
<1>1. ASSUME msgs # <<>>, Head(msgs).k # "open", ~For(Head(msgs), r), msgs' = Tail(msgs), modem' = modem
      PROVE  WaitsOpen(msgs', modem', r)
  BY <1>0, <1>1, TakeWaitsOpen
<1>2. ASSUME NEW ms \in Seq(Messages), msgs' = msgs \o ms, modem' = modem
      PROVE  WaitsOpen(msgs', modem', r)
  BY <1>0, <1>2, PostWaitsOpen
<1>3. CASE HandleLong
  BY <1>1, <1>3 DEF HandleLong
<1>4. CASE HandleAsk \/ HandleReport
  BY <1>1, <1>4 DEF HandleAsk, HandleReport, For
<1>5. CASE HandleSetting
  BY <1>1, <1>5 DEF HandleSetting, For, Keys
<1>6. CASE HandleOpen
  <2>1. msgs # <<>> /\ Head(msgs).k = "open" /\ msgs' = Tail(msgs) /\ modem' = "open"
    BY <1>6 DEF HandleOpen
  <2>2. ~For(Head(msgs), r)
    BY <2>1 DEF For
  <2> QED BY <1>0, <2>1, <2>2, TakeWaitsOpen
<1>7. CASE AddCapability \/ StepMake
  BY <1>7 DEF AddCapability, StepMake
<1>8. CASE StepPlain
  <2>1. CASE Head(todo) = "lock"
    BY <1>8, <2>1 DEF StepPlain
  <2>2. CASE Head(todo) # "lock"
    <3>1. Head(todo) \in {"ask", "report"} /\ msgs' = msgs \o <<Msg(Head(todo), None)>> /\ modem' = modem
      BY <1>8, <2>2 DEF StepPlain, Post
    <3>2. <<Msg(Head(todo), None)>> \in Seq(Messages)
      BY <3>1, MessagesAre, Singles
    <3> QED BY <1>2, <3>1, <3>2
  <2> QED BY <2>1, <2>2
<1>9. CASE StepSend
  <2>1. CASE held.k = "power"
    BY <1>9, <2>1 DEF StepSend
  <2>2. CASE held.k # "power"
    <3>1. msgs' = msgs \o <<held>> /\ modem' = modem
      BY <1>9, <2>2 DEF StepSend, Post
    <3>2. <<held>> \in Seq(Messages)
      BY <1>9, <2>2, Singles DEF StepSend, TypeInv, HeldType, NoMsg, Msg
    <3> QED BY <1>2, <3>1, <3>2
  <2> QED BY <2>1, <2>2
<1> QED
  BY <1>3, <1>4, <1>5, <1>6, <1>7, <1>8, <1>9 DEF MsgTask

\* The steps of the two longer handlers.
LEMMA StepsAre ==
  /\ StillTo(InitSteps, "ver") /\ StillTo(InitSteps, "data")
  /\ StillTo(UpSteps, "ver") /\ StillTo(UpSteps, "data") /\ StillTo(UpSteps, "server")
  /\ ~StillTo(UpSteps, "lock")
<1>1. ASSUME NEW p \in Seq(Steps), NEW q \in Seq(Steps), NEW s
      PROVE  StillTo(p \o q, s) <=> StillTo(p, s) \/ StillTo(q, s)
  <2>1. ASSUME StillTo(p \o q, s) PROVE StillTo(p, s) \/ StillTo(q, s)
    <3>1. PICK i \in DOMAIN (p \o q) : (p \o q)[i] = s
      BY <2>1 DEF StillTo
    <3>2. CASE i \in DOMAIN p
      BY <3>1, <3>2, Joined DEF StillTo
    <3>3. CASE i \notin DOMAIN p
      <4>1. i - Len(p) \in DOMAIN q /\ i = Len(p) + (i - Len(p))
        BY <3>3, Joined
      <4>2. (p \o q)[i] = q[i - Len(p)]
        BY <4>1, Joined
      <4> QED BY <3>1, <4>1, <4>2 DEF StillTo
    <3> QED BY <3>2, <3>3
  <2>2. ASSUME NEW i \in DOMAIN p, p[i] = s PROVE StillTo(p \o q, s)
    BY <2>2, Joined DEF StillTo
  <2>3. ASSUME NEW i \in DOMAIN q, q[i] = s PROVE StillTo(p \o q, s)
    <3>1. Len(p) + i \in DOMAIN (p \o q) /\ (p \o q)[Len(p) + i] = q[i]
      BY Joined
    <3> QED BY <2>3, <3>1 DEF StillTo
  <2> QED BY <2>1, <2>2, <2>3 DEF StillTo
<1>2. /\ Reinit \in Seq(Steps) /\ <<"lock", "report">> \in Seq(Steps)
      /\ <<"power", "server">> \in Seq(Steps)
  BY DEF Reinit, Steps
<1>3. DOMAIN Reinit = {1, 2, 3} /\ Reinit[1] = "ask" /\ Reinit[2] = "ver" /\ Reinit[3] = "data"
  BY DEF Reinit
<1>4. /\ DOMAIN <<"power", "server">> = {1, 2}
      /\ <<"power", "server">>[1] = "power" /\ <<"power", "server">>[2] = "server"
  OBVIOUS
<1>5. StillTo(Reinit, "ver") /\ StillTo(Reinit, "data") /\ ~StillTo(Reinit, "lock")
  BY <1>3 DEF StillTo
<1>6. StillTo(<<"power", "server">>, "server") /\ ~StillTo(<<"power", "server">>, "lock")
  BY <1>4 DEF StillTo
<1> QED BY <1>1, <1>2, <1>5, <1>6 DEF InitSteps, UpSteps

LEMMA StepOn ==
  ASSUME todo \in Seq(Steps), todo # <<>>, NEW s, StillTo(todo, s)
  PROVE  StillTo(Tail(todo), s) \/ Head(todo) = s
<1>1. PICK i \in DOMAIN todo : todo[i] = s
  BY DEF StillTo
<1>2. CASE i = 1
  BY <1>1, <1>2, Taken
<1>3. CASE i # 1
  <2>1. i - 1 \in DOMAIN Tail(todo) /\ Tail(todo)[i - 1] = todo[i]
    BY <1>3, Taken
  <2> QED BY <1>1, <2>1 DEF StillTo
<1> QED BY <1>2, <1>3

\* What the MsgTask does to a setting it makes and sends itself.
LEMMA TaskArrives ==
  ASSUME TypeInv, BaseInv, MsgTask, inited,
         NEW s, NEW r, NEW T,
         (s \in {"ver", "data"} /\ r = "reads") \/ (s = "server" /\ r = "up"),
         Arrives(msgs, modem, todo, held, has, s, r, T),
         StepMake /\ Head(todo) = s => held'.k = s /\ Value(held', s) \in T
  PROVE  Arrives(msgs', modem', todo', held', has', s, r, T)
<1>0. /\ msgs \in Seq(Messages) /\ todo \in Seq(Steps) /\ s \in Settled /\ s \in {"ver", "data", "server"}
      /\ r \in {"reads", "up"} /\ s # None
  BY DEF TypeInv, Settled, None
<1>1. CASE modem = "down"
  <2>1. modem' = "down"
    BY <1>1 DEF MsgTask, HandleLong, HandleSetting, HandleOpen, HandleAsk, AddCapability, HandleReport,
                StepPlain, StepMake, StepSend
  <2> QED BY <2>1 DEF Arrives
<1>2. CASE modem # "down" /\ WaitsOpen(msgs, modem, r)
  <2>1. CASE HandleLong /\ For(Head(msgs), r)
    <3>1. todo' = (IF Head(msgs).k = "init" THEN InitSteps ELSE UpSteps) /\ Head(msgs).k \in {"init", "up"}
      BY <2>1 DEF HandleLong
    <3>2. r = "up" => Head(msgs).k = "up"
      BY <2>1 DEF For
    <3> QED BY <3>1, <3>2, StepsAre DEF Arrives
  <2> QED BY <1>0, <1>2, <2>1, TaskReads DEF Arrives
<1>3. CASE StillTo(todo, s)
  <2>1. todo # <<>>
    BY <1>3 DEF StillTo
  <2>2. CASE StepPlain
    <3>1. todo' = Tail(todo) /\ Head(todo) # s
      BY <1>0, <2>2 DEF StepPlain
    <3> QED BY <1>0, <1>3, <2>1, <3>1, StepOn DEF Arrives
  <2>3. CASE StepMake /\ Head(todo) # s
    <3>1. todo' = Tail(todo)
      BY <2>3 DEF StepMake
    <3> QED BY <1>0, <1>3, <2>1, <2>3, <3>1, StepOn DEF Arrives
  <2>4. CASE StepMake /\ Head(todo) = s
    BY <2>4 DEF Arrives
  <2>5. CASE ~StepPlain /\ ~StepMake
    <3>1. todo' = todo
      BY <2>1, <2>5 DEF MsgTask, HandleLong, HandleSetting, HandleOpen, HandleAsk, AddCapability, HandleReport,
                        StepSend, engVars, Idle
    <3> QED BY <1>3, <3>1 DEF Arrives
  <2> QED BY <2>2, <2>3, <2>4, <2>5
<1>4. CASE modem # "down" /\ held.k = s /\ Value(held, s) \in T
  <2>1. StepSend
    BY <1>0, <1>4 DEF MsgTask, HandleLong, HandleSetting, HandleOpen, HandleAsk, AddCapability, HandleReport,
                      StepPlain, StepMake, Idle
  <2>2. msgs' = msgs \o <<held>> /\ has' = has /\ modem' = modem /\ held' = NoMsg
    BY <1>0, <1>4, <2>1 DEF StepSend, Post
  <2>3. held \in Messages
    BY <1>0, <1>4 DEF TypeInv, HeldType, NoMsg, Msg, None
  <2>4. <<held>> \in Seq(Messages) /\ DOMAIN <<held>> = {1} /\ <<held>>[1] = held
    BY <2>3, Singles
  <2>5. For(held, s)
    BY <1>0, <1>4 DEF For
  <2>6. Waits(<<held>>, s) /\ LastIn(<<held>>, s, T)
    BY <1>4, <2>4, <2>5 DEF Waits, LastIn
  <2>7. modem = "open" \/ Waits(msgs, "open")
    BY <1>4 DEF BaseInv, TypeInv
  <2>8. NotStale(msgs', has', s, T) /\ Reaches(msgs', modem', has', s)
    BY <1>0, <2>2, <2>4, <2>6, <2>7, PostSame
  <2>9. held'.k # s
    BY <1>0, <2>2 DEF NoMsg, Msg
  <2> QED BY <2>8, <2>9 DEF Arrives
<1>5. CASE modem # "down" /\ held.k # s /\ NotStale(msgs, has, s, T) /\ Reaches(msgs, modem, has, s)
  <2>1. CASE StepMake /\ Head(todo) = s
    BY <2>1 DEF Arrives
  <2>2. CASE ~(StepMake /\ Head(todo) = s)
    <3>1. StepPlain => Head(todo) # s
      BY <1>0 DEF StepPlain
    <3>2. NotStale(msgs', has', s, T) /\ Reaches(msgs', modem', has', s)
      BY <1>0, <1>5, <3>1, TaskKeeps
    <3>3. held'.k # s
      <4>1. CASE StepMake
        BY <1>0, <2>2, <4>1 DEF StepMake, Made, NoMsg, Msg
      <4>2. CASE ~StepMake
        BY <1>0, <1>5, <4>2 DEF MsgTask, HandleLong, HandleSetting, HandleOpen, HandleAsk, AddCapability,
                                HandleReport, StepPlain, StepSend, NoMsg, Msg, engVars
      <4> QED BY <4>1, <4>2
    <3> QED BY <3>2, <3>3 DEF Arrives
  <2> QED BY <2>1, <2>2
<1> QED BY <1>1, <1>2, <1>3, <1>4, <1>5 DEF Arrives

-----------------------------------------------------------------------------
(* Posting in the framework's thread. *)
LEMMA SinglePost ==
  ASSUME NEW a \in Messages
  PROVE  /\ <<a>> \in Seq(Messages)
         /\ \A s : Waits(<<a>>, s) <=> For(a, s)
         /\ \A s, T : LastIn(<<a>>, s, T) <=> (For(a, s) => Value(a, s) \in T)
         /\ a.k # "init" => Followed(<<a>>)
<1>1. <<a>> \in Seq(Messages) /\ DOMAIN <<a>> = {1} /\ <<a>>[1] = a
  BY Singles
<1> QED BY <1>1 DEF Waits, LastIn, Followed

LEMMA NoPost == <<>> \in Seq(Messages) /\ Followed(<<>>) /\ \A s : ~Waits(<<>>, s)
BY Singles DEF Waits, Followed

LEMMA PostFollowed ==
  ASSUME NEW q \in Seq(Messages), NEW ms \in Seq(Messages), Followed(q), Followed(ms)
  PROVE  Followed(q \o ms)
<1> SUFFICES ASSUME NEW i \in DOMAIN (q \o ms), (q \o ms)[i].k = "init"
             PROVE  \E j \in DOMAIN (q \o ms) : j > i /\ (q \o ms)[j].k = "lock"
  BY DEF Followed
<1>1. CASE i \in DOMAIN q
  <2>1. PICK j \in DOMAIN q : j > i /\ q[j].k = "lock"
    BY <1>1, Joined DEF Followed
  <2> QED BY <2>1, Joined
<1>2. CASE i \notin DOMAIN q
  <2>1. i - Len(q) \in DOMAIN ms /\ i = Len(q) + (i - Len(q)) /\ Len(q) \in Nat
    BY <1>2, Joined
  <2>2. ms[i - Len(q)].k = "init"
    BY <2>1, Joined
  <2>3. PICK j \in DOMAIN ms : j > i - Len(q) /\ ms[j].k = "lock"
    BY <2>1, <2>2 DEF Followed
  <2>4. Len(q) + j \in DOMAIN (q \o ms) /\ (q \o ms)[Len(q) + j] = ms[j] /\ j \in Nat
    BY Joined
  <2>5. Len(q) + j > i
    BY <2>1, <2>3, <2>4, Joined
  <2> QED BY <2>3, <2>4, <2>5
<1> QED BY <1>1, <1>2

LEMMA TakeFollowed ==
  ASSUME NEW q \in Seq(Messages), q # <<>>, Followed(q)
  PROVE  Followed(Tail(q)) /\ (Head(q).k = "init" => Waits(Tail(q), "lock"))
<1>1. ASSUME NEW i \in DOMAIN Tail(q), Tail(q)[i].k = "init"
      PROVE  \E j \in DOMAIN Tail(q) : j > i /\ Tail(q)[j].k = "lock"
  <2>1. i \in Nat /\ i >= 1 /\ i + 1 \in DOMAIN q /\ q[i + 1].k = "init"
    BY <1>1, Taken
  <2>2. PICK j \in DOMAIN q : j > i + 1 /\ q[j].k = "lock"
    BY <2>1 DEF Followed
  <2>3. j \in Nat /\ j # 1
    BY <2>1, <2>2, Taken
  <2>4. j - 1 \in DOMAIN Tail(q) /\ Tail(q)[j - 1] = q[j] /\ j - 1 > i
    BY <2>1, <2>2, <2>3, Taken
  <2> QED BY <2>2, <2>4
<1>2. ASSUME Head(q).k = "init" PROVE Waits(Tail(q), "lock")
  <2>1. PICK j \in DOMAIN q : j > 1 /\ q[j].k = "lock"
    BY <1>2, Taken DEF Followed
  <2>2. j - 1 \in DOMAIN Tail(q) /\ Tail(q)[j - 1] = q[j]
    BY <2>1, Taken
  <2> QED BY <2>1, <2>2 DEF Waits, For
<1> QED BY <1>1, <1>2 DEF Followed

\* With a larger set of values less is said.
LEMMA Wider ==
  ASSUME NEW q, NEW m, NEW t, NEW x, NEW h, NEW s, NEW r, NEW T, NEW U, T \subseteq U
  PROVE  /\ NotStale(q, h, s, T) => NotStale(q, h, s, U)
         /\ Arrives(q, m, t, x, h, s, r, T) => Arrives(q, m, t, x, h, s, r, U)
<1>1. NotStale(q, h, s, T) => NotStale(q, h, s, U)
  BY DEF NotStale, LastIn
<1> QED BY <1>1 DEF Arrives

LEMMA PostArrives ==
  ASSUME TypeInv, NEW ms \in Seq(Messages), msgs' = msgs \o ms, UNCHANGED <<modem, todo, held>>,
         NEW s, NEW r, NEW T, ~Waits(ms, s), SameAt(has, has', s),
         Arrives(msgs, modem, todo, held, has, s, r, T)
  PROVE  Arrives(msgs', modem', todo', held', has', s, r, T)
<1>0. msgs \in Seq(Messages)
  BY DEF TypeInv
<1>1. WaitsOpen(msgs, modem, r) => WaitsOpen(msgs', modem', r)
  BY <1>0, PostWaitsOpen
<1>2. /\ NotStale(msgs, has, s, T) => NotStale(msgs', has', s, T)
      /\ Reaches(msgs, modem, has, s) => Reaches(msgs', modem', has', s)
  BY <1>0, PostOther
<1> QED BY <1>1, <1>2 DEF Arrives

LEMMA PostedArrives ==
  ASSUME TypeInv, BaseInv, inited, NEW ms \in Seq(Messages), msgs' = msgs \o ms, UNCHANGED <<modem, todo, held>>,
         NEW s, NEW r, NEW T, held.k # s, Waits(ms, s), LastIn(ms, s, T)
  PROVE  Arrives(msgs', modem', todo', held', has', s, r, T)
<1>0. msgs \in Seq(Messages)
  BY DEF TypeInv
<1>1. modem = "down" \/ modem = "open" \/ Waits(msgs, "open")
  BY DEF BaseInv, TypeInv
<1>2. NotStale(msgs', has', s, T)
  BY <1>0, PostSame
<1>3. modem = "down" \/ Reaches(msgs', modem', has', s)
  BY <1>0, <1>1, PostSame
<1> QED BY <1>2, <1>3 DEF Arrives

-----------------------------------------------------------------------------
(* What a step of the framework's thread does to each part. *)
LEMMA BasePost ==
  ASSUME TypeInv, BaseInv, NEW ms \in Seq(Messages), msgs' = msgs \o ms,
         UNCHANGED <<modem, todo, held, inited, restarts>>,
         inited \/ (ms = <<>> /\ apn' = apn), modem # "open" => DOMAIN has' = {}
  PROVE  BaseInv'
<1>1. Waits(msgs, "open") => Waits(msgs', "open")
  BY PostWaits DEF TypeInv
<1>2. ms = <<>> => msgs' = msgs
  BY ConcatEmptySeq DEF TypeInv
<1> QED BY <1>1, <1>2 DEF BaseInv

LEMMA VerPost ==
  ASSUME TypeInv, VerInv, NEW ms \in Seq(Messages), msgs' = msgs \o ms,
         UNCHANGED <<modem, todo, held, inited>>,
         ~Waits(ms, "ver"), SameAt(has, has', "ver"), "ver" \in late' <=> "ver" \in late,
         Vers \subseteq Vers', fw'.pc = "copied" => fw'.v.ver = conf'.ver
  PROVE  VerInv'
<1>1. ASSUME inited', "ver" \notin late'
      PROVE  Arrives(msgs', modem', todo', held', has', "ver", "reads", Vers')
  <2>1. Arrives(msgs, modem, todo, held, has, "ver", "reads", Vers)
    BY <1>1 DEF VerInv
  <2>2. Arrives(msgs', modem', todo', held', has', "ver", "reads", Vers)
    BY <2>1, PostArrives
  <2> QED BY <2>2, Wider
<1> QED BY <1>1 DEF VerInv

LEMMA DataPost ==
  ASSUME TypeInv, DataInv, NEW ms \in Seq(Messages), msgs' = msgs \o ms,
         UNCHANGED <<modem, todo, held, inited, status>>,
         ~Waits(ms, "data"), SameAt(has, has', "data"), "data" \in late' <=> "data" \in late
  PROVE  DataInv'
<1>1. ASSUME inited', "data" \notin late'
      PROVE  Arrives(msgs', modem', todo', held', has', "data", "reads", {status'})
  <2>1. Arrives(msgs, modem, todo, held, has, "data", "reads", {status})
    BY <1>1 DEF DataInv
  <2>2. Arrives(msgs', modem', todo', held', has', "data", "reads", {status})
    BY <2>1, PostArrives
  <2> QED BY <2>2
<1> QED BY <1>1 DEF DataInv

LEMMA ServerPost ==
  ASSUME TypeInv, ServerInv, NEW ms \in Seq(Messages), msgs' = msgs \o ms,
         UNCHANGED <<modem, todo, held, inited>>,
         ~Waits(ms, "server"), SameAt(has, has', "server"), "server" \in late' <=> "server" \in late,
         agps' /\ host' # None /\ fw'.pc # "server" => agps /\ host' = host /\ fw.pc # "server"
  PROVE  ServerInv'
<1>1. ASSUME inited', agps', host' # None, fw'.pc # "server", "server" \notin late'
      PROVE  Arrives(msgs', modem', todo', held', has', "server", "up", {host'})
  <2>1. Arrives(msgs, modem, todo, held, has, "server", "up", {host})
    BY <1>1 DEF ServerInv
  <2>2. Arrives(msgs', modem', todo', held', has', "server", "up", {host})
    BY <2>1, PostArrives
  <2> QED BY <2>2, <1>1
<1> QED BY <1>1 DEF ServerInv

LEMMA MeasPost ==
  ASSUME TypeInv, MeasInv, NEW ms \in Seq(Messages), msgs' = msgs \o ms,
         UNCHANGED <<modem, meas>>, ~Waits(ms, "meas"), SameAt(has, has', "meas")
  PROVE  MeasInv'
<1>1. NotStale(msgs', has', "meas", IF meas THEN {TRUE} ELSE BOOLEAN)
  BY PostOther DEF MeasInv, TypeInv
<1> QED BY <1>1 DEF MeasInv, SameAt

LEMMA LockPost ==
  ASSUME TypeInv, LockInv, NEW ms \in Seq(Messages), msgs' = msgs \o ms,
         UNCHANGED <<modem, todo, inited, restarts>>,
         ~Waits(ms, "lock"), Followed(ms), SameAt(has, has', "lock"),
         fw'.pc # "updated" => fw.pc # "updated" /\ vote' = vote /\ conf'.lock = conf.lock
  PROVE  LockInv'
<1>0. msgs \in Seq(Messages)
  BY DEF TypeInv
<1>1. LockFollows'
  BY <1>0, PostFollowed, PostWaits DEF LockInv, LockFollows
<1>2. ASSUME fw'.pc # "updated" PROVE NotStale(msgs', has', "lock", {IF vote' THEN 0 ELSE conf'.lock})
  <2>1. NotStale(msgs, has, "lock", {IF vote THEN 0 ELSE conf.lock})
    BY <1>2 DEF LockInv
  <2>2. NotStale(msgs', has', "lock", {IF vote THEN 0 ELSE conf.lock})
    BY <1>0, <2>1, PostOther
  <2>3. (IF vote' THEN 0 ELSE conf'.lock) = (IF vote THEN 0 ELSE conf.lock)
    BY <1>2
  <2> QED BY <2>2, <2>3
<1>3. ASSUME inited', restarts' = 0 PROVE Reaches(msgs', modem', has', "lock")
  BY <1>0, <1>3, PostOther DEF LockInv
<1> QED BY <1>1, <1>2, <1>3 DEF LockInv

LEMMA LockPosted ==
  ASSUME TypeInv, BaseInv, LockInv, NEW ms \in Seq(Messages), msgs' = msgs \o ms,
         UNCHANGED <<modem, todo, restarts>>, inited \/ WaitsOpen(ms, modem, "lock"),
         Waits(ms, "lock"), LastIn(ms, "lock", {IF vote' THEN 0 ELSE conf'.lock}), Followed(ms)
  PROVE  LockInv'
<1>0. msgs \in Seq(Messages)
  BY DEF TypeInv
<1>1. LockFollows'
  BY <1>0, PostFollowed, PostWaits DEF LockInv, LockFollows
<1>2. NotStale(msgs', has', "lock", {IF vote' THEN 0 ELSE conf'.lock})
  BY <1>0, PostSame
<1>3. ASSUME restarts' = 0 PROVE Reaches(msgs', modem', has', "lock")
  <2>1. modem = "open" \/ Waits(msgs, "open") \/ WaitsOpen(ms, modem, "lock")
    BY <1>3 DEF BaseInv, TypeInv
  <2> QED BY <1>0, <2>1, PostSame
<1> QED BY <1>1, <1>2, <1>3 DEF LockInv

LEMMA ApnPost ==
  ASSUME TypeInv, ApnInv, NEW ms \in Seq(Messages), msgs' = msgs \o ms,
         UNCHANGED <<modem, apn, restarts>>, inited' /\ apn # None => inited,
         ~Waits(ms, "apn"), SameAt(has, has', "apn")
  PROVE  ApnInv'
<1>0. msgs \in Seq(Messages)
  BY DEF TypeInv
<1>1. NotStale(msgs', has', "apn", {apn})
  BY <1>0, PostOther DEF ApnInv
<1>2. ASSUME inited', restarts' = 0, apn # None PROVE Reaches(msgs', modem', has', "apn")
  BY <1>0, <1>2, PostOther DEF ApnInv
<1> QED BY <1>1, <1>2 DEF ApnInv

LEMMA NewerElsewhere ==
  ASSUME NEW keys, NEW s, s \notin keys, Newer(keys)
  PROVE  s \in late' <=> s \in late
  BY DEF Newer

LEMMA VoteSame ==
  ASSUME NEW on, VotePower(on), NEW s \in Settled
  PROVE  /\ SameAt(has, has', s)
         /\ s # "lock" => (s \in late' <=> s \in late)
<1>1. SameAt(has, has', s)
  <2>1. CASE QCA1530
    <3>1. Give([power |-> on])
      BY <2>1 DEF VotePower
    <3>2. s \notin DOMAIN [power |-> on]
      BY DEF Settled
    <3> QED BY <3>1, <3>2, GiveOther
  <2>2. CASE ~QCA1530
    BY <2>2 DEF VotePower, SameAt
  <2> QED BY <2>1, <2>2
<1>2. ASSUME s # "lock" PROVE s \in late' <=> s \in late
  <2>1. s \notin {"power", "lock"} /\ s \notin {"lock"}
    BY <1>2 DEF Settled
  <2> QED BY <2>1, NewerElsewhere DEF VotePower
<1> QED BY <1>1, <1>2

LEMMA VotePowers ==
  ASSUME TypeInv, BaseInv, PowerInv, NEW on, VotePower(on), UNCHANGED <<held, modem>>
  PROVE  PowerInv' /\ (modem # "open" => DOMAIN has' = {})
<1>1. CASE QCA1530
  <2>1. Give([power |-> on]) /\ vote' = on
        /\ late' = (late \ {"power", "lock"}) \union (IF held.k \in {"power", "lock"} THEN {held.k} ELSE {})
    BY <1>1 DEF VotePower, Newer
  <2>2. CASE modem = "open"
    <3> DEFINE new == [power |-> on]
    <3>1. DOMAIN new = {"power"} /\ new["power"] = on
      OBVIOUS
    <3> HIDE DEF new
    <3>2. has' = Over(new, has)
      BY <2>1, <2>2 DEF Give, new
    <3>3. "power" \in DOMAIN has' /\ has'["power"] = on
      BY <3>1, <3>2 DEF Over
    <3> QED BY <1>1, <2>1, <2>2, <3>3 DEF PowerInv
  <2>3. CASE modem # "open"
    BY <1>1, <2>1, <2>3 DEF Give, BaseInv, PowerInv
  <2> QED BY <2>2, <2>3
<1>2. CASE ~QCA1530
  BY <1>2 DEF VotePower, PowerInv, BaseInv
<1> QED BY <1>1, <1>2

LEMMA SameIsSame == \A s : SameAt(has, has, s)
BY DEF SameAt

\* The vote changes and the lock that goes with it is posted.
LEMMA VoteKeeps ==
  ASSUME TypeInv, Arriving, inited, NEW on, VotePower(on),
         NEW l \in Locks \union {0}, l = (IF on THEN 0 ELSE conf.lock), Post(<<Msg("lock", l)>>),
         UNCHANGED <<modem, todo, held, inited, restarts, conf, status, host, apn, agps, meas, fw>>
  PROVE  Arriving'
<1> USE DEF Arriving
<1> DEFINE a == Msg("lock", l)
           ms == <<a>>
<1>1. msgs' = msgs \o ms
  BY DEF Post
<1>3. a \in Messages /\ a.k = "lock" /\ a.v = l
  BY MessagesAre DEF Msg
<1> HIDE DEF a
<1>4. ms \in Seq(Messages) /\ Followed(ms)
  BY <1>3, SinglePost
<1>5. \A s : Waits(ms, s) <=> s = "lock"
  BY <1>3, SinglePost DEF For
<1>6. LastIn(ms, "lock", {l})
  BY <1>3, SinglePost DEF Value
<1> HIDE DEF ms
<1>7. PowerInv' /\ (modem # "open" => DOMAIN has' = {})
  BY VotePowers
<1>8. BaseInv'
  BY <1>1, <1>4, <1>7, BasePost
<1>9. VerInv'
  BY <1>1, <1>4, <1>5, VoteSame, VerPost DEF Settled, Vers, VerInv
<1>10. DataInv'
  BY <1>1, <1>4, <1>5, VoteSame, DataPost DEF Settled
<1>11. ServerInv'
  BY <1>1, <1>4, <1>5, VoteSame, ServerPost DEF Settled
<1>12. MeasInv'
  BY <1>1, <1>4, <1>5, VoteSame, MeasPost DEF Settled
<1>13. LockInv'
  <2>1. vote' = on
    BY DEF VotePower
  <2>2. LastIn(ms, "lock", {IF vote' THEN 0 ELSE conf'.lock})
    BY <1>6, <2>1
  <2> QED BY <1>1, <1>4, <1>5, <2>2, LockPosted
<1>14. ApnInv'
  BY <1>1, <1>4, <1>5, VoteSame, ApnPost DEF Settled
<1> QED BY <1>7, <1>8, <1>9, <1>10, <1>11, <1>12, <1>13, <1>14

LEMMA FwCleanupKeeps == TypeInv /\ Arriving /\ FwCleanup => Arriving'
<1> SUFFICES ASSUME TypeInv, Arriving, FwCleanup PROVE Arriving'
  OBVIOUS
<1>1. Post(<<Msg("lock", conf.lock)>>) /\ VotePower(FALSE) /\ inited
  BY DEF FwCleanup
<1>2. UNCHANGED <<modem, todo, held, inited, restarts, conf, status, host, apn, agps, meas, fw>>
  BY DEF FwCleanup, engVars, Call
<1>3. conf.lock \in Locks \union {0}
  BY DEF TypeInv, Configurations
<1> QED BY <1>1, <1>2, <1>3, VoteKeeps

\* A second initialisation.
LEMMA FwInitAgainKeeps == TypeInv /\ Arriving /\ FwInit /\ inited => Arriving'
<1> SUFFICES ASSUME TypeInv, Arriving, FwInit, inited PROVE Arriving'
  OBVIOUS
<1>1. Post(<<Msg("lock", 0)>>) /\ VotePower(TRUE)
  <2>1. <<Msg("lock", 0)>> \in Seq(Messages)
    BY MessagesAre, Singles
  <2>2. <<>> \o <<Msg("lock", 0)>> = <<Msg("lock", 0)>>
    BY <2>1, ConcatEmptySeq
  <2> QED BY <2>2 DEF FwInit
<1>2. UNCHANGED <<modem, todo, held, inited, restarts, conf, status, host, apn, agps, meas, fw>>
  BY DEF FwInit, EngInit, engVars, Call, TypeInv
<1> QED BY <1>1, <1>2, VoteKeeps

\* The first initialisation: nothing is left from before it, and the handler of
\* "init" reads the settings once the modem is open.
LEMMA FwInitFirstKeeps == TypeInv /\ Arriving /\ FwInit /\ ~inited => Arriving'
<1> SUFFICES ASSUME TypeInv, Arriving, FwInit, ~inited PROVE Arriving'
  OBVIOUS
<1> USE DEF Arriving
<1> DEFINE b == <<Msg("open", None), Msg("init", None)>>
           a == Msg("lock", 0)
           ms == b \o <<a>>
<1>1. msgs' = msgs \o ms /\ VotePower(TRUE)
  BY DEF FwInit, Post
<1>2. /\ UNCHANGED <<modem, todo, held, restarts, conf, status, apn, fw>>
      /\ inited' = TRUE /\ host' = None /\ agps' = FALSE /\ meas' = FALSE
  BY DEF FwInit, EngInit, engVars, FirstCall, bounds
<1>3. a \in Messages /\ a.k = "lock" /\ a.v = 0
  BY MessagesAre DEF Msg
<1>4. /\ b \in Seq(Messages) /\ DOMAIN b = {1, 2}
      /\ b[1] = Msg("open", None) /\ b[2] = Msg("init", None)
      /\ b[1].k = "open" /\ b[2].k = "init"
  BY MessagesAre, Singles DEF Msg
<1> HIDE DEF a, b
<1>5. /\ <<a>> \in Seq(Messages) /\ ms \in Seq(Messages)
      /\ \A s : Waits(<<a>>, s) <=> s = "lock"
      /\ LastIn(<<a>>, "lock", {0})
  <2>1. <<a>> \in Seq(Messages)
    BY <1>3, SinglePost
  <2>2. \A s : Waits(<<a>>, s) <=> s = "lock"
    BY <1>3, SinglePost DEF For
  <2>3. LastIn(<<a>>, "lock", {0})
    BY <1>3, SinglePost DEF Value
  <2>4. ms \in Seq(Messages)
    BY <1>4, <2>1, Joined
  <2> QED BY <2>1, <2>2, <2>3, <2>4
<1>6. \A s : Waits(b, s) <=> s \in {"open", "init", "reads"}
  BY <1>4 DEF Waits, For
<1>7. \A s : Waits(ms, s) <=> s \in {"open", "init", "reads", "lock"}
  BY <1>4, <1>5, <1>6, PostWaits
<1>8. WaitsOpen(ms, modem, "reads")
  <2>1. WaitsOpen(b, modem, "reads")
    BY <1>4 DEF WaitsOpen, For
  <2> QED BY <1>4, <1>5, <2>1, PostWaitsOpen
<1>9. WaitsOpen(ms, modem, "lock")
  BY <1>4, <1>5, <1>6, PostWaitsOpen
<1>10. LastIn(ms, "lock", {0})
  BY <1>4, <1>5, PostLastIn
<1>11. Followed(ms)
  <2>1. DOMAIN ms = 1 .. 3 /\ ms[1] = b[1] /\ ms[2] = b[2] /\ ms[3] = a
    BY <1>4 DEF b
  <2> QED BY <2>1, <1>3, <1>4 DEF Followed
<1> HIDE DEF ms
<1>12. msgs \in Seq(Messages)
  BY DEF TypeInv
<1>13. PowerInv' /\ DOMAIN has' = {} /\ modem # "open"
  BY <1>1, <1>2, VotePowers DEF BaseInv
<1>14. BaseInv'
  <2>1. Waits(msgs', "open")
    BY <1>1, <1>5, <1>7, <1>12, PostWaits
  <2> QED BY <1>2, <1>13, <2>1 DEF BaseInv, NoMsg, Msg, None
<1>15. WaitsOpen(msgs', modem', "reads")
  BY <1>1, <1>2, <1>5, <1>8, <1>12, PostWaitsOpen
<1>16. VerInv' /\ DataInv'
  BY <1>2, <1>15 DEF VerInv, DataInv, Arrives
<1>17. ServerInv'
  BY <1>2 DEF ServerInv
<1>18. MeasInv'
  <2>1. SameAt(has, has', "meas")
    BY <1>1, VoteSame DEF Settled
  <2>4. ~Waits(ms, "meas")
    BY <1>7
  <2>2. NotStale(msgs', has', "meas", IF meas THEN {TRUE} ELSE BOOLEAN)
    BY <1>1, <1>5, <1>12, <2>1, <2>4, PostOther DEF MeasInv
  <2>3. NotStale(msgs', has', "meas", BOOLEAN)
    BY <2>2, Wider
  <2> QED BY <1>2, <1>13, <2>3 DEF MeasInv
<1>19. LockInv'
  <2>1. vote' = TRUE
    BY <1>1 DEF VotePower
  <2>2. LastIn(ms, "lock", {IF vote' THEN 0 ELSE conf'.lock})
    BY <1>10, <2>1
  <2> QED BY <1>1, <1>2, <1>5, <1>7, <1>9, <1>11, <2>2, LockPosted
<1>20. ApnInv'
  BY <1>1, <1>2, <1>5, <1>7, VoteSame, ApnPost DEF Settled, BaseInv
<1> QED BY <1>13, <1>14, <1>16, <1>17, <1>18, <1>19, <1>20

\* Nothing is posted.
LEMMA QuietKeeps ==
  ASSUME TypeInv, Arriving,
         UNCHANGED <<msgs, has, late, modem, todo, held, inited, restarts, status, vote, meas, apn, agps>>,
         Vers \subseteq Vers', fw'.pc = "copied" => fw'.v.ver = conf'.ver,
         host' # None /\ fw'.pc # "server" => host' = host /\ fw.pc # "server",
         fw'.pc # "updated" => fw.pc # "updated" /\ conf'.lock = conf.lock
  PROVE  Arriving'
<1> USE DEF Arriving
<1> DEFINE ms == <<>>
<1>1. msgs' = msgs \o ms
  BY ConcatEmptySeq DEF TypeInv
<1>2. ms \in Seq(Messages) /\ Followed(ms) /\ \A s : ~Waits(ms, s)
  BY NoPost
<1>3. ms = <<>>
  OBVIOUS
<1> HIDE DEF ms
<1>4. \A s : SameAt(has, has', s)
  BY SameIsSame
<1>5. BaseInv'
  BY <1>1, <1>2, <1>3, BasePost DEF BaseInv
<1>6. VerInv'
  BY <1>1, <1>2, <1>4, VerPost
<1>7. DataInv'
  BY <1>1, <1>2, <1>4, DataPost
<1>8. ServerInv'
  BY <1>1, <1>2, <1>4, ServerPost
<1>9. PowerInv'
  BY DEF PowerInv
<1>10. MeasInv'
  BY <1>1, <1>2, <1>4, MeasPost
<1>11. LockInv'
  BY <1>1, <1>2, <1>4, LockPost
<1>12. ApnInv'
  BY <1>1, <1>2, <1>4, ApnPost
<1> QED BY <1>5, <1>6, <1>7, <1>8, <1>9, <1>10, <1>11, <1>12

LEMMA FwSetServerKeeps ==
  ASSUME TypeInv, Arriving, NEW h, FwSetServer(h) PROVE Arriving'
<1>1. UNCHANGED <<msgs, has, late, modem, todo, held, inited, restarts, status, vote, meas, apn, agps, conf>>
  BY DEF FwSetServer, Call, engVars
<1>2. fw.pc = "idle" /\ fw'.pc = "server"
  BY DEF FwSetServer, Call
<1>3. Vers \subseteq Vers'
  BY <1>1, <1>2 DEF Vers
<1> QED BY <1>1, <1>2, <1>3, QuietKeeps

LEMMA FwUpdateKeeps == TypeInv /\ Arriving /\ FwUpdate => Arriving'
<1> SUFFICES ASSUME TypeInv, Arriving, FwUpdate PROVE Arriving'
  OBVIOUS
<1>1. UNCHANGED <<msgs, has, late, modem, todo, held, inited, restarts, status, vote, meas, apn, agps, host, conf>>
  BY DEF FwUpdate, Call, engVars
<1>2. fw.pc = "idle" /\ fw'.pc = "copied" /\ fw'.v = conf
  BY DEF FwUpdate, Call
<1>3. Vers \subseteq Vers'
  BY <1>1, <1>2 DEF Vers
<1> QED BY <1>1, <1>2, <1>3, QuietKeeps

\* What is read replaces the version at once; what the modem has, or will have,
\* is the one put aside until the new one is posted.
LEMMA FwReadDataKeeps ==
  ASSUME TypeInv, Arriving, NEW ver, NEW lock, NEW caps, FwReadData(ver, lock, caps) PROVE Arriving'
<1>1. UNCHANGED <<msgs, has, late, modem, todo, held, inited, restarts, status, vote, meas, apn, agps, host>>
  BY DEF FwReadData, engVars, bounds
<1>2. fw.pc = "copied" /\ fw'.pc = "updated" /\ fw'.v = fw.v
  BY DEF FwReadData, TypeInv, FwType
<1>3. fw.v.ver = conf.ver
  BY <1>2 DEF Arriving, VerInv
<1>4. Vers \subseteq Vers'
  BY <1>2, <1>3 DEF Vers
<1> QED BY <1>1, <1>2, <1>4, QuietKeeps

LEMMA FwRestoreKeeps == TypeInv /\ Arriving /\ FwRestore => Arriving'
<1> SUFFICES ASSUME TypeInv, Arriving, FwRestore PROVE Arriving'
  OBVIOUS
<1>1. UNCHANGED <<msgs, has, late, modem, todo, held, inited, restarts, status, vote, meas, apn, agps, host>>
  BY DEF FwRestore, engVars, bounds
<1>2. fw.pc = "posted" /\ fw'.pc \in {"mask", "idle"}
  BY DEF FwRestore
<1>3. conf'.ver = conf.ver /\ conf'.lock = conf.lock
  BY DEF FwRestore, TypeInv, Configurations
<1>4. Vers \subseteq Vers'
  BY <1>2, <1>3 DEF Vers
<1> QED BY <1>1, <1>2, <1>3, <1>4, QuietKeeps

LEMMA FwMaskKeeps == TypeInv /\ Arriving /\ FwMask => Arriving'
<1> SUFFICES ASSUME TypeInv, Arriving, FwMask PROVE Arriving'
  OBVIOUS
<1>1. UNCHANGED <<msgs, has, late, modem, todo, held, inited, restarts, status, vote, meas, apn, agps, host>>
  BY DEF FwMask, engVars, bounds
<1>2. fw.pc = "mask" /\ fw'.pc = "idle"
  BY DEF FwMask
<1>3. conf'.ver = conf.ver /\ conf'.lock = conf.lock
  BY DEF FwMask, TypeInv, Configurations
<1>4. Vers \subseteq Vers'
  BY <1>2, <1>3 DEF Vers
<1> QED BY <1>1, <1>2, <1>3, <1>4, QuietKeeps

\* What most calls of an initialised engine leave as it is: they post ms and
\* tell the modem nothing themselves.
LEMMA CallKeeps ==
  ASSUME TypeInv, Arriving, inited, NEW ms \in Seq(Messages), Followed(ms), msgs' = msgs \o ms,
         UNCHANGED <<has, modem, todo, held, inited, restarts, conf, vote>>,
         fw.pc \in {"idle", "server"}, fw'.pc \in {"idle", "server"},
         ~Waits(ms, "ver"), "ver" \in late' <=> "ver" \in late,
         ~Waits(ms, "lock"), "power" \in late' <=> "power" \in late
  PROVE  BaseInv' /\ VerInv' /\ PowerInv' /\ LockInv'
<1> USE DEF Arriving
<1>1. \A s : SameAt(has, has', s)
  BY SameIsSame
<1>2. BaseInv'
  BY BasePost DEF BaseInv
<1>3. Vers \subseteq Vers'
  BY DEF Vers
<1>4. VerInv'
  BY <1>1, <1>3, VerPost
<1>5. PowerInv'
  BY DEF PowerInv
<1>6. LockInv'
  BY <1>1, LockPost
<1> QED BY <1>2, <1>4, <1>5, <1>6

\* A message for the server is posted, in loc_eng_agps_reinit and in
\* loc_eng_set_server.
LEMMA ServerKeeps ==
  ASSUME TypeInv, Arriving, inited, NEW h \in Hosts, Post(<<Msg("server", h)>>), Newer({"server"}),
         UNCHANGED <<has, modem, todo, held, inited, restarts, conf, vote, status, meas, apn>>,
         fw.pc \in {"idle", "server"}, fw'.pc = "idle", host' = h
  PROVE  Arriving'
<1> USE DEF Arriving
<1> DEFINE a == Msg("server", h)
           ms == <<a>>
<1>1. msgs' = msgs \o ms
  BY DEF Post
<1>2. a \in Messages /\ a.k = "server" /\ a.v = h
  BY MessagesAre DEF Msg
<1> HIDE DEF a
<1>3. ms \in Seq(Messages) /\ Followed(ms)
  BY <1>2, SinglePost
<1>4. \A s : Waits(ms, s) <=> s = "server"
  BY <1>2, SinglePost DEF For
<1>5. LastIn(ms, "server", {h})
  BY <1>2, SinglePost DEF Value
<1> HIDE DEF ms
<1>6. \A s : SameAt(has, has', s)
  BY SameIsSame
<1>7. \A s : s # "server" => (s \in late' <=> s \in late)
  BY NewerElsewhere
<1>8. BaseInv' /\ VerInv' /\ PowerInv' /\ LockInv'
  BY <1>1, <1>3, <1>4, <1>7, CallKeeps
<1>9. DataInv'
  BY <1>1, <1>3, <1>4, <1>6, <1>7, DataPost
<1>10. ServerInv'
  <2>1. ASSUME "server" \notin late'
        PROVE  Arrives(msgs', modem', todo', held', has', "server", "up", {host'})
    <3>1. held.k # "server"
      BY <2>1 DEF Newer
    <3>2. Arrives(msgs', modem', todo', held', has', "server", "up", {h})
      BY <1>1, <1>3, <1>4, <1>5, <3>1, PostedArrives
    <3> QED BY <3>2
  <2> QED BY <2>1 DEF ServerInv
<1>11. MeasInv'
  BY <1>1, <1>3, <1>4, <1>6, MeasPost
<1>12. ApnInv'
  BY <1>1, <1>3, <1>4, <1>6, ApnPost
<1> QED BY <1>8, <1>9, <1>10, <1>11, <1>12

LEMMA FwAgpsInitKeeps == TypeInv /\ Arriving /\ FwAgpsInit => Arriving'
<1> SUFFICES ASSUME TypeInv, Arriving, FwAgpsInit PROVE Arriving'
  OBVIOUS
<1>1. /\ Post(StoredServer) /\ Newer(IF host = None THEN {} ELSE {"server"})
      /\ inited /\ fw.pc = "idle"
      /\ UNCHANGED <<has, modem, todo, held, inited, restarts, conf, vote, fw, status, meas, apn, host>>
  BY DEF FwAgpsInit, FirstCall, bounds, engVars
<1>2. CASE host # None
  BY <1>1, <1>2, ServerKeeps DEF StoredServer, TypeInv
<1>3. CASE host = None
  <2> USE DEF Arriving
  <2> DEFINE ms == <<>>
  <2>1. msgs' = msgs \o ms /\ ms \in Seq(Messages) /\ Followed(ms) /\ \A s : ~Waits(ms, s)
    BY <1>1, <1>3, NoPost DEF StoredServer, Post
  <2> HIDE DEF ms
  <2>2. \A s : SameAt(has, has', s)
    BY <1>1, SameIsSame
  <2>3. \A s : s \in late' <=> s \in late
    BY <1>1, <1>3 DEF Newer
  <2>4. BaseInv' /\ VerInv' /\ PowerInv' /\ LockInv'
    BY <1>1, <2>1, <2>3, CallKeeps
  <2>5. DataInv'
    BY <1>1, <2>1, <2>2, <2>3, DataPost
  <2>6. ServerInv'
    BY <1>1, <1>3 DEF ServerInv
  <2>7. MeasInv'
    BY <1>1, <2>1, <2>2, MeasPost
  <2>8. ApnInv'
    BY <1>1, <2>1, <2>2, ApnPost
  <2> QED BY <2>4, <2>5, <2>6, <2>7, <2>8
<1> QED BY <1>2, <1>3

\* Before there is an engine the name is only kept: what is not initialised
\* has no queue and an empty modem.
LEMMA FwServerSetKeeps == TypeInv /\ Arriving /\ FwServerSet => Arriving'
<1> SUFFICES ASSUME TypeInv, Arriving, FwServerSet PROVE Arriving'
  OBVIOUS
<1>1. /\ UNCHANGED <<has, modem, todo, held, inited, restarts, conf, vote, status, meas, apn>>
      /\ fw.pc = "server" /\ fw'.pc = "idle" /\ host' = fw.v
      /\ IF inited THEN Post(<<Msg("server", fw.v)>>) /\ Newer({"server"}) ELSE UNCHANGED <<msgs, late>>
  BY DEF FwServerSet, bounds, engVars
<1>2. fw.v \in Hosts
  BY <1>1 DEF TypeInv, FwType
<1>3. CASE inited
  BY <1>1, <1>2, <1>3, ServerKeeps
<1>4. CASE ~inited
  <2> USE DEF Arriving
  <2>1. UNCHANGED <<msgs, late>>
    BY <1>1, <1>4
  <2>2. BaseInv'
    BY <1>1, <2>1 DEF BaseInv
  <2>3. VerInv' /\ DataInv' /\ ServerInv'
    BY <1>1, <1>4 DEF VerInv, DataInv, ServerInv
  <2>4. PowerInv' /\ MeasInv' /\ ApnInv'
    BY <1>1, <2>1 DEF PowerInv, MeasInv, ApnInv
  <2>5. LockInv'
    BY <1>1, <2>1 DEF LockInv, LockFollows
  <2> QED BY <2>2, <2>3, <2>4, <2>5
<1> QED BY <1>3, <1>4

LEMMA FwMeasurementsKeeps ==
  ASSUME TypeInv, Arriving, NEW on \in BOOLEAN, FwMeasurements(on) PROVE Arriving'
<1> USE DEF Arriving
<1> DEFINE a == Msg("meas", on)
           ms == <<a>>
<1>1. /\ msgs' = msgs \o ms /\ meas' = on /\ inited /\ fw.pc = "idle"
      /\ UNCHANGED <<has, late, modem, todo, held, inited, restarts, conf, vote, fw, status, apn, host, agps>>
  BY DEF FwMeasurements, Post, Call, engVars
<1>2. a \in Messages /\ a.k = "meas" /\ a.v = on
  BY MessagesAre DEF Msg
<1> HIDE DEF a
<1>3. ms \in Seq(Messages) /\ Followed(ms)
  BY <1>2, SinglePost
<1>4. \A s : Waits(ms, s) <=> s = "meas"
  BY <1>2, SinglePost DEF For
<1>5. LastIn(ms, "meas", {on})
  BY <1>2, SinglePost DEF Value
<1> HIDE DEF ms
<1>6. \A s : SameAt(has, has', s)
  BY <1>1, SameIsSame
<1>8. BaseInv' /\ VerInv' /\ PowerInv' /\ LockInv'
  BY <1>1, <1>3, <1>4, CallKeeps
<1>9. DataInv'
  BY <1>1, <1>3, <1>4, <1>6, DataPost
<1>10. ServerInv'
  BY <1>1, <1>3, <1>4, <1>6, ServerPost
<1>11. MeasInv'
  <2>1. NotStale(msgs', has', "meas", {on})
    BY <1>1, <1>3, <1>4, <1>5, PostSame DEF TypeInv
  <2>2. on \in (IF on THEN {TRUE} ELSE BOOLEAN)
    OBVIOUS
  <2>3. NotStale(msgs', has', "meas", IF on THEN {TRUE} ELSE BOOLEAN)
    BY <2>1, <2>2, Wider
  <2> QED BY <1>1, <2>3 DEF MeasInv
<1>12. ApnInv'
  BY <1>1, <1>3, <1>4, <1>6, ApnPost
<1> QED BY <1>8, <1>9, <1>10, <1>11, <1>12

\* The status and the access point are posted together; without an access point
\* the status is kept for the next time the settings are read again.
LEMMA FwAvailabilityKeeps ==
  ASSUME TypeInv, Arriving, NEW on \in BOOLEAN, NEW p \in Apns \union {None}, FwAvailability(on, p)
  PROVE  Arriving'
<1> USE DEF Arriving
<1>1. /\ status' = on /\ fw.pc = "idle"
      /\ IF inited /\ p # None
         THEN apn' = p /\ Post(<<Msg("data", [on |-> on, apn |-> p])>>) /\ Newer({"data"})
         ELSE late' = late \union (IF inited /\ on # status THEN {"data"} ELSE {}) /\ UNCHANGED <<apn, msgs>>
      /\ UNCHANGED <<has, modem, todo, held, inited, restarts, conf, vote, fw, meas, host, agps>>
  BY DEF FwAvailability, Call, engVars
<1>2. \A s : SameAt(has, has', s)
  BY <1>1, SameIsSame
<1>3. CASE inited /\ p # None
  <2> DEFINE v == [on |-> on, apn |-> p]
             a == Msg("data", v)
             ms == <<a>>
  <2>1. msgs' = msgs \o ms /\ apn' = p /\ Newer({"data"})
    BY <1>1, <1>3 DEF Post
  <2>2. v \in Availability /\ v.on = on /\ v.apn = p
    BY DEF Availability
  <2> HIDE DEF v
  <2>3. a \in Messages /\ a.k = "data" /\ a.v = v
    BY <2>2 DEF Messages, Msg
  <2> HIDE DEF a
  <2>4. ms \in Seq(Messages) /\ Followed(ms)
    BY <2>3, SinglePost
  <2>5. \A s : Waits(ms, s) <=> s \in {"data", "apn"}
    BY <1>3, <2>2, <2>3, SinglePost DEF For
  <2>6. LastIn(ms, "data", {on}) /\ LastIn(ms, "apn", {p})
    BY <2>2, <2>3, SinglePost DEF Value
  <2> HIDE DEF ms
  <2>7. \A s : s # "data" => (s \in late' <=> s \in late)
    BY <2>1, NewerElsewhere
  <2>8. BaseInv' /\ VerInv' /\ PowerInv' /\ LockInv'
    BY <1>1, <1>3, <2>1, <2>4, <2>5, <2>7, CallKeeps
  <2>9. DataInv'
    <3>1. ASSUME "data" \notin late'
          PROVE  Arrives(msgs', modem', todo', held', has', "data", "reads", {status'})
      <4>1. held.k # "data"
        BY <2>1, <3>1 DEF Newer
      <4>2. Arrives(msgs', modem', todo', held', has', "data", "reads", {on})
        BY <1>1, <1>3, <2>1, <2>4, <2>5, <2>6, <4>1, PostedArrives
      <4> QED BY <1>1, <4>2
    <3> QED BY <3>1 DEF DataInv
  <2>10. ServerInv'
    BY <1>1, <1>2, <2>1, <2>4, <2>5, <2>7, ServerPost
  <2>11. MeasInv'
    <3>1. ~Waits(ms, "meas")
      BY <2>5
    <3> QED BY <1>1, <1>2, <2>1, <2>4, <3>1, MeasPost
  <2>12. ApnInv'
    <3>1. NotStale(msgs', has', "apn", {p})
      BY <2>1, <2>4, <2>5, <2>6, PostSame DEF TypeInv
    <3>2. ASSUME restarts' = 0 PROVE Reaches(msgs', modem', has', "apn")
      <4>1. modem = "open" \/ Waits(msgs, "open")
        BY <1>1, <1>3, <3>2 DEF BaseInv, TypeInv
      <4> QED BY <1>1, <2>1, <2>4, <2>5, <4>1, PostSame DEF TypeInv
    <3> QED BY <2>1, <3>1, <3>2 DEF ApnInv
  <2> QED BY <2>8, <2>9, <2>10, <2>11, <2>12
<1>4. CASE ~(inited /\ p # None)
  <2>1. /\ late' = late \union (IF inited /\ on # status THEN {"data"} ELSE {})
        /\ UNCHANGED <<apn, msgs>>
    BY <1>1, <1>4
  <2>2. BaseInv'
    BY <1>1, <2>1 DEF BaseInv
  <2>3. VerInv' /\ ServerInv'
    BY <1>1, <2>1 DEF VerInv, ServerInv, Vers
  <2>4. DataInv'
    BY <1>1, <2>1 DEF DataInv
  <2>5. PowerInv' /\ MeasInv' /\ ApnInv'
    BY <1>1, <2>1 DEF PowerInv, MeasInv, ApnInv
  <2>6. LockInv'
    BY <1>1, <2>1 DEF LockInv, LockFollows
  <2> QED BY <2>2, <2>3, <2>4, <2>5, <2>6
<1> QED BY <1>3, <1>4

\* The version read replaces the one put aside as the value that arrives, and
\* the lock is posted whatever it is.
LEMMA FwPostChangesKeeps == TypeInv /\ Arriving /\ FwPostChanges => Arriving'
<1> SUFFICES ASSUME TypeInv, Arriving, FwPostChanges PROVE Arriving'
  OBVIOUS
<1> USE DEF Arriving
<1> DEFINE changed == fw.v.ver # conf.ver
           lock == IF vote THEN 0 ELSE conf.lock
           b == IF changed THEN <<Msg("ver", conf.ver)>> ELSE <<>>
           a == Msg("lock", lock)
           ms == b \o <<a>>
           keys == {"lock"} \union (IF changed THEN {"ver"} ELSE {})
<1>1. /\ fw.pc = "updated" /\ fw'.pc = "posted" /\ fw'.v = fw.v
      /\ IF inited THEN msgs' = msgs \o ms /\ Newer(keys) ELSE UNCHANGED <<msgs, late>>
      /\ UNCHANGED <<has, modem, todo, held, inited, restarts, conf, vote, status, meas, apn, host, agps>>
  BY DEF FwPostChanges, Post, engVars, bounds, TypeInv, FwType
<1>2. \A s : SameAt(has, has', s)
  BY <1>1, SameIsSame
<1>3. lock \in Locks \union {0} /\ conf.ver \in Versions
  BY DEF TypeInv, Configurations
<1> HIDE DEF lock
<1>4. a \in Messages /\ a.k = "lock" /\ a.v = lock
  BY <1>3, MessagesAre DEF Msg
<1> HIDE DEF a
<1>5. /\ <<a>> \in Seq(Messages) /\ Followed(<<a>>)
      /\ \A s : Waits(<<a>>, s) <=> s = "lock"
      /\ LastIn(<<a>>, "lock", {lock})
  <2>1. <<a>> \in Seq(Messages) /\ Followed(<<a>>)
    BY <1>4, SinglePost
  <2>2. \A s : Waits(<<a>>, s) <=> s = "lock"
    BY <1>4, SinglePost DEF For
  <2>3. LastIn(<<a>>, "lock", {lock})
    BY <1>4, SinglePost DEF Value
  <2> QED BY <2>1, <2>2, <2>3
<1>6. /\ b \in Seq(Messages) /\ Followed(b)
      /\ \A s : Waits(b, s) <=> changed /\ s = "ver"
      /\ changed => LastIn(b, "ver", {conf.ver})
  <2>1. CASE changed
    <3> DEFINE c == Msg("ver", conf.ver)
    <3>1. b = <<c>> /\ c \in Messages /\ c.k = "ver" /\ c.v = conf.ver
      BY <1>3, <2>1, MessagesAre DEF Msg
    <3> HIDE DEF b, c
    <3>2. b \in Seq(Messages) /\ Followed(b)
      BY <3>1, SinglePost
    <3>3. \A s : Waits(b, s) <=> s = "ver"
      BY <3>1, SinglePost DEF For
    <3>4. LastIn(b, "ver", {conf.ver})
      BY <3>1, SinglePost DEF Value
    <3> QED BY <2>1, <3>2, <3>3, <3>4
  <2>2. CASE ~changed
    <3>1. b = <<>>
      BY <2>2
    <3> QED BY <2>2, <3>1, NoPost
  <2> QED BY <2>1, <2>2
<1> HIDE DEF b
<1>7. /\ ms \in Seq(Messages) /\ Followed(ms)
      /\ \A s : Waits(ms, s) <=> s = "lock" \/ (changed /\ s = "ver")
      /\ LastIn(ms, "lock", {lock})
      /\ changed => LastIn(ms, "ver", {conf.ver})
  <2>1. ms \in Seq(Messages)
    BY <1>5, <1>6, Joined
  <2>2. Followed(ms)
    BY <1>5, <1>6, PostFollowed
  <2>3. \A s : Waits(ms, s) <=> Waits(b, s) \/ Waits(<<a>>, s)
    BY <1>5, <1>6, PostWaits
  <2>4. LastIn(ms, "lock", {lock})
    BY <1>5, <1>6, PostLastIn
  <2>5. changed => LastIn(ms, "ver", {conf.ver})
    BY <1>5, <1>6, PostLastIn
  <2> QED BY <1>5, <1>6, <2>1, <2>2, <2>3, <2>4, <2>5
<1> HIDE DEF ms
<1>8. CASE inited
  <2>1. msgs' = msgs \o ms /\ Newer(keys)
    BY <1>1, <1>8
  <2>2. \A s : s \notin {"lock", "ver"} => (s \in late' <=> s \in late)
    BY <2>1, NewerElsewhere
  <2>3. BaseInv'
    BY <1>1, <1>7, <1>8, <2>1, BasePost DEF BaseInv
  <2>4. VerInv'
    <3>1. CASE changed
      <4>1. ASSUME "ver" \notin late'
            PROVE  Arrives(msgs', modem', todo', held', has', "ver", "reads", Vers')
        <5>1. held.k # "ver"
          BY <2>1, <3>1, <4>1 DEF Newer
        <5>2. Arrives(msgs', modem', todo', held', has', "ver", "reads", {conf.ver})
          BY <1>1, <1>7, <1>8, <2>1, <3>1, <5>1, PostedArrives
        <5>3. {conf.ver} \subseteq Vers'
          BY <1>1 DEF Vers
        <5> QED BY <5>2, <5>3, Wider
      <4> QED BY <1>1, <4>1 DEF VerInv
    <3>2. CASE ~changed
      <4>1. "ver" \notin keys
        BY <3>2
      <4>2. "ver" \in late' <=> "ver" \in late
        BY <2>1, <4>1, NewerElsewhere
      <4>3. Vers \subseteq Vers'
        BY <1>1, <3>2 DEF Vers
      <4>4. ~Waits(ms, "ver")
        BY <1>7, <3>2
      <4> QED BY <1>1, <1>2, <1>7, <2>1, <4>2, <4>3, <4>4, VerPost
    <3> QED BY <3>1, <3>2
  <2>11. ~Waits(ms, "data") /\ ~Waits(ms, "server") /\ ~Waits(ms, "meas") /\ ~Waits(ms, "apn")
    BY <1>7
  <2>5. DataInv'
    BY <1>1, <1>2, <1>7, <2>1, <2>2, <2>11, DataPost
  <2>6. ServerInv'
    BY <1>1, <1>2, <1>7, <2>1, <2>2, <2>11, ServerPost
  <2>7. PowerInv'
    BY <1>1, <2>2 DEF PowerInv
  <2>8. MeasInv'
    BY <1>1, <1>2, <1>7, <2>1, <2>11, MeasPost
  <2>9. LockInv'
    <3>1. LastIn(ms, "lock", {IF vote' THEN 0 ELSE conf'.lock})
      BY <1>1, <1>7 DEF lock
    <3> QED BY <1>1, <1>7, <1>8, <2>1, <3>1, LockPosted
  <2>10. ApnInv'
    BY <1>1, <1>2, <1>7, <2>1, <2>11, ApnPost
  <2> QED BY <2>3, <2>4, <2>5, <2>6, <2>7, <2>8, <2>9, <2>10
<1>9. CASE ~inited
  <2>1. UNCHANGED <<msgs, late>>
    BY <1>1, <1>9
  <2>2. BaseInv'
    BY <1>1, <2>1 DEF BaseInv
  <2>3. VerInv' /\ DataInv' /\ ServerInv'
    BY <1>1, <1>9 DEF VerInv, DataInv, ServerInv
  <2>4. PowerInv' /\ MeasInv' /\ ApnInv'
    BY <1>1, <2>1 DEF PowerInv, MeasInv, ApnInv
  <2>5. LockInv'
    <3>1. msgs = <<>> /\ DOMAIN has = {}
      BY <1>9 DEF BaseInv
    <3>2. NotStale(msgs, has, "lock", {IF vote THEN 0 ELSE conf.lock})
      BY <3>1 DEF NotStale, LastIn
    <3> QED BY <1>1, <1>9, <2>1, <3>2 DEF LockInv, LockFollows
  <2> QED BY <2>2, <2>3, <2>4, <2>5
<1> QED BY <1>8, <1>9

-----------------------------------------------------------------------------
(* What a step of the MsgTask does. *)

\* ... to the queue: nothing, it takes a message, or it posts one that is not
\* for the modem's first handlers.
LEMMA TaskQueue ==
  ASSUME TypeInv, BaseInv, MsgTask
  PROVE  \/ msgs' = msgs
         \/ msgs # <<>> /\ msgs' = Tail(msgs) /\ (HandleOpen \/ Head(msgs).k # "open")
         \/ \E a \in Messages : msgs' = msgs \o <<a>> /\ a.k \notin {"init", "up", "open"}
<1>1. CASE HandleLong \/ HandleSetting \/ HandleOpen \/ HandleAsk \/ HandleReport
  BY <1>1 DEF HandleLong, HandleSetting, HandleOpen, HandleAsk, HandleReport, Keys
<1>2. CASE AddCapability \/ StepMake
  BY <1>2 DEF AddCapability, StepMake
<1>3. CASE StepPlain
  <2>1. CASE Head(todo) = "lock"
    BY <1>3, <2>1 DEF StepPlain
  <2>2. CASE Head(todo) # "lock"
    <3> DEFINE a == Msg(Head(todo), None)
    <3>1. Head(todo) \in {"ask", "report"} /\ msgs' = msgs \o <<a>>
      BY <1>3, <2>2 DEF StepPlain, Post
    <3>2. a \in Messages /\ a.k \notin {"init", "up", "open"}
      BY <3>1, MessagesAre DEF Msg
    <3> QED BY <3>1, <3>2
  <2> QED BY <2>1, <2>2
<1>4. CASE StepSend
  <2>1. CASE held.k = "power"
    BY <1>4, <2>1 DEF StepSend
  <2>2. CASE held.k # "power"
    <3>1. msgs' = msgs \o <<held>>
      BY <1>4, <2>2 DEF StepSend, Post
    <3>2. held \in Messages /\ held.k \in {"ver", "data", "server"}
      BY <1>4, <2>2 DEF StepSend, TypeInv, HeldType, NoMsg, Msg
    <3> QED BY <3>1, <3>2
  <2> QED BY <2>1, <2>2
<1> QED BY <1>1, <1>2, <1>3, <1>4 DEF MsgTask

\* ... to what the framework's thread keeps: only capabilities are added.
LEMMA TaskLeaves ==
  ASSUME TypeInv, MsgTask
  PROVE  /\ UNCHANGED <<status, host, apn, inited, agps, vote, meas, fw, restarts>>
         /\ conf'.ver = conf.ver /\ conf'.lock = conf.lock
<1>1. UNCHANGED <<fwVars, bounds>>
  BY DEF MsgTask, HandleLong, HandleSetting, HandleOpen, HandleAsk, AddCapability, HandleReport,
         StepPlain, StepMake, StepSend
<1>2. CASE AddCapability
  BY <1>1, <1>2 DEF AddCapability, TypeInv, Configurations, fwVars, bounds
<1>3. CASE ~AddCapability
  BY <1>1, <1>3 DEF MsgTask, HandleLong, HandleSetting, HandleOpen, HandleAsk, HandleReport,
                    StepPlain, StepMake, StepSend, fwVars, bounds
<1> QED BY <1>2, <1>3

\* ... to what the modem has: it adds to it or replaces it, but for the power
\* vote, which it replaces only by the one it has made.
LEMMA TaskHas ==
  ASSUME TypeInv, BaseInv, MsgTask
  PROVE  /\ modem = "open" => DOMAIN has \subseteq DOMAIN has'
         /\ modem' # "open" => DOMAIN has' = {}
         /\ modem' = "open" /\ modem # "open" => "meas" \in DOMAIN has'
         /\ modem' = "down" => modem = "down"
         /\ modem' = "up" => modem = "up" /\ ~HandleOpen
         /\ SameAt(has, has', "power") \/ (StepSend /\ held.k = "power")
<1>1. ASSUME NEW new, Give(new), modem' = modem
      PROVE  /\ modem = "open" => DOMAIN has \subseteq DOMAIN has'
             /\ modem' # "open" => DOMAIN has' = {}
  BY <1>1 DEF Give, Over, BaseInv
<1>2. ASSUME has' = has, modem' = modem, ~HandleOpen
      PROVE  /\ modem = "open" => DOMAIN has \subseteq DOMAIN has'
             /\ modem' # "open" => DOMAIN has' = {}
             /\ modem' = "open" /\ modem # "open" => "meas" \in DOMAIN has'
             /\ modem' = "down" => modem = "down"
             /\ modem' = "up" => modem = "up" /\ ~HandleOpen
             /\ SameAt(has, has', "power")
  BY <1>2 DEF BaseInv, SameAt
<1>3. HandleOpen => msgs # <<>> /\ Head(msgs).k = "open" /\ Idle /\ msgs' = Tail(msgs)
  BY DEF HandleOpen
<1>4. CASE HandleLong \/ HandleAsk \/ HandleReport \/ AddCapability \/ StepMake
  BY <1>2, <1>4, <1>3 DEF HandleLong, HandleAsk, HandleReport, AddCapability, StepMake, Idle
<1>5. CASE HandleSetting
  <2> DEFINE m == Head(msgs)
  <2>1. m \in Messages /\ m.k \in Keys /\ Give(Settings(m)) /\ modem' = modem
    BY <1>5, Taken DEF HandleSetting, TypeInv
  <2>2. ~HandleOpen
    BY <1>3, <2>1 DEF Keys
  <2>3. m.k # "power"
    BY <2>1 DEF Messages
  <2>4. "power" \notin DOMAIN Settings(m)
    BY <2>1, <2>3 DEF Settings
  <2>5. SameAt(has, has', "power")
    BY <2>1, <2>4, GiveOther
  <2> QED BY <1>1, <2>1, <2>2, <2>5
<1>6. CASE HandleOpen
  <2>1. CASE modem = "down"
    BY <1>6, <2>1 DEF HandleOpen, BaseInv, SameAt
  <2>2. CASE modem # "down"
    <3>1. modem' = "open" /\ has' = Over([meas |-> TRUE], has)
      BY <1>6, <2>2 DEF HandleOpen
    <3>2. "meas" \in DOMAIN has' /\ DOMAIN has \subseteq DOMAIN has'
      BY <3>1 DEF Over
    <3>3. SameAt(has, has', "power")
      BY <3>1 DEF SameAt, Over
    <3> QED BY <3>1, <3>2, <3>3
  <2> QED BY <2>1, <2>2
<1>7. CASE StepPlain
  <2>1. ~HandleOpen
    BY <1>3, <1>7 DEF StepPlain, Idle
  <2>2. CASE Head(todo) = "lock"
    <3>1. Give([lock |-> 1]) /\ modem' = modem
      BY <1>7, <2>2 DEF StepPlain
    <3>2. "power" \notin DOMAIN [lock |-> 1]
      OBVIOUS
    <3>3. SameAt(has, has', "power")
      BY <3>1, <3>2, GiveOther
    <3> QED BY <1>1, <2>1, <3>1, <3>3
  <2>3. CASE Head(todo) # "lock"
    BY <1>2, <1>7, <2>1, <2>3 DEF StepPlain
  <2> QED BY <2>2, <2>3
<1>8. CASE StepSend
  <2>1. ~HandleOpen
    BY <1>3, <1>8 DEF StepSend, Idle
  <2>2. CASE held.k = "power"
    <3>1. Give([power |-> held.v]) /\ modem' = modem
      BY <1>8, <2>2 DEF StepSend
    <3> QED BY <1>1, <1>8, <2>1, <2>2, <3>1
  <2>3. CASE held.k # "power"
    BY <1>2, <1>8, <2>1, <2>3 DEF StepSend
  <2> QED BY <2>2, <2>3
<1> QED BY <1>4, <1>5, <1>6, <1>7, <1>8 DEF MsgTask

\* ... to what it holds.
LEMMA TaskHolds ==
  ASSUME TypeInv, MsgTask
  PROVE  \/ held' = held /\ ~StepMake /\ ~StepSend
         \/ held' = NoMsg /\ ~StepMake
         \/ held'.k = "caps" /\ held.k = None /\ ~StepMake /\ ~StepSend
         \/ StepMake /\ held.k = None /\ held' \in Made(Head(todo))
<1>1. StepMake => held.k = None /\ todo # <<>> /\ held' \in Made(Head(todo))
  BY DEF StepMake
<1>2. StepSend => held.k # None /\ held' = NoMsg
  BY DEF StepSend
<1>3. CASE StepMake \/ StepSend
  BY <1>1, <1>2, <1>3
<1>4. CASE ~(StepMake \/ StepSend)
  BY <1>4 DEF MsgTask, HandleLong, HandleSetting, HandleOpen, HandleAsk, AddCapability, HandleReport,
              StepPlain, engVars, Idle, Msg
<1> QED BY <1>3, <1>4

LEMMA TaskInited ==
  ASSUME BaseInv, MsgTask PROVE inited
BY DEF BaseInv, MsgTask, HandleLong, HandleSetting, HandleOpen, HandleAsk, AddCapability, HandleReport,
       StepPlain, StepMake, StepSend, NoMsg, Msg, None

LEMMA TaskBase == TypeInv /\ BaseInv /\ MsgTask => BaseInv'
<1> SUFFICES ASSUME TypeInv, BaseInv, MsgTask PROVE BaseInv'
  OBVIOUS
<1>0. inited' /\ restarts' = restarts
  BY TaskInited, TaskLeaves
<1>1. ASSUME modem' = "up" PROVE Waits(msgs', "open")
  <2>1. modem = "up" /\ ~HandleOpen
    BY <1>1, TaskHas
  <2>2. Waits(msgs, "open")
    BY <2>1, TaskInited DEF BaseInv
  <2>3. CASE msgs # <<>> /\ msgs' = Tail(msgs) /\ Head(msgs).k # "open"
    <3>1. ~For(Head(msgs), "open")
      BY <2>3 DEF For
    <3> QED BY <2>2, <2>3, <3>1, TakeWaits DEF TypeInv
  <2>4. CASE \E a \in Messages : msgs' = msgs \o <<a>>
    <3>1. PICK a \in Messages : msgs' = msgs \o <<a>>
      BY <2>4
    <3>2. <<a>> \in Seq(Messages) /\ msgs \in Seq(Messages)
      BY Singles DEF TypeInv
    <3> QED BY <2>2, <3>1, <3>2, PostWaits
  <2> QED BY <2>1, <2>2, <2>3, <2>4, TaskQueue
<1>2. ASSUME held'.k = "data" PROVE held'.v.apn = None
  BY <1>2, TaskHolds DEF BaseInv, Made, NoMsg, Msg, None, StepMake
<1> QED BY <1>0, <1>1, <1>2, TaskHas DEF BaseInv

\* A step makes the value that is there, and a message made now is the newest.
LEMMA TaskMakes ==
  ASSUME TypeInv, MsgTask, NEW s \in {"ver", "data", "server"}, NEW r, NEW T,
         s \notin late',
         s \notin late => Arrives(msgs, modem, todo, held, has, s, r, T)
  PROVE  Arrives(msgs, modem, todo, held, has, s, r, T)
<1>1. CASE StepMake /\ Head(todo) = s
  <2>1. todo # <<>> /\ todo \in Seq(Steps)
    BY <1>1 DEF StepMake, TypeInv
  <2>2. StillTo(todo, s)
    BY <1>1, <2>1, Taken DEF StillTo
  <2> QED BY <2>2 DEF Arrives
<1>2. CASE ~(StepMake /\ Head(todo) = s)
  <2>1. s \notin late
    BY <1>2 DEF MsgTask, HandleLong, HandleSetting, HandleOpen, HandleAsk, AddCapability, HandleReport,
                StepPlain, StepMake, StepSend
  <2> QED BY <2>1
<1> QED BY <1>1, <1>2

LEMMA TaskVer == TypeInv /\ Arriving /\ MsgTask => VerInv'
<1> SUFFICES ASSUME TypeInv, Arriving, MsgTask PROVE VerInv'
  OBVIOUS
<1> USE DEF Arriving
<1>1. Vers' = Vers /\ (fw'.pc = "copied" => fw'.v.ver = conf'.ver)
  BY TaskLeaves DEF Vers, VerInv
<1>2. ASSUME "ver" \notin late' PROVE Arrives(msgs', modem', todo', held', has', "ver", "reads", Vers')
  <2>1. Arrives(msgs, modem, todo, held, has, "ver", "reads", Vers)
    BY <1>2, TaskMakes, TaskInited DEF VerInv
  <2>2. StepMake /\ Head(todo) = "ver" => held'.k = "ver" /\ Value(held', "ver") \in Vers
    BY DEF StepMake, Made, Msg, Value, Vers
  <2>3. Arrives(msgs', modem', todo', held', has', "ver", "reads", Vers)
    BY <2>1, <2>2, TaskInited, TaskArrives
  <2> QED BY <1>1, <2>3
<1> QED BY <1>1, <1>2 DEF VerInv

LEMMA TaskData == TypeInv /\ Arriving /\ MsgTask => DataInv'
<1> SUFFICES ASSUME TypeInv, Arriving, MsgTask, "data" \notin late'
             PROVE  Arrives(msgs', modem', todo', held', has', "data", "reads", {status'})
  BY DEF DataInv
<1> USE DEF Arriving
<1>1. Arrives(msgs, modem, todo, held, has, "data", "reads", {status})
  BY TaskMakes, TaskInited DEF DataInv
<1>2. StepMake /\ Head(todo) = "data" => held'.k = "data" /\ Value(held', "data") \in {status}
  BY DEF StepMake, Made, Msg, Value
<1>3. Arrives(msgs', modem', todo', held', has', "data", "reads", {status})
  BY <1>1, <1>2, TaskInited, TaskArrives
<1> QED BY <1>3, TaskLeaves

LEMMA TaskServer == TypeInv /\ Arriving /\ MsgTask => ServerInv'
<1> SUFFICES ASSUME TypeInv, Arriving, MsgTask, agps', host' # None, fw'.pc # "server", "server" \notin late'
             PROVE  Arrives(msgs', modem', todo', held', has', "server", "up", {host'})
  BY DEF ServerInv
<1> USE DEF Arriving
<1>0. agps /\ host # None /\ fw.pc # "server" /\ host' = host
  BY TaskLeaves
<1>1. Arrives(msgs, modem, todo, held, has, "server", "up", {host})
  BY <1>0, TaskMakes, TaskInited DEF ServerInv
<1>2. StepMake /\ Head(todo) = "server" => held'.k = "server" /\ Value(held', "server") \in {host}
  BY <1>0 DEF StepMake, Made, Msg, Value
<1>3. Arrives(msgs', modem', todo', held', has', "server", "up", {host})
  BY <1>1, <1>2, TaskInited, TaskArrives
<1> QED BY <1>0, <1>3

\* The vote a StepMake reads is given by the StepSend after it; one that has
\* changed in between was given by the framework's thread and is overtaken.
LEMMA TaskPower == TypeInv /\ Arriving /\ MsgTask => PowerInv'
<1> SUFFICES ASSUME TypeInv, Arriving, MsgTask PROVE PowerInv'
  OBVIOUS
<1> USE DEF Arriving
<1>0. vote' = vote
  BY TaskLeaves
<1>1. CASE StepMake
  <2>1. /\ has' = has /\ held.k = None /\ held' \in Made(Head(todo))
        /\ Head(todo) \in {"ver", "data", "power", "server"}
        /\ late' = IF held'.k = None THEN late ELSE late \ {Head(todo)}
    BY <1>1 DEF StepMake
  <2>2. CASE Head(todo) = "power"
    BY <1>0, <2>1, <2>2 DEF Made, PowerInv, NoMsg, Msg, None
  <2>3. CASE Head(todo) # "power"
    <3>1. held'.k # "power"
      BY <2>1, <2>3 DEF Made, NoMsg, Msg, None
    <3>2. "power" \in late' <=> "power" \in late
      BY <2>1, <2>3
    <3> QED BY <1>0, <2>1, <3>1, <3>2 DEF PowerInv, None
  <2> QED BY <2>2, <2>3
<1>2. CASE ~StepMake
  <2>1. late' = late
    BY <1>2 DEF MsgTask, HandleLong, HandleSetting, HandleOpen, HandleAsk, AddCapability, HandleReport,
                StepPlain, StepSend
  <2>2. CASE StepSend /\ held.k = "power"
    <3>1. Give([power |-> held.v]) /\ modem' = modem /\ held' = NoMsg
      BY <2>2 DEF StepSend
    <3>2. CASE modem = "open"
      <4> DEFINE new == [power |-> held.v]
      <4>1. DOMAIN new = {"power"} /\ new["power"] = held.v
        OBVIOUS
      <4> HIDE DEF new
      <4>2. has' = Over(new, has)
        BY <3>1, <3>2 DEF Give, new
      <4>3. "power" \in DOMAIN has' /\ has'["power"] = held.v
        BY <4>1, <4>2 DEF Over
      <4> QED BY <1>0, <2>1, <2>2, <3>1, <4>3 DEF PowerInv, NoMsg, Msg, None
    <3>3. CASE modem # "open"
      BY <1>0, <2>1, <3>1, <3>3 DEF Give, PowerInv, BaseInv, NoMsg, Msg, None
    <3> QED BY <3>2, <3>3
  <2>3. CASE ~(StepSend /\ held.k = "power")
    <3>1. SameAt(has, has', "power")
      BY <2>3, TaskHas
    <3>2. (held'.k = "power" <=> held.k = "power") /\ (held.k = "power" => held' = held)
      BY <1>2, <2>3, TaskHolds DEF NoMsg, Msg, None, StepSend, MsgTask, HandleLong, HandleSetting,
         HandleOpen, HandleAsk, AddCapability, HandleReport, StepPlain, Idle
    <3> QED BY <1>0, <2>1, <3>1, <3>2 DEF PowerInv, SameAt
  <2> QED BY <2>2, <2>3
<1> QED BY <1>1, <1>2

LEMMA TaskMeas == TypeInv /\ Arriving /\ MsgTask => MeasInv'
<1> SUFFICES ASSUME TypeInv, Arriving, MsgTask PROVE MeasInv'
  OBVIOUS
<1> USE DEF Arriving
<1> DEFINE T == IF meas THEN {TRUE} ELSE BOOLEAN
<1>1. TRUE \in T
  OBVIOUS
<1>2. NotStale(msgs, has, "meas", T)
  BY DEF MeasInv
<1> HIDE DEF T
<1>3. held.k # "meas"
  BY DEF TypeInv, HeldType, NoMsg, Msg, None
<1>4. StepPlain => Head(todo) # "meas"
  BY DEF StepPlain
<1>5. NotStale(msgs', has', "meas", T)
  BY <1>1, <1>2, <1>3, <1>4, TaskKeeps DEF Settled
<1>6. NotStale(msgs', has', "meas", IF meas' THEN {TRUE} ELSE BOOLEAN)
  BY <1>5, TaskLeaves DEF T
<1>7. modem' = "open" => "meas" \in DOMAIN has'
  BY TaskHas DEF MeasInv
<1> QED BY <1>6, <1>7 DEF MeasInv

LEMMA TaskApn == TypeInv /\ Arriving /\ MsgTask => ApnInv'
<1> SUFFICES ASSUME TypeInv, Arriving, MsgTask PROVE ApnInv'
  OBVIOUS
<1> USE DEF Arriving
<1>1. held.k # "apn"
  BY DEF TypeInv, HeldType, NoMsg, Msg, None
<1>2. StepPlain => Head(todo) # "apn"
  BY DEF StepPlain
<1>3. NotStale(msgs', has', "apn", {apn})
  BY <1>1, <1>2, TaskKeeps DEF Settled, ApnInv
<1>4. ASSUME restarts = 0, apn # None PROVE Reaches(msgs', modem', has', "apn")
  <2>1. modem # "down" /\ Reaches(msgs, modem, has, "apn")
    BY <1>4, TaskInited DEF BaseInv, ApnInv
  <2> QED BY <1>1, <1>2, <2>1, TaskKeeps DEF Settled
<1> QED BY <1>3, <1>4, TaskLeaves DEF ApnInv

\* What is still to do after a step was to do before it.
LEMMA StillBefore ==
  ASSUME todo \in Seq(Steps), todo # <<>>, NEW s, StillTo(Tail(todo), s)
  PROVE  StillTo(todo, s)
<1>1. PICK i \in DOMAIN Tail(todo) : Tail(todo)[i] = s
  BY DEF StillTo
<1>2. i + 1 \in DOMAIN todo /\ Tail(todo)[i] = todo[i + 1]
  BY Taken
<1> QED BY <1>1, <1>2 DEF StillTo

\* The lock of LocEngInit is followed by the one that loc_init posted.
LEMMA TaskFollows == TypeInv /\ BaseInv /\ LockFollows /\ MsgTask => LockFollows'
<1> SUFFICES ASSUME TypeInv, BaseInv, LockFollows, MsgTask PROVE LockFollows'
  OBVIOUS
<1>0. msgs \in Seq(Messages) /\ todo \in Seq(Steps)
  BY DEF TypeInv
<1>1. CASE HandleLong
  <2>1. /\ msgs # <<>> /\ msgs' = Tail(msgs) /\ Head(msgs).k \in {"init", "up"}
        /\ todo' = IF Head(msgs).k = "init" THEN InitSteps ELSE UpSteps
    BY <1>1 DEF HandleLong
  <2>2. Followed(msgs') /\ (Head(msgs).k = "init" => Waits(msgs', "lock"))
    BY <1>0, <2>1, TakeFollowed DEF LockFollows
  <2>3. Head(msgs).k # "init" => ~StillTo(todo', "lock")
    BY <2>1, StepsAre
  <2> QED BY <2>2, <2>3 DEF LockFollows
<1>2. CASE HandleSetting \/ HandleOpen \/ HandleAsk \/ HandleReport
  <2>1. msgs # <<>> /\ msgs' = Tail(msgs) /\ todo' = todo /\ todo = <<>>
    BY <1>2 DEF HandleSetting, HandleOpen, HandleAsk, HandleReport, Idle, engVars
  <2>2. ~StillTo(todo', "lock")
    BY <2>1 DEF StillTo
  <2> QED BY <1>0, <2>1, <2>2, TakeFollowed DEF LockFollows
<1>3. CASE AddCapability \/ StepPlain \/ StepMake \/ StepSend
  <2>1. StillTo(todo', "lock") => StillTo(todo, "lock")
    <3>1. CASE StepPlain \/ StepMake
      BY <1>0, <3>1, StillBefore DEF StepPlain, StepMake
    <3>2. CASE AddCapability \/ StepSend
      BY <3>2 DEF AddCapability, StepSend
    <3> QED BY <1>3, <3>1, <3>2
  <2>2. CASE msgs' = msgs
    BY <2>1, <2>2 DEF LockFollows
  <2>3. CASE \E a \in Messages : msgs' = msgs \o <<a>> /\ a.k \notin {"init", "up", "open"}
    <3>1. PICK a \in Messages : msgs' = msgs \o <<a>> /\ a.k \notin {"init", "up", "open"}
      BY <2>3
    <3>2. <<a>> \in Seq(Messages) /\ Followed(<<a>>)
      BY <3>1, SinglePost
    <3>3. Followed(msgs')
      BY <1>0, <3>1, <3>2, PostFollowed DEF LockFollows
    <3>4. Waits(msgs, "lock") => Waits(msgs', "lock")
      BY <1>0, <3>1, <3>2, PostWaits
    <3> QED BY <2>1, <3>3, <3>4 DEF LockFollows
  <2>4. CASE msgs # <<>> /\ msgs' = Tail(msgs)
    <3>1. Len(msgs') # Len(msgs)
      BY <1>0, <2>4
    <3>2. msgs' = msgs \/ \E a : msgs' = Append(msgs, a)
      BY <1>3 DEF AddCapability, StepPlain, StepMake, StepSend, Post
    <3> QED BY <1>0, <3>1, <3>2, <2>4
  <2> QED BY <2>2, <2>3, <2>4, TaskQueue
<1> QED BY <1>1, <1>2, <1>3 DEF MsgTask

LEMMA TaskLock == TypeInv /\ Arriving /\ MsgTask => LockInv'
<1> SUFFICES ASSUME TypeInv, Arriving, MsgTask PROVE LockInv'
  OBVIOUS
<1> USE DEF Arriving
<1> DEFINE T == {IF vote THEN 0 ELSE conf.lock}
<1>0. held.k # "lock" /\ "lock" \in Settled
  BY DEF TypeInv, HeldType, NoMsg, Msg, None, Settled
<1>1. LockFollows'
  BY TaskFollows DEF LockInv
<1>2. restarts = 0 => modem # "down" /\ Reaches(msgs, modem, has, "lock")
  BY TaskInited DEF BaseInv, LockInv
<1>3. T' = T /\ fw' = fw /\ restarts' = restarts
  BY TaskLeaves
<1>4. fw.pc # "updated" => NotStale(msgs, has, "lock", T)
  BY DEF LockInv
<1> HIDE DEF T
<1>5. CASE StepPlain /\ Head(todo) = "lock"
  <2>1. msgs' = msgs /\ modem' = modem /\ todo # <<>>
    BY <1>5 DEF StepPlain
  <2>2. StillTo(todo, "lock")
    BY <1>5, <2>1, Taken DEF StillTo, TypeInv
  <2>3. Waits(msgs, "lock")
    BY <2>2 DEF LockInv, LockFollows
  <2>4. fw.pc # "updated" => NotStale(msgs', has', "lock", T)
    BY <1>4, <2>1, <2>3 DEF NotStale
  <2>5. restarts = 0 => Reaches(msgs', modem', has', "lock")
    BY <1>2, <2>1, TaskHas DEF Reaches
  <2> QED BY <1>1, <1>3, <2>4, <2>5 DEF LockInv, T
<1>6. CASE ~(StepPlain /\ Head(todo) = "lock")
  <2>1. fw.pc # "updated" => NotStale(msgs', has', "lock", T)
    BY <1>0, <1>4, <1>6, TaskKeeps
  <2>2. restarts = 0 => Reaches(msgs', modem', has', "lock")
    BY <1>0, <1>2, <1>6, TaskKeeps
  <2> QED BY <1>1, <1>3, <2>1, <2>2 DEF LockInv, T
<1> QED BY <1>5, <1>6

LEMMA MsgTaskKeeps == TypeInv /\ Arriving /\ MsgTask => Arriving'
<1> SUFFICES ASSUME TypeInv, Arriving, MsgTask PROVE Arriving'
  OBVIOUS
<1>1. BaseInv'
  BY TaskBase DEF Arriving
<1> QED
  BY <1>1, TaskVer, TaskData, TaskServer, TaskPower, TaskMeas, TaskLock, TaskApn DEF Arriving

-----------------------------------------------------------------------------
(* The modem. *)

\* While it is down every setting is on its way, and what it had is gone.
LEMMA ModemCrashKeeps == TypeInv /\ Arriving /\ ModemCrash => Arriving'
<1> SUFFICES ASSUME TypeInv, Arriving, ModemCrash PROVE Arriving'
  OBVIOUS
<1> USE DEF Arriving
<1>1. /\ modem' = "down" /\ has' = <<>> /\ restarts' # 0
      /\ UNCHANGED <<conf, msgs, todo, held, late, status, host, apn, inited, agps, vote, meas, fw>>
  BY DEF ModemCrash, fwVars, engVars, TypeInv
<1>2. DOMAIN has' = {}
  BY <1>1
<1>3. ASSUME NEW s, NEW T, NotStale(msgs, has, s, T) PROVE NotStale(msgs', has', s, T)
  BY <1>1, <1>2, <1>3 DEF NotStale
<1>4. BaseInv'
  BY <1>1, <1>2 DEF BaseInv
<1>5. VerInv' /\ DataInv' /\ ServerInv'
  BY <1>1 DEF VerInv, DataInv, ServerInv, Arrives
<1>6. PowerInv'
  BY <1>1, <1>2 DEF PowerInv
<1>7. MeasInv'
  BY <1>1, <1>3 DEF MeasInv
<1>8. LockInv'
  BY <1>1, <1>3 DEF LockInv, LockFollows
<1>9. ApnInv'
  BY <1>1, <1>3 DEF ApnInv
<1> QED BY <1>4, <1>5, <1>6, <1>7, <1>8, <1>9

\* When it is back it is opened, and then the settings are read again.
LEMMA ModemUpKeeps == TypeInv /\ Arriving /\ ModemUp => Arriving'
<1> SUFFICES ASSUME TypeInv, Arriving, ModemUp PROVE Arriving'
  OBVIOUS
<1> USE DEF Arriving
<1> DEFINE b == <<Msg("open", None), Msg("up", None)>>
           ms == IF inited THEN b ELSE <<>>
<1>1. /\ modem = "down" /\ modem' = "up" /\ msgs' = msgs \o ms
      /\ UNCHANGED <<conf, todo, held, late, has, restarts, status, host, apn, inited, agps, vote, meas, fw>>
  BY DEF ModemUp, fwVars, engVars, bounds, Post
<1>2. /\ b \in Seq(Messages) /\ DOMAIN b = {1, 2}
      /\ b[1].k = "open" /\ b[2].k = "up"
  BY MessagesAre, Singles DEF Msg
<1> HIDE DEF b
<1>3. WaitsOpen(b, "up", "reads") /\ WaitsOpen(b, "up", "up") /\ Waits(b, "open")
  BY <1>2 DEF WaitsOpen, Waits, For
<1>4. /\ ms \in Seq(Messages) /\ Followed(ms)
      /\ \A s : Waits(ms, s) => s \in {"open", "up", "reads"}
  <2>1. Followed(b)
    BY <1>2 DEF Followed
  <2>2. \A s : Waits(b, s) => s \in {"open", "up", "reads"}
    BY <1>2 DEF Waits, For
  <2> QED BY <1>2, <2>1, <2>2, NoPost
<1>5. inited => ms = b
  OBVIOUS
<1>6. ~inited => msgs' = <<>> /\ DOMAIN has = {}
  BY <1>1, ConcatEmptySeq DEF BaseInv, TypeInv
<1> HIDE DEF ms
<1>7. msgs \in Seq(Messages) /\ restarts # 0 /\ DOMAIN has = {}
  BY <1>1 DEF BaseInv, TypeInv
<1>8. inited => WaitsOpen(msgs', modem', "reads") /\ WaitsOpen(msgs', modem', "up") /\ Waits(msgs', "open")
  BY <1>1, <1>3, <1>4, <1>5, <1>7, PostWaitsOpen, PostWaits
<1>9. ASSUME NEW s \in Settled, NEW T, NotStale(msgs, has, s, T) PROVE NotStale(msgs', has', s, T)
  <2>1. ~Waits(ms, s)
    BY <1>4 DEF Settled
  <2>2. SameAt(has, has', s)
    BY <1>1, SameIsSame
  <2> QED BY <1>1, <1>4, <1>7, <1>9, <2>1, <2>2, PostOther
<1>10. BaseInv'
  BY <1>1, <1>6, <1>7, <1>8 DEF BaseInv
<1>11. VerInv' /\ DataInv' /\ ServerInv'
  BY <1>1, <1>8 DEF VerInv, DataInv, ServerInv, Arrives
<1>12. PowerInv'
  BY <1>1 DEF PowerInv
<1>13. MeasInv'
  BY <1>1, <1>9 DEF MeasInv, Settled
<1>14. LockFollows'
  BY <1>1, <1>4, <1>7, PostFollowed, PostWaits DEF LockInv, LockFollows
<1>15. LockInv'
  BY <1>1, <1>7, <1>9, <1>14 DEF LockInv, Settled
<1>16. ApnInv'
  BY <1>1, <1>7, <1>9 DEF ApnInv, Settled
<1> QED BY <1>10, <1>11, <1>12, <1>13, <1>15, <1>16

-----------------------------------------------------------------------------
(* The theorems. *)
LEMMA InitArriving == Init => Arriving
<1> SUFFICES ASSUME Init PROVE Arriving
  OBVIOUS
<1>1. /\ msgs = <<>> /\ todo = <<>> /\ has = <<>> /\ held = NoMsg /\ ~inited /\ modem = "up" /\ apn = None
      /\ fw.pc = "idle"
  BY DEF Init
<1>2. DOMAIN msgs = {} /\ DOMAIN todo = {} /\ DOMAIN has = {} /\ held.k = None
  BY <1>1 DEF NoMsg, Msg
<1>3. \A s, T : NotStale(msgs, has, s, T)
  BY <1>2 DEF NotStale, LastIn
<1>4. BaseInv
  BY <1>1, <1>2 DEF BaseInv, None
<1>5. VerInv /\ DataInv /\ ServerInv
  BY <1>1 DEF VerInv, DataInv, ServerInv
<1>6. PowerInv
  BY <1>2 DEF PowerInv, None
<1>7. MeasInv
  BY <1>1, <1>3 DEF MeasInv
<1>8. LockInv
  BY <1>1, <1>2, <1>3 DEF LockInv, LockFollows, Followed, StillTo
<1>9. ApnInv
  BY <1>1, <1>3 DEF ApnInv
<1> QED BY <1>4, <1>5, <1>6, <1>7, <1>8, <1>9 DEF Arriving

LEMMA NextArriving == TypeInv /\ Arriving /\ [Next]_vars => Arriving'
<1> SUFFICES ASSUME TypeInv, Arriving, [Next]_vars PROVE Arriving'
  OBVIOUS
<1>1. CASE Framework
  <2>1. CASE FwInit
    BY <2>1, FwInitAgainKeeps, FwInitFirstKeeps
  <2>2. CASE FwCleanup \/ FwAgpsInit \/ FwServerSet \/ FwUpdate \/ FwPostChanges \/ FwRestore \/ FwMask
    BY <2>2, FwCleanupKeeps, FwAgpsInitKeeps, FwServerSetKeeps, FwUpdateKeeps, FwPostChangesKeeps,
       FwRestoreKeeps, FwMaskKeeps
  <2>3. CASE \E h \in Hosts : FwSetServer(h)
    BY <2>3, FwSetServerKeeps
  <2>4. CASE \E on \in BOOLEAN, a \in Apns \union {None} : FwAvailability(on, a)
    BY <2>4, FwAvailabilityKeeps
  <2>5. CASE \E on \in BOOLEAN : FwMeasurements(on)
    BY <2>5, FwMeasurementsKeeps
  <2>6. CASE \E ver \in Versions, lock \in Locks, caps \in {conf.caps, {"MSA"}} : FwReadData(ver, lock, caps)
    BY <2>6, FwReadDataKeeps
  <2> QED BY <1>1, <2>1, <2>2, <2>3, <2>4, <2>5, <2>6 DEF Framework
<1>2. CASE MsgTask
  BY <1>2, MsgTaskKeeps
<1>3. CASE ModemCrash
  BY <1>3, ModemCrashKeeps
<1>4. CASE ModemUp
  BY <1>4, ModemUpKeeps
<1>5. CASE UNCHANGED vars
  <2>1. /\ UNCHANGED <<msgs, has, late, modem, todo, held, inited, restarts, status, vote, meas, apn, agps>>
        /\ UNCHANGED <<host, fw, conf>>
    BY <1>5 DEF vars, fwVars, engVars, bounds
  <2>2. Vers \subseteq Vers' /\ (fw'.pc = "copied" => fw'.v.ver = conf'.ver)
    BY <2>1 DEF Vers, Arriving, VerInv
  <2> QED BY <2>1, <2>2, QuietKeeps
<1> QED BY <1>1, <1>2, <1>3, <1>4, <1>5 DEF Next

LEMMA ArrivingHolds == Spec => [](TypeInv /\ Arriving)
<1>1. Init => TypeInv /\ Arriving
  BY InitType, InitArriving
<1>2. TypeInv /\ Arriving /\ [Next]_vars => (TypeInv /\ Arriving)'
  BY NextType, NextArriving
<1> QED BY <1>1, <1>2, PTL DEF Spec

\* At rest nothing is on its way: what arrives has arrived.
LEMMA RestArrived ==
  ASSUME AtRest, NEW s, NEW r, NEW T, s # None, Arrives(msgs, modem, todo, held, has, s, r, T)
  PROVE  s \in DOMAIN has /\ has[s] \in T
<1>1. DOMAIN msgs = {} /\ DOMAIN todo = {} /\ held.k # s /\ modem # "down"
  BY DEF AtRest, Idle
<1>2. ~WaitsOpen(msgs, modem, r) /\ ~StillTo(todo, s) /\ ~Waits(msgs, s) /\ ~WaitsOpen(msgs, modem, s)
  BY <1>1 DEF WaitsOpen, StillTo, Waits
<1>3. NotStale(msgs, has, s, T) /\ Reaches(msgs, modem, has, s)
  BY <1>1, <1>2 DEF Arrives
<1> QED BY <1>2, <1>3 DEF NotStale, Reaches

\* What the framework set last is what the modem has once both threads are at
\* rest, after any number of restarts (loc_eng_reinit, loc_eng_agps_reinit,
\* requestPowerVote), but for a message that overtook a newer one.
THEOREM SettingsArriveCorrect == Spec => []SettingsArrive
<1>1. TypeInv /\ Arriving => SettingsArrive
  <2> SUFFICES ASSUME TypeInv, Arriving, AtRest
               PROVE  /\ "ver" \notin late => Has("ver", conf.ver)
                      /\ "data" \notin late => Has("data", status)
                      /\ "server" \notin late /\ host # None /\ agps => Has("server", host)
                      /\ "power" \in DOMAIN has \ late => Has("power", vote)
                      /\ meas => Has("meas", TRUE)
    BY DEF SettingsArrive
  <2> USE DEF Arriving
  <2>0. inited /\ fw.pc = "idle" /\ held.k = None /\ msgs = <<>> /\ modem = "open"
    BY DEF AtRest, Idle
  <2>1. ASSUME "ver" \notin late PROVE Has("ver", conf.ver)
    <3>1. Arrives(msgs, modem, todo, held, has, "ver", "reads", Vers) /\ Vers = {conf.ver}
      BY <2>0, <2>1 DEF VerInv, Vers
    <3> QED BY <3>1, RestArrived DEF Has, None
  <2>2. ASSUME "data" \notin late PROVE Has("data", status)
    BY <2>0, <2>2, RestArrived DEF DataInv, Has, None
  <2>3. ASSUME "server" \notin late, host # None, agps PROVE Has("server", host)
    BY <2>0, <2>3, RestArrived DEF ServerInv, Has, None
  <2>4. ASSUME "power" \in DOMAIN has \ late PROVE Has("power", vote)
    BY <2>0, <2>4 DEF PowerInv, Has, None
  <2>5. ASSUME meas PROVE Has("meas", TRUE)
    <3>1. NotStale(msgs, has, "meas", {TRUE}) /\ "meas" \in DOMAIN has
      BY <2>0, <2>5 DEF MeasInv
    <3>2. ~Waits(msgs, "meas")
      BY <2>0 DEF Waits
    <3> QED BY <3>1, <3>2 DEF NotStale, Has
  <2> QED BY <2>1, <2>2, <2>3, <2>4, <2>5
<1> QED BY <1>1, ArrivingHolds, PTL

\* What is not sent again after a restart, the lock (loc_init, loc_cleanup,
\* loc_configuration_update) and the access point, is never stale, and before
\* any restart the modem has it.
THEOREM NothingStaleCorrect == Spec => []NothingStale
<1>1. TypeInv /\ Arriving => NothingStale
  <2> SUFFICES ASSUME TypeInv, Arriving, AtRest
               PROVE  /\ "lock" \in DOMAIN has \/ restarts = 0 => Has("lock", IF vote THEN 0 ELSE conf.lock)
                      /\ "apn" \in DOMAIN has \/ (restarts = 0 /\ apn # None) => Has("apn", apn)
    BY DEF NothingStale
  <2> USE DEF Arriving
  <2>0. inited /\ fw.pc = "idle" /\ DOMAIN msgs = {}
    BY DEF AtRest, Idle
  <2>1. \A s : ~Waits(msgs, s) /\ ~WaitsOpen(msgs, modem, s)
    BY <2>0 DEF Waits, WaitsOpen
  <2>2. "lock" \in DOMAIN has \/ restarts = 0 => Has("lock", IF vote THEN 0 ELSE conf.lock)
    <3>1. NotStale(msgs, has, "lock", {IF vote THEN 0 ELSE conf.lock})
      BY <2>0 DEF LockInv
    <3>2. restarts = 0 => "lock" \in DOMAIN has
      BY <2>0, <2>1 DEF LockInv, Reaches
    <3> QED BY <2>1, <3>1, <3>2 DEF NotStale, Has
  <2>3. "apn" \in DOMAIN has \/ (restarts = 0 /\ apn # None) => Has("apn", apn)
    <3>1. NotStale(msgs, has, "apn", {apn})
      BY DEF ApnInv
    <3>2. restarts = 0 /\ apn # None => "apn" \in DOMAIN has
      BY <2>0, <2>1 DEF ApnInv, Reaches
    <3> QED BY <2>1, <3>1, <3>2 DEF NotStale, Has
  <2> QED BY <2>2, <2>3
<1> QED BY <1>1, ArrivingHolds, PTL

=============================================================================
