------------------------------- MODULE DmnServer -------------------------------
(***************************************************************************)
(* The daemon connection: loc_eng_dmn_conn.cpp and its thread helper,      *)
(* message glue and handlers. A server thread reads the control messages   *)
(* of the GPS daemon and of the Wi-Fi clients from a named pipe and posts  *)
(* them to the MsgTask; the broker (module Agps) answers the daemon        *)
(* through a second pipe. The owner launches the server, and unblocks and  *)
(* joins it when it is done.                                               *)
(*                                                                         *)
(* No caller of launch is in the repository, and the calls of unblock and  *)
(* join in loc_eng_cleanup are disabled; the owner here does what that     *)
(* code would.                                                             *)
(***************************************************************************)
EXTENDS Naturals, Sequences

CONSTANT MaxMessages   \* bound on the messages of daemon and Wi-Fi clients

ASSUME DmnAssumption == MaxMessages \in Nat

VARIABLES
    launcher, server,           \* program counters of the owner and of the server thread
    thread_exit, thread_ready,  \* fields of loc_eng_dmn_conn_thelper
    fd,                         \* the descriptors, one per pipe
    pipe,                       \* loc_api_server's pipe
    input,                      \* what loc_eng_dmn_conn_glue_msgrcv has returned
    msgq,                       \* messages posted to the MsgTask
    owed,                       \* requests the broker has still to answer
    written, waiting,           \* messages of the clients, the daemon's unanswered ones
    noted                       \* history: circumstances the properties name

helper == <<thread_exit, thread_ready>>
clients == <<written, waiting>>
dmnVars == <<launcher, server, helper, fd, pipe, input, msgq, owed, clients, noted>>

(***************************************************************************)
(* spurious - pthread_cond_wait returned without a signal                  *)
(* failed   - a read from the pipe failed, or a message was too long       *)
(* stopped  - the owner has begun to end the server                        *)
(***************************************************************************)
Circumstances == {"spurious", "failed", "stopped"}
Note(c) == noted' = noted \cup {c}

Queues == {"loc_api", "resp", "wifi"}   \* "wifi" for quipc, msapm and msapu alike
Senders == {"GPSONE_DAEMON", "WIFI", "invalid"}
Message(ctrl, sender, whole) == [ctrl |-> ctrl, sender |-> sender, whole |-> whole]
Nothing == Message("none", "invalid", TRUE)

DmnInit ==
    /\ launcher = "launch" /\ server = "none"
    /\ thread_exit = 0 /\ thread_ready = 0
    /\ fd = [q \in Queues |-> "unset"]
    /\ pipe = <<>> /\ input = Nothing /\ msgq = <<>>
    /\ owed = 0 /\ written = 0 /\ waiting = 0
    /\ noted = {}

-----------------------------------------------------------------------------
\* The glue of the pipes: opening them for reading and writing may fail, a
\* message for a descriptor that is none is lost, removing closes them.
MsgGet == fd' \in [Queues -> {"open", "bad"}]
MsgSnd(m) == pipe' = IF fd["loc_api"] = "open" THEN Append(pipe, m) ELSE pipe
MsgRemove == fd' = [q \in Queues |-> "closed"] /\ pipe' = <<>>

-----------------------------------------------------------------------------
\* The owner.

\* thelper_signal_init
SignalInit == thread_exit' = 0 /\ thread_ready' = 0

Launch ==
    /\ launcher = "launch"
    /\ SignalInit
    /\ server' = "init"
    /\ launcher' = "wait"
    /\ UNCHANGED <<fd, pipe, input, msgq, owed, clients, noted>>

\* thelper_signal_wait: one test, one pthread_cond_wait.
SignalWait ==
    /\ launcher = "wait"
    /\ launcher' = IF thread_ready = 0 /\ thread_exit = 0 THEN "asleep" ELSE "woken"
    /\ UNCHANGED <<server, helper, fd, pipe, input, msgq, owed, clients, noted>>

FalseWakeUp ==
    /\ launcher = "asleep"
    /\ launcher' = "woken"
    /\ Note("spurious")
    /\ UNCHANGED <<server, helper, fd, pipe, input, msgq, owed, clients>>

\* Launch returns thread_exit; an owner that is told of a failure has no server.
LaunchReturns ==
    /\ launcher = "woken"
    /\ launcher' = IF thread_exit = 0 THEN "serving" ELSE "refused"
    /\ UNCHANGED <<server, helper, fd, pipe, input, msgq, owed, clients, noted>>

\* Faulty variant: the message, then the flag.
UnblockFirst ==
    /\ launcher \in {"serving", "unblock"}
    /\ IF launcher = "serving"
       THEN pipe' = Append(pipe, Message("UNBLOCK", "invalid", TRUE)) /\ UNCHANGED thread_exit
       ELSE thread_exit' = 1 /\ UNCHANGED pipe
    /\ Note("stopped")
    /\ launcher' = IF launcher = "serving" THEN "unblock" ELSE "join"
    /\ UNCHANGED <<server, thread_ready, fd, input, msgq, owed, clients>>

\* loc_eng_dmn_conn_loc_api_server_unblock: the flag, then the message.
UnblockHelper ==
    /\ launcher = "serving"
    /\ launcher' = "unblock"
    /\ thread_exit' = 1
    /\ UNCHANGED pipe

UnblockProc ==
    /\ launcher = "unblock"
    /\ launcher' = "join"
    /\ MsgSnd(Message("UNBLOCK", "invalid", TRUE))
    /\ UNCHANGED thread_exit

Unblock ==
    /\ UnblockHelper \/ UnblockProc
    /\ Note("stopped")
    /\ UNCHANGED <<server, thread_ready, fd, input, msgq, owed, clients>>

JoinHelper ==
    /\ launcher = "join" /\ server = "ended"
    /\ launcher' = "joined"
    /\ UNCHANGED <<server, helper, fd, pipe, input, msgq, owed, clients, noted>>

-----------------------------------------------------------------------------
\* The server: thelper_main and the four procs.

\* Faulty variant: the owner is told before the pipes exist.
ReadyFirst ==
    \/ /\ server = "init"
       /\ thread_ready' = 1
       /\ launcher' = IF launcher = "asleep" THEN "woken" ELSE launcher
       /\ server' = "ready"
       /\ UNCHANGED <<fd, thread_exit, pipe, input, msgq, owed, clients, noted>>
    \/ /\ server = "ready"
       /\ fd' = [q \in Queues |-> "open"]
       /\ server' = "proc"
       /\ UNCHANGED <<launcher, helper, pipe, input, msgq, owed, clients, noted>>

\* loc_api_server_proc_init opens the pipes, with or without success, and
\* returns 0.
OpenPipes ==
    /\ server = "init"
    /\ MsgGet
    /\ server' = "ready"
    /\ UNCHANGED <<launcher, thread_ready>>

\* thelper_signal_ready
SignalReady ==
    /\ server = "ready"
    /\ thread_ready' = 1
    /\ launcher' = IF launcher = "asleep" THEN "woken" ELSE launcher
    /\ server' = "proc"
    /\ UNCHANGED fd

\* thelper_main up to its loop; thread_proc_pre does nothing.
ProcInit ==
    /\ OpenPipes \/ SignalReady
    /\ UNCHANGED <<thread_exit, pipe, input, msgq, owed, clients, noted>>

\* loc_eng_dmn_conn_glue_msgrcv: it blocks on an empty pipe, and fails on a
\* broken one and on a message that is cut short or too long for the buffer.
MsgRcv ==
    /\ server = "proc"
    /\ \/ /\ fd["loc_api"] = "open" /\ pipe # <<>>
          /\ pipe' = Tail(pipe)
          /\ IF Head(pipe).whole
             THEN input' = Head(pipe) /\ UNCHANGED noted
             ELSE input' = Nothing /\ Note("failed")
       \/ fd["loc_api"] = "bad" /\ input' = Nothing /\ Note("failed") /\ UNCHANGED pipe
    /\ server' = IF input' = Nothing THEN "fail" ELSE "handle"
    /\ UNCHANGED <<launcher, helper, fd, msgq, owed, clients>>

\* A proc that fails ends the thread, whatever it logs.
ProcFails ==
    /\ server = "fail"
    /\ thread_exit' = 1
    /\ server' = "again"
    /\ UNCHANGED <<launcher, thread_ready, fd, pipe, input, msgq, owed, clients, noted>>

\* The handlers: a LocEngReqRelBIT or LocEngReqRelWifi is posted, or nothing for
\* a type or a sender that is none.
IfRequestHandler(sender) == IF sender = "invalid" THEN <<>> ELSE <<sender>>
IfReleaseHandler(sender) == IF sender = "invalid" THEN <<>> ELSE <<sender>>
Handled(m) ==
    CASE m.ctrl = "IF_REQUEST" -> IfRequestHandler(m.sender)
      [] m.ctrl = "IF_RELEASE" -> IfReleaseHandler(m.sender)
      [] OTHER -> <<>>

\* Faulty variant: what the handler returns is the result of the proc.
ProcForwarding ==
    /\ server = "handle"
    /\ msgq' = msgq \o Handled(input)
    /\ input' = Nothing
    /\ server' = IF Handled(input) = <<>> /\ input.ctrl # "UNBLOCK" THEN "fail" ELSE "again"
    /\ UNCHANGED <<launcher, helper, fd, pipe, owed, clients, noted>>

ServerProc ==
    /\ server = "handle"
    /\ msgq' = msgq \o Handled(input)
    /\ input' = Nothing
    /\ server' = "again"
    /\ UNCHANGED <<launcher, helper, fd, pipe, owed, clients, noted>>

Again ==
    /\ server = "again"
    /\ server' = IF thread_exit = 0 THEN "proc" ELSE "post"
    /\ UNCHANGED <<launcher, helper, fd, pipe, input, msgq, owed, clients, noted>>

ProcPost ==
    /\ server = "post"
    /\ MsgRemove
    /\ server' = "ended"
    /\ UNCHANGED <<launcher, helper, input, msgq, owed, clients, noted>>

-----------------------------------------------------------------------------
\* The MsgTask. A Wi-Fi request is refused to the modem; its sender hears nothing.
MsgTaskTakes ==
    /\ msgq # <<>>
    /\ msgq' = Tail(msgq)
    /\ owed' = IF Head(msgq) = "GPSONE_DAEMON" THEN owed + 1 ELSE owed
    /\ UNCHANGED <<launcher, server, helper, fd, pipe, input, clients, noted>>

\* loc_eng_dmn_conn_loc_api_server_data_conn, called by the daemon's subscriber:
\* an answer that cannot be written is lost.
DataConn ==
    /\ owed > 0
    /\ owed' = owed - 1
    /\ waiting' = IF fd["resp"] = "open" THEN waiting - 1 ELSE waiting
    /\ UNCHANGED <<launcher, server, helper, fd, pipe, input, msgq, written, noted>>

\* The clients write whole messages or fragments, as long as the pipe is there.
ClientSends(sender, whole) ==
    /\ written < MaxMessages /\ fd["loc_api"] = "open"
    /\ \E ctrl \in {"IF_REQUEST", "IF_RELEASE"} : pipe' = Append(pipe, Message(ctrl, sender, whole))
    /\ written' = written + 1
    /\ waiting' = IF sender = "GPSONE_DAEMON" /\ whole THEN waiting + 1 ELSE waiting
    /\ UNCHANGED <<launcher, server, helper, fd, input, msgq, owed, noted>>

Launcher == Launch \/ SignalWait \/ LaunchReturns \/ Unblock \/ JoinHelper
Server == ProcInit \/ MsgRcv \/ ProcFails \/ ServerProc \/ Again \/ ProcPost
MsgTask == MsgTaskTakes \/ DataConn

DmnNext ==
    \/ Launcher \/ FalseWakeUp
    \/ Server
    \/ MsgTask
    \/ \E sender \in Senders, whole \in BOOLEAN : ClientSends(sender, whole)

\* Both threads and the MsgTask run; the owner goes on once it has begun to
\* end the server, and the broker answers.
Fairness ==
    /\ WF_dmnVars(Server) /\ WF_dmnVars(MsgTask)
    /\ WF_dmnVars(Launch \/ SignalWait \/ LaunchReturns \/ JoinHelper)
    /\ WF_dmnVars(launcher = "unblock" /\ Unblock)

DmnSpec == DmnInit /\ [][DmnNext]_dmnVars /\ Fairness
-----------------------------------------------------------------------------
(***************************************************************************)
(* An owner that launch has told of success may use the server: its pipes  *)
(* have been opened (thelper_signal_wait, thelper_signal_ready). A         *)
(* spurious wake-up is not looked for and breaks the promise.              *)
(***************************************************************************)
LaunchIsReady ==
    launcher \in {"serving", "unblock", "join"} /\ "spurious" \notin noted => fd["loc_api"] # "unset"

(***************************************************************************)
(* Launch returns, and join returns once the server has been unblocked,    *)
(* wherever the server is then: in the loop, blocked in a read, failing    *)
(* or over (loc_eng_dmn_conn_loc_api_server_unblock, thelper_main). After  *)
(* a spurious wake-up the message may have gone to no pipe.                *)
(***************************************************************************)
JoinReturns ==
    /\ (launcher = "launch") ~> (launcher \in {"serving", "refused", "unblock", "join", "joined"})
    /\ (launcher = "unblock" /\ "spurious" \notin noted) ~> (launcher = "joined")

(***************************************************************************)
(* The daemon gets an answer to every message it has sent, whatever        *)
(* messages of other senders are around it, until a read fails, the        *)
(* response pipe does, or the owner stops the server                       *)
(* (loc_api_server_proc and its handlers).                                 *)
(***************************************************************************)
DaemonIsAnswered ==
    (waiting > 0) ~> (waiting = 0 \/ fd["resp"] = "bad" \/ noted \cap {"failed", "stopped"} # {})

=============================================================================
