----------------------------- MODULE MCThreads ------------------------------
(* The two threads that interact with no other model, in one run: the server *)
(* of the daemon connection is launched; where the launch has failed, before *)
(* any client wrote to it, and its thread is over, the message task runs.    *)
(* The clients of the server need not be tried with both kinds of task.      *)
EXTENDS MsgTask, DmnServer

MCInit == TaskInit /\ DmnInit

Alone == launcher = "refused" /\ server = "ended" /\ written = 0

MCNext ==
    \/ DmnNext /\ UNCHANGED vars /\ (mJoinable => UNCHANGED written)
    \/ Alone /\ TaskNext /\ UNCHANGED dmnVars

\* FairTaskSpec of MsgTask
TaskFairness ==
    WF_vars(Alone /\ Thread) /\ WF_vars(Alone /\ Destroying) /\ WF_vars(Alone /\ Construct)

\* Fairness is that of DmnServer.
MCSpec == MCInit /\ [][MCNext]_<<vars, dmnVars>> /\ Fairness /\ TaskFairness
=============================================================================
