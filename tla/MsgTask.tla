------------------------------ MODULE MsgTask ------------------------------
(***************************************************************************)
(* A message task of libgps.utils (MsgTask.cpp, msg_q.c): a queue with its *)
(* mutex and condition variable, and a LocThread whose run() receives one  *)
(* message and handles it.  Any thread sends; the owner may destroy the    *)
(* task.  The runnable of the LocThread is the MsgTask itself, which owns  *)
(* the queue: when the thread deletes it the queue goes with it.           *)
(*                                                                         *)
(* The linked list is a sequence (LinkedList shows that it behaves so).    *)
(* An operation on the queue is one step: it holds list_mutex throughout.  *)
(***************************************************************************)
EXTENDS LocThread, Sequences

CONSTANT Messages      \* how many messages are sent (bound)

ASSUME MsgTaskAssumption == Messages \in Nat

VARIABLES
    msg_list,   \* the queue, oldest first
    unblocked,  \* whether msg_q_unblock was called
    receiver,   \* the thread in msg_q_rcv: "none", "waits" on list_cond, "woken"
    msg,        \* the message in proc(), or 0
    destroyer,  \* MsgTask::destroy: "none", "unblocked", "nulled", "done"
    sent,       \* how many messages were sent
    refused,    \* history: messages that msg_q_snd did not take
    processed,  \* history: messages handled, in that order
    flushed     \* history: messages deleted unhandled by the destructor

queueVars == <<msg_list, unblocked, receiver>>
taskVars  == <<msg_list, unblocked, receiver, msg, destroyer, sent, refused, processed, flushed>>
vars      == <<threadVars, taskVars>>

TaskInit ==
    /\ Init
    /\ msg_list = <<>> /\ unblocked = FALSE /\ receiver = "none"
    /\ msg = 0
    /\ destroyer = "none"
    /\ sent = 0 /\ refused = {} /\ processed = <<>> /\ flushed = {}

-----------------------------------------------------------------------------
(* Senders *)

\* Faulty variant: the message goes to the end that msg_q_rcv takes from.
SendInFront ==
    /\ owner \notin {"idle", "created"} /\ runnable
    /\ sent < Messages
    /\ sent' = sent + 1
    /\ IF unblocked
       THEN refused' = refused \cup {sent'} /\ UNCHANGED <<msg_list, receiver>>
       ELSE /\ msg_list' = <<sent'>> \o msg_list
            /\ receiver' = IF receiver = "waits" THEN "woken" ELSE receiver
            /\ UNCHANGED refused
    /\ UNCHANGED <<threadVars, unblocked, msg, destroyer, processed, flushed>>

\* msg_q_snd: refused once the queue is unblocked; where linked_list_add finds
\* no memory the message is lost, and the receiver is woken all the same.
\* Nobody may send to a task that is not constructed or is deleted.
Send ==
    /\ owner \notin {"idle", "created"} /\ runnable
    /\ sent < Messages
    /\ sent' = sent + 1
    /\ \/ refused' = refused \cup {sent'} /\ UNCHANGED msg_list
       \/ ~unblocked /\ msg_list' = Append(msg_list, sent') /\ UNCHANGED refused
    /\ receiver' = IF ~unblocked /\ receiver = "waits" THEN "woken" ELSE receiver
    /\ UNCHANGED <<threadVars, unblocked, msg, destroyer, processed, flushed>>

-----------------------------------------------------------------------------
(* The owner: the constructor is LocThread::start *)

Construct ==
    /\ Create \/ CheckRunning
    /\ UNCHANGED taskVars

\* Faulty variant: the queue is unblocked without waking the waiting thread.
UnblockSilently ==
    /\ started # "none" /\ destroyer = "none"
    /\ destroyer' = "unblocked"
    /\ unblocked' = TRUE
    /\ UNCHANGED <<threadVars, msg_list, receiver, msg, sent, refused, processed, flushed>>

\* destroy(): unblock the queue ...
DestroyUnblock ==
    /\ started # "none" /\ destroyer = "none"
    /\ destroyer' = "unblocked"
    /\ unblocked' = TRUE
    /\ receiver' = IF receiver = "waits" THEN "woken" ELSE receiver
    /\ UNCHANGED <<threadVars, msg_list, msg, sent, refused, processed, flushed>>

\* ~MsgTask: the queue is flushed and destroyed.
DeleteQueue ==
    /\ flushed' = flushed \cup {msg_list[i] : i \in 1 .. Len(msg_list)}
    /\ msg_list' = <<>>
    /\ UNCHANGED <<unblocked, receiver, msg, sent, refused, processed>>

\* ... if there is a thread, set mThread to NULL in this object ...
DestroyNull ==
    /\ destroyer = "unblocked" /\ started = "true"
    /\ destroyer' = "nulled"
    /\ UNCHANGED <<threadVars, queueVars, msg, sent, refused, processed, flushed>>

\* ... and delete the LocThread ...
DestroyThread ==
    /\ destroyer = "nulled"
    /\ \/ (Bye \/ Join) /\ UNCHANGED destroyer
       \/ OwnerDestroy /\ destroyer' = "done"
    /\ UNCHANGED <<queueVars, msg, sent, refused, processed, flushed>>

\* ... or else delete this.
DestroyThis ==
    /\ destroyer = "unblocked" /\ started = "false"
    /\ destroyer' = "done"
    /\ runnable' = FALSE
    /\ DeleteQueue
    /\ UNCHANGED <<mRunnable, mJoinable, mRefCount, delegate, thread, owner, started>>

-----------------------------------------------------------------------------
(* The thread *)

Receiving == thread = "run" /\ msg = 0

\* msg_q_rcv on an unblocked queue: run() returns false.
ReceiveNothing ==
    /\ Receiving /\ receiver = "none"
    /\ unblocked
    /\ RunReturns(FALSE)
    /\ UNCHANGED taskVars

\* ... on an empty one: pthread_cond_wait.
ReceiveWaits ==
    /\ Receiving /\ receiver # "waits"
    /\ ~ unblocked /\ msg_list = <<>>
    /\ receiver' = "waits"
    /\ UNCHANGED <<threadVars, msg_list, unblocked, msg, destroyer, sent, refused, processed, flushed>>

\* ... and the oldest message is taken, also from a queue that was unblocked
\* while the thread was waiting.
Receive ==
    /\ Receiving /\ receiver # "waits"
    /\ ~ (unblocked /\ receiver = "none")
    /\ msg_list # <<>>
    /\ msg' = Head(msg_list)
    /\ msg_list' = Tail(msg_list)
    /\ receiver' = "none"
    /\ UNCHANGED <<threadVars, unblocked, destroyer, sent, refused, processed, flushed>>

\* pthread_cond_wait may also return for no reason.
SpuriousWakeUp ==
    /\ receiver = "waits"
    /\ receiver' = "woken"
    /\ UNCHANGED <<threadVars, msg_list, unblocked, msg, destroyer, sent, refused, processed, flushed>>

\* Faulty variant: "if" for "while": a spurious wake-up ends the thread.
ReceiveWokenOnce ==
    /\ Receiving /\ receiver = "woken"
    /\ msg_list = <<>>
    /\ receiver' = "none"
    /\ RunReturns(FALSE)
    /\ UNCHANGED <<msg_list, unblocked, msg, destroyer, sent, refused, processed, flushed>>

\* ... or there is none: the waiting thread was woken by msg_q_unblock.
ReceiveWoken ==
    /\ Receiving /\ receiver = "woken"
    /\ unblocked /\ msg_list = <<>>
    /\ receiver' = "none"
    /\ RunReturns(FALSE)
    /\ UNCHANGED <<msg_list, unblocked, msg, destroyer, sent, refused, processed, flushed>>

\* msg->proc(), delete msg.
Proc ==
    /\ thread = "run" /\ msg # 0
    /\ processed' = Append(processed, msg)
    /\ msg' = 0
    /\ RunReturns(TRUE)
    /\ UNCHANGED <<queueVars, destroyer, sent, refused, flushed>>

\* delete runnable.
DeleteTask == DeleteRunnable /\ DeleteQueue /\ UNCHANGED destroyer

ThreadGoes ==
    /\ Enter \/ Ready \/ Prerun \/ Loop \/ Ended \/ Postrun \/ Clear \/ Leave
    /\ UNCHANGED taskVars

Thread == \/ ThreadGoes \/ ReceiveNothing \/ ReceiveWaits \/ Receive \/ ReceiveWoken
          \/ Proc \/ DeleteTask
Destroying == DestroyNull \/ DestroyThread \/ DestroyThis

TaskNext == Send \/ Construct \/ DestroyUnblock \/ Destroying \/ Thread \/ SpuriousWakeUp

TaskSpec == TaskInit /\ [][TaskNext]_vars

\* The thread is scheduled and a handler returns; who has called destroy()
\* goes on with it.  Nobody need send or call destroy().
FairTaskSpec == TaskSpec /\ WF_vars(Thread) /\ WF_vars(Destroying) /\ WF_vars(Construct)

-----------------------------------------------------------------------------
(* Properties *)

\* The messages taken and not deleted, oldest first: those handled, the one
\* being handled, those in the queue.
InHand == processed \o (IF msg = 0 THEN <<>> ELSE <<msg>>) \o msg_list

\* Every message sent is in exactly one place, and the places follow one
\* another in the order of sending: handled, being handled, queued, or deleted
\* unhandled; or else msg_q_snd did not take it.
EachMessageOnce ==
    LET inHand == {InHand[i] : i \in 1 .. Len(InHand)}
    IN /\ \A i, j \in 1 .. Len(InHand) : i < j => InHand[i] < InHand[j]
       /\ \A m \in inHand, f \in flushed : m < f
       /\ inHand \cup flushed \cup refused = 1 .. sent
       /\ refused \cap (inHand \cup flushed) = {}

\* Without a destroy() every message that was taken is handled.
EachIsHandled ==
    \A m \in 1 .. Messages :
       (sent >= m /\ destroyer = "none" /\ started = "true")
          ~> (destroyer # "none" \/ m \in refused \/ m \in {processed[i] : i \in 1 .. Len(processed)})

\* destroy() returns, also when the thread is waiting or in a long backlog.
DestroyReturns == (destroyer # "none") ~> (destroyer = "done")

=============================================================================
