----------------------------- MODULE NiSession -----------------------------
(***************************************************************************)
(* Network-initiated (NI) location requests                                *)
(* (src/gps/loc_api/libloc_api_50001/loc_eng_ni.cpp).  The modem asks, the *)
(* user is notified, and for every accepted request a thread waits for the *)
(* user's answer or a timeout and then answers the modem.  There is one    *)
(* slot for ordinary SUPL requests and one for emergency (ES) ones.        *)
(*                                                                         *)
(* Three kinds of threads meet at a slot: the MsgTask (requests and engine *)
(* restarts), the framework's thread (the user's answers) and the NI       *)
(* threads.  The slot's lock protects resp and respRecvd only: rawRequest, *)
(* reqID and respTimeLeft are also read and written without it, so those   *)
(* accesses are steps of their own here.                                   *)
(*                                                                         *)
(* A request is its number, which is also its notification id, the payload *)
(* the modem passed and the thread that serves it.  The answer's message   *)
(* through the MsgTask is taken as sent when it is queued; muting the fix  *)
(* session on GPS_NI_PRIVACY_OVERRIDE is no state of this module.          *)
(***************************************************************************)
EXTENDS Naturals, Sequences

CONSTANTS
    MaxRequests,  \* bound on the requests that are accepted
    MaxRestarts   \* bound on engine restarts

ASSUME NiAssumption == MaxRequests \in Nat /\ MaxRestarts \in Nat

Slots == {"es", "supl"}
Requests == 1 .. MaxRequests
NoRequest == 0
UserAnswers == {"ACCEPT", "DENY"}
Responses == UserAnswers \cup {"unset", "NORESP", "IGNORE"}
NoMail == [req |-> NoRequest, resp |-> "unset"]

VARIABLES
    counter,   \* reqIDCounter
    raw,       \* rawRequest of each slot
    reqID,     \* reqID of each slot
    left,      \* is respTimeLeft of the slot set (not zero)?
    recvd,     \* respRecvd of each slot
    resp,      \* resp of each slot
    slot,      \* the slot each request was put in
    pc,        \* where the thread of each request is
    window,    \* was respTimeLeft set when the thread computed its deadline?
    mail,      \* the answer (or ignored payload) the thread has taken
    answers,   \* the answers sent to the modem, in order
    mt,        \* where the MsgTask is in loc_eng_ni_reset_on_engine_restart
    fw,        \* where the framework is in loc_eng_ni_respond
    said,      \* history: what the user answered to each request
    dropped,   \* history: requests freed by a reset
    ignored,   \* history: requests freed for an emergency session
    crossed,   \* history: did an answer cross a timeout or another answer?
    restarts

slots == <<raw, reqID, left, recvd, resp>>
threads == <<slot, pc, window, mail>>
history == <<said, dropped, ignored, crossed>>
vars == <<counter, slots, threads, answers, mt, fw, history, restarts>>

Idle == [at |-> "idle"]

\* After loc_eng_ni_init.
Init ==
    /\ counter = 0
    /\ raw = [s \in Slots |-> NoRequest]
    /\ reqID = [s \in Slots |-> NoRequest]
    /\ left = [s \in Slots |-> FALSE]
    /\ recvd = [s \in Slots |-> FALSE]
    /\ resp = [s \in Slots |-> "unset"]
    /\ slot = [r \in Requests |-> "supl"]
    /\ pc = [r \in Requests |-> "none"]
    /\ window = [r \in Requests |-> FALSE]
    /\ mail = [r \in Requests |-> NoMail]
    /\ answers = <<>>
    /\ mt = Idle /\ fw = Idle
    /\ said = [r \in Requests |-> "unset"]
    /\ dropped = {} /\ ignored = {} /\ crossed = FALSE
    /\ restarts = 0

\* Nobody holds the slot's tLock.
Unlocked(s) == \A r \in Requests : slot[r] = s => pc[r] \notin {"holds", "took"}

-----------------------------------------------------------------------------
(***************************************************************************)
(* MsgTask: a request of the modem, an engine restart.                     *)
(***************************************************************************)
\* Faulty variant: a new request displaces the one in progress.
RequestUnguarded(s) ==
    /\ mt = Idle /\ counter < MaxRequests
    /\ LET r == counter + 1
       IN  /\ counter' = r
           /\ raw' = [raw EXCEPT ![s] = r]
           /\ reqID' = [reqID EXCEPT ![s] = r]
           /\ left' = [left EXCEPT ![s] = TRUE]
           /\ slot' = [slot EXCEPT ![r] = s]
           /\ pc' = [pc EXCEPT ![r] = "start"]
    /\ UNCHANGED <<recvd, resp, window, mail, answers, mt, fw, history, restarts>>

\* loc_eng_ni_request_handler: an emergency request needs the emergency slot,
\* an ordinary one needs both; a request that finds its slot taken is freed.
Request(s) ==
    /\ mt = Idle /\ counter < MaxRequests
    /\ raw["es"] = NoRequest
    /\ s = "supl" => raw["supl"] = NoRequest
    /\ LET r == counter + 1
       IN  /\ counter' = r
           /\ raw' = [raw EXCEPT ![s] = r]
           /\ reqID' = [reqID EXCEPT ![s] = r]
           /\ left' = [left EXCEPT ![s] = TRUE]
           /\ slot' = [slot EXCEPT ![r] = s]
           /\ pc' = [pc EXCEPT ![r] = "start"]
    /\ UNCHANGED <<recvd, resp, window, mail, answers, mt, fw, history, restarts>>

\* loc_eng_ni_reset_on_engine_restart: slot by slot, the emergency one first.
EngineDown ==
    /\ mt = Idle /\ restarts < MaxRestarts
    /\ restarts' = restarts + 1
    /\ mt' = [at |-> "check", slot |-> "es"]
    /\ UNCHANGED <<counter, slots, threads, answers, fw, history>>

AfterSlot(s) == IF s = "es" THEN [at |-> "check", slot |-> "supl"] ELSE Idle

\* The slot is looked at without its lock.
ResetCheck ==
    /\ mt.at = "check"
    /\ mt' = IF raw[mt.slot] # NoRequest THEN [mt EXCEPT !.at = "free"] ELSE AfterSlot(mt.slot)
    /\ UNCHANGED <<counter, slots, threads, answers, fw, history, restarts>>

ResetFree ==
    /\ mt.at = "free"
    /\ dropped' = dropped \cup ({raw[mt.slot]} \ {NoRequest})
    /\ raw' = [raw EXCEPT ![mt.slot] = NoRequest]
    /\ mt' = [mt EXCEPT !.at = "signal"]
    /\ UNCHANGED <<counter, reqID, left, recvd, resp, threads, answers, fw, said, ignored,
                   crossed, restarts>>

\* resp is left as it is.
ResetSignal ==
    /\ mt.at = "signal" /\ Unlocked(mt.slot)
    /\ recvd' = [recvd EXCEPT ![mt.slot] = TRUE]
    /\ mt' = AfterSlot(mt.slot)
    /\ UNCHANGED <<counter, raw, reqID, left, resp, threads, answers, fw, history, restarts>>

-----------------------------------------------------------------------------
(***************************************************************************)
(* The framework: loc_eng_ni_respond.  The user answers a notification     *)
(* once; the id and the slot are checked without the lock.                 *)
(***************************************************************************)
Matches(s, r) == reqID[s] = r /\ raw[s] # NoRequest

Respond(r, a) ==
    /\ fw = Idle /\ pc[r] # "none" /\ said[r] = "unset"
    /\ crossed' = (crossed \/ pc[r] \notin {"start", "wait"} \/ recvd[slot[r]])
    /\ said' = [said EXCEPT ![r] = a]
    /\ fw' = IF Matches("es", r)
             THEN [at |-> IF a = "ACCEPT" /\ raw["supl"] # NoRequest THEN "ignore" ELSE "answer",
                   slot |-> "es", req |-> r, resp |-> a]
             ELSE IF Matches("supl", r)
             THEN [at |-> "answer", slot |-> "supl", req |-> r, resp |-> a]
             ELSE Idle
    /\ UNCHANGED <<counter, slots, threads, answers, mt, dropped, ignored, restarts>>

\* An accepted emergency request silences the ordinary one.
IgnoreSupl ==
    /\ fw.at = "ignore" /\ Unlocked("supl")
    /\ resp' = [resp EXCEPT !["supl"] = "IGNORE"]
    /\ recvd' = [recvd EXCEPT !["supl"] = TRUE]
    /\ fw' = [fw EXCEPT !.at = "answer"]
    /\ UNCHANGED <<counter, raw, reqID, left, threads, answers, mt, history, restarts>>

Answer ==
    /\ fw.at = "answer" /\ Unlocked(fw.slot)
    /\ resp' = [resp EXCEPT ![fw.slot] = fw.resp]
    /\ recvd' = [recvd EXCEPT ![fw.slot] = TRUE]
    /\ fw' = Idle
    /\ UNCHANGED <<counter, raw, reqID, left, threads, answers, mt, history, restarts>>

-----------------------------------------------------------------------------
(***************************************************************************)
(* ni_thread_proc of request r.                                            *)
(***************************************************************************)
Goto(r, l) == pc' = [pc EXCEPT ![r] = l]

\* The deadline is computed, and the loop begins to wait.
Begin(r) ==
    LET s == slot[r]
    IN  /\ pc[r] = "start" /\ Unlocked(s)
        /\ window' = [window EXCEPT ![r] = left[s]]
        /\ Goto(r, "wait")
        /\ UNCHANGED <<counter, slots, slot, mail, answers, mt, fw, history, restarts>>

\* Faulty variant: the flag is left set.
WakeKeepingFlag(r) ==
    LET s == slot[r]
    IN  /\ pc[r] = "wait" /\ recvd[s] /\ Unlocked(s)
        /\ Goto(r, "holds")
        /\ UNCHANGED <<counter, slots, slot, window, mail, answers, mt, fw, history, restarts>>

\* respRecvd is set: the loop ends and the flag is cleared.
Wake(r) ==
    LET s == slot[r]
    IN  /\ pc[r] = "wait" /\ recvd[s] /\ Unlocked(s)
        /\ recvd' = [recvd EXCEPT ![s] = FALSE]
        /\ Goto(r, "holds")
        /\ UNCHANGED <<counter, raw, reqID, left, resp, slot, window, mail, answers, mt, fw,
                       history, restarts>>

\* Faulty variant: the timed wait is simply begun again.
TimeoutLoops(r) == pc[r] = "wait" /\ UNCHANGED vars

\* pthread_cond_timedwait returns ETIMEDOUT, also when an answer came while it
\* was getting the lock back: the answer is overwritten.
Timeout(r) ==
    LET s == slot[r]
    IN  /\ pc[r] = "wait" /\ Unlocked(s)
        /\ crossed' = (crossed \/ fw # Idle)
        /\ resp' = [resp EXCEPT ![s] = "NORESP"]
        /\ recvd' = [recvd EXCEPT ![s] = FALSE]
        /\ Goto(r, "holds")
        /\ UNCHANGED <<counter, raw, reqID, left, slot, window, mail, answers, mt, fw,
                       said, dropped, ignored, restarts>>

\* What is in the slot is taken, whichever request it is; an IGNORE frees it.
Take(r) ==
    LET s == slot[r]
        taken == raw[s] # NoRequest
    IN  /\ pc[r] = "holds"
        /\ mail' = [mail EXCEPT ![r] = IF taken THEN [req |-> raw[s], resp |-> resp[s]] ELSE NoMail]
        /\ ignored' = IF taken /\ resp[s] = "IGNORE" THEN ignored \cup {raw[s]} ELSE ignored
        /\ Goto(r, "took")
        /\ UNCHANGED <<counter, slots, slot, window, answers, mt, fw, said, dropped,
                       crossed, restarts>>

\* Faulty variant: the slot is not emptied.
ClearKeepingRaw(r) ==
    /\ pc[r] = "took"
    /\ Goto(r, "zero")
    /\ UNCHANGED <<counter, slots, slot, window, mail, answers, mt, fw, history, restarts>>

\* rawRequest = NULL if it was taken, and the lock is released.
Clear(r) ==
    LET s == slot[r]
    IN  /\ pc[r] = "took"
        /\ raw' = IF mail[r] # NoMail THEN [raw EXCEPT ![s] = NoRequest] ELSE raw
        /\ Goto(r, "zero")
        /\ UNCHANGED <<counter, reqID, left, recvd, resp, slot, window, mail, answers, mt, fw,
                       history, restarts>>

\* After the lock is released: respTimeLeft = 0, then reqID = 0 and sendMsg.
Zero(r) ==
    /\ pc[r] = "zero"
    /\ left' = [left EXCEPT ![slot[r]] = FALSE]
    /\ Goto(r, "send")
    /\ UNCHANGED <<counter, raw, reqID, recvd, resp, slot, window, mail, answers, mt, fw,
                   history, restarts>>

SendAnswer(r) ==
    /\ pc[r] = "send"
    /\ reqID' = [reqID EXCEPT ![slot[r]] = NoRequest]
    /\ answers' = IF mail[r] # NoMail /\ mail[r].resp # "IGNORE"
                  THEN Append(answers, mail[r]) ELSE answers
    /\ Goto(r, "done")
    /\ UNCHANGED <<counter, raw, left, recvd, resp, slot, window, mail, mt, fw, history, restarts>>

Thread(r) ==
    Begin(r) \/ Wake(r) \/ Timeout(r) \/ Take(r) \/ Clear(r) \/ Zero(r) \/ SendAnswer(r)

Reset == ResetCheck \/ ResetFree \/ ResetSignal
Responding == IgnoreSupl \/ Answer

Next ==
    \/ \E s \in Slots : Request(s)
    \/ EngineDown \/ Reset
    \/ \E r \in Requests, a \in UserAnswers : Respond(r, a)
    \/ Responding
    \/ \E r \in Requests : Thread(r)

\* The scheduler runs every thread that can run; a deadline passes.  Nothing
\* makes the modem ask or the user answer.
Fairness ==
    /\ \A r \in Requests : WF_vars(Thread(r))
    /\ WF_vars(Reset) /\ WF_vars(Responding)

Spec == Init /\ [][Next]_vars /\ Fairness
-----------------------------------------------------------------------------
(***************************************************************************)
(* Safety.                                                                 *)
(***************************************************************************)
Accepted == 1 .. counter
Sent(r) == {i \in DOMAIN answers : answers[i].req = r}

\* The modem gets at most one answer to a request, even when the threads of
\* two requests meet at one slot.
AnsweredOnce == \A r \in Accepted : \A i, j \in Sent(r) : i = j

\* No accepted request is lost: it is in its slot, in the hands of a thread,
\* answered, ignored for an emergency or dropped by a restart.
NothingLost ==
    \A r \in Accepted :
        \/ raw[slot[r]] = r
        \/ \E t \in Requests : mail[t].req = r
        \/ r \in dropped

\* As long as no answer of the user crosses a timeout, another answer or an
\* engine restart, what the modem is told of a request is what the user said
\* of that very request, or that there was no response.
AnswerIsUsers ==
    ~crossed /\ restarts = 0 => \A i \in DOMAIN answers : answers[i].resp \in {said[answers[i].req], "NORESP"}

(***************************************************************************)
(* Liveness.                                                               *)
(***************************************************************************)
\* Every accepted request leaves its slot, so the next one can be accepted.
SlotIsFreed == \A s \in Slots, r \in Requests : raw[s] = r ~> raw[s] # r
=============================================================================
