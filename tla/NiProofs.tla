------------------------------- MODULE NiProofs -------------------------------
(***************************************************************************)
(* Proofs about network-initiated requests, for any number of requests and *)
(* engine restarts: none is lost or answered twice, and unless answers     *)
(* cross, the modem is told what the user said of that very request.       *)
(*                                                                         *)
(* The argument follows the payload of a request: from its slot into the   *)
(* hands of one thread, and from there into one answer. The lock makes one *)
(* thread take it; that a reset, which frees the slot without the lock,    *)
(* does not let the next request in before the thread has gone is due to   *)
(* its last step, which waits for the lock in the MsgTask.                 *)
(***************************************************************************)
EXTENDS NiSession, TLAPS

Places == {"none", "start", "wait", "holds", "took", "zero", "send", "done"}
Mail == [req : Nat, resp : Responses]
Resets == [at : {"check", "free", "signal"}, slot : Slots]
Answers == [at : {"ignore", "answer"}, slot : Slots, req : Requests, resp : UserAnswers]

NiType ==
    /\ counter \in 0 .. MaxRequests
    /\ raw \in [Slots -> Nat]
    /\ resp \in [Slots -> Responses]
    /\ slot \in [Requests -> Slots]
    /\ pc \in [Requests -> Places]
    /\ mail \in [Requests -> Mail]
    /\ answers \in Seq(Mail)
    /\ mt = Idle \/ mt \in Resets
    /\ fw = Idle \/ fw \in Answers

\* A request has a thread once it is accepted, a slot holds its own requests,
\* and a thread that has not taken anything has nothing.
InPlace ==
    /\ \A r \in Requests : r > counter => pc[r] = "none"
    /\ \A s \in Slots : raw[s] # NoRequest => raw[s] \in Accepted /\ slot[raw[s]] = s
    /\ \A t \in Requests : mail[t] # NoMail => mail[t].req \in Accepted
    /\ \A t \in Requests : pc[t] \in {"none", "start", "wait", "holds"} => mail[t] = NoMail

\* tLock has one holder.
OneHolder ==
    \A t, u \in Requests :
        slot[t] = slot[u] /\ pc[t] \in {"holds", "took"} /\ pc[u] \in {"holds", "took"} => t = u

\* What a thread holds with the lock is still in its slot, unless the reset has
\* freed it and waits for the lock.
TookHolds ==
    \A t \in Requests :
        pc[t] = "took" /\ mail[t] # NoMail =>
            \/ raw[slot[t]] = mail[t].req
            \/ raw[slot[t]] = NoRequest /\ mt.at = "signal" /\ mt.slot = slot[t]

\* A payload is in the hands of one thread, and not in a slot besides, but for
\* the thread that is about to clear it.
OneHand ==
    /\ \A t, u \in Requests : mail[t] # NoMail /\ mail[t].req = mail[u].req => t = u
    /\ \A s \in Slots, t \in Requests :
           mail[t] # NoMail /\ raw[s] = mail[t].req => pc[t] = "took" /\ slot[t] = s

\* An answer was sent by the thread that had the request, which is done.
SentByDone ==
    /\ \A i \in DOMAIN answers : \E t \in Requests :
           pc[t] = "done" /\ mail[t] # NoMail /\ mail[t].req = answers[i].req
    /\ \A i, j \in DOMAIN answers : answers[i].req = answers[j].req => i = j

NiInv == NiType /\ InPlace /\ OneHolder /\ TookHolds /\ OneHand /\ SentByDone /\ NothingLost

\* What the invariant is for.
LEMMA AnsweredByHand == NiInv => AnsweredOnce
  BY DEF NiInv, SentByDone, AnsweredOnce, Sent

LEMMA InitHolds == Init => NiInv
<1> SUFFICES ASSUME Init PROVE NiInv
  OBVIOUS
<1>1. NiType
  BY NiAssumption DEF Init, NiType, Slots, Requests, NoRequest, NoMail, Responses, UserAnswers,
                      Places, Mail
<1>2. InPlace /\ OneHolder /\ TookHolds /\ OneHand
  BY DEF Init, InPlace, OneHolder, TookHolds, OneHand
<1>3. SentByDone
  BY DEF Init, SentByDone
<1>4. NothingLost
  BY NiAssumption DEF Init, NothingLost, Accepted
<1> QED
  BY <1>1, <1>2, <1>3, <1>4 DEF NiInv

-----------------------------------------------------------------------------
\* Types.
LEMMA NextType == NiInv /\ Next => NiType'
<1> SUFFICES ASSUME NiInv, Next PROVE NiType'
  OBVIOUS
<1> USE NiAssumption DEF NiInv, NiType
<1>1. ASSUME NEW s \in Slots, Request(s) PROVE NiType'
  BY <1>1 DEF Request, Requests, Places, history, Idle
<1>2. CASE EngineDown
  BY <1>2 DEF EngineDown, slots, threads, Resets, Slots
<1>3. CASE Reset
  <2>1. mt \in Resets
    BY <1>3 DEF Reset, ResetCheck, ResetFree, ResetSignal, Idle
  <2>2. AfterSlot(mt.slot) = Idle \/ AfterSlot(mt.slot) \in Resets
    BY DEF AfterSlot, Resets, Slots
  <2>3. CASE ResetCheck
    BY <2>1, <2>2, <2>3 DEF ResetCheck, slots, threads, Resets
  <2>4. CASE ResetFree
    BY <2>1, <2>4 DEF ResetFree, threads, Resets, NoRequest
  <2>5. CASE ResetSignal
    BY <2>1, <2>2, <2>5 DEF ResetSignal, threads
  <2> QED
    BY <1>3, <2>3, <2>4, <2>5 DEF Reset
<1>4. ASSUME NEW r \in Requests, NEW a \in UserAnswers, Respond(r, a) PROVE NiType'
  BY <1>4 DEF Respond, slots, threads, Answers, Slots
<1>5. CASE Responding
  <2>1. fw \in Answers
    BY <1>5 DEF Responding, IgnoreSupl, Answer, Idle
  <2>2. CASE IgnoreSupl
    BY <2>1, <2>2 DEF IgnoreSupl, threads, Answers, Slots, Responses
  <2>3. CASE Answer
    BY <2>1, <2>3 DEF Answer, threads, Answers, Responses
  <2> QED
    BY <1>5, <2>2, <2>3 DEF Responding
<1>6. ASSUME NEW r \in Requests, Thread(r) PROVE NiType'
  <2>1. CASE Begin(r) \/ Wake(r) \/ Zero(r)
    BY <2>1 DEF Begin, Wake, Zero, Goto, Places, slots
  <2>5. CASE Clear(r)
    BY <2>5 DEF Clear, Goto, Places, NoRequest
  <2>2. CASE Timeout(r)
    BY <2>2 DEF Timeout, Goto, Places, Responses
  <2>3. CASE Take(r)
    BY <2>3 DEF Take, Goto, Places, slots, Mail, NoMail, NoRequest, Responses
  <2>4. CASE SendAnswer(r)
    BY <2>4 DEF SendAnswer, Goto, Places
  <2> QED
    BY <1>6, <2>1, <2>2, <2>3, <2>4, <2>5 DEF Thread
<1> QED
  BY <1>1, <1>2, <1>3, <1>4, <1>5, <1>6 DEF Next

-----------------------------------------------------------------------------
\* The payloads.
Hands == InPlace /\ OneHolder /\ TookHolds /\ OneHand /\ SentByDone /\ NothingLost
payloads == <<counter, raw, slot, pc, mail, answers, dropped>>

\* A new request gets a number, a slot and a thread that nobody had.
LEMMA RequestHands == ASSUME NiInv, NEW s \in Slots, Request(s) PROVE Hands'
<1> DEFINE r == counter + 1
<1> USE NiAssumption DEF NiInv, NiType
<1>1. /\ r \in Requests /\ pc[r] = "none" /\ mail[r] = NoMail /\ raw[s] = NoRequest /\ mt = Idle
      /\ counter' = r /\ raw' = [raw EXCEPT ![s] = r] /\ slot' = [slot EXCEPT ![r] = s]
      /\ pc' = [pc EXCEPT ![r] = "start"] /\ UNCHANGED <<mail, answers, mt, dropped>>
  BY DEF Request, Requests, InPlace, history, Slots
<1> HIDE DEF r
<1>2. r = counter + 1 /\ r \in Nat /\ r > counter
  BY DEF r
<1>3. InPlace'
  BY <1>1, <1>2 DEF InPlace, Accepted, Requests, NoRequest, NoMail
<1>4. OneHolder'
  BY <1>1 DEF OneHolder
<1>5. TookHolds'
  <2> SUFFICES ASSUME NEW t \in Requests, pc'[t] = "took", mail'[t] # NoMail
               PROVE  raw'[slot'[t]] = mail'[t].req
    BY DEF TookHolds
  <2>1. t # r /\ pc[t] = "took" /\ mail[t] # NoMail /\ slot'[t] = slot[t]
    BY <1>1
  <2>2. mt.at # "signal"
    BY <1>1 DEF Idle
  <2>3. raw[slot[t]] = mail[t].req
    BY <2>1, <2>2 DEF TookHolds
  <2>4. mail[t].req # NoRequest
    BY <2>1 DEF InPlace, Accepted, NoRequest
  <2> QED
    BY <1>1, <2>1, <2>3, <2>4
<1>6. OneHand'
  <2>1. \A t \in Requests : mail[t] # NoMail => mail[t].req # r
    BY <1>2 DEF InPlace, Accepted
  <2> QED
    BY <1>1, <2>1 DEF OneHand
<1>7. SentByDone'
  BY <1>1 DEF SentByDone
<1>8. NothingLost'
  <2> SUFFICES ASSUME NEW q \in 1 .. counter'
               PROVE  raw'[slot'[q]] = q \/ (\E t \in Requests : mail'[t].req = q) \/ q \in dropped'
    BY DEF NothingLost, Accepted
  <2>1. CASE q = r
    BY <1>1, <2>1
  <2>2. CASE q # r
    <3>1. q \in Accepted /\ q \in Requests /\ q # NoRequest
      BY <1>1, <1>2, <2>2 DEF Accepted, Requests, NoRequest
    <3>2. slot'[q] = slot[q] /\ slot[q] \in Slots
      BY <1>1, <2>2, <3>1
    <3>3. raw[slot[q]] = q => raw'[slot'[q]] = q
      BY <1>1, <3>1, <3>2
    <3> QED
      BY <1>1, <3>1, <3>3 DEF NothingLost
  <2> QED
    BY <2>1, <2>2
<1> QED
  BY <1>3, <1>4, <1>5, <1>6, <1>7, <1>8 DEF Hands

\* The reset frees what is in a slot and goes on only when nobody holds its lock.
LEMMA ResetHands == NiInv /\ (EngineDown \/ Reset) => Hands'
<1> SUFFICES ASSUME NiInv, EngineDown \/ Reset PROVE Hands'
  OBVIOUS
<1> USE NiAssumption DEF NiInv, NiType
<1>1. ASSUME UNCHANGED payloads,
             \A t \in Requests : pc[t] = "took" => ~(mt.at = "signal" /\ mt.slot = slot[t])
      PROVE  Hands'
  <2>1. TookHolds'
    BY <1>1 DEF TookHolds, payloads
  <2>2. InPlace' /\ OneHolder' /\ OneHand'
    BY <1>1 DEF payloads, InPlace, OneHolder, OneHand, Accepted
  <2>3. SentByDone' /\ NothingLost'
    BY <1>1 DEF payloads, SentByDone, NothingLost, Accepted
  <2> QED
    BY <2>1, <2>2, <2>3 DEF Hands
<1>2. CASE EngineDown
  BY <1>1, <1>2 DEF EngineDown, Idle, payloads, slots, threads, history
<1>3. CASE ResetCheck
  BY <1>1, <1>3 DEF ResetCheck, payloads, slots, threads, history
<1>4. CASE ResetFree
  <2>1. /\ mt \in Resets /\ mt.at = "free" /\ mt' = [at |-> "signal", slot |-> mt.slot]
        /\ mt.slot \in Slots /\ raw' = [raw EXCEPT ![mt.slot] = NoRequest]
        /\ dropped' = dropped \cup ({raw[mt.slot]} \ {NoRequest})
        /\ UNCHANGED <<counter, slot, pc, mail, answers>>
    BY <1>4 DEF ResetFree, Resets, Idle, threads
  <2>2. InPlace' /\ OneHolder'
    BY <2>1 DEF InPlace, OneHolder, Accepted
  <2>3. TookHolds'
    BY <2>1 DEF TookHolds
  <2>4. OneHand'
    BY <2>1 DEF OneHand, InPlace, Accepted, NoRequest
  <2>5. SentByDone'
    BY <2>1 DEF SentByDone
  <2>6. NothingLost'
    BY <2>1 DEF NothingLost, Accepted, NoRequest, Requests
  <2> QED
    BY <2>2, <2>3, <2>4, <2>5, <2>6 DEF Hands
<1>5. CASE ResetSignal
  BY <1>1, <1>5 DEF ResetSignal, Unlocked, payloads, threads, history
<1> QED
  BY <1>2, <1>3, <1>4, <1>5 DEF Reset

\* A step of a thread that takes or gives up nothing.
LEMMA ThreadMoves ==
  ASSUME NiInv, NEW r \in Requests, NEW to \in {"wait", "holds", "send"},
         pc' = [pc EXCEPT ![r] = to], UNCHANGED <<counter, raw, slot, mail, answers, dropped, mt>>,
         to \in {"wait", "holds"} => pc[r] \in {"start", "wait"},
         to = "holds" => Unlocked(slot[r]),
         to = "send" => pc[r] = "zero"
  PROVE  Hands'
<1> USE DEF NiInv, NiType
<1>1. InPlace'
  BY DEF InPlace, Accepted
<1>2. OneHolder'
  BY DEF OneHolder, Unlocked
<1>3. TookHolds'
  BY DEF TookHolds
<1>4. OneHand'
  BY DEF OneHand
<1>5. SentByDone'
  BY DEF SentByDone
<1>6. NothingLost'
  BY DEF NothingLost, Accepted
<1> QED
  BY <1>1, <1>2, <1>3, <1>4, <1>5, <1>6 DEF Hands

\* With the lock, what is in the slot changes hands; nobody else has it.
LEMMA TakeHands == ASSUME NiInv, NEW r \in Requests, Take(r) PROVE Hands'
<1> DEFINE s == slot[r]
<1> USE NiAssumption DEF NiInv, NiType
<1>1. /\ pc[r] = "holds" /\ mail[r] = NoMail /\ s \in Slots
      /\ pc' = [pc EXCEPT ![r] = "took"] /\ UNCHANGED <<counter, raw, slot, answers, dropped, mt>>
      /\ mail' = [mail EXCEPT ![r] = IF raw[s] # NoRequest THEN [req |-> raw[s], resp |-> resp[s]] ELSE NoMail]
  BY DEF Take, Goto, InPlace, slots
<1>2. /\ \A t \in Requests : t # r => mail'[t] = mail[t] /\ pc'[t] = pc[t]
      /\ raw[s] = NoRequest => mail'[r] = NoMail
      /\ raw[s] # NoRequest => mail'[r] # NoMail /\ mail'[r].req = raw[s] /\ raw[s] \in Accepted
      /\ pc'[r] = "took"
  BY <1>1 DEF NoMail, NoRequest, InPlace
<1>3. \A t \in Requests : mail[t] # NoMail /\ raw[s] = mail[t].req => FALSE
  BY <1>1 DEF OneHand, OneHolder
<1>4. InPlace'
  BY <1>1, <1>2 DEF InPlace, Accepted
<1>5. OneHolder'
  BY <1>1, <1>2 DEF OneHolder
<1>6. TookHolds'
  BY <1>1, <1>2 DEF TookHolds
<1>7. OneHand'
  <2>1. \A t, u \in Requests : mail'[t] # NoMail /\ mail'[t].req = mail'[u].req => t = u
    <3> SUFFICES ASSUME NEW t \in Requests, NEW u \in Requests,
                        mail'[t] # NoMail, mail'[t].req = mail'[u].req, t # u
                 PROVE  FALSE
      OBVIOUS
    <3>1. mail'[u] # NoMail
      BY <1>4 DEF InPlace, Accepted, NoMail, NoRequest
    <3>2. CASE t = r \/ u = r
      BY <1>2, <1>3, <3>1, <3>2
    <3>3. CASE t # r /\ u # r
      BY <1>2, <3>3 DEF OneHand
    <3> QED
      BY <3>2, <3>3
  <2>2. \A q \in Slots, t \in Requests :
            mail'[t] # NoMail /\ raw'[q] = mail'[t].req => pc'[t] = "took" /\ slot'[t] = q
    <3> SUFFICES ASSUME NEW q \in Slots, NEW t \in Requests,
                        mail'[t] # NoMail, raw[q] = mail'[t].req
                 PROVE  pc'[t] = "took" /\ slot[t] = q
      BY <1>1
    <3>1. CASE t = r
      BY <1>2, <3>1 DEF InPlace
    <3>2. CASE t # r
      BY <1>2, <3>2 DEF OneHand
    <3> QED
      BY <3>1, <3>2
  <2> QED
    BY <2>1, <2>2 DEF OneHand
<1>8. SentByDone'
  BY <1>1, <1>2 DEF SentByDone
<1>9. NothingLost'
  <2>1. \A q \in Accepted, t \in Requests : mail[t].req = q => mail'[t].req = q
    BY <1>1, <1>2 DEF NoMail, NoRequest, Accepted
  <2> QED
    BY <1>1, <2>1 DEF NothingLost, Accepted
<1> QED
  BY <1>4, <1>5, <1>6, <1>7, <1>8, <1>9 DEF Hands

\* The slot is cleared of what the thread has taken, and of nothing else.
LEMMA ClearHands == ASSUME NiInv, NEW r \in Requests, Clear(r) PROVE Hands'
<1> DEFINE s == slot[r]
<1> USE NiAssumption DEF NiInv, NiType
<1>1. /\ pc[r] = "took" /\ s \in Slots
      /\ pc' = [pc EXCEPT ![r] = "zero"] /\ UNCHANGED <<counter, slot, mail, answers, dropped, mt>>
      /\ raw' = IF mail[r] # NoMail THEN [raw EXCEPT ![s] = NoRequest] ELSE raw
  BY DEF Clear, Goto, history
<1>2. InPlace'
  BY <1>1 DEF InPlace, Accepted
<1>3. OneHolder'
  BY <1>1 DEF OneHolder
<1>4. TookHolds'
  BY <1>1 DEF TookHolds, OneHolder
<1>5. OneHand'
  <2>1. \A q \in Slots, t \in Requests : mail[t] # NoMail /\ raw'[q] = mail[t].req => raw[q] = mail[t].req /\ t # r
    BY <1>1 DEF InPlace, Accepted, NoRequest, OneHand, TookHolds
  <2> QED
    BY <1>1, <2>1 DEF OneHand
<1>6. SentByDone'
  BY <1>1 DEF SentByDone
<1>7. NothingLost'
  <2> SUFFICES ASSUME NEW q \in Accepted
               PROVE  raw'[slot[q]] = q \/ (\E t \in Requests : mail[t].req = q) \/ q \in dropped
    BY <1>1 DEF NothingLost, Accepted
  <2>1. CASE raw'[slot[q]] = raw[slot[q]]
    BY <2>1 DEF NothingLost
  <2>2. CASE raw'[slot[q]] # raw[slot[q]]
    <3>1. q \in Requests /\ mail[r] # NoMail /\ slot[q] = s /\ raw[s] # NoRequest
      BY <1>1, <2>2 DEF Accepted, Requests
    <3>2. raw[slot[q]] = mail[r].req
      BY <1>1, <3>1 DEF TookHolds
    <3> QED
      BY <3>2 DEF NothingLost
  <2> QED
    BY <2>1, <2>2
<1> QED
  BY <1>2, <1>3, <1>4, <1>5, <1>6, <1>7 DEF Hands

\* One answer for what the thread has, which nobody has sent before it.
LEMMA SendHands == ASSUME NiInv, NEW r \in Requests, SendAnswer(r) PROVE Hands'
<1> USE NiAssumption DEF NiInv, NiType
<1>1. /\ pc[r] = "send" /\ pc' = [pc EXCEPT ![r] = "done"]
      /\ UNCHANGED <<counter, raw, slot, mail, dropped, mt>>
      /\ answers' = IF mail[r] # NoMail /\ mail[r].resp # "IGNORE" THEN Append(answers, mail[r]) ELSE answers
  BY DEF SendAnswer, Goto, history
<1>2. InPlace' /\ OneHolder' /\ TookHolds'
  BY <1>1 DEF InPlace, OneHolder, TookHolds, Accepted
<1>3. OneHand'
  BY <1>1 DEF OneHand
<1>4. SentByDone'
  <2>1. CASE answers' = answers
    BY <1>1, <2>1 DEF SentByDone
  <2>2. CASE mail[r] # NoMail /\ answers' = Append(answers, mail[r])
    <3>1. /\ DOMAIN answers' = 1 .. Len(answers) + 1 /\ DOMAIN answers = 1 .. Len(answers)
          /\ \A i \in DOMAIN answers : answers'[i] = answers[i]
          /\ answers'[Len(answers) + 1] = mail[r] /\ Len(answers) \in Nat
      BY <2>2
    <3>2. \A i \in DOMAIN answers : answers[i].req # mail[r].req
      <4> SUFFICES ASSUME NEW i \in DOMAIN answers, answers[i].req = mail[r].req
                   PROVE  FALSE
        OBVIOUS
      <4>1. PICK t \in Requests : pc[t] = "done" /\ mail[t] # NoMail /\ mail[t].req = answers[i].req
        BY DEF SentByDone
      <4>2. t = r
        BY <4>1 DEF OneHand
      <4> QED
        BY <1>1, <4>1, <4>2
    <3>3. \A i \in DOMAIN answers' : i = Len(answers) + 1 \/ i \in DOMAIN answers
      BY <3>1
    <3>4. \A i \in DOMAIN answers' : \E t \in Requests :
              pc'[t] = "done" /\ mail'[t] # NoMail /\ mail'[t].req = answers'[i].req
      BY <1>1, <2>2, <3>1, <3>3 DEF SentByDone
    <3>5. \A i, j \in DOMAIN answers' : answers'[i].req = answers'[j].req => i = j
      BY <3>1, <3>2, <3>3 DEF SentByDone
    <3> QED
      BY <3>4, <3>5 DEF SentByDone
  <2> QED
    BY <1>1, <2>1, <2>2
<1>5. NothingLost'
  BY <1>1 DEF NothingLost, Accepted
<1> QED
  BY <1>2, <1>3, <1>4, <1>5 DEF Hands

LEMMA NextHands == NiInv /\ [Next]_vars => NiInv'
<1> SUFFICES ASSUME NiInv, [Next]_vars PROVE NiInv'
  OBVIOUS
<1>1. ASSUME UNCHANGED <<payloads, mt>> PROVE Hands'
  <2>1. InPlace' /\ OneHolder' /\ TookHolds' /\ OneHand'
    BY <1>1 DEF NiInv, payloads, InPlace, OneHolder, TookHolds, OneHand, Accepted
  <2>2. SentByDone' /\ NothingLost'
    BY <1>1 DEF NiInv, payloads, SentByDone, NothingLost, Accepted
  <2> QED
    BY <2>1, <2>2 DEF Hands
<1>2. ASSUME Next PROVE Hands'
  <2>1. ASSUME NEW s \in Slots, Request(s) PROVE Hands'
    BY <2>1, RequestHands
  <2>2. CASE EngineDown \/ Reset
    BY <2>2, ResetHands
  <2>3. ASSUME NEW r \in Requests, NEW a \in UserAnswers, Respond(r, a) PROVE Hands'
    BY <1>1, <2>3 DEF Respond, payloads, slots, threads
  <2>4. CASE IgnoreSupl
    BY <1>1, <2>4 DEF IgnoreSupl, payloads, threads, history
  <2>5. CASE Answer
    BY <1>1, <2>5 DEF Answer, payloads, threads, history
  <2>6. ASSUME NEW r \in Requests, Thread(r) PROVE Hands'
    <3>1. CASE Begin(r)
      BY <3>1, ThreadMoves DEF Begin, Goto, slots, history
    <3>2. CASE Wake(r)
      BY <3>2, ThreadMoves DEF Wake, Goto, history
    <3>3. CASE Timeout(r)
      BY <3>3, ThreadMoves DEF Timeout, Goto
    <3>4. CASE Zero(r)
      BY <3>4, ThreadMoves DEF Zero, Goto, history
    <3>5. CASE Take(r)
      BY <3>5, TakeHands
    <3>6. CASE Clear(r)
      BY <3>6, ClearHands
    <3>7. CASE SendAnswer(r)
      BY <3>7, SendHands
    <3> QED
      BY <2>6, <3>1, <3>2, <3>3, <3>4, <3>5, <3>6, <3>7 DEF Thread
  <2> QED
    BY <1>2, <2>1, <2>2, <2>3, <2>4, <2>5, <2>6 DEF Next, Responding
<1>3. CASE Next
  BY <1>2, <1>3, NextType DEF NiInv, Hands
<1>4. CASE UNCHANGED vars
  <2>1. Hands'
    BY <1>1, <1>4 DEF vars, payloads, slots, threads, history
  <2>2. NiType'
    BY <1>4 DEF NiInv, NiType, vars, slots, threads
  <2> QED
    BY <2>1, <2>2 DEF NiInv, Hands
<1> QED
  BY <1>3, <1>4

LEMMA AlwaysNiInv == Spec => []NiInv
<1> QED
  BY InitHolds, NextHands, PTL DEF Spec

(***************************************************************************)
(* The modem gets at most one answer to a request, for any number of       *)
(* requests and restarts (ni_thread_proc and the reset).                   *)
(***************************************************************************)
THEOREM AnsweredOnceCorrect == Spec => []AnsweredOnce
  BY AlwaysNiInv, AnsweredByHand, PTL

(***************************************************************************)
(* No accepted request is lost: it is in its slot, in the hands of a       *)
(* thread, or was freed by a restart (loc_eng_ni_request_handler, the      *)
(* reset and ni_thread_proc).                                              *)
(***************************************************************************)
THEOREM NothingLostCorrect == Spec => []NothingLost
<1>1. NiInv => NothingLost
  BY DEF NiInv
<1> QED
  BY <1>1, AlwaysNiInv, PTL

-----------------------------------------------------------------------------
(***************************************************************************)
(* What the user said.  As long as nothing crosses, the slot's answer is   *)
(* that to the request in it: the framework's thread has answered before   *)
(* the request's thread can leave its wait, and a flag left over for the   *)
(* next request comes with an IGNORE.                                      *)
(***************************************************************************)
SaidType ==
    /\ reqID \in [Slots -> Nat]
    /\ recvd \in [Slots -> BOOLEAN]
    /\ said \in [Requests -> UserAnswers \cup {"unset"}]
    /\ crossed \in BOOLEAN
    /\ restarts \in Nat

Undisturbed == ~crossed /\ restarts = 0

\* An answer a that the user gave to request r.
Gave(r, a) == a \in UserAnswers /\ said[r] = a

\* The request of a waiting thread is in the slot, and a thread takes its own.
OwnRequest ==
    /\ mt = Idle
    /\ \A r \in Requests : pc[r] \in {"start", "wait", "holds"} => raw[slot[r]] = r
    /\ \A t \in Requests : mail[t] # NoMail => mail[t].req = t
    /\ \A s \in Slots : reqID[s] # NoRequest => reqID[s] \in Accepted /\ slot[reqID[s]] = s

\* The framework is about to answer a request whose thread still waits.
AnswerInTime ==
    fw # Idle =>
        /\ pc[fw.req] \in {"start", "wait"} /\ slot[fw.req] = fw.slot
        /\ Gave(fw.req, fw.resp)
        /\ ~recvd[fw.slot]
        /\ fw.at = "ignore" => fw.slot = "es"

\* The flag, the answer that a thread takes with the lock, and those taken.
FlagIsUsers ==
    \A s \in Slots : recvd[s] =>
        \/ resp[s] = "IGNORE"
        \/ /\ raw[s] \in Requests /\ pc[raw[s]] \in {"start", "wait"}
           /\ Gave(raw[s], resp[s])
HeldIsUsers ==
    \A r \in Requests : pc[r] = "holds" =>
        resp[slot[r]] \in {"NORESP", "IGNORE"} \/ Gave(r, resp[slot[r]])
TakenIsUsers ==
    \A t \in Requests : mail[t] # NoMail =>
        mail[t].resp \in {"NORESP", "IGNORE"} \/ Gave(mail[t].req, mail[t].resp)
SentIsUsers ==
    \A i \in DOMAIN answers :
        answers[i].resp = "NORESP" \/ Gave(answers[i].req, answers[i].resp)

UsersInv ==
    /\ OwnRequest /\ AnswerInTime
    /\ FlagIsUsers /\ HeldIsUsers /\ TakenIsUsers /\ SentIsUsers

LEMMA SaidFirst == Init => SaidType /\ (Undisturbed => UsersInv)
<1> SUFFICES ASSUME Init PROVE SaidType /\ UsersInv
  OBVIOUS
<1>1. SaidType
  BY DEF Init, SaidType, NoRequest
<1>2. OwnRequest /\ AnswerInTime /\ FlagIsUsers /\ HeldIsUsers /\ TakenIsUsers
  BY DEF Init, OwnRequest, AnswerInTime, FlagIsUsers, HeldIsUsers, TakenIsUsers
<1>3. SentIsUsers
  BY DEF Init, SentIsUsers
<1> QED
  BY <1>1, <1>2, <1>3 DEF UsersInv

LEMMA SaidNextType == ASSUME NiInv, SaidType, [Next]_vars PROVE SaidType'
<1> USE DEF SaidType
<1>1. ASSUME NEW s \in Slots, Request(s) PROVE SaidType'
  BY <1>1 DEF Request, NiInv, NiType, history
<1>2. CASE EngineDown \/ Reset
  <2>1. CASE EngineDown
    BY <2>1 DEF EngineDown, slots, history
  <2>2. CASE ResetCheck \/ ResetFree
    BY <2>2 DEF ResetCheck, ResetFree, slots, history
  <2>3. CASE ResetSignal
    BY <2>3 DEF ResetSignal, history
  <2> QED
    BY <1>2, <2>1, <2>2, <2>3 DEF Reset
<1>3. ASSUME NEW r \in Requests, NEW a \in UserAnswers, Respond(r, a) PROVE SaidType'
  BY <1>3, ZenonT(20) DEF Respond, slots
<1>4. CASE Responding
  BY <1>4 DEF Responding, IgnoreSupl, Answer, history
<1>5. ASSUME NEW r \in Requests, Thread(r) PROVE SaidType'
  <2>1. CASE Begin(r) \/ Wake(r) \/ Take(r) \/ Clear(r) \/ Zero(r)
    BY <2>1 DEF Begin, Wake, Take, Clear, Zero, slots, history
  <2>2. CASE Timeout(r)
    <3>1. crossed' \in BOOLEAN
      BY <2>2, ZenonT(20) DEF Timeout
    <3> QED
      BY <2>2, <3>1 DEF Timeout
  <2>3. CASE SendAnswer(r)
    BY <2>3 DEF SendAnswer, history, NoRequest
  <2> QED
    BY <1>5, <2>1, <2>2, <2>3 DEF Thread
<1>6. CASE UNCHANGED vars
  BY <1>6 DEF vars, slots, history
<1> QED
  BY <1>1, <1>2, <1>3, <1>4, <1>5, <1>6 DEF Next

\* The hypotheses of the steps below.
Users == NiInv /\ SaidType /\ Undisturbed /\ UsersInv

\* A step that touches neither the slots nor the answers.
LEMMA UsersSame ==
  ASSUME Users, UNCHANGED <<slots, counter, slot, pc, mail, answers, mt, fw, said>>
  PROVE  UsersInv'
<1>1. OwnRequest'
  BY DEF Users, UsersInv, OwnRequest, slots, Accepted
<1>2. AnswerInTime'
  BY DEF Users, UsersInv, AnswerInTime, Gave, slots
<1>3. FlagIsUsers' /\ HeldIsUsers' /\ TakenIsUsers' /\ SentIsUsers'
  BY DEF Users, UsersInv, FlagIsUsers, HeldIsUsers, TakenIsUsers, SentIsUsers, Gave, slots
<1> QED
  BY <1>1, <1>2, <1>3 DEF UsersInv

\* A new request finds its slot empty, or with the flag of an IGNORE.
LEMMA UsersRequest ==
  ASSUME Users, NEW s \in Slots, Request(s)
  PROVE  UsersInv'
<1> USE DEF Users, UsersInv
<1>1. PICK r \in Requests :
        /\ r = counter + 1 /\ counter' = r /\ raw[s] = NoRequest
        /\ raw' = [raw EXCEPT ![s] = r] /\ reqID' = [reqID EXCEPT ![s] = r]
        /\ slot' = [slot EXCEPT ![r] = s] /\ pc' = [pc EXCEPT ![r] = "start"]
        /\ UNCHANGED <<recvd, resp, mail, answers, mt, fw, said>>
  <2>1. counter + 1 \in Requests
    BY NiAssumption DEF Request, NiInv, NiType, Requests
  <2> QED
    BY <2>1 DEF Request, history, Slots
<1>2. pc[r] = "none" /\ counter \in Nat /\ r \notin Accepted /\ Accepted' = Accepted \cup {r} /\ r # NoRequest
  BY <1>1, NiAssumption DEF NiInv, NiType, InPlace, Accepted, Requests, NoRequest
<1>3. \A t \in Requests : t # r => pc'[t] = pc[t] /\ slot'[t] = slot[t]
  BY <1>1 DEF NiInv, NiType
<1>4. pc'[r] = "start" /\ slot'[r] = s /\ raw'[s] = r
  BY <1>1 DEF NiInv, NiType
<1>5. \A u \in Slots : u # s => raw'[u] = raw[u] /\ reqID'[u] = reqID[u]
  BY <1>1 DEF NiInv, NiType, SaidType
<1>6. OwnRequest'
  <2>1. ASSUME NEW t \in Requests, pc'[t] \in {"start", "wait", "holds"} PROVE raw'[slot'[t]] = t
    <3>1. CASE t = r
      BY <1>4, <3>1
    <3>2. CASE t # r
      <4>1. raw[slot[t]] = t /\ t # NoRequest /\ slot[t] \in Slots
        BY <1>3, <2>1, <3>2 DEF OwnRequest, Requests, NoRequest, NiInv, NiType
      <4>2. slot[t] # s
        BY <1>1, <4>1
      <4> QED
        BY <1>3, <1>5, <3>2, <4>1, <4>2
    <3> QED
      BY <3>1, <3>2
  <2>2. ASSUME NEW u \in Slots, reqID'[u] # NoRequest PROVE reqID'[u] \in Accepted' /\ slot'[reqID'[u]] = u
    <3>1. CASE u = s
      BY <1>1, <1>2, <1>4, <3>1 DEF SaidType
    <3>2. CASE u # s
      <4>1. reqID[u] \in Accepted /\ slot[reqID[u]] = u /\ reqID'[u] = reqID[u]
        BY <1>5, <2>2, <3>2 DEF OwnRequest
      <4>2. reqID[u] # r /\ reqID[u] \in Requests
        BY <1>1, <1>2, <4>1, NiAssumption DEF Accepted, Requests, NiInv, NiType
      <4> QED
        BY <1>2, <1>3, <4>1, <4>2
    <3> QED
      BY <3>1, <3>2
  <2> QED
    BY <1>1, <2>1, <2>2 DEF OwnRequest
<1>7. AnswerInTime'
  <2> SUFFICES ASSUME fw # Idle PROVE AnswerInTime'
    BY <1>1 DEF AnswerInTime
  <2>1. fw.req \in Requests /\ fw.req # r
    BY <1>2 DEF NiInv, NiType, Answers, AnswerInTime
  <2> QED
    BY <1>1, <1>3, <2>1 DEF AnswerInTime, Gave
<1>8. FlagIsUsers'
  <2> SUFFICES ASSUME NEW u \in Slots, recvd[u], resp[u] # "IGNORE"
               PROVE  /\ raw'[u] \in Requests /\ pc'[raw'[u]] \in {"start", "wait"}
                      /\ Gave(raw'[u], resp[u])
    BY <1>1 DEF FlagIsUsers, Gave
  <2>1. raw[u] \in Requests /\ pc[raw[u]] \in {"start", "wait"} /\ Gave(raw[u], resp[u])
    BY DEF FlagIsUsers
  <2>2. u # s /\ raw[u] # r
    BY <1>1, <1>2, <2>1 DEF Requests, NoRequest
  <2> QED
    BY <1>3, <1>5, <2>1, <2>2
<1>9. HeldIsUsers' /\ TakenIsUsers' /\ SentIsUsers'
  <2>1. \A t \in Requests : pc'[t] = "holds" => pc[t] = "holds" /\ slot'[t] = slot[t]
    BY <1>3, <1>4
  <2> QED
    BY <1>1, <2>1 DEF HeldIsUsers, TakenIsUsers, SentIsUsers, Gave
<1> QED
  BY <1>6, <1>7, <1>8, <1>9

\* The user answers: a request is answered once, so what was said stands.
LEMMA UsersRespond ==
  ASSUME Users, NEW r \in Requests, NEW a \in UserAnswers, Respond(r, a), ~crossed'
  PROVE  UsersInv'
<1> USE DEF Users, UsersInv
<1>1. /\ said[r] = "unset" /\ said' = [said EXCEPT ![r] = a]
      /\ UNCHANGED <<counter, raw, reqID, recvd, resp, slot, pc, mail, answers, mt>>
  BY DEF Respond, slots, threads
<1>2. pc[r] \in {"start", "wait"} /\ ~recvd[slot[r]]
  BY ZenonT(20) DEF Respond
<1>3. \A t \in Requests, b \in UserAnswers : said[t] = b => said'[t] = b
  BY <1>1 DEF SaidType, UserAnswers
<1>4. \A t, b : t \in Requests /\ Gave(t, b) => Gave(t, b)'
  BY <1>3 DEF Gave
<1>5. OwnRequest'
  BY <1>1 DEF OwnRequest, Accepted
<1>6. AnswerInTime'
  <2> SUFFICES ASSUME fw' # Idle PROVE AnswerInTime'
    BY DEF AnswerInTime
  <2>1. PICK s \in Slots : /\ Matches(s, r) /\ fw'.slot = s /\ fw'.req = r /\ fw'.resp = a
                           /\ fw'.at = "ignore" => s = "es"
    BY DEF Respond, Slots
  <2>2. slot[r] = s
    BY <2>1 DEF Matches, OwnRequest, Requests, NoRequest
  <2>3. said'[r] = a
    BY <1>1 DEF SaidType
  <2> QED
    BY <1>1, <1>2, <2>1, <2>2, <2>3 DEF AnswerInTime, Gave
<1>7. FlagIsUsers'
  BY <1>1, <1>4 DEF FlagIsUsers
<1>8. HeldIsUsers'
  BY <1>1, <1>4 DEF HeldIsUsers
<1>9. TakenIsUsers'
  <2>1. \A t \in Requests : mail[t] # NoMail => mail[t].req \in Requests
    BY DEF OwnRequest
  <2> QED
    BY <1>1, <1>4, <2>1 DEF TakenIsUsers
<1>10. SentIsUsers'
  <2>1. \A i \in DOMAIN answers : answers[i].req \in Requests
    BY DEF NiInv, SentByDone, OwnRequest
  <2> QED
    BY <1>1, <1>4, <2>1 DEF SentIsUsers
<1> QED
  BY <1>5, <1>6, <1>7, <1>8, <1>9, <1>10

\* The answer is put into the slot of a thread that waits for it.
LEMMA UsersResponding ==
  ASSUME Users, Responding
  PROVE  UsersInv'
<1> USE DEF Users, UsersInv
<1>1. /\ fw \in Answers /\ fw # Idle
      /\ UNCHANGED <<counter, raw, reqID, slot, pc, mail, answers, mt, said>>
  BY DEF Responding, IgnoreSupl, Answer, Idle, threads, history, NiInv, NiType
<1>2. PICK s \in Slots, b \in Responses :
        /\ recvd' = [recvd EXCEPT ![s] = TRUE] /\ resp' = [resp EXCEPT ![s] = b] /\ Unlocked(s)
        /\ \/ b = "IGNORE" /\ s = "supl" /\ fw.at = "ignore" /\ fw' = [fw EXCEPT !.at = "answer"]
           \/ b = fw.resp /\ s = fw.slot /\ fw' = Idle
  BY <1>1 DEF Responding, IgnoreSupl, Answer, Slots, Responses, Answers
<1>3. /\ recvd'[s] /\ resp'[s] = b
      /\ \A u \in Slots : u # s => recvd'[u] = recvd[u] /\ resp'[u] = resp[u]
  BY <1>2 DEF SaidType, NiInv, NiType
<1>4. OwnRequest' /\ TakenIsUsers' /\ SentIsUsers'
  BY <1>1 DEF OwnRequest, TakenIsUsers, SentIsUsers, Gave, Accepted
<1>5. HeldIsUsers'
  <2> SUFFICES ASSUME NEW r \in Requests, pc[r] = "holds"
               PROVE  resp'[slot[r]] \in {"NORESP", "IGNORE"} \/ Gave(r, resp'[slot[r]])
    BY <1>1 DEF HeldIsUsers, Gave
  <2>1. slot[r] # s /\ slot[r] \in Slots
    BY <1>2 DEF Unlocked, NiInv, NiType
  <2> QED
    BY <1>3, <2>1 DEF HeldIsUsers
<1>6. AnswerInTime'
  <2> SUFFICES ASSUME fw' # Idle PROVE AnswerInTime'
    BY DEF AnswerInTime
  <2>1. /\ s = "supl" /\ fw.at = "ignore" /\ fw'.slot = fw.slot /\ fw'.req = fw.req
        /\ fw'.resp = fw.resp /\ fw'.at = "answer"
    BY <1>1, <1>2 DEF Answers
  <2>2. fw.slot = "es"
    BY <1>1, <2>1 DEF AnswerInTime
  <2> QED
    BY <1>1, <1>3, <2>1, <2>2 DEF AnswerInTime, Gave, Slots
<1>7. FlagIsUsers'
  <2> SUFFICES ASSUME NEW u \in Slots, recvd'[u], resp'[u] # "IGNORE"
               PROVE  raw[u] \in Requests /\ pc[raw[u]] \in {"start", "wait"} /\ Gave(raw[u], resp'[u])
    BY <1>1 DEF FlagIsUsers, Gave
  <2>1. CASE u # s
    BY <1>3, <2>1 DEF FlagIsUsers
  <2>2. CASE u = s
    <3>1. b = fw.resp /\ s = fw.slot
      BY <1>2, <1>3, <2>2
    <3>2. pc[fw.req] \in {"start", "wait"} /\ slot[fw.req] = s /\ Gave(fw.req, b) /\ fw.req \in Requests
      BY <1>1, <3>1 DEF AnswerInTime, Answers
    <3>3. raw[s] = fw.req
      BY <3>2 DEF OwnRequest
    <3> QED
      BY <1>3, <2>2, <3>2, <3>3
  <2> QED
    BY <2>1, <2>2
<1> QED
  BY <1>4, <1>5, <1>6, <1>7

-----------------------------------------------------------------------------
\* The waiting thread: nobody answers it while it leaves its wait.
LEMMA UsersWakes ==
  ASSUME Users, NEW r \in Requests, Wake(r) \/ Timeout(r), ~crossed'
  PROVE  UsersInv'
<1> USE DEF Users, UsersInv
<1> DEFINE s == slot[r]
<1>1. /\ pc[r] = "wait" /\ s \in Slots /\ pc' = [pc EXCEPT ![r] = "holds"]
      /\ recvd' = [recvd EXCEPT ![s] = FALSE]
      /\ UNCHANGED <<counter, raw, reqID, slot, mail, answers, mt, fw, said>>
  BY DEF Wake, Timeout, Goto, history, NiInv, NiType
<1>2. /\ \A u \in Slots : u # s => resp'[u] = resp[u]
      /\ \/ resp' = resp /\ recvd[s]
         \/ resp'[s] = "NORESP" /\ fw = Idle
  <2>1. CASE Wake(r)
    BY <2>1 DEF Wake
  <2>2. CASE Timeout(r)
    <3>1. fw = Idle
      BY <2>2, ZenonT(20) DEF Timeout
    <3> QED
      BY <2>2, <3>1, <1>1 DEF Timeout, NiInv, NiType
  <2> QED
    BY <2>1, <2>2
<1>3. raw[s] = r
  BY <1>1 DEF OwnRequest
<1> HIDE DEF s
<1>4. /\ pc'[r] = "holds" /\ ~recvd'[s]
      /\ \A t \in Requests : t # r => pc'[t] = pc[t]
      /\ \A u \in Slots : u # s => recvd'[u] = recvd[u]
  BY <1>1 DEF NiInv, NiType, SaidType
<1>5. OwnRequest'
  <2>1. ASSUME NEW t \in Requests, pc'[t] \in {"start", "wait", "holds"} PROVE raw[slot[t]] = t
    BY <1>1, <1>4, <2>1 DEF OwnRequest
  <2> QED
    BY <1>1, <2>1 DEF OwnRequest, Accepted
<1>6. TakenIsUsers' /\ SentIsUsers'
  BY <1>1 DEF TakenIsUsers, SentIsUsers, Gave
<1>7. AnswerInTime'
  <2> SUFFICES ASSUME fw # Idle PROVE AnswerInTime'
    BY <1>1 DEF AnswerInTime
  <2>1. fw.req \in Requests /\ slot[fw.req] = fw.slot /\ ~recvd[fw.slot] /\ fw.slot \in Slots
    BY DEF NiInv, NiType, Answers, AnswerInTime
  <2>2. recvd[s]
    BY <1>2
  <2>3. fw.req # r /\ fw.slot # s
    BY <2>1, <2>2 DEF s
  <2> QED
    BY <1>1, <1>4, <2>1, <2>3 DEF AnswerInTime, Gave
<1>8. FlagIsUsers'
  <2> SUFFICES ASSUME NEW u \in Slots, recvd'[u], resp'[u] # "IGNORE"
               PROVE  raw[u] \in Requests /\ pc'[raw[u]] \in {"start", "wait"} /\ Gave(raw[u], resp'[u])
    BY <1>1 DEF FlagIsUsers, Gave
  <2>1. u # s /\ recvd[u] /\ resp'[u] = resp[u]
    BY <1>2, <1>4
  <2>2. raw[u] \in Requests /\ pc[raw[u]] \in {"start", "wait"} /\ Gave(raw[u], resp[u])
    BY <2>1 DEF FlagIsUsers
  <2>3. raw[u] # r
    BY <2>1, <2>2 DEF NiInv, InPlace, Requests, NoRequest, s
  <2> QED
    BY <1>4, <2>1, <2>2, <2>3
<1>9. HeldIsUsers'
  <2> SUFFICES ASSUME NEW t \in Requests, pc'[t] = "holds"
               PROVE  resp'[slot[t]] \in {"NORESP", "IGNORE"} \/ Gave(t, resp'[slot[t]])
    BY <1>1 DEF HeldIsUsers, Gave
  <2>1. CASE t = r
    <3>1. CASE resp' = resp /\ recvd[s]
      <4>1. resp[s] = "IGNORE" \/ Gave(r, resp[s])
        BY <1>1, <1>3, <3>1 DEF FlagIsUsers
      <4> QED
        BY <2>1, <3>1, <4>1 DEF s
    <3>2. CASE resp'[s] = "NORESP"
      BY <2>1, <3>2 DEF s
    <3> QED
      BY <1>2, <3>1, <3>2
  <2>2. CASE t # r
    <3>1. pc[t] = "holds" /\ raw[slot[t]] = t /\ slot[t] \in Slots
      BY <1>4, <2>2 DEF OwnRequest, NiInv, NiType
    <3>2. slot[t] # s
      BY <1>3, <2>2, <3>1
    <3> QED
      BY <1>2, <3>1, <3>2 DEF HeldIsUsers
  <2> QED
    BY <2>1, <2>2
<1> QED
  BY <1>5, <1>6, <1>7, <1>8, <1>9

\* A thread that is no longer waiting, or that begins to: the slot's flag and
\* answer are left alone.
LEMMA UsersMoves ==
  ASSUME Users, NEW r \in Requests, NEW l \in Places,
         pc' = [pc EXCEPT ![r] = l],
         (pc[r] = "start" /\ l = "wait") \/ (pc[r] \notin {"start", "wait"} /\ l \notin {"start", "wait", "holds"}),
         \A t \in Requests : pc[t] \in {"start", "wait", "holds"} /\ t # r => raw'[slot[t]] = raw[slot[t]],
         pc[r] = "start" => raw' = raw,
         \A s \in Slots : reqID'[s] \in {reqID[s], NoRequest},
         UNCHANGED <<counter, recvd, resp, slot, mt, fw, said>>
  PROVE  AnswerInTime' /\ HeldIsUsers' /\ FlagIsUsers' /\ (TakenIsUsers' /\ SentIsUsers' /\
         (\A t \in Requests : mail'[t] # NoMail => mail'[t].req = t) => UsersInv')
<1> USE DEF Users, UsersInv
<1>1. pc'[r] = l /\ \A t \in Requests : t # r => pc'[t] = pc[t]
  BY DEF NiInv, NiType
<1>2. \A t \in Requests : pc'[t] \in {"start", "wait", "holds"} => raw'[slot[t]] = t
  BY <1>1 DEF OwnRequest
<1>3. AnswerInTime'
  <2> SUFFICES ASSUME fw # Idle PROVE AnswerInTime'
    BY DEF AnswerInTime
  <2>1. fw.req \in Requests /\ pc[fw.req] \in {"start", "wait"}
    BY DEF NiInv, NiType, Answers, AnswerInTime
  <2>2. pc'[fw.req] \in {"start", "wait"}
    BY <1>1, <2>1
  <2> QED
    BY <2>1, <2>2 DEF AnswerInTime, Gave
<1>4. HeldIsUsers'
  BY <1>1 DEF HeldIsUsers, Gave
<1>5. FlagIsUsers'
  <2> SUFFICES ASSUME NEW u \in Slots, recvd[u], resp[u] # "IGNORE"
               PROVE  raw'[u] \in Requests /\ pc'[raw'[u]] \in {"start", "wait"} /\ Gave(raw'[u], resp[u])
    BY DEF FlagIsUsers, Gave
  <2>1. raw[u] \in Requests /\ pc[raw[u]] \in {"start", "wait"} /\ Gave(raw[u], resp[u])
    BY DEF FlagIsUsers
  <2>2. slot[raw[u]] = u
    BY <2>1 DEF NiInv, InPlace, Requests, NoRequest
  <2>3. raw'[u] = raw[u] /\ pc'[raw[u]] \in {"start", "wait"}
    BY <1>1, <2>1, <2>2
  <2> QED
    BY <2>1, <2>3
<1>6. \A s \in Slots : reqID'[s] # NoRequest => reqID'[s] \in Accepted /\ slot[reqID'[s]] = s
  BY DEF OwnRequest
<1> QED
  BY <1>2, <1>3, <1>4, <1>5, <1>6 DEF OwnRequest, Accepted

LEMMA UsersThread ==
  ASSUME Users, NEW r \in Requests, Thread(r), ~crossed'
  PROVE  UsersInv'
<1> USE DEF Users, UsersInv
<1>1. CASE Wake(r) \/ Timeout(r)
  BY <1>1, UsersWakes
<1>2. CASE Begin(r) \/ Zero(r)
  <2>1. /\ \/ pc[r] = "start" /\ pc' = [pc EXCEPT ![r] = "wait"]
           \/ pc[r] = "zero" /\ pc' = [pc EXCEPT ![r] = "send"]
        /\ UNCHANGED <<counter, raw, reqID, recvd, resp, slot, mail, answers, mt, fw, said>>
    BY <1>2 DEF Begin, Zero, Goto, slots, history
  <2>2. TakenIsUsers' /\ SentIsUsers' /\ \A t \in Requests : mail'[t] # NoMail => mail'[t].req = t
    BY <2>1 DEF TakenIsUsers, SentIsUsers, Gave, OwnRequest
  <2> QED
    BY <2>1, <2>2, UsersMoves DEF Places
<1>3. CASE Take(r)
  <2>1. /\ pc[r] = "holds" /\ pc' = [pc EXCEPT ![r] = "took"] /\ raw[slot[r]] = r /\ r # NoRequest
        /\ mail' = [mail EXCEPT ![r] = [req |-> r, resp |-> resp[slot[r]]]]
        /\ UNCHANGED <<counter, raw, reqID, recvd, resp, slot, answers, mt, fw, said>>
    <3>1. pc[r] = "holds" /\ pc' = [pc EXCEPT ![r] = "took"]
      BY <1>3 DEF Take, Goto
    <3>2. raw[slot[r]] = r /\ r # NoRequest
      BY <3>1 DEF OwnRequest, Requests, NoRequest
    <3> QED
      BY <1>3, <3>1, <3>2 DEF Take, slots
  <2>2. /\ mail'[r].req = r /\ mail'[r].resp = resp[slot[r]]
        /\ \A t \in Requests : t # r => mail'[t] = mail[t]
    BY <2>1 DEF NiInv, NiType
  <2>3. TakenIsUsers' /\ \A t \in Requests : mail'[t] # NoMail => mail'[t].req = t
    BY <2>1, <2>2 DEF TakenIsUsers, HeldIsUsers, Gave, OwnRequest
  <2>4. SentIsUsers'
    BY <2>1 DEF SentIsUsers, Gave
  <2> QED
    BY <2>1, <2>3, <2>4, UsersMoves DEF Places
<1>4. CASE Clear(r)
  <2>1. /\ pc[r] = "took" /\ pc' = [pc EXCEPT ![r] = "zero"]
        /\ raw' = raw \/ (mail[r] # NoMail /\ raw' = [raw EXCEPT ![slot[r]] = NoRequest])
        /\ UNCHANGED <<counter, reqID, recvd, resp, slot, mail, answers, mt, fw, said>>
    BY <1>4 DEF Clear, Goto, history
  <2>2. ASSUME NEW t \in Requests, pc[t] \in {"start", "wait", "holds"}, t # r
        PROVE  raw'[slot[t]] = raw[slot[t]]
    <3>1. CASE mail[r] # NoMail
      <4>1. raw[slot[r]] = r \/ mt.at = "signal"
        BY <2>1, <3>1 DEF NiInv, TookHolds, OwnRequest
      <4>2. raw[slot[r]] = r
        BY <4>1 DEF OwnRequest, Idle
      <4>3. raw[slot[t]] = t
        BY <2>2 DEF OwnRequest
      <4> QED
        BY <2>1, <2>2, <4>2, <4>3 DEF NiInv, NiType
    <3>2. CASE mail[r] = NoMail
      BY <2>1, <3>2
    <3> QED
      BY <3>1, <3>2
  <2>3. TakenIsUsers' /\ SentIsUsers' /\ \A t \in Requests : mail'[t] # NoMail => mail'[t].req = t
    BY <2>1 DEF TakenIsUsers, SentIsUsers, Gave, OwnRequest
  <2> QED
    BY <2>1, <2>2, <2>3, UsersMoves DEF Places
<1>5. CASE SendAnswer(r)
  <2>1. /\ pc[r] = "send" /\ pc' = [pc EXCEPT ![r] = "done"]
        /\ reqID' = [reqID EXCEPT ![slot[r]] = NoRequest]
        /\ UNCHANGED <<counter, raw, recvd, resp, slot, mail, mt, fw, said>>
        /\ \/ answers' = answers
           \/ mail[r] # NoMail /\ mail[r].resp # "IGNORE" /\ answers' = Append(answers, mail[r])
    BY <1>5 DEF SendAnswer, Goto, history
  <2>2. \A s \in Slots : reqID'[s] \in {reqID[s], NoRequest}
    BY <2>1 DEF SaidType
  <2>3. TakenIsUsers' /\ \A t \in Requests : mail'[t] # NoMail => mail'[t].req = t
    BY <2>1 DEF TakenIsUsers, Gave, OwnRequest
  <2>4. SentIsUsers'
    <3>1. CASE answers' = answers
      BY <2>1, <3>1 DEF SentIsUsers, Gave
    <3>2. CASE mail[r] # NoMail /\ mail[r].resp # "IGNORE" /\ answers' = Append(answers, mail[r])
      <4>1. mail[r].resp = "NORESP" \/ Gave(mail[r].req, mail[r].resp)
        BY <3>2 DEF TakenIsUsers
      <4>2. \A i \in DOMAIN answers' : (i \in DOMAIN answers /\ answers'[i] = answers[i]) \/ answers'[i] = mail[r]
        BY <3>2 DEF NiInv, NiType
      <4> QED
        BY <2>1, <4>1, <4>2 DEF SentIsUsers, Gave
    <3> QED
      BY <2>1, <3>1, <3>2
  <2> QED
    BY <2>1, <2>2, <2>3, <2>4, UsersMoves DEF Places
<1> QED
  BY <1>1, <1>2, <1>3, <1>4, <1>5 DEF Thread

LEMMA NextUsers ==
  NiInv /\ SaidType /\ (Undisturbed => UsersInv) /\ [Next]_vars
     => SaidType' /\ (Undisturbed' => UsersInv')
<1> SUFFICES ASSUME NiInv, SaidType, Undisturbed => UsersInv, [Next]_vars, Undisturbed'
             PROVE  UsersInv'
  BY SaidNextType
<1>1. CASE UNCHANGED vars
  <2>1. Undisturbed
    BY <1>1 DEF Undisturbed, vars, history
  <2> QED
    BY <1>1, <2>1, UsersSame DEF Users, vars, threads, history
<1>2. ASSUME NEW s \in Slots, Request(s) PROVE UsersInv'
  <2>1. Undisturbed
    BY <1>2 DEF Undisturbed, Request, history
  <2> QED
    BY <1>2, <2>1, UsersRequest DEF Users
<1>3. CASE EngineDown
  BY <1>3 DEF EngineDown, Undisturbed, SaidType
<1>4. CASE Reset
  <2>1. Undisturbed
    BY <1>4 DEF Undisturbed, Reset, ResetCheck, ResetFree, ResetSignal, history
  <2> QED
    BY <1>4, <2>1 DEF Reset, ResetCheck, ResetFree, ResetSignal, UsersInv, OwnRequest, Idle
<1>5. ASSUME NEW r \in Requests, NEW a \in UserAnswers, Respond(r, a) PROVE UsersInv'
  <2>1. ~crossed
    BY <1>5, ZenonT(20) DEF Undisturbed, Respond
  <2>2. Undisturbed /\ ~crossed'
    BY <1>5, <2>1 DEF Undisturbed, Respond
  <2> QED
    BY <1>5, <2>2, UsersRespond DEF Users
<1>6. CASE Responding
  <2>1. Undisturbed
    BY <1>6 DEF Undisturbed, Responding, IgnoreSupl, Answer, history
  <2> QED
    BY <1>6, <2>1, UsersResponding DEF Users
<1>7. ASSUME NEW r \in Requests, Thread(r) PROVE UsersInv'
  <2>1. ~crossed
    BY <1>7, ZenonT(20) DEF Undisturbed, Thread, Begin, Wake, Timeout, Take, Clear, Zero, SendAnswer, history
  <2>2. restarts = 0
    BY <1>7 DEF Undisturbed, Thread, Begin, Wake, Timeout, Take, Clear, Zero, SendAnswer
  <2>3. Undisturbed /\ ~crossed'
    BY <2>1, <2>2 DEF Undisturbed
  <2> QED
    BY <1>7, <2>3, UsersThread DEF Users
<1> QED
  BY <1>1, <1>2, <1>3, <1>4, <1>5, <1>6, <1>7 DEF Next

(***************************************************************************)
(* For any number of requests: as long as no answer crosses a timeout,     *)
(* another answer or a restart, the modem is told of a request what the    *)
(* user said of it, or that there was no response (loc_eng_ni_respond,     *)
(* ni_thread_proc); a request is never answered with another one's answer. *)
(***************************************************************************)
THEOREM AnswerIsUsersCorrect == Spec => []AnswerIsUsers
<1>1. SaidType /\ (Undisturbed => UsersInv) => AnswerIsUsers
  BY DEF Undisturbed, UsersInv, SentIsUsers, Gave, AnswerIsUsers
<1> QED
  BY <1>1, SaidFirst, NextUsers, AlwaysNiInv, PTL DEF Spec

=============================================================================
