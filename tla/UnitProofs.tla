------------------------------ MODULE UnitProofs ------------------------------
(***************************************************************************)
(* Proofs about the components that interact with no other model.          *)
(*                                                                         *)
(* The message task, for any number of messages: the delegate shared by    *)
(* its owner and its thread lives exactly as long as one of the two uses   *)
(* it, and every message sent is in one place, in the order of sending.    *)
(*                                                                         *)
(* The daemon connection, for any number of messages: an owner whom launch *)
(* has told of success finds the pipes opened.                             *)
(*                                                                         *)
(* The camera wrapper, for any number of cameras and parameter strings: a  *)
(* camera is served as if it were alone. All cameras share the array of    *)
(* strings and the callbacks. As long as they are opened one at a time the *)
(* array is the open camera's: every open makes it anew, so what the last  *)
(* close left dangling is never freed.                                     *)
(*                                                                         *)
(* The linked list, for any data pointers and any room: what is reachable  *)
(* from its head is one walk, which both directions of links agree on, and *)
(* each call does to the data on it what ListOfPointers says.              *)
(***************************************************************************)
EXTENDS MsgTask, DmnServer, CameraWrapper, LinkedList,
        SequenceTheorems, FiniteSetTheorems, WellFoundedInduction, TLAPS

-----------------------------------------------------------------------------
\* The message task.

(***************************************************************************)
(* DelegateIsCounted says nothing of the count before there is a delegate; *)
(* it is then what the constructor relies on.                              *)
(***************************************************************************)
CountInv ==
    /\ DelegateIsCounted
    /\ owner = "idle" => thread = "none" /\ mRefCount = 2

LEMMA InitCounts == TaskInit => CountInv
  BY DEF TaskInit, Init, CountInv, DelegateIsCounted, ThreadUses, OwnerUses

\* destroy() by the owner: the thread's share is left, or nothing.
LEMMA OwnerGivesUp ==
  ASSUME CountInv, OwnerUses, Destroy, owner' = "gone", UNCHANGED thread
  PROVE  CountInv'
<1>1. delegate
  BY ZenonT(20) DEF CountInv, DelegateIsCounted
<1>2. mRefCount = (IF ThreadUses THEN 1 ELSE 0) + 1
  BY <1>1 DEF CountInv, DelegateIsCounted
<1>3. delegate' <=> mRefCount # 1
  BY <1>1, ZenonT(20) DEF Destroy
<1>4. mRefCount' = (IF ThreadUses THEN 1 ELSE 0)
  BY <1>2 DEF Destroy
<1>5. (ThreadUses' <=> ThreadUses) /\ ~OwnerUses' /\ owner' # "idle"
  BY DEF ThreadUses, OwnerUses
<1>6. mRefCount # 1 <=> ThreadUses
  BY <1>2
<1> QED
  BY <1>3, <1>4, <1>5, <1>6 DEF CountInv, DelegateIsCounted

\* destroy() by the thread.
LEMMA ThreadGivesUp ==
  ASSUME CountInv, ThreadUses, Destroy, thread' = "done", UNCHANGED owner
  PROVE  CountInv'
<1>1. delegate
  BY ZenonT(20) DEF CountInv, DelegateIsCounted
<1>2. mRefCount = 1 + (IF OwnerUses THEN 1 ELSE 0)
  BY <1>1 DEF CountInv, DelegateIsCounted
<1>3. delegate' <=> mRefCount # 1
  BY <1>1, ZenonT(20) DEF Destroy
<1>4. mRefCount' = (IF OwnerUses THEN 1 ELSE 0)
  BY <1>2 DEF Destroy
<1>5. (OwnerUses' <=> OwnerUses) /\ ~ThreadUses' /\ owner' # "idle"
  BY DEF ThreadUses, OwnerUses, CountInv
<1>6. mRefCount # 1 <=> OwnerUses
  BY <1>2
<1> QED
  BY <1>3, <1>4, <1>5, <1>6 DEF CountInv, DelegateIsCounted

\* A step of one of the two that neither begins nor ends its use.
LEMMA StillCounted ==
  ASSUME CountInv, UNCHANGED <<mRefCount, delegate>>,
         ThreadUses' <=> ThreadUses, OwnerUses' <=> OwnerUses,
         owner' = "idle" => owner = "idle" /\ UNCHANGED thread
  PROVE  CountInv'
  BY DEF CountInv, DelegateIsCounted, ThreadUses, OwnerUses

\* Start: the new thread is counted already, or given up again.
LEMMA ConstructCounts == CountInv /\ Construct => CountInv'
<1> SUFFICES ASSUME CountInv, Construct PROVE CountInv'
  OBVIOUS
<1>1. CASE Create
  BY <1>1 DEF Create, CountInv, DelegateIsCounted, ThreadUses, OwnerUses
<1>2. CASE CheckRunning
  <2>1. CASE mRunnable
    BY <1>2, <2>1, StillCounted DEF CheckRunning, ThreadUses, OwnerUses
  <2>2. CASE ~mRunnable
    BY <1>2, <2>2, OwnerGivesUp DEF CheckRunning, OwnerUses
  <2> QED
    BY <2>1, <2>2
<1> QED
  BY <1>1, <1>2 DEF Construct

\* destroy() of the task: the owner's share ends with ~LocThread.
LEMMA DestroyingCounts == CountInv /\ (DestroyUnblock \/ Destroying) => CountInv'
<1> SUFFICES ASSUME CountInv, DestroyUnblock \/ Destroying PROVE CountInv'
  OBVIOUS
<1>1. CASE DestroyUnblock \/ DestroyNull
  BY <1>1, StillCounted DEF DestroyUnblock, DestroyNull, threadVars, ThreadUses, OwnerUses
<1>2. CASE DestroyThread
  <2>1. CASE Bye
    BY <2>1, StillCounted DEF Bye, ThreadUses, OwnerUses
  <2>2. CASE Join
    BY <2>2, StillCounted DEF Join, ThreadUses, OwnerUses
  <2>3. CASE OwnerDestroy
    BY <2>3, OwnerGivesUp DEF OwnerDestroy, OwnerUses
  <2> QED
    BY <1>2, <2>1, <2>2, <2>3 DEF DestroyThread
<1>3. CASE DestroyThis
  BY <1>3, StillCounted DEF DestroyThis, ThreadUses, OwnerUses
<1> QED
  BY <1>1, <1>2, <1>3 DEF Destroying

\* The thread uses the delegate from its first step to its last.
LEMMA ThreadCounts == CountInv /\ Thread => CountInv'
<1> SUFFICES ASSUME CountInv, Thread PROVE CountInv'
  OBVIOUS
<1>1. CASE ThreadGoes
  <2>1. CASE Enter
    BY <2>1, StillCounted DEF Enter, ThreadUses, OwnerUses, CountInv
  <2>2. CASE Ready
    BY <2>2, StillCounted DEF Ready, ThreadUses, OwnerUses, CountInv
  <2>3. CASE Prerun \/ Postrun \/ Clear
    BY <2>3, StillCounted DEF Prerun, Postrun, Clear, At, ThreadUses, OwnerUses, CountInv
  <2>4. CASE Loop
    BY <2>4, StillCounted DEF Loop, ThreadUses, OwnerUses, CountInv
  <2>5. CASE Ended
    BY <2>5, StillCounted DEF Ended, ThreadUses, OwnerUses, CountInv
  <2>6. CASE Leave
    BY <2>6, ThreadGivesUp DEF Leave, At, ThreadUses
  <2> QED
    BY <1>1, <2>1, <2>2, <2>3, <2>4, <2>5, <2>6 DEF ThreadGoes
<1>2. ASSUME NEW again \in BOOLEAN, RunReturns(again) PROVE CountInv'
  BY <1>2, StillCounted DEF RunReturns, At, ThreadUses, OwnerUses, CountInv
<1>3. CASE ReceiveNothing \/ ReceiveWoken \/ Proc
  BY <1>2, <1>3 DEF ReceiveNothing, ReceiveWoken, Proc
<1>4. CASE ReceiveWaits \/ Receive
  BY <1>4, StillCounted DEF ReceiveWaits, Receive, threadVars, ThreadUses, OwnerUses
<1>5. CASE DeleteTask
  BY <1>5, StillCounted DEF DeleteTask, DeleteRunnable, At, ThreadUses, OwnerUses, CountInv
<1> QED
  BY <1>1, <1>3, <1>4, <1>5 DEF Thread

\* Messages do not touch the delegate.
LEMMA NextCounts == CountInv /\ [TaskNext]_vars => CountInv'
<1> SUFFICES ASSUME CountInv, [TaskNext]_vars PROVE CountInv'
  OBVIOUS
<1>1. CASE Send \/ SpuriousWakeUp
  BY <1>1, StillCounted DEF Send, SpuriousWakeUp, threadVars, ThreadUses, OwnerUses
<1>2. CASE UNCHANGED vars
  BY <1>2, StillCounted DEF vars, threadVars, ThreadUses, OwnerUses
<1> QED
  BY <1>1, <1>2, ConstructCounts, DestroyingCounts, ThreadCounts DEF TaskNext

(***************************************************************************)
(* The delegate exists exactly while the owner or the thread uses it, and  *)
(* mRefCount says how many do (LocThreadDelegate::destroy), joinable or    *)
(* detached, however many messages there are.                              *)
(***************************************************************************)
THEOREM DelegateCorrect == TaskSpec => []DelegateIsCounted
<1>1. TaskInit => CountInv
  BY InitCounts
<1>2. CountInv /\ [TaskNext]_vars => CountInv'
  BY NextCounts
<1>3. CountInv => DelegateIsCounted
  BY DEF CountInv
<1> QED
  BY <1>1, <1>2, <1>3, PTL DEF TaskSpec

-----------------------------------------------------------------------------
(***************************************************************************)
(* Each message once.  Only two facts are missing: nothing is put in the   *)
(* queue of a deleted task, and what is deleted with it came last.         *)
(***************************************************************************)
Positive == Nat \ {0}

\* What is handled or being handled.
InFront == processed \o (IF msg = 0 THEN <<>> ELSE <<msg>>)

QueueOK ==
    /\ sent \in Nat /\ msg \in Nat
    /\ processed \in Seq(Positive) /\ msg_list \in Seq(Positive)

OrderInv ==
    /\ QueueOK
    /\ ~runnable => msg_list = <<>>
    /\ flushed # {} => ~runnable
    /\ EachMessageOnce

\* EachMessageOnce, part by part.
Elements(s) == {s[i] : i \in 1 .. Len(s)}
Ordered(s) == \A i, j \in 1 .. Len(s) : i < j => s[i] < s[j]
Divided(H, F, R, n) ==
    /\ \A m \in H, f \in F : m < f
    /\ H \cup F \cup R = 1 .. n
    /\ R \cap (H \cup F) = {}

LEMMA Parts ==
  EachMessageOnce <=> Ordered(InHand) /\ Divided(Elements(InHand), flushed, refused, sent)
  BY DEF EachMessageOnce, Ordered, Divided, Elements

\* The queue's oldest message goes in front of the others.
LEMMA HeadFirst ==
  ASSUME NEW S, NEW s \in Seq(S), s # <<>>
  PROVE  /\ Head(s) \in S /\ Tail(s) \in Seq(S)
         /\ s = <<Head(s)>> \o Tail(s)
  OBVIOUS

LEMMA Concatenated ==
  ASSUME NEW S, NEW s \in Seq(S), NEW t \in Seq(S)
  PROVE  /\ s \o t \in Seq(S)
         /\ Len(s \o t) = Len(s) + Len(t)
         /\ \A i \in 1 .. Len(s) : (s \o t)[i] = s[i]
         /\ \A i \in 1 .. Len(t) : (s \o t)[Len(s) + i] = t[i]
  OBVIOUS

LEMMA Associated ==
  ASSUME NEW S, NEW s \in Seq(S), NEW t \in Seq(S), NEW u \in Seq(S)
  PROVE  (s \o t) \o u = s \o (t \o u)
  OBVIOUS

LEMMA AppendedIsConcat ==
  ASSUME NEW S, NEW s \in Seq(S), NEW x \in S
  PROVE  Append(s, x) = s \o <<x>> /\ <<x>> \in Seq(S)
  OBVIOUS

LEMMA FrontSeq ==
  ASSUME NEW p \in Seq(Positive), NEW m \in Nat
  PROVE  p \o (IF m = 0 THEN <<>> ELSE <<m>>) \in Seq(Positive)
<1>1. CASE m = 0
  BY <1>1
<1>2. CASE m # 0
  BY <1>2, AppendedIsConcat, Concatenated DEF Positive
<1> QED
  BY <1>1, <1>2

LEMMA FrontOK ==
  ASSUME QueueOK
  PROVE  InFront \in Seq(Positive) /\ InHand = InFront \o msg_list /\ InHand \in Seq(Positive)
<1>1. InFront \in Seq(Positive)
  BY FrontSeq DEF QueueOK, InFront
<1>2. InHand = InFront \o msg_list
  BY FrontSeq, Associated DEF InHand, InFront, QueueOK
<1> QED
  BY <1>1, <1>2, Concatenated DEF QueueOK

\* A step that moves messages from one place in hand to the next.
LEMMA HandKept ==
  ASSUME OrderInv, QueueOK', InHand' = InHand,
         UNCHANGED <<sent, refused, flushed, runnable>>,
         msg_list = <<>> => msg_list' = <<>>
  PROVE  OrderInv'
<1>1. EachMessageOnce'
  BY DEF OrderInv, EachMessageOnce
<1> QED
  BY <1>1 DEF OrderInv

LEMMA InitInOrder == TaskInit => OrderInv
<1> SUFFICES ASSUME TaskInit PROVE OrderInv
  OBVIOUS
<1>1. QueueOK /\ InHand = <<>>
  BY DEF TaskInit, QueueOK, InHand, Positive
<1> QED
  BY <1>1 DEF TaskInit, Init, OrderInv, EachMessageOnce

\* A message sent is newer than those before it, and takes the last place.
LEMMA SendInOrder == OrderInv /\ Send => OrderInv'
<1> SUFFICES ASSUME OrderInv, Send PROVE OrderInv'
  OBVIOUS
<1> USE DEF OrderInv
<1>1. /\ sent \in Nat /\ sent' = sent + 1 /\ sent' \in Positive /\ runnable
      /\ UNCHANGED <<runnable, processed, msg, flushed>>
  BY DEF Send, threadVars, QueueOK, Positive
<1>2. InHand \in Seq(Positive) /\ 1 .. sent' = 1 .. sent \cup {sent'} /\ sent' \notin 1 .. sent
  BY <1>1, FrontOK
<1>3. CASE refused' = refused \cup {sent'} /\ UNCHANGED msg_list
  <2>1. UNCHANGED InHand /\ QueueOK' /\ refused' = refused \cup {sent'}
    BY <1>1, <1>3 DEF Send, QueueOK, InHand
  <2>2. Ordered(InHand') /\ Divided(Elements(InHand'), flushed', refused', sent')
    <3>1. Ordered(InHand) /\ Divided(Elements(InHand), flushed, refused, sent)
      BY Parts
    <3>2. Divided(Elements(InHand), flushed, refused \cup {sent'}, sent')
      BY <3>1, <1>1, <1>2 DEF Divided
    <3> QED
      BY <3>1, <3>2, <2>1, <1>1
  <2>3. EachMessageOnce'
    BY <2>2 DEF EachMessageOnce, Ordered, Divided, Elements
  <2> QED
    BY <2>1, <2>3, <1>1
<1>4. CASE ~unblocked /\ msg_list' = Append(msg_list, sent') /\ UNCHANGED refused
  <2>1. msg_list' = Append(msg_list, sent') /\ refused' = refused /\ QueueOK' /\ flushed = {}
    <3>1. msg_list' = Append(msg_list, sent') /\ refused' = refused
      BY <1>4 DEF Send
    <3>2. QueueOK'
      BY <1>1, <1>4, <3>1 DEF Send, QueueOK
    <3> QED BY <1>1, <1>4, <3>1, <3>2 DEF Send
  <2>2. InHand' = Append(InHand, sent')
    <3>1. msg_list' = msg_list \o <<sent'>> /\ InHand = InFront \o msg_list
      BY <2>1, <1>1, AppendedIsConcat, FrontOK DEF QueueOK
    <3>2. InFront' = InFront /\ InFront \in Seq(Positive)
      BY <1>1, FrontOK DEF InFront
    <3>3. InHand' = InFront' \o msg_list'
      BY <2>1, FrontSeq, Associated DEF QueueOK, InHand, InFront
    <3>4. InHand' = InHand \o <<sent'>>
      BY <3>1, <3>2, <3>3, <1>1, Associated, AppendedIsConcat DEF QueueOK
    <3> QED
      BY <3>4, <1>1, <1>2, AppendedIsConcat
  <2>3. /\ Len(InHand') = Len(InHand) + 1
        /\ \A i \in 1 .. Len(InHand) : InHand'[i] = InHand[i] /\ InHand[i] \in 1 .. sent
        /\ InHand'[Len(InHand) + 1] = sent'
    BY <2>2, <1>1, <1>2 DEF EachMessageOnce
  <2>4. Elements(InHand') = Elements(InHand) \cup {sent'}
    BY <2>3, <1>2 DEF Elements
  <2>5. Ordered(InHand')
    BY <2>3, <1>1, <1>2, Parts DEF Ordered
  <2>6. Divided(Elements(InHand) \cup {sent'}, {}, refused, sent')
    <3>1. Divided(Elements(InHand), {}, refused, sent)
      BY <2>1, Parts
    <3> QED
      BY <3>1, <1>1, <1>2 DEF Divided
  <2>7. EachMessageOnce'
    <3>1. Ordered(InHand') /\ Divided(Elements(InHand'), flushed', refused', sent')
      BY <2>1, <2>4, <2>5, <2>6, <1>1
    <3> QED
      BY <3>1 DEF EachMessageOnce, Ordered, Divided, Elements
  <2> QED
    BY <2>1, <2>7, <1>1
<1> QED
  BY <1>3, <1>4 DEF Send

\* What is deleted with the queue is what came last.
LEMMA DeletedInOrder ==
  ASSUME OrderInv, DeleteQueue, ~runnable'
  PROVE  OrderInv'
<1> USE DEF OrderInv
<1>1. /\ UNCHANGED <<processed, msg, sent, refused>> /\ msg_list' = <<>>
      /\ flushed' = flushed \cup {msg_list[i] : i \in 1 .. Len(msg_list)}
  BY DEF DeleteQueue
<1>2. QueueOK'
  BY <1>1 DEF QueueOK
<1>3. InFront \in Seq(Positive) /\ InHand = InFront \o msg_list /\ msg_list \in Seq(Positive)
  BY FrontOK DEF QueueOK
<1>4. InHand' = InFront
  <2>1. InHand' = InFront' \o msg_list'
    BY <1>2, FrontSeq, Associated DEF QueueOK, InHand, InFront
  <2> QED
    BY <2>1, <1>1, <1>3 DEF InFront
<1>5. /\ Len(InHand) = Len(InFront) + Len(msg_list)
      /\ \A i \in 1 .. Len(InFront) : InHand[i] = InFront[i]
      /\ \A i \in 1 .. Len(msg_list) : InHand[Len(InFront) + i] = msg_list[i]
      /\ Len(InFront) \in Nat /\ Len(msg_list) \in Nat
  BY <1>3, Concatenated
<1>6. Elements(InHand) = Elements(InFront) \cup Elements(msg_list)
  <2>1. ASSUME NEW i \in 1 .. Len(InHand)
        PROVE  InHand[i] \in Elements(InFront) \cup Elements(msg_list)
    <3>1. CASE i \in 1 .. Len(InFront)
      BY <3>1, <1>5 DEF Elements
    <3>2. CASE i \notin 1 .. Len(InFront)
      <4>1. i - Len(InFront) \in 1 .. Len(msg_list) /\ i = Len(InFront) + (i - Len(InFront))
        BY <3>2, <1>5
      <4> QED
        BY <4>1, <1>5 DEF Elements
    <3> QED
      BY <3>1, <3>2
  <2>2. ASSUME NEW i \in 1 .. Len(InFront) PROVE InFront[i] \in Elements(InHand)
    BY <1>5 DEF Elements
  <2>3. ASSUME NEW i \in 1 .. Len(msg_list) PROVE msg_list[i] \in Elements(InHand)
    <3>1. Len(InFront) + i \in 1 .. Len(InHand)
      BY <1>5
    <3> QED
      BY <3>1, <1>5 DEF Elements
  <2> QED
    BY <2>1, <2>2, <2>3 DEF Elements
<1>7. Ordered(InHand) /\ Divided(Elements(InHand), flushed, refused, sent)
  BY Parts
<1>8. Ordered(InFront)
  BY <1>5, <1>7 DEF Ordered
<1>9. ASSUME NEW m \in Elements(InFront), NEW f \in Elements(msg_list)
      PROVE  m < f
  <2>1. PICK i \in 1 .. Len(InFront), j \in 1 .. Len(msg_list) : m = InFront[i] /\ f = msg_list[j]
    BY DEF Elements
  <2>2. i \in 1 .. Len(InHand) /\ Len(InFront) + j \in 1 .. Len(InHand) /\ i < Len(InFront) + j
    BY <1>5
  <2>3. InHand[i] < InHand[Len(InFront) + j]
    BY <2>2, <1>7 DEF Ordered
  <2> QED
    BY <2>1, <2>3, <1>5
<1>10. Divided(Elements(InFront), flushed \cup Elements(msg_list), refused, sent)
  BY <1>6, <1>7, <1>9 DEF Divided
<1>11. flushed' = flushed \cup Elements(msg_list)
  BY <1>1 DEF Elements
<1>12. EachMessageOnce'
  <2>1. Ordered(InHand') /\ Divided(Elements(InHand'), flushed', refused', sent')
    BY <1>1, <1>4, <1>8, <1>10, <1>11
  <2> QED
    BY <2>1 DEF EachMessageOnce, Ordered, Divided, Elements
<1> QED
  BY <1>1, <1>2, <1>12

LEMMA ThreadInOrder == OrderInv /\ Thread => OrderInv'
<1> SUFFICES ASSUME OrderInv, Thread PROVE OrderInv'
  OBVIOUS
<1>1. CASE ThreadGoes \/ ReceiveNothing
  <2>1. UNCHANGED taskVars
    BY <1>1 DEF ThreadGoes, ReceiveNothing
  <2>2. UNCHANGED runnable
    BY <1>1 DEF ThreadGoes, ReceiveNothing, Enter, Ready, Prerun, Loop, Ended, Postrun, Clear,
                Leave, RunReturns
  <2> QED
    BY <2>1, <2>2, HandKept DEF taskVars, OrderInv, QueueOK, InHand
<1>2. CASE ReceiveWaits \/ ReceiveWoken
  BY <1>2, HandKept DEF ReceiveWaits, ReceiveWoken, threadVars, RunReturns, OrderInv, QueueOK, InHand
<1>3. CASE Receive
  <2>1. /\ msg = 0 /\ msg_list # <<>> /\ msg' = Head(msg_list) /\ msg_list' = Tail(msg_list)
        /\ UNCHANGED <<sent, refused, flushed, runnable, processed>>
    BY <1>3 DEF Receive, Receiving, threadVars
  <2>2. /\ Head(msg_list) \in Positive /\ Tail(msg_list) \in Seq(Positive)
        /\ msg_list = <<Head(msg_list)>> \o Tail(msg_list)
        /\ processed \in Seq(Positive)
    BY <2>1, HeadFirst DEF OrderInv, QueueOK
  <2>3. QueueOK'
    BY <2>1, <2>2 DEF OrderInv, QueueOK, Positive
  <2>4. InHand = processed \o msg_list
    BY <2>1, <2>2 DEF InHand
  <2>5. InHand' = (processed \o <<Head(msg_list)>>) \o Tail(msg_list)
    <3>1. msg' # 0
      BY <2>1, <2>2 DEF Positive
    <3> QED
      BY <3>1, <2>1, <2>2, AppendedIsConcat, Associated DEF InHand
  <2>6. InHand' = InHand
    BY <2>2, <2>4, <2>5, AppendedIsConcat, Associated
  <2> QED
    BY <2>1, <2>3, <2>6, HandKept DEF OrderInv
<1>4. CASE Proc
  <2>1. /\ msg # 0 /\ msg' = 0 /\ processed' = Append(processed, msg)
        /\ UNCHANGED <<sent, refused, flushed, runnable, msg_list>>
    BY <1>4 DEF Proc, RunReturns, queueVars
  <2>2. msg \in Positive /\ processed \in Seq(Positive) /\ msg_list \in Seq(Positive)
    BY <2>1 DEF OrderInv, QueueOK, Positive
  <2>3. processed' = processed \o <<msg>> /\ processed' \in Seq(Positive)
    BY <2>1, <2>2, AppendedIsConcat
  <2>4. QueueOK'
    BY <2>1, <2>3 DEF OrderInv, QueueOK
  <2>5. InHand = (processed \o <<msg>>) \o msg_list
    BY <2>1, <2>2, AppendedIsConcat, Associated DEF InHand
  <2>6. InHand' = processed' \o msg_list
    BY <2>1, <2>2, <2>3 DEF InHand
  <2> QED
    BY <2>1, <2>3, <2>4, <2>5, <2>6, HandKept
<1>5. CASE DeleteTask
  BY <1>5, DeletedInOrder DEF DeleteTask, DeleteRunnable
<1> QED
  BY <1>1, <1>2, <1>3, <1>4, <1>5 DEF Thread

LEMMA NextInOrder == OrderInv /\ [TaskNext]_vars => OrderInv'
<1> SUFFICES ASSUME OrderInv, [TaskNext]_vars PROVE OrderInv'
  OBVIOUS
<1> USE DEF OrderInv, QueueOK, InHand
<1>1. CASE Construct
  BY <1>1, HandKept DEF Construct, Create, CheckRunning, taskVars
<1>2. CASE DestroyUnblock
  BY <1>2, HandKept DEF DestroyUnblock, threadVars
<1>3. CASE DestroyNull
  BY <1>3, HandKept DEF DestroyNull, threadVars, queueVars
<1>4. CASE DestroyThread
  BY <1>4, HandKept DEF DestroyThread, Bye, Join, OwnerDestroy, queueVars
<1>5. CASE DestroyThis
  BY <1>5, DeletedInOrder DEF DestroyThis
<1>6. CASE SpuriousWakeUp
  BY <1>6, HandKept DEF SpuriousWakeUp, threadVars
<1>7. CASE UNCHANGED vars
  BY <1>7, HandKept DEF vars, threadVars, taskVars
<1> QED
  BY <1>1, <1>2, <1>3, <1>4, <1>5, <1>6, <1>7, SendInOrder, ThreadInOrder DEF TaskNext, Destroying

(***************************************************************************)
(* However many messages are sent and whenever destroy() is called, each   *)
(* message that was sent is refused, or is in exactly one place, handled,  *)
(* in the hands of the thread, queued or deleted, and these places keep    *)
(* the order of sending (msg_q_snd, msg_q_rcv, msg_q_destroy).             *)
(***************************************************************************)
THEOREM EachMessageOnceCorrect == TaskSpec => []EachMessageOnce
<1>1. TaskInit => OrderInv
  BY InitInOrder
<1>2. OrderInv /\ [TaskNext]_vars => OrderInv'
  BY NextInOrder
<1>3. OrderInv => EachMessageOnce
  BY DEF OrderInv
<1> QED
  BY <1>1, <1>2, <1>3, PTL DEF TaskSpec

-----------------------------------------------------------------------------
\* The daemon connection.

(***************************************************************************)
(* The inductive invariant: how far the server may be while the owner      *)
(* still waits. LaunchIsReady does not say that the flags are clear as     *)
(* long as the server opens its pipes, which is what keeps the owner from  *)
(* going past its test.                                                    *)
(***************************************************************************)
LaunchOrder ==
    "spurious" \notin noted =>
        /\ (server = "none") <=> (launcher = "launch")
        /\ server = "init" => /\ launcher \in {"wait", "asleep"}
                              /\ thread_ready = 0 /\ thread_exit = 0
        /\ server \notin {"none", "init"} => fd["loc_api"] # "unset"

\* The owner is told of success only past its wait.
LEMMA OrderIsEnough == LaunchOrder => LaunchIsReady
  BY DEF LaunchOrder, LaunchIsReady

\* Before launch there is no server, and nothing has happened yet.
LEMMA InitOrder == DmnInit => LaunchOrder
  BY DEF DmnInit, LaunchOrder

\* The owner passes its test only if one of the flags is set.
LEMMA OwnerOrder == LaunchOrder /\ Launcher => LaunchOrder'
<1> SUFFICES ASSUME LaunchOrder, Launcher PROVE LaunchOrder'
  OBVIOUS
<1>1. CASE Launch
  BY <1>1 DEF LaunchOrder, Launch, SignalInit
<1>2. CASE SignalWait
  BY <1>2 DEF LaunchOrder, SignalWait, helper
<1>3. CASE LaunchReturns
  BY <1>3 DEF LaunchOrder, LaunchReturns, helper
<1>4. CASE Unblock
  <2>1. CASE UnblockHelper
    BY <1>4, <2>1 DEF LaunchOrder, Unblock, UnblockHelper, Note
  <2>2. CASE UnblockProc
    BY <1>4, <2>2 DEF LaunchOrder, Unblock, UnblockProc, Note
  <2> QED
    BY <1>4, <2>1, <2>2 DEF Unblock
<1>5. CASE JoinHelper
  BY <1>5 DEF LaunchOrder, JoinHelper, helper
<1> QED
  BY <1>1, <1>2, <1>3, <1>4, <1>5 DEF Launcher

\* The server sets a flag only after it has opened the pipes, and closing them
\* does not make them unopened.
LEMMA ServerOrder == LaunchOrder /\ Server => LaunchOrder'
<1> SUFFICES ASSUME LaunchOrder, Server PROVE LaunchOrder'
  OBVIOUS
<1>1. CASE ProcInit
  <2>1. CASE OpenPipes
    BY <1>1, <2>1 DEF LaunchOrder, ProcInit, OpenPipes, MsgGet, Queues
  <2>2. CASE SignalReady
    BY <1>1, <2>2 DEF LaunchOrder, ProcInit, SignalReady
  <2> QED
    BY <1>1, <2>1, <2>2 DEF ProcInit
<1>2. CASE MsgRcv
  BY <1>2 DEF LaunchOrder, MsgRcv, Note, helper
<1>3. CASE ProcFails
  BY <1>3 DEF LaunchOrder, ProcFails
<1>4. CASE ServerProc
  BY <1>4 DEF LaunchOrder, ServerProc, helper
<1>5. CASE Again
  BY <1>5 DEF LaunchOrder, Again, helper
<1>6. CASE ProcPost
  BY <1>6 DEF LaunchOrder, ProcPost, MsgRemove, helper, Queues
<1> QED
  BY <1>1, <1>2, <1>3, <1>4, <1>5, <1>6 DEF Server

\* What the MsgTask, the clients and the condition variable do leaves the order
\* alone.
LEMMA NextOrder == LaunchOrder /\ [DmnNext]_dmnVars => LaunchOrder'
<1> SUFFICES ASSUME LaunchOrder, [DmnNext]_dmnVars PROVE LaunchOrder'
  OBVIOUS
<1>1. CASE Launcher
  BY <1>1, OwnerOrder
<1>2. CASE Server
  BY <1>2, ServerOrder
<1>3. CASE FalseWakeUp
  BY <1>3 DEF LaunchOrder, FalseWakeUp, Note
<1>4. CASE MsgTask
  BY <1>4 DEF LaunchOrder, MsgTask, MsgTaskTakes, DataConn, helper
<1>5. ASSUME NEW sender \in Senders, NEW whole \in BOOLEAN, ClientSends(sender, whole)
      PROVE  LaunchOrder'
  BY <1>5 DEF LaunchOrder, ClientSends, helper
<1>6. CASE UNCHANGED dmnVars
  BY <1>6 DEF LaunchOrder, dmnVars, helper
<1> QED
  BY <1>1, <1>2, <1>3, <1>4, <1>5, <1>6 DEF DmnNext

(***************************************************************************)
(* An owner that launch has told of success finds the pipes opened         *)
(* (thelper_signal_wait and thelper_signal_ready), unless it was woken     *)
(* without a signal.                                                       *)
(***************************************************************************)
THEOREM LaunchCorrect == DmnSpec => []LaunchIsReady
<1>1. DmnInit => LaunchOrder
  BY InitOrder
<1>2. LaunchOrder /\ [DmnNext]_dmnVars => LaunchOrder'
  BY NextOrder
<1>3. LaunchOrder => LaunchIsReady
  BY OrderIsEnough
<1> QED
  BY <1>1, <1>2, <1>3, PTL DEF DmnSpec

-----------------------------------------------------------------------------
\* The camera wrapper.

\* NoBlock is neither a string's address nor an array of them.
NoBlockIsApart == NoBlock \notin Blocks /\ NoBlock \notin [Cameras -> Blocks \cup {NoBlock}]

Strings == [Cameras -> Blocks \cup {NoBlock}]
Opened(c) == device[c] # "closed"

CameraType ==
  /\ device \in [Cameras -> {"closed", "open", "released"}]
  /\ vendor \in [Cameras -> {"closed", "idle", "running", "released"}]
  /\ callbacks \subseteq Cameras
  /\ params = NoBlock \/ params \in Strings
  /\ passing \in Strings /\ held \in Strings

\* The devices of wrapper and vendor are opened and closed together.
DevicesAgree == "leaked" \notin seen => \A c \in Cameras : (vendor[c] = "closed") = (device[c] = "closed")

\* One camera at a time, and only it has callbacks.
Alone ==
  /\ \A c, d \in Cameras : Opened(c) /\ Opened(d) => c = d
  /\ \A c \in callbacks : Opened(c) /\ user = c
  /\ ~astray

\* The array holds at most the open camera's string, which is allocated, ...
ArrayIsOwn ==
  /\ \A c \in Cameras : Opened(c) => params # NoBlock
  /\ \A c, d \in Cameras : Opened(c) /\ params[d] # NoBlock => d = c /\ params[c] \in live
  /\ \A c \in Cameras : passing[c] # NoBlock => Opened(c) /\ passing[c] = params[c]

\* ... and the strings that users hold are others.
HeldIsOwn ==
  /\ \A c \in Cameras : held[c] # NoBlock => held[c] \in live
  /\ \A c, d \in Cameras : held[c] # NoBlock /\ held[c] = held[d] => c = d
  /\ \A c, d \in Cameras : held[c] # NoBlock /\ Opened(d) => held[c] # params[d]
  /\ ~misused

CameraInv ==
  /\ CameraType /\ DevicesAgree
  /\ "together" \notin seen => Alone /\ ArrayIsOwn /\ HeldIsOwn

LEMMA InitServes == CameraInit => CameraInv
  BY DEF CameraInit, CameraInv, CameraType, Strings, DevicesAgree, Alone, ArrayIsOwn, HeldIsOwn, Opened

\* An open begins with an array of its own, one after another.
LEMMA OpenServes ==
  ASSUME NoBlockIsApart, CameraInv, NEW c \in Cameras, NEW r \in Results, Open(c, r), ~misused
  PROVE  CameraInv'
<1> USE DEF CameraInv, CameraType
<1>1. CameraType'
  BY DEF Open, Strings, memory
<1>2. DevicesAgree'
  BY DEF Open, Noted, DevicesAgree, Results
<1>3. ASSUME "together" \notin seen' PROVE Alone' /\ ArrayIsOwn' /\ HeldIsOwn'
  <2>1. "together" \notin seen /\ \A d \in Cameras : ~Opened(d)
    BY <1>3 DEF Open, Noted, Opened
  <2>2. \A d \in Cameras : Opened(d)' => d = c /\ r = "done"
    BY <2>1 DEF Open, Opened
  <2>3. r = "done" => params' = [d \in Cameras |-> NoBlock] /\ params' # NoBlock
    BY DEF Open, NoBlockIsApart
  <2>4. callbacks' = {} /\ \A d \in Cameras : passing'[d] = NoBlock
    BY <2>1 DEF Open, Alone, ArrayIsOwn
  <2>5. UNCHANGED <<held, live, astray, misused>>
    BY DEF Open
  <2>6. Alone'
    BY <2>1, <2>2, <2>4, <2>5 DEF Alone
  <2>7. ArrayIsOwn'
    BY <2>2, <2>3, <2>4 DEF ArrayIsOwn
  <2>8. HeldIsOwn'
    BY <2>1, <2>2, <2>3, <2>5 DEF HeldIsOwn
  <2> QED
    BY <2>6, <2>7, <2>8
<1> QED
  BY <1>1, <1>2, <1>3

\* What close frees is the open camera's string; what it leaves behind in the
\* array nobody reads.
LEMMA CloseServes ==
  ASSUME NoBlockIsApart, CameraInv, NEW c \in Cameras, Close(c), ~misused
  PROVE  CameraInv'
<1> USE DEF CameraInv, CameraType
<1>1. CameraType' /\ DevicesAgree'
  BY DEF Close, DevicesAgree
<1>2. ASSUME "together" \notin seen' PROVE Alone' /\ ArrayIsOwn' /\ HeldIsOwn'
  <2>1. "together" \notin seen /\ Opened(c) /\ passing[c] = NoBlock
    BY <1>2 DEF Close, Called, Opened
  <2>2. \A d \in Cameras : ~Opened(d)'
    BY <2>1 DEF Close, Opened, Alone
  <2>3. callbacks' = {} /\ \A d \in Cameras : passing'[d] = NoBlock
    BY <2>1 DEF Close, Alone, ArrayIsOwn
  <2>4. params # NoBlock /\ params \in Strings
    BY <2>1 DEF ArrayIsOwn
  <2> DEFINE freed == {params[d] : d \in Cameras} \ {NoBlock}
  <2>5. freed \subseteq live /\ freed \subseteq {params[c]}
    BY <2>1 DEF ArrayIsOwn
  <2>6. live' = live \ freed /\ misused' = FALSE /\ UNCHANGED <<held, astray>>
    BY <2>4, <2>5 DEF Close
  <2>7. Alone' /\ ArrayIsOwn'
    BY <2>1, <2>2, <2>3, <2>6 DEF Alone, ArrayIsOwn
  <2>8. HeldIsOwn'
    <3>1. \A d \in Cameras : held[d] # NoBlock => held[d] \notin freed
      BY <2>1, <2>5 DEF HeldIsOwn
    <3> QED
      BY <2>1, <2>2, <2>6, <3>1 DEF HeldIsOwn
  <2> QED
    BY <2>7, <2>8
<1> QED
  BY <1>1, <1>2

\* The camera's string is replaced by another, which is passed on.
LEMMA SetServes ==
  ASSUME NoBlockIsApart, CameraInv, NEW c \in Cameras, SetParameters(c), ~misused
  PROVE  CameraInv'
<1> USE DEF CameraInv, CameraType
<1> DEFINE old == IF params = NoBlock THEN NoBlock ELSE params[c]
           kept == live \ {old}
<1>1. PICK b \in Blocks :
        /\ b \notin kept
        /\ live' = kept \union {b} /\ passing' = [passing EXCEPT ![c] = b]
        /\ misused' = (misused \/ params = NoBlock \/ (old # NoBlock /\ old \notin live))
        /\ params' = IF params = NoBlock THEN NoBlock ELSE [params EXCEPT ![c] = b]
  BY DEF SetParameters
<1>2. Opened(c) /\ UNCHANGED <<device, vendor, callbacks, user, held, astray, seen>>
  BY DEF SetParameters, Called, Opened
<1>3. CameraType'
  BY <1>1, <1>2 DEF Strings
<1>4. DevicesAgree'
  BY <1>2 DEF DevicesAgree
<1>5. ASSUME "together" \notin seen PROVE Alone' /\ ArrayIsOwn' /\ HeldIsOwn'
  <2>1. params # NoBlock /\ params \in Strings /\ old = params[c]
    BY <1>2, <1>5 DEF ArrayIsOwn
  <2>2. params' = [params EXCEPT ![c] = b] /\ b # NoBlock /\ params' # NoBlock
    BY <1>1, <1>3, <2>1 DEF NoBlockIsApart, Strings
  <2>3. Alone'
    BY <1>2, <1>5 DEF Alone, Opened
  <2>4. ArrayIsOwn'
    <3>1. \A d \in Cameras : Opened(d) => d = c
      BY <1>2, <1>5 DEF Alone
    <3>2. \A d \in Cameras : d # c => params'[d] = NoBlock /\ passing'[d] = NoBlock
      BY <1>1, <1>2, <1>5, <2>1, <2>2, <3>1 DEF ArrayIsOwn
    <3>3. params'[c] = b /\ passing'[c] = b /\ b \in live'
      BY <1>1, <2>1, <2>2 DEF Strings
    <3>4. \A d \in Cameras : Opened(d)' <=> d = c
      BY <1>2, <3>1 DEF Opened
    <3> QED
      BY <2>2, <3>2, <3>3, <3>4 DEF ArrayIsOwn
  <2>5. HeldIsOwn'
    <3>1. \A d \in Cameras : held[d] # NoBlock => held[d] \in kept /\ held[d] # b
      BY <1>1, <1>2, <1>5, <2>1 DEF HeldIsOwn
    <3>2. ~misused'
      BY <1>1, <1>2, <1>5, <2>1 DEF ArrayIsOwn
    <3>3. \A d \in Cameras : Opened(d)' => d = c
      BY <1>2, <1>5 DEF Alone, Opened
    <3> QED
      BY <1>1, <1>2, <1>5, <2>1, <2>2, <3>1, <3>2, <3>3 DEF HeldIsOwn, Strings
  <2> QED
    BY <2>3, <2>4, <2>5
<1> QED
  BY <1>2, <1>3, <1>4, <1>5

\* The user's copy is allocated apart, and put back once.
LEMMA HeldServes ==
  ASSUME NoBlockIsApart, CameraInv, NEW c \in Cameras, GetParameters(c) \/ PutParameters(c), ~misused
  PROVE  CameraInv'
<1> USE DEF CameraInv, CameraType
<1>1. UNCHANGED <<device, vendor, callbacks, user, params, passing, astray, seen>>
  BY DEF GetParameters, PutParameters
<1>2. CameraType'
  BY <1>1 DEF GetParameters, PutParameters, Strings
<1>3. DevicesAgree'
  BY <1>1 DEF DevicesAgree
<1>4. ASSUME "together" \notin seen PROVE Alone' /\ ArrayIsOwn' /\ HeldIsOwn'
  <2>1. Alone'
    BY <1>1, <1>4 DEF Alone, Opened
  <2>2. CASE GetParameters(c)
    <3>1. PICK b \in Blocks \ live : live' = live \union {b} /\ held' = [held EXCEPT ![c] = b] /\ UNCHANGED misused
      BY <2>2 DEF GetParameters
    <3>2. ArrayIsOwn'
      BY <1>1, <1>4, <3>1 DEF ArrayIsOwn, Opened
    <3>3. \A d \in Cameras : Opened(d) => params[d] # b
      BY <1>4, <3>1 DEF ArrayIsOwn, NoBlockIsApart
    <3>4. HeldIsOwn'
      BY <1>1, <1>4, <3>1, <3>3 DEF HeldIsOwn, Opened, NoBlockIsApart, Strings
    <3> QED
      BY <2>1, <3>2, <3>4
  <2>3. CASE PutParameters(c)
    <3>1. /\ held[c] # NoBlock /\ live' = live \ {held[c]} /\ held' = [held EXCEPT ![c] = NoBlock]
          /\ misused' = (misused \/ held[c] \notin live)
      BY <2>3 DEF PutParameters
    <3>2. ArrayIsOwn'
      BY <1>1, <1>4, <3>1 DEF ArrayIsOwn, HeldIsOwn, Opened
    <3>3. HeldIsOwn'
      BY <1>1, <1>4, <3>1 DEF HeldIsOwn, Opened, Strings
    <3> QED
      BY <2>1, <3>2, <3>3
  <2> QED
    BY <2>2, <2>3
<1> QED
  BY <1>1, <1>2, <1>3, <1>4

\* The other calls do not allocate.
LEMMA OthersServe ==
  ASSUME NoBlockIsApart, CameraInv, NEW c \in Cameras, ~misused,
         \/ Release(c) \/ SetCallbacks(c) \/ PassParameters(c) \/ Callback(c)
         \/ \E state \in {"idle", "running"} : Forward(c, state)
  PROVE  CameraInv'
<1> USE DEF CameraInv, CameraType
<1>1. CASE Release(c)
  BY <1>1 DEF Release, Called, memory, DevicesAgree, Alone, ArrayIsOwn, HeldIsOwn, Opened
<1>2. CASE SetCallbacks(c)
  <2>1. CameraType' /\ DevicesAgree'
    BY <1>2 DEF SetCallbacks, memory, DevicesAgree
  <2>2. ASSUME "together" \notin seen PROVE Alone' /\ ArrayIsOwn' /\ HeldIsOwn'
    <3>1. Alone'
      BY <1>2, <2>2 DEF SetCallbacks, Called, Alone, Opened
    <3>2. ArrayIsOwn' /\ HeldIsOwn'
      BY <1>2, <2>2 DEF SetCallbacks, memory, ArrayIsOwn, HeldIsOwn, Opened
    <3> QED
      BY <3>1, <3>2
  <2> QED
    BY <1>2, <2>1, <2>2 DEF SetCallbacks
<1>3. CASE PassParameters(c)
  <2>1. CameraType' /\ DevicesAgree'
    BY <1>3 DEF PassParameters, Strings, DevicesAgree
  <2>2. ASSUME "together" \notin seen PROVE Alone' /\ ArrayIsOwn' /\ HeldIsOwn'
    <3>1. Alone' /\ HeldIsOwn'
      <4>1. passing[c] # NoBlock /\ passing[c] \in live
        BY <1>3, <2>2 DEF PassParameters, ArrayIsOwn
      <4> QED
        BY <1>3, <2>2, <4>1 DEF PassParameters, Alone, HeldIsOwn, Opened
    <3>2. ArrayIsOwn'
      BY <1>3, <2>2 DEF PassParameters, ArrayIsOwn, Opened, Strings
    <3> QED
      BY <3>1, <3>2
  <2> QED
    BY <1>3, <2>1, <2>2 DEF PassParameters
<1>4. CASE Callback(c)
  <2>1. "together" \notin seen => ~astray'
    BY <1>4 DEF Callback, Alone
  <2>2. UNCHANGED <<device, vendor, callbacks, user, memory, seen>>
    BY <1>4 DEF Callback
  <2>3. CameraType' /\ DevicesAgree'
    BY <2>2 DEF memory, DevicesAgree
  <2>4. "together" \notin seen => Alone' /\ ArrayIsOwn' /\ HeldIsOwn'
    BY <2>1, <2>2 DEF memory, Alone, ArrayIsOwn, HeldIsOwn, Opened
  <2> QED
    BY <2>2, <2>3, <2>4
<1>5. ASSUME NEW state \in {"idle", "running"}, Forward(c, state) PROVE CameraInv'
  BY <1>5 DEF Forward, Called, memory, DevicesAgree, Alone, ArrayIsOwn, HeldIsOwn, Opened
<1> QED
  BY <1>1, <1>2, <1>3, <1>4, <1>5

LEMMA NextServes == NoBlockIsApart /\ CameraInv /\ [CameraNext]_cameraVars => CameraInv'
<1> SUFFICES ASSUME NoBlockIsApart, CameraInv, [CameraNext]_cameraVars PROVE CameraInv'
  OBVIOUS
<1>1. CASE CameraNext
  BY <1>1, OpenServes, CloseServes, SetServes, HeldServes, OthersServe DEF CameraNext
<1>2. CASE UNCHANGED cameraVars
  BY <1>2 DEF cameraVars, CameraInv, CameraType, DevicesAgree, Alone, ArrayIsOwn, HeldIsOwn, Opened
<1> QED
  BY <1>1, <1>2

(***************************************************************************)
(* No string is freed twice or used after it, callbacks reach the camera's *)
(* own user, and the vendor's device is open exactly while the wrapper's   *)
(* is, for any number of cameras opened one at a time.                     *)
(***************************************************************************)
THEOREM CameraCorrect == NoBlockIsApart /\ CameraSpec => []CameraIsServed
<1>1. CameraInv => CameraIsServed
  BY DEF CameraInv, DevicesAgree, Alone, HeldIsOwn, CameraIsServed
<1>2. NoBlockIsApart => NoBlockIsApart'
  BY DEF NoBlockIsApart
<1> QED
  BY <1>1, <1>2, InitServes, NextServes, PTL DEF CameraSpec

-----------------------------------------------------------------------------
\* The linked list.

\* Null is not an address.
ListApart == Room \in Nat /\ Null \notin Addresses

Links == Addresses \union {Null}
ListType ==
    /\ p_head \in Links /\ p_tail \in Links
    /\ next \in [Addresses -> Links] /\ prev \in [Addresses -> Links]
    /\ data_ptr \in [Addresses -> Pointers \union {Null}]
    /\ allocated \subseteq Addresses

(***************************************************************************)
(* The walk is a constant here: the proof of a step names the walk that    *)
(* the step leaves behind, and OneWalk says that From finds no other.      *)
(***************************************************************************)
ListInv == ListType /\ \E w \in Walks : Agree(w) /\ IsInjective(w)

\* What it is to be a walk, from the definitions of sequences.
LEMMA WalksAre ==
  ASSUME ListApart
  PROVE  /\ \A w \in Walks : /\ w \in Seq(Addresses) /\ Len(w) \in 0 .. Room /\ DOMAIN w = 1 .. Len(w)
                             /\ \A i \in 1 .. Len(w) : w[i] \in Addresses
         /\ \A n \in 0 .. Room : \A w \in [1 .. n -> Addresses] : w \in Walks /\ Len(w) = n
<1>1. ASSUME NEW n \in 0 .. Room, NEW w \in [1 .. n -> Addresses]
      PROVE  /\ w \in Seq(Addresses) /\ Len(w) = n /\ DOMAIN w = 1 .. n
             /\ \A i \in 1 .. n : w[i] \in Addresses
  BY DEF ListApart
<1>2. \A n \in 0 .. Room : \A w \in [1 .. n -> Addresses] : w \in Walks
  BY DEF Walks
<1>3. \A w \in Walks : \E n \in 0 .. Room : w \in [1 .. n -> Addresses]
  BY DEF Walks
<1> QED BY <1>1, <1>2, <1>3

\* A set of naturals has a least member.
LEMMA LeastOf ==
  ASSUME NEW T \in SUBSET Nat, T # {}
  PROVE  \E x \in T : \A y \in T : ~(y < x)
<1> DEFINE U == {0 .. k : k \in T}
           R == StrictSubsetOrdering(Nat)
           F == FiniteSubsetsOf(Nat)
<1>1. IsWellFoundedOn(R, F)
  BY FS_StrictSubsetOrderingWellFounded
<1>2. U \subseteq F
  <2> SUFFICES ASSUME NEW k \in T PROVE 0 .. k \in F
    OBVIOUS
  <2>1. IsFiniteSet(0 .. k)
    BY FS_Interval
  <2> QED BY <2>1 DEF FiniteSubsetsOf
<1>3. U # {}
  OBVIOUS
<1>4. PICK u \in U : \A v \in U : ~(<<v, u>> \in R)
  <2> HIDE DEF R, F, U
  <2> QED BY <1>1, <1>2, <1>3, WFMin
<1>5. PICK x \in T : u = 0 .. x
  OBVIOUS
<1>6. ASSUME NEW y \in T, y < x PROVE FALSE
  <2>1. 0 .. y \in U
    OBVIOUS
  <2>2. x \in 0 .. x /\ x \notin 0 .. y
    BY <1>6
  <2>3. 0 .. y \subseteq 0 .. x /\ 0 .. y # 0 .. x
    BY <1>6, <2>2
  <2>4. <<0 .. y, 0 .. x>> \in R
    BY <2>3 DEF StrictSubsetOrdering
  <2> QED BY <1>4, <1>5, <2>1, <2>4
<1> QED BY <1>6

\* There is one walk at most: two that differ would differ first somewhere.
LEMMA OneWalk ==
  ASSUME ListApart, NEW head, NEW links, NEW w \in Walks, NEW v \in Walks,
         IsWalk(w, head, links), IsWalk(v, head, links)
  PROVE  w = v
<1>1. ASSUME NEW p \in Walks, NEW q \in Walks, IsWalk(p, head, links), IsWalk(q, head, links)
      PROVE  \A i \in 1 .. Len(p) : i \in 1 .. Len(q) /\ q[i] = p[i]
  <2> DEFINE T == {i \in 1 .. Len(p) : ~(i \in 1 .. Len(q) /\ q[i] = p[i])}
  <2>0. /\ Len(p) \in Nat /\ DOMAIN p = 1 .. Len(p) /\ (\A i \in 1 .. Len(p) : p[i] # Null)
        /\ Len(q) \in Nat /\ DOMAIN q = 1 .. Len(q) /\ (\A i \in 1 .. Len(q) : q[i] # Null)
        /\ p \in Seq(Addresses) /\ q \in Seq(Addresses)
    BY WalksAre DEF ListApart
  <2> SUFFICES ASSUME T # {} PROVE FALSE
    OBVIOUS
  <2>1. T \in SUBSET Nat
    BY <2>0
  <2>2. PICK i \in T : \A j \in T : ~(j < i)
    <3> HIDE DEF T
    <3> QED BY <2>1, LeastOf
  <2>3. CASE i = 1
    <3>1. p # <<>> /\ head = p[1] /\ head # Null
      BY <1>1, <2>0, <2>2, <2>3 DEF IsWalk
    <3>2. q # <<>> /\ head = q[1]
      BY <1>1, <3>1 DEF IsWalk
    <3>3. 1 \in 1 .. Len(q)
      BY <2>0, <3>2, EmptySeq
    <3> QED BY <2>2, <2>3, <3>1, <3>2, <3>3
  <2>4. CASE i # 1
    <3>1. i - 1 \in 1 .. Len(p) /\ i - 1 < i /\ i - 1 # Len(p)
      BY <2>0, <2>2, <2>4
    <3>2. i - 1 \in 1 .. Len(q) /\ q[i - 1] = p[i - 1]
      BY <2>2, <3>1
    <3>3. links[p[i - 1]] = p[i] /\ p[i] # Null
      <4>1. links[p[i - 1]] = p[(i - 1) + 1]
        BY <1>1, <2>0, <3>1 DEF IsWalk
      <4>2. (i - 1) + 1 = i /\ i \in 1 .. Len(p)
        BY <2>2
      <4> QED BY <2>0, <4>1, <4>2
    <3>4. links[q[i - 1]] = IF i - 1 = Len(q) THEN Null ELSE q[(i - 1) + 1]
      BY <1>1, <2>0, <3>2 DEF IsWalk
    <3>5. i - 1 # Len(q) /\ q[i] = p[i]
      BY <2>2, <3>2, <3>3, <3>4
    <3> QED BY <2>0, <2>2, <3>2, <3>5
  <2> QED BY <2>3, <2>4
<1>2. /\ w \in Seq(Addresses) /\ v \in Seq(Addresses) /\ Len(w) \in Nat /\ Len(v) \in Nat
  BY WalksAre
<1>3. /\ \A i \in 1 .. Len(w) : i \in 1 .. Len(v) /\ v[i] = w[i]
      /\ \A i \in 1 .. Len(v) : i \in 1 .. Len(w)
  BY <1>1
<1>4. Len(w) = Len(v)
  BY <1>2, <1>3
<1> QED BY <1>2, <1>3, <1>4, SeqEqual

\* From finds the walk that there is.
LEMMA FromIs ==
  ASSUME ListApart, NEW head, NEW links, NEW w \in Walks, IsWalk(w, head, links)
  PROVE  From(head, links) = w
<1>1. CASE head = Null
  <2>1. w = <<>>
    <3> SUFFICES ASSUME w # <<>> PROVE FALSE
      OBVIOUS
    <3>1. 1 \in 1 .. Len(w)
      BY WalksAre, EmptySeq
    <3>2. w[1] \in Addresses
      BY <3>1, WalksAre
    <3> QED BY <1>1, <3>2 DEF IsWalk, ListApart
  <2> QED BY <1>1, <2>1 DEF From
<1>2. CASE head # Null
  <2>1. From(head, links) \in Walks /\ IsWalk(From(head, links), head, links)
    BY <1>2 DEF From
  <2> QED BY <2>1, OneWalk
<1> QED BY <1>1, <1>2

\* What a walk is, element by element.
LEMMA WalkHas ==
  ASSUME ListApart, NEW w \in Walks
  PROVE  /\ Len(w) \in Nat /\ Len(w) <= Room /\ DOMAIN w = 1 .. Len(w)
         /\ \A i \in 1 .. Len(w) : w[i] \in Addresses /\ w[i] # Null
         /\ w = <<>> <=> Len(w) = 0
         /\ Range(w) = {w[i] : i \in 1 .. Len(w)}
<1>1. w \in Seq(Addresses) /\ Len(w) \in Nat /\ Len(w) <= Room /\ DOMAIN w = 1 .. Len(w)
  BY WalksAre DEF ListApart
<1>2. \A i \in 1 .. Len(w) : w[i] \in Addresses /\ w[i] # Null
  BY WalksAre DEF ListApart
<1>3. w = <<>> <=> Len(w) = 0
  BY <1>1, EmptySeq
<1>4. Range(w) = {w[i] : i \in 1 .. Len(w)}
  BY <1>1 DEF Range
<1> QED BY <1>1, <1>2, <1>3, <1>4

\* The data of a walk is a sequence.
LEMMA DataIs ==
  ASSUME ListApart, NEW data \in [Addresses -> Pointers \union {Null}], NEW w \in Walks
  PROVE  LET d == [i \in DOMAIN w |-> data[w[i]]]
         IN  /\ d \in Seq(Pointers \union {Null}) /\ Len(d) = Len(w) /\ DOMAIN d = 1 .. Len(w)
             /\ \A i \in 1 .. Len(w) : d[i] = data[w[i]]
<1> DEFINE d == [i \in DOMAIN w |-> data[w[i]]]
<1>1. Len(w) \in Nat /\ DOMAIN w = 1 .. Len(w) /\ \A i \in 1 .. Len(w) : w[i] \in Addresses
  BY WalkHas
<1>2. d \in [1 .. Len(w) -> Pointers \union {Null}]
  BY <1>1
<1>3. d \in Seq(Pointers \union {Null}) /\ Len(d) = Len(w) /\ DOMAIN d = 1 .. Len(w)
  <2> HIDE DEF d
  <2> QED BY <1>1, <1>2
<1>4. \A i \in 1 .. Len(w) : d[i] = data[w[i]]
  BY <1>1
<1> QED BY <1>3, <1>4

\* The elements are finitely many, as many as the walk is long.
LEMMA Counted ==
  ASSUME ListApart, ListType
  PROVE  /\ IsFiniteSet(allocated) /\ Cardinality(allocated) \in 0 .. Room
         /\ Cardinality(allocated) = Room <=> allocated = Addresses
<1>1. IsFiniteSet(Addresses) /\ Cardinality(Addresses) = Room
  BY FS_Interval DEF ListApart, Addresses
<1>2. allocated \in SUBSET Addresses
  BY DEF ListType
<1>3. IsFiniteSet(allocated) /\ Cardinality(allocated) <= Room /\ (Room = Cardinality(allocated) => Addresses = allocated)
  BY <1>1, <1>2, FS_Subset
<1>4. Cardinality(allocated) \in Nat
  BY <1>3, FS_CardinalityType
<1> QED BY <1>1, <1>3, <1>4 DEF ListApart

-----------------------------------------------------------------------------
\* An element is taken out of the k-th place, and its neighbours are linked.
Without(w, k) == [i \in 1 .. Len(w) - 1 |-> IF i < k THEN w[i] ELSE w[i + 1]]

LEMMA WithoutIs ==
  ASSUME ListApart, NEW w \in Walks, IsInjective(w), NEW k \in 1 .. Len(w)
  PROVE  /\ Without(w, k) \in Walks /\ IsInjective(Without(w, k))
         /\ Len(Without(w, k)) = Len(w) - 1
         /\ \A i \in 1 .. Len(w) - 1 : Without(w, k)[i] = IF i < k THEN w[i] ELSE w[i + 1]
         /\ Range(Without(w, k)) = Range(w) \ {w[k]}
<1> DEFINE v == Without(w, k)
<1>0. Len(w) \in Nat /\ k \in Nat /\ 1 <= k /\ k <= Len(w)
  BY WalkHas
<1>1. /\ Len(w) \in Nat /\ Len(w) <= Room /\ DOMAIN w = 1 .. Len(w) /\ Room \in Nat
      /\ \A i \in 1 .. Len(w) : w[i] \in Addresses
      /\ Range(w) = {w[i] : i \in 1 .. Len(w)}
  BY WalkHas DEF ListApart
<1>2. \A i, j \in 1 .. Len(w) : w[i] = w[j] => i = j
  BY <1>1 DEF IsInjective
<1>3. \A i \in 1 .. Len(w) - 1 : v[i] = IF i < k THEN w[i] ELSE w[i + 1]
  BY DEF Without
<1>4. DOMAIN v = 1 .. Len(w) - 1 /\ v \in [1 .. Len(w) - 1 -> Addresses]
  BY <1>1 DEF Without
<1>5. Len(w) - 1 \in 0 .. Room
  BY <1>1
<1> HIDE DEF v
<1>6. v \in Walks /\ Len(v) = Len(w) - 1
  BY <1>4, <1>5, WalksAre
<1>7. IsInjective(v)
  <2> SUFFICES ASSUME NEW i \in DOMAIN v, NEW j \in DOMAIN v, v[i] = v[j] PROVE i = j
    BY DEF IsInjective
  <2>1. i + 1 \in 1 .. Len(w) /\ j + 1 \in 1 .. Len(w) /\ i \in 1 .. Len(w) /\ j \in 1 .. Len(w)
    BY <1>1, <1>4
  <2>2. /\ v[i] = IF i < k THEN w[i] ELSE w[i + 1]
        /\ v[j] = IF j < k THEN w[j] ELSE w[j + 1]
    BY <1>3, <1>4
  <2>3. CASE i < k /\ j < k
    BY <1>2, <2>1, <2>2, <2>3
  <2>4. CASE ~(i < k) /\ ~(j < k)
    <3>1. w[i + 1] = w[j + 1]
      BY <2>2, <2>4
    <3>2. i + 1 = j + 1
      BY <1>2, <2>1, <3>1
    <3> QED BY <2>1, <3>2
  <2>5. CASE i < k /\ ~(j < k)
    <3>1. i # j + 1
      BY <1>0, <2>1, <2>5
    <3>2. w[i] = w[j + 1]
      BY <2>2, <2>5
    <3> QED BY <1>2, <2>1, <3>1, <3>2
  <2>6. CASE ~(i < k) /\ j < k
    <3>1. i + 1 # j
      BY <1>0, <2>1, <2>6
    <3>2. w[i + 1] = w[j]
      BY <2>2, <2>6
    <3> QED BY <1>2, <2>1, <3>1, <3>2
  <2> QED BY <2>3, <2>4, <2>5, <2>6
<1>8. Range(v) = Range(w) \ {w[k]}
  <2>1. ASSUME NEW i \in 1 .. Len(w) - 1 PROVE v[i] \in Range(w) \ {w[k]}
    <3>1. i + 1 \in 1 .. Len(w) /\ i \in 1 .. Len(w)
      BY <1>1
    <3> QED BY <1>1, <1>2, <1>3, <3>1
  <2>2. ASSUME NEW i \in 1 .. Len(w), w[i] # w[k] PROVE \E j \in 1 .. Len(w) - 1 : v[j] = w[i]
    <3>1. CASE i < k
      <4>1. i \in 1 .. Len(w) - 1 /\ v[i] = w[i]
        BY <1>1, <1>3, <3>1
      <4> QED BY <4>1
    <3>2. CASE ~(i < k)
      <4>1. i - 1 \in 1 .. Len(w) - 1 /\ ~(i - 1 < k) /\ (i - 1) + 1 = i
        BY <1>1, <2>2, <3>2
      <4>2. v[i - 1] = w[(i - 1) + 1]
        BY <1>3, <4>1
      <4> QED BY <4>1, <4>2
    <3> QED BY <3>1, <3>2
  <2>3. Range(v) = {v[i] : i \in 1 .. Len(w) - 1}
    BY <1>4 DEF Range
  <2> QED BY <1>1, <2>1, <2>2, <2>3
<1> QED BY <1>3, <1>6, <1>7, <1>8 DEF v

\* Which fields an unlinked element leaves behind, whatever way it is taken.
TakesOut(e) ==
    /\ p_head' = IF prev[e] = Null THEN next[e] ELSE p_head
    /\ p_tail' = IF next[e] = Null THEN prev[e] ELSE p_tail
    /\ \A a \in Addresses \ {e} : /\ next'[a] = IF a = prev[e] THEN next[e] ELSE next[a]
                                  /\ prev'[a] = IF a = next[e] THEN prev[e] ELSE prev[a]
    /\ allocated' = allocated \ {e}

\* The links agree on what is left, whichever place the element had.
LEMMA TakenOut ==
  ASSUME ListApart, ListType, NEW w \in Walks, Agree(w), IsInjective(w),
         NEW k \in 1 .. Len(w), TakesOut(w[k])
  PROVE  Agree(Without(w, k))'
<1> DEFINE e == w[k]
           n == Len(w)
           v == Without(w, k)
<1>0. n \in Nat /\ k \in Nat /\ 1 <= k /\ k <= n
  BY WalkHas
<1>1. /\ n \in Nat /\ DOMAIN w = 1 .. n /\ k \in 1 .. n /\ (w = <<>> <=> n = 0)
      /\ \A i \in 1 .. n : w[i] \in Addresses /\ w[i] # Null
  BY WalkHas
<1>2. \A i, j \in 1 .. n : w[i] = w[j] => i = j
  BY <1>1 DEF IsInjective
<1>3. /\ v \in Walks /\ Len(v) = n - 1 /\ Range(v) = Range(w) \ {e} /\ DOMAIN v = 1 .. n - 1
      /\ \A i \in 1 .. n - 1 : v[i] = IF i < k THEN w[i] ELSE w[i + 1]
      /\ v = <<>> <=> n - 1 = 0
  <2>1. /\ v \in Walks /\ Len(v) = n - 1 /\ Range(v) = Range(w) \ {e}
        /\ \A i \in 1 .. n - 1 : v[i] = IF i < k THEN w[i] ELSE w[i + 1]
    BY WithoutIs
  <2> HIDE DEF v
  <2> QED BY <2>1, WalkHas
<1>4. \A i \in 1 .. n : /\ next[w[i]] = IF i = n THEN Null ELSE w[i + 1]
                        /\ prev[w[i]] = IF i = 1 THEN Null ELSE w[i - 1]
  BY <1>1 DEF Agree, IsWalk
<1>5. p_head = w[1] /\ p_tail = w[n]
  BY <1>1 DEF Agree, IsWalk
<1>6. /\ prev[e] = IF k = 1 THEN Null ELSE w[k - 1]
      /\ next[e] = IF k = n THEN Null ELSE w[k + 1]
  BY <1>1, <1>4
<1>7. \A i \in 1 .. n : i # k => /\ next'[w[i]] = IF i = k - 1 THEN next[e] ELSE next[w[i]]
                                 /\ prev'[w[i]] = IF i = k + 1 THEN prev[e] ELSE prev[w[i]]
  <2> SUFFICES ASSUME NEW i \in 1 .. n, i # k
               PROVE  /\ next'[w[i]] = IF i = k - 1 THEN next[e] ELSE next[w[i]]
                      /\ prev'[w[i]] = IF i = k + 1 THEN prev[e] ELSE prev[w[i]]
    OBVIOUS
  <2>1. w[i] \in Addresses \ {e}
    BY <1>1, <1>2
  <2>2. w[i] = prev[e] <=> i = k - 1
    <3>1. CASE k = 1
      BY <1>1, <1>6, <3>1
    <3>2. CASE k # 1
      <4>1. k - 1 \in 1 .. n
        BY <1>0, <3>2
      <4>2. prev[e] = w[k - 1]
        BY <1>6, <3>2
      <4> QED BY <1>2, <4>1, <4>2
    <3> QED BY <3>1, <3>2
  <2>3. w[i] = next[e] <=> i = k + 1
    <3>1. CASE k = n
      <4>1. i # k + 1
        BY <1>0, <3>1
      <4>2. next[e] = Null /\ w[i] # Null
        BY <1>1, <1>6, <3>1
      <4> QED BY <4>1, <4>2
    <3>2. CASE k # n
      <4>1. k + 1 \in 1 .. n
        BY <1>0, <3>2
      <4>2. next[e] = w[k + 1]
        BY <1>6, <3>2
      <4> QED BY <1>2, <4>1, <4>2
    <3> QED BY <3>1, <3>2
  <2> QED BY <2>1, <2>2, <2>3 DEF TakesOut
<1> HIDE DEF v, n, e
<1>8. p_head' = IF v = <<>> THEN Null ELSE v[1]
  <2>1. CASE k = 1
    <3>1. p_head' = next[e]
      BY <1>6, <2>1 DEF TakesOut, e
    <3>2. CASE n = 1
      BY <1>3, <1>6, <2>1, <3>1, <3>2
    <3>3. CASE n # 1
      <4>1. 1 \in 1 .. n - 1 /\ v[1] = w[1 + 1] /\ next[e] = w[1 + 1] /\ v # <<>>
        BY <1>1, <1>3, <1>6, <2>1, <3>3
      <4> QED BY <3>1, <4>1
    <3> QED BY <3>2, <3>3
  <2>2. CASE k # 1
    <3>1. k - 1 \in 1 .. n /\ 1 \in 1 .. n - 1 /\ 1 < k
      BY <1>0, <2>2
    <3>2. prev[e] # Null
      BY <1>1, <1>6, <2>2, <3>1
    <3>3. v[1] = w[1] /\ v # <<>>
      BY <1>3, <3>1
    <3> QED BY <1>5, <3>2, <3>3 DEF TakesOut, e
  <2> QED BY <2>1, <2>2
<1>9. p_tail' = IF v = <<>> THEN Null ELSE v[n - 1]
  <2>1. CASE k = n
    <3>1. p_tail' = prev[e]
      BY <1>6, <2>1 DEF TakesOut, e
    <3>2. CASE n = 1
      BY <1>3, <1>6, <2>1, <3>1, <3>2
    <3>3. CASE n # 1
      <4>1. n - 1 \in 1 .. n - 1 /\ n - 1 < k
        BY <1>0, <2>1, <3>3
      <4>2. v[n - 1] = w[n - 1] /\ prev[e] = w[n - 1] /\ v # <<>>
        BY <1>1, <1>3, <1>6, <2>1, <3>3, <4>1
      <4> QED BY <3>1, <4>2
    <3> QED BY <3>2, <3>3
  <2>2. CASE k # n
    <3>1. k + 1 \in 1 .. n /\ n - 1 \in 1 .. n - 1 /\ ~(n - 1 < k) /\ (n - 1) + 1 = n
      BY <1>0, <2>2
    <3>2. next[e] # Null
      BY <1>1, <1>6, <2>2, <3>1
    <3>3. v[n - 1] = w[(n - 1) + 1] /\ v # <<>>
      BY <1>3, <3>1
    <3>4. v[n - 1] = w[n]
      BY <3>1, <3>3
    <3> QED BY <1>5, <3>2, <3>4, <3>3 DEF TakesOut, e
  <2> QED BY <2>1, <2>2
<1>10. ASSUME NEW i \in 1 .. n - 1
       PROVE  /\ next'[v[i]] = IF i = n - 1 THEN Null ELSE v[i + 1]
              /\ prev'[v[i]] = IF i = 1 THEN Null ELSE v[i - 1]
  <2>1. i \in 1 .. n /\ i + 1 \in 1 .. n
    BY <1>0
  <2>2. i # n - 1 => i + 1 \in 1 .. n - 1 /\ i + 2 \in 1 .. n /\ (i + 1) + 1 = i + 2
    BY <1>0
  <2>3. i # 1 => i - 1 \in 1 .. n - 1 /\ (i - 1) + 1 = i
    BY <1>0
  <2>4. v[i] = IF i < k THEN w[i] ELSE w[i + 1]
    BY <1>3
  <2>5. i # n - 1 => v[i + 1] = IF i + 1 < k THEN w[i + 1] ELSE w[i + 2]
    BY <1>3, <2>2
  <2>6. i # 1 => v[i - 1] = IF i - 1 < k THEN w[i - 1] ELSE w[i]
    BY <1>3, <2>3
  <2>7. CASE i < k
    <3>1. /\ next'[w[i]] = IF i = k - 1 THEN next[e] ELSE next[w[i]]
          /\ prev'[w[i]] = IF i = k + 1 THEN prev[e] ELSE prev[w[i]]
      BY <1>7, <2>1, <2>7
    <3>2. /\ next[w[i]] = w[i + 1]
          /\ prev[w[i]] = IF i = 1 THEN Null ELSE w[i - 1]
      <4>1. i # n
        BY <1>0, <2>7
      <4> QED BY <1>4, <2>1, <4>1
    <3>3. next'[w[i]] = IF i = n - 1 THEN Null ELSE v[i + 1]
      <4>1. CASE i = k - 1
        <5>1. next'[w[i]] = IF k = n THEN Null ELSE w[k + 1]
          BY <1>6, <3>1, <4>1
        <5>2. (k = n <=> i = n - 1) /\ ~(i + 1 < k) /\ i + 2 = k + 1
          BY <1>0, <4>1
        <5> QED BY <2>5, <5>1, <5>2
      <4>2. CASE i # k - 1
        <5>1. i + 1 < k /\ i # n - 1
          BY <1>0, <2>7, <4>2
        <5> QED BY <2>5, <3>1, <3>2, <4>2, <5>1
      <4> QED BY <4>1, <4>2
    <3>4. prev'[w[i]] = IF i = 1 THEN Null ELSE v[i - 1]
      <4>1. i # k + 1 /\ i - 1 < k
        BY <1>0, <2>7
      <4> QED BY <2>6, <3>1, <3>2, <4>1
    <3> QED BY <2>4, <2>7, <3>3, <3>4
  <2>8. CASE ~(i < k)
    <3>1. /\ next'[w[i + 1]] = IF i + 1 = k - 1 THEN next[e] ELSE next[w[i + 1]]
          /\ prev'[w[i + 1]] = IF i + 1 = k + 1 THEN prev[e] ELSE prev[w[i + 1]]
      <4>1. i + 1 # k
        BY <1>0, <2>8
      <4> QED BY <1>7, <2>1, <4>1
    <3>2. /\ next[w[i + 1]] = IF i + 1 = n THEN Null ELSE w[i + 2]
          /\ prev[w[i + 1]] = w[i]
      <4>1. /\ next[w[i + 1]] = IF i + 1 = n THEN Null ELSE w[(i + 1) + 1]
            /\ prev[w[i + 1]] = IF i + 1 = 1 THEN Null ELSE w[(i + 1) - 1]
        BY <1>4, <2>1
      <4>2. (i + 1) + 1 = i + 2 /\ (i + 1) - 1 = i /\ i + 1 # 1
        BY <2>1
      <4> QED BY <4>1, <4>2
    <3>3. next'[w[i + 1]] = IF i = n - 1 THEN Null ELSE v[i + 1]
      <4>1. i + 1 # k - 1 /\ ~(i + 1 < k) /\ (i + 1 = n <=> i = n - 1)
        BY <1>0, <2>8
      <4> QED BY <2>5, <3>1, <3>2, <4>1
    <3>4. prev'[w[i + 1]] = IF i = 1 THEN Null ELSE v[i - 1]
      <4>1. CASE i = k
        <5>1. prev'[w[i + 1]] = IF k = 1 THEN Null ELSE w[k - 1]
          BY <1>6, <3>1, <4>1
        <5> QED BY <1>1, <2>6, <4>1, <5>1
      <4>2. CASE i # k
        <5>1. i + 1 # k + 1 /\ ~(i - 1 < k) /\ i # 1
          BY <1>0, <2>8, <4>2
        <5> QED BY <2>6, <3>1, <3>2, <5>1
      <4> QED BY <4>1, <4>2
    <3> QED BY <2>4, <2>8, <3>3, <3>4
  <2> QED BY <2>7, <2>8
<1>11. Range(v) = allocated' /\ Len(v) = Cardinality(allocated')
  <2>1. Range(w) = allocated /\ n = Cardinality(allocated) /\ IsFiniteSet(allocated)
    BY Counted DEF Agree, n
  <2>2. e \in allocated
    BY <1>1, <2>1, WalkHas DEF e, n
  <2>3. Cardinality(allocated \ {e}) = n - 1
    BY <2>1, <2>2, FS_RemoveElement
  <2> QED BY <1>3, <2>1, <2>3 DEF TakesOut, e
<1> QED BY <1>1, <1>3, <1>8, <1>9, <1>10, <1>11 DEF Agree, IsWalk, v, n

\* An element is put before the first.
Before(w, e) == [i \in 1 .. Len(w) + 1 |-> IF i = 1 THEN e ELSE w[i - 1]]

LEMMA BeforeIs ==
  ASSUME ListApart, NEW w \in Walks, IsInjective(w), NEW e \in Addresses \ Range(w), Len(w) < Room
  PROVE  /\ Before(w, e) \in Walks /\ IsInjective(Before(w, e))
         /\ Len(Before(w, e)) = Len(w) + 1
         /\ Before(w, e)[1] = e /\ \A i \in 1 .. Len(w) : Before(w, e)[i + 1] = w[i]
         /\ Range(Before(w, e)) = Range(w) \union {e}
<1> DEFINE v == Before(w, e)
<1>0. Len(w) \in Nat /\ Room \in Nat
  BY WalkHas DEF ListApart
<1>1. /\ DOMAIN w = 1 .. Len(w)
      /\ \A i \in 1 .. Len(w) : w[i] \in Addresses /\ w[i] # e
      /\ Range(w) = {w[i] : i \in 1 .. Len(w)}
  BY WalkHas
<1>2. \A i, j \in 1 .. Len(w) : w[i] = w[j] => i = j
  BY <1>1 DEF IsInjective
<1>3. \A i \in 1 .. Len(w) + 1 : v[i] = IF i = 1 THEN e ELSE w[i - 1]
  BY DEF Before
<1>4. DOMAIN v = 1 .. Len(w) + 1 /\ v \in [1 .. Len(w) + 1 -> Addresses]
  BY <1>0, <1>1 DEF Before
<1>5. Len(w) + 1 \in 0 .. Room
  BY <1>0
<1> HIDE DEF v
<1>6. v \in Walks /\ Len(v) = Len(w) + 1
  BY <1>4, <1>5, WalksAre
<1>7. v[1] = e /\ \A i \in 1 .. Len(w) : v[i + 1] = w[i]
  <2>1. 1 \in 1 .. Len(w) + 1
    BY <1>0
  <2>2. \A i \in 1 .. Len(w) : i + 1 \in 1 .. Len(w) + 1 /\ i + 1 # 1 /\ (i + 1) - 1 = i
    BY <1>0
  <2> QED BY <1>3, <2>1, <2>2
<1>8. \A i \in 1 .. Len(w) + 1 : i # 1 => i - 1 \in 1 .. Len(w) /\ v[i] = w[i - 1]
  BY <1>0, <1>3
<1>9. IsInjective(v)
  <2> SUFFICES ASSUME NEW i \in DOMAIN v, NEW j \in DOMAIN v, v[i] = v[j] PROVE i = j
    BY DEF IsInjective
  <2>1. CASE i = 1 /\ j # 1
    BY <1>1, <1>4, <1>7, <1>8, <2>1
  <2>2. CASE i # 1 /\ j = 1
    BY <1>1, <1>4, <1>7, <1>8, <2>2
  <2>3. CASE i # 1 /\ j # 1
    <3>1. i - 1 = j - 1
      BY <1>2, <1>4, <1>8, <2>3
    <3>2. i \in Int /\ j \in Int
      BY <1>0, <1>4
    <3> QED BY <3>1, <3>2
  <2> QED BY <2>1, <2>2, <2>3
<1>10. Range(v) = Range(w) \union {e}
  <2>1. \A i \in 1 .. Len(w) : i + 1 \in 1 .. Len(w) + 1
    BY <1>0
  <2>2. 1 \in 1 .. Len(w) + 1
    BY <1>0
  <2>3. Range(v) = {v[i] : i \in 1 .. Len(w) + 1}
    BY <1>4 DEF Range
  <2> QED BY <1>1, <1>7, <1>8, <2>1, <2>2, <2>3
<1> QED BY <1>6, <1>7, <1>9, <1>10 DEF v

\* linked_list_add links e before the head.
LEMMA PutBefore ==
  ASSUME ListApart, ListType, NEW w \in Walks, Agree(w), IsInjective(w), allocated # Addresses,
         NEW e \in Addresses \ allocated,
         allocated' = allocated \union {e}, p_head' = e, next' = [next EXCEPT ![e] = p_head],
         prev' = [a \in Addresses |-> CASE a = e -> Null [] a = p_head -> e [] OTHER -> prev[a]],
         p_tail' = IF p_head = Null THEN e ELSE p_tail
  PROVE  Len(w) < Room /\ Agree(Before(w, e))'
<1> DEFINE v == Before(w, e)
<1>0. /\ Range(w) = allocated /\ Len(w) = Cardinality(allocated) /\ IsFiniteSet(allocated)
      /\ Len(w) \in Nat /\ Len(w) < Room /\ Room \in Nat
  BY Counted DEF Agree, ListApart
<1>1. /\ DOMAIN w = 1 .. Len(w) /\ (w = <<>> <=> Len(w) = 0)
      /\ \A i \in 1 .. Len(w) : w[i] \in Addresses /\ w[i] # Null /\ w[i] # e
  <2>1. \A i \in 1 .. Len(w) : w[i] \in Range(w)
    BY WalkHas
  <2> QED BY <1>0, <2>1, WalkHas
<1>2. \A i, j \in 1 .. Len(w) : w[i] = w[j] => i = j
  BY <1>1 DEF IsInjective
<1>3. /\ v \in Walks /\ Len(v) = Len(w) + 1 /\ DOMAIN v = 1 .. Len(w) + 1 /\ v # <<>>
      /\ v[1] = e /\ (\A i \in 1 .. Len(w) : v[i + 1] = w[i])
      /\ Range(v) = Range(w) \union {e}
  <2>1. /\ v \in Walks /\ Len(v) = Len(w) + 1
        /\ v[1] = e /\ (\A i \in 1 .. Len(w) : v[i + 1] = w[i])
        /\ Range(v) = Range(w) \union {e}
    BY <1>0, BeforeIs
  <2> HIDE DEF v
  <2>2. DOMAIN v = 1 .. Len(w) + 1 /\ (v = <<>> <=> Len(v) = 0)
    BY <2>1, WalkHas
  <2> QED BY <1>0, <2>1, <2>2
<1> HIDE DEF v
<1>4. /\ p_head = IF Len(w) = 0 THEN Null ELSE w[1]
      /\ p_tail = IF Len(w) = 0 THEN Null ELSE w[Len(w)]
      /\ \A i \in 1 .. Len(w) : /\ next[w[i]] = IF i = Len(w) THEN Null ELSE w[i + 1]
                                /\ prev[w[i]] = IF i = 1 THEN Null ELSE w[i - 1]
  BY <1>1 DEF Agree, IsWalk
<1>5. \A i \in 1 .. Len(w) : /\ next'[w[i]] = IF i = Len(w) THEN Null ELSE w[i + 1]
                            /\ prev'[w[i]] = IF i = 1 THEN e ELSE w[i - 1]
  <2> SUFFICES ASSUME NEW i \in 1 .. Len(w)
               PROVE  /\ next'[w[i]] = IF i = Len(w) THEN Null ELSE w[i + 1]
                      /\ prev'[w[i]] = IF i = 1 THEN e ELSE w[i - 1]
    OBVIOUS
  <2>1. next'[w[i]] = next[w[i]]
    BY <1>1 DEF ListType
  <2>2. w[i] = p_head <=> i = 1
    <3>1. 1 \in 1 .. Len(w) /\ Len(w) # 0
      BY <1>0
    <3> QED BY <1>2, <1>4, <3>1
  <2>3. prev'[w[i]] = IF w[i] = p_head THEN e ELSE prev[w[i]]
    BY <1>1
  <2> QED BY <1>4, <2>1, <2>2, <2>3
<1>6. next'[e] = (IF Len(w) = 0 THEN Null ELSE w[1]) /\ prev'[e] = Null
  <2>1. next'[e] = p_head
    BY DEF ListType
  <2>2. e # p_head
    <3>1. Len(w) # 0 => 1 \in 1 .. Len(w)
      BY <1>0
    <3> QED BY <1>1, <1>4, <3>1 DEF ListApart
  <2>3. prev'[e] = Null
    BY <2>2
  <2> QED BY <1>4, <2>1, <2>3
<1>7. p_tail' = v[Len(w) + 1]
  <2>1. CASE Len(w) = 0
    BY <1>3, <1>4, <2>1
  <2>2. CASE Len(w) # 0
    <3>1. Len(w) \in 1 .. Len(w) /\ 1 \in 1 .. Len(w)
      BY <1>0, <2>2
    <3>2. p_head # Null
      BY <1>1, <1>4, <2>2, <3>1
    <3> QED BY <1>3, <1>4, <2>2, <3>1, <3>2
  <2> QED BY <2>1, <2>2
<1>8. ASSUME NEW i \in 1 .. Len(w) + 1
      PROVE  /\ next'[v[i]] = IF i = Len(w) + 1 THEN Null ELSE v[i + 1]
             /\ prev'[v[i]] = IF i = 1 THEN Null ELSE v[i - 1]
  <2>1. CASE i = 1
    <3>1. CASE Len(w) = 0
      BY <1>3, <1>6, <2>1, <3>1
    <3>2. CASE Len(w) # 0
      <4>1. 1 \in 1 .. Len(w) /\ 1 # Len(w) + 1
        BY <1>0, <3>2
      <4> QED BY <1>3, <1>6, <2>1, <3>2, <4>1
    <3> QED BY <3>1, <3>2
  <2>2. CASE i # 1
    <3> DEFINE j == i - 1
    <3>1. j \in 1 .. Len(w) /\ j + 1 = i /\ (i = Len(w) + 1 <=> j = Len(w)) /\ j \in Int
      BY <1>0, <2>2
    <3> HIDE DEF j
    <3>2. v[i] = w[j]
      BY <1>3, <3>1
    <3>3. j # Len(w) => v[i + 1] = w[j + 1]
      <4>1. j # Len(w) => j + 1 \in 1 .. Len(w)
        BY <1>0, <3>1
      <4> QED BY <1>3, <3>1, <4>1
    <3>4. v[i - 1] = IF j = 1 THEN e ELSE w[j - 1]
      <4>1. j # 1 => j - 1 \in 1 .. Len(w) /\ (j - 1) + 1 = j
        BY <1>0, <3>1
      <4>2. i - 1 = j
        BY <3>1
      <4> QED BY <1>3, <4>1, <4>2
    <3> QED BY <1>5, <2>2, <3>1, <3>2, <3>3, <3>4
  <2> QED BY <2>1, <2>2
<1>9. Cardinality(allocated') = Len(w) + 1
  <2>1. IsFiniteSet(allocated) /\ e \notin allocated
    BY <1>0
  <2>2. Cardinality(allocated \union {e}) = Cardinality(allocated) + 1
    BY <2>1, FS_AddElement
  <2> QED BY <1>0, <2>2
<1>10. IsWalk(v, p_head', next')
  <2>1. p_head' = IF v = <<>> THEN Null ELSE v[1]
    BY <1>3
  <2>2. ASSUME NEW i \in DOMAIN v PROVE next'[v[i]] = IF i = Len(v) THEN Null ELSE v[i + 1]
    <3>1. i \in 1 .. Len(w) + 1 /\ Len(v) = Len(w) + 1
      BY <1>3
    <3> QED BY <1>8, <3>1
  <2> QED BY <2>1, <2>2 DEF IsWalk
<1>11. /\ Range(v) = allocated' /\ Len(v) = Cardinality(allocated')
       /\ p_tail' = IF v = <<>> THEN Null ELSE v[Len(v)]
       /\ \A i \in DOMAIN v : prev'[v[i]] = IF i = 1 THEN Null ELSE v[i - 1]
  BY <1>0, <1>3, <1>7, <1>8, <1>9
<1>12. Agree(v)'
  BY <1>10, <1>11 DEF Agree
<1> QED BY <1>0, <1>12 DEF v

-----------------------------------------------------------------------------
\* The walk from the head is the one that the invariant speaks of.
LEMMA Now ==
  ASSUME ListApart, ListInv
  PROVE  /\ ListType /\ Walk \in Walks /\ Agree(Walk) /\ IsInjective(Walk)
         /\ DataOn(Walk) \in Seq(Pointers \union {Null})
         /\ Len(DataOn(Walk)) = Len(Walk) /\ DOMAIN DataOn(Walk) = 1 .. Len(Walk)
         /\ \A i \in 1 .. Len(Walk) : DataOn(Walk)[i] = data_ptr[Walk[i]]
<1>1. PICK w \in Walks : Agree(w) /\ IsInjective(w)
  BY DEF ListInv
<1>2. Walk = w
  BY <1>1, FromIs DEF Walk, Agree
<1>3. ListType /\ Walk \in Walks /\ Agree(Walk) /\ IsInjective(Walk)
  BY <1>1, <1>2 DEF ListInv
<1> HIDE DEF Walk
<1>4. data_ptr \in [Addresses -> Pointers \union {Null}]
  BY <1>3 DEF ListType
<1> QED BY <1>3, <1>4, DataIs DEF DataOn

\* A walk that agrees after a step is the walk then.
LEMMA Then ==
  ASSUME ListApart, ListType', NEW w \in Walks, Agree(w)', IsInjective(w)
  PROVE  /\ ListInv' /\ Walk' = w
         /\ DataOn(Walk)' \in Seq(Pointers \union {Null})
         /\ Len(DataOn(Walk)') = Len(w)
         /\ \A i \in 1 .. Len(w) : DataOn(Walk)'[i] = data_ptr'[w[i]]
<1>1. Walk' = w
  <2>1. IsWalk(w, p_head', next')
    BY DEF Agree
  <2>2. From(p_head', next') = w
    BY <2>1, FromIs
  <2> QED BY <2>2 DEF Walk
<1>2. ListInv'
  BY DEF ListInv
<1>3. DataOn(Walk)' = [i \in DOMAIN w |-> data_ptr'[w[i]]]
  BY <1>1 DEF DataOn
<1>4. data_ptr' \in [Addresses -> Pointers \union {Null}]
  BY DEF ListType
<1> HIDE DEF Walk
<1> QED BY <1>1, <1>2, <1>3, <1>4, DataIs

\* What leaves the elements alone leaves the list alone.
LEMMA NothingTouched ==
  ASSUME ListInv, UNCHANGED fields
  PROVE  ListInv' /\ DataOn(Walk)' = DataOn(Walk)
<1>1. /\ p_head' = p_head /\ p_tail' = p_tail /\ next' = next /\ prev' = prev
      /\ data_ptr' = data_ptr /\ allocated' = allocated
  BY DEF fields
<1>2. Walk' = Walk
  BY <1>1 DEF Walk
<1> QED BY <1>1, <1>2 DEF ListInv, ListType, Agree, DataOn

LEMMA AddStep ==
  ASSUME ListApart, ListInv, NEW x \in Pointers, Add(x)
  PROVE  ListInv' /\ AbstractList!Add(x)
<1>0. PICK w \in Walks : w = Walk
  BY Now
<1>1. /\ ListType /\ w \in Walks /\ Agree(w) /\ IsInjective(w)
      /\ DataOn(w) \in Seq(Pointers \union {Null}) /\ Len(DataOn(w)) = Len(w)
      /\ \A i \in 1 .. Len(w) : DataOn(w)[i] = data_ptr[w[i]]
  BY <1>0, Now
<1>2. /\ Len(w) \in Nat /\ DOMAIN w = 1 .. Len(w) /\ Range(w) = {w[i] : i \in 1 .. Len(w)}
      /\ \A i \in 1 .. Len(w) : w[i] \in Addresses
  BY <1>1, WalkHas
<1>3. CASE allocated = Addresses
  <2>1. UNCHANGED fields /\ result' = <<"add", x, "failure">>
    BY <1>3 DEF Add
  <2>2. Len(w) = Room
    BY <1>1, <1>3, Counted DEF Agree
  <2>3. ~(Len(DataOn(w)) < Room)
    BY <1>1, <1>2, <2>2
  <2>4. ListInv' /\ DataOn(Walk)' = DataOn(Walk)
    BY <2>1, NothingTouched
  <2> QED BY <1>0, <2>1, <2>3, <2>4 DEF AbstractList!Add
<1>4. CASE allocated # Addresses
  <2>1. PICK e \in Addresses \ allocated :
             /\ allocated' = allocated \cup {e}
             /\ data_ptr' = [data_ptr EXCEPT ![e] = x]
             /\ p_head' = e
             /\ next' = [next EXCEPT ![e] = p_head]
             /\ prev' = [a \in Addresses |-> CASE a = e -> Null [] a = p_head -> e [] OTHER -> prev[a]]
             /\ p_tail' = IF p_head = Null THEN e ELSE p_tail
             /\ result' = <<"add", x, "success">>
    BY <1>4 DEF Add
  <2> DEFINE v == Before(w, e)
  <2>2. Len(w) < Room /\ Agree(v)'
    BY <1>1, <1>4, <2>1, PutBefore
  <2>3. e \notin Range(w)
    BY <1>1, <2>1 DEF Agree
  <2>4. /\ v \in Walks /\ IsInjective(v) /\ Len(v) = Len(w) + 1
        /\ v[1] = e /\ \A i \in 1 .. Len(w) : v[i + 1] = w[i]
    BY <1>1, <2>2, <2>3, BeforeIs
  <2> HIDE DEF v
  <2>5. ListType'
    <3>1. prev' \in [Addresses -> Links]
      <4>1. \A a \in Addresses : (CASE a = e -> Null [] a = p_head -> e [] OTHER -> prev[a]) \in Links
        BY <1>1 DEF ListType, Links
      <4> QED BY <2>1, <4>1
    <3> QED BY <1>1, <2>1, <3>1 DEF ListType, Links
  <2>6. /\ ListInv' /\ DataOn(Walk)' \in Seq(Pointers \union {Null})
        /\ Len(DataOn(Walk)') = Len(w) + 1
        /\ \A i \in 1 .. Len(w) + 1 : DataOn(Walk)'[i] = data_ptr'[v[i]]
    BY <2>2, <2>4, <2>5, Then
  <2>7. /\ <<x>> \in Seq(Pointers \union {Null}) /\ Len(<<x>>) = 1 /\ <<x>>[1] = x
    OBVIOUS
  <2> DEFINE d == DataOn(w)
             t == <<x>> \o d
  <2>8. /\ t \in Seq(Pointers \union {Null}) /\ Len(t) = 1 + Len(d)
        /\ \A i \in 1 .. 1 + Len(d) : t[i] = IF i <= 1 THEN <<x>>[i] ELSE d[i - 1]
    <3> HIDE DEF d
    <3>1. d \in Seq(Pointers \union {Null})
      BY <1>1 DEF d
    <3> QED BY <2>7, <3>1, ConcatProperties
  <2>9. Len(t) = Len(DataOn(Walk)')
    BY <1>1, <1>2, <2>6, <2>8
  <2>10. ASSUME NEW i \in 1 .. Len(DataOn(Walk)') PROVE DataOn(Walk)'[i] = t[i]
    <3>1. i \in 1 .. Len(w) + 1 /\ i \in 1 .. 1 + Len(d)
      BY <1>1, <1>2, <2>6
    <3>2. CASE i = 1
      <4>1. t[i] = x
        BY <2>7, <2>8, <3>1, <3>2
      <4>2. data_ptr'[e] = x
        BY <1>1, <2>1 DEF ListType
      <4> QED BY <2>4, <2>6, <3>1, <3>2, <4>1, <4>2
    <3>3. CASE i # 1
      <4>1. i - 1 \in 1 .. Len(w) /\ (i - 1) + 1 = i /\ ~(i <= 1)
        BY <1>2, <3>1, <3>3
      <4>2. v[i] = w[i - 1] /\ t[i] = d[i - 1] /\ d[i - 1] = data_ptr[w[i - 1]]
        BY <1>1, <2>4, <2>8, <3>1, <4>1
      <4>3. data_ptr'[w[i - 1]] = data_ptr[w[i - 1]]
        BY <1>1, <1>2, <2>1, <2>3, <4>1 DEF ListType
      <4> QED BY <2>6, <3>1, <4>2, <4>3
    <3> QED BY <3>2, <3>3
  <2>11. DataOn(Walk)' = t
    <3> HIDE DEF t
    <3> QED BY <2>6, <2>8, <2>9, <2>10, SeqEqual
  <2>12. Len(DataOn(Walk)) < Room
    BY <1>0, <1>1, <2>2
  <2> QED BY <1>0, <2>1, <2>6, <2>11, <2>12 DEF AbstractList!Add
<1> QED BY <1>3, <1>4

\* Element by element, or as ListOfPointers has it.
LEMMA AllBut ==
  ASSUME NEW S, NEW d \in Seq(S), NEW t \in Seq(S), NEW k \in 1 .. Len(d), Len(t) = Len(d) - 1,
         \A i \in 1 .. Len(t) : t[i] = IF i < k THEN d[i] ELSE d[i + 1]
  PROVE  /\ t = SubSeq(d, 1, k - 1) \o SubSeq(d, k + 1, Len(d))
         /\ k = Len(d) => t = SubSeq(d, 1, Len(d) - 1)
<1> DEFINE n == Len(d)
           a == SubSeq(d, 1, k - 1)
           b == SubSeq(d, k + 1, n)
<1>1. n \in Nat /\ k \in Nat /\ 1 <= k /\ k <= n /\ \A i \in 1 .. n : d[i] \in S
  OBVIOUS
<1> HIDE DEF n
<1>2. a \in Seq(S) /\ Len(a) = k - 1 /\ \A i \in 1 .. k - 1 : a[i] = d[i]
  <2>1. \A i \in 1 .. k - 1 : d[i] \in S
    BY <1>1
  <2>2. 1 \in Int /\ k - 1 \in Int /\ (k - 1) - 1 + 1 = k - 1
    BY <1>1
  <2>3. /\ a \in Seq(S) /\ Len(a) = IF 1 <= k - 1 THEN (k - 1) - 1 + 1 ELSE 0
        /\ \A i \in 1 .. (k - 1) - 1 + 1 : a[i] = d[1 + i - 1]
    BY <2>1, <2>2, SubSeqProperties
  <2> QED BY <1>1, <2>3
<1>3. b \in Seq(S) /\ Len(b) = n - k /\ \A i \in 1 .. n - k : b[i] = d[k + i]
  <2>1. \A i \in k + 1 .. n : d[i] \in S
    BY <1>1
  <2>2. k + 1 \in Int /\ n \in Int
    BY <1>1
  <2>3. /\ b \in Seq(S) /\ Len(b) = IF k + 1 <= n THEN n - (k + 1) + 1 ELSE 0
        /\ \A i \in 1 .. n - (k + 1) + 1 : b[i] = d[(k + 1) + i - 1]
    BY <2>1, <2>2, SubSeqProperties
  <2>4. n - (k + 1) + 1 = n - k /\ (~(k + 1 <= n) => n - k = 0)
    BY <1>1
  <2>5. \A i \in 1 .. n - k : (k + 1) + i - 1 = k + i
    BY <1>1
  <2>6. Len(b) = n - k
    BY <2>3, <2>4
  <2>7. \A i \in 1 .. n - k : b[i] = d[k + i]
    BY <2>3, <2>4, <2>5
  <2> HIDE DEF b
  <2> QED BY <2>3, <2>6, <2>7
<1> HIDE DEF a, b
<1>4. /\ a \o b \in Seq(S) /\ Len(a \o b) = Len(a) + Len(b)
      /\ \A i \in 1 .. Len(a) + Len(b) : (a \o b)[i] = IF i <= Len(a) THEN a[i] ELSE b[i - Len(a)]
  BY <1>2, <1>3, ConcatProperties
<1>5. Len(t) = n - 1 /\ Len(a \o b) = n - 1
  BY <1>1, <1>2, <1>3, <1>4 DEF n
<1>6. ASSUME NEW i \in 1 .. Len(t) PROVE t[i] = (a \o b)[i]
  <2>1. i \in 1 .. n - 1
    BY <1>5
  <2>2. CASE i < k
    <3>1. i \in 1 .. k - 1 /\ i <= Len(a) /\ i \in 1 .. Len(a) + Len(b)
      BY <1>1, <1>2, <1>3, <2>1, <2>2
    <3> QED BY <1>2, <1>4, <2>2, <3>1
  <2>3. CASE ~(i < k)
    <3>1. /\ i - (k - 1) \in 1 .. n - k /\ k + (i - (k - 1)) = i + 1
          /\ ~(i <= Len(a)) /\ i \in 1 .. Len(a) + Len(b)
      BY <1>1, <1>2, <1>3, <2>1, <2>3
    <3>2. (a \o b)[i] = b[i - (k - 1)]
      BY <1>2, <1>4, <3>1
    <3>3. b[i - (k - 1)] = d[i + 1]
      BY <1>3, <3>1
    <3> QED BY <2>3, <3>2, <3>3
  <2> QED BY <2>2, <2>3
<1>7. t = a \o b
  BY <1>4, <1>5, <1>6, SeqEqual
<1>8. ASSUME k = n PROVE t = SubSeq(d, 1, n - 1)
  <2> DEFINE f == SubSeq(d, 1, n - 1)
  <2>1. \A i \in 1 .. n - 1 : d[i] \in S
    BY <1>1
  <2>2. 1 \in Int /\ n - 1 \in Int
    BY <1>1
  <2>3. /\ f \in Seq(S) /\ Len(f) = IF 1 <= n - 1 THEN (n - 1) - 1 + 1 ELSE 0
        /\ \A i \in 1 .. (n - 1) - 1 + 1 : f[i] = d[1 + i - 1]
    BY <2>1, <2>2, SubSeqProperties
  <2> HIDE DEF f
  <2>4. Len(f) = n - 1 /\ \A i \in 1 .. n - 1 : f[i] = d[i]
    BY <1>1, <2>3
  <2>5. \A i \in 1 .. n - 1 : t[i] = d[i]
    BY <1>1, <1>5, <1>8
  <2>6. t = f
    BY <1>5, <2>3, <2>4, <2>5, SeqEqual
  <2> QED BY <2>6 DEF f
<1> QED BY <1>7, <1>8 DEF a, b, n

\* An element taken out is the data at its place taken out.
LEMMA TakingStep ==
  ASSUME ListApart, ListInv, ListType', NEW k \in 1 .. Len(Walk), TakesOut(Walk[k]), UNCHANGED data_ptr
  PROVE  /\ ListInv' /\ DataOn(Walk)' = AbstractList!RemoveAt(DataOn(Walk), k)
         /\ k = Len(Walk) => DataOn(Walk)' = AbstractList!Front(DataOn(Walk))
<1>0. PICK w \in Walks : w = Walk
  BY Now
<1>1. /\ ListType /\ Agree(w) /\ IsInjective(w) /\ k \in 1 .. Len(w)
      /\ DataOn(w) \in Seq(Pointers \union {Null}) /\ Len(DataOn(w)) = Len(w)
      /\ \A i \in 1 .. Len(w) : DataOn(w)[i] = data_ptr[w[i]]
  BY <1>0, Now
<1>2. PICK j \in 1 .. Len(w) : j = k
  BY <1>1
<1> DEFINE v == Without(w, j)
<1>3. Agree(v)'
  BY <1>0, <1>1, <1>2, TakenOut
<1>4. /\ v \in Walks /\ IsInjective(v) /\ Len(v) = Len(w) - 1
      /\ \A i \in 1 .. Len(w) - 1 : v[i] = IF i < k THEN w[i] ELSE w[i + 1]
  BY <1>1, <1>2, WithoutIs
<1> HIDE DEF v
<1>5. /\ ListInv' /\ DataOn(Walk)' \in Seq(Pointers \union {Null})
      /\ Len(DataOn(Walk)') = Len(w) - 1
      /\ \A i \in 1 .. Len(w) - 1 : DataOn(Walk)'[i] = data_ptr'[v[i]]
  BY <1>3, <1>4, Then
<1> DEFINE d == DataOn(w)
           t == DataOn(Walk)'
<1>6. \A i \in 1 .. Len(t) : t[i] = IF i < k THEN d[i] ELSE d[i + 1]
  <2> SUFFICES ASSUME NEW i \in 1 .. Len(t) PROVE t[i] = IF i < k THEN d[i] ELSE d[i + 1]
    OBVIOUS
  <2>0. Len(w) \in Nat
    BY WalkHas
  <2>1. i \in 1 .. Len(w) - 1 /\ i \in 1 .. Len(w) /\ i + 1 \in 1 .. Len(w)
    BY <1>5, <2>0
  <2>2. t[i] = data_ptr[v[i]] /\ v[i] = IF i < k THEN w[i] ELSE w[i + 1]
    BY <1>4, <1>5, <2>1
  <2>3. d[i] = data_ptr[w[i]] /\ d[i + 1] = data_ptr[w[i + 1]]
    BY <1>1, <2>1
  <2> HIDE DEF d, t
  <2> QED BY <2>2, <2>3
<1>7. /\ t = SubSeq(d, 1, k - 1) \o SubSeq(d, k + 1, Len(d))
      /\ k = Len(d) => t = SubSeq(d, 1, Len(d) - 1)
  <2>1. d \in Seq(Pointers \union {Null}) /\ t \in Seq(Pointers \union {Null}) /\ k \in 1 .. Len(d) /\ Len(t) = Len(d) - 1
    BY <1>1, <1>5
  <2> HIDE DEF d, t
  <2> QED BY <1>6, <2>1, AllBut
<1> QED BY <1>0, <1>1, <1>5, <1>7 DEF AbstractList!RemoveAt, AbstractList!Front

LEMMA RemoveTailStep ==
  ASSUME ListApart, ListInv, RemoveTail
  PROVE  ListInv' /\ AbstractList!TakeOldest
<1> DEFINE w == Walk
           n == Len(w)
<1>1. /\ ListType /\ w \in Walks /\ Agree(w) /\ IsInjective(w)
      /\ DataOn(w) \in Seq(Pointers \union {Null}) /\ Len(DataOn(w)) = n
      /\ \A i \in 1 .. n : DataOn(w)[i] = data_ptr[w[i]]
  BY Now
<1> HIDE DEF w
<1>2. /\ n \in Nat /\ DOMAIN w = 1 .. n /\ (w = <<>> <=> n = 0)
      /\ \A i \in 1 .. n : w[i] \in Addresses /\ w[i] # Null
  BY <1>1, WalkHas
<1>3. DataOn(w) = <<>> <=> n = 0
  BY <1>1, EmptySeq
<1>4. p_tail = IF n = 0 THEN Null ELSE w[n]
  BY <1>1, <1>2 DEF Agree
<1>5. CASE n = 0
  <2>1. UNCHANGED fields /\ result' = <<"remove", Null>>
    BY <1>4, <1>5 DEF RemoveTail
  <2>2. ListInv' /\ DataOn(Walk)' = DataOn(Walk)
    BY <2>1, NothingTouched
  <2> QED BY <1>3, <1>5, <2>1, <2>2 DEF AbstractList!TakeOldest, w
<1>6. CASE n # 0
  <2> DEFINE last == prev[p_tail]
  <2>1. n \in 1 .. n /\ p_tail = w[n] /\ p_tail # Null /\ p_tail \in Addresses
    BY <1>2, <1>4, <1>6
  <2>2. /\ p_tail' = last
        /\ next' = [a \in Addresses |-> IF a = last THEN Null ELSE next[a]]
        /\ p_head' = IF last = Null THEN Null ELSE p_head
        /\ allocated' = allocated \ {p_tail}
        /\ result' = <<"remove", data_ptr[p_tail]>>
        /\ prev' = prev /\ data_ptr' = data_ptr
    BY <2>1 DEF RemoveTail
  <2>3. next[p_tail] = Null
    BY <1>1, <1>2, <2>1 DEF Agree, IsWalk
  <2>4. last \in Links
    BY <1>1, <2>1 DEF ListType
  <2> HIDE DEF last
  <2>5. TakesOut(w[n])
    <3>1. \A a \in Addresses \ {p_tail} : /\ next'[a] = IF a = last THEN Null ELSE next[a]
                                          /\ prev'[a] = IF a = Null THEN last ELSE prev[a]
      BY <2>2 DEF ListApart
    <3> QED BY <2>1, <2>2, <2>3, <3>1 DEF TakesOut, last
  <2>6. ListType'
    <3>1. next' \in [Addresses -> Links]
      <4>1. \A a \in Addresses : (IF a = last THEN Null ELSE next[a]) \in Links
        BY <1>1 DEF ListType, Links
      <4> QED BY <2>2, <4>1
    <3> QED BY <1>1, <2>2, <2>4, <3>1 DEF ListType, Links
  <2>7. ListInv' /\ DataOn(Walk)' = AbstractList!Front(DataOn(Walk))
    BY <2>1, <2>2, <2>5, <2>6, TakingStep DEF w
  <2>8. AbstractList!Last(DataOn(Walk)) = data_ptr[p_tail]
    BY <1>1, <2>1 DEF AbstractList!Last, w
  <2>9. DataOn(Walk) # <<>>
    BY <1>3, <1>6 DEF w
  <2> QED BY <2>2, <2>7, <2>8, <2>9 DEF AbstractList!TakeOldest
<1> QED BY <1>5, <1>6

LEMMA SearchStep ==
  ASSUME ListApart, ListInv, NEW x \in Pointers, NEW copy \in BOOLEAN, NEW rm \in BOOLEAN, Search(x, copy, rm)
  PROVE  ListInv' /\ AbstractList!Search(x, copy, rm)
<1> DEFINE w == Walk
           d == DataOn(w)
           hits == {i \in DOMAIN w : data_ptr[w[i]] = x}
           found == {i \in 1 .. Len(d) : d[i] = x}
           k == CHOOSE i \in hits : \A j \in hits : i <= j
           e == w[k]
<1>1. /\ ListType /\ Len(d) = Len(w) /\ DOMAIN w = 1 .. Len(w) /\ Len(w) \in Nat
      /\ \A i \in 1 .. Len(w) : d[i] = data_ptr[w[i]] /\ w[i] \in Addresses
  BY Now, WalkHas
<1> HIDE DEF w, d
<1>2. found = hits
  BY <1>1
<1>3. CASE hits = {}
  <2>1. UNCHANGED fields /\ result' = <<"search", Null, <<>>>>
    BY <1>3 DEF Search, w
  <2>2. ListInv' /\ DataOn(Walk)' = DataOn(Walk)
    BY <2>1, NothingTouched
  <2> QED BY <1>2, <1>3, <2>1, <2>2 DEF AbstractList!Search, d, w
<1>4. CASE hits # {}
  <2>1. hits \in SUBSET Nat
    BY <1>1
  <2>2. k \in hits
    <3> HIDE DEF hits
    <3>1. PICK i \in hits : \A j \in hits : ~(j < i)
      BY <1>4, <2>1, LeastOf
    <3>2. \A j \in hits : i <= j
      BY <2>1, <3>1
    <3> QED BY <3>2
  <2>3. k \in 1 .. Len(w) /\ data_ptr[e] = x /\ e \in Addresses
    <3> HIDE DEF k
    <3> QED BY <1>1, <2>2
  <2>4. /\ IF rm THEN Unlink(e) /\ UNCHANGED data_ptr ELSE UNCHANGED fields
        /\ result' = <<"search", IF copy THEN data_ptr[e] ELSE Null,
                    IF rm /\ ~ copy THEN <<data_ptr[e]>> ELSE <<>>>>
    BY <1>4 DEF Search, w
  <2> HIDE DEF hits, found
  <2>5. /\ k = CHOOSE i \in found : \A j \in found : i <= j
        /\ found # {}
    BY <1>2, <1>4
  <2> HIDE DEF k
  <2>6. result' = <<"search", IF copy THEN x ELSE Null, IF rm /\ ~ copy THEN <<x>> ELSE <<>>>>
    BY <2>3, <2>4
  <2>7. ListInv' /\ DataOn(Walk)' = IF rm THEN AbstractList!RemoveAt(DataOn(Walk), k) ELSE DataOn(Walk)
    <3>1. CASE ~rm
      BY <2>4, <3>1, NothingTouched
    <3>2. CASE rm
      <4>1. Unlink(e) /\ UNCHANGED data_ptr
        BY <2>4, <3>2
      <4> HIDE DEF e
      <4>2. next[e] \in Links /\ prev[e] \in Links
        BY <1>1, <2>3 DEF ListType
      <4>3. TakesOut(e)
        <5>1. \A a \in Addresses \ {e} : /\ next'[a] = IF a = prev[e] THEN next[e] ELSE next[a]
                                        /\ prev'[a] = IF a = next[e] THEN prev[e] ELSE prev[a]
          BY <4>1 DEF Unlink
        <5> QED BY <4>1, <5>1 DEF Unlink, TakesOut
      <4>4. ListType'
        <5>1. next' \in [Addresses -> Links]
          <6>1. \A a \in Addresses : (CASE a = prev[e] -> next[e] [] a = e -> Null [] OTHER -> next[a]) \in Links
            BY <1>1, <4>2 DEF ListType, Links
          <6> QED BY <4>1, <6>1 DEF Unlink
        <5>2. prev' \in [Addresses -> Links]
          <6>1. \A a \in Addresses : (CASE a = next[e] -> prev[e] [] a = e -> Null [] OTHER -> prev[a]) \in Links
            BY <1>1, <4>2 DEF ListType, Links
          <6> QED BY <4>1, <6>1 DEF Unlink
        <5>3. p_head' \in Links /\ p_tail' \in Links /\ allocated' \subseteq Addresses /\ data_ptr' = data_ptr
          BY <1>1, <4>1, <4>2 DEF Unlink, ListType
        <5> QED BY <1>1, <5>1, <5>2, <5>3 DEF ListType, Links
      <4>5. k \in 1 .. Len(Walk) /\ e = Walk[k]
        BY <2>3 DEF w, e
      <4> QED BY <3>2, <4>1, <4>3, <4>4, <4>5, TakingStep
    <3> QED BY <3>1, <3>2
  <2> QED BY <2>5, <2>6, <2>7 DEF AbstractList!Search, found, d, w
<1> QED BY <1>3, <1>4

\* The walk of an empty list.
LEMMA NoneAgree ==
  ASSUME ListApart
  PROVE  /\ <<>> \in Walks /\ IsInjective(<<>>) /\ Len(<<>>) = 0
         /\ p_head = Null /\ p_tail = Null /\ allocated = {} => Agree(<<>>)
<1>1. Len(<<>>) = 0 /\ DOMAIN <<>> = 1 .. 0 /\ Range(<<>>) = {} /\ <<>> \in [1 .. 0 -> Addresses]
  BY DEF Range
<1>2. 0 \in 0 .. Room
  BY DEF ListApart
<1>3. <<>> \in Walks
  BY <1>1, <1>2 DEF Walks
<1>4. Cardinality({}) = 0
  BY FS_EmptySet
<1>5. IsInjective(<<>>)
  BY <1>1 DEF IsInjective
<1>6. ASSUME p_head = Null, p_tail = Null, allocated = {} PROVE Agree(<<>>)
  <2>1. DOMAIN <<>> = {}
    BY <1>1
  <2>2. IsWalk(<<>>, p_head, next)
    BY <1>6, <2>1 DEF IsWalk
  <2>3. Range(<<>>) = allocated /\ Len(<<>>) = Cardinality(allocated)
    BY <1>1, <1>4, <1>6
  <2> QED BY <1>6, <2>1, <2>2, <2>3 DEF Agree
<1> QED BY <1>1, <1>3, <1>5, <1>6

LEMMA FlushStep ==
  ASSUME ListApart, ListInv, Flush
  PROVE  ListInv' /\ AbstractList!Flush
<1>1. ListType /\ allocated = Range(Walk)
  BY Now DEF Agree
<1>2. p_head' = Null /\ p_tail' = Null /\ allocated' = {} /\ UNCHANGED <<next, prev, data_ptr>>
  BY <1>1 DEF Flush
<1>3. ListType'
  BY <1>1, <1>2 DEF ListType, Links
<1>4. PICK w \in Walks : w = <<>> /\ IsInjective(w) /\ Len(w) = 0
  BY NoneAgree
<1>5. Agree(w)'
  <2>1. Cardinality({}) = 0 /\ Range(<<>>) = {} /\ DOMAIN <<>> = {}
    BY FS_EmptySet DEF Range
  <2> QED BY <1>2, <1>4, <2>1 DEF Agree, IsWalk
<1>6. ListInv' /\ DataOn(Walk)' \in Seq(Pointers \union {Null}) /\ Len(DataOn(Walk)') = 0
  BY <1>3, <1>4, <1>5, Then
<1>7. DataOn(Walk)' = <<>>
  BY <1>6, EmptySeq
<1> QED BY <1>6, <1>7 DEF AbstractList!Flush, Flush

(***************************************************************************)
(* For any number of data pointers and any room for elements, the linked   *)
(* list does what its users rely on, and its links agree in both           *)
(* directions: an element goes in at the head, the oldest comes out at the *)
(* tail, a search from the newest on takes out, copies and deallocates     *)
(* what it finds, and a flush frees every element that is left.            *)
(***************************************************************************)
THEOREM ListCorrect == ListApart /\ ListSpec => IsListOfPointers
<1>1. ListApart => ListApart'
  BY DEF ListApart, Addresses
<1>2. ListApart /\ ListInit => ListInv /\ AbstractList!Init
  <2> SUFFICES ASSUME ListApart, ListInit PROVE ListInv /\ AbstractList!Init
    OBVIOUS
  <2>1. ListInv
    <3>1. ListType
      BY DEF ListInit, ListType, Links
    <3> QED BY <3>1, NoneAgree DEF ListInit, ListInv
  <2>2. DataOn(Walk) = <<>>
    BY DEF ListInit, DataOn, Walk, From
  <2> QED BY <2>1, <2>2 DEF ListInit, AbstractList!Init
<1>3. ListApart /\ ListInv /\ [ListNext]_listVars => ListInv' /\ [AbstractList!Next]_<<DataOn(Walk), result>>
  <2> SUFFICES ASSUME ListApart, ListInv, [ListNext]_listVars
               PROVE  ListInv' /\ [AbstractList!Next]_<<DataOn(Walk), result>>
    OBVIOUS
  <2>1. CASE \E x \in Pointers : Add(x)
    BY <2>1, AddStep DEF AbstractList!Next
  <2>2. CASE \E x \in Pointers, copy, rm \in BOOLEAN : Search(x, copy, rm)
    BY <2>2, SearchStep DEF AbstractList!Next
  <2>3. CASE RemoveTail
    BY <2>3, RemoveTailStep DEF AbstractList!Next
  <2>4. CASE Flush
    BY <2>4, FlushStep DEF AbstractList!Next
  <2>5. CASE UNCHANGED listVars
    <3>1. UNCHANGED fields /\ result' = result
      BY <2>5 DEF listVars, fields
    <3> QED BY <3>1, NothingTouched
  <2> QED BY <2>1, <2>2, <2>3, <2>4, <2>5 DEF ListNext
<1>4. ListApart /\ ListInv => LinksAgree
  BY Now DEF LinksAgree
<1> QED
  BY <1>1, <1>2, <1>3, <1>4, PTL DEF ListSpec, IsListOfPointers, AbstractList!Spec
=============================================================================
