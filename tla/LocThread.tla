----------------------------- MODULE LocThread -----------------------------
(***************************************************************************)
(* A thread of libgps.utils (LocThread.cpp).  The owner's LocThread and    *)
(* the spawned thread share a LocThreadDelegate: mRunnable tells the       *)
(* thread to go on, mRefCount counts the two of them, and whoever calls    *)
(* destroy() last deletes it.  mRunnable is read and written without a     *)
(* lock.  The runnable is deleted by the spawned thread on its way out.    *)
(*                                                                         *)
(* Nobody calls LocThread::stop: a LocThread ends by being deleted.  The   *)
(* steps are put together by the module of the runnable (MsgTask).         *)
(***************************************************************************)
EXTENDS Integers

VARIABLES
    mRunnable,  \* the delegate's mRunnable is not NULL
    mJoinable,  \* the delegate's mJoinable
    mRefCount,  \* the delegate's mRefCount
    delegate,   \* whether the delegate exists
    runnable,   \* whether the runnable exists
    thread,     \* where the spawned thread is
    owner,      \* where the owner is
    started     \* what start() returned: "none" before it has returned

threadVars == <<mRunnable, mJoinable, mRefCount, delegate, runnable, thread, owner, started>>

Init ==
    /\ mRunnable = TRUE
    /\ mJoinable \in BOOLEAN
    /\ mRefCount = 2
    /\ delegate = FALSE
    /\ runnable = TRUE
    /\ thread = "none"
    /\ owner = "idle"
    /\ started = "none"

\* destroy(): the last of the two deletes the delegate.
Destroy ==
    /\ mRefCount' = IF mRefCount > 0 THEN mRefCount - 1 ELSE mRefCount
    /\ delegate' = (delegate /\ mRefCount # 1)

-----------------------------------------------------------------------------
(* The owner *)

\* The delegate's constructor: the members are set before pthread_create, and
\* reset if it fails.
Create ==
    /\ owner = "idle"
    /\ owner' = "created"
    /\ delegate' = TRUE
    /\ \/ thread' = "enter" /\ UNCHANGED <<mRunnable, mJoinable, mRefCount>>
       \/ mRunnable' = FALSE /\ mJoinable' = FALSE /\ mRefCount' = 1 /\ UNCHANGED thread
    /\ UNCHANGED <<runnable, started>>

\* create() gives up a delegate that is not running.
CheckRunning ==
    /\ owner = "created"
    /\ IF mRunnable
       THEN owner' = "running" /\ started' = "true" /\ UNCHANGED <<mRefCount, delegate>>
       ELSE owner' = "gone" /\ started' = "false" /\ Destroy
    /\ UNCHANGED <<mRunnable, mJoinable, runnable, thread>>

\* ~LocThread: bye() stops a joinable thread and lets a detached one run on.
Bye ==
    /\ owner = "running"
    /\ IF mJoinable
       THEN mRunnable' = FALSE /\ owner' = "join"
       ELSE owner' = "destroy" /\ UNCHANGED mRunnable
    /\ UNCHANGED <<mJoinable, mRefCount, delegate, runnable, thread, started>>

\* stop() waits for a joinable thread, and goes on to destroy().
Join ==
    /\ owner = "join"
    /\ mJoinable => thread = "done"
    /\ mJoinable' = FALSE
    /\ owner' = "destroy"
    /\ UNCHANGED <<mRunnable, mRefCount, delegate, runnable, thread, started>>

OwnerDestroy ==
    /\ owner = "destroy"
    /\ Destroy
    /\ owner' = "gone"
    /\ UNCHANGED <<mRunnable, mJoinable, runnable, thread, started>>

-----------------------------------------------------------------------------
(* The spawned thread *)

At(p, q) == thread = p /\ thread' = q

\* threadMain looks for its runnable; a delegate stopped already has none.
Enter ==
    /\ thread = "enter"
    /\ thread' = IF mRunnable THEN "ready" ELSE "leave"
    /\ UNCHANGED <<mRunnable, mJoinable, mRefCount, delegate, runnable, owner, started>>

\* if (isRunning()) prerun()
Ready ==
    /\ thread = "ready"
    /\ thread' = IF mRunnable THEN "prerun" ELSE "loop"
    /\ UNCHANGED <<mRunnable, mJoinable, mRefCount, delegate, runnable, owner, started>>

Prerun ==
    /\ At("prerun", "loop")
    /\ UNCHANGED <<mRunnable, mJoinable, mRefCount, delegate, runnable, owner, started>>

\* while (isRunning() && run())
Loop ==
    /\ thread = "loop"
    /\ thread' = IF mRunnable THEN "run" ELSE "ended"
    /\ UNCHANGED <<mRunnable, mJoinable, mRefCount, delegate, runnable, owner, started>>

RunReturns(again) ==
    /\ At("run", IF again THEN "loop" ELSE "ended")
    /\ UNCHANGED <<mRunnable, mJoinable, mRefCount, delegate, runnable, owner, started>>

\* if (isRunning()) postrun()
Ended ==
    /\ thread = "ended"
    /\ thread' = IF mRunnable THEN "postrun" ELSE "clear"
    /\ UNCHANGED <<mRunnable, mJoinable, mRefCount, delegate, runnable, owner, started>>

Postrun ==
    /\ At("postrun", "clear")
    /\ UNCHANGED <<mRunnable, mJoinable, mRefCount, delegate, runnable, owner, started>>

Clear ==
    /\ At("clear", "delete")
    /\ mRunnable' = FALSE
    /\ UNCHANGED <<mJoinable, mRefCount, delegate, runnable, owner, started>>

DeleteRunnable ==
    /\ At("delete", "leave")
    /\ runnable' = FALSE
    /\ UNCHANGED <<mRunnable, mJoinable, mRefCount, delegate, owner, started>>

\* Faulty variant: the thread deletes the delegate whoever else holds it.
LeaveDeleting ==
    /\ At("leave", "done")
    /\ delegate' = FALSE
    /\ UNCHANGED <<mRunnable, mJoinable, mRefCount, runnable, owner, started>>

Leave ==
    /\ At("leave", "done")
    /\ Destroy
    /\ UNCHANGED <<mRunnable, mJoinable, runnable, owner, started>>

-----------------------------------------------------------------------------
(* Properties *)

ThreadUses == thread \notin {"none", "done"}
OwnerUses == owner \notin {"idle", "gone"}

\* Neither side ever touches a delegate that the other has deleted, and no
\* delegate outlives both: mRefCount counts its users in every interleaving.
DelegateIsCounted ==
    /\ delegate <=> ThreadUses \/ OwnerUses
    /\ delegate => mRefCount = (IF ThreadUses THEN 1 ELSE 0) + (IF OwnerUses THEN 1 ELSE 0)
=============================================================================
