-------------------------- MODULE ScheduleController --------------------------
(***************************************************************************)
(* The control state machine of a scheduler: the class ScheduleController  *)
(* of _controller.py.  Two threads share it.  The control server thread    *)
(* applies client requests (status, wake, run-now, quit); the loop thread  *)
(* reports what it is doing, consumes pending work and sleeps on the       *)
(* condition variable.  Every method holds the condition's lock from its   *)
(* first to its last statement, so each is one action here; the exception  *)
(* is wait_for_work, which gives the lock up inside Condition.wait and is  *)
(* split there: WaitForWork blocks, WaitEnds returns.                      *)
(*                                                                         *)
(* The operations take no program counter: CtrlNext lets the loop thread   *)
(* call them in any order, which is what the class must withstand; module  *)
(* Schedule calls them in the order of the scheduler loop.                 *)
(***************************************************************************)
EXTENDS Naturals

CONSTANT RunCountCap    \* bound of this model on the reported run count

ASSUME RunCountCapAssumption == RunCountCap \in Nat \ {0}

VARIABLES
    state,              \* _state, the scheduler state clients are shown
    pending_wake,       \* _pending_wake
    pending_run_now,    \* _pending_run_now
    quit_requested,     \* _quit_requested
    run_count,          \* _run_count
    waiting,            \* the loop thread is a waiter of _condition
    reply               \* the last answer given to a client

ctrlVars == <<state, pending_wake, pending_run_now, quit_requested,
              run_count, waiting, reply>>

SchedulerState == {"starting", "sleeping", "running", "stopping", "stopped"}

\* What a response says: to a status request, and to the others.
Replies == {"ok", "accepted", "busy", "error"}

CtrlTypeOK ==
    /\ state \in SchedulerState
    /\ pending_wake \in BOOLEAN
    /\ pending_run_now \in BOOLEAN
    /\ quit_requested \in BOOLEAN
    /\ run_count \in 0..RunCountCap
    /\ waiting \in BOOLEAN
    /\ reply \in Replies

CtrlInit ==
    /\ state = "starting"
    /\ pending_wake = FALSE
    /\ pending_run_now = FALSE
    /\ quit_requested = FALSE
    /\ run_count = 0
    /\ waiting = FALSE
    /\ reply = "ok"

-------------------------------------------------------------------------------
(* Requests of clients, applied by the control server thread.              *)

NotifyAll == waiting' = FALSE

Answer(status) == reply' = status

RequestStatus ==
    /\ Answer("ok")
    /\ UNCHANGED <<state, pending_wake, pending_run_now, quit_requested,
                   run_count, waiting>>

RefuseWake ==
    /\ quit_requested
    /\ Answer("error")
    /\ UNCHANGED <<state, pending_wake, pending_run_now, quit_requested,
                   run_count, waiting>>

\* Mutant: the loop thread is not notified.
AcceptWakeSilently ==
    /\ ~quit_requested
    /\ pending_wake' = TRUE
    /\ Answer("accepted")
    /\ UNCHANGED <<state, pending_run_now, quit_requested, run_count, waiting>>

AcceptWake ==
    /\ ~quit_requested
    /\ pending_wake' = TRUE
    /\ NotifyAll
    /\ Answer("accepted")
    /\ UNCHANGED <<state, pending_run_now, quit_requested, run_count>>

\* The busy test comes first: a running scheduler that was asked to quit
\* still answers "busy".
RefuseRunNow ==
    /\ \/ state = "running" /\ Answer("busy")
       \/ state # "running" /\ quit_requested /\ Answer("error")
    /\ UNCHANGED <<state, pending_wake, pending_run_now, quit_requested,
                   run_count, waiting>>

\* Mutant: a forced run is accepted after quit.
AcceptRunNowAfterQuit ==
    /\ state # "running"
    /\ pending_run_now' = TRUE
    /\ NotifyAll
    /\ Answer("accepted")
    /\ UNCHANGED <<state, pending_wake, quit_requested, run_count>>

AcceptRunNow ==
    /\ state # "running"
    /\ ~quit_requested
    /\ pending_run_now' = TRUE
    /\ NotifyAll
    /\ Answer("accepted")
    /\ UNCHANGED <<state, pending_wake, quit_requested, run_count>>

\* Mutant: a running scheduler is shown as stopping, too.
RequestQuitHidingJob ==
    /\ quit_requested' = TRUE
    /\ state' = "stopping"
    /\ NotifyAll
    /\ Answer("accepted")
    /\ UNCHANGED <<pending_wake, pending_run_now, run_count>>

RequestQuit ==
    /\ quit_requested' = TRUE
    /\ state' = IF state = "running" THEN state ELSE "stopping"
    /\ NotifyAll
    /\ Answer("accepted")
    /\ UNCHANGED <<pending_wake, pending_run_now, run_count>>

HandleRequest ==
    \/ RequestStatus
    \/ RefuseWake \/ AcceptWake
    \/ RefuseRunNow \/ AcceptRunNow
    \/ RequestQuit

-------------------------------------------------------------------------------
(* Calls of the loop thread.                                               *)

MarkRunning ==
    /\ state' = "running"
    /\ NotifyAll
    /\ UNCHANGED <<pending_wake, pending_run_now, quit_requested, run_count,
                   reply>>

MarkStopped ==
    /\ state' = "stopped"
    /\ NotifyAll
    /\ UNCHANGED <<pending_wake, pending_run_now, quit_requested, run_count,
                   reply>>

\* Mutant: the run that is about to begin is counted as well.
UpdateRunCountAhead(n) ==
    /\ run_count' = n + 1
    /\ NotifyAll
    /\ UNCHANGED <<state, pending_wake, pending_run_now, quit_requested, reply>>

UpdateRunCount(n) ==
    /\ run_count' = n
    /\ NotifyAll
    /\ UNCHANGED <<state, pending_wake, pending_run_now, quit_requested, reply>>

\* Mutant: a pending wake goes before a pending forced run.
NextRunModeWakeFirst ==
    IF pending_run_now /\ ~pending_wake THEN "run-now" ELSE "normal"

NextRunMode == IF pending_run_now THEN "run-now" ELSE "normal"

\* Mutant: a wake is not cleared.
TakeNextRunModeKeepingWake ==
    /\ pending_run_now' = FALSE
    /\ UNCHANGED <<state, pending_wake, quit_requested, run_count, waiting, reply>>

\* take_next_run_mode: the mode returned is NextRunMode of the state it runs
\* in; either way nothing is pending afterwards.
TakeNextRunMode ==
    /\ pending_run_now' = FALSE
    /\ pending_wake' = FALSE
    /\ UNCHANGED <<state, quit_requested, run_count, waiting, reply>>

HasPendingWork == pending_wake \/ pending_run_now \/ quit_requested

\* Mutant: the pending flags are not tested again under the lock.
WaitForWorkUntested ==
    /\ state' = "sleeping"
    /\ waiting' = TRUE
    /\ UNCHANGED <<pending_wake, pending_run_now, quit_requested, run_count,
                   reply>>

\* wait_for_work up to the point where it returns at once or blocks.  It tests
\* the pending flags again, under the lock: has_pending_work may have answered
\* before a request came in.
WaitForWork ==
    /\ IF quit_requested
       THEN state' = "stopping" /\ waiting' = FALSE
       ELSE /\ state' = "sleeping"
            /\ waiting' = (~pending_wake /\ ~pending_run_now)
    /\ UNCHANGED <<pending_wake, pending_run_now, quit_requested, run_count,
                   reply>>

\* Condition.wait gives up: the timeout elapsed, or an exception interrupted it.
WaitEnds ==
    /\ waiting
    /\ waiting' = FALSE
    /\ UNCHANGED <<state, pending_wake, pending_run_now, quit_requested,
                   run_count, reply>>

-------------------------------------------------------------------------------
LoopCall ==
    \/ WaitEnds
    \/ /\ ~waiting
       /\ \/ MarkRunning
          \/ MarkStopped
          \/ \E n \in 0..RunCountCap : UpdateRunCount(n)
          \/ TakeNextRunMode
          \/ WaitForWork

CtrlNext == HandleRequest \/ LoopCall

CtrlSpec == CtrlInit /\ [][CtrlNext]_ctrlVars

-------------------------------------------------------------------------------
(* A sleeping loop thread has nothing to do.  The pending flags are set by *)
(* one thread while the other decides to sleep; whatever the interleaving, *)
(* nobody sleeps over a wake, a forced run or a quit until the timeout.    *)
NoLostWakeup == waiting => ~HasPendingWork

(* Once quit is requested no client can give the scheduler more work, and  *)
(* the loop thread never goes back to sleep.                               *)
QuitClosesTheDoor ==
    [][quit_requested =>
        /\ quit_requested'
        /\ pending_wake' => pending_wake
        /\ pending_run_now' => pending_run_now
        /\ ~waiting']_ctrlVars
===============================================================================
