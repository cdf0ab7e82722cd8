-------------------------- MODULE ScheduleRefinement --------------------------
(***************************************************************************)
(* The scheduler loop and its controller implement ControlPromise.  The    *)
(* loop rests exactly while its thread is a waiter of the condition        *)
(* variable, owes what the two pending flags hold, and is over when the    *)
(* control server is closed.                                               *)
(***************************************************************************)
EXTENDS Schedule

PhaseShown ==
    IF waiting THEN "resting" ELSE IF pc = "done" THEN "over" ELSE "working"

RequestsOwed ==
    {request \in {"wake", "run-now"} :
        IF request = "wake" THEN pending_wake ELSE pending_run_now}

Client == INSTANCE ControlPromise
            WITH phase <- PhaseShown, owed <- RequestsOwed,
                 leaving <- quit_requested

(* Every behaviour of the loop and the server thread is one the promise    *)
(* allows: no accepted request disappears except by being turned to, and   *)
(* the loop thread never sleeps over one.                                  *)
KeepsPromiseSafely == Client!PromiseSafety

(* ... and what is owed is turned to, and quitting ends.                   *)
KeepsPromise == Client!Kept
===============================================================================
