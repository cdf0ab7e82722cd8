------------------------------- MODULE Schedule -------------------------------
(***************************************************************************)
(* The scheduler loop of schedule() in _schedule.py, on the main thread,   *)
(* together with the controller it shares with the control server thread   *)
(* (module ScheduleController).  Client requests arrive between any two    *)
(* steps of the loop, from before its first test until the control server  *)
(* is closed, after the loop has ended.                                    *)
(*                                                                         *)
(* One step of the loop is one call on the controller or one part of       *)
(* attempt(): touching the heartbeat file, consulting the run predicate    *)
(* and running the job.  What the predicate answers from the job's history *)
(* is left open here, and so is the job's outcome.                         *)
(***************************************************************************)
EXTENDS ScheduleController

CONSTANTS
    None,                \* max_runs when it is not given
    MaxRuns,             \* max_runs
    SleepsBetweenRuns    \* interval is greater than zero

ASSUME ScheduleAssumption ==
    /\ None \notin Nat
    /\ MaxRuns \in Nat \cup {None}
    /\ MaxRuns # None => MaxRuns <= RunCountCap
    /\ SleepsBetweenRuns \in BOOLEAN

VARIABLES
    pc,         \* the statement the loop thread executes next
    mode,       \* mode: what take_next_run_mode returned last
    forced,     \* the run predicate holds a forced answer
    n_runs,     \* n_runs, up to RunCountCap
    exit,       \* how schedule() ends: "none" before it does
    late        \* history: attempts begun although quit was requested

loopVars == <<pc, mode, forced, n_runs, exit, late>>
vars == <<ctrlVars, loopVars>>

Locations ==
    {"test", "take", "mark", "heartbeat", "predicate", "start", "job", "count",
     "recheck", "pending", "wait", "waiting", "finally", "closing", "done"}

\* Where the inner try statement catches a KeyboardInterrupt and breaks.
InsideTry == {"mark", "heartbeat", "predicate", "start", "job", "count"}

\* The parts of attempt().
Attempting == {"heartbeat", "predicate", "start", "job"}

TypeOK ==
    /\ CtrlTypeOK
    /\ pc \in Locations
    /\ mode \in {"normal", "run-now"}
    /\ forced \in BOOLEAN
    /\ n_runs \in 0..RunCountCap
    /\ exit \in {"none", "normal", "interrupt", "raised"}
    /\ late \in 0..2

Init ==
    /\ CtrlInit
    /\ pc = "test"
    /\ mode = "normal"
    /\ forced = FALSE
    /\ n_runs = 0
    /\ exit = "none"
    /\ late = 0

-------------------------------------------------------------------------------
Goto(from, to) == pc = from /\ pc' = to

\* Mutant: quit is not looked at.
ShouldStopLoopWithoutQuit == MaxRuns # None /\ n_runs >= MaxRuns

\* Mutant: one run too many.
ShouldStopLoopOneLater ==
    \/ quit_requested
    \/ MaxRuns # None /\ n_runs > MaxRuns

\* Mutant: max_runs is not looked at.
ShouldStopLoopOnlyOnQuit == quit_requested

ShouldStopLoop ==
    \/ quit_requested
    \/ MaxRuns # None /\ n_runs >= MaxRuns

\* n_runs counts without end when max_runs is None; RunCountCap bounds it.
NextRunCount == IF n_runs < RunCountCap THEN n_runs + 1 ELSE n_runs

LeaveLoop(how) ==
    /\ pc' = "finally"
    /\ exit' = how
    /\ UNCHANGED <<mode, forced, n_runs, late>>

TestLoop ==
    /\ pc = "test"
    /\ IF ShouldStopLoop
       THEN LeaveLoop("normal")
       ELSE pc' = "take" /\ UNCHANGED <<mode, forced, n_runs, exit, late>>
    /\ UNCHANGED ctrlVars

TakeRunMode ==
    /\ Goto("take", "mark")
    /\ mode' = NextRunMode
    /\ TakeNextRunMode
    /\ UNCHANGED <<forced, n_runs, exit, late>>

\* mark_running, then force_next_return_value for a forced run.
BeginAttempt ==
    /\ Goto("mark", "heartbeat")
    /\ MarkRunning
    /\ forced' = (forced \/ mode = "run-now")
    /\ late' = IF quit_requested /\ late < 2 THEN late + 1 ELSE late
    /\ UNCHANGED <<mode, n_runs, exit>>

TouchHeartbeat ==
    /\ Goto("heartbeat", "predicate")
    /\ UNCHANGED <<ctrlVars, mode, forced, n_runs, exit, late>>

\* Mutant: the forced answer is not consumed.
ConsultPredicateKeepingForced ==
    /\ pc = "predicate"
    /\ pc' \in IF forced THEN {"start"} ELSE {"start", "count"}
    /\ UNCHANGED <<ctrlVars, mode, forced, n_runs, exit, late>>

\* RunPredicate.__call__: a forced answer (always True) is consumed by the
\* call that returns it; otherwise the history decides.  The attempt is over
\* when the answer is False, or when reading the history raises an Exception,
\* which send_errors_to_slack keeps.
ConsultPredicate ==
    /\ pc = "predicate"
    /\ pc' \in IF forced THEN {"start"} ELSE {"start", "count"}
    /\ forced' = FALSE
    /\ UNCHANGED <<ctrlVars, mode, n_runs, exit, late>>

\* LastRun.wrap records the start before it calls the job; if the history
\* cannot be written, the job does not run.
RecordStart ==
    /\ pc = "start"
    /\ pc' \in {"job", "count"}
    /\ UNCHANGED <<ctrlVars, mode, forced, n_runs, exit, late>>

\* The job returns, or raises an Exception.
FinishJob ==
    /\ Goto("job", "count")
    /\ UNCHANGED <<ctrlVars, mode, forced, n_runs, exit, late>>

CountRun ==
    /\ Goto("count", "recheck")
    /\ n_runs' = NextRunCount
    /\ UpdateRunCount(NextRunCount)
    /\ UNCHANGED <<mode, forced, exit, late>>

Recheck ==
    /\ pc = "recheck"
    /\ IF ShouldStopLoop
       THEN LeaveLoop("normal")
       ELSE /\ pc' = IF SleepsBetweenRuns THEN "pending" ELSE "test"
            /\ UNCHANGED <<mode, forced, n_runs, exit, late>>
    /\ UNCHANGED ctrlVars

CheckPending ==
    /\ pc = "pending"
    /\ pc' = IF HasPendingWork THEN "test" ELSE "wait"
    /\ UNCHANGED <<ctrlVars, mode, forced, n_runs, exit, late>>

Sleep ==
    /\ pc = "wait"
    /\ WaitForWork
    /\ pc' = IF waiting' THEN "waiting" ELSE "test"
    /\ UNCHANGED <<mode, forced, n_runs, exit, late>>

WakeUp ==
    /\ Goto("waiting", "test")
    /\ ~waiting
    /\ UNCHANGED <<ctrlVars, mode, forced, n_runs, exit, late>>

\* Mutant: the loop sleeps on until there is a request.
IntervalElapsedSleepOn ==
    /\ Goto("waiting", "wait")
    /\ WaitEnds
    /\ UNCHANGED <<mode, forced, n_runs, exit, late>>

\* The interval has elapsed without a request.
IntervalElapsed ==
    /\ Goto("waiting", "test")
    /\ WaitEnds
    /\ UNCHANGED <<mode, forced, n_runs, exit, late>>

\* A KeyboardInterrupt inside the inner try ends the loop quietly; anywhere
\* else it leaves schedule() through the finally clause.
KeyboardInterruptInTry ==
    /\ pc \in InsideTry
    /\ LeaveLoop("interrupt")
    /\ UNCHANGED ctrlVars

KeyboardInterruptOutsideTry ==
    /\ pc \in {"test", "take", "mark", "recheck", "pending", "wait", "waiting"}
    /\ LeaveLoop("raised")
    /\ \/ WaitEnds
       \/ ~waiting /\ UNCHANGED ctrlVars

\* attempt() raises: the heartbeat file cannot be touched (it is touched
\* outside the error boundary), the Slack rate limiter fails inside the
\* boundary's handler, or the job raises SystemExit.
AttemptRaises ==
    /\ pc \in Attempting
    /\ pc = "predicate" => ~forced
    /\ LeaveLoop("raised")
    /\ UNCHANGED ctrlVars

Finally ==
    /\ Goto("finally", "closing")
    /\ MarkStopped
    /\ UNCHANGED <<mode, forced, n_runs, exit, late>>

\* The control server is closed; no request reaches the controller any more.
CloseServer ==
    /\ Goto("closing", "done")
    /\ UNCHANGED <<ctrlVars, mode, forced, n_runs, exit, late>>

-------------------------------------------------------------------------------
Request ==
    /\ pc # "done"
    /\ HandleRequest
    /\ UNCHANGED loopVars

LoopStep ==
    \/ TestLoop \/ TakeRunMode \/ BeginAttempt
    \/ TouchHeartbeat \/ ConsultPredicate \/ RecordStart \/ FinishJob
    \/ CountRun \/ Recheck \/ CheckPending \/ Sleep \/ WakeUp
    \/ Finally \/ CloseServer

Exception ==
    KeyboardInterruptInTry \/ KeyboardInterruptOutsideTry \/ AttemptRaises

Next == Request \/ LoopStep \/ IntervalElapsed \/ Exception

Spec == Init /\ [][Next]_vars

\* The loop thread is scheduled again and again, and a started job returns.
FairSpec == Spec /\ WF_vars(LoopStep)

\* Condition.wait also honours its timeout.
TimeoutsElapse == WF_vars(IntervalElapsed)

-------------------------------------------------------------------------------
(* Safety.                                                                 *)

(* Clients are shown "running" for as long as an attempt is under way:     *)
(* neither a quit nor any other request of the server thread replaces it.  *)
JobIsVisible == pc \in Attempting => state = "running"

(* A forced answer given to the run predicate is used by the attempt it    *)
(* was meant for: it is there exactly when a forced attempt has not asked  *)
(* the predicate yet, so no later tick bypasses the schedule.  (An attempt *)
(* that raises takes the whole loop with it.)                              *)
ForcedIsScoped ==
    exit = "none" =>
        (forced <=> mode = "run-now" /\ pc \in {"heartbeat", "predicate"})

(* At most max_runs attempts are begun, however wakes, forced runs and     *)
(* timeouts interleave with the two tests of the counter.                  *)
MaxRunsRespected ==
    MaxRuns # None =>
        /\ n_runs <= MaxRuns
        /\ pc \in Attempting => n_runs < MaxRuns

(* The loop begins at most one attempt after quit was requested: the one   *)
(* it had decided on before.                                               *)
AtMostOneLateAttempt == late <= 1

(* A forced run that was accepted leaves the pending set only into a       *)
(* forced attempt: between two threads, two flags and a mode, no wake or   *)
(* timeout turns it into a tick that the predicate may refuse.             *)
RunNowNotDowngraded ==
    [][pending_run_now /\ ~pending_run_now' => mode' = "run-now" /\ pc' = "mark"]_vars

-------------------------------------------------------------------------------
(* Liveness.                                                               *)

(* With a finite max_runs schedule() returns by itself.                    *)
MaxRunsEnd == TimeoutsElapse => <>(MaxRuns # None => pc = "done")

-------------------------------------------------------------------------------
(* What the documentation says and the code does not do.                   *)

(* README.md: quit stops the scheduler "after the current job finishes".   *)
(* No attempt is begun once quit is requested.                             *)
NoAttemptAfterQuit == late = 0

(* README.md: run-now means "Run the job now".  A loop that ends by itself *)
(* leaves no accepted forced run behind.                                   *)
AcceptedRunNowIsNotDropped ==
    pc = "done" /\ exit = "normal" /\ ~quit_requested => ~pending_run_now

(* mark_stopped: "Mark the scheduler as fully stopped."  Then the state    *)
(* shown to clients does not change any more.                              *)
StoppedIsFinal == [][state = "stopped" => state' = "stopped"]_vars

(* The busy answer: "Scheduler is already running the job."                *)
BusyMeansRunning ==
    [][reply' = "busy" /\ reply' # reply => pc \in Attempting]_vars
===============================================================================
