----------------------------- MODULE ScheduledJob -----------------------------
(***************************************************************************)
(* schedule() as a whole: the loop and its controller (module Schedule)    *)
(* composed with the last-run wrapper, the run predicate and the history   *)
(* (module LastRun), as attempt() calls them through the error boundary    *)
(* send_errors_to_slack.  What module Schedule leaves open is decided by   *)
(* the history here, and what module LastRun leaves open is driven by the  *)
(* loop: when the wrapper is called, which calls are forced, and what      *)
(* becomes of what it raises.                                              *)
(*                                                                         *)
(* Every action is a conjunction of one action of each module, or an       *)
(* action of one while the other does nothing.                             *)
(***************************************************************************)
EXTENDS ScheduleRefinement, Integers

CONSTANTS
    SuccessPeriod, NeutralPeriod, FailurePeriod, MaxFailures, MaxEntries,
    Policies, JobOutcomes,
    MaxTime,        \* bound of this model on the clock
    MaxFaults       \* bound of this model on failing reads and writes

ASSUME ScheduledAssumption ==
    /\ {SuccessPeriod, NeutralPeriod, FailurePeriod} \subseteq Nat
    /\ MaxFailures \in Nat
    /\ MaxEntries \in Nat
    /\ Policies \subseteq {"ignore", "stall", "success_schedule"}
    /\ JobOutcomes \subseteq {"success", "neutral", "failure"}
    /\ MaxTime \in Nat
    /\ MaxFaults \in Nat
    /\ None # "scheduler"       \* the holder of a lock is a process or None

VARIABLES
    file, entries, holder, step, on_max_failures, now,      \* of LastRun
    job_pc, asked, job_forced, item, ended, failed, succeeded, lost,
    raised,         \* what the job has raised
    faults,         \* reads and writes of the history that were broken off
    requested       \* a client has asked for a run since the last one began

Self == "scheduler"

JobEntry ==
    [what : {"started"}, at : {0}]
        \cup [what : {"success", "neutral", "failure"}, at : 0..MaxTime]

Job == INSTANCE LastRun
         WITH Process <- {Self}, Entry <- JobEntry,
              MayCrash <- TRUE, MayReset <- FALSE, MayForce <- TRUE,
              pc <- job_pc, forced <- job_forced

jobVars ==
    <<file, entries, holder, step, on_max_failures, now, job_pc, asked,
      job_forced, item, ended, failed, succeeded, lost>>
historyVars == <<raised, faults, requested>>
scheduledVars == <<vars, jobVars, historyVars>>

ScheduledInit ==
    /\ Init
    /\ Job!Init
    /\ raised = "nothing"
    /\ faults = 0
    /\ requested = FALSE

-------------------------------------------------------------------------------
(* The wrapper within the attempt.                                         *)

\* LastRun(path=...), before the loop.
OpenHistory ==
    /\ exit = "none"
    /\ Job!Start(Self)
    /\ UNCHANGED <<vars, historyVars>>

LoopAlone ==
    /\ \/ TestLoop \/ TakeRunMode \/ BeginAttempt \/ TouchHeartbeat
       \/ CountRun \/ Recheck \/ CheckPending \/ Sleep \/ WakeUp
       \/ Finally \/ CloseServer
    /\ UNCHANGED <<jobVars, historyVars>>

\* The wrapper reads the clock and calls the predicate ...
AskPredicate ==
    /\ pc = "predicate"
    /\ Job!Ask(Self)
    /\ job_forced'[Self] = forced
    /\ UNCHANGED <<vars, historyVars>>

\* ... which answers.
PredicateAnswers ==
    /\ ConsultPredicate
    /\ \/ pc' = "start" /\ (Job!AdmitForced(Self) \/ Job!AdmitDue(Self))
       \/ pc' = "count" /\ Job!Refuse(Self)
    /\ UNCHANGED historyVars

WriteRecord ==
    /\ pc \in {"start", "job"}
    /\ Job!BeginRecord(Self) \/ Job!TruncateRecord(Self)
    /\ UNCHANGED <<vars, historyVars>>

BeginJob ==
    /\ RecordStart
    /\ pc' = "job"
    /\ Job!EndRecord(Self)
    /\ requested' = pending_run_now
    /\ UNCHANGED <<raised, faults>>

\* The wrapper takes whatever the job raises for a failure, an interrupt too.
MayRaise(outcome) ==
    IF outcome = "failure"
    THEN {"nothing", "Exception", "KeyboardInterrupt", "SystemExit"}
    ELSE {"nothing"}

EndJob ==
    /\ pc = "job"
    /\ \E outcome \in JobOutcomes :
        /\ Job!EndJob(Self, outcome)
        /\ raised' \in MayRaise(outcome)
    /\ UNCHANGED <<vars, faults, requested>>

\* send_errors_to_slack keeps an Exception, unless its own handler raises.
LeaveAttempt(what) ==
    \/ what \in {"nothing", "Exception"} /\ FinishJob
    \/ what = "KeyboardInterrupt" /\ KeyboardInterruptInTry
    \/ what \in {"Exception", "SystemExit"} /\ AttemptRaises

EndAttempt ==
    /\ pc = "job"
    /\ Job!EndRecord(Self)
    /\ LeaveAttempt(raised)
    /\ raised' = "nothing"
    /\ UNCHANGED <<faults, requested>>

-------------------------------------------------------------------------------
(* What can go wrong.                                                      *)

Fails ==
    /\ faults < MaxFaults
    /\ faults' = faults + 1
    /\ raised' = "nothing"
    /\ UNCHANGED requested

PredicateRaises ==
    /\ pc = "predicate"
    /\ Job!LookFails(Self)
    /\ \/ ConsultPredicate /\ pc' = "count"
       \/ AttemptRaises
    /\ Fails

StartNotRecorded ==
    /\ pc = "start"
    /\ Job!RecordFails(Self)
    /\ \/ RecordStart /\ pc' = "count"
       \/ AttemptRaises
    /\ Fails

\* The exception of the append in the finally clause replaces what the job has
\* raised: even a KeyboardInterrupt is kept by the error boundary then.
EndNotRecorded ==
    /\ pc = "job"
    /\ Job!RecordFails(Self)
    /\ LeaveAttempt("Exception")
    /\ Fails

HeartbeatFails ==
    /\ pc = "heartbeat"
    /\ AttemptRaises
    /\ UNCHANGED <<jobVars, historyVars>>

\* A KeyboardInterrupt anywhere but in the job: outside the wrapper ...
Interrupted ==
    /\ KeyboardInterruptInTry \/ KeyboardInterruptOutsideTry
    /\ job_pc[Self] = "idle"
    /\ UNCHANGED <<jobVars, historyVars>>

\* ... or while it reads or writes the history.
WrapperInterrupted ==
    /\ KeyboardInterruptInTry
    /\ job_pc[Self] \in {"asking", "starting", "finishing"}
    /\ Job!Die(Self)
    /\ Fails

-------------------------------------------------------------------------------
\* Status requests and refusals change nothing but the answer, and are left to
\* module Schedule.
ClientRequest ==
    /\ Request
    /\ reply' = "accepted"
    /\ requested' = (requested \/ pending_run_now')
    /\ UNCHANGED <<jobVars, raised, faults>>

TimeoutElapses == IntervalElapsed /\ UNCHANGED <<jobVars, historyVars>>

\* Once the loop has ended the clock does not matter.
ClockTicks ==
    /\ exit = "none"
    /\ Job!Tick
    /\ UNCHANGED <<vars, historyVars>>

LoopThread ==
    \/ LoopAlone
    \/ AskPredicate \/ PredicateAnswers \/ WriteRecord
    \/ BeginJob \/ EndJob \/ EndAttempt

Trouble ==
    \/ PredicateRaises \/ StartNotRecorded \/ EndNotRecorded
    \/ HeartbeatFails \/ Interrupted \/ WrapperInterrupted

\* The history is opened before the loop and the control server exist.
Opened == step[Self] # "closed" \/ exit # "none"

Advance == OpenHistory \/ (Opened /\ LoopThread)

ScheduledNext ==
    /\ \/ Advance
       \/ Opened /\ (ClientRequest \/ TimeoutElapses \/ Trouble)
       \/ ClockTicks
    /\ UNCHANGED on_max_failures

ScheduledSpec == ScheduledInit /\ [][ScheduledNext]_scheduledVars

\* The loop thread is scheduled, and the job returns.
FairScheduledSpec ==
    /\ ScheduledSpec
    /\ WF_scheduledVars(Advance /\ UNCHANGED on_max_failures)

ScheduledTimeoutsElapse ==
    WF_scheduledVars(TimeoutElapses /\ UNCHANGED on_max_failures)

-------------------------------------------------------------------------------
Due(time) == Job!Due(time)

(* "Only runs if it has not run too recently": through the loop, the forced *)
(* answer, the predicate and the history, a job that is begun although its  *)
(* real completions do not make it due was asked for by a client, since the *)
(* run before -- one early run for one or more requests.                    *)
EarlyRunsAreRequested ==
    [][pc = "start" /\ pc' = "job" /\ ~lost /\ ~Due(asked[Self])
        => requested]_scheduledVars

(* Whatever the loop does, and whatever ends the job or the loop, the last  *)
(* completion on record is the one that has happened: an interrupted job    *)
(* counts as failed when the scheduler is started again.  Only an append    *)
(* that is broken off loses one.                                            *)
CompletionsAreRecorded ==
    ~lost /\ job_pc[Self] \notin {"starting", "finishing"}
        => Job!LastFinished(Job!LoadedEntries) = ended

(* An accepted forced run is run, at once if the loop was asleep and        *)
(* whatever the history says, unless the loop ends first or a read or write *)
(* of the history has failed.                                               *)
RunNowIsRun ==
    pending_run_now ~> \/ pc = "job" /\ mode = "run-now"
                       \/ pc = "done" \/ faults > 0

(* A wake runs a job that is due without waiting for the interval.          *)
WakeRunsDueJob ==
    (pending_wake /\ Due(now)) ~> (pc = "job" \/ pc = "done" \/ faults > 0)

(* A job that has become due is run without any request, and after attempts *)
(* that failed to read or write the history, too.                           *)
DueJobRuns ==
    ScheduledTimeoutsElapse => (Due(now) ~> (pc = "job" \/ pc = "done" \/ lost))

-------------------------------------------------------------------------------
(* What the documentation says and the code does not do.                    *)

(* "Received KeyboardInterrupt, stopping": an interrupted job ends the loop.*)
InterruptStops == raised = "KeyboardInterrupt" ~> pc = "done"
===============================================================================
