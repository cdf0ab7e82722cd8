---------------------------- MODULE ScheduleProofs ----------------------------
(***************************************************************************)
(* Proofs about the scheduler loop and its controller, for every value of  *)
(* max_runs, with and without an interval, and for every bound on the run  *)
(* count.  The controller is treated first, under any order of calls of    *)
(* the loop thread; the loop is then shown to call it lawfully, and keeps  *)
(* an inductive invariant of its own.                                      *)
(***************************************************************************)
EXTENDS ScheduleRefinement, TLAPS

-------------------------------------------------------------------------------
(* The controller by itself.                                               *)

LEMMA CtrlTypingStep ==
    ASSUME CtrlTypeOK, [CtrlNext]_ctrlVars
    PROVE  CtrlTypeOK'
<1> USE DEF CtrlTypeOK, SchedulerState, Replies, NotifyAll, Answer
<1>1. CASE RequestStatus
  BY <1>1 DEF RequestStatus
<1>2. CASE RefuseWake
  BY <1>2 DEF RefuseWake
<1>3. CASE AcceptWake
  BY <1>3 DEF AcceptWake
<1>4. CASE RefuseRunNow
  BY <1>4 DEF RefuseRunNow
<1>5. CASE AcceptRunNow
  BY <1>5 DEF AcceptRunNow
<1>6. CASE RequestQuit
  BY <1>6 DEF RequestQuit
<1>7. CASE LoopCall
  BY <1>7 DEF LoopCall, WaitEnds, MarkRunning, MarkStopped, UpdateRunCount,
              TakeNextRunMode, WaitForWork
<1>8. CASE UNCHANGED ctrlVars
  BY <1>8 DEF ctrlVars
<1>9. QED
  BY <1>1, <1>2, <1>3, <1>4, <1>5, <1>6, <1>7, <1>8 DEF CtrlNext, HandleRequest

LEMMA CtrlTypingInit == CtrlInit => CtrlTypeOK
<1> SUFFICES ASSUME CtrlInit PROVE CtrlTypeOK
  OBVIOUS
<1>1. reply \in Replies
  BY DEF CtrlInit, Replies
<1>2. run_count \in 0..RunCountCap
  BY RunCountCapAssumption DEF CtrlInit
<1>3. QED
  BY <1>1, <1>2 DEF CtrlInit, CtrlTypeOK, SchedulerState

(* The controller's fields stay in their types under any order of calls.   *)
THEOREM ControllerTyping == CtrlSpec => []CtrlTypeOK
<1>1. CtrlTypeOK /\ [CtrlNext]_ctrlVars => CtrlTypeOK'
  BY CtrlTypingStep
<1>2. QED
  BY CtrlTypingInit, <1>1, PTL DEF CtrlSpec

LEMMA NoLostWakeupStep ==
    ASSUME CtrlTypeOK, NoLostWakeup, [CtrlNext]_ctrlVars
    PROVE  NoLostWakeup'
<1> USE DEF CtrlTypeOK, NoLostWakeup, HasPendingWork, NotifyAll, Answer
<1>1. CASE HandleRequest
  BY <1>1 DEF HandleRequest, RequestStatus, RefuseWake, AcceptWake,
              RefuseRunNow, AcceptRunNow, RequestQuit
<1>2. CASE WaitForWork
  BY <1>2 DEF WaitForWork
<1>3. CASE LoopCall /\ ~WaitForWork
  BY <1>3 DEF LoopCall, WaitEnds, MarkRunning, MarkStopped, UpdateRunCount,
              TakeNextRunMode
<1>4. CASE UNCHANGED ctrlVars
  BY <1>4 DEF ctrlVars
<1>5. QED
  BY <1>1, <1>2, <1>3, <1>4 DEF CtrlNext, LoopCall

(* Whatever the interleaving of requests and loop calls, the loop thread   *)
(* is never asleep while a wake, a forced run or a quit is pending.        *)
THEOREM ControllerNoLostWakeup == CtrlSpec => []NoLostWakeup
<1>1. CtrlInit => NoLostWakeup
  BY DEF CtrlInit, NoLostWakeup
<1>2. CtrlTypeOK /\ NoLostWakeup /\ [CtrlNext]_ctrlVars => NoLostWakeup'
  BY NoLostWakeupStep
<1>3. QED
  BY <1>1, <1>2, ControllerTyping, PTL DEF CtrlSpec

(* After a quit no request is accepted any more but another quit, and the  *)
(* loop thread does not go back to sleep.                                  *)
THEOREM ControllerQuitClosesTheDoor == CtrlSpec => QuitClosesTheDoor
<1>1. CtrlTypeOK /\ NoLostWakeup /\ [CtrlNext]_ctrlVars =>
        [quit_requested =>
            /\ quit_requested'
            /\ pending_wake' => pending_wake
            /\ pending_run_now' => pending_run_now
            /\ ~waiting']_ctrlVars
  <2> SUFFICES ASSUME CtrlTypeOK, NoLostWakeup, CtrlNext, quit_requested
               PROVE  /\ quit_requested'
                      /\ pending_wake' => pending_wake
                      /\ pending_run_now' => pending_run_now
                      /\ ~waiting'
    OBVIOUS
  <2> USE DEF CtrlTypeOK, NoLostWakeup, HasPendingWork, NotifyAll, Answer
  <2> USE DEF CtrlNext, HandleRequest, RequestStatus, RefuseWake, AcceptWake,
              RefuseRunNow, AcceptRunNow, RequestQuit, LoopCall, WaitEnds,
              MarkRunning, MarkStopped, UpdateRunCount, TakeNextRunMode,
              WaitForWork
  <2>1. quit_requested'
    OBVIOUS
  <2>2. pending_wake' => pending_wake
    OBVIOUS
  <2>3. pending_run_now' => pending_run_now
    OBVIOUS
  <2>4. ~waiting'
    OBVIOUS
  <2>5. QED
    BY <2>1, <2>2, <2>3, <2>4
<1>2. QED
  BY <1>1, ControllerTyping, ControllerNoLostWakeup, PTL
     DEF CtrlSpec, QuitClosesTheDoor

-------------------------------------------------------------------------------
(* The loop.  None of its invariants is inductive by itself: what bounds   *)
(* the late attempts, for one, is that quit_requested is tested before     *)
(* every attempt and never reset, and that no location between that test   *)
(* and the attempt is reached with the one late attempt already spent.     *)

\* The controller sees the loop thread wait only where the loop waits.
WaitsInPlace == waiting => pc = "waiting"

\* schedule() has an outcome exactly when it is past the loop.
ExitInv == exit = "none" <=> pc \notin {"finally", "closing", "done"}

\* The counter cannot move between a test of it and the attempt it allows.
CountInv ==
    MaxRuns # None =>
        /\ n_runs <= MaxRuns
        /\ pc \in {"take", "mark", "count"} \cup Attempting => n_runs < MaxRuns

LateInv ==
    /\ late <= 1
    /\ late = 1 => quit_requested /\ pc \notin {"take", "mark"}

LoopInv ==
    /\ TypeOK
    /\ NoLostWakeup
    /\ WaitsInPlace
    /\ ExitInv
    /\ JobIsVisible
    /\ ForcedIsScoped
    /\ CountInv
    /\ LateInv

LEMMA LoopTypingInit == Init => TypeOK
<1> SUFFICES ASSUME Init PROVE TypeOK
  OBVIOUS
<1>1. CtrlTypeOK
  BY CtrlTypingInit DEF Init
<1>2. n_runs \in 0..RunCountCap
  BY RunCountCapAssumption DEF Init
<1>3. pc \in Locations /\ late \in 0..2
  BY DEF Init, Locations
<1>4. QED
  BY <1>1, <1>2, <1>3 DEF Init, TypeOK

(* Every step of the loop is a call the controller allows, or leaves the   *)
(* controller alone.                                                       *)
LEMMA LoopStepCallsController ==
    ASSUME TypeOK, WaitsInPlace, [Next]_vars
    PROVE  [CtrlNext]_ctrlVars
<1> USE DEF TypeOK, CtrlTypeOK, WaitsInPlace, Locations
<1>1. NextRunCount \in 0..RunCountCap
  BY RunCountCapAssumption DEF NextRunCount
<1>2. CASE Request
  BY <1>2 DEF Request, CtrlNext
<1>3. CASE TakeRunMode \/ BeginAttempt \/ CountRun \/ Sleep \/ Finally
  <2>1. ~waiting
    BY <1>3 DEF TakeRunMode, BeginAttempt, CountRun, Sleep, Finally, Goto
  <2>2. LoopCall
    BY <1>1, <1>3, <2>1 DEF TakeRunMode, BeginAttempt, CountRun, Sleep, Finally,
                            LoopCall
  <2>3. QED
    BY <2>2 DEF CtrlNext
<1>4. CASE TestLoop \/ TouchHeartbeat \/ ConsultPredicate \/ RecordStart
           \/ FinishJob \/ Recheck \/ CheckPending \/ WakeUp \/ CloseServer
  BY <1>4 DEF TestLoop, TouchHeartbeat, ConsultPredicate, RecordStart,
              FinishJob, Recheck, CheckPending, WakeUp, CloseServer
<1>5. CASE IntervalElapsed
  BY <1>5 DEF IntervalElapsed, CtrlNext, LoopCall
<1>6. CASE Exception
  BY <1>6 DEF Exception, KeyboardInterruptInTry, KeyboardInterruptOutsideTry,
              AttemptRaises, CtrlNext, LoopCall
<1>7. CASE UNCHANGED vars
  BY <1>7 DEF vars
<1>8. QED
  BY <1>2, <1>3, <1>4, <1>5, <1>6, <1>7 DEF Next, LoopStep

LEMMA LoopTypingStep ==
    ASSUME TypeOK, WaitsInPlace, [Next]_vars
    PROVE  TypeOK'
<1>1. CtrlTypeOK'
  BY LoopStepCallsController, CtrlTypingStep DEF TypeOK
<1>2. NextRunCount \in 0..RunCountCap
  BY RunCountCapAssumption DEF NextRunCount, TypeOK
<1>3. late' \in 0..2
  BY DEF TypeOK, Next, LoopStep, Exception, Request, loopVars, vars, LeaveLoop,
         TestLoop, TakeRunMode, BeginAttempt, TouchHeartbeat, ConsultPredicate,
         RecordStart, FinishJob, CountRun, Recheck, CheckPending, Sleep, WakeUp,
         IntervalElapsed, KeyboardInterruptInTry, KeyboardInterruptOutsideTry,
         AttemptRaises, Finally, CloseServer
<1> USE <1>1, <1>2, <1>3 DEF TypeOK, Locations, Goto, LeaveLoop
<1>4. CASE Request
  BY <1>4 DEF Request, loopVars
<1>5. CASE TestLoop \/ TakeRunMode \/ BeginAttempt
  BY <1>5 DEF TestLoop, TakeRunMode, NextRunMode, BeginAttempt
<1>6. CASE TouchHeartbeat \/ ConsultPredicate \/ RecordStart \/ FinishJob
  BY <1>6 DEF TouchHeartbeat, ConsultPredicate, RecordStart, FinishJob
<1>7. CASE CountRun \/ Recheck \/ CheckPending \/ Sleep \/ WakeUp
  BY <1>7 DEF CountRun, Recheck, CheckPending, Sleep, WakeUp
<1>8. CASE Finally \/ CloseServer \/ IntervalElapsed
  BY <1>8 DEF Finally, CloseServer, IntervalElapsed
<1>9. CASE Exception
  BY <1>9 DEF Exception, KeyboardInterruptInTry, KeyboardInterruptOutsideTry,
              AttemptRaises
<1>10. CASE UNCHANGED vars
  BY <1>10 DEF vars, loopVars
<1>11. QED
  BY <1>4, <1>5, <1>6, <1>7, <1>8, <1>9, <1>10 DEF Next, LoopStep

LEMMA LoopInvInit == Init => LoopInv
<1> SUFFICES ASSUME Init PROVE LoopInv
  OBVIOUS
<1>1. TypeOK
  BY LoopTypingInit
<1>2. CountInv
  BY ScheduleAssumption DEF Init, CountInv, Attempting
<1>3. NoLostWakeup /\ WaitsInPlace
  BY DEF Init, CtrlInit, NoLostWakeup, WaitsInPlace
<1>4. ExitInv /\ JobIsVisible /\ ForcedIsScoped /\ LateInv
  BY DEF Init, ExitInv, JobIsVisible, ForcedIsScoped, LateInv, Attempting
<1>5. QED
  BY <1>1, <1>2, <1>3, <1>4 DEF LoopInv

\* A request of a client, at any point of the loop.
LEMMA RequestKeepsInv ==
    ASSUME LoopInv, Request
    PROVE  LoopInv'
<1> USE DEF LoopInv, Request, loopVars
<1>1. [Next]_vars
  BY DEF Next
<1>2. TypeOK' /\ NoLostWakeup'
  BY <1>1, LoopTypingStep, LoopStepCallsController, NoLostWakeupStep DEF TypeOK
<1>3. /\ waiting' => waiting
      /\ quit_requested => quit_requested'
      /\ state = "running" => state' = "running"
  BY DEF HandleRequest, RequestStatus, RefuseWake, AcceptWake, RefuseRunNow,
         AcceptRunNow, RequestQuit, NotifyAll, TypeOK, CtrlTypeOK
<1>4. QED
  BY <1>2, <1>3 DEF WaitsInPlace, ExitInv, JobIsVisible, ForcedIsScoped,
                    CountInv, LateInv

\* A step of the loop.
LEMMA LoopStepKeepsInv ==
    ASSUME LoopInv, LoopStep \/ IntervalElapsed
    PROVE  LoopInv'
<1> USE DEF LoopInv
<1>1. [Next]_vars
  BY DEF Next
<1>2. TypeOK' /\ NoLostWakeup'
  BY <1>1, LoopTypingStep, LoopStepCallsController, NoLostWakeupStep DEF TypeOK
<1>3. MaxRuns # None => MaxRuns \in Nat /\ MaxRuns <= RunCountCap
  BY ScheduleAssumption
<1> USE <1>1, <1>2, <1>3
        DEF WaitsInPlace, ExitInv, JobIsVisible, ForcedIsScoped, CountInv,
            LateInv, Attempting, Goto, LeaveLoop, TypeOK, CtrlTypeOK
<1>4. CASE TestLoop
  BY <1>4 DEF TestLoop, ShouldStopLoop, ctrlVars
<1>5. CASE TakeRunMode
  BY <1>5 DEF TakeRunMode, TakeNextRunMode
<1>6. CASE BeginAttempt
  <2> USE <1>6 DEF BeginAttempt, MarkRunning, NotifyAll
  <2>1. ForcedIsScoped'
    <3>1. exit' = "none" /\ exit = "none" /\ ~forced /\ pc' = "heartbeat"
      OBVIOUS
    <3>2. forced' <=> mode' = "run-now"
      BY <3>1
    <3>3. QED
      BY <3>1, <3>2
  <2>2. LateInv'
    <3>1. late = 0
      OBVIOUS
    <3>2. QED
      BY <3>1
  <2>3. WaitsInPlace' /\ ExitInv' /\ JobIsVisible' /\ CountInv'
    OBVIOUS
  <2>4. QED
    BY <2>1, <2>2, <2>3
<1>7. CASE TouchHeartbeat \/ ConsultPredicate \/ RecordStart \/ FinishJob
  BY <1>7 DEF TouchHeartbeat, ConsultPredicate, RecordStart, FinishJob, ctrlVars
<1>8. CASE CountRun
  BY <1>8 DEF CountRun, NextRunCount, UpdateRunCount, NotifyAll
<1>9. CASE Recheck \/ CheckPending
  BY <1>9 DEF Recheck, CheckPending, ctrlVars
<1>10. CASE Sleep
  BY <1>10 DEF Sleep, WaitForWork
<1>11. CASE WakeUp \/ IntervalElapsed
  BY <1>11 DEF WakeUp, IntervalElapsed, WaitEnds, ctrlVars
<1>12. CASE Finally \/ CloseServer
  BY <1>12 DEF Finally, MarkStopped, NotifyAll, CloseServer, ctrlVars
<1>13. QED
  BY <1>4, <1>5, <1>6, <1>7, <1>8, <1>9, <1>10, <1>11, <1>12 DEF LoopStep

\* An exception that ends the loop.
LEMMA ExceptionKeepsInv ==
    ASSUME LoopInv, Exception
    PROVE  LoopInv'
<1> USE DEF LoopInv
<1>1. [Next]_vars
  BY DEF Next
<1>2. TypeOK' /\ NoLostWakeup'
  BY <1>1, LoopTypingStep, LoopStepCallsController, NoLostWakeupStep DEF TypeOK
<1>3. /\ pc' = "finally" /\ exit' \in {"interrupt", "raised"}
      /\ UNCHANGED <<mode, forced, n_runs, late, quit_requested>>
  BY DEF Exception, KeyboardInterruptInTry, KeyboardInterruptOutsideTry,
         AttemptRaises, LeaveLoop, WaitEnds, ctrlVars
<1>4. ~waiting'
  BY DEF Exception, KeyboardInterruptInTry, KeyboardInterruptOutsideTry,
         AttemptRaises, InsideTry, Attempting, WaitsInPlace, WaitEnds, ctrlVars
<1>5. QED
  BY <1>2, <1>3, <1>4 DEF WaitsInPlace, ExitInv, JobIsVisible, ForcedIsScoped,
                          CountInv, LateInv, Attempting

LEMMA LoopInvariance == Spec => []LoopInv
<1>1. LoopInv /\ [Next]_vars => LoopInv'
  <2> SUFFICES ASSUME LoopInv, [Next]_vars PROVE LoopInv'
    OBVIOUS
  <2>1. CASE UNCHANGED vars
    BY <2>1 DEF vars, ctrlVars, loopVars, LoopInv, TypeOK, CtrlTypeOK,
                NoLostWakeup, HasPendingWork, WaitsInPlace, ExitInv,
                JobIsVisible, ForcedIsScoped, CountInv, LateInv
  <2>2. QED
    BY <2>1, RequestKeepsInv, LoopStepKeepsInv, ExceptionKeepsInv DEF Next
<1>2. QED
  BY LoopInvInit, <1>1, PTL DEF Spec

(* The loop's variables and the controller's stay in their types.          *)
THEOREM LoopTyping == Spec => []TypeOK
  BY LoopInvariance, PTL DEF LoopInv

(* The loop calls the controller only in ways CtrlSpec allows, so whatever *)
(* is proved of the controller under CtrlSpec holds of it in the loop.     *)
THEOREM LoopUsesController == Spec => CtrlSpec
<1>1. Init => CtrlInit
  BY DEF Init
<1>2. LoopInv /\ [Next]_vars => [CtrlNext]_ctrlVars
  BY LoopStepCallsController DEF LoopInv
<1>3. QED
  BY <1>1, <1>2, LoopInvariance, PTL DEF Spec, CtrlSpec

(* An attempt under way is shown to clients as "running".                  *)
THEOREM LoopJobIsVisible == Spec => []JobIsVisible
  BY LoopInvariance, PTL DEF LoopInv

(* A forced answer of the run predicate never outlives its attempt.        *)
THEOREM LoopForcedIsScoped == Spec => []ForcedIsScoped
  BY LoopInvariance, PTL DEF LoopInv

(* No interleaving makes the loop begin more than max_runs attempts.       *)
THEOREM LoopMaxRunsRespected == Spec => []MaxRunsRespected
<1>1. LoopInv => MaxRunsRespected
  BY DEF LoopInv, CountInv, MaxRunsRespected
<1>2. QED
  BY <1>1, LoopInvariance, PTL

(* A quit lets at most one more attempt begin.                             *)
THEOREM LoopAtMostOneLateAttempt == Spec => []AtMostOneLateAttempt
<1>1. LoopInv => AtMostOneLateAttempt
  BY DEF LoopInv, LateInv, AtMostOneLateAttempt
<1>2. QED
  BY <1>1, LoopInvariance, PTL

(* An accepted forced run is consumed only by a forced attempt.            *)
THEOREM LoopRunNowNotDowngraded == Spec => RunNowNotDowngraded
<1>1. LoopInv /\ [Next]_vars =>
        [pending_run_now /\ ~pending_run_now'
            => mode' = "run-now" /\ pc' = "mark"]_vars
  <2> SUFFICES ASSUME LoopInv, Next, pending_run_now, ~pending_run_now'
               PROVE  mode' = "run-now" /\ pc' = "mark"
    OBVIOUS
  <2>1. TakeRunMode
    BY DEF Next, Request, HandleRequest, RequestStatus, RefuseWake, AcceptWake,
           RefuseRunNow, AcceptRunNow, RequestQuit, LoopStep, TestLoop,
           BeginAttempt, TouchHeartbeat, ConsultPredicate, RecordStart,
           FinishJob, CountRun, Recheck, CheckPending, Sleep, WakeUp, Finally,
           CloseServer, IntervalElapsed, Exception, KeyboardInterruptInTry,
           KeyboardInterruptOutsideTry, AttemptRaises, MarkRunning,
           MarkStopped, UpdateRunCount, WaitForWork, WaitEnds, ctrlVars
  <2>2. QED
    BY <2>1 DEF TakeRunMode, NextRunMode, Goto
<1>2. QED
  BY <1>1, LoopInvariance, PTL DEF Spec, RunNowNotDowngraded

-------------------------------------------------------------------------------
(* The loop and its controller implement ControlPromise.                   *)

LEMMA OwedIsPending ==
    /\ RequestsOwed = {} <=> ~pending_wake /\ ~pending_run_now
    /\ RequestsOwed' = {} <=> ~pending_wake' /\ ~pending_run_now'
  BY DEF RequestsOwed

LEMMA OwedUnchanged ==
    ASSUME UNCHANGED <<pending_wake, pending_run_now>>
    PROVE  RequestsOwed' = RequestsOwed
  BY DEF RequestsOwed

\* A request accepted or refused maps to Ask, AskToLeave or a stutter.
LEMMA RequestKeepsPromise ==
    ASSUME LoopInv, Request
    PROVE  [Client!PromiseNext]_(Client!promiseVars)
<1> USE DEF Request, loopVars, Client!promiseVars, PhaseShown, NotifyAll
<1>1. PhaseShown # "over"
  BY DEF LoopInv
<1>2. CASE RequestStatus \/ RefuseWake \/ RefuseRunNow
  BY <1>2, OwedUnchanged DEF RequestStatus, RefuseWake, RefuseRunNow
<1>3. CASE AcceptWake
  <2>1. RequestsOwed' = RequestsOwed \cup {"wake"}
    BY <1>3 DEF AcceptWake, RequestsOwed
  <2>2. Client!Ask("wake")
    BY <1>1, <1>3, <2>1 DEF AcceptWake, Client!Ask
  <2>3. QED
    BY <2>2 DEF Client!PromiseNext, Client!Requests
<1>4. CASE AcceptRunNow
  <2>1. RequestsOwed' = RequestsOwed \cup {"run-now"}
    BY <1>4 DEF AcceptRunNow, RequestsOwed
  <2>2. Client!Ask("run-now")
    BY <1>1, <1>4, <2>1 DEF AcceptRunNow, Client!Ask
  <2>3. QED
    BY <2>2 DEF Client!PromiseNext, Client!Requests
<1>5. CASE RequestQuit
  <2>1. Client!AskToLeave
    BY <1>1, <1>5, OwedUnchanged DEF RequestQuit, Client!AskToLeave
  <2>2. QED
    BY <2>1 DEF Client!PromiseNext
<1>6. QED
  BY <1>2, <1>3, <1>4, <1>5 DEF HandleRequest

\* A step of the loop maps to TurnToRequests, Rest, Stir, End or a stutter.
LEMMA LoopStepKeepsPromise ==
    ASSUME LoopInv, LoopStep \/ IntervalElapsed \/ Exception
    PROVE  [Client!PromiseNext]_(Client!promiseVars)
<1> USE DEF LoopInv, TypeOK, CtrlTypeOK, WaitsInPlace, Client!promiseVars,
            Client!PromiseNext, PhaseShown, Goto, NotifyAll
<1>1. CASE TakeRunMode
  <2>1. Client!TurnToRequests
    BY <1>1, OwedIsPending DEF TakeRunMode, TakeNextRunMode,
                               Client!TurnToRequests
  <2>2. QED
    BY <2>1
<1>2. CASE Sleep
  <2>1. RequestsOwed' = RequestsOwed /\ quit_requested' = quit_requested
    BY <1>2, OwedUnchanged DEF Sleep, WaitForWork
  <2>2. CASE waiting'
    <3>1. Client!Rest
      BY <1>2, <2>1, <2>2, OwedIsPending DEF Sleep, WaitForWork, Client!Rest
    <3>2. QED
      BY <3>1
  <2>3. CASE ~waiting'
    BY <1>2, <2>1, <2>3 DEF Sleep
  <2>4. QED
    BY <2>2, <2>3
<1>3. CASE IntervalElapsed
  <2>1. Client!Stir
    BY <1>3, OwedUnchanged DEF IntervalElapsed, WaitEnds, Client!Stir
  <2>2. QED
    BY <2>1
<1>4. CASE CloseServer
  <2>1. Client!End
    BY <1>4, OwedUnchanged DEF CloseServer, ctrlVars, Client!End
  <2>2. QED
    BY <2>1
<1>5. CASE Exception
  <2>1. /\ RequestsOwed' = RequestsOwed
        /\ quit_requested' = quit_requested
        /\ pc # "done" /\ pc' = "finally" /\ ~waiting'
    BY <1>5, OwedUnchanged
       DEF Exception, KeyboardInterruptInTry, KeyboardInterruptOutsideTry,
           AttemptRaises, InsideTry, Attempting, LeaveLoop, WaitEnds, ctrlVars
  <2>2. QED
    BY <2>1 DEF Client!Stir
<1>6. CASE BeginAttempt \/ CountRun \/ Finally
  BY <1>6, OwedUnchanged DEF BeginAttempt, CountRun, Finally, MarkRunning,
                             UpdateRunCount, MarkStopped
<1>7. CASE TestLoop \/ TouchHeartbeat \/ ConsultPredicate \/ RecordStart
           \/ FinishJob \/ Recheck \/ CheckPending \/ WakeUp
  BY <1>7, OwedUnchanged
     DEF TestLoop, LeaveLoop, TouchHeartbeat, ConsultPredicate, RecordStart,
         FinishJob, Recheck, CheckPending, WakeUp, ctrlVars
<1>8. QED
  BY <1>1, <1>2, <1>3, <1>4, <1>5, <1>6, <1>7 DEF LoopStep

(* What clients are promised is what the two threads do: no accepted       *)
(* request is lost except at the end, none is slept over, and nothing is   *)
(* accepted once the scheduler is leaving.                                 *)
THEOREM LoopKeepsPromise == Spec => KeepsPromiseSafely
<1>1. Init => Client!PromiseInit
  BY OwedIsPending DEF Init, CtrlInit, Client!PromiseInit, PhaseShown
<1>2. LoopInv /\ [Next]_vars => [Client!PromiseNext]_(Client!promiseVars)
  <2> SUFFICES ASSUME LoopInv, [Next]_vars
               PROVE  [Client!PromiseNext]_(Client!promiseVars)
    OBVIOUS
  <2>1. CASE UNCHANGED vars
    BY <2>1, OwedUnchanged DEF vars, ctrlVars, loopVars, Client!promiseVars,
                               PhaseShown
  <2>2. QED
    BY <2>1, RequestKeepsPromise, LoopStepKeepsPromise DEF Next
<1>3. QED
  BY <1>1, <1>2, LoopInvariance, PTL
     DEF Spec, KeepsPromiseSafely, Client!PromiseSafety
===============================================================================
