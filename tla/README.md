# TLA+ verification of scheduling-util-py

This directory holds TLA+ models of the control logic of `scheduling_util`, the
TLC configurations that check them on small instances, and TLAPS proofs of the
central results for every value of the constants. The Python source under
`src/src/scheduling_util/` is the reference; file and line numbers below are of
that source.

## 1. The system

`schedule()` runs a job in a loop. Each turn of the loop (a *tick*) touches a
heartbeat file, asks a *run predicate* whether the job is due, and if so runs the
job between two records in a *history file*. A Unix socket lets clients wake the
loop, force a run, or ask it to quit. Several schedulers may share a history
file, a rate limiter's file, or by mistake a socket path, so most of the state
lives in files that other processes read and write.

| Component | Source | State it keeps | Operations | Hard part |
|---|---|---|---|---|
| Scheduler controller | `_controller.py` | scheduler state shown to clients, two pending flags, quit flag, run count, a condition variable | `handle_request` (status, wake, run-now, quit); `mark_running`, `mark_stopped`, `update_run_count`, `take_next_run_mode`, `has_pending_work`, `wait_for_work` | two threads, lost wakeups, flags consumed in another order than they were set |
| Scheduler loop | `_schedule.py` 298-361 | run counter, run mode, forced answer of the predicate | tick, sleep, exceptions, shutdown | requests between any two statements; exceptions at any point |
| Attempt history | `_last_run_history.py` | JSON file, one copy per process, file lock | load, refresh, append, discard, persist, reset | a crash in the middle of a rewrite; several writers with copies |
| Last-run wrapper, predicate | `_last_run.py` | none but the history | `wrap`, `__call__`, `force_next_return_value` | three policies; a history that forgets; check and record are separate critical sections |
| Path locks | `_lock.py` | registry of state objects per process, RLock, nesting depth, reference count, flock | enter, nested enter, leave | objects made and dropped while others use them; threads and processes |
| Timestamp rate limiter | `_rate_limiter.py` 1-118 | modification time of a file | `ping`, `ping_if_ready`, `is_ready` | check and act across processes; creation of the file |
| Rolling window limiter | `_rate_limiter.py` 120-300 | JSON list of times | `ping`, `ping_if_ready`, `is_ready` | boundary of the window; crash around `os.replace` |
| Control socket | `_controller_socket.py` | socket path, listening socket, server thread | `start`, `stop`, serve, client request | probe, unlink and bind of different processes interleave; a client gives up while it is served |
| Slack error boundary | `_send_errors_to_slack.py` | none but its limiter, shared by all schedulers of a cache directory | wraps the attempt | charged before the post, which is late or fails; may raise from its own handler |
| Healthchecks configuration | `_schedule.py` 126-257 | the check, once configured | runs once before the loop | options tested in three ways; what fails is raised or survived, and decides what is sent next |
| Reports of an attempt | `_schedule.py` 259-316 | none | pings around the job, outcome | a ping that fails turns a success into a failure |
| Command line and options | `_schedule_cli.py`, `_click_options.py` | none | checks, exit codes to outcomes, control commands | the same checks twice, three kinds of jobs that end differently |
| Logging, `repeat()`, examples | `_logging_util.py`, `_schedule.py`, `_example_commands.py` | none | - | - |

How they interact:

- Client -> control socket -> `handle_request` on the *server thread*; the *loop
  thread* calls the other controller methods. They share the controller object,
  under the lock of its condition variable.
- Loop -> `attempt()` -> Slack boundary -> `LastRun.wrap` -> predicate -> history.
  A forced run reaches the predicate as a stored answer that its next call consumes.
- History -> reentrant path lock -> flock. Rate limiters -> `exclusive_path_lock`.
- Processes meet only in files: history, limiter files, lock files, socket path.

What makes each component correct is stated in section 4, what can go wrong in
it is listed, line by line, under "hazards" in `PROJECT.json`.

## 2. Modules

| Module | Models | State and actions |
|---|---|---|
| `ScheduleController` | class `ScheduleController` | one variable per field, `waiting` for a thread inside `Condition.wait`. Every method holds the lock from start to end and is one action; `wait_for_work` is split at `Condition.wait` (`WaitForWork`, `WaitEnds`). `CtrlNext` lets the loop thread call in any order. |
| `Schedule` | the loop of `schedule()` with `attempt()` | `pc` names the statement executed next; a step is one controller call or one part of the attempt. Predicate and job are nondeterministic. `KeyboardInterrupt` and escaping exceptions are actions. |
| `ControlPromise` | *abstract*: what a client may rely on | a request is owed until it is turned to, nobody rests while something is owed, leaving ends |
| `ScheduleRefinement` | the refinement mapping `Schedule` -> `ControlPromise` | resting = the thread is a waiter; owed = the pending flags; leaving = quit flag |
| `ScheduledJob` | `schedule()` as a whole: `Schedule` composed with an instance of `LastRun` for its one process | each action is a conjunction of one action of either module, or one of one of them; what `Schedule` leaves open is decided by the history, what `LastRun` leaves open is driven by the loop. Adds what the job raises, failing reads and writes, and the ghost variables `faults` and `requested` |
| `ScheduledJobProofs` | proofs; uses `ScheduleProofs` by EXTENDS and `LastRunProofs` by INSTANCE | - |
| `ScheduleProofs` | proofs about the two modules and the refinement | - |
| `LastRunHistory` | class `LastRunHistory`, several processes, one file | `file` is absent, torn or whole; `append` is `BeginAppend`, `Truncate`, `FinishWrite`, because `write_bytes` truncates first |
| `HistoryLog` | *abstract*: one shared log of the newest entries | with and without loss |
| `MCLastRunHistory` | symmetry for TLC | - |
| `LastRun` | `LastRun.wrap` and `RunPredicate`, composed with `LastRunHistory` by EXTENDS | adds a clock, each process's place in the wrapper, and ghost variables `ended`, `failed`, `succeeded` (what really happened to the job, which the properties compare with what is on file) and `lost` (a crash, a failed write or a reset has made them differ) |
| `LastRunProofs` | proofs about the history, the wrapper and the predicate | - |
| `PathLock` | `reentrant_exclusive_path_lock` | registry per process, RLock owner and count, depth, references, flock; a thread's nested entries are a stack of frames that name the object they use |
| `Mutex` | *abstract*: a mutex | - |
| `MCPathLock` | four threads in two processes for TLC | - |
| `PathLockProofs` | proofs | - |
| `RateLimiter` | `RateLimiter` with a path, and `exclusive_path_lock` on that file | the creation of the file (open, lock, set its time back to 0) is in steps of its own |
| `SlackBoundary` | `send_errors_to_slack` around `RateLimiter` (by EXTENDS), in several schedulers | the handler asks and charges the limiter, and posts in a later step that may fail |
| `RateLimiterProofs` | proofs about the limiter and the boundary | - |
| `RollingWindow` | `RollingWindowRateLimiter` with a path | lock, prune, append, `os.replace`, unlock; ghost variable `events`. The code only appends to the list of times, filters it and takes its length, so it is a set of stamps, told apart by the numbers of their events |
| `RollingWindowProofs` | proofs | - |
| `ControlSocket` | server `start`/`stop`/`_serve_forever` and the client | the path holds the socket of one process, dead or alive. Each step of `start` (`Starting`) and `stop` (`Stopping`) is an action that succeeds; `FailStart`, `FailStop` and `Crash` end the process at any of them, and what it has bound stays at the path. Ghost variables `overlapped` and `cut` (the processes that ended so after `bind`). A client stands for one connection |
| `ControlSocketProofs` | proofs | - |
| `CommandLine` | what the commands make of exit code options and of the end of a job | operators only |
| `Startup` | command line and `schedule()` up to the loop | `stage` is where the program is; each request to Healthchecks is an action that succeeds, is survived with a warning, or raises. Description, timeout and grace are told apart by how they are treated: a value, or a duration that is zero, which is given (lines 151, 156) but not sent (192-193). `applied` is the set of parts that Healthchecks has accepted. `CallSchedule` enters without a command line |
| `JobReport` | one attempt after that startup: `hc_func`, pings, recorded outcome, boundary | a ping may raise, delivered or not; the context manager of the external check pings the start, and a failure when it is left by an exception |
| `JobReportProofs` | proofs about `Startup` and `JobReport` | - |

Operators whose comment begins with "Mutant:" are deliberately wrong variants of
the definition below them. They are used nowhere in the models; replacing the
definition by the variant must make the property violated that `PROJECT.json`
("mutants") names, which shows that the property depends on that line of the code.

## 3. Runs

`tlc -config <cfg> <module>` for each. The nine passing runs, together with what bounds them:

| Run | Module / cfg | Bounds | Shows |
|---|---|---|---|
| `schedule_limited` | `ScheduleRefinement` / `Schedule_limited` | `MaxRuns` = 2 | safety of loop and controller against every interleaving of requests and exceptions; refinement of the safety part of `ControlPromise`; the loop ends by itself |
| `scheduled_job` | `ScheduledJob` / `Scheduled_job` | no `MaxRuns`, counter capped at 1; policy stall with `max_failures` 1; outcomes success and failure; success period 1, others 0; `max_entries` 2; clock to 2; one failing read or write | runs happen when due or asked for, each of these happens, what happened is on record; liveness of `ControlPromise` |
| `history_crashes` | `MCLastRunHistory` / `History_crashes` | 3 processes, 2 entries, `max_entries` 2 | the file is one log, lost as a whole or not at all |
| `last_run` | `LastRun` / `LastRun` | 1 process, restarts, crashes, failed writes, resets, all 3 policies and outcomes, forced runs, `max_failures` 2, `max_entries` 5, periods 2, 1, 0, clock to 3 | what is decided from the file is what the policy says of the truth; no completion on record without its start |
| `path_lock` | `MCPathLock` / `PathLock` | 2 processes x 2 threads, nesting 3, 3 objects, kills | no self-deadlock, one object per process, refinement of `Mutex`, progress |
| `limiter` | `SlackBoundary` / `Limiter` | 3 schedulers, period 2, clock to 4, errors, other uses of the limiter, failing posts, crashes, existing file | actions are spaced, denials are grounded, posts do not outnumber the periods |
| `window` | `RollingWindow` / `Window` | 2 processes, 2 events per window of 2, clock to 5, `ping` up to 4 events, crashes | no over-full window is granted, nothing is forgotten |
| `socket` | `ControlSocket` / `Socket` | 2 schedulers, 2 connections, kills, starts and stops that fail at any step, failing `accept` | answers are true, connections are kept and end, the running scheduler is reachable |
| `command_line` | `JobReport` / `Command_line` | all 1296 combinations of 7 options (keys and names absent, empty, given; durations of zero), exit codes 0 and 1 in all pairs of disjoint sets, `--check` or not, every failure of a request or ping, every end of a job | work starts as configured or with a warning; ping, record and post agree with the table of outcomes |

Why the bounds suffice. The controller has two boolean flags and one counter;
2 runs reach both tests of the counter and a turn of the loop between them, and
beyond the cap the counter influences nothing. In the history, 2 entries in a log of 2 distinguish
order, loss and truncation; the third process is one that neither writes nor
crashes. Five entries are more than two failures with their starts, so that a success followed by failures, and
failures pushed out by others, both occur. Nesting 3 has an entry that is neither
outermost nor innermost; 3 objects allow an object to be replaced while the other
process has one too. The window of 2 events meets the boundary `timestamp > now - window` in both
directions. Two schedulers suffice for every race on one path; three clients
add nothing because the thread serves one at a time and the others queue.

In `scheduled_job` a success
period of 1 and a clock to 2 let a job be too early, due, and overtaken by a second
completion; `max_failures` 1 lets it stall, so that only a request starts it;
`max_entries` 2 is one attempt, so that each append pushes an entry out. In
`limiter` three schedulers are one that posts late, one that is granted meanwhile
and one that crashes. In `command_line` one code can be in one set, the other in
neither, or both in the same.

Deadlock is not checked: in all models the system may stop
(a scheduler ends, a clock reaches its bound, clients are done).

### Disagreements between code and documentation

Three are runs that TLC must find violated:

| Run | Property | The text | What the code does |
|---|---|---|---|
| `hot_retry` | `FailurePeriodKept` | `_schedule.py:102` "The minimum time to wait after a failed run before allowing the next run." | under `success_schedule` with `max_failures` reached, only the age of the last success counts: a failing job is retried at once |
| `limiter_creation` | `ActionsAreSpaced` | `_rate_limiter.py:80-82`: concurrent processes do not all pass the check | the creator of the file sets its time to 0 after another process has recorded its action |
| `stop_start` | `UnlinksItsOwn` | `_controller_socket.py:116` "close the socket, join the server thread, and unlink it" | `stop()` unlinks whatever socket is at the path, another scheduler's too |

The same modules state more of them. Each has a configuration of its own, which
ends in a counterexample:

| Configuration (module) | Property | The text | What the code does |
|---|---|---|---|
| `Late_attempt` (`Schedule`) | `NoAttemptAfterQuit` | `README.md:151` quit stops "after the current job finishes" | one attempt may begin after quit was accepted (lines 333-337); never two |
| `Dropped_run_now` (`Schedule`) | `AcceptedRunNowIsNotDropped` | `README.md:150` "Run the job now" | a run-now accepted in the last turn is answered "Run requested." and never runs |
| `Stopped_final` (`Schedule`) | `StoppedIsFinal` | `_controller.py:275` "Mark the scheduler as fully stopped." | a quit after the loop's end takes the state back to "stopping" |
| `Busy_skipped` (`Schedule`) | `BusyMeansRunning` | `_controller.py:223` "Scheduler is already running the job." | said between ticks and during skipped ones, too |
| `Short_history` (`LastRun`) | `StallHolds` | `_last_run.py:262` "Human intervention is required" | a `max_entries` too small for `max_failures` failures makes the policy retry for ever; neutral outcomes between failures do the same to longer ones |
| `Forgotten_success` (`LastRun`) | `SuccessScheduleKept` | `_last_run.py:263` "after the last successful run, if there is one" | when failures push the success out of the history, the job stalls |
| `Stall_at_max` (`LastRun`) | `StallsOnlyAfterMore` | `_last_run.py:259` "failed more than `max_failures` times" | it stalls at `max_failures` |
| `Torn_history` (`LastRun`) | `NoEarlyRun` | `_schedule.py:100` minimum time after a run | a crash between truncating and writing loses the history; the job runs at once after the restart |
| `Two_schedulers` (`LastRun`) | `NoEarlyRun` | `_last_run.py:125` "only runs if it has not run too recently" | decision and start record are separate critical sections: two processes both run |
| `Limiter_first_call` (`RateLimiter`) | `DenialIsGrounded` | `_rate_limiter.py:78` "True if enough time has passed" | the new file's own modification time denies the first action of another process |
| `Two_starts` (`ControlSocket`) | `OnlyOneRuns` | `_controller_socket.py:152` refuses a second scheduler | two that start together both run, one of them unreachable |
| `Swallowed_interrupt` (`ScheduledJob`) | `InterruptStops` | `_schedule.py:344` "Received KeyboardInterrupt, stopping" | when the append of the completion fails, its exception (`_last_run.py:169`) replaces the interrupt of the job, the boundary keeps it, and the loop goes on |
| `Silent_metadata` (`JobReport`) | `NothingDroppedSilently` | `README.md` of the repository: "Missing management keys or check identities remain errors in either mode." | description, timeout and grace are dropped without error or warning if the key is an empty string, or if there is a key but no UUID and no name with ping key |
| `Click_exit` (`JobReport`) | `ClickExitsAreMapped` | `_click_options.py:206` "exit codes that are considered neutral" | `ctx.exit(code)` of an invoked Click command is an exception that only Click's own `main` translates: it is a failure whatever the code |
| `Unposted_exit` (`JobReport`) | `RaisedIsPosted` | `README.md:77` of the repository: "Raise an exception", "Send message with exception details." | a `SystemExit` of a function is recorded and pinged as a failure, but `_send_errors_to_slack.py:40` catches only `Exception`: nothing is posted, and the scheduler ends |
| `Dead_thread` (`ControlSocket`) | `AcceptsUntilStopped` | `_controller_socket.py:160` "until the server is stopped" | one `OSError` of `accept()` ends the thread; the socket keeps taking connections |

## 4. Properties

- **Loop and controller.** `NoLostWakeup`: the loop thread never sleeps over a
  request that came between its test and its wait. `JobIsVisible`,
  `ForcedIsScoped`, `MaxRunsRespected`, `AtMostOneLateAttempt`,
  `RunNowNotDowngraded`, `QuitClosesTheDoor` relate the two threads' views at
  every interleaving. `MaxRunsEnd` is liveness; `KeepsPromiseSafely` is the
  refinement.
- **The whole of `schedule()`.** `EarlyRunsAreRequested`: through loop, forced
  answer, predicate and history, a run that is not due by the job's real
  completions was asked for by a client, one run for one or more requests.
  `CompletionsAreRecorded`: whatever ends the job or the loop, the last completion
  on record is the one that has happened. `RunNowIsRun`, `WakeRunsDueJob`,
  `DueJobRuns`: an accepted forced run is run, a wake runs a due job, and a job
  that becomes due is run without any request, unless the loop ends first or a
  read or write of the history fails; `KeepsPromise` is the whole abstract promise.
- **History and policy.** `IsLossyLog` (refinement of `HistoryLog`).
  `DecisionFollowsTruth`: written, truncated, re-read and counted, the history
  still leads to the decision the policy makes of the job's real completions, as
  long as what it goes by is on record (`OnRecord`; the configurations
  `Short_history` and `Forgotten_success` show what happens otherwise).
  It is not claimed once a fault has lost an entry (`lost`). `HistoryAlternates`: starts and completions pair up across crashes.
- **Locks.** `IsMutex` (refinement of `Mutex`: at most one thread inside, and no
  two in turn without a gap), `NoSelfDeadlock`, `OneObjectPerProcess`, `LockIsPassedOn`.
- **Limiters.** `ActionsAreSpaced`, `DenialIsGrounded`, `WindowHolds`,
  `NothingForgotten`. `PostsAreFew`: posts to Slack, those granted and still to be
  made included, never outnumber the periods that have begun.
- **Startup and reports.** `WorkStartsConfigured`: when the loop is reached, each
  part of the configuration was accepted, or a warning tells of it and the policy
  allows it; routing was sent only for a check that is known, or for an empty UUID
  given as such. Metadata is dropped without a word in three cases (`DroppedSilently`): the key
  is empty, nothing identifies the check, or a duration is zero (`_schedule.py:192-193`
  test it by its truth). The property says that there is no fourth, and that what
  is dropped is not sent. `Silent_metadata` shows that the first two contradict the documentation;
  it says nothing of a zero duration.
  `OutcomesAreTold`: for every command, exit code option and end of a job, ping
  and record agree with the table in the repository's README, and Slack is told if
  and only if an `Exception` was raised: not of a returned failure, nor of a code that
  is mapped to one. `SystemExit` and `KeyboardInterrupt` end the scheduler without a
  post (`Unposted_exit`). A ping that raises makes it a recorded and
  posted failure, never a success.
- **Socket.** `AnswersAreTrue`: an answer means applied once, an error answer not
  applied, across timeouts and crashes. `ConnectionsAreKept`, `ConnectionsEnd`.
  `RunningIsReachable` holds unless a scheduler was started while another one was
  starting or stopping (ghost variable `overlapped`; `Two_starts` and `Stop_start`
  show that the condition is necessary), also over what earlier ones have left at the path.
  `NoSocketLeftBehind`: only a scheduler that was killed, or that an exception has cut
  short after `bind`, outlives itself there (`cut`). The code does leave it so:
  `_controller_socket.py:102-104` close the socket and do not unlink it, line 112 is outside the
  `try`, and `__exit__` is not called when `__enter__` raises.

### Fairness

- `Schedule!FairSpec`: weak fairness of `LoopStep`. The operating system schedules
  the loop thread, and jobs return. The latter is an assumption on the user's
  job. `MaxRunsEnd` adds `TimeoutsElapse` (`Condition.wait`
  honours its timeout) as a hypothesis.
- `ScheduledJob!FairScheduledSpec`: weak fairness of `Advance`, the steps of the
  loop thread, the return of the job among them. Not of faults, interrupts, the
  clock, requests or timeouts: `RunNowIsRun`, `WakeRunsDueJob` and `KeepsPromise`
  hold even if no timeout ever fires, that is, they rest on the notification alone.
  `DueJobRuns` adds the timeouts as a hypothesis.
- `PathLock!FairSpec`: threads go on with steps they can take; a free flock goes
  to *some* waiter, which is all that flock promises. The holder is not assumed
  to enter again, nor a thread to ask for the lock.
- `ControlSocket!FairSpec`: the server thread is scheduled; each read ends by its
  timeout or size limit. A scheduler that listens goes on to start its thread, or
  fails to: two statements without a call that blocks. Nothing else is assumed of
  schedulers, and nothing of clients: a client may wait for ever.

## 5. Proofs

Checked by `tlapm`; every theorem is proved for all constants that satisfy the
modules' `ASSUME`s. These only give types and finiteness: `max_runs` is a natural or
none, periods and `MaxEntries` are naturals, `MinimumPeriod` is positive, there are finitely many
threads, the policies and outcomes are those of the code, and `None`, `Blank`, `Text`
are none of the values they are told apart from (TLC's model values are so by
themselves). Where a theorem needs more, it says so in its own `ASSUME`, and the
reason is one of the disagreements of section 3 or the shape of the property.

Each invariant that the runs check is proved by an inductive one; what
that one has to add is given here, because it is why the code is correct.

- `ScheduleProofs`. The controller alone, under any order of calls:
  `ControllerTyping`, `ControllerNoLostWakeup`, `ControllerQuitClosesTheDoor`.
  The loop: `LoopInv` adds *where the loop thread waits* (`WaitsInPlace`: otherwise an
  attempt might begin while the controller has the thread asleep), *when an outcome exists*
  (`ExitInv`, for `ForcedIsScoped`), that *the counter cannot move between a test
  of it and the attempt* (`CountInv`, for `MaxRunsRespected`), and that *the late attempt was decided on before quit* (`LateInv`,
  for `AtMostOneLateAttempt`). From it follow `LoopTyping`, `LoopJobIsVisible`,
  `LoopForcedIsScoped`, `LoopMaxRunsRespected`, `LoopAtMostOneLateAttempt`,
  `LoopRunNowNotDowngraded`. `LoopUsesController` shows that every behaviour of the
  loop is one of `CtrlSpec`, so the controller's theorems carry over;
  `LoopKeepsPromise` is the refinement of `ControlPromise`'s safety part, step by step.
- `LastRunProofs`, the history. `HistoryIsLossyLog` and, without faults, `HistoryIsLog`:
  refinement of `HistoryLog` for any number of processes and any `max_entries`.
  `HistInv` says what a process in the middle of an append knows: it holds the lock, its
  copy is the file's log and one entry more unless the file is absent, and no file
  is whole while it is written. `DiscardProperties` and `DiscardIdempotent` state
  what `_discard_old_entries` does to a sequence.
- `LastRunProofs`, wrapper and predicate. `WrapperUsesHistory`: the wrapper reads and writes the history
  only as `LastRunHistory` has it, so for it, too, the file is a log (`IsLossyLog`), with any number of processes; `WrapTyping`
  likewise. The predicate answers in one critical section and the start is recorded in the next, so two schedulers
  can run the job at once (`Two_schedulers`). `WrapAlternates` and `WrapDecisionFollowsTruth` show
  that the record and the decision go wrong in no other way by sharing a history: for any number of processes, both properties follow from `Apart` (none is
  admitted while another is) and `Turns` (nor asks while another's completion waits to be recorded), assumed at
  every moment of the behaviour. One process satisfies them by itself (`OneTakesTurns`). `WrapInv` adds that
  a start is the last entry while its job runs, on file and in the memory of its process
  (`AlternInv`, for histories that others remove meanwhile), and that what is on file, in memory, or about to be written tells the
  truth (`TellInv`): its last completion is the real one, it shows no more failures since the last success than there were,
  and no fewer if it shows that success. Discarding entries keeps this true, which is why the
  theorems have no hypothesis on `max_entries`: `OnRecord` is part of the property.
- `ScheduledJobProofs`. `ScheduledUsesLoop` and `ScheduledUsesWrapper`: each
  behaviour of the composition is one of `Schedule` and one of `LastRun` with one process
  that never resets its history, so all their theorems hold of `schedule()` as a whole;
  `ScheduledKeepsPromise` is the first use. What takes both:
  `ScheduledRecords` (`CompletionsAreRecorded`), for a file that keeps two entries at
  least: `RecordInv` says what the file *ends* with at each place of the loop and of the wrapper,
  also after an interrupt in the middle of a read. `ScheduledRunsAreRequested`
  (`EarlyRunsAreRequested`) adds where the loop and the wrapper are together (`LinkInv`), that a forced run
  that is pending or turned to was asked for (`RequestInv`), and that an attempt that is
  not forced was due by the truth when it was admitted (`DueInv`). It needs `FailuresAreKept`:
  the policy ignores failures, or one failure is enough, or the file has room for
  `max_failures` of them with their starts and no neutral completions push them out.
  The defaults (3 failures, 1000 entries) satisfy it for jobs without a neutral outcome;
  `Short_history` shows what happens otherwise.
- `PathLockProofs`. For any threads in any processes and any nesting, kills included:
  `LockTyping`, `NoThreadWaitsForItself`, `ObjectIsShared`, and the refinement
  `LocksImplementMutex`. `LockInv` ties the counters to the entries of the threads: the reference
  count is the number of frames that name the object (`RefInv`), owner, RLock count and
  depth are those of the one thread that has acquired it (`OwnerInv`), all frames
  of a process name its registered object (`ObjectInv`), only a first entry is
  outermost (`ShapeInv`), and the flock's holder is the thread inside (`FlockInv`).
- `RateLimiterProofs`. `LimiterTyping`; for an existing file
  (`FileExists`), `LimiterActionsAreSpaced` and `LimiterDenialIsGrounded`, from
  `LimiterInv`: the modification time is the time of the last action, because
  nobody has created the file (`SpacingInv`), and what a check has found stays true until
  the file is touched (`GrantInv`), because only the lock's holder touches it (`HolderInv`).
  The hypothesis is where the code fails, see `limiter_creation`.
  `BoundaryUsesLimiter` carries this over to the error boundary; `HandlerTyping`
  and `HandlerPostsAreFew` (`PostsAreFew`) follow with `CountInv`: posts made and
  granted fit into the periods begun *until the last action*, and each grant is in a later period.
- `RollingWindowProofs`. For any processes, any window and `max_events`, through crashes and failing
  writes: `WindowTyping`, `WindowIsKept`, `WindowForgetsNothing`. The clock moves between the moment a process
  reads it and the moment it replaces the file, so `WindowInv` says what is pending: whoever is about to replace
  the file has pruned it for a time that may have passed, nothing that counts at that time was missing, and if it is
  to grant the event it found room (`PendingInv`). The two theorems need each other: room on file is room
  in the window only because nothing is forgotten. Besides, what is on file has happened (`FileInv`), one stamp per event,
  and nobody else writes meanwhile (`HolderInv`).
- `ControlSocketProofs`. For any schedulers and connections, through crashes,
  timeouts and failing `accept`: `SocketTyping`, `ClientsAreToldTheTruth`, `ConnectionsStay`,
  `RunningCanBeReached`, `PathIsCleanedUp`. `SocketInv` adds what a scheduler has of its
  server at each statement of `start` and `stop` (`PlaceInv`), that a request is applied
  only while its connection is served (`ClientInv`), that no connection is in two
  places (`KeepInv`), that without an overlapped start there is one scheduler besides
  one that has yet to find the other (`ReachInv`), and that the owner of what is at the
  path has yet to remove it or was cut short (`PathInv`). The last one holds with
  overlapping starts, too, because a scheduler unlinks whatever it finds.
- `JobReportProofs`. `StartIsConfigured` and `AttemptIsTold`, for any sets of exit codes
  and options. `StartupInv` follows what was validated, sent, dropped and warned of from stage to stage;
  `TellInv` says of every stage of an attempt that what is returned or raised still stands for the
  promised outcome, until a ping that raises has replaced it, and that it is raised
  exactly if it is to be posted or to end the scheduler (`ResultIsReal`). `CommandOK` and the lemmas on `Func` show
  that each kind of command keeps the outcome of the table.

Only model-checked are the liveness properties (`MaxRunsEnd`, `RunNowIsRun`, `WakeRunsDueJob`, `DueJobRuns`,
the liveness part of `KeepsPromise`, `LockIsPassedOn`, `ConnectionsEnd`): liveness under
fairness and ENABLED are beyond the prover. Each invariant and action property of a passing run is a theorem.

## 6. Not modelled, and why

- *Log formatting and redaction, Slack texts, declarations of options, quoting of
  shell commands*: strings without control state.
- *`repeat()`*: a sequential loop with one counter, used by nothing here.
- *The control commands*: each sends one request, a client of `ControlSocket`, and
  prints the answer.
- *The Healthchecks client* is external: its calls return or raise. That its
  context manager pings the start and a failure is taken from the tests.
- *In `ScheduledJob`*: status requests and refusals (they change only the answer and
  are in `Schedule`), other processes on the same history (`LastRunHistory`,
  `Two_schedulers`), and the clock after the loop has ended.
- *In `JobReport`*, `posted` means that the exception is handed to the limiter and the
  webhook, if there are any; what becomes of it there is `SlackBoundary`.
- *In `PathLock`*, an interrupt while a thread waits for the RLock (`_lock.py:143`),
  which leaves the reference of that thread counted.
- *The message of an attempt that loses a race for Slack* is dropped by the code and
  by the model; real delays are not measured.
- *Time*: clocks are discrete and never go back. The code compares naive local
  times, so a local clock set back shrinks or stretches periods (a hazard without
  a property).
- *Histories and limiters without a path*: the same code without files or locks.
- *Systems without flock*: there the lock does nothing, as documented.
- *Framing and wording of socket messages*: a request is well-formed or is rejected.
- *Files edited by others* into valid JSON with invalid entries.

## 7. Plan

Stage 1 (done): the modules above, in the order controller, loop, promise,
history, policy, locks, limiters, socket; the theorems of section 5.

Stage 2 (done): `ScheduledJob`, `SlackBoundary`, `CommandLine`, `Startup`,
`JobReport`; the faults of `LastRun` in one run with its policies.

Stage 3 (done): theorems for every component with a run: the error boundary, startup and reports,
the path locks, the socket, the wrapper on its history, the rolling window, and `schedule()` as a whole.

Left: `CompletionsAreRecorded` together with resets between runs, and with other schedulers that take turns; under which
`FailuresAreKept` can be weakened when neutral completions are few.
