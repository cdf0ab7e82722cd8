------------------------------- MODULE JobReport -------------------------------
(***************************************************************************)
(* One attempt, as the world outside sees it: the job within the context   *)
(* manager of the Healthchecks check (hc_func), the outcome the wrapper    *)
(* records for it, and the error boundary that posts to Slack.  It follows *)
(* the startup, which decides whether there is a check; the loop around it *)
(* is module Schedule.  Any ping may fail, delivered or not.               *)
(***************************************************************************)
EXTENDS Startup

VARIABLES
    ending,     \* how the job has ended, None if it has not been run
    result,     \* what hc_func is about to return or raise
    told,       \* the pings Healthchecks has got
    unanswered, \* a ping has raised
    recorded,   \* the outcome in the history
    posted      \* an exception was handed to Slack's limiter, if there is a webhook

attemptVars == <<ending, result, told, unanswered, recorded, posted>>

Init ==
    /\ StartupInit
    /\ ending = None
    /\ result = None
    /\ told = {}
    /\ unanswered = FALSE
    /\ recorded = None
    /\ posted = FALSE

-------------------------------------------------------------------------------
\* A ping returns, or raises whether or not it has been delivered.
PingReturns(kind) == told' = told \cup {kind} /\ UNCHANGED unanswered
PingRaises(kind) == told' \in {told, told \cup {kind}} /\ unanswered' = TRUE
NoPing == UNCHANGED <<told, unanswered>>

\* `with check`: the start is pinged; if that raises the job is not run.
Enter ==
    /\ \/ /\ GoTo("loop", "job")
          /\ IF check = None THEN NoPing ELSE PingReturns("start")
          /\ UNCHANGED result
       \/ /\ check # None
          /\ GoTo("loop", "record")
          /\ PingRaises("start")
          /\ result' = Raised("Exception")
    /\ UNCHANGED <<ending, recorded, posted>>

RunJob ==
    /\ \E e \in Endings(command.kind) :
        /\ ending' = e
        /\ result' = Func(command, e)
    /\ GoTo("job", IF result'.how = "returned" THEN "report" ELSE "exit")
    /\ UNCHANGED <<told, unanswered, recorded, posted>>

AssessReturnValue(value) ==
    CASE value \in {None, "success"} -> "success"
      [] value \in {"failure", "neutral"} -> value
      [] OTHER -> "failure"

\* The outcome is pinged inside the context, so that a ping that raises leaves
\* it as an exception of the job does.
Report ==
    LET outcome == AssessReturnValue(result.value)
    IN  \/ /\ GoTo("report", "record")
           /\ IF check = None \/ outcome = "neutral" THEN NoPing ELSE PingReturns(outcome)
           /\ UNCHANGED <<ending, result, recorded, posted>>
        \/ /\ GoTo("report", "exit")
           /\ check # None /\ outcome # "neutral"
           /\ PingRaises(outcome)
           /\ result' = Raised("Exception")
           /\ UNCHANGED <<ending, recorded, posted>>

\* The context is left with an exception, which it pings as a failure.
Exit ==
    /\ GoTo("exit", "record")
    /\ \/ /\ IF check = None THEN NoPing ELSE PingReturns("failure")
          /\ UNCHANGED result
       \/ /\ check # None
          /\ PingRaises("failure")
          /\ result' = Raised("Exception")
    /\ UNCHANGED <<ending, recorded, posted>>

AssessResult(r) ==
    IF r.how = "raised" THEN "failure" ELSE AssessReturnValue(r.value)

Record ==
    /\ GoTo("record", "boundary")
    /\ recorded' = AssessResult(result)
    /\ UNCHANGED <<ending, result, told, unanswered, posted>>

\* Mutant: every recorded failure is posted.
LeaveBoundaryLoudly ==
    /\ stage = "boundary"
    /\ stage' = IF result.how = "raised" /\ result.value # "Exception"
                THEN "ended" ELSE "attempted"
    /\ posted' = (recorded = "failure")
    /\ UNCHANGED <<ending, result, told, unanswered, recorded>>

\* send_errors_to_slack keeps an Exception and lets the rest through.
LeaveBoundary ==
    /\ stage = "boundary"
    /\ stage' = IF result.how = "raised" /\ result.value # "Exception"
                THEN "ended" ELSE "attempted"
    /\ posted' = (result = Raised("Exception"))
    /\ UNCHANGED <<ending, result, told, unanswered, recorded>>

Next ==
    \/ StartupNext /\ UNCHANGED attemptVars
    \/ /\ Enter \/ RunJob \/ Report \/ Exit \/ Record \/ LeaveBoundary
       /\ UNCHANGED <<options, command, Configuration>>

Spec == Init /\ [][Next]_<<startupVars, attemptVars>>

-------------------------------------------------------------------------------
\* What the table of outcomes and the help of the exit code options say.
Exits(codes) ==
    {Exited(c) : c \in codes} \cup (IF 0 \in codes THEN {Exited(None)} ELSE {})

PromisedFor(job, end) ==
    CASE end \in {Returned("neutral")} \cup Exits(job.neutral) -> "neutral"
      [] end \in {Returned("success"), Returned(None)} \cup Exits(job.success)
            -> "success"
      [] OTHER -> "failure"

Promised == PromisedFor(command, ending)

\* "Raise an exception": "Send message with exception details."  --check is
\* "to call subprocess.run with check=True", which raises on a code other than 0.
RaisesFor(job, end) ==
    \/ end = Raised("Exception")
    \/ end.how = "click_exited"
    \/ job.check /\ end.how = "exited" /\ end.value # 0

\* A SystemExit or KeyboardInterrupt of the job.
Leaves(end) == end.how = "raised" /\ end.value # "Exception"

(* "Scheduled functions have four possible outcomes": for every command,   *)
(* option and ending of the job, the ping, the record and Slack agree with *)
(* the table.  Slack hears of each exception and of no returned failure;   *)
(* only what is no Exception passes the boundary, unposted, and ends the   *)
(* scheduler.  A ping that raises can only make it worse: the attempt is   *)
(* recorded as a failure and posted then, though the job has succeeded.    *)
OutcomesAreTold ==
    stage \in {"attempted", "ended"} =>
        IF unanswered
        THEN recorded = "failure" /\ posted /\ stage = "attempted"
        ELSE /\ recorded = Promised
             /\ told = IF check = None THEN {}
                       ELSE {"start"} \cup ({Promised} \ {"neutral"})
             /\ posted <=> RaisesFor(command, ending)
             /\ stage = "ended" <=> Leaves(ending)

-------------------------------------------------------------------------------
(* What the documentation says and the code does not do.                    *)

(* exit_codes_neutral: "exit codes that are considered neutral", for a Click *)
(* command that leaves with ctx.exit, too.                                   *)
ClickExitsAreMapped ==
    recorded # None /\ ending # None =>
        (ending \in {ClickExited(c) : c \in command.neutral} => recorded = "neutral")

(* "Raise an exception": "send message with exception details", for a         *)
(* function that raises SystemExit, too.                                     *)
RaisedIsPosted ==
    stage \in {"attempted", "ended"} /\ ending = Raised("SystemExit") => posted
===============================================================================
