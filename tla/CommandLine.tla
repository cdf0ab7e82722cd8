------------------------------ MODULE CommandLine ------------------------------
(***************************************************************************)
(* What the commands of the scheduler's command line make of their options *)
(* and of the way a job ends (_schedule_cli.py, _click_options.py).  A     *)
(* command is a job with its exit codes; "function" stands for a callable  *)
(* given to schedule() by a Python program, without a command line.        *)
(***************************************************************************)
EXTENDS Integers

CONSTANTS
    ExitCodes,      \* the integers jobs exit with
    None, Blank,    \* no value, an empty item of a list
    Text            \* an item or exit code that is not an integer

ASSUME ExitCodesAssumption ==
    /\ ExitCodes \subseteq Int
    /\ 0 \in ExitCodes
    /\ Blank \notin Int
    /\ Text \notin Int \cup {None}
    /\ None \notin Int \cup {"success", "neutral", "failure", "other"}

Commands == {"click_invoke", "py_exec", "subprocess"}

\* What comma-separated lists are parsed to: int() raises on a text, the order
\* and empty items are dropped.
ParsedLists ==
    {items \ {Blank} :
        items \in {list \in SUBSET (ExitCodes \cup {Blank, Text}) : Text \notin list}}

\* --check or --no-check, by default as the exit codes are the default ones.
Check(check, success, neutral) ==
    IF check = None THEN success = {0} /\ neutral = {} ELSE check

\* The exit code sets a command accepts.
ValidSets(kind, check, success, neutral) ==
    /\ success \cap neutral = {}
    /\ kind = "subprocess" /\ Check(check, success, neutral)
        => success = {0} /\ neutral = {}

-------------------------------------------------------------------------------
(* How jobs end: they return, raise, or exit with a code -- sys.exit, the   *)
(* status of a process, or, of a Click command, ctx.exit.                   *)

Returned(value) == [how |-> "returned", value |-> value]
Raised(error) == [how |-> "raised", value |-> error]
Exited(code) == [how |-> "exited", value |-> code]
ClickExited(code) == [how |-> "click_exited", value |-> code]

Endings(kind) ==
    {Raised("Exception"), Raised("KeyboardInterrupt")} \cup
    CASE kind = "function" ->
            {Returned(v) : v \in {None, "success", "neutral", "failure", "other"}}
                \cup {Raised("SystemExit")}
      [] kind = "subprocess" -> {Exited(c) : c \in ExitCodes}
      [] OTHER ->
            {Returned(None)} \cup {Exited(c) : c \in ExitCodes \cup {None, Text}}
                \cup {ClickExited(c) : c \in IF kind = "click_invoke" THEN ExitCodes ELSE {}}

\* Mutant: what is in neither set is taken for a success.
MapExitCodeHopefully(code, success, neutral) ==
    IF code # Text /\ code \in neutral THEN "neutral"
    ELSE IF code = Text THEN "failure" ELSE "success"

MapExitCode(code, success, neutral) ==
    LET status == IF code = None THEN 0 ELSE code
    IN  CASE status = Text -> "failure"
          [] status \in neutral -> "neutral"
          [] status \in success -> "success"
          [] OTHER -> "failure"

(* What the callable made by a command returns or raises, if the job does   *)
(* not raise itself.                                                        *)

\* A Click command, or Python code, that just ends is a success.
PyExec(command, ending) ==
    Returned(IF ending.how = "returned" THEN "success"
             ELSE MapExitCode(ending.value, command.success, command.neutral))

\* ctx.exit is an exception that only Click's own main() would catch.
ClickInvoke(command, ending) ==
    IF ending.how = "click_exited" THEN Raised("Exception") ELSE PyExec(command, ending)

\* subprocess.run(check=True) raises on a code other than 0.
Subprocess(command, ending) ==
    IF command.check /\ ending.value # 0 THEN Raised("Exception")
    ELSE Returned(MapExitCode(ending.value, command.success, command.neutral))

Func(command, ending) ==
    IF command.kind = "function" \/ ending.how = "raised" THEN ending
    ELSE CASE command.kind = "py_exec" -> PyExec(command, ending)
           [] command.kind = "click_invoke" -> ClickInvoke(command, ending)
           [] command.kind = "subprocess" -> Subprocess(command, ending)
===============================================================================
