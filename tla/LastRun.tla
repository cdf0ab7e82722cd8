-------------------------------- MODULE LastRun --------------------------------
(***************************************************************************)
(* When a job runs: the wrapper LastRun.wrap and the policy RunPredicate   *)
(* of _last_run.py, on the shared history of module LastRunHistory.        *)
(*                                                                         *)
(* A process asks the predicate at the time it has just read from the      *)
(* clock, records a "started" entry, runs the job, and records a           *)
(* "finished" entry with the time and the outcome of the job.  The lock is *)
(* held inside the predicate and inside each append, not between them, and *)
(* the clock moves at any point.  Time is discrete: one unit of the clock  *)
(* is the grain at which the periods are compared.                         *)
(*                                                                         *)
(* ended, failed and succeeded record what has really happened to the job, *)
(* for the properties to compare with what the history says; lost, that a  *)
(* fault has made them differ.                                             *)
(***************************************************************************)
EXTENDS LastRunHistory, Integers, FiniteSets, Functions

CONSTANTS
    SuccessPeriod, NeutralPeriod, FailurePeriod,
    MaxFailures,        \* max_failures
    Policies,           \* what on_max_failures may be
    JobOutcomes,        \* the outcomes the job may have
    MayForce,           \* runs may be forced (run-now)
    MaxTime             \* bound of this model on the clock

Outcome == {"success", "neutral", "failure"}

StartedEntry == [what |-> "started", at |-> 0]
FinishedEntry(outcome, time) == [what |-> outcome, at |-> time]

\* The time of a started entry is never looked at, and left out.
LastRunEntry ==
    {StartedEntry} \cup {FinishedEntry(o, t) : o \in Outcome, t \in 0..MaxTime}

ASSUME LastRunAssumption ==
    /\ {SuccessPeriod, NeutralPeriod, FailurePeriod} \subseteq Nat
    /\ MaxFailures \in Nat
    /\ Policies \subseteq {"ignore", "stall", "success_schedule"}
    /\ JobOutcomes \subseteq Outcome
    /\ MayForce \in BOOLEAN
    /\ MaxTime \in Nat
    /\ Entry = LastRunEntry

VARIABLES
    on_max_failures,    \* the setting all processes are started with
    now,        \* the clock
    pc,         \* where each process is in the wrapper
    asked,      \* the time it passed to the predicate
    forced,     \* whether its predicate has been forced
    item,       \* the entry it is to append
    ended,      \* the last completion of the job, StartedEntry if none
    failed,     \* failures since its last success, up to MaxFailures + 1
    succeeded,  \* the time of its last success, -1 if none
    lost        \* something that has happened is not on file

wrapVars == <<pc, asked, forced, item>>
truthVars == <<ended, failed, succeeded>>
vars == <<histVars, on_max_failures, now, wrapVars, truthVars, lost>>

TypeOK ==
    /\ HistTypeOK
    /\ on_max_failures \in Policies
    /\ now \in 0..MaxTime
    /\ pc \in [Process -> {"idle", "asking", "starting", "running", "finishing"}]
    /\ asked \in [Process -> 0..MaxTime]
    /\ forced \in [Process -> BOOLEAN]
    /\ item \in [Process -> LastRunEntry]
    /\ ended \in LastRunEntry
    /\ failed \in 0..MaxFailures + 1
    /\ succeeded \in -1..MaxTime
    /\ lost \in BOOLEAN

Init ==
    /\ HistInit
    /\ on_max_failures \in Policies
    /\ now = 0
    /\ pc = [p \in Process |-> "idle"]
    /\ asked = [p \in Process |-> 0]
    /\ forced = [p \in Process |-> FALSE]
    /\ item = [p \in Process |-> StartedEntry]
    /\ ended = StartedEntry
    /\ failed = 0
    /\ succeeded = -1
    /\ lost = FALSE

-------------------------------------------------------------------------------
(* What the predicate reads in a history, and what it decides.             *)

Indices(s, kinds) == {i \in DOMAIN s : s[i].what \in kinds}

\* find_last_entry, for a history that has such an entry.
LastEntry(s, kinds) ==
    s[CHOOSE i \in Indices(s, kinds) : \A j \in Indices(s, kinds) : j <= i]

\* Mutant: all failures count.
NFailuresEver(s) == Cardinality(Indices(s, {"failure"}))

NFailuresSinceLastSuccess(s) ==
    Cardinality({i \in Indices(s, {"failure"}) :
                    \A j \in Indices(s, {"success"}) : j < i})

Period(outcome) ==
    CASE outcome = "success" -> SuccessPeriod
      [] outcome = "neutral" -> NeutralPeriod
      [] outcome = "failure" -> FailurePeriod

\* The policy, on the last completion, the failures since the last success
\* and the time of the last success (-1 if there is none).
Policy(time, last, nFailures, success) ==
    \/ last = StartedEntry
    \/ last.what \in {"success", "neutral"} /\ time - last.at > Period(last.what)
    \/ /\ last.what = "failure"
       /\ nFailures < MaxFailures \/ on_max_failures = "ignore"
       /\ time - last.at > FailurePeriod
    \/ /\ last.what = "failure"
       /\ nFailures >= MaxFailures
       /\ on_max_failures = "success_schedule"
       /\ success # -1
       /\ time - success > SuccessPeriod

LastFinished(s) ==
    IF Indices(s, Outcome) = {} THEN StartedEntry ELSE LastEntry(s, Outcome)

LastSuccess(s) ==
    IF Indices(s, {"success"}) = {} THEN -1 ELSE LastEntry(s, {"success"}).at

Predicate(time, s) ==
    Policy(time, LastFinished(s), NFailuresSinceLastSuccess(s), LastSuccess(s))

-------------------------------------------------------------------------------
Move(p, from, to) == pc[p] = from /\ pc' = [pc EXCEPT ![p] = to]

\* The wrapper returns or raises, and its local variables are gone.
Return(p) ==
    /\ pc' = [pc EXCEPT ![p] = "idle"]
    /\ asked' = [asked EXCEPT ![p] = 0]
    /\ forced' = [forced EXCEPT ![p] = FALSE]
    /\ item' = [item EXCEPT ![p] = StartedEntry]

\* The wrapper is called; now=datetime.now() is evaluated before the predicate
\* takes the lock.
Ask(p) ==
    /\ step[p] = "ready"
    /\ Move(p, "idle", "asking")
    /\ asked' = [asked EXCEPT ![p] = now]
    /\ \E force \in {FALSE, MayForce} : forced' = [forced EXCEPT ![p] = force]
    /\ UNCHANGED <<histVars, now, item, truthVars, lost>>

Admit(p) ==
    /\ Move(p, "asking", "starting")
    /\ item' = [item EXCEPT ![p] = StartedEntry]
    /\ UNCHANGED <<now, asked, forced, truthVars, lost>>

\* A forced predicate answers without a look at the history.
AdmitForced(p) == forced[p] /\ Admit(p) /\ UNCHANGED histVars

AdmitDue(p) == ~forced[p] /\ Look(p) /\ Predicate(asked[p], Refreshed(p)) /\ Admit(p)

Refuse(p) ==
    /\ pc[p] = "asking"
    /\ ~forced[p]
    /\ Look(p)
    /\ ~Predicate(asked[p], Refreshed(p))
    /\ Return(p)
    /\ UNCHANGED <<now, truthVars, lost>>

\* The history cannot be read: the predicate raises, and with it the wrapper.
LookFails(p) ==
    /\ MayCrash
    /\ pc[p] = "asking"
    /\ ~forced[p]
    /\ Return(p)
    /\ UNCHANGED <<histVars, now, truthVars, lost>>

BeginRecord(p) ==
    /\ pc[p] \in {"starting", "finishing"}
    /\ BeginAppend(p, item[p])
    /\ UNCHANGED <<now, wrapVars, truthVars, lost>>

TruncateRecord(p) == Truncate(p) /\ UNCHANGED <<now, wrapVars, truthVars, lost>>

\* The started entry is on file and the job begins, or the finished entry is
\* and the wrapper returns.
EndRecord(p) ==
    /\ FinishWrite(p)
    /\ \/ Move(p, "starting", "running") /\ UNCHANGED <<asked, forced, item>>
       \/ pc[p] = "finishing" /\ Return(p)
    /\ UNCHANGED <<now, truthVars, lost>>

\* An append that is broken off takes with it the completion it was to record,
\* and all that was on file if the file has been truncated.
Breaks(p) == lost' = (lost \/ pc[p] = "finishing" \/ step[p] = "truncated")

\* Mutant: the job runs although its start could not be recorded.
RecordFailsQuietly(p) ==
    /\ WriteFails(p)
    /\ pc' = [pc EXCEPT ![p] = IF @ = "starting" THEN "running" ELSE "idle"]
    /\ Breaks(p)
    /\ UNCHANGED <<now, asked, forced, item, truthVars>>

\* The append raises, and with it the wrapper.
RecordFails(p) ==
    /\ WriteFails(p)
    /\ Return(p)
    /\ Breaks(p)
    /\ UNCHANGED <<now, truthVars>>

\* Mutant: the entry carries a time ahead of the clock.
EndJobAhead(p, outcome) ==
    /\ Move(p, "running", "finishing")
    /\ item' = [item EXCEPT ![p] = FinishedEntry(outcome, now + 1)]
    /\ UNCHANGED <<histVars, now, asked, forced, truthVars, lost>>

\* The job returns or raises; its outcome is assessed, the clock is read.
EndJob(p, outcome) ==
    /\ Move(p, "running", "finishing")
    /\ item' = [item EXCEPT ![p] = FinishedEntry(outcome, now)]
    /\ ended' = FinishedEntry(outcome, now)
    /\ failed' = CASE outcome = "success" -> 0
                   [] outcome = "neutral" -> failed
                   [] outcome = "failure" /\ failed <= MaxFailures -> failed + 1
                   [] OTHER -> failed
    /\ succeeded' = IF outcome = "success" THEN now ELSE succeeded
    /\ UNCHANGED <<histVars, now, asked, forced, lost>>

\* A scheduler starts, is started anew after it ended, or crashes.
Start(p) == Open(p) /\ UNCHANGED <<now, wrapVars, truthVars, lost>>

Stop(p) == pc[p] = "idle" /\ Leave(p) /\ UNCHANGED <<now, wrapVars, truthVars, lost>>

Die(p) ==
    /\ Crash(p)
    /\ Return(p)
    /\ Breaks(p)
    /\ UNCHANGED <<now, truthVars>>

ResetHistory(p) ==
    /\ Reset(p)
    /\ lost' = TRUE
    /\ UNCHANGED <<now, wrapVars, truthVars>>

Tick ==
    /\ now < MaxTime
    /\ now' = now + 1
    /\ UNCHANGED <<histVars, wrapVars, truthVars, lost>>

Step ==
    \/ \E p \in Process :
        \/ Start(p) \/ Stop(p) \/ Die(p) \/ ResetHistory(p)
        \/ Ask(p) \/ AdmitForced(p) \/ AdmitDue(p) \/ Refuse(p) \/ LookFails(p)
        \/ BeginRecord(p) \/ TruncateRecord(p) \/ EndRecord(p) \/ RecordFails(p)
        \/ \E outcome \in JobOutcomes : EndJob(p, outcome)
    \/ Tick

Next == Step /\ UNCHANGED on_max_failures

Spec == Init /\ [][Next]_vars

-------------------------------------------------------------------------------
JobBegins(p) == pc[p] = "starting" /\ pc'[p] = "running"
Decides(p) == AdmitDue(p) \/ Refuse(p)

\* What the policy says of the completions that have really happened.
Due(time) == Policy(time, ended, failed, succeeded)

\* What the policy goes by has not been pushed out of the history by the
\* max_entries entries after it: the last completion (by the starts of attempts
\* that were killed), the failures that have happened, as many as matter, and
\* the success that the success schedule counts from.
OnRecord ==
    /\ ended # StartedEntry => ended \in Range(LoadedEntries)
    /\ \/ Cardinality(Indices(LoadedEntries, {"failure"})) >= failed
       \/ Cardinality(Indices(LoadedEntries, {"failure"})) >= MaxFailures
    /\ on_max_failures = "success_schedule" /\ succeeded # -1 =>
        FinishedEntry("success", succeeded) \in Range(LoadedEntries)

(* The decision read from the file -- written entry by entry, truncated to *)
(* max_entries, read again after a restart -- is the one the policy makes  *)
(* of what really happened to the job, forced runs and crashes included,   *)
(* unless a fault has lost an entry.  NFailures counts what is on file, and *)
(* the file forgets.                                                       *)
DecisionFollowsTruth ==
    [][\A p \in Process :
        Decides(p) /\ OnRecord /\ ~lost
            => (pc'[p] = "starting" <=> Due(asked[p]))]_vars

(* The minimum time after a completion is kept: when a job begins that was *)
(* not forced, the period of its last outcome has passed.  After too many  *)
(* failures the success schedule replaces the failure period.              *)
NoEarlyRun ==
    [][\A p \in Process :
        JobBegins(p) /\ ~forced[p] /\ ended # StartedEntry
            => \/ now - ended.at > Period(ended.what)
               \/ /\ ended.what = "failure"
                  /\ failed >= MaxFailures
                  /\ on_max_failures = "success_schedule"]_vars

(* on_max_failures="stall": "Human intervention is required before the job *)
(* will run again."  Once max_failures is reached only a forced run begins.*)
StallHolds ==
    [][\A p \in Process :
        JobBegins(p) /\ ~forced[p] /\ ended.what = "failure"
                     /\ on_max_failures = "stall"
            => failed < MaxFailures]_vars

(* The history read by the predicate and left by the wrapper is a log of   *)
(* attempts: an attempt that has finished had started before.              *)
HistoryAlternates ==
    \A i \in DOMAIN LoadedEntries :
        i > 1 /\ LoadedEntries[i].what # "started"
            => LoadedEntries[i - 1].what = "started"

-------------------------------------------------------------------------------
(* What the documentation says and the code does not do.                   *)

(* failure_period: "The minimum time to wait after a failed run before     *)
(* allowing the next run."                                                 *)
FailurePeriodKept ==
    [][\A p \in Process :
        JobBegins(p) /\ ~forced[p] /\ ended.what = "failure"
            => now - ended.at > FailurePeriod]_vars

(* on_max_failures acts "if the job failed more than `max_failures` times".*)
StallsOnlyAfterMore ==
    [][\A p \in Process :
        Decides(p) /\ pc'[p] = "idle" /\ ended.what = "failure"
                   /\ asked[p] - ended.at > FailurePeriod
            => failed > MaxFailures]_vars

(* success_schedule: "Run again `success_period` after the last successful *)
(* run, if there is one."                                                  *)
SuccessScheduleKept ==
    [][\A p \in Process :
        Decides(p) /\ pc'[p] = "idle" /\ ended.what = "failure"
                   /\ failed >= MaxFailures /\ succeeded # -1
            => asked[p] - succeeded <= SuccessPeriod]_vars
===============================================================================
