--------------------------- MODULE ScheduledJobProofs ---------------------------
(***************************************************************************)
(* Proofs about schedule() as a whole: the composition uses the loop as    *)
(* module Schedule describes it and the wrapper as module LastRun does, so *)
(* what is proved of each holds of both together; and what takes both, the *)
(* record of every completion and the truth of every decision: the file    *)
(* ends with what has really happened, so the predicate, which counts from *)
(* the end, decides as if it had seen it.                                  *)
(***************************************************************************)
EXTENDS ScheduledJob, ScheduleProofs, SequenceTheorems, FiniteSetTheorems

\* The wrapper, with what is proved about it.
JobProofs == INSTANCE LastRunProofs
               WITH Process <- {Self}, Entry <- JobEntry,
                    MayCrash <- TRUE, MayReset <- FALSE, MayForce <- TRUE,
                    pc <- job_pc, forced <- job_forced

-------------------------------------------------------------------------------
(* The loop within the composition.                                        *)

LEMMA ScheduledStepsLoop == ScheduledNext => [Next]_vars
<1> SUFFICES ASSUME ScheduledNext, ~UNCHANGED vars
             PROVE  Next
  OBVIOUS
<1>1. LoopAlone => LoopStep
  BY DEF LoopAlone, LoopStep
<1>2. PredicateAnswers \/ BeginJob => LoopStep
  BY DEF PredicateAnswers, BeginJob, LoopStep
<1>3. ASSUME NEW what, LeaveAttempt(what)
      PROVE  LoopStep \/ Exception
  BY <1>3 DEF LeaveAttempt, LoopStep, Exception
<1>4. EndAttempt \/ EndNotRecorded => LoopStep \/ Exception
  BY <1>3 DEF EndAttempt, EndNotRecorded
<1>5. PredicateRaises \/ StartNotRecorded \/ HeartbeatFails \/ Interrupted
        \/ WrapperInterrupted => LoopStep \/ Exception
  BY DEF PredicateRaises, StartNotRecorded, HeartbeatFails, Interrupted,
         WrapperInterrupted, LoopStep, Exception
<1>6. ~OpenHistory /\ ~AskPredicate /\ ~WriteRecord /\ ~EndJob /\ ~ClockTicks
  BY DEF OpenHistory, AskPredicate, WriteRecord, EndJob, ClockTicks
<1>7. ClientRequest \/ TimeoutElapses => Request \/ IntervalElapsed
  BY DEF ClientRequest, TimeoutElapses
<1> QED
  BY <1>1, <1>2, <1>4, <1>5, <1>6, <1>7
     DEF ScheduledNext, Advance, LoopThread, Trouble, Next

(* With the history, the wrapper and the job in place of what module       *)
(* Schedule leaves open, the loop and its controller are as it describes:  *)
(* whatever is proved of them under Spec holds of the composition.         *)
THEOREM ScheduledUsesLoop == ScheduledSpec => Spec
<1>1. ScheduledInit => Init
  BY DEF ScheduledInit
<1>2. [ScheduledNext]_scheduledVars => [Next]_vars
  BY ScheduledStepsLoop DEF scheduledVars
<1> QED
  BY <1>1, <1>2, PTL DEF ScheduledSpec, Spec

(* No accepted request is lost or slept over, whatever the history says of *)
(* the job and whatever fails in it.                                       *)
THEOREM ScheduledKeepsPromise == ScheduledSpec => KeepsPromiseSafely
  BY ScheduledUsesLoop, LoopKeepsPromise, PTL

-------------------------------------------------------------------------------
(* The wrapper within the composition.                                     *)

LEMMA ScheduledStepsWrapper == ScheduledNext => [Job!Next]_(Job!vars)
<1> SUFFICES ASSUME ScheduledNext
             PROVE  [Job!Next]_(Job!vars)
  OBVIOUS
<1>0. UNCHANGED on_max_failures
  BY DEF ScheduledNext
<1>1. ASSUME \/ Job!Start(Self) \/ Job!Die(Self) \/ Job!Ask(Self)
             \/ Job!AdmitForced(Self) \/ Job!AdmitDue(Self) \/ Job!Refuse(Self)
             \/ Job!LookFails(Self) \/ Job!BeginRecord(Self)
             \/ Job!TruncateRecord(Self) \/ Job!EndRecord(Self)
             \/ Job!RecordFails(Self)
             \/ \E outcome \in JobOutcomes : Job!EndJob(Self, outcome)
             \/ Job!Tick
      PROVE  Job!Next
  BY <1>0, <1>1 DEF Job!Next, Job!Step
<1>2. ASSUME UNCHANGED jobVars
      PROVE  UNCHANGED Job!vars
  BY <1>2 DEF jobVars, Job!vars, Job!histVars, Job!wrapVars, Job!truthVars
<1>3. CASE OpenHistory \/ ClockTicks
  BY <1>1, <1>3 DEF OpenHistory, ClockTicks
<1>4. CASE LoopThread
  BY <1>1, <1>2, <1>4
     DEF LoopThread, LoopAlone, AskPredicate, PredicateAnswers, WriteRecord,
         BeginJob, EndJob, EndAttempt
<1>5. CASE Trouble
  BY <1>1, <1>2, <1>5
     DEF Trouble, PredicateRaises, StartNotRecorded, EndNotRecorded,
         HeartbeatFails, Interrupted, WrapperInterrupted
<1>6. CASE ClientRequest \/ TimeoutElapses
  BY <1>0, <1>2, <1>6 DEF ClientRequest, TimeoutElapses
<1> QED
  BY <1>3, <1>4, <1>5, <1>6 DEF ScheduledNext, Advance

(* The loop calls the wrapper only as module LastRun allows: one process   *)
(* at a time, that may crash but never resets its history.                 *)
THEOREM ScheduledUsesWrapper == ScheduledSpec => Job!Spec
<1>1. ScheduledInit => Job!Init
  BY DEF ScheduledInit
<1>2. [ScheduledNext]_scheduledVars => [Job!Next]_(Job!vars)
  <2>1. UNCHANGED scheduledVars => UNCHANGED Job!vars
    BY DEF scheduledVars, jobVars, Job!vars, Job!histVars, Job!wrapVars,
           Job!truthVars
  <2> QED
    BY <2>1, ScheduledStepsWrapper
<1> QED
  BY <1>1, <1>2, PTL DEF ScheduledSpec, Job!Spec

-------------------------------------------------------------------------------
(* Job and JobProofs instantiate the same definitions, so they say the     *)
(* same, and what is proved of the one's specification holds of the other. *)

LEMMA SameReading ==
    /\ Job!LoadedEntries = JobProofs!LoadedEntries
    /\ Job!StartedEntry = JobProofs!StartedEntry
    /\ \A s : Job!LastFinished(s) = JobProofs!LastFinished(s)
    /\ \A s : Job!LastSuccess(s) = JobProofs!LastSuccess(s)
    /\ \A s : Job!NFailuresSinceLastSuccess(s) = JobProofs!NFailuresSinceLastSuccess(s)
    /\ \A time, s : Job!Predicate(time, s) <=> JobProofs!Predicate(time, s)
<1>1. Job!LoadedEntries = JobProofs!LoadedEntries
  BY DEF
      Job!LoadedEntries, JobProofs!LoadedEntries, Job!DiscardOldEntries,
      JobProofs!DiscardOldEntries
<1>2. Job!StartedEntry = JobProofs!StartedEntry /\ Job!Outcome = JobProofs!Outcome
  BY DEF
      Job!StartedEntry, JobProofs!StartedEntry, Job!Outcome,
      JobProofs!Outcome
<1>3. \A s, kinds : Job!Indices(s, kinds) = JobProofs!Indices(s, kinds)
  BY DEF
      Job!Indices, JobProofs!Indices
<1>4. \A s, kinds : Job!LastEntry(s, kinds) = JobProofs!LastEntry(s, kinds)
  BY <1>3 DEF
      Job!LastEntry, JobProofs!LastEntry
<1>5. \A s : Job!LastFinished(s) = JobProofs!LastFinished(s)
  BY <1>2, <1>3, <1>4 DEF
      Job!LastFinished, JobProofs!LastFinished
<1>6. \A s : Job!LastSuccess(s) = JobProofs!LastSuccess(s)
  BY <1>3, <1>4 DEF
      Job!LastSuccess, JobProofs!LastSuccess
<1>7. \A s : Job!NFailuresSinceLastSuccess(s)
               = JobProofs!NFailuresSinceLastSuccess(s)
  BY DEF
      Job!NFailuresSinceLastSuccess, JobProofs!NFailuresSinceLastSuccess,
      Job!Indices, JobProofs!Indices, Job!Cardinality, JobProofs!Cardinality
<1>8. \A o : Job!Period(o) = JobProofs!Period(o)
  BY DEF
      Job!Period, JobProofs!Period
<1>9. \A time, last, n, success :
        Job!Policy(time, last, n, success) <=> JobProofs!Policy(time, last, n, success)
  BY <1>2, <1>8 DEF
      Job!Policy, JobProofs!Policy
<1>10. \A time, s : Job!Predicate(time, s) <=> JobProofs!Predicate(time, s)
  BY <1>5, <1>6, <1>7, <1>9 DEF
      Job!Predicate, JobProofs!Predicate
<1> QED
  BY <1>1, <1>2, <1>5, <1>6, <1>7, <1>10

LEMMA SameSteps == Job!Next <=> JobProofs!Next
<1> USE DEF
      Job!histVars, JobProofs!histVars, Job!wrapVars, JobProofs!wrapVars,
      Job!truthVars, JobProofs!truthVars, Job!LoadedEntries,
      JobProofs!LoadedEntries, Job!DiscardOldEntries,
      JobProofs!DiscardOldEntries, Job!LockIsFree, JobProofs!LockIsFree,
      Job!Refreshed, JobProofs!Refreshed, Job!Return, JobProofs!Return,
      Job!Move, JobProofs!Move, Job!StartedEntry, JobProofs!StartedEntry,
      Job!FinishedEntry, JobProofs!FinishedEntry, Job!Admit,
      JobProofs!Admit, Job!Breaks, JobProofs!Breaks
<1>1. \A p : Job!Start(p) <=> JobProofs!Start(p)
  BY DEF
      Job!Start, JobProofs!Start, Job!Open, JobProofs!Open
<1>2. \A p : Job!Stop(p) <=> JobProofs!Stop(p)
  BY DEF
      Job!Stop, JobProofs!Stop, Job!Leave, JobProofs!Leave
<1>3. \A p : Job!Die(p) <=> JobProofs!Die(p)
  BY DEF
      Job!Die, JobProofs!Die, Job!Crash, JobProofs!Crash
<1>4. \A p : Job!ResetHistory(p) <=> JobProofs!ResetHistory(p)
  BY DEF
      Job!ResetHistory, JobProofs!ResetHistory, Job!Reset, JobProofs!Reset
<1>5. \A p : Job!Ask(p) <=> JobProofs!Ask(p)
  BY DEF
      Job!Ask, JobProofs!Ask
<1>6. \A p : Job!AdmitForced(p) <=> JobProofs!AdmitForced(p)
  BY DEF
      Job!AdmitForced, JobProofs!AdmitForced
<1>7. \A p : Job!LookFails(p) <=> JobProofs!LookFails(p)
  BY DEF
      Job!LookFails, JobProofs!LookFails
<1>8. \A p : Job!BeginRecord(p) <=> JobProofs!BeginRecord(p)
  BY DEF
      Job!BeginRecord, JobProofs!BeginRecord, Job!BeginAppend,
      JobProofs!BeginAppend
<1>9. \A p : Job!TruncateRecord(p) <=> JobProofs!TruncateRecord(p)
  BY DEF
      Job!TruncateRecord, JobProofs!TruncateRecord, Job!Truncate,
      JobProofs!Truncate, Job!TornFile, JobProofs!TornFile
<1>10. \A p : Job!EndRecord(p) <=> JobProofs!EndRecord(p)
  BY DEF
      Job!EndRecord, JobProofs!EndRecord, Job!FinishWrite,
      JobProofs!FinishWrite, Job!WholeFile, JobProofs!WholeFile
<1>11. \A p : Job!RecordFails(p) <=> JobProofs!RecordFails(p)
  BY DEF
      Job!RecordFails, JobProofs!RecordFails, Job!WriteFails,
      JobProofs!WriteFails
<1>12. \A p, o : Job!EndJob(p, o) <=> JobProofs!EndJob(p, o)
  BY DEF
      Job!EndJob, JobProofs!EndJob
<1>13. Job!Tick <=> JobProofs!Tick
  BY DEF
      Job!Tick, JobProofs!Tick
<1>14. \A p : Job!AdmitDue(p) <=> JobProofs!AdmitDue(p)
  BY SameReading DEF
      Job!AdmitDue, JobProofs!AdmitDue, Job!Look, JobProofs!Look
<1>15. \A p : Job!Refuse(p) <=> JobProofs!Refuse(p)
  BY SameReading DEF
      Job!Refuse, JobProofs!Refuse, Job!Look, JobProofs!Look
<1> HIDE DEF
      Job!histVars, JobProofs!histVars, Job!wrapVars, JobProofs!wrapVars,
      Job!truthVars, JobProofs!truthVars, Job!LoadedEntries,
      JobProofs!LoadedEntries, Job!DiscardOldEntries,
      JobProofs!DiscardOldEntries, Job!LockIsFree, JobProofs!LockIsFree,
      Job!Refreshed, JobProofs!Refreshed, Job!Return, JobProofs!Return,
      Job!Move, JobProofs!Move, Job!StartedEntry, JobProofs!StartedEntry,
      Job!FinishedEntry, JobProofs!FinishedEntry, Job!Admit,
      JobProofs!Admit, Job!Breaks, JobProofs!Breaks
<1> QED
  BY <1>1, <1>2, <1>3, <1>4, <1>5, <1>6, <1>7,
     <1>8, <1>9, <1>10, <1>11, <1>12, <1>13, <1>14, <1>15
  DEF
      Job!Next, JobProofs!Next, Job!Step, JobProofs!Step

LEMMA SameSpec == Job!Spec <=> JobProofs!Spec
<1>1. Job!Init <=> JobProofs!Init
  BY DEF
      Job!Init, JobProofs!Init, Job!HistInit, JobProofs!HistInit,
      Job!NoFile, JobProofs!NoFile, Job!StartedEntry, JobProofs!StartedEntry
<1>2. UNCHANGED Job!vars <=> UNCHANGED JobProofs!vars
  BY DEF
      Job!vars, JobProofs!vars, Job!histVars, JobProofs!histVars,
      Job!wrapVars, JobProofs!wrapVars, Job!truthVars, JobProofs!truthVars
<1>3. [Job!Next]_(Job!vars) <=> [JobProofs!Next]_(JobProofs!vars)
  BY <1>2, SameSteps
<1> QED
  BY <1>1, <1>3, PTL DEF Job!Spec, JobProofs!Spec

-------------------------------------------------------------------------------
(* What is proved of the wrapper, for the one process of the scheduler.    *)

LEMMA SameEntries == JobEntry = JobProofs!LastRunEntry
<1> DEFINE Started == [what : {"started"}, at : {0}]
           Finished == [what : {"success", "neutral", "failure"}, at : 0..MaxTime]
<1>1. Started = {JobProofs!StartedEntry}
  <2>1. ASSUME NEW r \in Started
        PROVE  r = [what |-> "started", at |-> 0]
    OBVIOUS
  <2>2. [what |-> "started", at |-> 0] \in Started
    OBVIOUS
  <2> QED
    BY <2>1, <2>2 DEF JobProofs!StartedEntry
<1>2. Finished = {JobProofs!FinishedEntry(o, t) :
                    o \in JobProofs!Outcome, t \in 0..MaxTime}
  <2>1. ASSUME NEW r \in Finished
        PROVE  /\ r = [what |-> r.what, at |-> r.at]
               /\ r.what \in JobProofs!Outcome /\ r.at \in 0..MaxTime
    BY DEF JobProofs!Outcome
  <2>2. ASSUME NEW o \in JobProofs!Outcome, NEW t \in 0..MaxTime
        PROVE  [what |-> o, at |-> t] \in Finished
    BY DEF JobProofs!Outcome
  <2> HIDE DEF Finished
  <2> QED
    BY <2>1, <2>2 DEF JobProofs!FinishedEntry
<1>3. JobEntry = Started \cup Finished
  BY DEF JobEntry
<1> HIDE DEF Started, Finished
<1> QED
  BY <1>1, <1>2, <1>3 DEF JobProofs!LastRunEntry

\* The assumptions of LastRun and LastRunHistory.
LEMMA WrapperAssumptions ==
    /\ MaxEntries \in Nat
    /\ None \notin {Self}
    /\ {SuccessPeriod, NeutralPeriod, FailurePeriod} \subseteq Nat
    /\ MaxFailures \in Nat
    /\ Policies \subseteq {"ignore", "stall", "success_schedule"}
    /\ JobOutcomes \subseteq JobProofs!Outcome
    /\ MaxTime \in Nat
    /\ JobEntry = JobProofs!LastRunEntry
  BY ScheduledAssumption, SameEntries DEF Self, JobProofs!Outcome

LEMMA WrapperInvariance ==
    ScheduledSpec => [](JobProofs!TypeOK /\ JobProofs!HistInv /\ JobProofs!WrapInv)
<1>1. JobProofs!Apart
  BY DEF JobProofs!Apart
<1>2. JobProofs!Spec /\ []JobProofs!Apart
        => [](JobProofs!TypeOK /\ JobProofs!HistInv /\ JobProofs!WrapInv)
  BY JobProofs!WrapInvariance, WrapperAssumptions
<1> QED
  BY <1>1, <1>2, SameSpec, ScheduledUsesWrapper, PTL

-------------------------------------------------------------------------------
(* What a history ends with.  Truth is not enough for the record to be     *)
(* complete: a history that has forgotten everything tells no lies.  What  *)
(* keeps the completions on file is that the loop never abandons a job     *)
(* that runs, so that no two starts follow one another there.              *)

FromEnd(s, k) == s[Len(s) - k]

NothingFinished(s) == \A i \in 1..Len(s) : s[i] = Job!StartedEntry

\* The history s ends with the completion last, beneath n starts.
EndsWith(s, n, last) ==
    /\ last = Job!StartedEntry => NothingFinished(s)
    /\ last # Job!StartedEntry =>
        /\ n < Len(s)
        /\ FromEnd(s, n) = last
        /\ n = 1 => FromEnd(s, 0) = Job!StartedEntry

\* Beneath n starts, every second entry is a failure, as far as there were
\* failures since the last success and the policy counts them.
EndsInFailures(s, n, nFailures) ==
    \A k \in Nat : k < nFailures /\ k < MaxFailures =>
        2 * k + n < Len(s) /\ FromEnd(s, 2 * k + n).what = "failure"

\* The file keeps the failures the policy counts, and no neutral completions
\* come between them.
KeepsFailures == "neutral" \notin JobOutcomes /\ 2 * MaxFailures <= MaxEntries

Shows(s, n, last, nFailures) ==
    /\ EndsWith(s, n, last)
    /\ KeepsFailures => EndsInFailures(s, n, nFailures)

LEMMA DiscardFromEnd ==
    ASSUME NEW s \in Seq(JobEntry)
    PROVE  LET t == Job!DiscardOldEntries(s)
           IN  /\ t \in Seq(JobEntry) /\ Len(t) \in Nat /\ Len(s) \in Nat
               /\ Len(t) = IF Len(s) > MaxEntries THEN MaxEntries ELSE Len(s)
               /\ \A k \in Nat : k < Len(t) => FromEnd(t, k) = FromEnd(s, k)
<1>1. MaxEntries \in Nat /\ Len(s) \in Nat
  BY ScheduledAssumption, LenProperties
<1>2. CASE Len(s) <= MaxEntries
  BY <1>1, <1>2 DEF Job!DiscardOldEntries
<1>3. CASE Len(s) > MaxEntries
  <2> PICK m : m = Len(s) - MaxEntries + 1
    OBVIOUS
  <2>1. m \in Int /\ Len(s) \in Int /\ m >= 2
    BY <1>1, <1>3
  <2>2. \A i \in m..Len(s) : s[i] \in JobEntry
    BY <1>1, <2>1, ElementOfSeq
  <2> PICK t : t = SubSeq(s, m, Len(s))
    OBVIOUS
  <2>3. /\ t \in Seq(JobEntry)
        /\ Len(t) = IF m <= Len(s) THEN Len(s) - m + 1 ELSE 0
        /\ \A i \in 1..(Len(s) - m + 1) : t[i] = s[m + i - 1]
    BY <2>1, <2>2, SubSeqProperties
  <2>4. Len(t) = MaxEntries
    BY <1>1, <1>3, <2>3
  <2>5. ASSUME NEW k \in Nat, k < Len(t)
        PROVE  t[Len(t) - k] = s[Len(s) - k]
    <3>1. Len(t) - k \in 1..(Len(s) - m + 1) /\ m + (Len(t) - k) - 1 = Len(s) - k
      BY <1>1, <1>3, <2>4, <2>5
    <3> QED
      BY <2>3, <3>1
  <2>6. Job!DiscardOldEntries(s) = t
    BY <1>1, <1>3 DEF Job!DiscardOldEntries
  <2> QED
    BY <1>1, <1>3, <2>3, <2>4, <2>5, <2>6 DEF FromEnd
<1> QED
  BY <1>1, <1>2, <1>3

LEMMA DiscardNothingFinished ==
    ASSUME NEW s \in Seq(JobEntry), NothingFinished(s)
    PROVE  NothingFinished(Job!DiscardOldEntries(s))
<1> PICK t : t = Job!DiscardOldEntries(s)
  OBVIOUS
<1>1. /\ Len(t) \in Nat /\ Len(s) \in Nat /\ MaxEntries \in Nat
      /\ Len(t) = IF Len(s) > MaxEntries THEN MaxEntries ELSE Len(s)
      /\ \A k \in Nat : k < Len(t) => FromEnd(t, k) = FromEnd(s, k)
  BY DiscardFromEnd, ScheduledAssumption
<1>2. ASSUME NEW i \in 1..Len(t)
      PROVE  t[i] = Job!StartedEntry
  <2> PICK k : k = Len(t) - i
    OBVIOUS
  <2>1. k \in Nat /\ k < Len(t) /\ Len(t) - k = i /\ Len(s) - k \in 1..Len(s)
    BY <1>1
  <2>2. t[i] = s[Len(s) - k]
    BY <1>1, <2>1 DEF FromEnd
  <2> QED
    BY <2>1, <2>2 DEF NothingFinished
<1> QED
  BY <1>2 DEF NothingFinished

\* A history of two entries or more keeps what it ends with.
LEMMA DiscardKeepsEnd ==
    ASSUME MaxEntries >= 2, NEW s \in Seq(JobEntry), NEW n \in {0, 1},
           NEW last, NEW nFailures \in Nat, Shows(s, n, last, nFailures)
    PROVE  Shows(Job!DiscardOldEntries(s), n, last, nFailures)
<1> PICK t : t = Job!DiscardOldEntries(s)
  OBVIOUS
<1>1. /\ Len(t) \in Nat /\ Len(s) \in Nat /\ MaxEntries \in Nat /\ MaxFailures \in Nat
      /\ Len(t) = IF Len(s) > MaxEntries THEN MaxEntries ELSE Len(s)
      /\ \A k \in Nat : k < Len(t) => FromEnd(t, k) = FromEnd(s, k)
  BY DiscardFromEnd, ScheduledAssumption
<1>2. EndsWith(t, n, last)
  <2>1. CASE last = Job!StartedEntry
    BY <2>1, DiscardNothingFinished DEF Shows, EndsWith
  <2>2. CASE last # Job!StartedEntry
    <3>1. n < Len(s) /\ FromEnd(s, n) = last /\ (n = 1 => FromEnd(s, 0) = Job!StartedEntry)
      BY <2>2 DEF Shows, EndsWith
    <3>2. n < Len(t) /\ 0 < Len(t)
      BY <1>1, <3>1
    <3> QED
      BY <1>1, <2>2, <3>1, <3>2 DEF EndsWith
  <2> QED
    BY <2>1, <2>2
<1>3. ASSUME KeepsFailures, NEW k \in Nat, k < nFailures, k < MaxFailures
      PROVE  2 * k + n < Len(t) /\ FromEnd(t, 2 * k + n).what = "failure"
  <2>1. 2 * k + n < Len(s) /\ FromEnd(s, 2 * k + n).what = "failure"
    BY <1>3 DEF Shows, EndsInFailures
  <2>2. 2 * k + n \in Nat /\ 2 * k + n < MaxEntries
    BY <1>1, <1>3 DEF KeepsFailures
  <2> QED
    BY <1>1, <2>1, <2>2
<1> QED
  BY <1>2, <1>3 DEF Shows, EndsInFailures

LEMMA AppendFromEnd ==
    ASSUME NEW s \in Seq(JobEntry), NEW e \in JobEntry
    PROVE  LET t == Append(s, e)
           IN  /\ t \in Seq(JobEntry) /\ Len(t) = Len(s) + 1 /\ Len(s) \in Nat
               /\ FromEnd(t, 0) = e
               /\ \A k \in Nat : k < Len(s) => FromEnd(t, k + 1) = FromEnd(s, k)
<1> PICK t : t = Append(s, e)
  OBVIOUS
<1>1. /\ t \in Seq(JobEntry) /\ Len(t) = Len(s) + 1 /\ Len(s) \in Nat
      /\ \A i \in 1..Len(s) : t[i] = s[i]
      /\ t[Len(s) + 1] = e
  BY AppendProperties, LenProperties
<1>2. ASSUME NEW k \in Nat, k < Len(s)
      PROVE  t[Len(t) - (k + 1)] = s[Len(s) - k]
  <2>1. Len(t) - (k + 1) = Len(s) - k /\ Len(s) - k \in 1..Len(s)
    BY <1>1, <1>2
  <2> QED
    BY <1>1, <2>1
<1>3. Len(t) - 0 = Len(s) + 1
  BY <1>1
<1> QED
  BY <1>1, <1>2, <1>3 DEF FromEnd

LEMMA AppendStartShows ==
    ASSUME NEW s \in Seq(JobEntry), NEW last, NEW nFailures \in Nat,
           Shows(s, 0, last, nFailures)
    PROVE  Shows(Append(s, Job!StartedEntry), 1, last, nFailures)
<1> PICK e \in JobEntry : e = Job!StartedEntry
  BY SameReading, SameEntries, JobProofs!EntryKinds, WrapperAssumptions
<1> PICK t : t = Append(s, e)
  OBVIOUS
<1>1. /\ t \in Seq(JobEntry) /\ Len(t) = Len(s) + 1 /\ Len(s) \in Nat
      /\ FromEnd(t, 0) = e
      /\ \A k \in Nat : k < Len(s) => FromEnd(t, k + 1) = FromEnd(s, k)
      /\ \A i \in 1..Len(s) : t[i] = s[i]
      /\ t[Len(s) + 1] = e
  BY AppendFromEnd, AppendProperties
<1>2. EndsWith(t, 1, last)
  <2>1. CASE last = Job!StartedEntry
    <3>1. NothingFinished(t)
      BY <1>1, <2>1 DEF Shows, EndsWith, NothingFinished
    <3> QED
      BY <2>1, <3>1 DEF EndsWith
  <2>2. CASE last # Job!StartedEntry
    <3>1. 0 < Len(s) /\ FromEnd(s, 0) = last
      BY <2>2 DEF Shows, EndsWith
    <3>2. FromEnd(t, 0 + 1) = last
      BY <1>1, <3>1
    <3> QED
      BY <1>1, <2>2, <3>1, <3>2 DEF EndsWith
  <2> QED
    BY <2>1, <2>2
<1>3. ASSUME KeepsFailures, NEW k \in Nat, k < nFailures, k < MaxFailures
      PROVE  2 * k + 1 < Len(t) /\ FromEnd(t, 2 * k + 1).what = "failure"
  <2>1. 2 * k + 0 < Len(s) /\ FromEnd(s, 2 * k + 0).what = "failure"
    BY <1>3 DEF Shows, EndsInFailures
  <2>2. 2 * k \in Nat /\ 2 * k + 0 = 2 * k
    OBVIOUS
  <2> QED
    BY <1>1, <2>1, <2>2
<1> QED
  BY <1>2, <1>3 DEF Shows, EndsInFailures

LEMMA AppendEndShows ==
    ASSUME NEW s \in Seq(JobEntry), NEW outcome \in JobOutcomes, NEW time \in 0..MaxTime,
           NEW last, NEW nFailures \in Nat, Shows(s, 1, last, nFailures)
    PROVE  LET e == Job!FinishedEntry(outcome, time)
           IN  /\ e \in JobEntry /\ e # Job!StartedEntry
               /\ Shows(Append(s, e), 0, e, JobProofs!FailedAfter(outcome, nFailures))
<1> PICK e : e = Job!FinishedEntry(outcome, time)
  OBVIOUS
<1> PICK t : t = Append(s, e)
  OBVIOUS
<1> PICK m : m = JobProofs!FailedAfter(outcome, nFailures)
  OBVIOUS
<1>1. e \in JobEntry /\ e # Job!StartedEntry /\ e.what = outcome
  <2>1. e = JobProofs!FinishedEntry(outcome, time) /\ outcome \in JobProofs!Outcome
    BY WrapperAssumptions DEF Job!FinishedEntry, JobProofs!FinishedEntry
  <2>2. e \in JobEntry /\ e.what = outcome
    BY <2>1, SameEntries, JobProofs!EntryKinds, WrapperAssumptions
  <2>3. Job!StartedEntry.what = "started"
    BY DEF Job!StartedEntry
  <2> QED
    BY <2>1, <2>2, <2>3 DEF JobProofs!Outcome
<1>2. /\ t \in Seq(JobEntry) /\ Len(t) = Len(s) + 1 /\ Len(s) \in Nat
      /\ FromEnd(t, 0) = e
      /\ \A k \in Nat : k < Len(s) => FromEnd(t, k + 1) = FromEnd(s, k)
  BY <1>1, AppendFromEnd
<1>3. EndsWith(t, 0, e)
  BY <1>1, <1>2 DEF EndsWith
<1>4. ASSUME KeepsFailures, NEW k \in Nat, k < m, k < MaxFailures
      PROVE  2 * k + 0 < Len(t) /\ FromEnd(t, 2 * k + 0).what = "failure"
  <2>1. outcome = "failure" /\ k < nFailures + 1
    BY <1>4, ScheduledAssumption DEF JobProofs!FailedAfter, KeepsFailures
  <2>2. CASE k = 0
    BY <1>1, <1>2, <2>1, <2>2
  <2>3. CASE k # 0
    <3> PICK j \in Nat : k = j + 1
      <4>1. k - 1 \in Nat /\ k = (k - 1) + 1
        BY <2>3
      <4> QED
        BY <4>1
    <3>1. j < nFailures /\ j < MaxFailures
      BY <1>4, <2>1, ScheduledAssumption
    <3>2. 2 * j + 1 < Len(s) /\ FromEnd(s, 2 * j + 1).what = "failure"
      BY <1>4, <3>1 DEF Shows, EndsInFailures
    <3>3. FromEnd(t, (2 * j + 1) + 1) = FromEnd(s, 2 * j + 1)
      BY <1>2, <3>2
    <3>4. 2 * k + 0 = (2 * j + 1) + 1
      OBVIOUS
    <3> QED
      BY <1>2, <3>2, <3>3, <3>4
  <2> QED
    BY <2>2, <2>3
<1> QED
  BY <1>1, <1>3, <1>4 DEF Shows, EndsInFailures

\* Before the job has ever ended, a history shows this if no entry does.
LEMMA NothingShown ==
    ASSUME NEW s, NEW n
    PROVE  Shows(s, n, Job!StartedEntry, 0) <=> NothingFinished(s)
  BY DEF Shows, EndsWith, EndsInFailures

-------------------------------------------------------------------------------
(* The completions are on record.                                          *)

ShowsTruth(s, n) == Shows(s, n, ended, failed)

Unfinished == job_pc[Self] \in {"idle", "asking", "starting"}

Appending == step[Self] \in {"loaded", "truncated"}

\* Unless something was lost, what the file ends with is what has happened:
\* the last completion, a start after it while the job runs.
RecordInv ==
    ~lost =>
        /\ Unfinished /\ step[Self] # "truncated" => ShowsTruth(Job!LoadedEntries, 0)
        /\ Unfinished /\ step[Self] # "closed" /\ file.status = "absent" =>
            NothingFinished(entries[Self])
        /\ job_pc[Self] = "starting" /\ Appending => ShowsTruth(entries[Self], 1)
        /\ job_pc[Self] = "running" => ShowsTruth(Job!LoadedEntries, 1)
        /\ job_pc[Self] = "finishing" =>
            /\ item[Self] = ended /\ ended # Job!StartedEntry
            /\ step[Self] = "ready" => ShowsTruth(Append(Job!LoadedEntries, item[Self]), 0)
            /\ Appending => ShowsTruth(entries[Self], 0)

\* What is known of the wrapper wherever it is.
WrapperInv == JobProofs!TypeOK /\ JobProofs!HistInv /\ JobProofs!WrapInv

\* The steps the composition takes in the wrapper: an interrupt can be caught
\* there only while it reads or writes the history.
WrapperStep ==
    \/ Job!Start(Self) \/ Job!Ask(Self) \/ Job!AdmitForced(Self)
    \/ Job!AdmitDue(Self) \/ Job!Refuse(Self) \/ Job!LookFails(Self)
    \/ Job!BeginRecord(Self) \/ Job!TruncateRecord(Self) \/ Job!EndRecord(Self)
    \/ Job!RecordFails(Self)
    \/ \E outcome \in JobOutcomes : Job!EndJob(Self, outcome)
    \/ Job!Die(Self) /\ job_pc[Self] \in {"asking", "starting", "finishing"}
    \/ Job!Tick

LEMMA ScheduledStepsIn ==
    ASSUME ScheduledNext
    PROVE  WrapperStep \/ UNCHANGED jobVars
<1>0. UNCHANGED on_max_failures
  BY DEF ScheduledNext
<1>1. CASE OpenHistory \/ ClockTicks
  BY <1>1 DEF OpenHistory, ClockTicks, WrapperStep
<1>2. CASE LoopThread
  BY <1>2 DEF LoopThread, LoopAlone, AskPredicate, PredicateAnswers, WriteRecord,
              BeginJob, EndJob, EndAttempt, WrapperStep
<1>3. CASE Trouble
  BY <1>3 DEF Trouble, PredicateRaises, StartNotRecorded, EndNotRecorded,
              HeartbeatFails, Interrupted, WrapperInterrupted, WrapperStep
<1>4. CASE ClientRequest \/ TimeoutElapses
  BY <1>4 DEF ClientRequest, TimeoutElapses
<1> QED
  BY <1>1, <1>2, <1>3, <1>4 DEF ScheduledNext, Advance

\* What the invariants of the wrapper say of its one process.
LEMMA OfTheProcess ==
    ASSUME WrapperInv
    PROVE  /\ entries[Self] \in Seq(JobEntry) /\ Job!LoadedEntries \in Seq(JobEntry)
           /\ Job!Refreshed(Self) \in Seq(JobEntry)
           /\ item[Self] \in JobEntry /\ failed \in 0..MaxFailures + 1 /\ failed \in Nat
           /\ now \in 0..MaxTime
           /\ step[Self] \in {"closed", "ready", "loaded", "truncated"}
           /\ job_pc[Self] \in {"idle", "asking", "starting", "running", "finishing"}
           /\ DOMAIN step = {Self} /\ DOMAIN job_pc = {Self} /\ DOMAIN entries = {Self}
           /\ DOMAIN item = {Self}
           /\ Appending => job_pc[Self] \in {"starting", "finishing"}
           /\ step[Self] = "closed" => job_pc[Self] = "idle"
           /\ job_pc[Self] = "starting" => item[Self] = Job!StartedEntry
           /\ ~lost /\ job_pc[Self] \in {"running", "finishing"} /\ step[Self] = "ready" =>
               file.status = "whole"
           /\ ~lost /\ step[Self] = "truncated" => file.status = "torn"
           /\ file.status # "whole" => Job!LoadedEntries = <<>>
           /\ ended = Job!StartedEntry => failed = 0
<1>1. Self \in {Self}
  OBVIOUS
<1>2. /\ entries[Self] \in Seq(JobEntry) /\ Job!LoadedEntries \in Seq(JobEntry)
      /\ item[Self] \in JobEntry
  BY <1>1, SameReading, SameEntries, JobProofs!LogsAreTyped, WrapperAssumptions
     DEF WrapperInv
<1>3. Job!Refreshed(Self) \in Seq(JobEntry)
  BY <1>2 DEF Job!Refreshed
<1>4. /\ failed \in 0..MaxFailures + 1 /\ failed \in Nat
      /\ now \in 0..MaxTime
      /\ step[Self] \in {"closed", "ready", "loaded", "truncated"}
      /\ job_pc[Self] \in {"idle", "asking", "starting", "running", "finishing"}
      /\ DOMAIN step = {Self} /\ DOMAIN job_pc = {Self} /\ DOMAIN entries = {Self}
      /\ DOMAIN item = {Self}
  BY ScheduledAssumption DEF WrapperInv, JobProofs!TypeOK, JobProofs!HistTypeOK
<1>5. /\ Appending => job_pc[Self] \in {"starting", "finishing"}
      /\ step[Self] = "closed" => job_pc[Self] = "idle"
      /\ job_pc[Self] = "starting" => item[Self] = Job!StartedEntry
      /\ ~lost /\ job_pc[Self] \in {"running", "finishing"} /\ step[Self] = "ready" =>
          file.status = "whole"
      /\ ~lost /\ step[Self] = "truncated" => file.status = "torn"
  BY SameReading DEF WrapperInv, JobProofs!WrapInv, JobProofs!PhaseInv,
                     JobProofs!TellInv, JobProofs!Appending, Appending
<1>6. file.status # "whole" => Job!LoadedEntries = <<>>
  <2>1. file.status # "whole" => file.entries = <<>>
    BY DEF WrapperInv, JobProofs!HistInv, JobProofs!FileInv
  <2>2. JobProofs!DiscardOldEntries(<<>>) = <<>>
    BY JobProofs!DiscardNothing, WrapperAssumptions
  <2> QED
    BY <2>1, <2>2, SameReading DEF JobProofs!LoadedEntries
<1>7. ended = Job!StartedEntry => failed = 0
  BY SameReading DEF WrapperInv, JobProofs!WrapInv, JobProofs!NeverEndedInv
<1> QED
  BY <1>2, <1>3, <1>4, <1>5, <1>6, <1>7

\* What a look at the history finds.
LEMMA RefreshedShows ==
    ASSUME WrapperInv, RecordInv, ~lost, Unfinished, step[Self] = "ready"
    PROVE  /\ ShowsTruth(Job!Refreshed(Self), 0)
           /\ file.status = "absent" => ended = Job!StartedEntry
<1>1. ShowsTruth(Job!LoadedEntries, 0)
  BY DEF RecordInv
<1>2. CASE file.status = "absent"
  <2>1. ended = Job!StartedEntry
    <3>1. Job!LoadedEntries = <<>>
      BY <1>2, OfTheProcess
    <3> QED
      BY <1>1, <3>1 DEF ShowsTruth, Shows, EndsWith
  <2>2. failed = 0 /\ NothingFinished(entries[Self])
    BY <1>2, <2>1, OfTheProcess DEF RecordInv
  <2>3. Job!Refreshed(Self) = entries[Self]
    BY <1>2 DEF Job!Refreshed
  <2> QED
    BY <2>1, <2>2, <2>3, NothingShown DEF ShowsTruth
<1>3. CASE file.status # "absent"
  BY <1>1, <1>3 DEF Job!Refreshed
<1> QED
  BY <1>2, <1>3

\* A look at the history, a forced answer, the start of the scheduler, or an
\* append that is broken off: the file stays as it is.
LEMMA UntouchedKeepsRecord ==
    ASSUME WrapperInv, RecordInv,
           UNCHANGED <<file, ended, failed>>,
           ~lost' => ~lost /\ Unfinished /\ step[Self] # "truncated",
           Unfinished', step'[Self] \in {"closed", "ready"},
           step'[Self] # "closed" /\ file.status = "absent" =>
               entries'[Self] = <<>> \/ (step[Self] # "closed" /\ entries'[Self] = entries[Self])
    PROVE  RecordInv'
<1>1. Job!LoadedEntries' = Job!LoadedEntries
  BY DEF Job!LoadedEntries
<1>2. NothingFinished(<<>>)
  BY DEF NothingFinished
<1>3. /\ job_pc'[Self] \in {"idle", "asking", "starting"}
      /\ ~(step'[Self] \in {"loaded", "truncated"})
  BY DEF Unfinished
<1> QED
  BY <1>1, <1>2, <1>3 DEF RecordInv, ShowsTruth, Appending, Unfinished

LEMMA QuietKeepsRecord ==
    ASSUME WrapperInv, RecordInv,
           \/ Job!Start(Self) \/ Job!Ask(Self) \/ Job!AdmitForced(Self)
           \/ Job!AdmitDue(Self) \/ Job!Refuse(Self) \/ Job!LookFails(Self)
    PROVE  RecordInv'
<1> USE DEF Job!Move, Job!Return, Job!Admit, Job!Look, Job!Open, Job!histVars,
            Job!truthVars, Job!wrapVars
<1>1. /\ UNCHANGED <<file, ended, failed, lost>>
      /\ Unfinished /\ Unfinished'
      /\ step[Self] \in {"closed", "ready"} /\ step'[Self] \in {"closed", "ready"}
  <2>1. CASE Job!Start(Self)
    BY <2>1, OfTheProcess DEF Job!Start, Unfinished
  <2>2. CASE Job!Ask(Self)
    BY <2>2, OfTheProcess DEF Job!Ask, Unfinished
  <2>3. CASE Job!AdmitForced(Self) \/ Job!AdmitDue(Self)
    BY <2>3, OfTheProcess DEF Job!AdmitForced, Job!AdmitDue, Unfinished, Appending
  <2>4. CASE Job!Refuse(Self) \/ Job!LookFails(Self)
    BY <2>4, OfTheProcess DEF Job!Refuse, Job!LookFails, Unfinished, Appending
  <2> QED
    BY <2>1, <2>2, <2>3, <2>4
<1>2. file.status = "absent" =>
        entries'[Self] = <<>> \/ (step[Self] # "closed" /\ entries'[Self] = entries[Self])
  <2>1. CASE Job!Start(Self)
    BY <2>1, OfTheProcess DEF Job!Start
  <2>2. CASE Job!Ask(Self) \/ Job!AdmitForced(Self) \/ Job!LookFails(Self)
    BY <2>2, OfTheProcess DEF Job!Ask, Job!AdmitForced, Job!LookFails
  <2>3. CASE Job!AdmitDue(Self) \/ Job!Refuse(Self)
    BY <2>3, OfTheProcess DEF Job!AdmitDue, Job!Refuse, Job!Refreshed
  <2> QED
    BY <2>1, <2>2, <2>3
<1> QED
  BY <1>1, <1>2, UntouchedKeepsRecord

LEMMA BreakKeepsRecord ==
    ASSUME WrapperInv, RecordInv,
           \/ Job!RecordFails(Self)
           \/ Job!Die(Self) /\ job_pc[Self] \in {"asking", "starting", "finishing"}
    PROVE  RecordInv'
<1>1. /\ UNCHANGED <<file, entries, ended, failed>>
      /\ lost' = (lost \/ job_pc[Self] = "finishing" \/ step[Self] = "truncated")
      /\ job_pc'[Self] = "idle"
      /\ step[Self] # "closed" /\ step'[Self] \in {"closed", "ready"}
      /\ job_pc[Self] \in {"asking", "starting", "finishing"}
  <2>1. CASE Job!RecordFails(Self)
    BY <2>1, OfTheProcess
       DEF Job!RecordFails, Job!WriteFails, Job!Return, Job!Breaks, Job!truthVars,
           Appending
  <2>2. CASE Job!Die(Self) /\ job_pc[Self] \in {"asking", "starting", "finishing"}
    BY <2>2, OfTheProcess
       DEF Job!Die, Job!Crash, Job!Return, Job!Breaks, Job!truthVars
  <2> QED
    BY <2>1, <2>2
<1> QED
  BY <1>1, UntouchedKeepsRecord DEF Unfinished

LEMMA BeginKeepsRecord ==
    ASSUME MaxEntries >= 2, WrapperInv, RecordInv, Job!BeginRecord(Self)
    PROVE  RecordInv'
<1> PICK r : r = Append(Job!Refreshed(Self), item[Self])
  OBVIOUS
<1>1. /\ UNCHANGED <<file, ended, failed, lost, job_pc, item>>
      /\ step[Self] = "ready" /\ step'[Self] = "loaded"
      /\ job_pc[Self] \in {"starting", "finishing"}
      /\ entries'[Self] = Job!DiscardOldEntries(r)
  BY OfTheProcess DEF Job!BeginRecord, Job!BeginAppend, Job!wrapVars, Job!truthVars
<1>2. Job!LoadedEntries' = Job!LoadedEntries
  BY <1>1 DEF Job!LoadedEntries
<1>3. r \in Seq(JobEntry) /\ failed \in Nat
  BY OfTheProcess, AppendFromEnd
<1>4. CASE job_pc[Self] = "starting" /\ ~lost
  <2>1. /\ ShowsTruth(Job!Refreshed(Self), 0)
        /\ file.status = "absent" => ended = Job!StartedEntry
    BY <1>1, <1>4, RefreshedShows DEF Unfinished
  <2>2. item[Self] = Job!StartedEntry /\ Job!Refreshed(Self) \in Seq(JobEntry)
    BY <1>4, OfTheProcess
  <2>3. Shows(r, 1, ended, failed)
    BY <1>3, <2>1, <2>2, AppendStartShows DEF ShowsTruth
  <2>4. Shows(entries'[Self], 1, ended, failed)
    BY <1>1, <1>3, <2>3, DiscardKeepsEnd
  <2>5. file.status = "absent" => NothingFinished(entries'[Self])
    BY <2>1, <2>4 DEF Shows, EndsWith
  <2>6. ShowsTruth(Job!LoadedEntries, 0)
    BY <1>1, <1>4 DEF RecordInv, Unfinished
  <2> QED
    BY <1>1, <1>2, <1>4, <2>4, <2>5, <2>6 DEF RecordInv, ShowsTruth, Appending, Unfinished
<1>5. CASE job_pc[Self] = "finishing" /\ ~lost
  <2>1. /\ item[Self] = ended /\ ended # Job!StartedEntry
        /\ ShowsTruth(Append(Job!LoadedEntries, item[Self]), 0)
    BY <1>1, <1>5 DEF RecordInv
  <2>2. Job!Refreshed(Self) = Job!LoadedEntries
    BY <1>1, <1>5, OfTheProcess DEF Job!Refreshed
  <2>3. Shows(entries'[Self], 0, ended, failed)
    BY <1>1, <1>3, <2>1, <2>2, DiscardKeepsEnd DEF ShowsTruth
  <2> QED
    BY <1>1, <1>5, <2>1, <2>3 DEF RecordInv, ShowsTruth, Appending, Unfinished
<1>6. CASE lost
  BY <1>1, <1>6 DEF RecordInv
<1> QED
  BY <1>1, <1>4, <1>5, <1>6

LEMMA TruncateKeepsRecord ==
    ASSUME WrapperInv, RecordInv, Job!TruncateRecord(Self)
    PROVE  RecordInv'
<1>1. /\ UNCHANGED <<entries, ended, failed, lost, job_pc, item>>
      /\ file'.status = "torn"
      /\ step[Self] = "loaded" /\ step'[Self] = "truncated"
      /\ job_pc[Self] \in {"starting", "finishing"}
  BY OfTheProcess DEF Job!TruncateRecord, Job!Truncate, Job!TornFile, Job!wrapVars,
                      Job!truthVars, Appending
<1> QED
  BY <1>1 DEF RecordInv, ShowsTruth, Appending, Unfinished

LEMMA EndRecordKeepsRecord ==
    ASSUME MaxEntries >= 2, WrapperInv, RecordInv, Job!EndRecord(Self)
    PROVE  RecordInv'
<1>1. /\ UNCHANGED <<entries, ended, failed, lost>>
      /\ step[Self] = "truncated" /\ step'[Self] = "ready"
      /\ \/ job_pc[Self] = "starting" /\ job_pc'[Self] = "running"
         \/ job_pc[Self] = "finishing" /\ job_pc'[Self] = "idle"
  BY OfTheProcess DEF Job!EndRecord, Job!FinishWrite, Job!Move, Job!Return, Job!truthVars
<1>2. ASSUME ~lost
      PROVE  file'.status = "whole" /\ Job!LoadedEntries' = Job!DiscardOldEntries(entries[Self])
  <2>1. file.status = "torn"
    BY <1>1, <1>2, OfTheProcess
  <2>2. file' = [status |-> "whole", entries |-> entries[Self]]
    BY <2>1 DEF Job!EndRecord, Job!FinishWrite, Job!WholeFile
  <2> QED
    BY <2>2 DEF Job!LoadedEntries
<1>3. entries[Self] \in Seq(JobEntry) /\ failed \in Nat
  BY OfTheProcess
<1>4. ASSUME ~lost, job_pc[Self] = "starting"
      PROVE  Shows(Job!LoadedEntries', 1, ended, failed)
  <2>1. Shows(entries[Self], 1, ended, failed)
    BY <1>1, <1>4 DEF RecordInv, ShowsTruth, Appending
  <2> QED
    BY <1>2, <1>3, <1>4, <2>1, DiscardKeepsEnd
<1>5. ASSUME ~lost, job_pc[Self] = "finishing"
      PROVE  Shows(Job!LoadedEntries', 0, ended, failed)
  <2>1. Shows(entries[Self], 0, ended, failed)
    BY <1>1, <1>5 DEF RecordInv, ShowsTruth, Appending
  <2> QED
    BY <1>2, <1>3, <1>5, <2>1, DiscardKeepsEnd
<1> QED
  BY <1>1, <1>2, <1>4, <1>5 DEF RecordInv, ShowsTruth, Appending, Unfinished

LEMMA EndJobKeepsRecord ==
    ASSUME WrapperInv, RecordInv, NEW outcome \in JobOutcomes, Job!EndJob(Self, outcome)
    PROVE  RecordInv'
<1> PICK e : e = Job!FinishedEntry(outcome, now)
  OBVIOUS
<1>1. /\ UNCHANGED <<file, entries, step, lost>>
      /\ job_pc[Self] = "running" /\ job_pc'[Self] = "finishing"
      /\ item'[Self] = e /\ ended' = e
  BY OfTheProcess DEF Job!EndJob, Job!Move, Job!histVars
<1>2. failed' = JobProofs!FailedAfter(outcome, failed)
  <2>1. outcome \in {"success", "neutral", "failure"} /\ failed \in Nat /\ MaxFailures \in Nat
    BY OfTheProcess, ScheduledAssumption
  <2> QED
    BY <2>1 DEF Job!EndJob, JobProofs!FailedAfter
<1>3. Job!LoadedEntries' = Job!LoadedEntries
  BY <1>1 DEF Job!LoadedEntries
<1>4. ASSUME ~lost
      PROVE  /\ ended' # Job!StartedEntry
             /\ Shows(Append(Job!LoadedEntries, e), 0, e, failed')
  <2>1. Shows(Job!LoadedEntries, 1, ended, failed)
    BY <1>1, <1>4 DEF RecordInv, ShowsTruth
  <2> QED
    BY <1>1, <1>2, <2>1, OfTheProcess, AppendEndShows
<1>5. ~Appending
  BY <1>1, OfTheProcess
<1> QED
  BY <1>1, <1>3, <1>4, <1>5 DEF RecordInv, ShowsTruth, Appending, Unfinished

LEMMA RecordInvInit == ScheduledInit => RecordInv
<1> SUFFICES ASSUME ScheduledInit
             PROVE  RecordInv
  OBVIOUS
<1>1. /\ file = [status |-> "absent", entries |-> <<>>]
      /\ step[Self] = "closed" /\ job_pc[Self] = "idle"
      /\ ended = Job!StartedEntry /\ failed = 0
  BY DEF ScheduledInit, Job!Init, Job!HistInit, Job!NoFile
<1>2. Job!LoadedEntries = <<>>
  <2>1. JobProofs!DiscardOldEntries(<<>>) = <<>>
    BY JobProofs!DiscardNothing, WrapperAssumptions
  <2> QED
    BY <1>1, <2>1, SameReading DEF JobProofs!LoadedEntries
<1>3. NothingFinished(<<>>)
  BY DEF NothingFinished
<1> QED
  BY <1>1, <1>2, <1>3, NothingShown DEF RecordInv, ShowsTruth, Unfinished, Appending

LEMMA RecordInvStep ==
    ASSUME MaxEntries >= 2, WrapperInv, RecordInv, [ScheduledNext]_scheduledVars
    PROVE  RecordInv'
<1>1. CASE UNCHANGED jobVars \/ Job!Tick
  <2>1. UNCHANGED <<file, entries, step, job_pc, item, ended, failed, lost>>
    BY <1>1 DEF jobVars, Job!Tick, Job!histVars, Job!wrapVars, Job!truthVars
  <2>2. Job!LoadedEntries' = Job!LoadedEntries
    BY <2>1 DEF Job!LoadedEntries
  <2> QED
    BY <2>1, <2>2 DEF RecordInv, ShowsTruth, Appending, Unfinished
<1>2. CASE WrapperStep
  BY <1>1, <1>2, QuietKeepsRecord, BreakKeepsRecord, BeginKeepsRecord,
     TruncateKeepsRecord, EndRecordKeepsRecord, EndJobKeepsRecord DEF WrapperStep
<1>3. UNCHANGED scheduledVars => UNCHANGED jobVars
  BY DEF scheduledVars
<1> QED
  BY <1>1, <1>2, <1>3, ScheduledStepsIn

LEMMA RecordInvariance ==
    ASSUME MaxEntries >= 2
    PROVE  ScheduledSpec => [](WrapperInv /\ RecordInv)
<1>1. WrapperInv /\ RecordInv /\ [ScheduledNext]_scheduledVars => RecordInv'
  BY RecordInvStep
<1> QED
  BY <1>1, RecordInvInit, WrapperInvariance, PTL DEF ScheduledSpec, WrapperInv

\* What a history that shows the last completion is read as.
LEMMA ShownIsRead ==
    ASSUME NEW s \in Seq(JobEntry), NEW n \in {0, 1}, NEW last \in JobEntry,
           EndsWith(s, n, last)
    PROVE  Job!LastFinished(s) = last
<1>1. Len(s) \in Nat /\ DOMAIN s = 1..Len(s)
  BY LenProperties
<1>2. Job!StartedEntry.what \notin Job!Outcome
  BY DEF Job!StartedEntry, Job!Outcome
<1>3. CASE last = Job!StartedEntry
  <2>1. Job!Indices(s, Job!Outcome) = {}
    BY <1>1, <1>2, <1>3 DEF EndsWith, NothingFinished, Job!Indices
  <2> QED
    BY <1>3, <2>1 DEF Job!LastFinished
<1>4. CASE last # Job!StartedEntry
  <2> PICK i : i = Len(s) - n
    OBVIOUS
  <2>1. /\ i \in 1..Len(s) /\ s[i] = last
        /\ n = 1 => s[Len(s) - 0] = Job!StartedEntry
    BY <1>1, <1>4 DEF EndsWith, FromEnd
  <2>2. last.what \in Job!Outcome
    <3>1. last.what \in JobProofs!Outcome
      BY <1>4, SameReading, SameEntries, JobProofs!EntryKinds, WrapperAssumptions
    <3> QED
      BY <3>1 DEF Job!Outcome, JobProofs!Outcome
  <2>3. i \in Job!Indices(s, Job!Outcome)
    BY <1>1, <2>1, <2>2 DEF Job!Indices
  <2>4. ASSUME NEW j \in Job!Indices(s, Job!Outcome)
        PROVE  j <= i
    <3>1. j \in 1..Len(s) /\ s[j] # Job!StartedEntry
      BY <1>1, <1>2 DEF Job!Indices
    <3> QED
      BY <1>1, <2>1, <3>1
  <2>5. \A j \in Job!Indices(s, Job!Outcome) :
          (\A k \in Job!Indices(s, Job!Outcome) : k <= j) => j = i
    <3>1. \A j \in Job!Indices(s, Job!Outcome) : j \in Nat
      BY <1>1 DEF Job!Indices
    <3> QED
      BY <2>1, <2>3, <2>4, <3>1
  <2>6. Job!LastEntry(s, Job!Outcome) = s[i]
    BY <2>3, <2>4, <2>5 DEF Job!LastEntry
  <2> QED
    BY <2>1, <2>3, <2>6 DEF Job!LastFinished
<1> QED
  BY <1>3, <1>4

(* Through interrupts, failed reads and writes, forced runs and restarts,  *)
(* the last completion on file is the last that has happened, for any      *)
(* periods, policy and outcomes, if the file keeps two entries at least:   *)
(* one for a start and one for the completion before it.                   *)
THEOREM ScheduledRecords ==
    ASSUME MaxEntries >= 2
    PROVE  ScheduledSpec => []CompletionsAreRecorded
<1>1. WrapperInv /\ RecordInv => CompletionsAreRecorded
  <2> SUFFICES ASSUME WrapperInv, RecordInv, ~lost,
                      job_pc[Self] \notin {"starting", "finishing"}
               PROVE  Job!LastFinished(Job!LoadedEntries) = ended
    BY DEF CompletionsAreRecorded
  <2>1. job_pc[Self] \in {"idle", "asking", "running"} /\ step[Self] # "truncated"
    BY OfTheProcess DEF Appending
  <2>2. \E n \in {0, 1} : EndsWith(Job!LoadedEntries, n, ended)
    BY <2>1 DEF RecordInv, ShowsTruth, Shows, Unfinished
  <2>3. Job!LoadedEntries \in Seq(JobEntry) /\ ended \in JobEntry
    BY OfTheProcess, SameEntries DEF WrapperInv, JobProofs!TypeOK
  <2> QED
    BY <2>2, <2>3, ShownIsRead
<1> QED
  BY <1>1, RecordInvariance, PTL

-------------------------------------------------------------------------------
(* Nothing runs early unasked.  The loop and the wrapper are in step, a    *)
(* forced attempt has been asked for, and an attempt that is not forced is *)
(* admitted only if the job is due by what really happened.                *)

\* Where the loop is says where the wrapper is.
LinkInv ==
    /\ job_pc[Self] = "asking" => pc = "predicate" /\ job_forced[Self] = forced
    /\ job_pc[Self] = "starting" <=> pc = "start"
    /\ job_pc[Self] \in {"running", "finishing"} <=> pc = "job"

\* A forced run that is pending, or that has been turned to and not begun, was
\* asked for since the last run.
RequestInv ==
    /\ pending_run_now => requested
    /\ mode = "run-now" /\ pc \in {"mark", "heartbeat", "predicate", "start"} =>
        requested

DueInv == ~lost /\ pc = "start" /\ ~requested => Due(asked[Self])

\* No failure that the policy counts is forgotten.
FailuresAreKept ==
    \/ Policies \subseteq {"ignore"}
    \/ MaxFailures <= 1
    \/ KeepsFailures

\* Steps of the loop outside the wrapper.
LEMMA LoopAloneIsOutside ==
    ASSUME LoopAlone
    PROVE  /\ pc \notin {"predicate", "start", "job"} /\ pc' \notin {"start", "job"}
           /\ UNCHANGED <<job_pc, job_forced>>
  BY DEF LoopAlone, TestLoop, TakeRunMode, BeginAttempt, TouchHeartbeat, CountRun,
         Recheck, CheckPending, Sleep, WakeUp, Finally, CloseServer, Goto,
         LeaveLoop, jobVars

LEMMA LeaveAttemptLeaves ==
    ASSUME NEW what, LeaveAttempt(what)
    PROVE  pc' \in {"count", "finally"} /\ UNCHANGED <<ctrlVars, mode>>
  BY DEF LeaveAttempt, FinishJob, Goto, KeyboardInterruptInTry, AttemptRaises,
         LeaveLoop

LEMMA LinkInvStep ==
    ASSUME WrapperInv, LinkInv, [ScheduledNext]_scheduledVars
    PROVE  LinkInv'
<1>0. /\ job_pc[Self] \in {"idle", "asking", "starting", "running", "finishing"}
      /\ DOMAIN job_pc = {Self} /\ DOMAIN job_forced = {Self}
  BY OfTheProcess DEF WrapperInv, JobProofs!TypeOK
<1> USE <1>0 DEF LinkInv
<1>1. CASE LoopAlone
  BY <1>1, LoopAloneIsOutside
<1>2. CASE UNCHANGED <<pc, forced, job_pc, job_forced>>
  BY <1>2
<1>3. ASSUME OpenHistory \/ WriteRecord \/ ClockTicks \/ ClientRequest
             \/ UNCHANGED scheduledVars
      PROVE  UNCHANGED <<pc, forced, job_pc, job_forced>>
  BY <1>3 DEF OpenHistory, WriteRecord, ClockTicks, ClientRequest, Request, vars,
              loopVars, scheduledVars, jobVars, Job!Start, Job!BeginRecord,
              Job!TruncateRecord, Job!Tick, Job!wrapVars
<1>4. CASE AskPredicate
  BY <1>4 DEF AskPredicate, Job!Ask, Job!Move, vars, loopVars
<1>5. CASE PredicateAnswers
  BY <1>5 DEF PredicateAnswers, ConsultPredicate, Job!AdmitForced, Job!AdmitDue,
              Job!Admit, Job!Move, Job!Refuse, Job!Return
<1>6. CASE BeginJob
  BY <1>6 DEF BeginJob, RecordStart, Job!EndRecord, Job!Move, Job!Return
<1>7. CASE EndJob
  BY <1>7 DEF EndJob, Job!EndJob, Job!Move, vars, loopVars
<1>8. CASE EndAttempt
  BY <1>8, LeaveAttemptLeaves DEF EndAttempt, Job!EndRecord, Job!Move, Job!Return
<1>9. CASE EndNotRecorded
  BY <1>9, LeaveAttemptLeaves DEF EndNotRecorded, Job!RecordFails, Job!Return
<1>10. CASE PredicateRaises \/ StartNotRecorded
  BY <1>10 DEF PredicateRaises, StartNotRecorded, ConsultPredicate, RecordStart,
               AttemptRaises, LeaveLoop, Job!LookFails, Job!RecordFails, Job!Return
<1>11. CASE HeartbeatFails
  BY <1>11 DEF HeartbeatFails, AttemptRaises, LeaveLoop, jobVars
<1>12. CASE Interrupted
  BY <1>12 DEF Interrupted, KeyboardInterruptInTry, KeyboardInterruptOutsideTry,
               LeaveLoop, jobVars
<1>13. CASE WrapperInterrupted
  BY <1>13 DEF WrapperInterrupted, KeyboardInterruptInTry, LeaveLoop, Job!Die,
               Job!Return
<1>14. CASE TimeoutElapses
  BY <1>14 DEF TimeoutElapses, IntervalElapsed, Goto, jobVars
<1> QED
  BY <1>1, <1>2, <1>3, <1>4, <1>5, <1>6, <1>7, <1>8, <1>9, <1>10, <1>11, <1>12,
     <1>13, <1>14
     DEF ScheduledNext, Advance, LoopThread, Trouble

LEMMA RequestInvStep ==
    ASSUME LoopInv, RequestInv, [ScheduledNext]_scheduledVars
    PROVE  RequestInv'
<1> USE DEF RequestInv
<1>1. CASE ClientRequest
  BY <1>1 DEF ClientRequest, Request, loopVars
<1>2. ASSUME UNCHANGED requested, pending_run_now' => pending_run_now,
             UNCHANGED mode,
             pc' \in {"mark", "heartbeat", "predicate", "start"} =>
                 pc \in {"mark", "heartbeat", "predicate", "start"}
      PROVE  RequestInv'
  BY <1>2
<1>3. CASE LoopAlone
  <2>1. UNCHANGED requested
    BY <1>3 DEF LoopAlone, historyVars
  <2>2. CASE TakeRunMode
    BY <2>1, <2>2 DEF TakeRunMode, TakeNextRunMode, NextRunMode, Goto
  <2>3. CASE ~TakeRunMode
    <3>1. UNCHANGED mode
      BY <1>3, <2>3 DEF LoopAlone, TestLoop, BeginAttempt, TouchHeartbeat, CountRun,
         Recheck, CheckPending, Sleep, WakeUp, Finally, CloseServer, LeaveLoop
    <3>2. pending_run_now' => pending_run_now
      BY <1>3, <2>3 DEF LoopAlone, TestLoop, BeginAttempt, TouchHeartbeat, CountRun,
         Recheck, CheckPending, Sleep, WakeUp, Finally, CloseServer, LeaveLoop,
         MarkRunning, MarkStopped, UpdateRunCount, WaitForWork, ctrlVars
    <3>3. pc' \in {"mark", "heartbeat", "predicate", "start"} =>
            pc \in {"mark", "heartbeat", "predicate", "start"}
      BY <1>3, <2>3 DEF LoopAlone, TestLoop, BeginAttempt, TouchHeartbeat, CountRun,
         Recheck, CheckPending, Sleep, WakeUp, Finally, CloseServer, LeaveLoop, Goto
    <3> QED
      BY <1>2, <2>1, <3>1, <3>2, <3>3
  <2> QED
    BY <2>2, <2>3
<1>4. CASE BeginJob
  BY <1>4 DEF BeginJob, RecordStart, ctrlVars
<1>5. CASE OpenHistory \/ AskPredicate \/ WriteRecord \/ EndJob \/ ClockTicks
           \/ UNCHANGED scheduledVars
  BY <1>5 DEF OpenHistory, AskPredicate, WriteRecord, EndJob, ClockTicks,
              scheduledVars, vars, ctrlVars, loopVars, historyVars
<1>6. CASE PredicateAnswers
  BY <1>2, <1>6 DEF PredicateAnswers, ConsultPredicate, historyVars, ctrlVars
<1>7. CASE EndAttempt \/ EndNotRecorded
  <2>1. UNCHANGED requested
    BY <1>7 DEF EndAttempt, EndNotRecorded, Fails
  <2>2. pc' \in {"count", "finally"} /\ UNCHANGED <<ctrlVars, mode>>
    BY <1>7, LeaveAttemptLeaves DEF EndAttempt, EndNotRecorded
  <2> QED
    BY <2>1, <2>2 DEF ctrlVars
<1>8. CASE PredicateRaises \/ StartNotRecorded \/ HeartbeatFails \/ Interrupted
           \/ WrapperInterrupted \/ TimeoutElapses
  <2>1. UNCHANGED requested
    BY <1>8 DEF PredicateRaises, StartNotRecorded, HeartbeatFails, Interrupted,
       WrapperInterrupted, TimeoutElapses, Fails, historyVars
  <2>2. pc' \in {"count", "finally", "test"} /\ UNCHANGED <<pending_run_now, mode>>
    BY <1>8 DEF PredicateRaises, StartNotRecorded, HeartbeatFails, Interrupted,
       WrapperInterrupted, TimeoutElapses, ConsultPredicate, RecordStart,
       AttemptRaises, KeyboardInterruptInTry, KeyboardInterruptOutsideTry,
       IntervalElapsed, WaitEnds, Goto, LeaveLoop, ctrlVars
  <2> QED
    BY <2>1, <2>2
<1> QED
  BY <1>1, <1>3, <1>4, <1>5, <1>6, <1>7, <1>8
     DEF ScheduledNext, Advance, LoopThread, Trouble

\* The definition of Cardinality comes with every instance.
LEMMA SameCardinality ==
    /\ \A S : Job!Cardinality(S) = Cardinality(S)
    /\ \A S : JobProofs!Cardinality(S) = Cardinality(S)
  BY DEF Job!Cardinality, JobProofs!Cardinality, Cardinality

\* As many failures as are found in every second place from the end.
LEMMA ManyFailures ==
    ASSUME NEW s \in Seq(JobEntry),
           \A k \in Nat : k < MaxFailures =>
               2 * k < Len(s) /\ FromEnd(s, 2 * k).what = "failure"
    PROVE  Cardinality(Job!Indices(s, {"failure"})) >= MaxFailures
<1>1. Len(s) \in Nat /\ DOMAIN s = 1..Len(s) /\ MaxFailures \in Nat
  BY LenProperties, ScheduledAssumption
<1> DEFINE places == 0..(MaxFailures - 1)
           found == Job!Indices(s, {"failure"})
           f == [k \in places |-> Len(s) - 2 * k]
<1>2. IsFiniteSet(found) /\ Cardinality(found) \in Nat
  <2>1. found \subseteq 1..Len(s)
    BY <1>1 DEF Job!Indices
  <2>2. IsFiniteSet(1..Len(s))
    BY <1>1, FS_Interval
  <2> HIDE DEF found
  <2> QED
    BY <2>1, <2>2, FS_Subset, FS_CardinalityType
<1>3. IsFiniteSet(places) /\ Cardinality(places) = MaxFailures
  <2>1. 0 \in Int /\ MaxFailures - 1 \in Int
    BY <1>1
  <2>2. Cardinality(places) = IF 0 > MaxFailures - 1 THEN 0 ELSE MaxFailures - 1 - 0 + 1
    BY <2>1, FS_Interval
  <2> QED
    BY <1>1, <2>1, <2>2, FS_Interval
<1>4. ASSUME NEW k \in places
      PROVE  Len(s) - 2 * k \in found
  <2>1. k \in Nat /\ k < MaxFailures
    BY <1>1
  <2>2. 2 * k < Len(s) /\ s[Len(s) - 2 * k].what = "failure"
    BY <2>1 DEF FromEnd
  <2>3. Len(s) - 2 * k \in 1..Len(s)
    BY <1>1, <2>1, <2>2
  <2> QED
    BY <1>1, <2>2, <2>3 DEF Job!Indices
<1>5. \A j, k \in places : Len(s) - 2 * j = Len(s) - 2 * k => j = k
  BY <1>1
<1>6. f \in Injection(places, found)
  BY <1>4, <1>5 DEF Injection, IsInjective
<1> HIDE DEF f, places, found
<1>7. Cardinality(places) <= Cardinality(found)
  BY <1>2, <1>6, FS_Injection
<1> QED
  BY <1>1, <1>2, <1>3, <1>7 DEF found

\* An attempt the predicate admits is due, by what has really happened.
LEMMA AdmittedIsDue ==
    ASSUME FailuresAreKept, WrapperInv, RecordInv, ~lost,
           job_pc[Self] = "asking", step[Self] = "ready",
           NEW time, Job!Predicate(time, Job!Refreshed(Self))
    PROVE  Due(time)
<1> PICK s : s = Job!Refreshed(Self)
  OBVIOUS
<1> PICK n : n = Job!NFailuresSinceLastSuccess(s)
  OBVIOUS
<1>1. /\ s \in Seq(JobEntry) /\ Shows(s, 0, ended, failed)
      /\ failed \in Nat /\ MaxFailures \in Nat /\ ended \in JobEntry
  BY OfTheProcess, RefreshedShows, SameEntries, ScheduledAssumption
     DEF Unfinished, ShowsTruth, WrapperInv, JobProofs!TypeOK
<1>2. Job!LastFinished(s) = ended
  BY <1>1, ShownIsRead DEF Shows
<1>3. JobProofs!Tells(s, ended, failed, succeeded)
  <2>1. JobProofs!Refreshed(Self) = s
    BY SameReading DEF Job!Refreshed, JobProofs!Refreshed
  <2>2. JobProofs!NoneFinishing /\ Self \in {Self}
    BY DEF JobProofs!NoneFinishing
  <2>3. JobProofs!TellsTruth(JobProofs!Refreshed(Self))
    BY <2>2, JobProofs!RefreshedTells, WrapperAssumptions DEF WrapperInv
  <2> QED
    BY <2>1, <2>3 DEF JobProofs!TellsTruth
<1>4. Job!LastSuccess(s) # -1 => Job!LastSuccess(s) = succeeded
  <2> SUFFICES ASSUME JobProofs!Indices(s, {"success"}) # {}
               PROVE  JobProofs!LastEntry(s, {"success"}).at = succeeded
    BY SameReading DEF JobProofs!LastSuccess
  <2>1. PICK i \in JobProofs!Indices(s, {"success"}) :
          JobProofs!IsLast(s, {"success"}, i) /\ s[i].at = succeeded
    BY <1>3 DEF JobProofs!Tells
  <2>2. DOMAIN s \subseteq Nat
    BY <1>1, LenProperties
  <2> QED
    BY <2>1, <2>2, JobProofs!LastEntryIs, WrapperAssumptions
<1>5. /\ n = Cardinality(JobProofs!Fails(s)) /\ n \in Nat
      /\ n <= failed \/ failed = MaxFailures + 1
      /\ JobProofs!Indices(s, {"success"}) # {} => n >= failed
  <2>1. n = Cardinality(JobProofs!Fails(s))
    BY SameReading, SameCardinality, JobProofs!CountsFails, WrapperAssumptions
  <2>2. n \in Nat
    BY <1>1, <2>1, SameEntries, SameCardinality, JobProofs!FailsAreFinite,
       WrapperAssumptions
  <2> QED
    BY <1>3, <2>1, <2>2, SameCardinality DEF JobProofs!Tells
<1>6. ASSUME ended.what = "failure", n < MaxFailures, on_max_failures # "ignore"
      PROVE  failed < MaxFailures
  <2> SUFFICES ASSUME failed >= MaxFailures
               PROVE  FALSE
    BY <1>1
  <2>1. JobProofs!Indices(s, {"success"}) = {}
    BY <1>1, <1>5, <1>6
  <2>2. n = Cardinality(Job!Indices(s, {"failure"}))
    BY <1>5, <2>1 DEF JobProofs!Fails, JobProofs!Indices, Job!Indices
  <2>3. 0 < Len(s) /\ FromEnd(s, 0).what = "failure"
    <3>1. ended # Job!StartedEntry
      BY <1>6 DEF Job!StartedEntry
    <3> QED
      BY <1>1, <1>6, <3>1 DEF Shows, EndsWith
  <2>4. ASSUME NEW k \in Nat, k < MaxFailures
        PROVE  2 * k < Len(s) /\ FromEnd(s, 2 * k).what = "failure"
    <3>1. CASE MaxFailures <= 1
      <4>1. 2 * k = 0
        BY <1>1, <2>4, <3>1
      <4> QED
        BY <2>3, <4>1
    <3>2. CASE KeepsFailures
      <4>1. k < failed /\ 2 * k + 0 = 2 * k
        BY <1>1, <2>4
      <4> QED
        BY <1>1, <2>4, <3>2, <4>1 DEF Shows, EndsInFailures
    <3>3. ~(Policies \subseteq {"ignore"})
      BY <1>6 DEF WrapperInv, JobProofs!TypeOK
    <3> QED
      BY <3>1, <3>2, <3>3 DEF FailuresAreKept
  <2> QED
    BY <1>1, <1>5, <1>6, <2>2, <2>4, ManyFailures
<1>7. Job!Policy(time, ended, n, Job!LastSuccess(s))
  BY <1>2 DEF Job!Predicate
<1>8. n >= MaxFailures => failed >= MaxFailures
  BY <1>1, <1>5
<1> QED
  BY <1>4, <1>6, <1>7, <1>8 DEF Job!Policy, Job!Due, Due

LEMMA DueInvStep ==
    ASSUME FailuresAreKept, LoopInv, WrapperInv, RecordInv, LinkInv, RequestInv,
           DueInv, [ScheduledNext]_scheduledVars
    PROVE  DueInv'
<1> SUFFICES ASSUME ~lost', pc' = "start", ~requested'
             PROVE  Due(asked[Self])'
  BY DEF DueInv
<1>1. ASSUME pc = "start", ~requested, ~lost,
             UNCHANGED <<asked, ended, failed, succeeded, on_max_failures>>
      PROVE  Due(asked[Self])'
  <2>1. Due(asked[Self])
    BY <1>1 DEF DueInv
  <2> QED
    BY <1>1, <2>1 DEF Due, Job!Due, Job!Policy, Job!Period
<1>2. CASE PredicateAnswers
  <2>1. pc = "predicate" /\ (Job!AdmitForced(Self) \/ Job!AdmitDue(Self))
        /\ UNCHANGED requested
    BY <1>2 DEF PredicateAnswers, ConsultPredicate, historyVars
  <2>2. job_pc[Self] = "asking"
    BY <2>1 DEF Job!AdmitForced, Job!AdmitDue, Job!Admit, Job!Move
  <2>3. CASE Job!AdmitForced(Self)
    <3>1. forced
      BY <2>2, <2>3 DEF Job!AdmitForced, LinkInv
    <3>2. mode = "run-now"
      BY <2>1, <3>1 DEF LoopInv, ExitInv, ForcedIsScoped
    <3> QED
      BY <2>1, <3>2 DEF RequestInv
  <2>4. CASE Job!AdmitDue(Self)
    <3>1. /\ step[Self] = "ready" /\ Job!Predicate(asked[Self], Job!Refreshed(Self))
          /\ UNCHANGED <<asked, ended, failed, succeeded, lost>>
      BY <2>4 DEF Job!AdmitDue, Job!Look, Job!Admit, Job!truthVars
    <3>2. Due(asked[Self])
      BY <2>2, <3>1, AdmittedIsDue
    <3>3. UNCHANGED on_max_failures
      BY <1>2, <2>1 DEF ScheduledNext, scheduledVars, jobVars
    <3> QED
      BY <3>1, <3>2, <3>3 DEF Due, Job!Due, Job!Policy, Job!Period
  <2> QED
    BY <2>1, <2>3, <2>4
<1>3. CASE OpenHistory \/ WriteRecord \/ ClockTicks \/ ClientRequest
           \/ UNCHANGED scheduledVars
  <2>1. UNCHANGED <<pc, asked, ended, failed, succeeded, lost, on_max_failures>>
    BY <1>3 DEF OpenHistory, WriteRecord, ClockTicks, ClientRequest, Request, vars,
                loopVars, scheduledVars, jobVars, Job!Start, Job!BeginRecord,
                Job!TruncateRecord, Job!Tick, Job!wrapVars, Job!truthVars,
                ScheduledNext
  <2>2. ~requested
    BY <1>3 DEF OpenHistory, WriteRecord, ClockTicks, ClientRequest, scheduledVars,
                historyVars
  <2> QED
    BY <1>1, <2>1, <2>2
<1>4. ASSUME \/ LoopAlone \/ AskPredicate \/ BeginJob \/ EndJob \/ EndAttempt
             \/ Trouble \/ TimeoutElapses
      PROVE  FALSE
  <2>1. ~LoopAlone
    BY LoopAloneIsOutside
  <2>2. ~AskPredicate /\ ~EndJob
    BY DEF AskPredicate, EndJob, vars, loopVars
  <2>3. ~BeginJob
    BY DEF BeginJob
  <2>4. ~EndAttempt /\ ~EndNotRecorded
    BY LeaveAttemptLeaves DEF EndAttempt, EndNotRecorded
  <2>5. ~PredicateRaises /\ ~StartNotRecorded /\ ~HeartbeatFails /\ ~Interrupted
        /\ ~WrapperInterrupted /\ ~TimeoutElapses
    BY DEF PredicateRaises, StartNotRecorded, HeartbeatFails, Interrupted,
       WrapperInterrupted, TimeoutElapses, AttemptRaises, KeyboardInterruptInTry,
       KeyboardInterruptOutsideTry, IntervalElapsed, Goto, LeaveLoop
  <2> QED
    BY <1>4, <2>1, <2>2, <2>3, <2>4, <2>5 DEF Trouble
<1> QED
  BY <1>2, <1>3, <1>4 DEF ScheduledNext, Advance, LoopThread

(* "Only runs if it has not run too recently": for any periods and policy, *)
(* a job that begins although it is not due, by its real completions, was  *)
(* asked for by a client since the run before it -- if the file keeps two  *)
(* entries, and the failures that the policy counts: they are not counted  *)
(* at all, or one is enough, or the file has room for max_failures of them *)
(* and no neutral completions push them out.                               *)
THEOREM ScheduledRunsAreRequested ==
    ASSUME MaxEntries >= 2, FailuresAreKept
    PROVE  ScheduledSpec => EarlyRunsAreRequested
<1>1. ScheduledInit => LinkInv /\ RequestInv /\ DueInv
  BY DEF ScheduledInit, Init, CtrlInit, Job!Init, LinkInv, RequestInv, DueInv
<1>2. ASSUME LoopInv, WrapperInv, RecordInv, LinkInv, RequestInv, DueInv,
             [ScheduledNext]_scheduledVars
      PROVE  LinkInv' /\ RequestInv' /\ DueInv'
  <2>1. LinkInv'
    BY <1>2, LinkInvStep
  <2>2. RequestInv'
    BY <1>2, RequestInvStep
  <2>3. DueInv'
    BY <1>2, DueInvStep
  <2> QED
    BY <2>1, <2>2, <2>3
<1>3. DueInv /\ [ScheduledNext]_scheduledVars =>
        [pc = "start" /\ pc' = "job" /\ ~lost /\ ~Due(asked[Self])
            => requested]_scheduledVars
  BY DEF DueInv
<1>4. ScheduledSpec => [](LoopInv /\ WrapperInv /\ RecordInv)
  BY ScheduledUsesLoop, LoopInvariance, RecordInvariance, PTL
<1>5. ScheduledSpec => []DueInv
  BY <1>1, <1>2, <1>4, PTL DEF ScheduledSpec
<1> QED
  BY <1>3, <1>5, PTL DEF ScheduledSpec, EarlyRunsAreRequested

===============================================================================
