----------------------------- MODULE LastRunProofs -----------------------------
(***************************************************************************)
(* Proofs about the shared history, the wrapper of a job and its run       *)
(* predicate.                                                              *)
(*                                                                         *)
(* The history implements HistoryLog, for any number of processes, any     *)
(* entries and any limit on their number: as a lossless log when nothing   *)
(* fails, as a log that is lost as a whole or not at all when processes    *)
(* crash, writes fail and histories are reset.  Processes that run wrapped *)
(* jobs use it as LastRunHistory describes, so this holds of them, too.    *)
(*                                                                         *)
(* As long as processes that share a history do not run the job at the     *)
(* same time, the history tells the truth about the job, and the decision  *)
(* read from the file is the one the policy makes of what really happened, *)
(* for any periods, policies and max_failures and however few entries the  *)
(* file keeps.                                                             *)
(***************************************************************************)
EXTENDS LastRun, SequenceTheorems, FiniteSetTheorems, TLAPS

-------------------------------------------------------------------------------
(* What discarding does to a sequence.                                     *)

(* Discarding old entries keeps a sequence of entries no longer than the   *)
(* limit, and leaves a sequence that is no longer than it alone.           *)
LEMMA DiscardProperties ==
    ASSUME NEW s \in Seq(Entry)
    PROVE  /\ DiscardOldEntries(s) \in Seq(Entry)
           /\ Len(DiscardOldEntries(s)) <= MaxEntries
           /\ Len(s) <= MaxEntries => DiscardOldEntries(s) = s
<1>1. MaxEntries \in Nat /\ Len(s) \in Nat
  BY HistoryAssumption, LenProperties
<1>2. CASE Len(s) <= MaxEntries
  BY <1>1, <1>2 DEF DiscardOldEntries
<1>3. CASE Len(s) > MaxEntries
  <2> DEFINE from == Len(s) - MaxEntries + 1
  <2>1. /\ from \in 1..Len(s)+1
        /\ Len(s) \in from-1..Len(s)
        /\ Len(s) - from + 1 = MaxEntries
    BY <1>1, <1>3
  <2>2. \A i \in from..Len(s) : s[i] \in Entry
    BY <1>1, <1>3, ElementOfSeq
  <2>3. /\ SubSeq(s, from, Len(s)) \in Seq(Entry)
        /\ Len(SubSeq(s, from, Len(s))) = MaxEntries
    BY <1>1, <1>3, <2>1, <2>2, SubSeqProperties
  <2>4. QED
    BY <1>1, <1>3, <2>3 DEF DiscardOldEntries
<1>4. QED
  BY <1>1, <1>2, <1>3

LEMMA DiscardNothing == DiscardOldEntries(<<>>) = <<>>
<1>1. ~(Len(<<>>) > MaxEntries)
  BY HistoryAssumption, EmptySeq
<1>2. QED
  BY <1>1 DEF DiscardOldEntries

LEMMA DiscardIdempotent ==
    ASSUME NEW s \in Seq(Entry)
    PROVE  DiscardOldEntries(DiscardOldEntries(s)) = DiscardOldEntries(s)
  BY DiscardProperties

(* The log keeps its newest entries as the code does.                      *)
LEMMA NewestIsDiscard ==
    ASSUME NEW s
    PROVE  Log!Newest(s) = DiscardOldEntries(s)
  BY DEF Log!Newest, DiscardOldEntries

-------------------------------------------------------------------------------
(* The inductive invariant.  An append works on a copy that was refreshed  *)
(* under the lock, so until it truncates the file its copy is the file's   *)
(* log and one entry more -- unless the file is absent, when the copy is   *)
(* whatever the process remembers.                                         *)

Appending(p) == step[p] \in {"loaded", "truncated"}

\* A process in the middle of append() holds the lock and a full copy.
AppendInv ==
    \A p \in Process : Appending(p) =>
        /\ holder = p
        /\ DiscardOldEntries(entries[p]) = entries[p]

\* Only a whole file has entries, and no file is whole while it is written.
FileInv ==
    /\ file.status # "whole" => file.entries = <<>>
    /\ \A p \in Process : step[p] = "truncated" => file.status # "whole"

OneMore(s) == \E entry \in Entry : s = DiscardOldEntries(Append(LoadedEntries, entry))

LoadedInv ==
    \A p \in Process :
        step[p] = "loaded" => file.status = "absent" \/ OneMore(entries[p])

HistInv == HistTypeOK /\ AppendInv /\ FileInv /\ LoadedInv

LEMMA HistInvInit == HistInit => HistInv
<1> SUFFICES ASSUME HistInit PROVE HistInv
  OBVIOUS
<1>1. <<>> \in Seq(Entry)
  OBVIOUS
<1>2. HistTypeOK
  BY <1>1 DEF HistInit, HistTypeOK, File, NoFile
<1>3. AppendInv /\ FileInv /\ LoadedInv
  BY DEF HistInit, NoFile, AppendInv, Appending, FileInv, LoadedInv
<1>4. QED
  BY <1>2, <1>3 DEF HistInv

LEMMA CopiesAreLogs ==
    ASSUME HistTypeOK, NEW p \in Process
    PROVE  /\ entries[p] \in Seq(Entry)
           /\ file.entries \in Seq(Entry)
           /\ LoadedEntries \in Seq(Entry)
           /\ Refreshed(p) \in Seq(Entry)
  BY DiscardProperties DEF HistTypeOK, File, LoadedEntries, Refreshed

LEMMA HistTypingStep ==
    ASSUME HistTypeOK, [HistNext]_histVars
    PROVE  HistTypeOK'
<1>1. CASE UNCHANGED histVars
  BY <1>1 DEF histVars, HistTypeOK
<1>2. CASE HistNext
  <2>1. PICK p \in Process :
          \/ Open(p) \/ Look(p)
          \/ \E entry \in Entry : BeginAppend(p, entry)
          \/ Truncate(p) \/ FinishWrite(p) \/ WriteFails(p)
          \/ Leave(p) \/ Crash(p) \/ Reset(p)
    BY <1>2 DEF HistNext
  <2>2. /\ entries[p] \in Seq(Entry)
        /\ LoadedEntries \in Seq(Entry)
        /\ Refreshed(p) \in Seq(Entry)
        /\ <<>> \in Seq(Entry)
    BY CopiesAreLogs
  <2>3. CASE Open(p) \/ Look(p)
    BY <2>2, <2>3 DEF Open, Look, HistTypeOK
  <2>4. ASSUME NEW entry \in Entry, BeginAppend(p, entry)
        PROVE  HistTypeOK'
    <3>1. DiscardOldEntries(Append(Refreshed(p), entry)) \in Seq(Entry)
      BY <2>2, DiscardProperties, AppendProperties
    <3>2. QED
      BY <2>4, <3>1 DEF BeginAppend, HistTypeOK
  <2>5. CASE Truncate(p) \/ FinishWrite(p)
    <3>1. TornFile \in File /\ WholeFile(entries[p]) \in File
      BY <2>2 DEF File, TornFile, WholeFile
    <3>2. QED
      BY <2>5, <3>1 DEF Truncate, FinishWrite, HistTypeOK
  <2>6. CASE WriteFails(p) \/ Leave(p) \/ Crash(p)
    BY <2>6 DEF WriteFails, Leave, Crash, HistTypeOK
  <2>7. CASE Reset(p)
    BY <2>2, <2>7 DEF Reset, HistTypeOK, File, NoFile
  <2>8. QED
    BY <2>1, <2>3, <2>4, <2>5, <2>6, <2>7
<1>3. QED
  BY <1>1, <1>2

(* One step of one process keeps the invariant.                            *)
LEMMA HistInvStep ==
    ASSUME HistInv, [HistNext]_histVars
    PROVE  HistInv'
<1> USE DEF HistInv
<1>1. HistTypeOK'
  BY HistTypingStep
<1>2. CASE UNCHANGED histVars
  BY <1>1, <1>2 DEF histVars, AppendInv, Appending, FileInv, LoadedInv, OneMore,
                    LoadedEntries
<1>3. CASE HistNext
  <2>1. PICK p \in Process :
          \/ Open(p) \/ Look(p)
          \/ \E entry \in Entry : BeginAppend(p, entry)
          \/ Truncate(p) \/ FinishWrite(p) \/ WriteFails(p)
          \/ Leave(p) \/ Crash(p) \/ Reset(p)
    BY <1>3 DEF HistNext
  <2> USE DEF HistTypeOK, AppendInv, Appending, FileInv, LoadedInv, OneMore,
              LoadedEntries, LockIsFree
  <2>2. CASE Open(p) \/ Look(p)
    BY <1>1, <2>2, HistoryAssumption DEF Open, Look
  <2>3. ASSUME NEW entry \in Entry, BeginAppend(p, entry)
        PROVE  HistInv'
    <3>1. Append(Refreshed(p), entry) \in Seq(Entry)
      BY CopiesAreLogs, AppendProperties
    <3>2. \A q \in Process : Appending(q)' => q = p
      BY <2>3, HistoryAssumption DEF BeginAppend
    <3>3. AppendInv'
      BY <2>3, <3>1, <3>2, DiscardIdempotent DEF BeginAppend
    <3>4. LoadedInv'
      BY <2>3, <3>2 DEF BeginAppend, Refreshed
    <3>5. FileInv'
      BY <2>3, HistoryAssumption DEF BeginAppend
    <3>6. QED
      BY <1>1, <3>3, <3>4, <3>5
  <2>4. CASE Truncate(p)
    BY <1>1, <2>4 DEF Truncate, TornFile
  <2>5. CASE FinishWrite(p)
    BY <1>1, <2>5, HistoryAssumption DEF FinishWrite, WholeFile
  <2>6. CASE WriteFails(p) \/ Leave(p) \/ Crash(p)
    BY <1>1, <2>6 DEF WriteFails, Leave, Crash
  <2>7. CASE Reset(p)
    BY <1>1, <2>7 DEF Reset, NoFile
  <2>8. QED
    BY <2>1, <2>2, <2>3, <2>4, <2>5, <2>6, <2>7
<1>4. QED
  BY <1>2, <1>3

LEMMA HistInvariance == HistSpec => []HistInv
<1>1. HistInv /\ [HistNext]_histVars => HistInv'
  BY HistInvStep
<1>2. QED
  BY HistInvInit, <1>1, PTL DEF HistSpec

-------------------------------------------------------------------------------
(* Refinement.                                                             *)

\* Every step is a step of the log, possibly a lossy one, or a stutter.
LEMMA StepOfLossyLog ==
    ASSUME HistInv, [HistNext]_histVars
    PROVE  [Log!LossyNext]_SharedLog
<1> USE DEF HistInv
<1>1. HistTypeOK'
  BY HistTypingStep
<1>2. CASE UNCHANGED histVars
  BY <1>2 DEF histVars, SharedLog, Writing, LoadedEntries
<1>3. CASE HistNext
  <2>1. PICK p \in Process :
          \/ Open(p) \/ Look(p)
          \/ \E entry \in Entry : BeginAppend(p, entry)
          \/ Truncate(p) \/ FinishWrite(p) \/ WriteFails(p)
          \/ Leave(p) \/ Crash(p) \/ Reset(p)
    BY <1>3 DEF HistNext
  <2> USE HistoryAssumption
      DEF HistTypeOK, AppendInv, Appending, FileInv, SharedLog, Writing,
          LockIsFree, LoadedEntries
  <2>2. DiscardOldEntries(<<>>) = <<>>
    BY DiscardNothing
  <2>3. CASE Open(p) \/ Look(p) \/ Leave(p)
    BY <2>3 DEF Open, Look, Leave
  <2>4. CASE \E entry \in Entry : BeginAppend(p, entry)
    BY <2>4 DEF BeginAppend
  <2>5. CASE Truncate(p)
    <3>1. SharedLog = LoadedEntries /\ SharedLog' = entries[p]
      BY <2>5 DEF Truncate, TornFile
    <3>2. CASE file.status = "absent"
      <4>1. SharedLog = <<>> /\ SharedLog' \in Seq(Entry)
        BY <2>2, <3>1, <3>2, CopiesAreLogs
      <4>2. QED
        BY <4>1 DEF Log!LossyNext, Log!Recover
    <3>3. CASE file.status # "absent"
      <4>1. PICK entry \in Entry :
              entries[p] = DiscardOldEntries(Append(LoadedEntries, entry))
        BY <2>5, <3>3 DEF Truncate, LoadedInv, OneMore
      <4>2. Log!Record(entry)
        BY <3>1, <4>1, NewestIsDiscard DEF Log!Record
      <4>3. QED
        BY <4>2 DEF Log!LossyNext
    <3>4. QED
      BY <3>2, <3>3
  <2>6. CASE FinishWrite(p)
    <3>1. /\ holder = p /\ step[p] = "truncated" /\ ~Writing'
          /\ DiscardOldEntries(entries[p]) = entries[p]
      BY <2>6 DEF FinishWrite
    <3>2. CASE file.status = "absent"
      BY <2>6, <3>1, <3>2 DEF FinishWrite
    <3>3. CASE file.status = "torn"
      <4>1. SharedLog = entries[p]
        BY <3>1, <3>3
      <4>2. SharedLog' = DiscardOldEntries(entries[p])
        BY <2>6, <3>1, <3>3 DEF FinishWrite, WholeFile
      <4>3. QED
        BY <3>1, <4>1, <4>2
    <3>4. QED
      BY <3>1, <3>2, <3>3 DEF File
  <2>7. CASE WriteFails(p) \/ Crash(p)
    <3>1. \/ SharedLog' = SharedLog
          \/ SharedLog' = DiscardOldEntries(<<>>)
      BY <2>7 DEF WriteFails, Crash
    <3>2. QED
      BY <2>2, <3>1 DEF Log!LossyNext, Log!Lose
  <2>8. CASE Reset(p)
    <3>1. SharedLog' = DiscardOldEntries(<<>>)
      BY <2>8 DEF Reset, NoFile
    <3>2. QED
      BY <2>2, <3>1 DEF Log!LossyNext, Log!Lose
  <2>9. QED
    BY <2>1, <2>3, <2>4, <2>5, <2>6, <2>7, <2>8
<1>4. QED
  BY <1>2, <1>3

LEMMA LogInitially == HistInit => Log!LogInit
<1> SUFFICES ASSUME HistInit PROVE SharedLog = <<>>
  BY DEF Log!LogInit
<1>1. DiscardOldEntries(<<>>) = <<>>
  BY DiscardNothing
<1>2. QED
  BY <1>1 DEF HistInit, SharedLog, Writing, LoadedEntries, NoFile

(* Whatever crashes, fails or is reset, the shared history loses all of    *)
(* its log or nothing, and appends never overwrite one another.            *)
THEOREM HistoryIsLossyLog == HistSpec => IsLossyLog
<1>1. HistInv /\ [HistNext]_histVars => [Log!LossyNext]_SharedLog
  BY StepOfLossyLog
<1>2. QED
  BY <1>1, LogInitially, HistInvariance, PTL DEF HistSpec, IsLossyLog,
     Log!LossySpec

-------------------------------------------------------------------------------
(* Without crashes, failed writes and resets nothing is lost: a process    *)
(* remembers entries only if there is a file, and then it refreshes them.  *)

LosslessInv ==
    /\ file.status = "absent" =>
         \A p \in Process : step[p] # "loaded" => entries[p] = <<>>
    /\ \A p \in Process : step[p] = "loaded" => OneMore(entries[p])
    /\ \A p \in Process : step[p] = "truncated" => file.status = "torn"

LEMMA LosslessInvInit == HistInit => LosslessInv
  BY DEF HistInit, LosslessInv, NoFile

LEMMA LosslessInvStep ==
    ASSUME ~MayCrash, ~MayReset, HistInv, LosslessInv, [HistNext]_histVars
    PROVE  LosslessInv'
<1> USE DEF HistInv
<1>1. CASE UNCHANGED histVars
  BY <1>1 DEF histVars, LosslessInv, OneMore, LoadedEntries
<1>2. CASE HistNext
  <2>1. PICK p \in Process :
          \/ Open(p) \/ Look(p)
          \/ \E entry \in Entry : BeginAppend(p, entry)
          \/ Truncate(p) \/ FinishWrite(p) \/ Leave(p)
    BY <1>2 DEF HistNext, WriteFails, Crash, Reset
  <2> USE HistoryAssumption
      DEF HistTypeOK, AppendInv, Appending, FileInv, LosslessInv, OneMore,
          LockIsFree, LoadedEntries
  <2>2. file.status = "absent" => LoadedEntries = <<>>
    BY DiscardNothing
  <2>3. CASE Open(p) \/ Look(p)
    BY <2>2, <2>3 DEF Open, Look, Refreshed
  <2>4. ASSUME NEW entry \in Entry, BeginAppend(p, entry)
        PROVE  LosslessInv'
    <3>1. Refreshed(p) = LoadedEntries
      BY <2>2, <2>4 DEF BeginAppend, Refreshed
    <3>2. \A q \in Process : q # p => step'[q] = step[q] /\ entries'[q] = entries[q]
      BY <2>4 DEF BeginAppend
    <3>3. entries'[p] = DiscardOldEntries(Append(LoadedEntries, entry))
      BY <2>4, <3>1 DEF BeginAppend
    <3>4. QED
      BY <2>4, <3>2, <3>3 DEF BeginAppend
  <2>5. CASE Truncate(p)
    BY <2>5 DEF Truncate, TornFile
  <2>6. CASE FinishWrite(p)
    BY <2>6 DEF FinishWrite, WholeFile
  <2>7. CASE Leave(p)
    BY <2>7 DEF Leave
  <2>8. QED
    BY <2>1, <2>3, <2>4, <2>5, <2>6, <2>7
<1>3. QED
  BY <1>1, <1>2

LEMMA StepOfLog ==
    ASSUME ~MayCrash, ~MayReset, HistInv, LosslessInv, [HistNext]_histVars
    PROVE  [\E entry \in Entry : Log!Record(entry)]_SharedLog
<1> USE DEF HistInv
<1>1. CASE UNCHANGED histVars
  BY <1>1 DEF histVars, SharedLog, Writing, LoadedEntries
<1>2. CASE HistNext
  <2>1. PICK p \in Process :
          \/ Open(p) \/ Look(p)
          \/ \E entry \in Entry : BeginAppend(p, entry)
          \/ Truncate(p) \/ FinishWrite(p) \/ Leave(p)
    BY <1>2 DEF HistNext, WriteFails, Crash, Reset
  <2> USE HistoryAssumption
      DEF HistTypeOK, AppendInv, Appending, FileInv, SharedLog, Writing,
          LockIsFree, LoadedEntries
  <2>2. CASE Open(p) \/ Look(p) \/ Leave(p)
    BY <2>2 DEF Open, Look, Leave
  <2>3. CASE \E entry \in Entry : BeginAppend(p, entry)
    BY <2>3 DEF BeginAppend
  <2>4. CASE Truncate(p)
    <3>1. SharedLog = LoadedEntries /\ SharedLog' = entries[p]
      BY <2>4 DEF Truncate, TornFile
    <3>2. PICK entry \in Entry :
            entries[p] = DiscardOldEntries(Append(LoadedEntries, entry))
      BY <2>4 DEF Truncate, LosslessInv, OneMore
    <3>3. Log!Record(entry)
      BY <3>1, <3>2, NewestIsDiscard DEF Log!Record
    <3>4. QED
      BY <3>3
  <2>5. CASE FinishWrite(p)
    <3>1. /\ holder = p /\ file.status = "torn" /\ step[p] = "truncated"
          /\ DiscardOldEntries(entries[p]) = entries[p]
      BY <2>5 DEF FinishWrite, LosslessInv
    <3>2. SharedLog = entries[p]
      BY <3>1
    <3>3. SharedLog' = DiscardOldEntries(entries[p])
      BY <2>5, <3>1 DEF FinishWrite, WholeFile
    <3>4. QED
      BY <3>1, <3>2, <3>3
  <2>6. QED
    BY <2>1, <2>2, <2>3, <2>4, <2>5
<1>3. QED
  BY <1>1, <1>2

(* Any number of processes that append to one history, and neither crash   *)
(* nor reset it, share a log: every append adds its entry to all the       *)
(* others', although each writes the whole file from a copy of its own.    *)
THEOREM HistoryIsLog ==
    ASSUME ~MayCrash, ~MayReset
    PROVE  HistSpec => IsLog
<1>1. HistInv /\ LosslessInv /\ [HistNext]_histVars => LosslessInv'
  BY LosslessInvStep
<1>2. HistInv /\ LosslessInv /\ [HistNext]_histVars
        => [\E entry \in Entry : Log!Record(entry)]_SharedLog
  BY StepOfLog
<1>3. QED
  BY <1>1, <1>2, LosslessInvInit, LogInitially, HistInvariance, PTL
     DEF HistSpec, IsLog, Log!LogSpec


-------------------------------------------------------------------------------
(* What the predicate looks for in a history.  It is stated with the       *)
(* position of an entry, as LastEntry's CHOOSE is hard to reason about.    *)

IsLast(s, kinds, i) == i \in Indices(s, kinds) /\ \A j \in Indices(s, kinds) : j <= i

Fails(s) == {i \in Indices(s, {"failure"}) : \A j \in Indices(s, {"success"}) : j < i}

\* The history s may have forgotten what is old, but what it tells of the job
\* is true: its last completion was last, it failed n times since its last
\* success (counted up to MaxFailures + 1), and that was at the time success.
Tells(s, last, n, success) ==
    /\ Indices(s, Outcome) # {} =>
        \E i \in Indices(s, Outcome) : IsLast(s, Outcome, i) /\ s[i] = last
    /\ Cardinality(Fails(s)) <= n \/ n = MaxFailures + 1
    /\ Indices(s, {"success"}) # {} =>
        /\ Cardinality(Fails(s)) >= n
        /\ \E i \in Indices(s, {"success"}) : IsLast(s, {"success"}, i) /\ s[i].at = success

Alternates(s) ==
    \A i \in DOMAIN s : i > 1 /\ s[i].what # "started" => s[i - 1].what = "started"

EndsInStart(s) == Len(s) > 0 => s[Len(s)].what = "started"

LEMMA LastEntryIs ==
    ASSUME NEW s, DOMAIN s \subseteq Nat, NEW kinds, NEW i, IsLast(s, kinds, i)
    PROVE  LastEntry(s, kinds) = s[i]
<1>1. \A j \in Indices(s, kinds) :
        (\A k \in Indices(s, kinds) : k <= j) => j = i
  BY DEF IsLast, Indices
<1> QED
  BY <1>1 DEF LastEntry, IsLast

LEMMA FailsAreFinite ==
    ASSUME NEW s \in Seq(LastRunEntry)
    PROVE  /\ Fails(s) \subseteq 1..Len(s) /\ Len(s) \in Nat
           /\ IsFiniteSet(Fails(s)) /\ Cardinality(Fails(s)) \in Nat
<1>1. Fails(s) \subseteq 1..Len(s) /\ Len(s) \in Nat
  BY LenProperties DEF Fails, Indices
<1>2. IsFiniteSet(1..Len(s))
  BY <1>1, FS_Interval
<1> QED
  BY <1>1, <1>2, FS_Subset, FS_CardinalityType

\* What the predicate computes is what the history tells.
LEMMA CountsFails == \A s : NFailuresSinceLastSuccess(s) = Cardinality(Fails(s))
BY DEF NFailuresSinceLastSuccess, Fails

-------------------------------------------------------------------------------
(* Discarding entries from the front of a history keeps what it tells.     *)

Dropped(s, t, d) ==
    /\ d \in Nat /\ Len(s) = Len(t) + d
    /\ \A i \in 1..Len(t) : t[i] = s[i + d]

LEMMA DiscardDrops ==
    ASSUME NEW s \in Seq(Entry)
    PROVE  \E d : Dropped(s, DiscardOldEntries(s), d)
<1>1. MaxEntries \in Nat /\ Len(s) \in Nat
  BY HistoryAssumption, LenProperties
<1>2. CASE Len(s) <= MaxEntries
  <2>1. DiscardOldEntries(s) = s
    BY <1>1, <1>2 DEF DiscardOldEntries
  <2>2. Dropped(s, s, 0)
    BY <1>1 DEF Dropped
  <2> QED
    BY <2>1, <2>2
<1>3. CASE Len(s) > MaxEntries
  <2> PICK d : d = Len(s) - MaxEntries
    OBVIOUS
  <2>1. d \in Nat /\ d + 1 \in Int /\ Len(s) \in Int
    BY <1>1, <1>3
  <2>2. \A i \in (d + 1)..Len(s) : s[i] \in Entry
    BY <2>1, <1>1, ElementOfSeq
  <2> PICK t : t = SubSeq(s, d + 1, Len(s))
    OBVIOUS
  <2>3. /\ Len(t) = IF d + 1 <= Len(s) THEN Len(s) - (d + 1) + 1 ELSE 0
        /\ \A i \in 1..(Len(s) - (d + 1) + 1) : t[i] = s[d + 1 + i - 1]
    BY <2>1, <2>2, SubSeqProperties
  <2>4. Dropped(s, t, d)
    BY <1>1, <1>3, <2>1, <2>3 DEF Dropped
  <2>5. DiscardOldEntries(s) = t
    BY <1>1, <1>3 DEF DiscardOldEntries
  <2> QED
    BY <2>4, <2>5
<1> QED
  BY <1>1, <1>2, <1>3

LEMMA DropIndices ==
    ASSUME NEW s \in Seq(LastRunEntry), NEW t \in Seq(LastRunEntry), NEW d,
           Dropped(s, t, d), NEW kinds
    PROVE  /\ \A i \in Indices(t, kinds) : i \in 1..Len(t) /\ i + d \in Indices(s, kinds)
           /\ \A i \in Indices(s, kinds) :
               i \in 1..Len(s) /\ (i > d => i - d \in Indices(t, kinds))
<1>1. /\ Len(s) \in Nat /\ DOMAIN s = 1..Len(s)
      /\ Len(t) \in Nat /\ DOMAIN t = 1..Len(t) /\ d \in Nat
  BY LenProperties DEF Dropped
<1>2. ASSUME NEW i \in Indices(t, kinds)
      PROVE  i \in 1..Len(t) /\ i + d \in Indices(s, kinds)
  BY <1>1 DEF Dropped, Indices
<1>3. ASSUME NEW i \in Indices(s, kinds), i > d
      PROVE  i - d \in Indices(t, kinds)
  <2>1. i \in 1..Len(s) /\ s[i].what \in kinds
    BY <1>1 DEF Indices
  <2>2. i - d \in 1..Len(t) /\ i - d + d = i
    BY <1>1, <1>3, <2>1 DEF Dropped
  <2>3. t[i - d] = s[i]
    BY <2>2 DEF Dropped
  <2> QED
    BY <1>1, <2>1, <2>2, <2>3 DEF Indices
<1> QED
  BY <1>1, <1>2, <1>3 DEF Indices

LEMMA DropIsLast ==
    ASSUME NEW s \in Seq(LastRunEntry), NEW t \in Seq(LastRunEntry), NEW d,
           Dropped(s, t, d), NEW kinds, Indices(t, kinds) # {},
           NEW i, IsLast(s, kinds, i)
    PROVE  i - d \in Nat /\ IsLast(t, kinds, i - d) /\ t[i - d] = s[i]
<1>1. /\ Len(s) \in Nat /\ DOMAIN s = 1..Len(s)
      /\ Len(t) \in Nat /\ DOMAIN t = 1..Len(t)
  BY LenProperties
<1>2. PICK j : j \in Indices(t, kinds)
  OBVIOUS
<1>3. j \in 1..Len(t) /\ j + d \in Indices(s, kinds) /\ d \in Nat
  <2>1. \A k \in Indices(t, kinds) : k \in 1..Len(t) /\ k + d \in Indices(s, kinds)
    BY DropIndices
  <2> QED
    BY <1>2, <2>1 DEF Dropped
<1>4. i \in 1..Len(s) /\ j + d <= i
  BY <1>1, <1>3 DEF IsLast, Indices
<1>5. i - d \in 1..Len(t) /\ i - d + d = i /\ t[i - d] = s[i]
  BY <1>1, <1>3, <1>4 DEF Dropped
<1>6. i - d \in Indices(t, kinds)
  BY <1>1, <1>3, <1>4, <1>5, DropIndices DEF IsLast
<1>7. ASSUME NEW k \in Indices(t, kinds)
      PROVE  k <= i - d
  <2>1. k \in 1..Len(t) /\ k + d \in Indices(s, kinds)
    BY DropIndices
  <2> QED
    BY <1>3, <1>4, <2>1 DEF IsLast
<1> QED
  BY <1>5, <1>6, <1>7 DEF IsLast

\* The failures are those that are left; all of them, if a success is left.
LEMMA DropFails ==
    ASSUME NEW s \in Seq(LastRunEntry), NEW t \in Seq(LastRunEntry), NEW d,
           Dropped(s, t, d)
    PROVE  /\ Cardinality(Fails(t)) <= Cardinality(Fails(s))
           /\ Indices(t, {"success"}) # {} => Cardinality(Fails(t)) = Cardinality(Fails(s))
<1>1. /\ Len(s) \in Nat /\ DOMAIN s = 1..Len(s)
      /\ Len(t) \in Nat /\ DOMAIN t = 1..Len(t) /\ d \in Nat
  BY LenProperties DEF Dropped
<1> DEFINE f == [i \in Fails(t) |-> i + d]
<1>2. ASSUME NEW i \in Fails(t)
      PROVE  i + d \in Fails(s)
  <2>1. i \in 1..Len(t) /\ i \in Indices(t, {"failure"}) /\ i + d \in Indices(s, {"failure"})
    BY DropIndices DEF Fails
  <2>2. ASSUME NEW j \in Indices(s, {"success"})
        PROVE  j < i + d
    <3>1. j \in 1..Len(s)
      BY DropIndices
    <3>2. CASE j <= d
      BY <1>1, <2>1, <3>1, <3>2
    <3>3. CASE j > d
      <4>1. j - d \in Indices(t, {"success"})
        BY <3>3, DropIndices
      <4>2. j - d < i
        BY <4>1 DEF Fails
      <4> QED
        BY <1>1, <2>1, <3>1, <4>2
    <3> QED
      BY <1>1, <3>1, <3>2, <3>3
  <2> QED
    BY <2>1, <2>2 DEF Fails
<1>3. f \in Injection(Fails(t), Fails(s))
  BY <1>1, <1>2, FailsAreFinite DEF Injection, IsInjective
<1>4. IsFiniteSet(Fails(s))
  BY FailsAreFinite
<1>5. ASSUME NEW j \in Indices(t, {"success"}), NEW i \in Fails(s)
      PROVE  \E k \in Fails(t) : f[k] = i
  <2>1. j \in 1..Len(t) /\ j + d \in Indices(s, {"success"}) /\ i \in 1..Len(s)
    BY DropIndices, FailsAreFinite
  <2>2. j + d < i
    BY <2>1 DEF Fails
  <2>3. i > d /\ i - d + d = i
    BY <1>1, <2>1, <2>2
  <2>4. i - d \in Indices(t, {"failure"})
    BY <2>3, DropIndices DEF Fails
  <2>5. ASSUME NEW k \in Indices(t, {"success"})
        PROVE  k < i - d
    <3>1. k \in 1..Len(t) /\ k + d \in Indices(s, {"success"})
      BY DropIndices
    <3>2. k + d < i
      BY <3>1 DEF Fails
    <3> QED
      BY <1>1, <2>1, <3>1, <3>2
  <2> QED
    BY <2>3, <2>4, <2>5 DEF Fails
<1>6. Indices(t, {"success"}) # {} => f \in Surjection(Fails(t), Fails(s))
  BY <1>3, <1>5 DEF Surjection, Injection
<1> HIDE DEF f
<1>7. /\ Cardinality(Fails(t)) <= Cardinality(Fails(s))
      /\ Cardinality(Fails(t)) = Cardinality(Fails(s)) <=> f \in Surjection(Fails(t), Fails(s))
  BY <1>3, <1>4, FS_Injection
<1> QED
  BY <1>6, <1>7

LEMMA DropTells ==
    ASSUME NEW s \in Seq(LastRunEntry), NEW t \in Seq(LastRunEntry), NEW d,
           Dropped(s, t, d),
           NEW last, NEW n \in Nat, NEW success, Tells(s, last, n, success)
    PROVE  Tells(t, last, n, success)
<1>1. \A kinds : Indices(t, kinds) # {} => Indices(s, kinds) # {}
  <2> SUFFICES ASSUME NEW kinds, NEW j \in Indices(t, kinds)
               PROVE  \E i : i \in Indices(s, kinds)
    OBVIOUS
  <2> QED
    BY DropIndices
<1>2. /\ Cardinality(Fails(s)) \in Nat /\ Cardinality(Fails(t)) \in Nat
      /\ Cardinality(Fails(t)) <= Cardinality(Fails(s))
      /\ Indices(t, {"success"}) # {} => Cardinality(Fails(t)) = Cardinality(Fails(s))
  BY FailsAreFinite, DropFails
<1>3. Indices(t, Outcome) # {} =>
        \E i \in Indices(t, Outcome) : IsLast(t, Outcome, i) /\ t[i] = last
  <2> SUFFICES ASSUME Indices(t, Outcome) # {}
               PROVE  \E i \in Indices(t, Outcome) : IsLast(t, Outcome, i) /\ t[i] = last
    OBVIOUS
  <2>1. PICK i \in Indices(s, Outcome) : IsLast(s, Outcome, i) /\ s[i] = last
    BY <1>1 DEF Tells
  <2>2. IsLast(t, Outcome, i - d) /\ t[i - d] = last
    BY <2>1, DropIsLast
  <2> QED
    BY <2>2 DEF IsLast
<1>4. Indices(t, {"success"}) # {} =>
        \E i \in Indices(t, {"success"}) : IsLast(t, {"success"}, i) /\ t[i].at = success
  <2> SUFFICES ASSUME Indices(t, {"success"}) # {}
               PROVE  \E i \in Indices(t, {"success"}) :
                        IsLast(t, {"success"}, i) /\ t[i].at = success
    OBVIOUS
  <2>1. PICK i \in Indices(s, {"success"}) : IsLast(s, {"success"}, i) /\ s[i].at = success
    BY <1>1 DEF Tells
  <2>2. IsLast(t, {"success"}, i - d) /\ t[i - d] = s[i]
    BY <2>1, DropIsLast
  <2> QED
    BY <2>1, <2>2 DEF IsLast
<1>5. Cardinality(Fails(t)) <= n \/ n = MaxFailures + 1
  BY <1>2 DEF Tells
<1>6. Indices(t, {"success"}) # {} => Cardinality(Fails(t)) >= n
  BY <1>1, <1>2 DEF Tells
<1> QED
  BY <1>3, <1>4, <1>5, <1>6 DEF Tells

LEMMA DropAlternates ==
    ASSUME NEW s \in Seq(LastRunEntry), NEW t \in Seq(LastRunEntry), NEW d,
           Dropped(s, t, d)
    PROVE  /\ Alternates(s) => Alternates(t)
           /\ EndsInStart(s) => EndsInStart(t)
<1>1. /\ Len(s) \in Nat /\ DOMAIN s = 1..Len(s)
      /\ Len(t) \in Nat /\ DOMAIN t = 1..Len(t) /\ d \in Nat
  BY LenProperties DEF Dropped
<1>2. ASSUME Alternates(s), NEW i \in 1..Len(t), i > 1, t[i].what # "started"
      PROVE  t[i - 1].what = "started"
  <2>1. i + d \in 1..Len(s) /\ t[i] = s[i + d] /\ i + d > 1
    BY <1>1, <1>2 DEF Dropped
  <2>2. i - 1 \in 1..Len(t) /\ i - 1 + d = i + d - 1
    BY <1>1, <1>2
  <2>3. t[i - 1] = s[i + d - 1]
    BY <2>2 DEF Dropped
  <2>4. s[i + d].what # "started"
    BY <1>2, <2>1
  <2>5. PICK k \in 1..Len(s) : k = i + d
    BY <2>1
  <2>6. s[k - 1].what = "started"
    BY <1>1, <1>2, <2>1, <2>4, <2>5 DEF Alternates
  <2> QED
    BY <1>1, <2>1, <2>3, <2>5, <2>6
<1>3. EndsInStart(s) => EndsInStart(t)
  BY <1>1 DEF Dropped, EndsInStart
<1> QED
  BY <1>1, <1>2, <1>3 DEF Alternates

-------------------------------------------------------------------------------
(* Adding an entry to a history keeps what it tells.                       *)

LEMMA AppendIndices ==
    ASSUME NEW s \in Seq(LastRunEntry), NEW e \in LastRunEntry, NEW kinds
    PROVE  /\ e.what \in kinds =>
               Indices(Append(s, e), kinds) = Indices(s, kinds) \cup {Len(s) + 1}
           /\ e.what \notin kinds => Indices(Append(s, e), kinds) = Indices(s, kinds)
           /\ Indices(s, kinds) \subseteq 1..Len(s)
           /\ \A i \in 1..Len(s) : Append(s, e)[i] = s[i]
           /\ Append(s, e)[Len(s) + 1] = e
           /\ Len(s) \in Nat
<1> PICK t : t = Append(s, e)
  OBVIOUS
<1>1. /\ t \in Seq(LastRunEntry) /\ Len(t) = Len(s) + 1
      /\ \A i \in 1..Len(s) : t[i] = s[i]
      /\ t[Len(s) + 1] = e
  BY AppendProperties
<1>2. /\ Len(s) \in Nat /\ DOMAIN s = 1..Len(s) /\ DOMAIN t = 1..(Len(s) + 1)
  BY <1>1, LenProperties
<1>3. \A i : i \in Indices(t, kinds) <=>
        i \in Indices(s, kinds) \/ (e.what \in kinds /\ i = Len(s) + 1)
  BY <1>1, <1>2 DEF Indices
<1>4. Indices(s, kinds) \subseteq 1..Len(s)
  BY <1>2 DEF Indices
<1>5. /\ e.what \in kinds => Indices(t, kinds) = Indices(s, kinds) \cup {Len(s) + 1}
      /\ e.what \notin kinds => Indices(t, kinds) = Indices(s, kinds)
  BY <1>3
<1> QED
  BY <1>1, <1>2, <1>4, <1>5

\* The new entry is the last of its kinds, and leaves the last one of others.
LEMMA AppendIsLast ==
    ASSUME NEW s \in Seq(LastRunEntry), NEW e \in LastRunEntry, NEW kinds
    PROVE  /\ e.what \in kinds => IsLast(Append(s, e), kinds, Len(s) + 1)
           /\ e.what \notin kinds =>
               \A i : IsLast(s, kinds, i) =>
                   IsLast(Append(s, e), kinds, i) /\ Append(s, e)[i] = s[i]
<1>1. /\ e.what \in kinds =>
          Indices(Append(s, e), kinds) = Indices(s, kinds) \cup {Len(s) + 1}
      /\ e.what \notin kinds => Indices(Append(s, e), kinds) = Indices(s, kinds)
      /\ Indices(s, kinds) \subseteq 1..Len(s) /\ Len(s) \in Nat
      /\ \A i \in 1..Len(s) : Append(s, e)[i] = s[i]
  BY AppendIndices
<1> QED
  BY <1>1 DEF IsLast

LEMMA AppendFails ==
    ASSUME NEW s \in Seq(LastRunEntry), NEW e \in LastRunEntry
    PROVE  Cardinality(Fails(Append(s, e))) =
             CASE e.what = "success" -> 0
               [] e.what = "failure" -> Cardinality(Fails(s)) + 1
               [] e.what \notin {"success", "failure"} -> Cardinality(Fails(s))
<1> PICK t : t = Append(s, e)
  OBVIOUS
<1>1. ASSUME NEW kind
      PROVE  /\ e.what = kind => Indices(t, {kind}) = Indices(s, {kind}) \cup {Len(s) + 1}
             /\ e.what # kind => Indices(t, {kind}) = Indices(s, {kind})
             /\ Indices(s, {kind}) \subseteq 1..Len(s) /\ Len(s) \in Nat
  <2>1. e.what \in {kind} <=> e.what = kind
    OBVIOUS
  <2> QED
    BY <2>1, AppendIndices
<1>2. /\ Fails(s) \subseteq 1..Len(s) /\ IsFiniteSet(Fails(s))
  BY FailsAreFinite
<1>3. CASE e.what = "success"
  <2>1. /\ Len(s) + 1 \in Indices(t, {"success"}) /\ Len(s) \in Nat
        /\ Indices(t, {"failure"}) \subseteq 1..Len(s)
    BY <1>1, <1>3
  <2>2. \A i \in Indices(t, {"failure"}) : ~(Len(s) + 1 < i)
    BY <2>1
  <2>3. Fails(t) = {}
    BY <2>1, <2>2 DEF Fails
  <2> QED
    BY <1>3, <2>3, FS_EmptySet
<1>4. CASE e.what = "failure"
  <2>0. /\ Indices(t, {"failure"}) = Indices(s, {"failure"}) \cup {Len(s) + 1}
        /\ Indices(t, {"success"}) = Indices(s, {"success"})
        /\ Indices(s, {"success"}) \subseteq 1..Len(s) /\ Len(s) \in Nat
    BY <1>1, <1>4
  <2>1. Fails(t) = Fails(s) \cup {Len(s) + 1}
    <3>1. \A j \in Indices(s, {"success"}) : j < Len(s) + 1
      BY <2>0
    <3> QED
      BY <2>0, <3>1 DEF Fails
  <2>2. Len(s) + 1 \notin Fails(s)
    BY <1>1, <1>2
  <2>3. Cardinality(Fails(s) \cup {Len(s) + 1}) = Cardinality(Fails(s)) + 1
    BY <1>2, <2>2, FS_AddElement
  <2> QED
    BY <1>4, <2>1, <2>3
<1>5. CASE e.what \notin {"success", "failure"}
  <2>1. Fails(t) = Fails(s)
    BY <1>1, <1>5 DEF Fails
  <2> QED
    BY <1>5, <2>1
<1> QED
  BY <1>3, <1>4, <1>5

LEMMA EntryKinds ==
    /\ StartedEntry \in LastRunEntry /\ StartedEntry.what = "started"
    /\ \A e \in LastRunEntry :
        \/ e = StartedEntry
        \/ e.what \in Outcome /\ e.at \in 0..MaxTime /\ e # StartedEntry
    /\ \A o \in Outcome, t \in 0..MaxTime :
        /\ FinishedEntry(o, t) \in LastRunEntry
        /\ FinishedEntry(o, t).what = o /\ FinishedEntry(o, t).at = t
<1> DEFINE E(o, t) == FinishedEntry(o, t)
<1>1. StartedEntry \in LastRunEntry /\ StartedEntry.what = "started"
  BY DEF LastRunEntry, StartedEntry
<1>2. ASSUME NEW o \in Outcome, NEW t \in 0..MaxTime
      PROVE  /\ E(o, t) \in LastRunEntry
             /\ E(o, t).what = o /\ E(o, t).at = t /\ E(o, t) # StartedEntry
  <2>1. E(o, t) \in LastRunEntry
    BY DEF LastRunEntry
  <2>2. E(o, t).what = o /\ E(o, t).at = t
    BY DEF FinishedEntry
  <2>3. E(o, t).what # "started"
    BY <2>2 DEF Outcome
  <2> HIDE DEF E
  <2> QED
    BY <1>1, <2>1, <2>2, <2>3
<1>3. ASSUME NEW e \in LastRunEntry, e # StartedEntry
      PROVE  e.what \in Outcome /\ e.at \in 0..MaxTime
  <2>1. PICK o \in Outcome, t \in 0..MaxTime : e = E(o, t)
    BY <1>3 DEF LastRunEntry
  <2> QED
    BY <1>2, <2>1
<1> QED
  BY <1>1, <1>2, <1>3

LEMMA AppendStarted ==
    ASSUME NEW s \in Seq(LastRunEntry),
           NEW last, NEW n \in Nat, NEW success, Tells(s, last, n, success)
    PROVE  Tells(Append(s, StartedEntry), last, n, success)
<1> PICK t : t = Append(s, StartedEntry)
  OBVIOUS
<1>1. StartedEntry \in LastRunEntry /\ StartedEntry.what \notin Outcome
  BY EntryKinds DEF Outcome
<1>2. StartedEntry.what \notin {"success"}
  BY <1>1 DEF Outcome
<1>3. /\ Indices(t, Outcome) = Indices(s, Outcome)
      /\ Indices(t, {"success"}) = Indices(s, {"success"})
  BY <1>1, <1>2, AppendIndices
<1>4. /\ \A i : IsLast(s, Outcome, i) => IsLast(t, Outcome, i) /\ t[i] = s[i]
      /\ \A i : IsLast(s, {"success"}, i) => IsLast(t, {"success"}, i) /\ t[i] = s[i]
  BY <1>1, <1>2, AppendIsLast
<1>5. Cardinality(Fails(t)) = Cardinality(Fails(s))
  BY <1>1, AppendFails DEF Outcome
<1>6. /\ Indices(s, Outcome) # {} =>
          \E i \in Indices(s, Outcome) : IsLast(s, Outcome, i) /\ s[i] = last
      /\ Indices(s, {"success"}) # {} =>
          \E i \in Indices(s, {"success"}) : IsLast(s, {"success"}, i) /\ s[i].at = success
  BY DEF Tells
<1>7. /\ Indices(t, Outcome) # {} =>
          \E i \in Indices(t, Outcome) : IsLast(t, Outcome, i) /\ t[i] = last
      /\ Indices(t, {"success"}) # {} =>
          \E i \in Indices(t, {"success"}) : IsLast(t, {"success"}, i) /\ t[i].at = success
  BY <1>3, <1>4, <1>6
<1> QED
  BY <1>3, <1>5, <1>7 DEF Tells

\* What EndJob makes of the failures since the last success.
FailedAfter(outcome, n) ==
    IF outcome = "success" THEN 0
    ELSE IF outcome = "failure" /\ n <= MaxFailures THEN n + 1
    ELSE n

LEMMA AppendFinished ==
    ASSUME NEW s \in Seq(LastRunEntry), NEW outcome \in Outcome, NEW t \in 0..MaxTime,
           NEW last, NEW n \in 0..MaxFailures + 1, NEW success, Tells(s, last, n, success)
    PROVE  Tells(Append(s, FinishedEntry(outcome, t)), FinishedEntry(outcome, t),
                 FailedAfter(outcome, n), IF outcome = "success" THEN t ELSE success)
<1> PICK e : e = FinishedEntry(outcome, t)
  OBVIOUS
<1> PICK r : r = Append(s, e)
  OBVIOUS
<1>1. e \in LastRunEntry /\ e.what = outcome /\ e.at = t
  BY EntryKinds
<1>2. /\ IsLast(r, Outcome, Len(s) + 1) /\ r[Len(s) + 1] = e
  BY <1>1, AppendIsLast, AppendIndices
<1>3. Cardinality(Fails(s)) \in Nat /\ MaxFailures \in Nat /\ n \in Nat
  BY FailsAreFinite, LastRunAssumption
<1>4. CASE outcome = "success"
  <2>1. IsLast(r, {"success"}, Len(s) + 1)
    BY <1>1, <1>4, AppendIsLast
  <2>2. Cardinality(Fails(r)) = 0
    BY <1>1, <1>4, AppendFails
  <2> QED
    BY <1>1, <1>2, <1>4, <2>1, <2>2 DEF Tells, IsLast, FailedAfter
<1>5. CASE outcome # "success"
  <2>1. /\ Indices(r, {"success"}) = Indices(s, {"success"})
        /\ \A i : IsLast(s, {"success"}, i) => IsLast(r, {"success"}, i) /\ r[i] = s[i]
    <3>1. e.what \notin {"success"}
      BY <1>1, <1>5
    <3>2. Indices(r, {"success"}) = Indices(s, {"success"})
      BY <1>1, <3>1, AppendIndices
    <3>3. \A i : IsLast(s, {"success"}, i) => IsLast(r, {"success"}, i) /\ r[i] = s[i]
      BY <1>1, <3>1, AppendIsLast
    <3> QED
      BY <3>2, <3>3
  <2>2. Indices(r, {"success"}) # {} =>
          \E i \in Indices(r, {"success"}) : IsLast(r, {"success"}, i) /\ r[i].at = success
    <3>1. Indices(s, {"success"}) # {} =>
            \E i \in Indices(s, {"success"}) : IsLast(s, {"success"}, i) /\ s[i].at = success
      BY DEF Tells
    <3> QED
      BY <2>1, <3>1
  <2>3. /\ Cardinality(Fails(s)) <= n \/ n = MaxFailures + 1
        /\ Indices(r, {"success"}) # {} => Cardinality(Fails(s)) >= n
    BY <2>1 DEF Tells
  <2>4. CASE outcome = "failure"
    <3>1. Cardinality(Fails(r)) = Cardinality(Fails(s)) + 1
      BY <1>1, <2>4, AppendFails
    <3>2. FailedAfter(outcome, n) = IF n <= MaxFailures THEN n + 1 ELSE n
      BY <2>4 DEF FailedAfter
    <3>3. /\ Cardinality(Fails(r)) <= FailedAfter(outcome, n)
             \/ FailedAfter(outcome, n) = MaxFailures + 1
          /\ Indices(r, {"success"}) # {} => Cardinality(Fails(r)) >= FailedAfter(outcome, n)
      BY <1>3, <2>3, <3>1, <3>2
    <3> QED
      BY <1>2, <1>5, <2>2, <3>3 DEF Tells, IsLast
  <2>5. CASE outcome = "neutral"
    <3>1. Cardinality(Fails(r)) = Cardinality(Fails(s)) /\ FailedAfter(outcome, n) = n
      BY <1>1, <2>5, AppendFails DEF FailedAfter
    <3> QED
      BY <1>2, <1>5, <2>2, <2>3, <3>1 DEF Tells, IsLast
  <2> QED
    BY <1>5, <2>4, <2>5 DEF Outcome
<1> QED
  BY <1>4, <1>5

LEMMA AppendAlternates ==
    ASSUME NEW s \in Seq(LastRunEntry), NEW e \in LastRunEntry, Alternates(s),
           e = StartedEntry \/ EndsInStart(s)
    PROVE  /\ Alternates(Append(s, e))
           /\ e = StartedEntry => EndsInStart(Append(s, e))
<1> PICK t : t = Append(s, e)
  OBVIOUS
<1>1. /\ t \in Seq(LastRunEntry) /\ Len(t) = Len(s) + 1
      /\ \A i \in 1..Len(s) : t[i] = s[i]
      /\ t[Len(s) + 1] = e
  BY AppendProperties
<1>2. /\ Len(s) \in Nat /\ DOMAIN s = 1..Len(s) /\ DOMAIN t = 1..(Len(s) + 1)
  BY <1>1, LenProperties
<1>3. ASSUME NEW i \in 1..(Len(s) + 1), i > 1, t[i].what # "started"
      PROVE  t[i - 1].what = "started"
  <2>1. CASE i \in 1..Len(s)
    <3>1. i - 1 \in 1..Len(s) /\ t[i] = s[i]
      BY <1>1, <1>2, <1>3, <2>1
    <3>2. s[i - 1].what = "started"
      BY <1>2, <1>3, <2>1, <3>1 DEF Alternates
    <3> QED
      BY <1>1, <3>1, <3>2
  <2>2. CASE i = Len(s) + 1
    <3>1. e # StartedEntry /\ i - 1 = Len(s) /\ i - 1 \in 1..Len(s)
      BY <1>1, <1>2, <1>3, <2>2, EntryKinds
    <3>2. s[i - 1].what = "started"
      BY <1>2, <3>1 DEF EndsInStart
    <3> QED
      BY <1>1, <3>1, <3>2
  <2>3. i \in 1..Len(s) \/ i = Len(s) + 1
    BY <1>2
  <2> QED
    BY <2>1, <2>2, <2>3
<1>4. Alternates(t)
  BY <1>2, <1>3 DEF Alternates
<1>5. e = StartedEntry => EndsInStart(t)
  BY <1>1, EntryKinds DEF EndsInStart
<1> QED
  BY <1>4, <1>5

-------------------------------------------------------------------------------
(* Typing, and the use the wrapper makes of the history.                   *)

LEMMA WrapperStepsHistory ==
    ASSUME TypeOK, [Next]_vars
    PROVE  [HistNext]_histVars
<1>1. CASE UNCHANGED vars
  BY <1>1 DEF vars
<1>2. ASSUME NEW p \in Process, BeginRecord(p)
      PROVE  HistNext
  <2>1. item[p] \in Entry
    BY LastRunAssumption DEF TypeOK
  <2> QED
    BY <1>2, <2>1 DEF BeginRecord, HistNext
<1>3. ASSUME NEW p \in Process,
             \/ Start(p) \/ Stop(p) \/ Die(p) \/ ResetHistory(p)
             \/ AdmitDue(p) \/ Refuse(p)
             \/ TruncateRecord(p) \/ EndRecord(p) \/ RecordFails(p)
      PROVE  HistNext
  BY <1>3 DEF Start, Stop, Die, ResetHistory, AdmitDue, Refuse, TruncateRecord,
              EndRecord, RecordFails, HistNext
<1>4. ASSUME NEW p \in Process,
             \/ Ask(p) \/ AdmitForced(p) \/ LookFails(p)
             \/ \E outcome \in JobOutcomes : EndJob(p, outcome)
      PROVE  UNCHANGED histVars
  BY <1>4 DEF Ask, AdmitForced, LookFails, EndJob
<1>5. CASE Tick
  BY <1>5 DEF Tick
<1> QED
  BY <1>1, <1>2, <1>3, <1>4, <1>5 DEF Next, Step

LEMMA WrapTypingInit == Init => TypeOK
<1> SUFFICES ASSUME Init
             PROVE  TypeOK
  OBVIOUS
<1>1. HistTypeOK
  BY HistInvInit DEF HistInv, Init
<1>2. StartedEntry \in LastRunEntry
  BY EntryKinds
<1>3. 0 \in 0..MaxTime /\ 0 \in 0..MaxFailures + 1 /\ -1 \in -1..MaxTime
  BY LastRunAssumption
<1> QED
  BY <1>1, <1>2, <1>3 DEF Init, TypeOK

LEMMA ReturnTyping ==
    ASSUME TypeOK, NEW p \in Process, Return(p)
    PROVE  /\ pc' \in [Process -> {"idle", "asking", "starting", "running", "finishing"}]
           /\ asked' \in [Process -> 0..MaxTime]
           /\ forced' \in [Process -> BOOLEAN]
           /\ item' \in [Process -> LastRunEntry]
<1>1. StartedEntry \in LastRunEntry /\ 0 \in 0..MaxTime
  BY EntryKinds, LastRunAssumption
<1> QED
  BY <1>1 DEF Return, TypeOK

LEMMA WrapTypingStep ==
    ASSUME TypeOK, [Next]_vars
    PROVE  TypeOK'
<1>1. HistTypeOK'
  BY WrapperStepsHistory, HistTypingStep DEF TypeOK
<1>2. on_max_failures' \in Policies
  BY DEF TypeOK, Next, vars
<1> DEFINE PcOK == pc' \in [Process -> {"idle", "asking", "starting", "running", "finishing"}]
           WrapOK == /\ asked' \in [Process -> 0..MaxTime]
                     /\ forced' \in [Process -> BOOLEAN]
                     /\ item' \in [Process -> LastRunEntry]
           TruthOK == /\ ended' \in LastRunEntry
                      /\ failed' \in 0..MaxFailures + 1
                      /\ succeeded' \in -1..MaxTime
           RestOK == PcOK /\ WrapOK /\ TruthOK /\ now' \in 0..MaxTime /\ lost' \in BOOLEAN
<1>3. StartedEntry \in LastRunEntry /\ 0 \in 0..MaxTime
  BY EntryKinds, LastRunAssumption
<1>4. CASE UNCHANGED vars
  <2>1. RestOK
    BY <1>4 DEF vars, wrapVars, truthVars, TypeOK
  <2> QED
    BY <1>1, <1>2, <2>1 DEF TypeOK
<1>5. CASE Tick
  <2>1. now' \in 0..MaxTime
    BY <1>5, LastRunAssumption DEF Tick, TypeOK
  <2>2. RestOK
    BY <1>5, <2>1 DEF Tick, wrapVars, truthVars, TypeOK
  <2> QED
    BY <1>1, <1>2, <2>2 DEF TypeOK
<1>6. ASSUME NEW p \in Process,
             Start(p) \/ Stop(p) \/ ResetHistory(p) \/ BeginRecord(p) \/ TruncateRecord(p)
      PROVE  TypeOK'
  <2>1. UNCHANGED <<now, wrapVars, truthVars>> /\ (lost' = lost \/ lost' = TRUE)
    BY <1>6 DEF Start, Stop, ResetHistory, BeginRecord, TruncateRecord
  <2>2. RestOK
    BY <2>1 DEF wrapVars, truthVars, TypeOK
  <2> QED
    BY <1>1, <1>2, <2>2 DEF TypeOK
<1>7. ASSUME NEW p \in Process,
             Refuse(p) \/ LookFails(p) \/ Die(p) \/ RecordFails(p)
      PROVE  TypeOK'
  <2>1. /\ Return(p) /\ UNCHANGED <<now, truthVars>>
        /\ lost' = lost \/ lost' = (lost \/ pc[p] = "finishing" \/ step[p] = "truncated")
    BY <1>7 DEF Refuse, LookFails, Die, RecordFails, Breaks
  <2>2. lost' \in BOOLEAN
    BY <2>1 DEF TypeOK
  <2>3. RestOK
    BY <2>1, <2>2, ReturnTyping DEF truthVars, TypeOK
  <2> QED
    BY <1>1, <1>2, <2>3 DEF TypeOK
<1>8. ASSUME NEW p \in Process, Ask(p)
      PROVE  TypeOK'
  <2>1. PICK force \in {FALSE, MayForce} : forced' = [forced EXCEPT ![p] = force]
    BY <1>8 DEF Ask
  <2>2. force \in BOOLEAN
    BY LastRunAssumption
  <2>3. WrapOK
    BY <1>8, <2>1, <2>2 DEF Ask, TypeOK
  <2>4. RestOK
    BY <1>8, <2>3 DEF Ask, Move, truthVars, TypeOK
  <2> QED
    BY <1>1, <1>2, <2>4 DEF TypeOK
<1>9. ASSUME NEW p \in Process, AdmitForced(p) \/ AdmitDue(p)
      PROVE  TypeOK'
  <2>1. Admit(p)
    BY <1>9 DEF AdmitForced, AdmitDue
  <2>2. RestOK
    BY <1>3, <2>1 DEF Admit, Move, truthVars, TypeOK
  <2> QED
    BY <1>1, <1>2, <2>2 DEF TypeOK
<1>10. ASSUME NEW p \in Process, EndRecord(p)
       PROVE  TypeOK'
  <2>1. UNCHANGED <<now, truthVars, lost>>
    BY <1>10 DEF EndRecord
  <2>2. PcOK /\ WrapOK
    <3>1. CASE Move(p, "starting", "running") /\ UNCHANGED <<asked, forced, item>>
      BY <3>1 DEF Move, TypeOK
    <3>2. CASE Return(p)
      BY <3>2, ReturnTyping
    <3> QED
      BY <1>10, <3>1, <3>2 DEF EndRecord
  <2>3. RestOK
    BY <2>1, <2>2 DEF truthVars, TypeOK
  <2> QED
    BY <1>1, <1>2, <2>3 DEF TypeOK
<1>11. ASSUME NEW p \in Process, NEW outcome \in JobOutcomes, EndJob(p, outcome)
       PROVE  TypeOK'
  <2>1. outcome \in Outcome /\ now \in 0..MaxTime /\ MaxFailures \in Nat /\ MaxTime \in Nat
    BY LastRunAssumption DEF TypeOK
  <2>2. FinishedEntry(outcome, now) \in LastRunEntry
    BY <2>1, EntryKinds
  <2>3. TruthOK
    <3>1. failed' = FailedAfter(outcome, failed) /\ failed \in 0..MaxFailures + 1
      BY <1>11, <2>1 DEF EndJob, FailedAfter, Outcome, TypeOK
    <3>2. failed' \in 0..MaxFailures + 1
      BY <2>1, <3>1 DEF FailedAfter
    <3> QED
      BY <1>11, <2>1, <2>2, <3>2 DEF EndJob, TypeOK
  <2>4. PcOK /\ WrapOK
    BY <1>11, <2>2 DEF EndJob, Move, TypeOK
  <2>5. RestOK
    BY <1>11, <2>3, <2>4 DEF EndJob, TypeOK
  <2> QED
    BY <1>1, <1>2, <2>5 DEF TypeOK
<1> QED
  BY <1>4, <1>5, <1>6, <1>7, <1>8, <1>9, <1>10, <1>11 DEF Next, Step

(* The variables of the wrapper and the history keep their types.          *)
THEOREM WrapTyping == Spec => []TypeOK
<1>1. TypeOK /\ [Next]_vars => TypeOK'
  BY WrapTypingStep
<1> QED
  BY <1>1, WrapTypingInit, PTL DEF Spec

(* Processes that run wrapped jobs -- ask the predicate, record starts and *)
(* completions, die, are restarted, reset their history -- use the history *)
(* as LastRunHistory describes, so it is to them a log that is lost as a   *)
(* whole or not at all, whatever they do.                                  *)
THEOREM WrapperUsesHistory == Spec => HistSpec /\ IsLossyLog
<1>1. TypeOK /\ [Next]_vars => [HistNext]_histVars
  BY WrapperStepsHistory
<1>2. Init => HistInit
  BY DEF Init
<1> QED
  BY <1>1, <1>2, WrapTyping, HistoryIsLossyLog, PTL DEF Spec, HistSpec

-------------------------------------------------------------------------------
(* What the history tells of the job is true if processes that share it    *)
(* do not run the job at the same time.  Nothing in the code sees to that: *)
(* the predicate answers in one critical section and the start is recorded *)
(* in the next.                                                            *)

Admitted(p) == pc[p] \in {"starting", "running", "finishing"}

\* No process is admitted, up to the record of its completion, while another is.
Apart == \A p, q \in Process : Admitted(p) /\ Admitted(q) => p = q

\* Nor does one ask while another's completion waits to be recorded.
Turns ==
    /\ Apart
    /\ \A p, q \in Process : ~(pc[p] = "asking" /\ pc[q] = "finishing")

\* A process that has the history to itself cannot but take turns.
LEMMA OneTakesTurns ==
    ASSUME \A p, q \in Process : p = q
    PROVE  Turns
<1>1. \A p, q \in Process : pc[p] = pc[q]
  OBVIOUS
<1> QED
  BY <1>1 DEF Turns, Apart

\* Where a process is in the wrapper, and in an append of the wrapper.
PhaseInv ==
    \A p \in Process :
        /\ step[p] = "closed" => pc[p] = "idle"
        /\ Appending(p) => pc[p] \in {"starting", "finishing"}
        /\ pc[p] = "starting" => item[p] = StartedEntry

\* While the job runs, its start is the last entry on file, and the last that
\* its process remembers should the file be removed.
AlternInv ==
    /\ Alternates(file.entries)
    /\ \A p \in Process :
        /\ Alternates(entries[p])
        /\ Appending(p) /\ pc[p] = "starting" => EndsInStart(entries[p])
        /\ pc[p] \in {"running", "finishing"} /\ step[p] = "ready" =>
            EndsInStart(LoadedEntries) /\ EndsInStart(entries[p])

TellsTruth(s) == Tells(s, ended, failed, succeeded)

NoneFinishing == \A p \in Process : pc[p] # "finishing"

\* Unless something was lost, what is on file is true, and what a process is
\* about to write will be: a completion that is not yet on file included.
TellInv ==
    ~lost =>
        /\ NoneFinishing => TellsTruth(LoadedEntries)
        /\ file.status = "torn" => \E p \in Process : step[p] = "truncated"
        /\ \A p \in Process :
            /\ step[p] # "closed" /\ file.status = "absent" => TellsTruth(entries[p])
            /\ Appending(p) => TellsTruth(entries[p])
            /\ step[p] = "truncated" => file.status = "torn"
            /\ pc[p] \in {"running", "finishing"} /\ step[p] # "truncated" =>
                file.status = "whole"
            /\ pc[p] = "finishing" /\ step[p] = "ready" =>
                TellsTruth(DiscardOldEntries(Append(LoadedEntries, item[p])))

NeverEndedInv == ended = StartedEntry => failed = 0 /\ succeeded = -1

WrapInv == PhaseInv /\ AlternInv /\ TellInv /\ NeverEndedInv

LEMMA TellsNothing ==
    ASSUME NEW last, NEW n \in Nat, NEW success
    PROVE  Tells(<<>>, last, n, success)
<1>1. \A kinds : Indices(<<>>, kinds) = {}
  BY DEF Indices
<1>2. Cardinality(Fails(<<>>)) = 0
  BY <1>1, FS_EmptySet DEF Fails
<1> QED
  BY <1>1, <1>2 DEF Tells

LEMMA DiscardKeeps ==
    ASSUME NEW s \in Seq(LastRunEntry)
    PROVE  /\ DiscardOldEntries(s) \in Seq(LastRunEntry)
           /\ \A n \in Nat : \A last, success :
               Tells(s, last, n, success) => Tells(DiscardOldEntries(s), last, n, success)
           /\ Alternates(s) => Alternates(DiscardOldEntries(s))
           /\ EndsInStart(s) => EndsInStart(DiscardOldEntries(s))
<1>1. Entry = LastRunEntry
  BY LastRunAssumption
<1> PICK t : t = DiscardOldEntries(s)
  OBVIOUS
<1>2. t \in Seq(LastRunEntry)
  BY <1>1, DiscardProperties
<1>3. PICK d : Dropped(s, t, d)
  BY <1>1, DiscardDrops
<1> QED
  BY <1>2, <1>3, DropTells, DropAlternates

LEMMA RecordStarted ==
    ASSUME NEW s \in Seq(LastRunEntry), NEW last, NEW n \in Nat, NEW success
    PROVE  LET r == DiscardOldEntries(Append(s, StartedEntry))
           IN  /\ Tells(s, last, n, success) => Tells(r, last, n, success)
               /\ Alternates(s) => Alternates(r) /\ EndsInStart(r)
<1> PICK t : t = Append(s, StartedEntry)
  OBVIOUS
<1>1. StartedEntry \in LastRunEntry /\ t \in Seq(LastRunEntry)
  BY EntryKinds, AppendProperties
<1>2. Tells(s, last, n, success) => Tells(t, last, n, success)
  BY AppendStarted
<1>3. Alternates(s) => Alternates(t) /\ EndsInStart(t)
  BY <1>1, AppendAlternates
<1> QED
  BY <1>1, <1>2, <1>3, DiscardKeeps

LEMMA LogsAreTyped ==
    ASSUME TypeOK, NEW p \in Process
    PROVE  /\ entries[p] \in Seq(LastRunEntry)
           /\ file.entries \in Seq(LastRunEntry)
           /\ LoadedEntries \in Seq(LastRunEntry)
           /\ Refreshed(p) \in Seq(LastRunEntry)
           /\ item[p] \in LastRunEntry
           /\ failed \in Nat
BY CopiesAreLogs, LastRunAssumption DEF TypeOK

\* What a process that looks at the history finds.
LEMMA RefreshedTells ==
    ASSUME TypeOK, WrapInv, NEW p \in Process, step[p] = "ready"
    PROVE  /\ Alternates(LoadedEntries) /\ Alternates(Refreshed(p))
           /\ ~lost /\ NoneFinishing => TellsTruth(Refreshed(p))
           /\ file.status # "absent" => Refreshed(p) = LoadedEntries
<1>1. Alternates(LoadedEntries)
  BY LogsAreTyped, DiscardKeeps DEF WrapInv, AlternInv, LoadedEntries
<1> QED
  BY <1>1 DEF WrapInv, AlternInv, TellInv, Refreshed

\* A step of one process leaves alone what belongs to the others.
OthersRest(p) ==
    \A q \in Process : q # p =>
        /\ pc'[q] = pc[q] /\ item'[q] = item[q]
        /\ step'[q] = step[q] /\ entries'[q] = entries[q]

\* The file is as it was, and so is what it tells.
LEMMA UntouchedKeeps ==
    ASSUME WrapInv, NEW p \in Process, OthersRest(p),
           UNCHANGED <<file, truthVars>>,
           step'[p] \in {"closed", "ready"},
           step'[p] = "closed" => pc'[p] = "idle",
           pc'[p] = "starting" => item'[p] = StartedEntry,
           pc'[p] \in {"running", "finishing"} =>
               /\ pc[p] = pc'[p] /\ item'[p] = item[p]
               /\ step[p] = step'[p] /\ entries'[p] = entries[p],
           ~lost' => /\ ~lost /\ step[p] # "truncated"
                     /\ pc[p] = "finishing" => pc'[p] = "finishing",
           Alternates(entries'[p]),
           ~lost' /\ step'[p] = "ready" /\ file.status = "absent" => TellsTruth(entries'[p])
    PROVE  WrapInv'
<1> USE DEF truthVars, OthersRest
<1>1. LoadedEntries' = LoadedEntries
  BY DEF LoadedEntries
<1>2. PhaseInv'
  BY DEF WrapInv, PhaseInv, Appending
<1>3. AlternInv'
  BY <1>1 DEF WrapInv, AlternInv, Appending
<1>4. TellInv'
  <2> SUFFICES ASSUME ~lost'
               PROVE  TellInv'
    BY DEF TellInv
  <2>1. ~lost /\ TellInv
    BY DEF WrapInv
  <2>2. \A s : TellsTruth(s)' <=> TellsTruth(s)
    BY DEF TellsTruth
  <2>3. NoneFinishing' => NoneFinishing
    BY DEF NoneFinishing
  <2>4. NoneFinishing' => TellsTruth(LoadedEntries)'
    BY <1>1, <2>1, <2>3 DEF TellInv, TellsTruth
  <2>5. file'.status = "torn" => \E q \in Process : step'[q] = "truncated"
    BY <2>1 DEF TellInv
  <2>6. ASSUME NEW q \in Process, q # p
        PROVE  /\ step'[q] # "closed" /\ file'.status = "absent" => TellsTruth(entries[q])'
               /\ Appending(q)' => TellsTruth(entries[q])'
               /\ step'[q] = "truncated" => file'.status = "torn"
               /\ pc'[q] \in {"running", "finishing"} /\ step'[q] # "truncated" =>
                   file'.status = "whole"
               /\ pc'[q] = "finishing" /\ step'[q] = "ready" =>
                   TellsTruth(DiscardOldEntries(Append(LoadedEntries, item[q])))'
    BY <1>1, <2>1, <2>6 DEF TellInv, TellsTruth, Appending
  <2>7. /\ step'[p] # "closed" /\ file'.status = "absent" => TellsTruth(entries[p])'
        /\ Appending(p)' => TellsTruth(entries[p])'
        /\ step'[p] = "truncated" => file'.status = "torn"
        /\ pc'[p] \in {"running", "finishing"} /\ step'[p] # "truncated" =>
            file'.status = "whole"
        /\ pc'[p] = "finishing" /\ step'[p] = "ready" =>
            TellsTruth(DiscardOldEntries(Append(LoadedEntries, item[p])))'
    BY <1>1, <2>1 DEF TellInv, TellsTruth, Appending
  <2> QED
    BY <2>4, <2>5, <2>6, <2>7 DEF TellInv
<1>5. NeverEndedInv'
  BY DEF WrapInv, NeverEndedInv
<1> QED
  BY <1>2, <1>3, <1>4, <1>5 DEF WrapInv

LEMMA QuietStepKeeps ==
    ASSUME TypeOK, WrapInv, NEW p \in Process,
           \/ Start(p) \/ Stop(p) \/ Ask(p) \/ AdmitForced(p) \/ LookFails(p)
    PROVE  WrapInv'
<1>1. UNCHANGED <<file, truthVars, lost>> /\ OthersRest(p)
  BY DEF Start, Stop, Ask, AdmitForced, Admit, LookFails, Open, Leave, Move, Return,
         wrapVars, histVars, OthersRest, TypeOK, HistTypeOK
<1>2. CASE Start(p)
  <2>1. step[p] = "closed" /\ pc[p] = "idle" /\ step'[p] = "ready" /\ pc'[p] = "idle"
    BY <1>2 DEF Start, Open, wrapVars, WrapInv, PhaseInv, TypeOK, HistTypeOK
  <2>2. entries'[p] = LoadedEntries /\ Alternates(LoadedEntries)
    BY <1>2, LogsAreTyped, DiscardKeeps
       DEF Start, Open, WrapInv, AlternInv, LoadedEntries, TypeOK, HistTypeOK
  <2>3. ~lost /\ file.status = "absent" => TellsTruth(LoadedEntries)
    <3> SUFFICES ASSUME ~lost, file.status = "absent"
                 PROVE  NoneFinishing
      BY DEF WrapInv, TellInv
    <3>1. \A q \in Process : pc[q] # "finishing"
      BY DEF WrapInv, TellInv
    <3> QED
      BY <3>1 DEF NoneFinishing
  <2> QED
    BY <1>1, <2>1, <2>2, <2>3, UntouchedKeeps
<1>3. CASE ~Start(p)
  <2>1. entries' = entries /\ step[p] # "closed" /\ ~Appending(p)
    BY <1>3 DEF Stop, Ask, AdmitForced, Admit, LookFails, Leave, Move, histVars,
                Appending, WrapInv, PhaseInv
  <2>2. /\ step'[p] \in {"closed", "ready"} /\ step[p] = "ready"
        /\ step'[p] = "closed" => pc'[p] = "idle"
        /\ pc[p] # "finishing" /\ pc'[p] \notin {"running", "finishing"}
        /\ pc'[p] = "starting" => item'[p] = StartedEntry
    BY <1>3, <2>1 DEF Stop, Ask, AdmitForced, Admit, LookFails, Leave, Move, Return,
                      histVars, wrapVars, Appending, TypeOK, HistTypeOK
  <2>3. Alternates(entries[p])
    BY DEF WrapInv, AlternInv
  <2>4. ~lost /\ file.status = "absent" => TellsTruth(entries[p])
    BY <2>2 DEF WrapInv, TellInv
  <2> QED
    BY <1>1, <2>1, <2>2, <2>3, <2>4, UntouchedKeeps
<1> QED
  BY <1>2, <1>3

LEMMA DecisionKeeps ==
    ASSUME TypeOK, WrapInv, NEW p \in Process, AdmitDue(p) \/ Refuse(p)
    PROVE  WrapInv'
<1>1. /\ UNCHANGED <<file, truthVars, lost>> /\ OthersRest(p)
      /\ step[p] = "ready" /\ step'[p] = "ready" /\ entries'[p] = Refreshed(p)
      /\ pc[p] = "asking" /\ pc'[p] \in {"starting", "idle"} /\ item'[p] = StartedEntry
  BY DEF AdmitDue, Refuse, Look, Admit, Move, Return, OthersRest, TypeOK, HistTypeOK
<1>2. ~lost /\ file.status = "absent" => TellsTruth(Refreshed(p))
  BY <1>1 DEF WrapInv, TellInv, Refreshed
<1> QED
  BY <1>1, <1>2, RefreshedTells, UntouchedKeeps

LEMMA BreakKeeps ==
    ASSUME TypeOK, WrapInv, NEW p \in Process, Die(p) \/ RecordFails(p)
    PROVE  WrapInv'
<1>1. /\ UNCHANGED <<file, truthVars>> /\ OthersRest(p) /\ entries'[p] = entries[p]
      /\ pc'[p] = "idle" /\ step'[p] \in {"closed", "ready"}
      /\ step[p] # "closed" /\ item'[p] = StartedEntry
  BY DEF Die, RecordFails, Crash, WriteFails, Return, OthersRest, TypeOK, HistTypeOK
<1>2. ~lost' => ~lost /\ pc[p] # "finishing" /\ step[p] # "truncated"
  BY DEF Die, RecordFails, Breaks
<1>3. /\ Alternates(entries[p])
      /\ ~lost /\ file.status = "absent" => TellsTruth(entries[p])
  BY <1>1 DEF WrapInv, AlternInv, TellInv
<1> QED
  BY <1>1, <1>2, <1>3, UntouchedKeeps

LEMMA ResetKeeps ==
    ASSUME TypeOK, WrapInv, NEW p \in Process, ResetHistory(p)
    PROVE  WrapInv'
<1>1. /\ file' = NoFile /\ file'.entries = <<>> /\ lost'
      /\ UNCHANGED <<entries, step, pc, item, truthVars>>
  BY DEF ResetHistory, Reset, wrapVars, NoFile
<1>2. LoadedEntries' = <<>>
  BY <1>1, DiscardNothing DEF LoadedEntries
<1>3. PhaseInv'
  BY <1>1 DEF WrapInv, PhaseInv, Appending
<1>4. AlternInv'
  <2>1. Alternates(<<>>) /\ EndsInStart(<<>>)
    BY DEF Alternates, EndsInStart
  <2> QED
    BY <1>1, <1>2, <2>1 DEF WrapInv, AlternInv, Appending
<1>5. TellInv' /\ NeverEndedInv'
  BY <1>1 DEF WrapInv, TellInv, NeverEndedInv, truthVars
<1> QED
  BY <1>3, <1>4, <1>5 DEF WrapInv

\* An append of the wrapper is of the one process that is admitted.
LEMMA OneIsAdmitted ==
    ASSUME Apart, WrapInv, NEW p \in Process, Admitted(p)
    PROVE  \A q \in Process : q # p =>
             pc[q] \notin {"starting", "running", "finishing"} /\ ~Appending(q)
  BY DEF Apart, Admitted, WrapInv, PhaseInv

LEMMA BeginKeeps ==
    ASSUME Apart, TypeOK, WrapInv, NEW p \in Process, BeginRecord(p)
    PROVE  WrapInv'
<1> PICK r : r = DiscardOldEntries(Append(Refreshed(p), item[p]))
  OBVIOUS
<1>1. /\ UNCHANGED <<file, pc, item, truthVars, lost>> /\ OthersRest(p)
      /\ pc[p] \in {"starting", "finishing"} /\ step[p] = "ready"
      /\ step'[p] = "loaded" /\ entries'[p] = r
  BY DEF BeginRecord, BeginAppend, wrapVars, OthersRest, TypeOK, HistTypeOK
<1>2. \A q \in Process : q # p =>
        pc[q] \notin {"starting", "running", "finishing"} /\ ~Appending(q)
  BY <1>1, OneIsAdmitted DEF Admitted
<1>3. LoadedEntries' = LoadedEntries
  BY <1>1 DEF LoadedEntries
<1>4. Alternates(r) /\ (pc[p] = "starting" => EndsInStart(r)) /\ (~lost => TellsTruth(r))
  <2>1. CASE pc[p] = "starting"
    <3>1. item[p] = StartedEntry /\ NoneFinishing
      BY <1>2, <2>1 DEF WrapInv, PhaseInv, NoneFinishing
    <3>2. /\ Alternates(Refreshed(p)) /\ (~lost => TellsTruth(Refreshed(p)))
          /\ Refreshed(p) \in Seq(LastRunEntry) /\ failed \in Nat
      BY <1>1, <3>1, RefreshedTells, LogsAreTyped
    <3> QED
      BY <3>1, <3>2, RecordStarted DEF TellsTruth
  <2>2. CASE pc[p] = "finishing"
    <3>1. /\ Alternates(Refreshed(p)) /\ EndsInStart(Refreshed(p))
          /\ Refreshed(p) \in Seq(LastRunEntry) /\ item[p] \in LastRunEntry
      BY <1>1, <2>2, RefreshedTells, LogsAreTyped DEF WrapInv, AlternInv, Refreshed
    <3>2. Alternates(r)
      <4>1. Append(Refreshed(p), item[p]) \in Seq(LastRunEntry)
        BY <3>1, AppendProperties
      <4>2. Alternates(Append(Refreshed(p), item[p]))
        BY <3>1, AppendAlternates
      <4> QED
        BY <4>1, <4>2, DiscardKeeps
    <3>3. ~lost => TellsTruth(r)
      <4> SUFFICES ASSUME ~lost
                   PROVE  TellsTruth(r)
        OBVIOUS
      <4>1. /\ file.status = "whole"
            /\ TellsTruth(DiscardOldEntries(Append(LoadedEntries, item[p])))
        BY <1>1, <2>2 DEF WrapInv, TellInv
      <4> QED
        BY <4>1 DEF Refreshed
    <3> QED
      BY <2>2, <3>2, <3>3
  <2> QED
    BY <1>1, <2>1, <2>2
<1>5. PhaseInv'
  BY <1>1 DEF WrapInv, PhaseInv, Appending, OthersRest
<1>6. AlternInv'
  BY <1>1, <1>3, <1>4 DEF WrapInv, AlternInv, Appending, OthersRest
<1>7. TellInv'
  <2> SUFFICES ASSUME ~lost
               PROVE  TellInv'
    BY <1>1 DEF TellInv
  <2>1. TellInv /\ TellsTruth(r)
    BY <1>4 DEF WrapInv
  <2>2. NoneFinishing' => TellsTruth(LoadedEntries)'
    BY <1>1, <1>3, <2>1 DEF TellInv, TellsTruth, NoneFinishing, truthVars
  <2>3. file'.status = "torn" => \E q \in Process : step'[q] = "truncated"
    BY <1>1, <2>1 DEF TellInv, OthersRest
  <2>4. /\ TellsTruth(entries[p])'
        /\ step'[p] # "truncated" /\ step'[p] # "ready"
        /\ pc'[p] \in {"running", "finishing"} => file'.status = "whole"
    BY <1>1, <2>1 DEF TellInv, TellsTruth, truthVars
  <2>5. ASSUME NEW q \in Process, q # p
        PROVE  /\ step'[q] # "closed" /\ file'.status = "absent" => TellsTruth(entries[q])'
               /\ ~Appending(q)' /\ step'[q] # "truncated"
               /\ pc'[q] \notin {"running", "finishing"}
    BY <1>1, <1>2, <2>1, <2>5 DEF TellInv, TellsTruth, Appending, OthersRest, truthVars
  <2> QED
    BY <2>2, <2>3, <2>4, <2>5 DEF TellInv
<1>8. NeverEndedInv'
  BY <1>1 DEF WrapInv, NeverEndedInv, truthVars
<1> QED
  BY <1>5, <1>6, <1>7, <1>8 DEF WrapInv

LEMMA TruncateKeeps ==
    ASSUME Apart, TypeOK, WrapInv, NEW p \in Process, TruncateRecord(p)
    PROVE  WrapInv'
<1>1. /\ UNCHANGED <<entries, pc, item, truthVars, lost>> /\ OthersRest(p)
      /\ file' = TornFile /\ file'.status = "torn" /\ file'.entries = <<>>
      /\ step[p] = "loaded" /\ step'[p] = "truncated"
      /\ pc[p] \in {"starting", "finishing"}
  BY DEF TruncateRecord, Truncate, wrapVars, OthersRest, TypeOK, HistTypeOK, WrapInv,
         PhaseInv, Appending, TornFile
<1>2. \A q \in Process : q # p =>
        pc[q] \notin {"starting", "running", "finishing"} /\ ~Appending(q)
  BY <1>1, OneIsAdmitted DEF Admitted
<1>3. LoadedEntries' = <<>>
  BY <1>1, DiscardNothing DEF LoadedEntries
<1>4. PhaseInv'
  BY <1>1 DEF WrapInv, PhaseInv, Appending, OthersRest
<1>5. AlternInv'
  <2>1. Alternates(<<>>) /\ EndsInStart(<<>>)
    BY DEF Alternates, EndsInStart
  <2> QED
    BY <1>1, <1>2, <1>3, <2>1 DEF WrapInv, AlternInv, Appending, OthersRest
<1>6. TellInv'
  <2> SUFFICES ASSUME ~lost
               PROVE  TellInv'
    BY <1>1 DEF TellInv
  <2>1. TellsTruth(<<>>)' /\ TellsTruth(entries[p])'
    <3>1. TellsTruth(<<>>) /\ TellsTruth(entries[p])
      BY <1>1, LogsAreTyped, TellsNothing DEF TellsTruth, WrapInv, TellInv, Appending
    <3> QED
      BY <1>1, <3>1 DEF TellsTruth, truthVars
  <2>2. \A q \in Process : q # p =>
          ~Appending(q)' /\ pc'[q] \notin {"running", "finishing"}
    BY <1>1, <1>2 DEF Appending, OthersRest
  <2> QED
    BY <1>1, <1>3, <2>1, <2>2 DEF TellInv, TellsTruth, Appending
<1>7. NeverEndedInv'
  BY <1>1 DEF WrapInv, NeverEndedInv, truthVars
<1> QED
  BY <1>4, <1>5, <1>6, <1>7 DEF WrapInv

LEMMA EndRecordKeeps ==
    ASSUME Apart, TypeOK, HistInv, WrapInv, NEW p \in Process, EndRecord(p)
    PROVE  WrapInv'
<1>1. /\ UNCHANGED <<entries, truthVars, lost>> /\ OthersRest(p)
      /\ step[p] = "truncated" /\ step'[p] = "ready"
      /\ \/ pc[p] = "starting" /\ pc'[p] = "running"
         \/ pc[p] = "finishing" /\ pc'[p] = "idle"
  BY DEF EndRecord, FinishWrite, Move, Return, OthersRest, TypeOK, HistTypeOK
<1>2. \A q \in Process : q # p =>
        pc[q] \notin {"starting", "running", "finishing"} /\ ~Appending(q)
  BY <1>1, OneIsAdmitted DEF Admitted
<1>3. \/ /\ file.status = "absent" /\ file'.entries = <<>> /\ LoadedEntries' = <<>>
      \/ /\ file'.status = "whole" /\ file'.entries = entries[p]
         /\ LoadedEntries' = entries[p]
  <2>1. CASE file.status = "absent"
    <3>1. file' = file /\ file.entries = <<>>
      BY <2>1 DEF EndRecord, FinishWrite, HistInv, FileInv
    <3> QED
      BY <2>1, <3>1, DiscardNothing DEF LoadedEntries
  <2>2. CASE file.status # "absent"
    <3>1. file' = WholeFile(entries[p]) /\ DiscardOldEntries(entries[p]) = entries[p]
      BY <1>1, <2>2 DEF EndRecord, FinishWrite, HistInv, AppendInv, Appending
    <3>2. file'.status = "whole" /\ file'.entries = entries[p]
      BY <3>1 DEF WholeFile
    <3> QED
      BY <3>1, <3>2 DEF LoadedEntries
  <2> QED
    BY <2>1, <2>2
<1>4. PhaseInv'
  BY <1>1 DEF WrapInv, PhaseInv, Appending, OthersRest
<1>5. AlternInv'
  <2>1. Alternates(<<>>) /\ EndsInStart(<<>>)
    BY DEF Alternates, EndsInStart
  <2>2. /\ Alternates(file'.entries)
        /\ pc[p] = "starting" => EndsInStart(LoadedEntries') /\ EndsInStart(entries[p])
    BY <1>1, <1>3, <2>1 DEF WrapInv, AlternInv, Appending
  <2>3. \A q \in Process : Alternates(entries'[q])
    BY <1>1 DEF WrapInv, AlternInv
  <2>4. \A q \in Process : q # p =>
          ~Appending(q)' /\ pc'[q] \notin {"running", "finishing"}
    BY <1>1, <1>2 DEF Appending, OthersRest
  <2>5. ~Appending(p)' /\ (pc'[p] \in {"running", "finishing"} => pc[p] = "starting")
    BY <1>1 DEF Appending
  <2> QED
    BY <1>1, <2>2, <2>3, <2>4, <2>5 DEF AlternInv
<1>6. TellInv'
  <2> SUFFICES ASSUME ~lost
               PROVE  TellInv'
    BY <1>1 DEF TellInv
  <2>1. /\ TellsTruth(entries[p]) /\ file'.status = "whole" /\ LoadedEntries' = entries[p]
    BY <1>1, <1>3 DEF WrapInv, TellInv, Appending
  <2>2. TellsTruth(LoadedEntries)'
    BY <1>1, <2>1 DEF TellsTruth, truthVars
  <2>3. \A q \in Process : q # p =>
          ~Appending(q)' /\ pc'[q] # "finishing"
    BY <1>1, <1>2 DEF Appending, OthersRest
  <2>4. ~Appending(p)' /\ pc'[p] # "finishing"
    BY <1>1 DEF Appending
  <2> QED
    BY <2>1, <2>2, <2>3, <2>4 DEF TellInv, Appending
<1>7. NeverEndedInv'
  BY <1>1 DEF WrapInv, NeverEndedInv, truthVars
<1> QED
  BY <1>4, <1>5, <1>6, <1>7 DEF WrapInv

LEMMA EndJobKeeps ==
    ASSUME Apart, TypeOK, WrapInv, NEW p \in Process,
           NEW outcome \in JobOutcomes, EndJob(p, outcome)
    PROVE  WrapInv'
<1> PICK e : e = FinishedEntry(outcome, now)
  OBVIOUS
<1>0. outcome \in Outcome /\ now \in 0..MaxTime /\ failed \in 0..MaxFailures + 1
  BY LastRunAssumption DEF TypeOK
<1>1. /\ UNCHANGED <<file, entries, step, lost>> /\ OthersRest(p)
      /\ pc[p] = "running" /\ pc'[p] = "finishing" /\ item'[p] = e /\ ended' = e
      /\ failed' = FailedAfter(outcome, failed)
      /\ succeeded' = IF outcome = "success" THEN now ELSE succeeded
  BY <1>0 DEF EndJob, Move, histVars, FailedAfter, Outcome, OthersRest, TypeOK
<1>2. e \in LastRunEntry /\ e # StartedEntry
  BY <1>0, EntryKinds DEF Outcome
<1>3. step[p] = "ready" /\ EndsInStart(LoadedEntries) /\ EndsInStart(entries[p])
  <2>1. step[p] = "ready"
    BY <1>1 DEF WrapInv, PhaseInv, Appending, TypeOK, HistTypeOK
  <2> QED
    BY <1>1, <2>1 DEF WrapInv, AlternInv
<1>4. \A q \in Process : q # p =>
        pc[q] \notin {"starting", "running", "finishing"} /\ ~Appending(q)
  BY <1>1, OneIsAdmitted DEF Admitted
<1>5. LoadedEntries' = LoadedEntries
  BY <1>1 DEF LoadedEntries
<1>6. PhaseInv'
  BY <1>1, <1>3 DEF WrapInv, PhaseInv, Appending, OthersRest
<1>7. AlternInv'
  BY <1>1, <1>3, <1>5 DEF WrapInv, AlternInv, Appending, OthersRest
<1>8. TellInv'
  <2> SUFFICES ASSUME ~lost
               PROVE  TellInv'
    BY <1>1 DEF TellInv
  <2>1. /\ TellsTruth(LoadedEntries) /\ LoadedEntries \in Seq(LastRunEntry)
        /\ file.status = "whole"
    <3>1. NoneFinishing
      BY <1>1, <1>4 DEF NoneFinishing
    <3> QED
      BY <1>1, <1>3, <3>1, LogsAreTyped DEF WrapInv, TellInv
  <2> PICK r : r = Append(LoadedEntries, e)
    OBVIOUS
  <2>2. r \in Seq(LastRunEntry)
    BY <1>2, <2>1, AppendProperties
  <2>3. Tells(r, ended', failed', succeeded')
    BY <1>0, <1>1, <2>1, AppendFinished DEF TellsTruth
  <2>4. failed' \in Nat
    BY <1>0, <1>1, LastRunAssumption DEF FailedAfter
  <2>5. Tells(DiscardOldEntries(r), ended', failed', succeeded')
    BY <2>2, <2>3, <2>4, DiscardKeeps
  <2>6. TellsTruth(DiscardOldEntries(Append(LoadedEntries, item[p])))'
    BY <1>1, <1>5, <2>5 DEF TellsTruth
  <2>7. file'.status = "whole" /\ ~NoneFinishing'
    BY <1>1, <2>1 DEF NoneFinishing
  <2>8. \A q \in Process : ~Appending(q)'
    BY <1>1, <1>3, <1>4 DEF Appending
  <2>9. \A q \in Process : q # p => pc'[q] # "finishing"
    BY <1>1, <1>4 DEF OthersRest
  <2> QED
    BY <2>6, <2>7, <2>8, <2>9 DEF TellInv, Appending
<1>9. NeverEndedInv'
  BY <1>1, <1>2 DEF NeverEndedInv
<1> QED
  BY <1>6, <1>7, <1>8, <1>9 DEF WrapInv

LEMMA WrapInvInit == Init => WrapInv
<1> SUFFICES ASSUME Init
             PROVE  WrapInv
  OBVIOUS
<1>1. /\ file = NoFile /\ entries = [p \in Process |-> <<>>] /\ failed = 0 /\ succeeded = -1
      /\ step = [p \in Process |-> "closed"] /\ pc = [p \in Process |-> "idle"]
  BY DEF Init, HistInit
<1>2. LoadedEntries = <<>> /\ Alternates(<<>>) /\ TellsTruth(<<>>)
  BY <1>1, DiscardNothing, TellsNothing DEF LoadedEntries, NoFile, Alternates, TellsTruth
<1>3. PhaseInv
  BY <1>1 DEF PhaseInv, Appending
<1>4. AlternInv
  BY <1>1, <1>2 DEF AlternInv, Appending, NoFile
<1>5. TellInv
  BY <1>1, <1>2 DEF TellInv, Appending, NoFile
<1>6. NeverEndedInv
  BY <1>1 DEF NeverEndedInv
<1> QED
  BY <1>3, <1>4, <1>5, <1>6 DEF WrapInv

LEMMA WrapInvStep ==
    ASSUME Apart, TypeOK, HistInv, WrapInv, [Next]_vars
    PROVE  WrapInv'
<1>1. ASSUME NEW p \in Process,
             \/ Start(p) \/ Stop(p) \/ Die(p) \/ ResetHistory(p)
             \/ Ask(p) \/ AdmitForced(p) \/ AdmitDue(p) \/ Refuse(p) \/ LookFails(p)
             \/ BeginRecord(p) \/ TruncateRecord(p) \/ EndRecord(p) \/ RecordFails(p)
      PROVE  WrapInv'
  BY <1>1, QuietStepKeeps, DecisionKeeps, BreakKeeps, ResetKeeps, BeginKeeps,
     TruncateKeeps, EndRecordKeeps
<1>2. ASSUME NEW p \in Process, NEW outcome \in JobOutcomes, EndJob(p, outcome)
      PROVE  WrapInv'
  BY <1>2, EndJobKeeps
<1>3. CASE Tick \/ UNCHANGED vars
  <2>1. UNCHANGED <<histVars, wrapVars, truthVars, lost>>
    BY <1>3 DEF Tick, vars
  <2>2. LoadedEntries' = LoadedEntries
    BY <2>1 DEF histVars, LoadedEntries
  <2> QED
    BY <2>1, <2>2 DEF histVars, wrapVars, truthVars, WrapInv, PhaseInv, AlternInv, TellInv,
       NeverEndedInv, Appending, TellsTruth, NoneFinishing
<1> QED
  BY <1>1, <1>2, <1>3 DEF Next, Step

LEMMA WrapInvariance == Spec /\ []Apart => [](TypeOK /\ HistInv /\ WrapInv)
<1>1. Apart /\ TypeOK /\ HistInv /\ WrapInv /\ [Next]_vars => WrapInv'
  BY WrapInvStep
<1> QED
  BY <1>1, WrapInvInit, WrapTyping, WrapperUsesHistory, HistInvariance, PTL DEF Spec

(* Processes that share a history and do not run the job at the same time  *)
(* leave a log of attempts: what has finished had started before, through  *)
(* crashes, failed writes, restarts and resets, the file being removed by  *)
(* one while another's job runs included, and however few entries the file *)
(* keeps.                                                                  *)
THEOREM WrapAlternates == Spec /\ []Apart => []HistoryAlternates
<1>1. TypeOK /\ HistInv /\ WrapInv => HistoryAlternates
  <2> SUFFICES ASSUME TypeOK, WrapInv
               PROVE  Alternates(LoadedEntries)
    BY DEF HistoryAlternates, Alternates
  <2>1. file.entries \in Seq(LastRunEntry)
    BY LastRunAssumption DEF TypeOK, HistTypeOK, File
  <2> QED
    BY <2>1, DiscardKeeps DEF WrapInv, AlternInv, LoadedEntries
<1> QED
  BY <1>1, WrapInvariance, PTL

-------------------------------------------------------------------------------
(* The decision read from the file is the one the policy makes of what     *)
(* really happened, if what it goes by is on record.                       *)

LEMMA OnRecordTells ==
    ASSUME TypeOK, HistInv, WrapInv, NoneFinishing, OnRecord, ~lost,
           NEW p \in Process, step[p] = "ready", pc[p] = "asking", NEW time
    PROVE  Predicate(time, Refreshed(p)) <=> Due(time)
<1> PICK s : s = Refreshed(p)
  OBVIOUS
<1>1. /\ s \in Seq(LastRunEntry) /\ LoadedEntries \in Seq(LastRunEntry) /\ failed \in Nat
      /\ TellsTruth(s) /\ (file.status # "absent" => s = LoadedEntries)
  BY RefreshedTells, LogsAreTyped
<1>2. DOMAIN s = 1..Len(s) /\ Len(s) \in Nat /\ \A i \in DOMAIN s : s[i] \in LastRunEntry
  BY <1>1, LenProperties
<1>3. ASSUME ended = StartedEntry
      PROVE  Predicate(time, s) /\ Due(time)
  <2>1. Indices(s, Outcome) = {}
    <3> SUFFICES ASSUME Indices(s, Outcome) # {}
                 PROVE  FALSE
      OBVIOUS
    <3>1. PICK i \in Indices(s, Outcome) : s[i] = StartedEntry
      BY <1>1, <1>3 DEF TellsTruth, Tells
    <3> QED
      BY <3>1, EntryKinds DEF Indices, Outcome
  <2>2. LastFinished(s) = StartedEntry
    BY <2>1 DEF LastFinished
  <2> QED
    BY <1>3, <2>2 DEF Predicate, Policy, Due
<1>4. ASSUME ended # StartedEntry
      PROVE  Predicate(time, s) <=> Due(time)
  <2>1. s = LoadedEntries /\ ended \in Range(s) /\ ended.what \in Outcome
    <3>1. ended \in Range(LoadedEntries)
      BY <1>4 DEF OnRecord
    <3>2. file.status # "absent"
      <4>1. file.status = "absent" => LoadedEntries = <<>>
        BY DiscardNothing DEF HistInv, FileInv, LoadedEntries
      <4> QED
        BY <3>1, <4>1 DEF Range
    <3> QED
      BY <1>1, <1>4, <3>1, <3>2, EntryKinds DEF TypeOK
  <2>2. LastFinished(s) = ended
    <3>1. Indices(s, Outcome) # {}
      BY <2>1 DEF Range, Indices
    <3>2. PICK i \in Indices(s, Outcome) : IsLast(s, Outcome, i) /\ s[i] = ended
      BY <1>1, <3>1 DEF TellsTruth, Tells
    <3> QED
      BY <1>2, <3>1, <3>2, LastEntryIs DEF LastFinished
  <2>3. ASSUME on_max_failures = "success_schedule"
        PROVE  LastSuccess(s) = succeeded
    <3>1. CASE Indices(s, {"success"}) = {}
      <4>1. succeeded # -1 => FinishedEntry("success", succeeded) \in Range(s)
        BY <2>1, <2>3 DEF OnRecord
      <4>2. succeeded = -1
        BY <3>1, <4>1 DEF Range, Indices, FinishedEntry
      <4> QED
        BY <3>1, <4>2 DEF LastSuccess
    <3>2. CASE Indices(s, {"success"}) # {}
      <4>1. PICK i \in Indices(s, {"success"}) :
              IsLast(s, {"success"}, i) /\ s[i].at = succeeded
        BY <1>1, <3>2 DEF TellsTruth, Tells
      <4> QED
        BY <1>2, <3>2, <4>1, LastEntryIs DEF LastSuccess
    <3> QED
      BY <3>1, <3>2
  <2> PICK n : n = Cardinality(Fails(s))
    OBVIOUS
  <2>4. /\ n \in Nat /\ MaxFailures \in Nat
        /\ n <= failed \/ failed = MaxFailures + 1
        /\ Indices(s, {"success"}) # {} => n >= failed
    BY <1>1, FailsAreFinite, LastRunAssumption DEF TellsTruth, Tells
  <2>5. Indices(s, {"success"}) = {} => n >= failed \/ n >= MaxFailures
    <3>1. Indices(s, {"success"}) = {} => Fails(s) = Indices(s, {"failure"})
      BY DEF Fails
    <3> QED
      BY <2>1, <3>1 DEF OnRecord
  <2>6. n < MaxFailures <=> failed < MaxFailures
    BY <1>1, <2>4, <2>5
  <2>7. n >= MaxFailures <=> failed >= MaxFailures
    BY <1>1, <2>4, <2>6
  <2>8. Policy(time, ended, n, LastSuccess(s)) <=> Policy(time, ended, failed, succeeded)
    BY <2>3, <2>6, <2>7 DEF Policy
  <2> QED
    BY <2>2, <2>8, CountsFails DEF Predicate, Due
<1> QED
  BY <1>3, <1>4

(* Processes that take turns decide by the truth: forced runs, crashes,    *)
(* lost writes of starts and entries that were discarded included, the     *)
(* decision of each is the policy's on what really happened, as long as    *)
(* what the policy needs is on record and no completion was lost.  Sharing *)
(* a history misleads the predicate only when attempts overlap.            *)
THEOREM WrapDecisionFollowsTruth == Spec /\ []Turns => DecisionFollowsTruth
<1>1. ASSUME Turns, TypeOK, HistInv, WrapInv, [Next]_vars,
             NEW p \in Process, Decides(p), OnRecord, ~lost
      PROVE  pc'[p] = "starting" <=> Due(asked[p])
  <2>1. pc[p] = "asking" /\ step[p] = "ready"
    BY <1>1 DEF Decides, AdmitDue, Refuse, Look, Admit, Move
  <2>2. Predicate(asked[p], Refreshed(p)) <=> Due(asked[p])
    <3>1. NoneFinishing
      BY <1>1, <2>1 DEF Turns, NoneFinishing
    <3> QED
      BY <1>1, <2>1, <3>1, OnRecordTells
  <2>3. CASE AdmitDue(p)
    <3>1. pc'[p] = "starting"
      BY <1>1, <2>3 DEF AdmitDue, Admit, Move, TypeOK
    <3>2. Predicate(asked[p], Refreshed(p))
      BY <2>3 DEF AdmitDue
    <3> QED
      BY <2>2, <3>1, <3>2
  <2>4. CASE Refuse(p)
    <3>1. pc'[p] = "idle"
      BY <1>1, <2>4 DEF Refuse, Return, TypeOK
    <3>2. ~Predicate(asked[p], Refreshed(p))
      BY <2>4 DEF Refuse
    <3> QED
      BY <2>2, <3>1, <3>2
  <2> QED
    BY <1>1, <2>3, <2>4 DEF Decides
<1>2. Turns /\ TypeOK /\ HistInv /\ WrapInv /\ [Next]_vars
        => [\A p \in Process :
              Decides(p) /\ OnRecord /\ ~lost
                => (pc'[p] = "starting" <=> Due(asked[p]))]_vars
  BY <1>1
<1>3. Turns => Apart
  BY DEF Turns
<1> QED
  BY <1>2, <1>3, WrapInvariance, PTL DEF Spec, DecisionFollowsTruth
===============================================================================
