---------------------------- MODULE LastRunHistory ----------------------------
(***************************************************************************)
(* The history of a job's attempts: the class LastRunHistory of            *)
(* _last_run_history.py.  Several processes (two schedulers of the same    *)
(* name, or one that is restarted) keep it in one JSON file; each holds a  *)
(* copy in memory, which it refreshes from the file, under a lock on a     *)
(* file beside it, whenever it looks at the history or adds to it.         *)
(*                                                                         *)
(* The lock is taken for the whole of append(), and write_bytes() first    *)
(* truncates the file, then writes it.  A process may crash at any of      *)
(* these points (the operating system then releases the lock), the write   *)
(* may fail, and schedule(last_run_reset=True) removes the file without    *)
(* taking the lock.                                                        *)
(***************************************************************************)
EXTENDS Naturals, Sequences

CONSTANTS
    Process,        \* the processes that share the history
    Entry,          \* the entries they may add
    MaxEntries,     \* max_entries
    MayCrash,       \* processes crash and writes fail
    MayReset,       \* processes are started with last_run_reset
    None            \* no process

ASSUME HistoryAssumption ==
    /\ MaxEntries \in Nat
    /\ MayCrash \in BOOLEAN
    /\ MayReset \in BOOLEAN
    /\ None \notin Process

VARIABLES
    file,           \* the JSON file: absent, torn (not valid JSON) or whole
    entries,        \* _entries of each process
    holder,         \* the process that holds the lock during an append
    step            \* how far each process is

histVars == <<file, entries, holder, step>>

File == [status : {"absent", "torn", "whole"}, entries : Seq(Entry)]

NoFile == [status |-> "absent", entries |-> <<>>]
TornFile == [status |-> "torn", entries |-> <<>>]
WholeFile(s) == [status |-> "whole", entries |-> s]

HistTypeOK ==
    /\ file \in File
    /\ entries \in [Process -> Seq(Entry)]
    /\ holder \in Process \cup {None}
    /\ step \in [Process -> {"closed", "ready", "loaded", "truncated"}]

HistInit ==
    /\ file = NoFile
    /\ entries = [p \in Process |-> <<>>]
    /\ holder = None
    /\ step = [p \in Process |-> "closed"]

-------------------------------------------------------------------------------
\* Mutant: the newest entries are discarded.
DiscardNewEntries(s) == IF Len(s) > MaxEntries THEN SubSeq(s, 1, MaxEntries) ELSE s

\* _discard_old_entries.
DiscardOldEntries(s) ==
    IF Len(s) > MaxEntries
    THEN SubSeq(s, Len(s) - MaxEntries + 1, Len(s))
    ELSE s

\* _load_from_file: a file that is absent or not valid JSON counts as empty.
LoadedEntries == DiscardOldEntries(file.entries)

\* _refresh_from_file: if the file is absent, the copy in memory stays.
Refreshed(p) == IF file.status = "absent" THEN entries[p] ELSE LoadedEntries

LockIsFree == holder = None

\* LastRunHistory(path=...), when a process starts.
Open(p) ==
    /\ step[p] = "closed"
    /\ LockIsFree
    /\ entries' = [entries EXCEPT ![p] = LoadedEntries]
    /\ step' = [step EXCEPT ![p] = "ready"]
    /\ UNCHANGED <<file, holder>>

\* A method that only looks at the history.
Look(p) ==
    /\ step[p] = "ready"
    /\ LockIsFree
    /\ entries' = [entries EXCEPT ![p] = Refreshed(p)]
    /\ UNCHANGED <<file, holder, step>>

\* Mutant: the copy in memory is not refreshed.
BeginAppendToMemory(p, entry) ==
    /\ step[p] = "ready"
    /\ LockIsFree
    /\ holder' = p
    /\ entries' = [entries EXCEPT ![p] =
                     DiscardOldEntries(Append(entries[p], entry))]
    /\ step' = [step EXCEPT ![p] = "loaded"]
    /\ UNCHANGED file

\* append(): lock, refresh, append, discard ...
BeginAppend(p, entry) ==
    /\ step[p] = "ready"
    /\ LockIsFree
    /\ holder' = p
    /\ entries' = [entries EXCEPT ![p] =
                     DiscardOldEntries(Append(Refreshed(p), entry))]
    /\ step' = [step EXCEPT ![p] = "loaded"]
    /\ UNCHANGED file

\* ... open the file for writing ...
Truncate(p) ==
    /\ step[p] = "loaded"
    /\ file' = TornFile
    /\ step' = [step EXCEPT ![p] = "truncated"]
    /\ UNCHANGED <<entries, holder>>

\* ... write it, and unlock.  If the file was removed meanwhile, what is
\* written goes with it.
FinishWrite(p) ==
    /\ step[p] = "truncated"
    /\ file' = IF file.status = "absent" THEN file ELSE WholeFile(entries[p])
    /\ holder' = None
    /\ step' = [step EXCEPT ![p] = "ready"]
    /\ UNCHANGED entries

\* The file cannot be opened or written; the exception unlocks.
WriteFails(p) ==
    /\ MayCrash
    /\ step[p] \in {"loaded", "truncated"}
    /\ holder' = None
    /\ step' = [step EXCEPT ![p] = "ready"]
    /\ UNCHANGED <<file, entries>>

\* The process ends, regularly or not.
Leave(p) ==
    /\ step[p] = "ready"
    /\ step' = [step EXCEPT ![p] = "closed"]
    /\ UNCHANGED <<file, entries, holder>>

Crash(p) ==
    /\ MayCrash
    /\ step[p] # "closed"
    /\ holder' = IF holder = p THEN None ELSE holder
    /\ step' = [step EXCEPT ![p] = "closed"]
    /\ UNCHANGED <<file, entries>>

\* schedule(last_run_reset=True): unlink, without the lock, before Open.
Reset(p) ==
    /\ MayReset
    /\ step[p] = "closed"
    /\ file' = NoFile
    /\ UNCHANGED <<entries, holder, step>>

-------------------------------------------------------------------------------
HistNext ==
    \E p \in Process :
        \/ Open(p) \/ Look(p)
        \/ \E entry \in Entry : BeginAppend(p, entry)
        \/ Truncate(p) \/ FinishWrite(p) \/ WriteFails(p)
        \/ Leave(p) \/ Crash(p) \/ Reset(p)

HistSpec == HistInit /\ [][HistNext]_histVars

-------------------------------------------------------------------------------
\* A process is between truncating the file and writing it.
Writing == holder # None /\ step[holder] = "truncated" /\ file.status = "torn"

\* The log all processes share: the file, or what is being written to it.
SharedLog == IF Writing THEN entries[holder] ELSE LoadedEntries

Log == INSTANCE HistoryLog WITH log <- SharedLog

(* Appends of different processes never overwrite one another, although    *)
(* each writes the whole file from its own copy, and none is half visible: *)
(* without faults the file is one log that only grows.                     *)
IsLog == Log!LogSpec

(* A crash, a failed write or a reset loses the log as a whole or not at   *)
(* all: the processes that go on, and the one that restarts, read no       *)
(* partial log, and only a log that was lost can come back from the memory *)
(* of a process.                                                           *)
IsLossyLog == Log!LossySpec
===============================================================================
