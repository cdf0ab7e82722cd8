------------------------------ MODULE RateLimiter ------------------------------
(***************************************************************************)
(* The class RateLimiter of _rate_limiter.py with a path: processes share  *)
(* the time of the last action as the modification time of a file, and     *)
(* the same file carries the lock under which they check and update it.    *)
(*                                                                         *)
(* exclusive_path_lock (_lock.py) creates the file when it is missing and  *)
(* sets its modification time back to zero, but only after it has the      *)
(* lock: between the two steps another process may lock the file, look at  *)
(* its modification time and touch it.                                     *)
(***************************************************************************)
EXTENDS Integers

CONSTANTS
    Process,
    MinimumPeriod,      \* minimum_period
    FileExists,         \* the file is there before the first process starts
    MayPing,            \* ping() is called as well as ping_if_ready()
    MayCrash,
    MaxTime,            \* bound of this model on the clock
    None

ASSUME RateLimiterAssumption ==
    /\ MinimumPeriod \in Nat \ {0}
    /\ {FileExists, MayPing, MayCrash} \subseteq BOOLEAN
    /\ MaxTime \in Nat
    /\ None \notin Process \cup Nat

\* The clock starts late enough for a modification time of 0 to be long ago.
StartTime == MinimumPeriod

VARIABLES
    now,
    exists, mtime,      \* the file and its modification time
    holder,             \* the process that holds the flock
    pc,
    created,            \* the process has created the file it opened
    timestamp,          \* timestamp of each process's limiter
    pinged              \* the last action, as the limiters granted or saw it

vars == <<now, exists, mtime, holder, pc, created, timestamp, pinged>>

Times == 0..StartTime + MaxTime

Locations ==
    {"idle", "open_if_ready", "open", "lock_if_ready", "lock", "check",
     "touch_if_ready", "touch"}

TypeOK ==
    /\ now \in Times
    /\ exists \in BOOLEAN
    /\ mtime \in Times
    /\ holder \in Process \cup {None}
    /\ pc \in [Process -> Locations]
    /\ created \in [Process -> BOOLEAN]
    /\ timestamp \in [Process -> Times]
    /\ pinged \in Times \cup {None}

Init ==
    /\ now = StartTime
    /\ exists = FileExists
    /\ mtime = 0
    /\ holder = None
    /\ pc = [p \in Process |-> "idle"]
    /\ created = [p \in Process |-> FALSE]
    /\ timestamp = [p \in Process |-> 0]
    /\ pinged = None

-------------------------------------------------------------------------------
Goto(p, from, to) == pc[p] = from /\ pc' = [pc EXCEPT ![p] = to]

Call(p) ==
    /\ \/ Goto(p, "idle", "open_if_ready")
       \/ MayPing /\ Goto(p, "idle", "open")
    /\ UNCHANGED <<now, exists, mtime, holder, created, timestamp, pinged>>

\* O_CREAT | O_EXCL, or else a plain open; creating sets the mtime to now.
OpenFile(p) ==
    /\ \/ Goto(p, "open_if_ready", "lock_if_ready")
       \/ Goto(p, "open", "lock")
    /\ created' = [created EXCEPT ![p] = ~exists]
    /\ exists' = TRUE
    /\ mtime' = IF exists THEN mtime ELSE now
    /\ UNCHANGED <<now, holder, timestamp, pinged>>

\* flock, then os.utime(path, (0, 0)) by the process that created the file.
LockFile(p) ==
    /\ \/ Goto(p, "lock_if_ready", "check")
       \/ Goto(p, "lock", "touch")
    /\ holder = None
    /\ holder' = p
    /\ mtime' = IF created[p] THEN 0 ELSE mtime
    /\ UNCHANGED <<now, exists, created, timestamp, pinged>>

\* Mutant: the period includes its last instant.
ReadyLater(p) == now - mtime > MinimumPeriod

Ready(p) == now - mtime >= MinimumPeriod

\* Mutant: the lock is released between the check and the update.
CheckUnlocked(p) ==
    /\ pc[p] = "check"
    /\ timestamp' = [timestamp EXCEPT ![p] = mtime]
    /\ \/ Ready(p) /\ Goto(p, "check", "touch_if_ready")
       \/ ~Ready(p) /\ Goto(p, "check", "idle")
    /\ holder' = None
    /\ UNCHANGED <<now, exists, mtime, created, pinged>>

\* Refresh the timestamp from the file and check it.
Check(p) ==
    /\ pc[p] = "check"
    /\ timestamp' = [timestamp EXCEPT ![p] = mtime]
    /\ \/ Ready(p) /\ Goto(p, "check", "touch_if_ready") /\ holder' = holder
       \/ ~Ready(p) /\ Goto(p, "check", "idle") /\ holder' = None
    /\ UNCHANGED <<now, exists, mtime, created, pinged>>

\* Mutant: the file carries the time from which on the next action is allowed.
TouchAhead(p) ==
    /\ Goto(p, "touch_if_ready", "idle") \/ Goto(p, "touch", "idle")
    /\ mtime' = now + MinimumPeriod
    /\ timestamp' = [timestamp EXCEPT ![p] = now]
    /\ pinged' = now
    /\ holder' = None
    /\ UNCHANGED <<now, exists, created>>

\* Touch the file, unlock, and report the action as granted.
Touch(p) ==
    /\ Goto(p, "touch_if_ready", "idle") \/ Goto(p, "touch", "idle")
    /\ mtime' = now
    /\ timestamp' = [timestamp EXCEPT ![p] = now]
    /\ pinged' = now
    /\ holder' = None
    /\ UNCHANGED <<now, exists, created>>

\* is_ready() looks at the file without the lock, and records nothing.
IsReady(p) ==
    /\ pc[p] = "idle"
    /\ timestamp' = [timestamp EXCEPT ![p] = mtime]
    /\ UNCHANGED <<now, exists, mtime, holder, pc, created, pinged>>

Crash(p) ==
    /\ MayCrash
    /\ pc[p] # "idle"
    /\ pc' = [pc EXCEPT ![p] = "idle"]
    /\ holder' = IF holder = p THEN None ELSE holder
    /\ timestamp' = [timestamp EXCEPT ![p] = 0]
    /\ UNCHANGED <<now, exists, mtime, created, pinged>>

Tick ==
    /\ now < StartTime + MaxTime
    /\ now' = now + 1
    /\ UNCHANGED <<exists, mtime, holder, pc, created, timestamp, pinged>>

Next ==
    \/ \E p \in Process :
        \/ Call(p) \/ OpenFile(p) \/ LockFile(p) \/ Check(p) \/ Touch(p)
        \/ IsReady(p) \/ Crash(p)
    \/ Tick

Spec == Init /\ [][Next]_vars

-------------------------------------------------------------------------------
\* Both have just read the file's time; a crash forgets it.
Grants(p) == pc[p] = "touch_if_ready" /\ pc'[p] = "idle" /\ timestamp'[p] > 0
Denies(p) == pc[p] = "check" /\ pc'[p] = "idle" /\ timestamp'[p] > 0

(* ping_if_ready never grants an action within minimum_period of the last  *)
(* one that any process had recorded by then.                              *)
ActionsAreSpaced ==
    [][\A p \in Process :
        Grants(p) => pinged = None \/ now - pinged >= MinimumPeriod]_vars

(* ping_if_ready never denies an action without a recent one: "Record a    *)
(* ping and return True if enough time has passed."                        *)
DenialIsGrounded ==
    [][\A p \in Process :
        Denies(p) => pinged # None /\ now - pinged < MinimumPeriod]_vars
===============================================================================
