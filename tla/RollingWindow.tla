----------------------------- MODULE RollingWindow -----------------------------
(***************************************************************************)
(* The class RollingWindowRateLimiter of _rate_limiter.py with a path:     *)
(* processes share the times of the recent events in a JSON file, under a  *)
(* lock on a file beside it.  The file is replaced as a whole, so a crash  *)
(* before the replacement leaves the old times and one after it the new.   *)
(*                                                                         *)
(* The code appends to a list of times, filters it and takes its length,   *)
(* so the list is a set of stamps here.  Two events may have the same      *)
(* time: stamps are told apart by the number of their event.               *)
(***************************************************************************)
EXTENDS Integers, Sequences, FiniteSets

CONSTANTS
    Process,
    MaxEvents,          \* max_events
    Window,             \* window
    PingBound,          \* bound of this model: ping() is called while fewer
                        \* events are recorded
    MaxTime,            \* bound of this model on the clock
    None

ASSUME RollingWindowAssumption ==
    /\ MaxEvents \in Nat \ {0}
    /\ Window \in Nat
    /\ PingBound \in Nat
    /\ MaxTime \in Nat
    /\ None \notin Process

VARIABLES
    now,
    file,           \* the times in the file
    holder,         \* the process that holds the lock
    pc,
    timestamps,     \* timestamps of each process's limiter
    events          \* history: all events put on file, and whether the
                    \* limiter was asked or just told

vars == <<now, file, holder, pc, timestamps, events>>

Event == [at : 0..MaxTime, asked : BOOLEAN]

Stamp == [event : Nat, at : 0..MaxTime]

TypeOK ==
    /\ now \in 0..MaxTime
    /\ file \subseteq Stamp
    /\ holder \in Process \cup {None}
    /\ pc \in [Process -> {"idle", "granting", "pinging", "replaced"}]
    /\ timestamps \in [Process -> SUBSET Stamp]
    /\ events \in Seq(Event)

Init ==
    /\ now = 0
    /\ file = {}
    /\ holder = None
    /\ pc = [p \in Process |-> "idle"]
    /\ timestamps = [p \in Process |-> {}]
    /\ events = <<>>

-------------------------------------------------------------------------------
Goto(p, to) == pc' = [pc EXCEPT ![p] = to]

\* _prune_timestamps, for the clock as it stands under the lock.
Recent == {stamp \in file : stamp.at > now - Window}

\* Mutant: one event too many.
HasCapacityForOneMore == Cardinality(Recent) <= MaxEvents

HasCapacity == Cardinality(Recent) < MaxEvents

\* What is appended at a time, for the event that is next.
StampAt(time) == [event |-> Len(events) + 1, at |-> time]

\* Mutant: the event is stored with the time it leaves the window.
BeginWithExpiry(p, asked) ==
    /\ pc[p] = "idle"
    /\ holder = None
    /\ holder' = p
    /\ timestamps' = [timestamps EXCEPT ![p] = Recent \cup {StampAt(now + Window)}]
    /\ Goto(p, IF asked THEN "granting" ELSE "pinging")
    /\ UNCHANGED <<now, file, events>>

\* Mutant: the times in memory are not refreshed.
BeginFromMemory(p, asked) ==
    /\ pc[p] = "idle"
    /\ holder = None
    /\ holder' = p
    /\ timestamps' = [timestamps EXCEPT ![p] = @ \cup {StampAt(now)}]
    /\ Goto(p, IF asked THEN "granting" ELSE "pinging")
    /\ UNCHANGED <<now, file, events>>

\* Under the lock: read the clock, refresh, prune, append the event.
Begin(p, asked) ==
    /\ pc[p] = "idle"
    /\ holder = None
    /\ holder' = p
    /\ timestamps' = [timestamps EXCEPT ![p] = Recent \cup {StampAt(now)}]
    /\ Goto(p, IF asked THEN "granting" ELSE "pinging")
    /\ UNCHANGED <<now, file, events>>

PingIfReady(p) == HasCapacity /\ Begin(p, TRUE)

\* ping() does not ask for capacity.
Ping(p) == Len(events) < PingBound /\ Begin(p, FALSE)

Deny(p) ==
    /\ pc[p] = "idle"
    /\ holder = None
    /\ ~HasCapacity
    /\ timestamps' = [timestamps EXCEPT ![p] = Recent]
    /\ UNCHANGED <<now, file, holder, pc, events>>

\* is_ready(): refresh and prune under the lock, and record nothing.
IsReady(p) ==
    /\ pc[p] = "idle"
    /\ holder = None
    /\ timestamps' = [timestamps EXCEPT ![p] = Recent]
    /\ UNCHANGED <<now, file, holder, pc, events>>

\* os.replace.
Replace(p) ==
    /\ pc[p] \in {"granting", "pinging"}
    /\ file' = timestamps[p]
    /\ \E stamp \in timestamps[p] :
        /\ stamp.event = Len(events) + 1
        /\ events' = Append(events, [at |-> stamp.at, asked |-> pc[p] = "granting"])
    /\ Goto(p, "replaced")
    /\ UNCHANGED <<now, holder, timestamps>>

\* Unlock and report the event as granted.
Grant(p) ==
    /\ pc[p] = "replaced"
    /\ holder' = None
    /\ Goto(p, "idle")
    /\ UNCHANGED <<now, file, timestamps, events>>

\* The temporary file cannot be written, or the process crashes.
Fail(p) ==
    /\ pc[p] # "idle"
    /\ holder' = None
    /\ Goto(p, "idle")
    /\ UNCHANGED <<now, file, timestamps, events>>

Tick ==
    /\ now < MaxTime
    /\ now' = now + 1
    /\ UNCHANGED <<file, holder, pc, timestamps, events>>

Next ==
    \/ \E p \in Process :
        \/ PingIfReady(p) \/ Ping(p) \/ Deny(p) \/ IsReady(p)
        \/ Replace(p) \/ Grant(p) \/ Fail(p)
    \/ Tick

Spec == Init /\ [][Next]_vars

-------------------------------------------------------------------------------
(* An event that was asked for is granted only if fewer than max_events    *)
(* events, granted or just reported by whichever process, lie in the       *)
(* window that it ends -- wherever one of the processes crashed.           *)
WindowHolds ==
    \A i \in DOMAIN events :
        events[i].asked =>
            Cardinality({j \in 1..i - 1 : events[j].at > events[i].at - Window})
                < MaxEvents

(* The file forgets no event that is still in the window: pruning by one   *)
(* process's clock reading costs no other process its count.               *)
NothingForgotten ==
    \A i \in DOMAIN events :
        events[i].at > now - Window => [event |-> i, at |-> events[i].at] \in file
===============================================================================
