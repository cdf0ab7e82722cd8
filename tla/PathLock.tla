------------------------------- MODULE PathLock -------------------------------
(***************************************************************************)
(* The lock on a file path of _lock.py, for one path: threads of several   *)
(* processes enter reentrant_exclusive_path_lock, possibly again while     *)
(* they are inside.  Each process keeps a registry with one state object   *)
(* for the path, made by the first thread that needs it and dropped by the *)
(* last; its RLock orders the threads of the process, and the flock on the *)
(* file, taken by the outermost entry only, orders the processes.          *)
(*                                                                         *)
(* A state object is dropped and another one made while other threads are  *)
(* on their way in or out, so two objects for one path are conceivable:    *)
(* objects are told apart here, and which object a thread works with is    *)
(* part of the state.                                                      *)
(***************************************************************************)
EXTENDS Naturals, Sequences, FiniteSets

CONSTANTS
    Thread, Process,
    ProcessOf,          \* the process of each thread
    Object,             \* identities of _ReentrantPathLockState objects
    MaxNesting,         \* bound of this model on nested entries
    None

ASSUME PathLockAssumption ==
    /\ IsFiniteSet(Thread)
    /\ ProcessOf \in [Thread -> Process]
    /\ MaxNesting \in Nat \ {0}
    /\ None \notin Object \cup Thread

VARIABLES
    registry,           \* _reentrant_path_lock_states[path] of each process
    owner,              \* object.lock: the thread that holds the RLock ...
    count,              \* ... and how often it has acquired it
    depth,              \* object.depth
    ref_count,          \* object.ref_count
    flock,              \* the thread whose file descriptor holds the flock
    frames,             \* the entries of each thread: object, outermost or not
    pc                  \* where each thread is in its innermost entry

objectVars == <<owner, count, depth, ref_count>>
vars == <<registry, objectVars, flock, frames, pc>>

Frame == [object : Object, outermost : BOOLEAN]

TypeOK ==
    /\ registry \in [Process -> Object \cup {None}]
    /\ owner \in [Object -> Thread \cup {None}]
    /\ count \in [Object -> 0..MaxNesting]
    /\ depth \in [Object -> 0..MaxNesting]
    /\ ref_count \in [Object -> 0..MaxNesting * Cardinality(Thread)]
    /\ flock \in Thread \cup {None}
    /\ frames \in [Thread -> Seq(Frame)]
    /\ pc \in [Thread -> {"out", "acquire", "check", "flock", "in", "reset",
                          "release", "unref"}]

Init ==
    /\ registry = [r \in Process |-> None]
    /\ owner = [o \in Object |-> None]
    /\ count = [o \in Object |-> 0]
    /\ depth = [o \in Object |-> 0]
    /\ ref_count = [o \in Object |-> 0]
    /\ flock = None
    /\ frames = [t \in Thread |-> <<>>]
    /\ pc = [t \in Thread |-> "out"]

-------------------------------------------------------------------------------
Goto(t, to) == pc' = [pc EXCEPT ![t] = to]

Innermost(t) == frames[t][Len(frames[t])]
ObjectOf(t) == Innermost(t).object

IsUnused(o) ==
    /\ \A r \in Process : registry[r] # o
    /\ \A t \in Thread : \A i \in DOMAIN frames[t] : frames[t][i].object # o

\* _get_reentrant_path_lock_state, under the guard of the registry: the
\* registered object, or a new one.
GetState(t) ==
    /\ pc[t] \in {"out", "in"}
    /\ Len(frames[t]) < MaxNesting
    /\ LET r == ProcessOf[t]
       IN  \E o \in Object :
             /\ IF registry[r] = None THEN IsUnused(o) ELSE o = registry[r]
             /\ registry' = [registry EXCEPT ![r] = o]
             /\ ref_count' = [ref_count EXCEPT ![o] = @ + 1]
             /\ frames' = [frames EXCEPT ![t] =
                             Append(@, [object |-> o, outermost |-> FALSE])]
    /\ Goto(t, "acquire")
    /\ UNCHANGED <<owner, count, depth, flock>>

\* Mutant: without the RLock.
AcquireNothing(t) ==
    /\ pc[t] = "acquire"
    /\ Goto(t, "check")
    /\ UNCHANGED <<registry, objectVars, flock, frames>>

\* state.lock.acquire(), an RLock.
Acquire(t) ==
    /\ pc[t] = "acquire"
    /\ owner[ObjectOf(t)] \in {None, t}
    /\ owner' = [owner EXCEPT ![ObjectOf(t)] = t]
    /\ count' = [count EXCEPT ![ObjectOf(t)] = @ + 1]
    /\ Goto(t, "check")
    /\ UNCHANGED <<registry, depth, ref_count, flock, frames>>

\* A nested entry only counts; the outermost one goes for the file.
EnterNested(t) ==
    /\ pc[t] = "check"
    /\ depth[ObjectOf(t)] > 0
    /\ depth' = [depth EXCEPT ![ObjectOf(t)] = @ + 1]
    /\ Goto(t, "in")
    /\ UNCHANGED <<registry, owner, count, ref_count, flock, frames>>

EnterOutermost(t) ==
    /\ pc[t] = "check"
    /\ depth[ObjectOf(t)] = 0
    /\ depth' = [depth EXCEPT ![ObjectOf(t)] = 1]
    /\ frames' = [frames EXCEPT ![t][Len(frames[t])].outermost = TRUE]
    /\ Goto(t, "flock")
    /\ UNCHANGED <<registry, owner, count, ref_count, flock>>

LockFile(t) ==
    /\ pc[t] = "flock"
    /\ flock = None
    /\ flock' = t
    /\ Goto(t, "in")
    /\ UNCHANGED <<registry, objectVars, frames>>

\* The file cannot be opened; the finally clauses run.
LockFileFails(t) ==
    /\ pc[t] = "flock"
    /\ Goto(t, "reset")
    /\ UNCHANGED <<registry, objectVars, flock, frames>>

LeaveNested(t) ==
    /\ pc[t] = "in"
    /\ ~Innermost(t).outermost
    /\ depth' = [depth EXCEPT ![ObjectOf(t)] = @ - 1]
    /\ Goto(t, "release")
    /\ UNCHANGED <<registry, owner, count, ref_count, flock, frames>>

\* Mutant: the file stays locked.
UnlockFileNot(t) ==
    /\ pc[t] = "in"
    /\ Innermost(t).outermost
    /\ Goto(t, "reset")
    /\ UNCHANGED <<registry, objectVars, flock, frames>>

UnlockFile(t) ==
    /\ pc[t] = "in"
    /\ Innermost(t).outermost
    /\ flock' = None
    /\ Goto(t, "reset")
    /\ UNCHANGED <<registry, objectVars, frames>>

ResetDepth(t) ==
    /\ pc[t] = "reset"
    /\ depth' = [depth EXCEPT ![ObjectOf(t)] = 0]
    /\ Goto(t, "release")
    /\ UNCHANGED <<registry, owner, count, ref_count, flock, frames>>

\* Mutant: the RLock's count is not lowered.
ReleaseUncounted(t) ==
    /\ pc[t] = "release"
    /\ owner' = [owner EXCEPT ![ObjectOf(t)] =
                   IF depth[ObjectOf(t)] = 0 THEN None ELSE @]
    /\ Goto(t, "unref")
    /\ UNCHANGED <<registry, count, depth, ref_count, flock, frames>>

Release(t) ==
    /\ pc[t] = "release"
    /\ count' = [count EXCEPT ![ObjectOf(t)] = @ - 1]
    /\ owner' = [owner EXCEPT ![ObjectOf(t)] =
                   IF count[ObjectOf(t)] = 1 THEN None ELSE @]
    /\ Goto(t, "unref")
    /\ UNCHANGED <<registry, depth, ref_count, flock, frames>>

\* Mutant: the object is dropped though other threads use it.
ReleaseStateEagerly(t) ==
    /\ pc[t] = "unref"
    /\ ref_count' = [ref_count EXCEPT ![ObjectOf(t)] = @ - 1]
    /\ registry' = [registry EXCEPT ![ProcessOf[t]] = None]
    /\ frames' = [frames EXCEPT ![t] = SubSeq(@, 1, Len(@) - 1)]
    /\ Goto(t, IF Len(frames[t]) > 1 THEN "in" ELSE "out")
    /\ UNCHANGED <<owner, count, depth, flock>>

\* _release_reentrant_path_lock_state, under the guard of the registry.
ReleaseState(t) ==
    /\ pc[t] = "unref"
    /\ LET o == ObjectOf(t)
       IN  /\ ref_count' = [ref_count EXCEPT ![o] = @ - 1]
           /\ registry' = IF ref_count[o] = 1
                          THEN [registry EXCEPT ![ProcessOf[t]] = None]
                          ELSE registry
    /\ frames' = [frames EXCEPT ![t] = SubSeq(@, 1, Len(@) - 1)]
    /\ Goto(t, IF Len(frames[t]) > 1 THEN "in" ELSE "out")
    /\ UNCHANGED <<owner, count, depth, flock>>

\* A process is killed: its memory is gone, its flock is released.
Kill(r) ==
    LET dead == {t \in Thread : ProcessOf[t] = r}
        lost == {o \in Object : \E t \in dead : \E i \in DOMAIN frames[t] :
                                   frames[t][i].object = o}
        Blank(f) == [o \in Object |-> IF o \in lost THEN 0 ELSE f[o]]
    IN  /\ \E t \in dead : pc[t] # "out"
        /\ registry' = [registry EXCEPT ![r] = None]
        /\ owner' = [o \in Object |-> IF o \in lost THEN None ELSE owner[o]]
        /\ count' = Blank(count)
        /\ depth' = Blank(depth)
        /\ ref_count' = Blank(ref_count)
        /\ flock' = IF flock \in dead THEN None ELSE flock
        /\ frames' = [t \in Thread |-> IF t \in dead THEN <<>> ELSE frames[t]]
        /\ pc' = [t \in Thread |-> IF t \in dead THEN "out" ELSE pc[t]]

-------------------------------------------------------------------------------
GetIn(t) ==
    Acquire(t) \/ EnterNested(t) \/ EnterOutermost(t)

GetOut(t) ==
    \/ LeaveNested(t) \/ UnlockFile(t) \/ ResetDepth(t) \/ Release(t)
    \/ ReleaseState(t)

Next ==
    \/ \E t \in Thread :
        GetState(t) \/ GetIn(t) \/ LockFile(t) \/ LockFileFails(t) \/ GetOut(t)
    \/ \E r \in Process : Kill(r)

Spec == Init /\ [][Next]_vars

\* Threads go on with what they are able to do, and the system gives a free
\* flock to one of the threads that wait for it, not to each of them.
FairSpec ==
    /\ Spec
    /\ \A t \in Thread : WF_vars(GetIn(t)) /\ WF_vars(GetOut(t))
    /\ WF_vars(\E t \in Thread : LockFile(t))

-------------------------------------------------------------------------------
Inside(t) == \E i \in DOMAIN frames[t] : i < Len(frames[t]) \/ pc[t] = "in"

(* A thread never waits for a file lock that its own process holds: a      *)
(* nested entry would then wait for itself, for ever.                      *)
NoSelfDeadlock ==
    \A t, u \in Thread :
        pc[t] = "flock" /\ flock = u => ProcessOf[t] # ProcessOf[u]

(* The threads of a process that are in, or on their way in or out, all    *)
(* use the registered object, and the registry keeps it exactly as long.   *)
OneObjectPerProcess ==
    \A r \in Process :
        LET used == {o \in Object : \E t \in Thread : ProcessOf[t] = r
                        /\ \E i \in DOMAIN frames[t] : frames[t][i].object = o}
        IN  used = {registry[r]} \ {None}

(* The file lock is never left behind: whenever a thread waits for it,     *)
(* some thread gets inside.                                                *)
LockIsPassedOn ==
    (\E t \in Thread : pc[t] = "flock")
        ~> (\E t \in Thread : Inside(t)) \/ (\A t \in Thread : pc[t] # "flock")

-------------------------------------------------------------------------------
Inner == INSTANCE Mutex WITH holders <- {t \in Thread : Inside(t)}

(* To its users the whole construction is a mutex, while others create,    *)
(* share and drop the state objects that keep them apart: one thread of    *)
(* all processes is inside, nested or not; it gets in only when nobody is, *)
(* and only its own way out, or the end of its process, lets it out.       *)
IsMutex == Inner!MutexSpec
===============================================================================
