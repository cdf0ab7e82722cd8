---------------------------- MODULE PathLockProofs ----------------------------
(***************************************************************************)
(* Proofs about the path locks, for any finite number of threads, any      *)
(* processes, nesting and object identities.  The argument is an account   *)
(* of each thread's way through its entries: how often it has acquired the *)
(* RLock, how many entries it has counted, and whether it is inside, all   *)
(* follow from the number of its frames and its place in the innermost     *)
(* one; the state objects and the file lock agree with that account.       *)
(***************************************************************************)
EXTENDS PathLock, FiniteSetTheorems, SequenceTheorems, TLAPS

N(t) == Len(frames[t])

\* How often a thread has acquired its RLock, and counted itself in.
Acquired(t) == IF pc[t] \in {"acquire", "unref"} THEN N(t) - 1 ELSE N(t)
Counted(t) ==
    IF pc[t] \in {"acquire", "check", "release", "unref"} THEN N(t) - 1 ELSE N(t)

\* The entries that work with an object.
Uses(o) ==
    {use \in Thread \X (1..MaxNesting) :
        /\ use[2] \in DOMAIN frames[use[1]]
        /\ frames[use[1]][use[2]].object = o}

TypeInv ==
    /\ registry \in [Process -> Object \cup {None}]
    /\ owner \in [Object -> Thread \cup {None}]
    /\ count \in [Object -> Int]
    /\ depth \in [Object -> Int]
    /\ ref_count \in [Object -> Int]
    /\ flock \in Thread \cup {None}
    /\ frames \in [Thread -> Seq(Frame)]
    /\ pc \in [Thread -> {"out", "acquire", "check", "flock", "in", "reset",
                          "release", "unref"}]

(* Only the first entry of a thread is outermost, once it has got so far.  *)
ShapeInv ==
    \A t \in Thread :
        /\ N(t) <= MaxNesting
        /\ pc[t] = "out" <=> N(t) = 0
        /\ pc[t] \in {"flock", "reset"} => N(t) = 1
        /\ \A i \in 1..N(t) :
            frames[t][i].outermost <=>
                i = 1 /\ ~(N(t) = 1 /\ pc[t] \in {"acquire", "check"})

(* All entries of a process work with its registered object, no two        *)
(* processes register the same one, and it is registered while it is used. *)
ObjectInv ==
    /\ \A t \in Thread : \A i \in 1..N(t) : frames[t][i].object = registry[ProcessOf[t]]
    /\ \A r, q \in Process : registry[r] # None /\ registry[r] = registry[q] => r = q
    /\ \A r \in Process : registry[r] # None => \E t \in Thread : ProcessOf[t] = r /\ N(t) > 0

(* References are counted.                                                 *)
RefInv == \A o \in Object : ref_count[o] = Cardinality(Uses(o))

(* The RLock is owned by the one thread of its process that has acquired   *)
(* it, as often as that thread has.                                        *)
OwnerInv ==
    /\ \A o \in Object :
        /\ owner[o] = None => count[o] = 0 /\ depth[o] = 0
        /\ \A t \in Thread : owner[o] = t =>
            /\ Acquired(t) > 0
            /\ registry[ProcessOf[t]] = o
            /\ count[o] = Acquired(t)
            /\ depth[o] = Counted(t)
    /\ \A t \in Thread : Acquired(t) > 0 => owner[registry[ProcessOf[t]]] = t

(* The thread that is inside holds the file lock.                          *)
FlockInv == \A t \in Thread : flock = t <=> N(t) > 1 \/ pc[t] = "in"

LockInv == TypeInv /\ ShapeInv /\ ObjectInv /\ RefInv /\ OwnerInv /\ FlockInv

-------------------------------------------------------------------------------
(* What the inductive invariant says of one thread.                        *)

LEMMA EntriesAreFrames ==
    ASSUME TypeInv, NEW t \in Thread
    PROVE  /\ N(t) \in Nat /\ DOMAIN frames[t] = 1..N(t)
           /\ \A i \in 1..N(t) : frames[t][i] \in Frame
           /\ N(t) > 0 => /\ Innermost(t) = frames[t][N(t)]
                          /\ ObjectOf(t) \in Object
<1>1. frames[t] \in Seq(Frame)
  BY DEF TypeInv
<1>2. N(t) \in Nat /\ DOMAIN frames[t] = 1..N(t)
  BY <1>1 DEF N
<1>3. \A i \in 1..N(t) : frames[t][i] \in Frame
  BY <1>1 DEF N
<1> QED
  BY <1>2, <1>3 DEF Innermost, ObjectOf, Frame, N

LEMMA OwnObject ==
    ASSUME LockInv, NEW t \in Thread, N(t) > 0
    PROVE  /\ ObjectOf(t) = registry[ProcessOf[t]]
           /\ ObjectOf(t) \in Object
           /\ Acquired(t) > 0 =>
                /\ owner[ObjectOf(t)] = t
                /\ count[ObjectOf(t)] = Acquired(t)
                /\ depth[ObjectOf(t)] = Counted(t)
<1>1. N(t) \in Nat /\ ObjectOf(t) = frames[t][N(t)].object /\ ObjectOf(t) \in Object
  BY EntriesAreFrames DEF LockInv, ObjectOf
<1>2. ObjectOf(t) = registry[ProcessOf[t]]
  BY <1>1 DEF LockInv, ObjectInv
<1>3. t # None
  BY PathLockAssumption
<1> QED
  BY <1>1, <1>2, <1>3 DEF LockInv, OwnerInv

-------------------------------------------------------------------------------
(* Steps that leave the entries as they are.                               *)

SameEntries ==
    \A u \in Thread :
        /\ N(u)' = N(u)
        /\ \A i \in 1..N(u) : frames'[u][i].object = frames[u][i].object

LEMMA SameEntriesKeep ==
    ASSUME LockInv, TypeInv', SameEntries, UNCHANGED <<registry, ref_count>>
    PROVE  ObjectInv' /\ RefInv'
<1>1. ObjectInv'
  <2>1. \A u \in Thread : N(u) \in Nat
    BY EntriesAreFrames DEF LockInv
  <2> QED
    BY <2>1 DEF LockInv, ObjectInv, SameEntries
<1>2. \A u \in Thread : DOMAIN frames[u] = 1..N(u) /\ DOMAIN frames'[u] = 1..N(u)
  <2>1. \A u \in Thread : frames[u] \in Seq(Frame) /\ frames'[u] \in Seq(Frame)
    BY DEF LockInv, TypeInv
  <2> QED
    BY <2>1 DEF SameEntries, N
<1>3. \A o : Uses(o)' = Uses(o)
  BY <1>2 DEF Uses, SameEntries
<1> QED
  BY <1>1, <1>3 DEF LockInv, RefInv

\* One thread moves, and the account of its own object follows.
LEMMA OwnerFollows ==
    ASSUME LockInv, NEW t \in Thread, N(t) > 0,
           \A u \in Thread \ {t} : Acquired(u)' = Acquired(u) /\ Counted(u)' = Counted(u),
           registry' = registry,
           NEW o, o = registry[ProcessOf[t]],
           owner[o] \in {None, t},
           \A p \in Object \ {o} :
                owner'[p] = owner[p] /\ count'[p] = count[p] /\ depth'[p] = depth[p],
           Acquired(t)' \in Nat,
           IF Acquired(t)' > 0
           THEN owner'[o] = t /\ count'[o] = Acquired(t)' /\ depth'[o] = Counted(t)'
           ELSE owner'[o] = None /\ count'[o] = 0 /\ depth'[o] = 0
    PROVE  OwnerInv'
<1>1. \A u \in Thread : u # None /\ ProcessOf[u] \in Process
  BY PathLockAssumption
<1>2. ASSUME NEW p \in Object
      PROVE  /\ owner'[p] = None => count'[p] = 0 /\ depth'[p] = 0
             /\ \A u \in Thread : owner'[p] = u =>
                 /\ Acquired(u)' > 0
                 /\ registry'[ProcessOf[u]] = p
                 /\ count'[p] = Acquired(u)'
                 /\ depth'[p] = Counted(u)'
  <2>1. CASE p = o
    BY <2>1, <1>1
  <2>2. CASE p # o
    <3>1. owner'[p] = owner[p] /\ count'[p] = count[p] /\ depth'[p] = depth[p]
      BY <2>2
    <3>2. owner[p] # t
      BY <2>2 DEF LockInv, OwnerInv
    <3> QED
      BY <3>1, <3>2 DEF LockInv, OwnerInv
  <2> QED
    BY <2>1, <2>2
<1>3. ASSUME NEW u \in Thread, Acquired(u)' > 0
      PROVE  owner'[registry'[ProcessOf[u]]] = u
  <2>1. CASE u = t
    BY <1>3, <2>1
  <2>2. CASE u # t
    <3>1. Acquired(u) > 0 /\ owner[registry[ProcessOf[u]]] = u
      BY <1>3, <2>2 DEF LockInv, OwnerInv
    <3>2. registry[ProcessOf[u]] \in Object
      <4>1. N(u) > 0 /\ N(u) \in Nat
        BY <3>1, EntriesAreFrames DEF LockInv, Acquired
      <4> QED
        BY <4>1, OwnObject
    <3>3. registry[ProcessOf[u]] # o
      BY <2>2, <3>1, <1>1
    <3> QED
      BY <3>1, <3>2, <3>3
  <2> QED
    BY <2>1, <2>2
<1> QED
  BY <1>2, <1>3 DEF OwnerInv

Places == {"out", "acquire", "check", "flock", "in", "reset", "release", "unref"}

LEMMA OneMoves ==
    ASSUME TypeInv, NEW t \in Thread, NEW to \in Places, Goto(t, to), SameEntries
    PROVE  /\ pc' \in [Thread -> Places] /\ pc'[t] = to
           /\ \A u \in Thread \ {t} : pc'[u] = pc[u]
           /\ Acquired(t)' = IF to \in {"acquire", "unref"} THEN N(t) - 1 ELSE N(t)
           /\ Counted(t)' = IF to \in {"acquire", "check", "release", "unref"}
                            THEN N(t) - 1 ELSE N(t)
           /\ \A u \in Thread \ {t} : Acquired(u)' = Acquired(u) /\ Counted(u)' = Counted(u)
<1>1. pc \in [Thread -> Places]
  BY DEF TypeInv, Places
<1>2. pc' = [pc EXCEPT ![t] = to]
  BY DEF Goto
<1>3. pc' \in [Thread -> Places] /\ pc'[t] = to /\ \A u \in Thread \ {t} : pc'[u] = pc[u]
  BY <1>1, <1>2
<1>4. \A u \in Thread : N(u)' = N(u)
  BY DEF SameEntries
<1> QED
  BY <1>3, <1>4 DEF Acquired, Counted

LEMMA FramesAsBefore ==
    ASSUME frames' = frames
    PROVE  SameEntries
BY DEF SameEntries, N

LEMMA AcquireStep ==
    ASSUME LockInv, NEW t \in Thread, Acquire(t)
    PROVE  LockInv'
<1> DEFINE o == ObjectOf(t)
<1>1. pc[t] = "acquire" /\ N(t) > 0 /\ N(t) \in Nat
  BY EntriesAreFrames DEF LockInv, ShapeInv, Acquire
<1>2. o = registry[ProcessOf[t]] /\ o \in Object
  BY <1>1, OwnObject
<1>3. /\ Goto(t, "check") /\ SameEntries /\ frames' = frames /\ flock' = flock
      /\ UNCHANGED <<registry, ref_count, depth>>
      /\ owner[o] \in {None, t}
      /\ owner' = [owner EXCEPT ![o] = t] /\ count' = [count EXCEPT ![o] = @ + 1]
  BY FramesAsBefore DEF Acquire
<1>4. /\ pc' \in [Thread -> Places] /\ pc'[t] = "check"
      /\ \A u \in Thread \ {t} : pc'[u] = pc[u]
      /\ Acquired(t)' = N(t) /\ Counted(t)' = N(t) - 1
      /\ \A u \in Thread \ {t} : Acquired(u)' = Acquired(u) /\ Counted(u)' = Counted(u)
  BY <1>3, OneMoves DEF LockInv, Places
<1>5. TypeInv'
  BY <1>2, <1>3, <1>4 DEF LockInv, TypeInv, Places
<1>6. ObjectInv' /\ RefInv'
  BY <1>3, <1>5, SameEntriesKeep
<1>7. ShapeInv' /\ FlockInv'
  BY <1>1, <1>3, <1>4 DEF LockInv, ShapeInv, FlockInv, N
<1>8. count[o] = N(t) - 1 /\ depth[o] = N(t) - 1
  <2>1. Acquired(t) = N(t) - 1 /\ Counted(t) = N(t) - 1
    BY <1>1 DEF Acquired, Counted
  <2>2. CASE owner[o] = t
    BY <1>2, <2>1, <2>2 DEF LockInv, OwnerInv
  <2>3. CASE owner[o] = None
    BY <1>1, <1>2, <2>1, <2>3, PathLockAssumption DEF LockInv, OwnerInv
  <2> QED
    BY <1>3, <2>2, <2>3
<1>9. owner'[o] = t /\ count'[o] = N(t) /\ depth'[o] = N(t) - 1
  BY <1>1, <1>2, <1>3, <1>8 DEF LockInv, TypeInv
<1>10. \A p \in Object \ {o} :
            owner'[p] = owner[p] /\ count'[p] = count[p] /\ depth'[p] = depth[p]
  BY <1>3 DEF LockInv, TypeInv
<1>11. OwnerInv'
  BY <1>1, <1>2, <1>3, <1>4, <1>9, <1>10, OwnerFollows
<1> QED
  BY <1>5, <1>6, <1>7, <1>11 DEF LockInv

\* A thread that owns its RLock goes from one place to another and changes
\* what is counted in its object.
LEMMA OwnerMoves ==
    ASSUME LockInv, NEW t \in Thread, NEW to \in Places \ {"acquire", "unref"},
           pc[t] \notin {"out", "acquire", "unref"}, Goto(t, to), SameEntries,
           registry' = registry, owner' = owner, count' = count,
           depth' \in [Object -> Int],
           \A p \in Object \ {ObjectOf(t)} : depth'[p] = depth[p],
           depth'[ObjectOf(t)] =
                IF to \in {"check", "release"} THEN N(t) - 1 ELSE N(t)
    PROVE  OwnerInv'
<1> DEFINE o == ObjectOf(t)
<1>1. N(t) \in Nat /\ N(t) > 0 /\ Acquired(t) = N(t)
  BY EntriesAreFrames DEF LockInv, ShapeInv, Acquired
<1>2. /\ o = registry[ProcessOf[t]] /\ o \in Object
      /\ owner[o] = t /\ count[o] = N(t)
  BY <1>1, OwnObject
<1>3. /\ Acquired(t)' = N(t) /\ Counted(t)' = depth'[o]
      /\ \A u \in Thread \ {t} : Acquired(u)' = Acquired(u) /\ Counted(u)' = Counted(u)
  BY OneMoves DEF LockInv
<1> HIDE DEF o
<1>4. \A p \in Object \ {o} :
            owner'[p] = owner[p] /\ count'[p] = count[p] /\ depth'[p] = depth[p]
  BY DEF o
<1> QED
  BY <1>1, <1>2, <1>3, <1>4, OwnerFollows

LEMMA EnterNestedStep ==
    ASSUME LockInv, NEW t \in Thread, EnterNested(t)
    PROVE  LockInv'
<1> DEFINE o == ObjectOf(t)
<1>1. pc[t] = "check" /\ N(t) > 0 /\ N(t) \in Nat
  BY EntriesAreFrames DEF LockInv, ShapeInv, EnterNested
<1>2. o \in Object /\ depth[o] = N(t) - 1 /\ depth[o] > 0
  BY <1>1, OwnObject DEF EnterNested, Acquired, Counted
<1>3. /\ Goto(t, "in") /\ SameEntries /\ frames' = frames /\ flock' = flock
      /\ UNCHANGED <<registry, ref_count, owner, count>>
      /\ depth' = [depth EXCEPT ![o] = @ + 1]
  BY FramesAsBefore DEF EnterNested
<1>4. pc' \in [Thread -> Places] /\ pc'[t] = "in" /\ \A u \in Thread \ {t} : pc'[u] = pc[u]
  BY <1>3, OneMoves DEF LockInv, Places
<1>5. TypeInv'
  BY <1>2, <1>3, <1>4 DEF LockInv, TypeInv, Places
<1>6. ObjectInv' /\ RefInv'
  BY <1>3, <1>5, SameEntriesKeep
<1>7. ShapeInv' /\ FlockInv'
  BY <1>1, <1>2, <1>3, <1>4 DEF LockInv, ShapeInv, FlockInv, N
<1>8. /\ depth'[o] = N(t) /\ depth' \in [Object -> Int]
      /\ \A p \in Object \ {o} : depth'[p] = depth[p]
  BY <1>1, <1>2, <1>3 DEF LockInv, TypeInv
<1>9. OwnerInv'
  BY <1>1, <1>3, <1>8, OwnerMoves DEF Places
<1> QED
  BY <1>5, <1>6, <1>7, <1>9 DEF LockInv

LEMMA MarkOutermost ==
    ASSUME NEW s \in Seq(Frame), Len(s) = 1
    PROVE  LET marked == [s EXCEPT ![1] = [s[1] EXCEPT !.outermost = TRUE]]
           IN  /\ marked \in Seq(Frame) /\ Len(marked) = 1
               /\ marked[1].object = s[1].object /\ marked[1].outermost = TRUE
<1> DEFINE top == [s[1] EXCEPT !.outermost = TRUE]
<1>1. s[1] \in Frame
  OBVIOUS
<1>2. top \in Frame /\ top.object = s[1].object /\ top.outermost = TRUE
  BY <1>1 DEF Frame
<1> HIDE DEF top
<1>3. [s EXCEPT ![1] = top] \in Seq(Frame) /\ Len([s EXCEPT ![1] = top]) = 1
      /\ [s EXCEPT ![1] = top][1] = top
  BY <1>2
<1> QED
  BY <1>2, <1>3 DEF top

LEMMA EnterOutermostStep ==
    ASSUME LockInv, NEW t \in Thread, EnterOutermost(t)
    PROVE  LockInv'
<1> DEFINE o == ObjectOf(t)
<1>1. pc[t] = "check" /\ N(t) > 0 /\ N(t) \in Nat
  BY EntriesAreFrames DEF LockInv, ShapeInv, EnterOutermost
<1>2. o \in Object /\ depth[o] = 0 /\ N(t) = 1
  BY <1>1, OwnObject DEF EnterOutermost, Acquired, Counted
<1>3. /\ Goto(t, "flock") /\ flock' = flock
      /\ UNCHANGED <<registry, ref_count, owner, count>>
      /\ depth' = [depth EXCEPT ![o] = 1]
      /\ frames' = [frames EXCEPT ![t][N(t)].outermost = TRUE]
  BY DEF EnterOutermost, N
<1>4. /\ frames' \in [Thread -> Seq(Frame)]
      /\ \A u \in Thread \ {t} : frames'[u] = frames[u]
      /\ Len(frames'[t]) = N(t) /\ frames'[t][1].object = frames[t][1].object
      /\ frames'[t][1].outermost = TRUE
  <2> DEFINE marked == [frames[t] EXCEPT ![1] = [frames[t][1] EXCEPT !.outermost = TRUE]]
  <2>1. frames' = [frames EXCEPT ![t] = marked]
    BY <1>2, <1>3
  <2>2. frames[t] \in Seq(Frame) /\ Len(frames[t]) = 1
    BY <1>2 DEF LockInv, TypeInv, N
  <2>3. /\ marked \in Seq(Frame) /\ Len(marked) = 1
        /\ marked[1].object = frames[t][1].object /\ marked[1].outermost = TRUE
    BY <2>2, MarkOutermost
  <2> HIDE DEF marked
  <2> QED
    BY <1>2, <2>1, <2>3 DEF LockInv, TypeInv
<1>5. SameEntries
  BY <1>2, <1>4 DEF SameEntries, N
<1>6. pc' \in [Thread -> Places] /\ pc'[t] = "flock" /\ \A u \in Thread \ {t} : pc'[u] = pc[u]
  BY <1>3, <1>5, OneMoves DEF LockInv, Places
<1>7. TypeInv'
  BY <1>2, <1>3, <1>4, <1>6 DEF LockInv, TypeInv, Places
<1>8. ObjectInv' /\ RefInv'
  BY <1>3, <1>5, <1>7, SameEntriesKeep
<1>9. ShapeInv' /\ FlockInv'
  <2>1. \A u \in Thread : N(u)' = N(u)
    BY <1>5 DEF SameEntries
  <2>2. FlockInv'
    BY <1>1, <1>2, <1>3, <1>6, <2>1 DEF LockInv, FlockInv
  <2>3. /\ \A i \in 1..N(t) : frames'[t][i].outermost <=> i = 1
        /\ \A u \in Thread \ {t} : \A i \in 1..N(u) :
                frames'[u][i].outermost = frames[u][i].outermost
    BY <1>2, <1>4
  <2>4. ShapeInv'
    BY <1>2, <1>6, <2>1, <2>3, PathLockAssumption DEF LockInv, ShapeInv
  <2> QED
    BY <2>2, <2>4
<1>10. /\ depth'[o] = N(t) /\ depth' \in [Object -> Int]
       /\ \A p \in Object \ {o} : depth'[p] = depth[p]
  BY <1>1, <1>2, <1>3 DEF LockInv, TypeInv
<1>11. OwnerInv'
  BY <1>1, <1>3, <1>5, <1>10, OwnerMoves DEF Places
<1> QED
  BY <1>7, <1>8, <1>9, <1>11 DEF LockInv

\* The file is locked, cannot be locked, or is unlocked: the object is left
\* alone.
LEMMA FileStep ==
    ASSUME LockInv, NEW t \in Thread, LockFile(t) \/ LockFileFails(t) \/ UnlockFile(t)
    PROVE  LockInv'
<1> DEFINE o == ObjectOf(t)
<1>1. /\ pc[t] \in {"flock", "in"} /\ N(t) > 0 /\ N(t) \in Nat
  BY EntriesAreFrames DEF LockInv, ShapeInv, LockFile, LockFileFails, UnlockFile
<1>2. o \in Object /\ depth[o] = N(t)
  BY <1>1, OwnObject DEF Acquired, Counted
<1>3. N(t) = 1
  <2>1. CASE pc[t] = "flock"
    BY <2>1 DEF LockInv, ShapeInv
  <2>2. CASE UnlockFile(t)
    <3>1. frames[t][N(t)].outermost /\ N(t) \in 1..N(t)
      BY <1>1, <2>2, EntriesAreFrames DEF UnlockFile, LockInv
    <3> QED
      BY <3>1 DEF LockInv, ShapeInv
  <2> QED
    BY <2>1, <2>2 DEF LockFile, LockFileFails
<1>4. /\ SameEntries /\ frames' = frames
      /\ UNCHANGED <<registry, ref_count, owner, count, depth>>
  BY FramesAsBefore DEF LockFile, LockFileFails, UnlockFile, objectVars
<1>5. PICK to \in {"in", "reset"} :
        /\ Goto(t, to)
        /\ \/ to = "in" /\ flock = None /\ flock' = t
           \/ to = "reset" /\ pc[t] = "flock" /\ flock' = flock
           \/ to = "reset" /\ pc[t] = "in" /\ flock' = None
  BY DEF LockFile, LockFileFails, UnlockFile
<1>6. pc' \in [Thread -> Places] /\ pc'[t] = to /\ \A u \in Thread \ {t} : pc'[u] = pc[u]
  BY <1>4, <1>5, OneMoves DEF LockInv, Places
<1>7. TypeInv'
  BY <1>4, <1>5, <1>6 DEF LockInv, TypeInv, Places
<1>8. ObjectInv' /\ RefInv'
  BY <1>4, <1>7, SameEntriesKeep
<1>9. ShapeInv'
  BY <1>1, <1>3, <1>4, <1>5, <1>6 DEF LockInv, ShapeInv, N
<1>10. FlockInv'
  <2>1. \A u \in Thread : N(u)' = N(u)
    BY <1>4 DEF SameEntries
  <2>2. None \notin Thread
    BY PathLockAssumption
  <2> QED
    BY <1>3, <1>5, <1>6, <2>1, <2>2 DEF LockInv, FlockInv
<1>11. OwnerInv'
  BY <1>1, <1>2, <1>4, <1>5, OwnerMoves DEF Places, LockInv, TypeInv
<1> QED
  BY <1>7, <1>8, <1>9, <1>10, <1>11 DEF LockInv

LEMMA UncountStep ==
    ASSUME LockInv, NEW t \in Thread, LeaveNested(t) \/ ResetDepth(t)
    PROVE  LockInv'
<1> DEFINE o == ObjectOf(t)
<1>1. /\ pc[t] \in {"in", "reset"} /\ N(t) > 0 /\ N(t) \in Nat
      /\ pc[t] = "reset" => N(t) = 1
  BY EntriesAreFrames DEF LockInv, ShapeInv, LeaveNested, ResetDepth
<1>2. o \in Object /\ depth[o] = N(t)
  BY <1>1, OwnObject DEF Acquired, Counted
<1>3. pc[t] = "in" => N(t) > 1
  BY <1>1, EntriesAreFrames DEF LockInv, ShapeInv, LeaveNested, ResetDepth
<1>4. /\ Goto(t, "release") /\ SameEntries /\ frames' = frames /\ flock' = flock
      /\ UNCHANGED <<registry, ref_count, owner, count>>
  BY FramesAsBefore DEF LeaveNested, ResetDepth
<1>5. pc' \in [Thread -> Places] /\ pc'[t] = "release" /\ \A u \in Thread \ {t} : pc'[u] = pc[u]
  BY <1>4, OneMoves DEF LockInv, Places
<1>6. depth' = [depth EXCEPT ![o] = N(t) - 1]
  <2>1. CASE LeaveNested(t)
    BY <1>2, <2>1 DEF LeaveNested, LockInv, TypeInv
  <2>2. CASE ResetDepth(t)
    BY <1>1, <2>2 DEF ResetDepth
  <2> QED
    BY <2>1, <2>2
<1>7. /\ depth' \in [Object -> Int] /\ depth'[o] = N(t) - 1
      /\ \A p \in Object \ {o} : depth'[p] = depth[p]
  BY <1>1, <1>2, <1>6 DEF LockInv, TypeInv
<1>8. TypeInv'
  BY <1>4, <1>5, <1>7 DEF LockInv, TypeInv, Places
<1>9. ObjectInv' /\ RefInv'
  BY <1>4, <1>8, SameEntriesKeep
<1>10. ShapeInv' /\ FlockInv'
  BY <1>1, <1>3, <1>4, <1>5 DEF LockInv, ShapeInv, FlockInv, N
<1>11. OwnerInv'
  BY <1>1, <1>4, <1>7, OwnerMoves DEF Places
<1> QED
  BY <1>8, <1>9, <1>10, <1>11 DEF LockInv

LEMMA ReleaseStep ==
    ASSUME LockInv, NEW t \in Thread, Release(t)
    PROVE  LockInv'
<1> DEFINE o == ObjectOf(t)
<1>1. pc[t] = "release" /\ N(t) > 0 /\ N(t) \in Nat
  BY EntriesAreFrames DEF LockInv, ShapeInv, Release
<1>2. /\ o \in Object /\ o = registry[ProcessOf[t]]
      /\ owner[o] = t /\ count[o] = N(t) /\ depth[o] = N(t) - 1
  BY <1>1, OwnObject DEF Acquired, Counted
<1>3. /\ Goto(t, "unref") /\ SameEntries /\ frames' = frames /\ flock' = flock
      /\ UNCHANGED <<registry, ref_count, depth>>
      /\ count' = [count EXCEPT ![o] = @ - 1]
      /\ owner' = [owner EXCEPT ![o] = IF count[o] = 1 THEN None ELSE @]
  BY FramesAsBefore DEF Release
<1>4. /\ pc' \in [Thread -> Places] /\ pc'[t] = "unref"
      /\ \A u \in Thread \ {t} : pc'[u] = pc[u]
      /\ Acquired(t)' = N(t) - 1 /\ Counted(t)' = N(t) - 1
      /\ \A u \in Thread \ {t} : Acquired(u)' = Acquired(u) /\ Counted(u)' = Counted(u)
  BY <1>3, OneMoves DEF LockInv, Places
<1>5. TypeInv'
  BY <1>2, <1>3, <1>4 DEF LockInv, TypeInv, Places
<1>6. ObjectInv' /\ RefInv'
  BY <1>3, <1>5, SameEntriesKeep
<1>7. ShapeInv' /\ FlockInv'
  BY <1>1, <1>3, <1>4 DEF LockInv, ShapeInv, FlockInv, N
<1>8. /\ owner'[o] = IF N(t) = 1 THEN None ELSE t
      /\ count'[o] = N(t) - 1 /\ depth'[o] = N(t) - 1
  BY <1>1, <1>2, <1>3 DEF LockInv, TypeInv
<1>9. \A p \in Object \ {o} :
            owner'[p] = owner[p] /\ count'[p] = count[p] /\ depth'[p] = depth[p]
  BY <1>3 DEF LockInv, TypeInv
<1>10. OwnerInv'
  BY <1>1, <1>2, <1>3, <1>4, <1>8, <1>9, OwnerFollows
<1> QED
  BY <1>5, <1>6, <1>7, <1>10 DEF LockInv

-------------------------------------------------------------------------------
(* Steps that begin or end an entry.                                       *)

LEMMA UsesAreFinite ==
    ASSUME NEW S \in SUBSET (Thread \X (1..MaxNesting))
    PROVE  /\ IsFiniteSet(S) /\ Cardinality(S) \in Nat
           /\ Cardinality(S) <= MaxNesting * Cardinality(Thread)
<1>1. IsFiniteSet(1..MaxNesting) /\ Cardinality(1..MaxNesting) = MaxNesting
  BY FS_Interval, PathLockAssumption
<1>2. /\ IsFiniteSet(Thread \X (1..MaxNesting))
      /\ Cardinality(Thread \X (1..MaxNesting)) = Cardinality(Thread) * MaxNesting
  BY <1>1, FS_Product, PathLockAssumption
<1>3. IsFiniteSet(S) /\ Cardinality(S) <= Cardinality(Thread) * MaxNesting
  BY <1>2, FS_Subset
<1>4. Cardinality(S) \in Nat /\ Cardinality(Thread) \in Nat
  BY <1>3, FS_CardinalityType, PathLockAssumption
<1>5. Cardinality(Thread) * MaxNesting = MaxNesting * Cardinality(Thread)
  BY <1>4, PathLockAssumption
<1> QED
  BY <1>3, <1>4, <1>5

\* Nobody of a process without a registered object has begun an entry.
LEMMA RegisteredIfUsed ==
    ASSUME LockInv, NEW t \in Thread, registry[ProcessOf[t]] = None
    PROVE  N(t) = 0
<1>1. N(t) \in Nat /\ (N(t) > 0 => registry[ProcessOf[t]] \in Object)
  BY EntriesAreFrames, OwnObject DEF LockInv
<1> QED
  BY <1>1, PathLockAssumption

\* Entries are begun and ended in "out" and "in", and only by the thread: the
\* account of what it holds does not change.
LEMMA AccountKept ==
    ASSUME LockInv, registry' \in [Process -> Object \cup {None}],
           UNCHANGED <<owner, count, depth>>,
           \A u \in Thread : Acquired(u)' = Acquired(u) /\ Counted(u)' = Counted(u),
           \A u \in Thread : Acquired(u) > 0 =>
                registry'[ProcessOf[u]] = registry[ProcessOf[u]]
    PROVE  OwnerInv'
BY DEF LockInv, OwnerInv

LEMMA GetStateStep ==
    ASSUME LockInv, NEW t \in Thread, GetState(t)
    PROVE  LockInv'
<1> DEFINE r == ProcessOf[t]
<1>1. /\ pc[t] \in {"out", "in"} /\ N(t) < MaxNesting /\ N(t) \in Nat
      /\ Acquired(t) = N(t) /\ Counted(t) = N(t)
  BY EntriesAreFrames DEF LockInv, GetState, Acquired, Counted, N
<1>2. PICK o \in Object :
        /\ IF registry[r] = None THEN IsUnused(o) ELSE o = registry[r]
        /\ registry' = [registry EXCEPT ![r] = o]
        /\ ref_count' = [ref_count EXCEPT ![o] = @ + 1]
        /\ frames' = [frames EXCEPT ![t] = Append(@, [object |-> o, outermost |-> FALSE])]
  BY DEF GetState
<1> DEFINE new == [object |-> o, outermost |-> FALSE]
<1>3. r \in Process /\ None \notin Object /\ \A u \in Thread : ProcessOf[u] \in Process
  BY PathLockAssumption
<1>4. /\ \A u \in Thread : N(u) \in Nat /\ frames[u] \in Seq(Frame)
      /\ frames'[t] = Append(frames[t], new)
      /\ \A u \in Thread \ {t} : frames'[u] = frames[u]
      /\ frames' \in [Thread -> Seq(Frame)]
  <2>1. new \in Frame
    BY DEF Frame
  <2>2. frames \in [Thread -> Seq(Frame)]
    BY DEF LockInv, TypeInv
  <2>3. Append(frames[t], new) \in Seq(Frame)
    BY <2>1, <2>2
  <2>4. \A u \in Thread : N(u) \in Nat
    BY EntriesAreFrames DEF LockInv
  <2> QED
    BY <1>2, <2>2, <2>3, <2>4
<1>5. /\ N(t)' = N(t) + 1 /\ \A u \in Thread \ {t} : N(u)' = N(u)
      /\ frames'[t][N(t) + 1] = new
      /\ \A i \in 1..N(t) : frames'[t][i] = frames[t][i]
      /\ new.object = o /\ ~new.outermost
  BY <1>4 DEF N
<1>6. /\ pc' \in [Thread -> Places] /\ pc'[t] = "acquire"
      /\ \A u \in Thread \ {t} : pc'[u] = pc[u]
      /\ UNCHANGED <<owner, count, depth, flock>>
  BY DEF GetState, Goto, LockInv, TypeInv, Places
<1> HIDE DEF new
<1>7. TypeInv'
  BY <1>2, <1>3, <1>4, <1>6 DEF LockInv, TypeInv, Places
<1>8. ShapeInv'
  <2>1. ASSUME NEW u \in Thread \ {t}
        PROVE  N(u)' = N(u) /\ frames'[u] = frames[u] /\ pc'[u] = pc[u]
    BY <1>4, <1>5, <1>6
  <2>2. N(t)' \in 1..MaxNesting /\ pc'[t] = "acquire"
    BY <1>1, <1>5, <1>6, PathLockAssumption
  <2>3. ASSUME NEW i \in 1..N(t)'
        PROVE  frames'[t][i].outermost <=> i = 1 /\ N(t)' # 1
    <3>1. CASE i = N(t) + 1
      BY <1>1, <1>5, <3>1
    <3>2. CASE i # N(t) + 1
      <4>1. i \in 1..N(t) /\ frames'[t][i] = frames[t][i] /\ N(t)' # 1
        BY <1>1, <1>5, <3>2
      <4> QED
        BY <1>1, <4>1 DEF LockInv, ShapeInv
    <3> QED
      BY <3>1, <3>2
  <2> QED
    BY <2>1, <2>2, <2>3 DEF LockInv, ShapeInv
<1>9. /\ registry' \in [Process -> Object \cup {None}] /\ registry'[r] = o
      /\ \A q \in Process \ {r} : registry'[q] = registry[q]
      /\ \A q \in Process : registry[q] # None => registry'[q] = registry[q]
  BY <1>2, <1>3 DEF LockInv, TypeInv
<1>10. \A u \in Thread : N(u) > 0 => registry'[ProcessOf[u]] = registry[ProcessOf[u]]
  <2> SUFFICES ASSUME NEW u \in Thread, N(u) > 0
               PROVE  registry'[ProcessOf[u]] = registry[ProcessOf[u]]
    OBVIOUS
  <2>1. registry[ProcessOf[u]] # None
    BY RegisteredIfUsed
  <2>2. ProcessOf[u] \in Process
    BY <1>3
  <2> QED
    BY <1>9, <2>1, <2>2
<1>11. ObjectInv'
  <2>1. ASSUME NEW u \in Thread, NEW i \in 1..N(u)'
        PROVE  frames'[u][i].object = registry'[ProcessOf[u]]
    <3>1. CASE u = t /\ i = N(t) + 1
      BY <1>5, <1>9, <3>1
    <3>2. CASE ~(u = t /\ i = N(t) + 1)
      <4>1. i \in 1..N(u) /\ N(u) > 0 /\ frames'[u][i] = frames[u][i]
        <5>1. CASE u = t
          <6>1. i \in 1..(N(t) + 1)
            BY <1>5, <5>1
          <6> QED
            BY <1>1, <1>5, <3>2, <5>1, <6>1
        <5>2. CASE u # t
          BY <1>4, <1>5, <5>2
        <5> QED
          BY <5>1, <5>2
      <4> QED
        BY <1>10, <4>1 DEF LockInv, ObjectInv
    <3> QED
      BY <3>1, <3>2
  <2>2. ASSUME NEW q \in Process, NEW s \in Process, registry'[q] # None,
               registry'[q] = registry'[s]
        PROVE  q = s
    <3>1. CASE registry[r] = None
      <4>1. \A x \in Process : registry[x] # o
        BY <1>2, <3>1 DEF IsUnused
      <4> QED
        BY <1>9, <2>2, <4>1 DEF LockInv, ObjectInv
    <3>2. CASE registry[r] # None
      <4>1. registry'[q] = registry[q] /\ registry'[s] = registry[s]
        BY <1>2, <1>9, <3>2
      <4> QED
        BY <2>2, <4>1 DEF LockInv, ObjectInv
    <3> QED
      BY <3>1, <3>2
  <2>3. ASSUME NEW q \in Process, registry'[q] # None
        PROVE  \E u \in Thread : ProcessOf[u] = q /\ N(u)' > 0
    <3>1. CASE q = r
      <4>1. N(t)' > 0
        BY <1>1, <1>5
      <4> QED
        BY <3>1, <4>1
    <3>2. CASE q # r
      <4>1. registry[q] # None
        BY <1>9, <2>3, <3>2
      <4>2. PICK u \in Thread : ProcessOf[u] = q /\ N(u) > 0
        BY <4>1 DEF LockInv, ObjectInv
      <4>3. N(u)' = N(u)
        BY <1>5, <3>2, <4>2
      <4> QED
        BY <4>2, <4>3
    <3> QED
      BY <3>1, <3>2
  <2> QED
    BY <2>1, <2>2, <2>3 DEF ObjectInv
<1>12. RefInv'
  <2>1. /\ \A u \in Thread : DOMAIN frames[u] = 1..N(u)
        /\ \A u \in Thread : DOMAIN frames'[u] = 1..N(u)'
    BY <1>4, <1>7 DEF N, TypeInv
  <2> DEFINE use == <<t, N(t) + 1>>
  <2>2. use \in Thread \X (1..MaxNesting) /\ use[1] = t /\ use[2] = N(t) + 1
    BY <1>1, PathLockAssumption
  <2>3. ASSUME NEW p, NEW x \in Thread \X (1..MaxNesting), x # use
        PROVE  x \in Uses(p)' <=> x \in Uses(p)
    <3>1. x[1] \in Thread /\ x[2] \in 1..MaxNesting /\ ~(x[1] = t /\ x[2] = N(t) + 1)
      BY <2>3
    <3>2. x[2] \in 1..N(x[1])' <=> x[2] \in 1..N(x[1])
      BY <1>4, <1>5, <3>1
    <3>3. x[2] \in 1..N(x[1]) => frames'[x[1]][x[2]] = frames[x[1]][x[2]]
      BY <1>5, <1>4, <3>1
    <3> QED
      BY <2>1, <3>1, <3>2, <3>3 DEF Uses
  <2>4. \A p : use \notin Uses(p)
    BY <1>1, <2>1, <2>2 DEF Uses
  <2>5. \A p : use \in Uses(p)' <=> p = o
    BY <1>1, <1>5, <2>1, <2>2 DEF Uses
  <2>6. \A p : Uses(p) \subseteq Thread \X (1..MaxNesting)
            /\ Uses(p)' \subseteq Thread \X (1..MaxNesting)
    BY DEF Uses
  <2> HIDE DEF use
  <2>7. ASSUME NEW p \in Object
        PROVE  ref_count'[p] = Cardinality(Uses(p)')
    <3>1. ref_count[p] = Cardinality(Uses(p)) /\ IsFiniteSet(Uses(p))
      BY <2>6, UsesAreFinite DEF LockInv, RefInv
    <3>2. CASE p = o
      <4>1. Uses(p)' = Uses(p) \cup {use}
        BY <2>2, <2>3, <2>5, <2>6, <3>2
      <4>2. Cardinality(Uses(p) \cup {use}) = Cardinality(Uses(p)) + 1
        BY <2>4, <3>1, FS_AddElement
      <4> QED
        BY <1>2, <3>1, <3>2, <4>1, <4>2 DEF LockInv, TypeInv
    <3>3. CASE p # o
      <4>1. Uses(p)' = Uses(p)
        <5>1. \A x \in Thread \X (1..MaxNesting) : x \in Uses(p)' <=> x \in Uses(p)
          BY <2>3, <2>4, <2>5, <3>3
        <5> QED
          BY <2>6, <5>1
      <4> QED
        BY <1>2, <3>1, <3>3, <4>1 DEF LockInv, TypeInv
    <3> QED
      BY <3>2, <3>3
  <2> QED
    BY <2>7 DEF RefInv
<1>13. FlockInv'
  <2>1. N(t)' > 1 \/ pc'[t] = "in" <=> N(t) > 1 \/ pc[t] = "in"
    BY <1>1, <1>5, <1>6 DEF LockInv, ShapeInv
  <2>2. \A u \in Thread \ {t} : N(u)' = N(u) /\ pc'[u] = pc[u]
    BY <1>5, <1>6
  <2> QED
    BY <1>6, <2>1, <2>2 DEF LockInv, FlockInv
<1>14. OwnerInv'
  <2>1. \A u \in Thread : Acquired(u)' = Acquired(u) /\ Counted(u)' = Counted(u)
    BY <1>1, <1>5, <1>6 DEF Acquired, Counted
  <2>2. \A u \in Thread : Acquired(u) > 0 => N(u) > 0
    BY <1>4 DEF Acquired
  <2> QED
    BY <1>6, <1>9, <1>10, <2>1, <2>2, AccountKept
<1> QED
  BY <1>7, <1>8, <1>11, <1>12, <1>13, <1>14 DEF LockInv

LEMMA DropLast ==
    ASSUME NEW s \in Seq(Frame), Len(s) > 0
    PROVE  LET front == SubSeq(s, 1, Len(s) - 1)
           IN  /\ front \in Seq(Frame) /\ Len(front) = Len(s) - 1
               /\ \A i \in 1..(Len(s) - 1) : front[i] = s[i]
<1> DEFINE n == Len(s) - 1
<1>1. n \in Nat /\ \A i \in 1..n : s[i] \in Frame
  OBVIOUS
<1> HIDE DEF n
<1>2. /\ SubSeq(s, 1, n) \in Seq(Frame)
      /\ Len(SubSeq(s, 1, n)) = IF 1 <= n THEN n - 1 + 1 ELSE 0
      /\ \A i \in 1..(n - 1 + 1) : SubSeq(s, 1, n)[i] = s[1 + i - 1]
  BY <1>1, SubSeqProperties
<1>3. \A i \in 1..n : i \in 1..(n - 1 + 1) /\ 1 + i - 1 = i
  BY <1>1
<1>4. Len(SubSeq(s, 1, n)) = n
  BY <1>1, <1>2
<1>5. \A i \in 1..n : SubSeq(s, 1, n)[i] = s[i]
  BY <1>2, <1>3
<1> QED
  BY <1>2, <1>4, <1>5 DEF n

LEMMA ReleaseStateStep ==
    ASSUME LockInv, NEW t \in Thread, ReleaseState(t)
    PROVE  LockInv'
<1> DEFINE r == ProcessOf[t]
<1>1. /\ pc[t] = "unref" /\ N(t) > 0 /\ N(t) \in Nat /\ N(t) <= MaxNesting
      /\ Acquired(t) = N(t) - 1 /\ Counted(t) = N(t) - 1
  BY EntriesAreFrames DEF LockInv, ShapeInv, ReleaseState, Acquired, Counted
<1>2. PICK o \in Object : o = registry[r] /\ o = ObjectOf(t)
  BY <1>1, OwnObject
<1>3. /\ ref_count' = [ref_count EXCEPT ![o] = @ - 1]
      /\ registry' = IF ref_count[o] = 1 THEN [registry EXCEPT ![r] = None] ELSE registry
      /\ frames' = [frames EXCEPT ![t] = SubSeq(@, 1, Len(@) - 1)]
      /\ Goto(t, IF N(t) > 1 THEN "in" ELSE "out")
      /\ UNCHANGED <<owner, count, depth, flock>>
  BY <1>2 DEF ReleaseState, N
<1>4. r \in Process /\ None \notin Object /\ \A u \in Thread : ProcessOf[u] \in Process
  BY PathLockAssumption
<1>5. /\ \A u \in Thread : N(u) \in Nat /\ frames[u] \in Seq(Frame)
      /\ \A u \in Thread \ {t} : frames'[u] = frames[u]
      /\ frames'[t] = SubSeq(frames[t], 1, N(t) - 1)
      /\ frames' \in [Thread -> Seq(Frame)]
  <2>1. frames \in [Thread -> Seq(Frame)]
    BY DEF LockInv, TypeInv
  <2>2. SubSeq(frames[t], 1, N(t) - 1) \in Seq(Frame)
    BY <1>1, <2>1, DropLast DEF N
  <2>3. \A u \in Thread : N(u) \in Nat
    BY EntriesAreFrames DEF LockInv
  <2> QED
    BY <1>3, <2>1, <2>2, <2>3 DEF N
<1>6. /\ N(t)' = N(t) - 1 /\ \A u \in Thread \ {t} : N(u)' = N(u)
      /\ \A i \in 1..(N(t) - 1) : frames'[t][i] = frames[t][i]
  <2>1. frames[t] \in Seq(Frame) /\ Len(frames[t]) > 0
    BY <1>1, <1>5 DEF N
  <2> QED
    BY <1>5, <2>1, DropLast DEF N
<1>7. /\ pc' \in [Thread -> Places]
      /\ pc'[t] = IF N(t) > 1 THEN "in" ELSE "out"
      /\ \A u \in Thread \ {t} : pc'[u] = pc[u]
  BY <1>3 DEF Goto, LockInv, TypeInv, Places
<1>8. TypeInv'
  BY <1>2, <1>3, <1>4, <1>5, <1>7 DEF LockInv, TypeInv, Places
<1>9. ShapeInv'
  <2>1. ASSUME NEW u \in Thread \ {t}
        PROVE  N(u)' = N(u) /\ frames'[u] = frames[u] /\ pc'[u] = pc[u]
    BY <1>5, <1>6, <1>7
  <2>2. /\ N(t)' \in 0..MaxNesting /\ pc'[t] \in {"in", "out"}
        /\ pc'[t] = "out" <=> N(t)' = 0
    BY <1>1, <1>6, <1>7, PathLockAssumption
  <2>3. ASSUME NEW i \in 1..N(t)'
        PROVE  frames'[t][i].outermost <=> i = 1
    <3>1. i \in 1..N(t) /\ frames'[t][i] = frames[t][i]
      BY <1>1, <1>6
    <3> QED
      BY <1>1, <3>1 DEF LockInv, ShapeInv
  <2> QED
    BY <2>1, <2>2, <2>3 DEF LockInv, ShapeInv
<1>10. /\ \A u \in Thread : DOMAIN frames[u] = 1..N(u)
       /\ \A u \in Thread : DOMAIN frames'[u] = 1..N(u)'
  BY <1>5, <1>8 DEF N, TypeInv
<1> DEFINE use == <<t, N(t)>>
<1>11. use \in Thread \X (1..MaxNesting) /\ use[1] = t /\ use[2] = N(t)
  BY <1>1, PathLockAssumption
<1>12. \A p : use \in Uses(p) <=> p = o
  BY <1>1, <1>2, <1>10, <1>11 DEF Uses, ObjectOf, Innermost, N
<1>13. \A p : Uses(p)' = Uses(p) \ {use}
  <2>1. ASSUME NEW p, NEW x \in Thread \X (1..MaxNesting), x # use
        PROVE  x \in Uses(p)' <=> x \in Uses(p)
    <3>1. x[1] \in Thread /\ x[2] \in 1..MaxNesting /\ ~(x[1] = t /\ x[2] = N(t))
      BY <2>1
    <3>2. x[2] \in 1..N(x[1])' <=> x[2] \in 1..N(x[1])
      BY <1>1, <1>5, <1>6, <3>1
    <3>3. x[2] \in 1..N(x[1])' => frames'[x[1]][x[2]] = frames[x[1]][x[2]]
      BY <1>1, <1>5, <1>6, <3>1
    <3> QED
      BY <1>10, <3>1, <3>2, <3>3 DEF Uses
  <2>2. \A p : use \notin Uses(p)'
    BY <1>1, <1>6, <1>10, <1>11 DEF Uses
  <2>3. \A p : Uses(p) \subseteq Thread \X (1..MaxNesting)
            /\ Uses(p)' \subseteq Thread \X (1..MaxNesting)
    BY DEF Uses
  <2> HIDE DEF use
  <2> QED
    BY <2>1, <2>2, <2>3
<1> HIDE DEF use
<1>14. IsFiniteSet(Uses(o)) /\ ref_count[o] = Cardinality(Uses(o))
  <2>1. Uses(o) \subseteq Thread \X (1..MaxNesting)
    BY DEF Uses
  <2> QED
    BY <1>2, <2>1, UsesAreFinite DEF LockInv, RefInv
<1>15. RefInv'
  <2>1. ASSUME NEW p \in Object
        PROVE  ref_count'[p] = Cardinality(Uses(p)')
    <3>1. CASE p = o
      <4>1. Cardinality(Uses(o) \ {use}) = Cardinality(Uses(o)) - 1
        BY <1>12, <1>14, FS_RemoveElement
      <4> QED
        BY <1>2, <1>3, <1>13, <1>14, <3>1, <4>1 DEF LockInv, TypeInv
    <3>2. CASE p # o
      <4>1. Uses(p)' = Uses(p)
        BY <1>12, <1>13, <3>2
      <4> QED
        BY <1>2, <1>3, <3>2, <4>1 DEF LockInv, TypeInv, RefInv
    <3> QED
      BY <3>1, <3>2
  <2> QED
    BY <2>1 DEF RefInv
\* Who else uses the object is of the same process, and keeps it registered.
<1>16. ASSUME NEW u \in Thread, NEW i \in 1..N(u)
       PROVE  <<u, i>> \in Uses(o) <=> ProcessOf[u] = r
  <2>1. i <= MaxNesting /\ i \in 1..MaxNesting
    BY <1>5, PathLockAssumption DEF LockInv, ShapeInv
  <2>2. <<u, i>> \in Uses(o) <=> frames[u][i].object = o
    BY <1>10, <2>1 DEF Uses
  <2>3. frames[u][i].object = registry[ProcessOf[u]]
    BY DEF LockInv, ObjectInv
  <2>4. registry[ProcessOf[u]] = registry[r] /\ registry[r] # None => ProcessOf[u] = r
    BY <1>4 DEF LockInv, ObjectInv
  <2> QED
    BY <1>2, <1>4, <2>2, <2>3, <2>4
<1> DEFINE Kept ==
        /\ ObjectInv'
        /\ registry' \in [Process -> Object \cup {None}]
        /\ \A u \in Thread : Acquired(u) > 0 =>
             registry'[ProcessOf[u]] = registry[ProcessOf[u]]
<1>17. ASSUME ref_count[o] = 1
       PROVE  Kept
  <2>1. Uses(o) = {use}
    <3>1. \E x : Uses(o) = {x}
      BY <1>14, <1>17, FS_Singleton
    <3> QED
      BY <1>12, <3>1
  <2>2. ASSUME NEW u \in Thread, ProcessOf[u] = r, N(u) > 0
        PROVE  u = t /\ N(t) = 1
    <3>1. <<u, 1>> \in Uses(o)
      BY <1>5, <1>16, <2>2
    <3> QED
      BY <2>1, <3>1 DEF use
  <2>3. \A u \in Thread : N(u)' > 0 => ProcessOf[u] # r /\ u # t
    BY <1>1, <1>6, <2>2
  <2>4. /\ registry' \in [Process -> Object \cup {None}] /\ registry'[r] = None
        /\ \A q \in Process \ {r} : registry'[q] = registry[q]
    BY <1>3, <1>4, <1>17 DEF LockInv, TypeInv
  <2>5. ObjectInv'
    <3>1. ASSUME NEW u \in Thread, NEW i \in 1..N(u)'
          PROVE  frames'[u][i].object = registry'[ProcessOf[u]]
      <4>1. N(u)' > 0
        BY <1>5, <1>6, <1>1
      <4>2. u # t /\ ProcessOf[u] \in Process \ {r} /\ i \in 1..N(u) /\ frames'[u] = frames[u]
        BY <1>4, <1>5, <1>6, <2>3, <4>1
      <4> QED
        BY <2>4, <4>2 DEF LockInv, ObjectInv
    <3>2. ASSUME NEW q \in Process, registry'[q] # None
          PROVE  \E u \in Thread : ProcessOf[u] = q /\ N(u)' > 0
      <4>1. q # r /\ registry[q] # None
        BY <2>4, <3>2
      <4>2. PICK u \in Thread : ProcessOf[u] = q /\ N(u) > 0
        BY <4>1 DEF LockInv, ObjectInv
      <4> QED
        BY <1>6, <4>1, <4>2
    <3>3. \A q, x \in Process : registry'[q] # None /\ registry'[q] = registry'[x] => q = x
      BY <2>4 DEF LockInv, ObjectInv
    <3> QED
      BY <3>1, <3>2, <3>3 DEF ObjectInv
  <2>6. \A u \in Thread : Acquired(u) > 0 => registry'[ProcessOf[u]] = registry[ProcessOf[u]]
    <3> SUFFICES ASSUME NEW u \in Thread, Acquired(u) > 0
                 PROVE  registry'[ProcessOf[u]] = registry[ProcessOf[u]]
      OBVIOUS
    <3>1. N(u) > 0
      BY <1>5 DEF Acquired
    <3>2. ProcessOf[u] # r
      BY <1>1, <2>2, <3>1
    <3> QED
      BY <1>4, <2>4, <3>2
  <2> QED
    BY <2>4, <2>5, <2>6
<1>18. ASSUME ref_count[o] # 1
       PROVE  Kept
  <2>1. registry' = registry
    BY <1>3, <1>18
  <2>2. PICK x \in Uses(o) : x # use
    <3>1. Uses(o) # {use}
      BY <1>14, <1>18, FS_Singleton
    <3> QED
      BY <1>12, <3>1
  <2>3. x[1] \in Thread /\ ProcessOf[x[1]] = r /\ N(x[1])' > 0
    <3>1. x \in Uses(o)'
      BY <1>13, <2>2
    <3>2. x[1] \in Thread /\ x[2] \in 1..N(x[1])' /\ x[2] \in 1..N(x[1]) /\ x = <<x[1], x[2]>>
      <4>1. x \in Thread \X (1..MaxNesting)
        BY <2>2 DEF Uses
      <4>2. x[2] \in DOMAIN frames[x[1]] /\ x[2] \in DOMAIN frames'[x[1]]
        BY <2>2, <3>1 DEF Uses
      <4>3. x[1] \in Thread /\ x = <<x[1], x[2]>>
        BY <4>1
      <4> QED
        BY <1>10, <4>2, <4>3
    <3>3. ProcessOf[x[1]] = r
      BY <1>16, <2>2, <3>2
    <3>4. N(x[1])' \in Int
      BY <1>1, <1>5, <1>6, <3>2
    <3> QED
      BY <3>2, <3>3, <3>4
  <2>4. ObjectInv'
    <3>1. ASSUME NEW u \in Thread, NEW i \in 1..N(u)'
          PROVE  frames'[u][i].object = registry'[ProcessOf[u]]
      <4>1. i \in 1..N(u) /\ frames'[u][i] = frames[u][i]
        BY <1>1, <1>5, <1>6
      <4> QED
        BY <2>1, <4>1 DEF LockInv, ObjectInv
    <3>2. ASSUME NEW q \in Process, registry'[q] # None
          PROVE  \E u \in Thread : ProcessOf[u] = q /\ N(u)' > 0
      <4>1. CASE q = r
        BY <2>3, <4>1
      <4>2. CASE q # r
        <5>1. PICK u \in Thread : ProcessOf[u] = q /\ N(u) > 0
          BY <2>1, <3>2 DEF LockInv, ObjectInv
        <5> QED
          BY <1>6, <4>2, <5>1
      <4> QED
        BY <4>1, <4>2
    <3> QED
      BY <2>1, <3>1, <3>2 DEF LockInv, ObjectInv
  <2> QED
    BY <2>1, <2>4 DEF LockInv, TypeInv
<1>19. Kept
  BY <1>17, <1>18
<1>20. OwnerInv'
  <2>1. \A u \in Thread : Acquired(u)' = Acquired(u) /\ Counted(u)' = Counted(u)
    BY <1>1, <1>6, <1>7 DEF Acquired, Counted
  <2> QED
    BY <1>3, <1>19, <2>1, AccountKept
<1>21. FlockInv'
  <2>1. N(t)' > 1 \/ pc'[t] = "in" <=> N(t) > 1 \/ pc[t] = "in"
    BY <1>1, <1>6, <1>7
  <2>2. \A u \in Thread \ {t} : N(u)' = N(u) /\ pc'[u] = pc[u]
    BY <1>6, <1>7
  <2> QED
    BY <1>3, <2>1, <2>2 DEF LockInv, FlockInv
<1> QED
  BY <1>8, <1>9, <1>15, <1>19, <1>20, <1>21 DEF LockInv

-------------------------------------------------------------------------------
(* The end of a process, and the theorems.                                 *)

LEMMA KillStep ==
    ASSUME LockInv, NEW r \in Process, Kill(r)
    PROVE  LockInv'
<1> DEFINE dead == {t \in Thread : ProcessOf[t] = r}
           lost == {o \in Object : \E t \in dead : \E i \in DOMAIN frames[t] :
                                      frames[t][i].object = o}
<1>1. /\ registry' = [registry EXCEPT ![r] = None]
      /\ owner' = [o \in Object |-> IF o \in lost THEN None ELSE owner[o]]
      /\ count' = [o \in Object |-> IF o \in lost THEN 0 ELSE count[o]]
      /\ depth' = [o \in Object |-> IF o \in lost THEN 0 ELSE depth[o]]
      /\ ref_count' = [o \in Object |-> IF o \in lost THEN 0 ELSE ref_count[o]]
      /\ flock' = IF flock \in dead THEN None ELSE flock
      /\ frames' = [t \in Thread |-> IF t \in dead THEN <<>> ELSE frames[t]]
      /\ pc' = [t \in Thread |-> IF t \in dead THEN "out" ELSE pc[t]]
  BY DEF Kill
<1>2. /\ None \notin Object /\ None \notin Thread
      /\ \A u \in Thread : ProcessOf[u] \in Process
  BY PathLockAssumption
<1>3. \A u \in Thread : N(u) \in Nat /\ DOMAIN frames[u] = 1..N(u)
  BY EntriesAreFrames DEF LockInv
<1>4. ASSUME NEW o \in Object
      PROVE  o \in lost <=> o = registry[r]
  <2>1. CASE o = registry[r]
    <3>1. PICK u \in Thread : ProcessOf[u] = r /\ N(u) > 0
      BY <1>2, <2>1 DEF LockInv, ObjectInv
    <3>2. u \in dead /\ 1 \in DOMAIN frames[u] /\ frames[u][1].object = o
      BY <1>3, <2>1, <3>1 DEF LockInv, ObjectInv
    <3> QED
      BY <2>1, <3>2
  <2>2. CASE o # registry[r]
    BY <1>3, <2>2 DEF LockInv, ObjectInv
  <2> QED
    BY <2>1, <2>2
<1> HIDE DEF lost
<1>5. /\ registry' \in [Process -> Object \cup {None}]
      /\ registry'[r] = None
      /\ \A q \in Process \ {r} : registry'[q] = registry[q]
  BY <1>1 DEF LockInv, TypeInv
<1>6. \A o \in Object :
        IF o = registry[r]
        THEN owner'[o] = None /\ count'[o] = 0 /\ depth'[o] = 0 /\ ref_count'[o] = 0
        ELSE /\ owner'[o] = owner[o] /\ count'[o] = count[o]
             /\ depth'[o] = depth[o] /\ ref_count'[o] = ref_count[o]
  BY <1>1, <1>4
<1>7. ASSUME NEW u \in Thread
      PROVE  IF ProcessOf[u] = r THEN frames'[u] = <<>> /\ pc'[u] = "out"
             ELSE frames'[u] = frames[u] /\ pc'[u] = pc[u]
  BY <1>1
<1>8. ASSUME NEW u \in Thread
      PROVE  IF ProcessOf[u] = r THEN N(u)' = 0 ELSE N(u)' = N(u)
  <2>1. Len(<<>>) = 0
    OBVIOUS
  <2> QED
    BY <1>7, <2>1 DEF N
<1>9. TypeInv'
  <2>1. <<>> \in Seq(Frame)
    OBVIOUS
  <2>2. frames' \in [Thread -> Seq(Frame)]
    BY <1>1, <2>1 DEF LockInv, TypeInv
  <2>3. /\ owner' \in [Object -> Thread \cup {None}] /\ count' \in [Object -> Int]
        /\ depth' \in [Object -> Int] /\ ref_count' \in [Object -> Int]
    BY <1>1 DEF LockInv, TypeInv
  <2>4. pc' \in [Thread -> Places] /\ flock' \in Thread \cup {None}
    BY <1>1 DEF LockInv, TypeInv, Places
  <2> QED
    BY <1>5, <2>2, <2>3, <2>4 DEF TypeInv, Places
<1>10. ShapeInv'
  <2> SUFFICES ASSUME NEW u \in Thread
               PROVE  /\ N(u)' <= MaxNesting
                      /\ pc'[u] = "out" <=> N(u)' = 0
                      /\ pc'[u] \in {"flock", "reset"} => N(u)' = 1
                      /\ \A i \in 1..N(u)' :
                          frames'[u][i].outermost <=>
                              i = 1 /\ ~(N(u)' = 1 /\ pc'[u] \in {"acquire", "check"})
    BY DEF ShapeInv
  <2>1. CASE ProcessOf[u] = r
    BY <1>7, <1>8, <2>1, PathLockAssumption
  <2>2. CASE ProcessOf[u] # r
    BY <1>7, <1>8, <2>2 DEF LockInv, ShapeInv
  <2> QED
    BY <2>1, <2>2
<1>11. ObjectInv'
  <2>1. ASSUME NEW u \in Thread, NEW i \in 1..N(u)'
        PROVE  frames'[u][i].object = registry'[ProcessOf[u]]
    <3>1. ProcessOf[u] # r /\ i \in 1..N(u) /\ frames'[u] = frames[u]
      BY <1>7, <1>8
    <3> QED
      BY <1>2, <1>5, <3>1 DEF LockInv, ObjectInv
  <2>2. ASSUME NEW q \in Process, registry'[q] # None
        PROVE  \E u \in Thread : ProcessOf[u] = q /\ N(u)' > 0
    <3>1. q # r /\ registry[q] # None
      BY <1>5, <2>2
    <3>2. PICK u \in Thread : ProcessOf[u] = q /\ N(u) > 0
      BY <3>1 DEF LockInv, ObjectInv
    <3> QED
      BY <1>8, <3>1, <3>2
  <2>3. \A q, x \in Process : registry'[q] # None /\ registry'[q] = registry'[x] => q = x
    BY <1>5 DEF LockInv, ObjectInv
  <2> QED
    BY <2>1, <2>2, <2>3 DEF ObjectInv
<1>12. RefInv'
  <2>1. ASSUME NEW o \in Object, o = registry[r]
        PROVE  ref_count'[o] = Cardinality(Uses(o)')
    <3>1. \A use \in Thread \X (1..MaxNesting) : use \notin Uses(o)'
      <4> SUFFICES ASSUME NEW u \in Thread, NEW i \in 1..N(u)'
                   PROVE  frames'[u][i].object # o
        BY <1>9 DEF Uses, TypeInv, N
      <4>1. ProcessOf[u] # r /\ frames'[u][i].object = registry[ProcessOf[u]]
        BY <1>2, <1>5, <1>8, <1>11 DEF ObjectInv
      <4> QED
        BY <1>2, <2>1, <4>1 DEF LockInv, ObjectInv
    <3>2. Uses(o)' = {}
      BY <3>1 DEF Uses
    <3> QED
      BY <1>6, <2>1, <3>2, FS_EmptySet
  <2>2. ASSUME NEW o \in Object, o # registry[r]
        PROVE  ref_count'[o] = Cardinality(Uses(o)')
    <3>1. ASSUME NEW use \in Thread \X (1..MaxNesting)
          PROVE  use \in Uses(o)' <=> use \in Uses(o)
      <4>1. use[1] \in Thread
        OBVIOUS
      <4>2. CASE ProcessOf[use[1]] = r
        <5>1. use \notin Uses(o)'
          BY <1>7, <4>1, <4>2 DEF Uses
        <5>2. use \notin Uses(o)
          BY <1>3, <2>2, <4>1, <4>2 DEF Uses, LockInv, ObjectInv
        <5> QED
          BY <5>1, <5>2
      <4>3. CASE ProcessOf[use[1]] # r
        BY <1>7, <4>1, <4>3 DEF Uses
      <4> QED
        BY <4>2, <4>3
    <3>2. Uses(o)' = Uses(o)
      <4>1. /\ Uses(o) \subseteq Thread \X (1..MaxNesting)
            /\ Uses(o)' \subseteq Thread \X (1..MaxNesting)
        BY DEF Uses
      <4> QED
        BY <3>1, <4>1
    <3> QED
      BY <1>6, <2>2, <3>2 DEF LockInv, RefInv
  <2> QED
    BY <2>1, <2>2 DEF RefInv
<1>13. \A u \in Thread : IF ProcessOf[u] = r THEN Acquired(u)' = 0
                         ELSE Acquired(u)' = Acquired(u) /\ Counted(u)' = Counted(u)
  BY <1>7, <1>8 DEF Acquired, Counted
<1>14. OwnerInv'
  <2>1. ASSUME NEW o \in Object
        PROVE  /\ owner'[o] = None => count'[o] = 0 /\ depth'[o] = 0
               /\ \A u \in Thread : owner'[o] = u =>
                   /\ Acquired(u)' > 0 /\ registry'[ProcessOf[u]] = o
                   /\ count'[o] = Acquired(u)' /\ depth'[o] = Counted(u)'
    <3>1. CASE o = registry[r]
      BY <1>2, <1>6, <3>1
    <3>2. CASE o # registry[r]
      <4>1. /\ owner'[o] = owner[o] /\ count'[o] = count[o] /\ depth'[o] = depth[o]
        BY <1>6, <3>2
      <4>2. \A u \in Thread : owner[o] = u => ProcessOf[u] # r /\ ProcessOf[u] \in Process
        BY <1>2, <3>2 DEF LockInv, OwnerInv
      <4> QED
        BY <1>5, <1>13, <4>1, <4>2 DEF LockInv, OwnerInv
    <3> QED
      BY <3>1, <3>2
  <2>2. ASSUME NEW u \in Thread, Acquired(u)' > 0
        PROVE  owner'[registry'[ProcessOf[u]]] = u
    <3>1. ProcessOf[u] # r /\ Acquired(u) > 0
      BY <1>13, <2>2
    <3>2. N(u) > 0
      BY <1>3, <3>1 DEF Acquired
    <3>3. registry[ProcessOf[u]] \in Object
      BY <3>2, OwnObject
    <3>4. registry[ProcessOf[u]] # registry[r]
      BY <1>2, <3>1, <3>3 DEF LockInv, ObjectInv
    <3> QED
      BY <1>2, <1>5, <1>6, <3>1, <3>3, <3>4 DEF LockInv, OwnerInv
  <2> QED
    BY <2>1, <2>2 DEF OwnerInv
<1>15. FlockInv'
  <2> SUFFICES ASSUME NEW u \in Thread
               PROVE  flock' = u <=> N(u)' > 1 \/ pc'[u] = "in"
    BY DEF FlockInv
  <2>1. CASE ProcessOf[u] = r
    <3>1. flock' # u
      BY <1>1, <1>2, <2>1
    <3> QED
      BY <1>7, <1>8, <2>1, <3>1
  <2>2. CASE ProcessOf[u] # r
    <3>1. flock' = u <=> flock = u
      BY <1>1, <1>2, <2>2
    <3> QED
      BY <1>7, <1>8, <2>2, <3>1 DEF LockInv, FlockInv
  <2> QED
    BY <2>1, <2>2
<1> QED
  BY <1>9, <1>10, <1>11, <1>12, <1>14, <1>15 DEF LockInv

LEMMA LockInvariance == Spec => []LockInv
<1>1. Init => LockInv
  <2> SUFFICES ASSUME Init
               PROVE  LockInv
    OBVIOUS
  <2>1. \A t \in Thread : N(t) = 0 /\ DOMAIN frames[t] = {} /\ pc[t] = "out"
    BY DEF Init, N
  <2>2. TypeInv
    <3>1. <<>> \in Seq(Frame)
      OBVIOUS
    <3> QED
      BY <3>1 DEF Init, TypeInv
  <2>3. ShapeInv
    BY <2>1, PathLockAssumption DEF ShapeInv
  <2>4. ObjectInv
    BY <2>1 DEF Init, ObjectInv
  <2>5. RefInv
    <3>1. \A o : Uses(o) = {}
      BY <2>1 DEF Uses
    <3> QED
      BY <3>1, FS_EmptySet DEF Init, RefInv
  <2>6. OwnerInv
    BY <2>1, PathLockAssumption DEF Init, OwnerInv, Acquired
  <2>7. FlockInv
    BY <2>1, PathLockAssumption DEF Init, FlockInv
  <2> QED
    BY <2>2, <2>3, <2>4, <2>5, <2>6, <2>7 DEF LockInv
<1>2. LockInv /\ [Next]_vars => LockInv'
  <2> SUFFICES ASSUME LockInv, [Next]_vars
               PROVE  LockInv'
    OBVIOUS
  <2>1. CASE UNCHANGED vars
    BY <2>1 DEF vars, objectVars, LockInv, TypeInv, ShapeInv, ObjectInv, RefInv,
                OwnerInv, FlockInv, Uses, Acquired, Counted, N
  <2>2. ASSUME NEW t \in Thread,
               GetState(t) \/ GetIn(t) \/ LockFile(t) \/ LockFileFails(t) \/ GetOut(t)
        PROVE  LockInv'
    BY <2>2, GetStateStep, AcquireStep, EnterNestedStep, EnterOutermostStep, FileStep,
       UncountStep, ReleaseStep, ReleaseStateStep DEF GetIn, GetOut
  <2> QED
    BY <2>1, <2>2, KillStep DEF Next
<1> QED
  BY <1>1, <1>2, PTL DEF Spec

\* Who is inside holds the file lock, and nobody else does.
LEMMA InsideHolds ==
    LockInv => \A t \in Thread : Inside(t) <=> flock = t
<1> SUFFICES ASSUME LockInv, NEW t \in Thread
             PROVE  Inside(t) <=> flock = t
  OBVIOUS
<1>1. N(t) \in Nat /\ DOMAIN frames[t] = 1..N(t) /\ N(t) = Len(frames[t])
  BY EntriesAreFrames DEF LockInv, N
<1>2. pc[t] = "in" => N(t) > 0
  BY <1>1 DEF LockInv, ShapeInv
<1>3. Inside(t) <=> N(t) > 1 \/ pc[t] = "in"
  <2>1. CASE N(t) > 1
    BY <1>1, <2>1 DEF Inside
  <2>2. CASE pc[t] = "in"
    BY <1>1, <1>2, <2>2 DEF Inside
  <2>3. CASE ~(N(t) > 1 \/ pc[t] = "in")
    BY <1>1, <2>3 DEF Inside
  <2> QED
    BY <2>1, <2>2, <2>3
<1> QED
  BY <1>3 DEF LockInv, FlockInv

\* What a thread has acquired and counted is bounded as its entries are.
LEMMA AccountIsBounded ==
    ASSUME LockInv, NEW o \in Object
    PROVE  count[o] \in 0..MaxNesting /\ depth[o] \in 0..MaxNesting
<1>1. CASE owner[o] = None
  BY <1>1, PathLockAssumption DEF LockInv, OwnerInv
<1>2. CASE owner[o] # None
  <2>1. PICK t \in Thread : owner[o] = t
    BY <1>2 DEF LockInv, TypeInv
  <2>2. /\ count[o] = Acquired(t) /\ depth[o] = Counted(t)
        /\ Acquired(t) > 0 /\ N(t) \in Nat /\ N(t) <= MaxNesting
        /\ pc[t] = "out" => N(t) = 0
    BY <2>1, EntriesAreFrames DEF LockInv, OwnerInv, ShapeInv
  <2>3. N(t) > 0
    BY <2>2 DEF Acquired
  <2> QED
    BY <2>2, <2>3, PathLockAssumption DEF Acquired, Counted
<1> QED
  BY <1>1, <1>2

(* All state of the locks keeps its type: no count becomes negative or     *)
(* exceeds what the entries account for.                                   *)
THEOREM LockTyping == Spec => []TypeOK
<1>1. LockInv => TypeOK
  <2> SUFFICES ASSUME LockInv
               PROVE  TypeOK
    OBVIOUS
  <2>1. count \in [Object -> 0..MaxNesting] /\ depth \in [Object -> 0..MaxNesting]
    BY AccountIsBounded DEF LockInv, TypeInv
  <2>2. \A o \in Object : ref_count[o] \in 0..MaxNesting * Cardinality(Thread)
    <3> SUFFICES ASSUME NEW o \in Object
                 PROVE  ref_count[o] \in 0..MaxNesting * Cardinality(Thread)
      OBVIOUS
    <3>1. Uses(o) \subseteq Thread \X (1..MaxNesting)
      BY DEF Uses
    <3>2. /\ ref_count[o] \in Nat /\ ref_count[o] <= MaxNesting * Cardinality(Thread)
          /\ MaxNesting * Cardinality(Thread) \in Nat
      BY <3>1, UsesAreFinite, FS_CardinalityType, PathLockAssumption DEF LockInv, RefInv
    <3> QED
      BY <3>2
  <2>3. ref_count \in [Object -> 0..MaxNesting * Cardinality(Thread)]
    BY <2>2 DEF LockInv, TypeInv
  <2> QED
    BY <2>1, <2>3 DEF LockInv, TypeInv, TypeOK
<1> QED
  BY <1>1, LockInvariance, PTL

(* A thread never waits for a file lock that its own process holds.        *)
THEOREM NoThreadWaitsForItself == Spec => []NoSelfDeadlock
<1>1. LockInv => NoSelfDeadlock
  <2> SUFFICES ASSUME LockInv, NEW t \in Thread, NEW u \in Thread,
                      pc[t] = "flock", flock = u, ProcessOf[t] = ProcessOf[u]
               PROVE  FALSE
    BY DEF NoSelfDeadlock
  <2>1. /\ N(t) = 1 /\ N(u) \in Nat
        /\ N(u) > 1 \/ (pc[u] = "in" /\ N(u) > 0)
    BY EntriesAreFrames DEF LockInv, ShapeInv, FlockInv
  <2>2. Acquired(t) > 0 /\ Acquired(u) > 0
    BY <2>1 DEF Acquired
  <2>3. t = u
    BY <2>2 DEF LockInv, OwnerInv
  <2> QED
    BY <2>1, <2>3
<1> QED
  BY <1>1, LockInvariance, PTL

(* The threads of a process share the registered object, which is          *)
(* registered exactly as long as one of them uses it.                      *)
THEOREM ObjectIsShared == Spec => []OneObjectPerProcess
<1>1. LockInv => OneObjectPerProcess
  <2> SUFFICES ASSUME LockInv, NEW r \in Process, NEW o
               PROVE  (/\ o \in Object
                       /\ \E t \in Thread : ProcessOf[t] = r
                            /\ \E i \in DOMAIN frames[t] : frames[t][i].object = o)
                        <=> o = registry[r] /\ o # None
    BY DEF OneObjectPerProcess
  <2>1. \A t \in Thread : N(t) \in Nat /\ DOMAIN frames[t] = 1..N(t)
    BY EntriesAreFrames DEF LockInv
  <2>2. ASSUME o = registry[r], o # None
        PROVE  /\ o \in Object
               /\ \E t \in Thread : ProcessOf[t] = r
                    /\ \E i \in DOMAIN frames[t] : frames[t][i].object = o
    <3>1. o \in Object
      BY <2>2 DEF LockInv, TypeInv
    <3>2. PICK t \in Thread : ProcessOf[t] = r /\ N(t) > 0
      BY <2>2 DEF LockInv, ObjectInv
    <3>3. 1 \in DOMAIN frames[t] /\ frames[t][1].object = o
      BY <2>1, <2>2, <3>2 DEF LockInv, ObjectInv
    <3> QED
      BY <3>1, <3>2, <3>3
  <2>3. ASSUME o \in Object, NEW t \in Thread, ProcessOf[t] = r,
               NEW i \in DOMAIN frames[t], frames[t][i].object = o
        PROVE  o = registry[r] /\ o # None
    BY <2>1, <2>3, PathLockAssumption DEF LockInv, ObjectInv
  <2> QED
    BY <2>2, <2>3
<1> QED
  BY <1>1, LockInvariance, PTL

\* Only locking the file, unlocking it, and the end of a process change who
\* holds it; it is taken only when it is free.
LEMMA FlockSteps ==
    ASSUME [Next]_vars
    PROVE  \/ flock' = flock \/ flock' = None
           \/ flock = None /\ flock' \in Thread
BY DEF Next, GetState, GetIn, Acquire, EnterNested, EnterOutermost, LockFile,
       LockFileFails, GetOut, LeaveNested, UnlockFile, ResetDepth, Release,
       ReleaseState, Kill, vars

(* The whole construction implements one mutex: its holder is the thread   *)
(* inside.                                                                 *)
THEOREM LocksImplementMutex == Spec => IsMutex
<1> DEFINE holders == {t \in Thread : Inside(t)}
           Held == holders = IF flock = None THEN {} ELSE {flock}
<1>1. Init => holders = {}
  BY DEF Init, Inside
<1>2. LockInv => Held
  <2>1. LockInv => flock \in Thread \cup {None} /\ None \notin Thread
    BY PathLockAssumption DEF LockInv, TypeInv
  <2> QED
    BY <2>1, InsideHolds
<1>3. Held /\ Held' /\ [Next]_vars
        => [Inner!Give \/ \E t \in Thread : Inner!Take(t)]_holders
  <2> SUFFICES ASSUME Held, Held', [Next]_vars
               PROVE  [Inner!Give \/ \E t \in Thread : Inner!Take(t)]_holders
    OBVIOUS
  <2>1. /\ holders = IF flock = None THEN {} ELSE {flock}
        /\ holders' = IF flock' = None THEN {} ELSE {flock'}
    OBVIOUS
  <2>2. CASE flock' = flock
    BY <2>1, <2>2
  <2>3. CASE flock' = None
    BY <2>1, <2>3 DEF Inner!Give
  <2>4. CASE flock = None /\ flock' \in Thread
    BY <2>1, <2>4 DEF Inner!Take
  <2> QED
    BY <2>2, <2>3, <2>4, FlockSteps
<1> QED
  BY <1>1, <1>2, <1>3, LockInvariance, PTL
  DEF Spec, IsMutex, Inner!MutexSpec, Inner!MutexInit
===============================================================================
