--------------------------- MODULE RateLimiterProofs ---------------------------
(***************************************************************************)
(* Proofs about RateLimiter, for any number of processes and any period:   *)
(* once its file exists, actions are spaced and only recent actions deny   *)
(* one.  (For a file that is yet to be created neither holds; the configs  *)
(* Limiter_creation and Limiter_first_call show how.)  And about its use   *)
(* in the error boundary: the posts to Slack are few, however many         *)
(* schedulers share the limiter.                                           *)
(***************************************************************************)
EXTENDS SlackBoundary, FiniteSetTheorems, TLAPS

LEMMA TimesAreNat == StartTime \in Nat /\ Times \subseteq Nat /\ 0 \in Times
  BY RateLimiterAssumption DEF StartTime, Times

LEMMA TypingInit == Init => TypeOK
<1> SUFFICES ASSUME Init PROVE TypeOK
  OBVIOUS
<1>1. now \in Times
  BY RateLimiterAssumption DEF Init, StartTime, Times
<1>2. pc \in [Process -> Locations] /\ created \in [Process -> BOOLEAN]
  BY DEF Init, Locations
<1>3. timestamp \in [Process -> Times] /\ mtime \in Times /\ exists \in BOOLEAN
  BY TimesAreNat, RateLimiterAssumption DEF Init
<1>4. QED
  BY <1>1, <1>2, <1>3 DEF Init, TypeOK

LEMMA TickTyping ==
    ASSUME now \in Times, Tick
    PROVE  now' \in Times
<1>1. MinimumPeriod \in Int /\ MaxTime \in Int
  BY RateLimiterAssumption
<1>2. now' = now + 1 /\ now < MinimumPeriod + MaxTime
  BY DEF Tick, StartTime
<1>3. QED
  BY <1>1, <1>2 DEF Times, StartTime

LEMMA TypingStep ==
    ASSUME TypeOK, [Next]_vars
    PROVE  TypeOK'
<1> USE TimesAreNat DEF TypeOK, Goto, Locations
<1>1. ASSUME NEW p \in Process, Call(p)
      PROVE  TypeOK'
  BY <1>1 DEF Call
<1>2. ASSUME NEW p \in Process, OpenFile(p)
      PROVE  TypeOK'
  BY <1>2 DEF OpenFile
<1>3. ASSUME NEW p \in Process, LockFile(p)
      PROVE  TypeOK'
  BY <1>3 DEF LockFile
<1>4. ASSUME NEW p \in Process, Check(p)
      PROVE  TypeOK'
  BY <1>4 DEF Check
<1>5. ASSUME NEW p \in Process, Touch(p)
      PROVE  TypeOK'
  BY <1>5 DEF Touch
<1>6. ASSUME NEW p \in Process, IsReady(p) \/ Crash(p)
      PROVE  TypeOK'
  BY <1>6 DEF IsReady, Crash
<1>7. CASE Tick
  BY <1>7, TickTyping DEF Tick
<1>8. CASE UNCHANGED vars
  BY <1>8 DEF vars
<1>9. QED
  BY <1>1, <1>2, <1>3, <1>4, <1>5, <1>6, <1>7, <1>8 DEF Next

(* The limiter's variables stay in their types.                            *)
THEOREM LimiterTyping == Spec => []TypeOK
<1>1. TypeOK /\ [Next]_vars => TypeOK'
  BY TypingStep
<1>2. QED
  BY TypingInit, <1>1, PTL DEF Spec

-------------------------------------------------------------------------------
(* Whoever checks or touches the file has the lock on it.                  *)
HolderInv ==
    \A p \in Process :
        pc[p] \in {"check", "touch_if_ready", "touch"} => holder = p

(* The file's modification time is the time of the last action, because    *)
(* nobody has created the file and nobody will set the time back.          *)
SpacingInv ==
    /\ exists
    /\ \A p \in Process : ~created[p]
    /\ pinged = None => mtime = 0
    /\ pinged # None => mtime = pinged
    /\ now >= MinimumPeriod

(* What the check has found remains true until the file is touched: time   *)
(* only passes, and nobody else records an action.                         *)
GrantInv ==
    \A p \in Process :
        pc[p] = "touch_if_ready" /\ pinged # None => now - pinged >= MinimumPeriod

LimiterInv == TypeOK /\ HolderInv /\ SpacingInv /\ GrantInv

LEMMA HolderInvStep ==
    ASSUME LimiterInv, [Next]_vars
    PROVE  HolderInv'
<1> USE RateLimiterAssumption DEF LimiterInv, TypeOK, HolderInv, Goto
<1>1. ASSUME NEW p \in Process, Call(p) \/ OpenFile(p)
      PROVE  HolderInv'
  BY <1>1 DEF Call, OpenFile
<1>2. ASSUME NEW p \in Process, LockFile(p)
      PROVE  HolderInv'
  BY <1>2 DEF LockFile
<1>3. ASSUME NEW p \in Process, Check(p)
      PROVE  HolderInv'
  BY <1>3 DEF Check
<1>4. ASSUME NEW p \in Process, Touch(p)
      PROVE  HolderInv'
  BY <1>4 DEF Touch
<1>5. ASSUME NEW p \in Process, IsReady(p) \/ Crash(p)
      PROVE  HolderInv'
  BY <1>5 DEF IsReady, Crash
<1>6. CASE Tick
  BY <1>6 DEF Tick
<1>7. CASE UNCHANGED vars
  BY <1>7 DEF vars
<1>8. QED
  BY <1>1, <1>2, <1>3, <1>4, <1>5, <1>6, <1>7 DEF Next

LEMMA SpacingInvStep ==
    ASSUME LimiterInv, [Next]_vars
    PROVE  SpacingInv'
<1> USE RateLimiterAssumption, TimesAreNat DEF LimiterInv, TypeOK, SpacingInv
<1>1. ASSUME NEW p \in Process,
             Call(p) \/ Check(p) \/ IsReady(p) \/ Crash(p)
      PROVE  SpacingInv'
  BY <1>1 DEF Call, Check, IsReady, Crash
<1>2. ASSUME NEW p \in Process, OpenFile(p)
      PROVE  SpacingInv'
  BY <1>2 DEF OpenFile
<1>3. ASSUME NEW p \in Process, LockFile(p)
      PROVE  SpacingInv'
  BY <1>3 DEF LockFile
<1>4. ASSUME NEW p \in Process, Touch(p)
      PROVE  SpacingInv'
  BY <1>4 DEF Touch
<1>5. CASE Tick
  BY <1>5 DEF Tick
<1>6. CASE UNCHANGED vars
  BY <1>6 DEF vars
<1>7. QED
  BY <1>1, <1>2, <1>3, <1>4, <1>5, <1>6 DEF Next

LEMMA LaterIsStillReady ==
    ASSUME NEW time \in Nat, NEW last \in Nat, NEW period \in Nat,
           time - last >= period
    PROVE  (time + 1) - last >= period
  OBVIOUS

LEMMA GrantInvTick ==
    ASSUME LimiterInv, Tick
    PROVE  GrantInv'
<1> SUFFICES ASSUME NEW p \in Process, pc'[p] = "touch_if_ready", pinged' # None
             PROVE  now' - pinged' >= MinimumPeriod
  BY DEF GrantInv
<1>1. pc' = pc /\ pinged' = pinged /\ now' = now + 1
  BY DEF Tick
<1>2. now \in Times /\ pinged \in Times
  BY <1>1 DEF LimiterInv, TypeOK
<1>3. now \in Nat /\ pinged \in Nat /\ MinimumPeriod \in Nat
  BY <1>2, TimesAreNat, RateLimiterAssumption
<1>4. now - pinged >= MinimumPeriod
  BY <1>1 DEF LimiterInv, GrantInv
<1>5. (now + 1) - pinged >= MinimumPeriod
  BY <1>3, <1>4, LaterIsStillReady
<1>6. QED
  BY <1>1, <1>5

LEMMA GrantInvStep ==
    ASSUME LimiterInv, [Next]_vars
    PROVE  GrantInv'
<1> USE RateLimiterAssumption, TimesAreNat
    DEF LimiterInv, TypeOK, GrantInv, Goto
<1>1. ASSUME NEW p \in Process,
             Call(p) \/ OpenFile(p) \/ LockFile(p) \/ IsReady(p) \/ Crash(p)
      PROVE  GrantInv'
  BY <1>1 DEF Call, OpenFile, LockFile, IsReady, Crash
<1>2. ASSUME NEW p \in Process, Check(p)
      PROVE  GrantInv'
  BY <1>2 DEF Check, Ready, SpacingInv
\* The process that touches the file is the only one that could.
<1>3. ASSUME NEW p \in Process, Touch(p)
      PROVE  GrantInv'
  BY <1>3 DEF Touch, HolderInv
<1>4. CASE Tick
  BY <1>4, GrantInvTick
<1>5. CASE UNCHANGED vars
  BY <1>5 DEF vars
<1>6. QED
  BY <1>1, <1>2, <1>3, <1>4, <1>5 DEF Next

LEMMA LimiterInvariance ==
    ASSUME FileExists
    PROVE  Spec => []LimiterInv
<1>1. Init => LimiterInv
  <2>1. Init => SpacingInv
    BY RateLimiterAssumption DEF Init, SpacingInv, StartTime
  <2>2. Init => HolderInv /\ GrantInv
    BY DEF Init, HolderInv, GrantInv
  <2>3. QED
    BY <2>1, <2>2, TypingInit DEF LimiterInv
<1>2. LimiterInv /\ [Next]_vars => LimiterInv'
  BY TypingStep, HolderInvStep, SpacingInvStep, GrantInvStep DEF LimiterInv
<1>3. QED
  BY <1>1, <1>2, PTL DEF Spec

\* Only Check leaves the location "check", unless the process crashes.
LEMMA CheckDecides ==
    ASSUME LimiterInv, Next, NEW p \in Process, pc[p] = "check", pc'[p] # "check"
    PROVE  Check(p) \/ (Crash(p) /\ pc'[p] = "idle" /\ timestamp'[p] = 0)
<1> USE DEF LimiterInv, TypeOK, Goto
<1>1. PICK q \in Process :
        \/ Call(q) \/ OpenFile(q) \/ LockFile(q) \/ Check(q) \/ Touch(q)
        \/ IsReady(q) \/ Crash(q)
  BY DEF Next, Tick
<1>2. q = p
  BY <1>1 DEF Call, OpenFile, LockFile, Check, Touch, IsReady, Crash
<1>3. QED
  BY <1>1, <1>2 DEF Call, OpenFile, LockFile, Check, Touch, IsReady, Crash

(* An action granted to any process is minimum_period or more after every  *)
(* action recorded before it, whoever recorded that and whoever crashed.   *)
THEOREM LimiterActionsAreSpaced ==
    ASSUME FileExists
    PROVE  Spec => ActionsAreSpaced
<1>1. LimiterInv /\ [Next]_vars =>
        [\A p \in Process :
            Grants(p) => pinged = None \/ now - pinged >= MinimumPeriod]_vars
  BY DEF Grants, LimiterInv, GrantInv
<1>2. QED
  BY <1>1, LimiterInvariance, PTL DEF Spec, ActionsAreSpaced

(* An action is denied only within minimum_period of a recorded action.    *)
THEOREM LimiterDenialIsGrounded ==
    ASSUME FileExists
    PROVE  Spec => DenialIsGrounded
<1>1. LimiterInv /\ [Next]_vars =>
        [\A p \in Process :
            Denies(p) => pinged # None /\ now - pinged < MinimumPeriod]_vars
  <2> SUFFICES ASSUME LimiterInv, Next, NEW p \in Process, Denies(p)
               PROVE  pinged # None /\ now - pinged < MinimumPeriod
    OBVIOUS
  <2>1. Check(p) /\ pc'[p] = "idle"
    BY CheckDecides DEF Denies, LimiterInv
  <2>2. ~Ready(p)
    BY <2>1 DEF Check, Goto, LimiterInv, TypeOK
  <2>3. QED
    BY <2>2, RateLimiterAssumption, TimesAreNat
       DEF Ready, LimiterInv, TypeOK, SpacingInv
<1>2. QED
  BY <1>1, LimiterInvariance, PTL DEF Spec, DenialIsGrounded
-------------------------------------------------------------------------------
(* The error boundary of module SlackBoundary, which shares the limiter.   *)

LEMMA HandlerUsesLimiter ==
    ASSUME BoundaryNext
    PROVE  Next \/ UNCHANGED vars
<1>1. CASE Tick
  BY <1>1 DEF Next
<1>2. ASSUME NEW p \in Process,
             \/ AttemptFails(p) \/ UseLimiter(p) \/ LimiterGoesOn(p)
             \/ Deny(p) \/ Grant(p) \/ SchedulerEnds(p)
      PROVE  Next
  BY <1>2 DEF AttemptFails, UseLimiter, LimiterGoesOn, Deny, Grant,
              SchedulerEnds, Next
<1>3. ASSUME NEW p \in Process, Post(p) \/ PostFails(p)
      PROVE  UNCHANGED vars
  BY <1>3 DEF Post, PostFails
<1>4. QED
  BY <1>1, <1>2, <1>3 DEF BoundaryNext

(* The schedulers use the limiter as any process may: whatever holds of it *)
(* holds in the error boundary, too.                                       *)
THEOREM BoundaryUsesLimiter == BoundarySpec => Spec
<1>1. BoundaryInit => Init
  BY DEF BoundaryInit
<1>2. [BoundaryNext]_<<vars, boundaryVars>> => [Next]_vars
  BY HandlerUsesLimiter
<1>3. QED
  BY <1>1, <1>2, PTL DEF BoundarySpec, Spec

\* What a scheduler asks the limiter for as long as it is in the handler.
Asking == {"open_if_ready", "lock_if_ready", "check", "touch_if_ready"}

BoundaryTyping ==
    /\ at \in [Process -> {"attempt", "limiter", "post"}]
    /\ posts \in Nat

(* A scheduler is in ping_if_ready exactly while its handler waits for the *)
(* answer, so what is granted there is granted to a handler.               *)
HandlerInv == \A p \in Process : at[p] = "limiter" <=> pc[p] \in Asking

\* The period of the clock that contains a time.
PeriodOf(time) == (time - StartTime) \div MinimumPeriod

(* The periods that have begun until the last action leave room for all    *)
(* posts made and granted.                                                 *)
CountInv ==
    /\ IsFiniteSet(Pending)
    /\ pinged = None => posts + Cardinality(Pending) = 0
    /\ pinged # None =>
        /\ pinged \in StartTime..now
        /\ posts + Cardinality(Pending) <= 1 + PeriodOf(pinged)

BoundaryInv == LimiterInv /\ BoundaryTyping /\ HandlerInv /\ CountInv

LEMMA PeriodsBegin ==
    ASSUME NEW period \in Nat \ {0}, NEW a \in Nat, NEW b \in Nat
    PROVE  /\ a \div period \in Nat
           /\ a <= b => a \div period <= b \div period
           /\ b - a >= period => 1 + (a \div period) <= b \div period
  OBVIOUS

LEMMA HandlerInvInit == BoundaryInit => BoundaryTyping /\ HandlerInv
  BY DEF BoundaryInit, Init, BoundaryTyping, HandlerInv, Asking

LEMMA HandlerInvStep ==
    ASSUME BoundaryInv, [BoundaryNext]_<<vars, boundaryVars>>
    PROVE  BoundaryTyping' /\ HandlerInv'
<1> USE DEF BoundaryInv, LimiterInv, TypeOK, Locations, BoundaryTyping,
            HandlerInv, Asking, Handler, Goto, boundaryVars
<1>1. ASSUME NEW p \in Process, AttemptFails(p) \/ UseLimiter(p)
      PROVE  BoundaryTyping' /\ HandlerInv'
  BY <1>1 DEF AttemptFails, UseLimiter, Call, IsReady
<1>2. ASSUME NEW p \in Process, LimiterGoesOn(p)
      PROVE  BoundaryTyping' /\ HandlerInv'
  BY <1>2 DEF LimiterGoesOn, OpenFile, LockFile, Check, Touch
<1>3. ASSUME NEW p \in Process, Deny(p) \/ Grant(p)
      PROVE  BoundaryTyping' /\ HandlerInv'
  BY <1>3 DEF Deny, Grant, Check, Touch
<1>4. ASSUME NEW p \in Process, Post(p) \/ PostFails(p)
      PROVE  BoundaryTyping' /\ HandlerInv'
  <2>1. UNCHANGED pc
    BY <1>4 DEF Post, PostFails, vars
  <2>2. posts' \in Nat
    BY <1>4 DEF Post, PostFails
  <2>3. at[p] = "post" /\ at' = [at EXCEPT ![p] = "attempt"]
    BY <1>4 DEF Post, PostFails
  <2>4. QED
    BY <2>1, <2>2, <2>3
<1>5. ASSUME NEW p \in Process, SchedulerEnds(p)
      PROVE  BoundaryTyping' /\ HandlerInv'
  BY <1>5 DEF SchedulerEnds, Crash
<1>6. CASE Tick /\ UNCHANGED boundaryVars
  BY <1>6 DEF Tick
<1>7. CASE UNCHANGED <<vars, boundaryVars>>
  BY <1>7 DEF vars
<1>8. QED
  BY <1>1, <1>2, <1>3, <1>4, <1>5, <1>6, <1>7 DEF BoundaryNext

\* A step that posts nothing and grants nothing leaves room for what there was.
LEMMA CountInvKept ==
    ASSUME BoundaryInv, UNCHANGED <<pinged, posts>>,
           Pending' \subseteq Pending, now <= now', now' \in Nat
    PROVE  CountInv'
<1>1. IsFiniteSet(Pending') /\ Cardinality(Pending') <= Cardinality(Pending)
  BY FS_Subset DEF BoundaryInv, CountInv
<1>2. Cardinality(Pending') \in Nat /\ Cardinality(Pending) \in Nat
  BY <1>1, FS_CardinalityType DEF BoundaryInv, CountInv
<1>3. posts \in Nat /\ now \in Nat /\ StartTime \in Nat /\ MinimumPeriod \in Nat \ {0}
  BY TimesAreNat, RateLimiterAssumption
     DEF BoundaryInv, BoundaryTyping, LimiterInv, TypeOK
<1>4. CASE pinged = None
  BY <1>1, <1>2, <1>3, <1>4 DEF BoundaryInv, CountInv
<1>5. CASE pinged # None
  <2>1. pinged \in StartTime..now
    BY <1>5 DEF BoundaryInv, CountInv
  <2>2. PeriodOf(pinged) \in Nat /\ PeriodOf(pinged)' = PeriodOf(pinged)
    BY <2>1, <1>3, PeriodsBegin DEF PeriodOf, StartTime
  <2>3. QED
    BY <1>1, <1>2, <1>3, <1>5, <2>1, <2>2
       DEF BoundaryInv, CountInv, StartTime
<1>6. QED
  BY <1>4, <1>5

\* A granted action begins a period of its own.
LEMMA CountInvGrant ==
    ASSUME BoundaryInv, NEW p \in Process, Grant(p)
    PROVE  CountInv'
<1>1. pc[p] = "touch_if_ready" /\ pinged' = now
  BY DEF Grant, Touch, Handler, Goto, BoundaryInv, HandlerInv, Asking
<1>2. UNCHANGED <<now, posts>>
  BY DEF Grant, Touch
<1>3. Pending' = Pending \cup {p} /\ p \notin Pending
  BY DEF Grant, Handler, Pending, BoundaryInv, BoundaryTyping
<1>4. /\ IsFiniteSet(Pending')
      /\ Cardinality(Pending) \in Nat
      /\ Cardinality(Pending') = Cardinality(Pending) + 1
  BY <1>3, FS_AddElement, FS_CardinalityType DEF BoundaryInv, CountInv
<1>5. /\ posts \in Nat /\ now \in Nat /\ StartTime \in Nat
      /\ MinimumPeriod \in Nat \ {0} /\ now >= StartTime /\ now # None
  BY TimesAreNat, RateLimiterAssumption
     DEF BoundaryInv, BoundaryTyping, LimiterInv, TypeOK, SpacingInv, StartTime
<1>6. /\ PeriodOf(now) \in Nat
      /\ posts + Cardinality(Pending) <= PeriodOf(now)
  <2>1. PeriodOf(now) \in Nat
    BY <1>5, PeriodsBegin DEF PeriodOf
  <2>2. CASE pinged = None
    BY <2>1, <2>2, <1>4, <1>5 DEF BoundaryInv, CountInv
  <2>3. CASE pinged # None
    <3>1. pinged \in StartTime..now /\ now - pinged >= MinimumPeriod
      BY <2>3, <1>1 DEF BoundaryInv, CountInv, LimiterInv, GrantInv
    <3>2. /\ pinged - StartTime \in Nat /\ now - StartTime \in Nat
          /\ (now - StartTime) - (pinged - StartTime) >= MinimumPeriod
      BY <3>1, <1>5
    <3>3. PeriodOf(pinged) \in Nat /\ 1 + PeriodOf(pinged) <= PeriodOf(now)
      BY <3>2, <1>5, PeriodsBegin DEF PeriodOf
    <3>4. QED
      BY <2>1, <3>3, <2>3, <1>4, <1>5 DEF BoundaryInv, CountInv
  <2>4. QED
    BY <2>1, <2>2, <2>3
<1>7. posts + Cardinality(Pending) + 1 <= 1 + PeriodOf(now)
  BY <1>4, <1>5, <1>6
<1>8. pinged' # None /\ pinged' \in StartTime..now'
  BY <1>1, <1>2, <1>5
<1>9. PeriodOf(pinged') = PeriodOf(now)
  BY <1>1
<1>10. posts' + Cardinality(Pending') <= 1 + PeriodOf(pinged')
  BY <1>2, <1>4, <1>5, <1>7, <1>9
<1>11. QED
  BY <1>4, <1>8, <1>10 DEF CountInv, PeriodOf, StartTime
\* ping() records an action, and grants nothing to a handler.
LEMMA CountInvPing ==
    ASSUME BoundaryInv, NEW p \in Process, Touch(p), UNCHANGED boundaryVars
    PROVE  CountInv'
<1>1. pinged' = now /\ UNCHANGED <<now, posts, at>>
  BY DEF Touch, boundaryVars
<1>2. Pending' = Pending
  BY <1>1 DEF Pending
<1>3. /\ posts \in Nat /\ now \in Nat /\ StartTime \in Nat
      /\ MinimumPeriod \in Nat \ {0} /\ now >= StartTime /\ now # None
  BY TimesAreNat, RateLimiterAssumption
     DEF BoundaryInv, BoundaryTyping, LimiterInv, TypeOK, SpacingInv, StartTime
<1>4. PeriodOf(now) \in Nat
  BY <1>3, PeriodsBegin DEF PeriodOf
<1>5. posts + Cardinality(Pending) <= 1 + PeriodOf(now)
  <2>1. CASE pinged = None
    BY <1>4, <2>1 DEF BoundaryInv, CountInv
  <2>2. CASE pinged # None
    <3>1. /\ pinged \in StartTime..now
          /\ posts + Cardinality(Pending) <= 1 + PeriodOf(pinged)
      BY <2>2 DEF BoundaryInv, CountInv
    <3>2. PeriodOf(pinged) \in Nat /\ PeriodOf(pinged) <= PeriodOf(now)
      BY <3>1, <1>3, PeriodsBegin DEF PeriodOf
    <3>3. Cardinality(Pending) \in Nat
      BY FS_CardinalityType DEF BoundaryInv, CountInv
    <3>4. QED
      BY <3>1, <3>2, <3>3, <1>3, <1>4
  <2>3. QED
    BY <2>1, <2>2
<1>6. pinged' # None /\ pinged' \in StartTime..now'
  BY <1>1, <1>3
<1>7. PeriodOf(pinged') = PeriodOf(now)
  BY <1>1
<1>8. IsFiniteSet(Pending')
  BY <1>2 DEF BoundaryInv, CountInv
<1>9. posts' + Cardinality(Pending') <= 1 + PeriodOf(pinged')
  BY <1>1, <1>2, <1>5, <1>7
<1>10. QED
  BY <1>6, <1>8, <1>9 DEF CountInv, PeriodOf, StartTime

\* A post moves from those granted to those made.
LEMMA CountInvPost ==
    ASSUME BoundaryInv, NEW p \in Process, Post(p)
    PROVE  CountInv'
<1>1. posts' = posts + 1 /\ UNCHANGED <<pinged, now>>
  BY DEF Post, vars
<1>2. Pending' = Pending \ {p} /\ p \in Pending
  BY DEF Post, Handler, Pending, BoundaryInv, BoundaryTyping
<1>3. /\ IsFiniteSet(Pending')
      /\ Cardinality(Pending) \in Nat
      /\ Cardinality(Pending') = Cardinality(Pending) - 1
  BY <1>2, FS_RemoveElement, FS_CardinalityType DEF BoundaryInv, CountInv
<1>4. posts' + Cardinality(Pending') = posts + Cardinality(Pending)
  BY <1>1, <1>3 DEF BoundaryInv, BoundaryTyping
<1>5. PeriodOf(pinged)' = PeriodOf(pinged)
  BY <1>1 DEF PeriodOf, StartTime
<1>6. QED
  BY <1>1, <1>3, <1>4, <1>5 DEF BoundaryInv, CountInv, StartTime

LEMMA CountInvStep ==
    ASSUME BoundaryInv, [BoundaryNext]_<<vars, boundaryVars>>
    PROVE  CountInv'
<1> USE DEF BoundaryInv, BoundaryTyping, Handler, Goto, Pending, boundaryVars
<1>1. now \in Nat
  BY TimesAreNat DEF LimiterInv, TypeOK
<1>2. ASSUME NEW p \in Process, AttemptFails(p) \/ UseLimiter(p)
      PROVE  CountInv'
  BY <1>1, <1>2, CountInvKept DEF AttemptFails, UseLimiter, Call, IsReady
\* ping() charges the limiter, and leaves more room than there was.
<1>3. ASSUME NEW p \in Process, LimiterGoesOn(p)
      PROVE  CountInv'
  <2>1. CASE Touch(p)
    BY <1>1, <1>3, <2>1, CountInvPing DEF LimiterGoesOn, HandlerInv, Asking
  <2>2. CASE OpenFile(p) \/ LockFile(p) \/ Check(p)
    <3>1. UNCHANGED <<pinged, posts, at, now>>
      BY <1>3, <2>2
         DEF LimiterGoesOn, OpenFile, LockFile, Check, Touch, HandlerInv, Asking
    <3>2. QED
      BY <1>1, <3>1, CountInvKept
  <2>3. QED
    BY <1>3, <2>1, <2>2 DEF LimiterGoesOn
<1>4. ASSUME NEW p \in Process, Deny(p)
      PROVE  CountInv'
  BY <1>1, <1>4, CountInvKept DEF Deny, Check
<1>5. ASSUME NEW p \in Process, Grant(p)
      PROVE  CountInv'
  BY <1>5, CountInvGrant
<1>6. ASSUME NEW p \in Process, Post(p)
      PROVE  CountInv'
  BY <1>6, CountInvPost
<1>7. ASSUME NEW p \in Process, PostFails(p) \/ SchedulerEnds(p)
      PROVE  CountInv'
  BY <1>1, <1>7, CountInvKept DEF PostFails, SchedulerEnds, Crash, vars
<1>8. CASE Tick /\ UNCHANGED boundaryVars
  BY <1>1, <1>8, CountInvKept DEF Tick
<1>9. CASE UNCHANGED <<vars, boundaryVars>>
  BY <1>1, <1>9, CountInvKept DEF vars
<1>10. QED
  BY <1>2, <1>3, <1>4, <1>5, <1>6, <1>7, <1>8, <1>9 DEF BoundaryNext

LEMMA BoundaryInvariance ==
    ASSUME FileExists
    PROVE  BoundarySpec => []BoundaryInv
<1>1. BoundaryInit => CountInv
  <2> SUFFICES ASSUME BoundaryInit PROVE CountInv
    OBVIOUS
  <2>1. Pending = {} /\ posts = 0 /\ pinged = None
    BY DEF BoundaryInit, Init, Pending
  <2>2. QED
    BY <2>1, FS_EmptySet DEF CountInv
<1>2. BoundaryInit => BoundaryTyping /\ HandlerInv
  BY HandlerInvInit
<1>3. LimiterInv /\ BoundaryTyping /\ HandlerInv /\ CountInv
      /\ [BoundaryNext]_<<vars, boundaryVars>>
      => BoundaryTyping' /\ HandlerInv' /\ CountInv'
  BY HandlerInvStep, CountInvStep DEF BoundaryInv
<1>4. BoundaryInv <=> LimiterInv /\ BoundaryTyping /\ HandlerInv /\ CountInv
  BY DEF BoundaryInv
<1>5. QED
  BY <1>1, <1>2, <1>3, <1>4, BoundaryUsesLimiter, LimiterInvariance, PTL
     DEF BoundarySpec

(* The schedulers' handlers keep their types, the limiter's included.      *)
THEOREM HandlerTyping == BoundarySpec => []BoundaryTypeOK
<1>1. BoundaryInit => BoundaryTyping
  BY HandlerInvInit
<1>2. BoundaryTyping /\ [BoundaryNext]_<<vars, boundaryVars>> => BoundaryTyping'
  BY DEF BoundaryTyping, BoundaryNext, AttemptFails, UseLimiter, LimiterGoesOn,
         Deny, Grant, Post, PostFails, SchedulerEnds, Handler, boundaryVars
<1>3. BoundaryTypeOK <=> TypeOK /\ BoundaryTyping
  BY DEF BoundaryTypeOK, BoundaryTyping
<1>4. QED
  BY <1>1, <1>2, <1>3, BoundaryUsesLimiter, LimiterTyping, PTL DEF BoundarySpec

(* However many schedulers fail, and however late they post what they were *)
(* granted: once the limiter's file exists, the posts never outnumber the  *)
(* periods that have begun.                                                *)
THEOREM HandlerPostsAreFew ==
    ASSUME FileExists
    PROVE  BoundarySpec => []PostsAreFew
<1>1. BoundaryInv => PostsAreFew
  <2> SUFFICES ASSUME BoundaryInv PROVE PostsAreFew
    OBVIOUS
  <2>1. /\ posts \in Nat /\ now \in Nat /\ StartTime \in Nat
        /\ MinimumPeriod \in Nat \ {0} /\ now >= StartTime
    BY TimesAreNat, RateLimiterAssumption
       DEF BoundaryInv, BoundaryTyping, LimiterInv, TypeOK, SpacingInv, StartTime
  <2>2. Cardinality(Pending) \in Nat
    BY FS_CardinalityType DEF BoundaryInv, CountInv
  <2>3. PeriodOf(now) \in Nat
    BY <2>1, PeriodsBegin DEF PeriodOf
  <2>4. CASE pinged = None
    BY <2>1, <2>2, <2>3, <2>4 DEF BoundaryInv, CountInv, PostsAreFew, PeriodOf
  <2>5. CASE pinged # None
    <3>1. /\ pinged \in StartTime..now
          /\ posts + Cardinality(Pending) <= 1 + PeriodOf(pinged)
      BY <2>5 DEF BoundaryInv, CountInv
    <3>2. PeriodOf(pinged) \in Nat /\ PeriodOf(pinged) <= PeriodOf(now)
      BY <3>1, <2>1, PeriodsBegin DEF PeriodOf
    <3>3. posts + Cardinality(Pending) <= 1 + PeriodOf(now)
      BY <3>1, <3>2, <2>1, <2>2, <2>3
    <3>4. QED
      BY <3>3 DEF PostsAreFew, PeriodOf
  <2>6. QED
    BY <2>4, <2>5
<1>2. QED
  BY <1>1, BoundaryInvariance, PTL
===============================================================================
