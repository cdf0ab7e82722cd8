-------------------------- MODULE RollingWindowProofs --------------------------
(***************************************************************************)
(* Proofs about RollingWindow, for any number of processes, events and any *)
(* window: the window is never over-full by a granted event, and the file  *)
(* forgets nothing that still counts, though processes crash and the clock *)
(* moves between the reading of it and the replacement of the file.        *)
(***************************************************************************)
EXTENDS RollingWindow, FiniteSetTheorems, TLAPS

\* The stamp of an event that is on file.
StampOf(i) == [event |-> i, at |-> events[i].at]

\* What a process keeps that reads the clock at a time.
Kept(time) == {stamp \in file : stamp.at > time - Window}

\* No event that lies in the window ending at a time is missing.
Complete(time) ==
    \A i \in DOMAIN events : events[i].at > time - Window => StampOf(i) \in file

(* Whoever is between lock and unlock holds the lock.                      *)
HolderInv == \A p \in Process : pc[p] # "idle" => holder = p

(* What is on file has happened.                                           *)
FileInv == \A stamp \in file : stamp.event \in DOMAIN events /\ stamp = StampOf(stamp.event)

(* A process that is about to replace the file has pruned it for a time    *)
(* that may have passed, and nothing was missing for that time; it found   *)
(* room if it was to grant the event.                                      *)
PendingInv ==
    \A p \in Process : pc[p] \in {"granting", "pinging"} =>
        \E time \in 0..now :
            /\ timestamps[p] = Kept(time) \cup {StampAt(time)}
            /\ Complete(time)
            /\ pc[p] = "granting" => Cardinality(Kept(time)) < MaxEvents

WindowInv ==
    TypeOK /\ HolderInv /\ FileInv /\ PendingInv /\ WindowHolds /\ NothingForgotten

-------------------------------------------------------------------------------
LEMMA WindowInvInit == Init => WindowInv
<1> SUFFICES ASSUME Init PROVE WindowInv
  OBVIOUS
<1>1. TypeOK
  BY RollingWindowAssumption DEF Init, TypeOK
<1>2. HolderInv /\ FileInv /\ PendingInv /\ WindowHolds /\ NothingForgotten
  BY DEF Init, HolderInv, FileInv, PendingInv, WindowHolds, NothingForgotten
<1> QED
  BY <1>1, <1>2 DEF WindowInv

LEMMA StampsAreTyped ==
    ASSUME TypeOK, NEW time \in 0..MaxTime
    PROVE  StampAt(time) \in Stamp
<1>1. Len(events) \in Nat
  BY DEF TypeOK
<1> QED
  BY <1>1 DEF StampAt, Stamp

LEMMA EventsAreTyped ==
    ASSUME TypeOK, NEW i \in DOMAIN events
    PROVE  events[i].at \in Nat
<1>1. DOMAIN events = 1..Len(events) /\ events \in Seq(Event)
  BY DEF TypeOK
<1>2. events[i] \in Event
  BY <1>1
<1> QED
  BY <1>2 DEF Event

LEMMA WindowTypingStep ==
    ASSUME TypeOK, HolderInv, [Next]_vars
    PROVE  TypeOK'
<1> USE RollingWindowAssumption DEF TypeOK, Goto
<1>1. ASSUME NEW p \in Process, NEW asked \in BOOLEAN, Begin(p, asked)
      PROVE  TypeOK'
  <2>1. Recent \cup {StampAt(now)} \subseteq Stamp
    BY StampsAreTyped DEF Recent
  <2> QED
    BY <1>1, <2>1 DEF Begin
<1>2. ASSUME NEW p \in Process, PingIfReady(p) \/ Ping(p)
      PROVE  TypeOK'
  BY <1>1, <1>2 DEF PingIfReady, Ping
<1>3. ASSUME NEW p \in Process, Deny(p) \/ IsReady(p)
      PROVE  TypeOK'
  BY <1>3 DEF Deny, IsReady, Recent
<1>4. ASSUME NEW p \in Process, Replace(p)
      PROVE  TypeOK'
  <2>1. PICK stamp \in timestamps[p] :
          events' = Append(events, [at |-> stamp.at, asked |-> pc[p] = "granting"])
    BY <1>4 DEF Replace
  <2>2. stamp.at \in 0..MaxTime
    BY DEF Stamp
  <2>3. [at |-> stamp.at, asked |-> pc[p] = "granting"] \in Event
    BY <2>2 DEF Event
  <2>4. events' \in Seq(Event)
    BY <2>1, <2>3
  <2> QED
    BY <1>4, <2>4 DEF Replace
<1>5. ASSUME NEW p \in Process, Grant(p) \/ Fail(p)
      PROVE  TypeOK'
  BY <1>5 DEF Grant, Fail
<1>6. CASE Tick \/ UNCHANGED vars
  BY <1>6 DEF Tick, vars
<1> QED
  BY <1>2, <1>3, <1>4, <1>5, <1>6 DEF Next

LEMMA WindowHolderStep ==
    ASSUME TypeOK, HolderInv, [Next]_vars
    PROVE  HolderInv'
<1> USE RollingWindowAssumption DEF TypeOK, HolderInv, Goto
<1>1. ASSUME NEW p \in Process, PingIfReady(p) \/ Ping(p) \/ Deny(p) \/ IsReady(p)
      PROVE  HolderInv'
  BY <1>1 DEF PingIfReady, Ping, Begin, Deny, IsReady
<1>2. ASSUME NEW p \in Process, Replace(p) \/ Grant(p) \/ Fail(p)
      PROVE  HolderInv'
  BY <1>2 DEF Replace, Grant, Fail
<1>3. CASE Tick \/ UNCHANGED vars
  BY <1>3 DEF Tick, vars
<1> QED
  BY <1>1, <1>2, <1>3 DEF Next

(* Steps that put no event on file: the file may get no smaller, and time  *)
(* only passes.                                                            *)
LEMMA UnchangedFileKeeps ==
    ASSUME WindowInv, UNCHANGED <<file, events>>, now' \in Nat, now <= now'
    PROVE  FileInv' /\ WindowHolds' /\ NothingForgotten'
<1>1. FileInv'
  BY DEF WindowInv, FileInv, StampOf
<1>2. WindowHolds'
  BY DEF WindowInv, WindowHolds
<1>3. ASSUME NEW i \in DOMAIN events, events[i].at > now' - Window
      PROVE  events[i].at > now - Window
  <2>1. now \in Nat /\ Window \in Nat
    BY RollingWindowAssumption DEF WindowInv, TypeOK
  <2>2. events[i].at \in Nat
    BY EventsAreTyped DEF WindowInv
  <2> QED
    BY <1>3, <2>1, <2>2
<1>4. NothingForgotten'
  BY <1>3 DEF WindowInv, NothingForgotten
<1> QED
  BY <1>1, <1>2, <1>4

(* What a pending process has found stays so until it replaces the file.   *)
LEMMA PendingStays ==
    ASSUME WindowInv, UNCHANGED <<file, events>>, now' \in Nat, now <= now',
           NEW p \in Process, pc[p] \in {"granting", "pinging"},
           UNCHANGED <<pc[p], timestamps[p]>>
    PROVE  \E time \in 0..now' :
               /\ timestamps'[p] = Kept(time)' \cup {StampAt(time)'}
               /\ Complete(time)'
               /\ pc'[p] = "granting" => Cardinality(Kept(time)') < MaxEvents
<1>1. PICK time \in 0..now :
          /\ timestamps[p] = Kept(time) \cup {StampAt(time)}
          /\ Complete(time)
          /\ pc[p] = "granting" => Cardinality(Kept(time)) < MaxEvents
  BY DEF WindowInv, PendingInv
<1>2. time \in 0..now'
  BY DEF WindowInv, TypeOK
<1>3. /\ Kept(time)' = Kept(time)
      /\ StampAt(time)' = StampAt(time)
      /\ Complete(time)' <=> Complete(time)
  BY DEF Kept, StampAt, Complete, StampOf
<1> QED
  BY <1>1, <1>2, <1>3

LEMMA BeginKeeps ==
    ASSUME WindowInv, NEW p \in Process, NEW asked \in BOOLEAN, Begin(p, asked),
           asked => HasCapacity
    PROVE  FileInv' /\ PendingInv' /\ WindowHolds' /\ NothingForgotten'
<1>1. UNCHANGED <<file, events, now>> /\ now \in Nat
  BY DEF Begin, WindowInv, TypeOK
<1>2. FileInv' /\ WindowHolds' /\ NothingForgotten'
  BY <1>1, UnchangedFileKeeps
<1>3. /\ timestamps'[p] = Kept(now)' \cup {StampAt(now)'}
      /\ Complete(now)'
      /\ pc'[p] = "granting" => Cardinality(Kept(now)') < MaxEvents
  <2>1. Kept(now)' = Recent /\ StampAt(now)' = StampAt(now)
    BY <1>1 DEF Kept, Recent, StampAt
  <2>2. Complete(now)'
    BY <1>1 DEF Complete, StampOf, WindowInv, NothingForgotten
  <2>3. timestamps'[p] = Recent \cup {StampAt(now)}
    BY DEF Begin, WindowInv, TypeOK
  <2>4. pc'[p] = "granting" => asked
    BY DEF Begin, Goto, WindowInv, TypeOK
  <2> QED
    BY <2>1, <2>2, <2>3, <2>4 DEF HasCapacity
<1>4. \A q \in Process : pc[q] = "idle"
  BY RollingWindowAssumption DEF Begin, WindowInv, HolderInv
<1>5. \A q \in Process \ {p} : pc'[q] = "idle"
  BY <1>4 DEF Begin, Goto, WindowInv, TypeOK
<1>6. PendingInv'
  BY <1>1, <1>3, <1>5 DEF PendingInv
<1> QED
  BY <1>2, <1>6

LEMMA CountsAreNat ==
    ASSUME NEW n \in Nat, NEW time, NEW s
    PROVE  Cardinality({i \in 1..n : s[i].at > time - Window}) \in Nat
<1> DEFINE S == {i \in 1..n : s[i].at > time - Window}
<1>1. IsFiniteSet(1..n) /\ S \in SUBSET (1..n)
  BY FS_Interval
<1>2. IsFiniteSet(S)
  BY <1>1, FS_Subset
<1> QED
  BY <1>2, FS_CardinalityType

(* The events on file are as many as their stamps.                         *)
LEMMA RecentAreCounted ==
    ASSUME TypeOK, FileInv, NEW time \in Nat, Complete(time)
    PROVE  /\ IsFiniteSet(Kept(time))
           /\ Cardinality({i \in 1..Len(events) : events[i].at > time - Window})
                <= Cardinality(Kept(time))
<1> DEFINE S == {i \in 1..Len(events) : events[i].at > time - Window}
           number == [stamp \in Kept(time) |-> stamp.event]
           stamps == [i \in S |-> StampOf(i)]
<1>1. Len(events) \in Nat /\ DOMAIN events = 1..Len(events)
  BY DEF TypeOK
<1>2. IsFiniteSet(1..Len(events))
  BY <1>1, FS_Interval
<1>3. number \in Injection(Kept(time), 1..Len(events))
  <2>1. \A stamp \in Kept(time) :
          stamp.event \in 1..Len(events) /\ stamp = StampOf(stamp.event)
    BY <1>1 DEF Kept, FileInv
  <2> QED
    BY <2>1 DEF Injection, IsInjective
<1>4. IsFiniteSet(Kept(time))
  BY <1>2, <1>3, FS_Injection
<1>5. stamps \in Injection(S, Kept(time))
  <2>1. \A i \in S : StampOf(i) \in Kept(time)
    BY <1>1 DEF Complete, Kept, StampOf
  <2>2. \A i, j \in S : StampOf(i) = StampOf(j) => i = j
    BY DEF StampOf
  <2> QED
    BY <2>1, <2>2 DEF Injection, IsInjective
<1>6. Cardinality(S) <= Cardinality(Kept(time))
  BY <1>4, <1>5, FS_Injection
<1> QED
  BY <1>4, <1>6

LEMMA ReplaceKeeps ==
    ASSUME WindowInv, NEW p \in Process, Replace(p), TypeOK'
    PROVE  FileInv' /\ PendingInv' /\ WindowHolds' /\ NothingForgotten'
<1>0. PICK n \in Nat : n = Len(events) + 1
  <2>1. Len(events) \in Nat
    BY DEF WindowInv, TypeOK
  <2> QED
    BY <2>1
<1>1. PICK time \in 0..now :
          /\ timestamps[p] = Kept(time) \cup {StampAt(time)}
          /\ Complete(time)
          /\ pc[p] = "granting" => Cardinality(Kept(time)) < MaxEvents
  BY DEF WindowInv, PendingInv, Replace
<1>2. /\ Len(events) \in Nat /\ DOMAIN events = 1..Len(events) /\ Len(events) = n - 1
      /\ time \in Nat /\ now \in Nat /\ Window \in Nat
      /\ UNCHANGED <<now, timestamps>> /\ pc' = [pc EXCEPT ![p] = "replaced"]
      /\ pc \in [Process -> {"idle", "granting", "pinging", "replaced"}]
      /\ pc[p] # "idle" /\ file' = Kept(time) \cup {StampAt(time)}
  BY <1>0, <1>1, RollingWindowAssumption DEF Replace, Goto, WindowInv, TypeOK
<1>3. PICK stamp \in timestamps[p] :
          /\ stamp.event = n
          /\ events' = Append(events, [at |-> stamp.at, asked |-> pc[p] = "granting"])
  BY <1>0 DEF Replace
<1>4. stamp = StampAt(time)
  <2>1. stamp \notin Kept(time)
    BY <1>2, <1>3 DEF Kept, WindowInv, FileInv
  <2> QED
    BY <1>1, <2>1
<1>5. /\ DOMAIN events' = 1..n
      /\ events'[n].at = time /\ (events'[n].asked => pc[p] = "granting")
      /\ \A i \in 1..Len(events) : events'[i] = events[i]
      /\ \A i \in 1..n : i # n => i \in 1..Len(events)
  <2> DEFINE e == [at |-> time, asked |-> pc[p] = "granting"]
  <2>1. events' = Append(events, e)
    BY <1>3, <1>4 DEF StampAt
  <2>2. events \in Seq(Event)
    BY DEF WindowInv, TypeOK
  <2> HIDE DEF e
  <2>3. /\ DOMAIN Append(events, e) = 1..Len(events) + 1
        /\ Append(events, e)[Len(events) + 1] = e
        /\ \A i \in 1..Len(events) : Append(events, e)[i] = events[i]
    BY <2>2, <1>2
  <2>4. \A i \in 1..n : i # n => i \in 1..Len(events)
    BY <1>2
  <2>5. e.at = time /\ (e.asked => pc[p] = "granting")
    BY DEF e
  <2> QED
    BY <1>0, <2>1, <2>3, <2>4, <2>5
<1>6. FileInv'
  <2>1. StampAt(time) = StampOf(n)' /\ StampAt(time).event = n
    BY <1>0, <1>5 DEF StampAt, StampOf
  <2>2. ASSUME NEW s \in Kept(time)
        PROVE  s.event \in 1..Len(events) /\ s = StampOf(s.event)'
    BY <1>2, <1>5 DEF Kept, WindowInv, FileInv, StampOf
  <2> QED
    BY <1>2, <1>5, <2>1, <2>2 DEF FileInv
<1>7. PendingInv'
  <2>1. \A q \in Process : pc[q] # "idle" => q = p
    BY <1>2 DEF WindowInv, HolderInv
  <2>2. \A q \in Process : pc'[q] \notin {"granting", "pinging"}
    BY <1>2, <2>1
  <2> QED
    BY <2>2 DEF PendingInv
<1>8. WindowHolds'
  <2> DEFINE Before(i) == {j \in 1..i - 1 : events[j].at > events[i].at - Window}
  <2>1. ASSUME NEW i \in 1..Len(events), events'[i].asked
        PROVE  Cardinality({j \in 1..i - 1 : events'[j].at > events'[i].at - Window})
                 < MaxEvents
    <3>1. \A j \in 1..i - 1 : events'[j] = events[j]
      BY <1>2, <1>5
    <3>2. {j \in 1..i - 1 : events'[j].at > events'[i].at - Window} = Before(i)
      BY <1>5, <3>1
    <3> QED
      BY <1>2, <1>5, <2>1, <3>2 DEF WindowInv, WindowHolds
  <2>2. ASSUME events'[n].asked
        PROVE  Cardinality({j \in 1..n - 1 : events'[j].at > events'[n].at - Window})
                 < MaxEvents
    <3>1. {j \in 1..n - 1 : events'[j].at > events'[n].at - Window}
            = {i \in 1..Len(events) : events[i].at > time - Window}
      BY <1>2, <1>5
    <3>2. Cardinality(Kept(time)) < MaxEvents
      BY <1>1, <1>5, <2>2
    <3>3. /\ IsFiniteSet(Kept(time))
          /\ Cardinality({i \in 1..Len(events) : events[i].at > time - Window})
                <= Cardinality(Kept(time))
      BY <1>1, <1>2, RecentAreCounted DEF WindowInv
    <3>4. Cardinality(Kept(time)) \in Nat /\ MaxEvents \in Nat
      BY <3>3, FS_CardinalityType, RollingWindowAssumption
    <3>5. Cardinality({i \in 1..Len(events) : events[i].at > time - Window}) \in Nat
      BY <1>2, CountsAreNat
    <3> DEFINE size == Cardinality({i \in 1..Len(events) : events[i].at > time - Window})
    <3>6. size < MaxEvents
      <4> HIDE DEF size
      <4> QED
        BY <3>2, <3>3, <3>4, <3>5 DEF size
    <3> QED
      BY <3>1, <3>6
  <2> QED
    BY <1>5, <2>1, <2>2 DEF WindowHolds
<1>9. NothingForgotten'
  <2>1. ASSUME NEW i \in 1..Len(events), events'[i].at > now' - Window
        PROVE  [event |-> i, at |-> events'[i].at] \in file'
    <3>1. events[i].at \in Nat /\ events'[i] = events[i]
      BY <1>2, <1>5, EventsAreTyped DEF WindowInv
    <3>2. events[i].at > time - Window
      BY <1>2, <2>1, <3>1
    <3>3. StampOf(i) \in file
      BY <1>1, <1>2, <3>2 DEF Complete
    <3> QED
      BY <1>2, <3>1, <3>2, <3>3 DEF Kept, StampOf
  <2>2. [event |-> n, at |-> events'[n].at] \in file'
    BY <1>0, <1>2, <1>5 DEF StampAt
  <2> QED
    BY <1>5, <2>1, <2>2 DEF NothingForgotten
<1> QED
  BY <1>6, <1>7, <1>8, <1>9

LEMMA WindowInvStep ==
    ASSUME WindowInv, [Next]_vars
    PROVE  WindowInv'
<1>1. TypeOK' /\ HolderInv'
  BY WindowTypingStep, WindowHolderStep DEF WindowInv
<1>2. now \in Nat
  BY DEF WindowInv, TypeOK
<1>3. ASSUME NEW p \in Process, PingIfReady(p) \/ Ping(p)
      PROVE  FileInv' /\ PendingInv' /\ WindowHolds' /\ NothingForgotten'
  BY <1>3, BeginKeeps DEF PingIfReady, Ping
<1>4. ASSUME UNCHANGED <<file, events>>, now' \in Nat, now <= now',
             \A q \in Process : pc'[q] \in {"granting", "pinging"} =>
                                    UNCHANGED <<pc[q], timestamps[q]>>
      PROVE  FileInv' /\ PendingInv' /\ WindowHolds' /\ NothingForgotten'
  <2>1. PendingInv'
    <3> SUFFICES ASSUME NEW q \in Process, pc'[q] \in {"granting", "pinging"}
                 PROVE  \E time \in 0..now' :
                          /\ timestamps'[q] = Kept(time)' \cup {StampAt(time)'}
                          /\ Complete(time)'
                          /\ pc'[q] = "granting" => Cardinality(Kept(time)') < MaxEvents
      BY DEF PendingInv
    <3>1. pc[q] \in {"granting", "pinging"} /\ UNCHANGED <<pc[q], timestamps[q]>>
      BY <1>4
    <3> QED
      BY <1>4, <3>1, PendingStays
  <2> QED
    BY <1>4, <2>1, UnchangedFileKeeps
<1>5. ASSUME NEW p \in Process, Deny(p) \/ IsReady(p) \/ Grant(p) \/ Fail(p)
      PROVE  FileInv' /\ PendingInv' /\ WindowHolds' /\ NothingForgotten'
  <2>1. UNCHANGED <<file, events, now>> /\ pc'[p] = "idle"
        /\ \A q \in Process : q # p => UNCHANGED <<pc[q], timestamps[q]>>
    BY <1>5 DEF Deny, IsReady, Grant, Fail, Goto, WindowInv, TypeOK
  <2> QED
    BY <1>2, <1>4, <2>1
<1>6. ASSUME NEW p \in Process, Replace(p)
      PROVE  FileInv' /\ PendingInv' /\ WindowHolds' /\ NothingForgotten'
  BY <1>1, <1>6, ReplaceKeeps
<1>7. CASE Tick \/ UNCHANGED vars
  <2>1. UNCHANGED <<file, events, pc, timestamps>> /\ now' \in Nat /\ now <= now'
    BY <1>2, <1>7 DEF Tick, vars
  <2>2. \A q \in Process : UNCHANGED <<pc[q], timestamps[q]>>
    BY <2>1
  <2>3. \A q \in Process : pc'[q] \in {"granting", "pinging"} =>
                              UNCHANGED <<pc[q], timestamps[q]>>
    BY <2>2
  <2> QED
    BY <1>1, <1>4, <2>1, <2>3 DEF WindowInv
<1> QED
  BY <1>1, <1>3, <1>5, <1>6, <1>7 DEF Next, WindowInv

LEMMA WindowInvariance == Spec => []WindowInv
  BY WindowInvInit, WindowInvStep, PTL DEF Spec

-------------------------------------------------------------------------------
(* The limiter's variables keep their types, for any window.               *)
THEOREM WindowTyping == Spec => []TypeOK
  BY WindowInvariance, PTL DEF WindowInv

(* No event is granted that would be one too many in the window it ends,   *)
(* whoever recorded the others, and wherever a process crashed.            *)
THEOREM WindowIsKept == Spec => []WindowHolds
  BY WindowInvariance, PTL DEF WindowInv

(* No event that still counts is missing on file.                          *)
THEOREM WindowForgetsNothing == Spec => []NothingForgotten
  BY WindowInvariance, PTL DEF WindowInv
===============================================================================
