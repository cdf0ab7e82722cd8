-------------------------- MODULE ControlSocketProofs --------------------------
(***************************************************************************)
(* Proofs about the control socket, for any schedulers and clients, with   *)
(* crashes, starts and stops that fail at any step, and accept() errors:   *)
(* clients learn what became of their requests, no connection is lost or   *)
(* kept twice, a scheduler that runs is the one at the path, and only one  *)
(* that was cut short leaves its socket there.                             *)
(***************************************************************************)
EXTENDS ControlSocket, SequenceTheorems, TLAPS

Kept(p) == ToSet(backlog[p])
Distinct(s) == \A i, j \in DOMAIN s : s[i] = s[j] => i = j

Serving == {"read", "answer", "reject"}
Places == {"off", "serving"} \cup Starting \cup Stopping

TypeInv ==
    /\ path \in Process \cup {None}
    /\ pc \in [Process -> Places]
    /\ listening \in [Process -> BOOLEAN]
    /\ backlog \in [Process -> Seq(Client)]
    /\ thread \in [Process -> {"none", "accept", "dead"} \cup Serving]
    /\ conn \in [Process -> Client \cup {None}]
    /\ client \in [Client -> {"idle", "waiting", "answered", "rejected", "failed"}]
    /\ applied \in [Client -> 0..1]

(* What a process has of its server, by where it is in start() and stop(). *)
PlaceInv ==
    \A p \in Process :
        /\ pc[p] \in {"off"} \cup Starting => thread[p] = "none"
        /\ pc[p] \in ({"off"} \cup Starting) \ {"spawn"} =>
            ~listening[p] /\ backlog[p] = <<>>
        /\ pc[p] = "spawn" => listening[p]
        /\ pc[p] = "serving" => listening[p] /\ thread[p] # "none"
        /\ pc[p] \in Stopping /\ thread[p] # "accept" =>
            ~listening[p] /\ backlog[p] = <<>>
        /\ pc[p] = "remove" => thread[p] # "accept"

(* A request is applied when its connection is served, and only then.      *)
ClientInv ==
    /\ \A p \in Process :
        /\ conn[p] # None <=> thread[p] \in Serving
        /\ conn[p] # None =>
            /\ client[conn[p]] \in {"waiting", "failed"}
            /\ applied[conn[p]] = IF thread[p] = "answer" THEN 1 ELSE 0
        /\ \A c \in Kept(p) : client[c] \in {"waiting", "failed"} /\ applied[c] = 0
    /\ AnswersAreTrue

(* A connection is kept once: in one backlog, or by one server thread.     *)
KeepInv ==
    /\ \A p \in Process : Distinct(backlog[p])
    /\ \A p, q \in Process : p # q =>
        /\ Kept(p) \cap Kept(q) = {}
        /\ conn[p] # None => conn[p] # conn[q]
    /\ \A p, q \in Process : conn[p] \notin Kept(q)
    /\ \A c \in Client : client[c] = "waiting" =>
        \E p \in Process : conn[p] = c \/ c \in Kept(p)

\* The path is bound, and nobody has asked the scheduler to stop.
Up == {"chmod", "listen", "spawn", "serving"}

(* As long as no start was overlapped, there is one scheduler besides one  *)
(* that has yet to find out that the other one runs; and the socket at the *)
(* path is its own.                                                        *)
ReachInv ==
    ~overlapped =>
        /\ \A p \in Process : pc[p] \in Up => path = p
        /\ \A p, q \in Process : p # q /\ pc[p] # "off" /\ pc[q] # "off" =>
            \/ pc[p] = "serving" /\ pc[q] \in {"look", "probe"}
            \/ pc[q] = "serving" /\ pc[p] \in {"look", "probe"}

(* What is at the path belongs to a scheduler that has yet to remove it, or *)
(* to one that was cut short.                                              *)
PathInv == path # None => pc[path] \in Bound \/ path \in cut

SocketInv == TypeInv /\ PlaceInv /\ ClientInv /\ KeepInv /\ ReachInv /\ PathInv

-------------------------------------------------------------------------------
(* Sequences without duplicates.                                           *)

LEMMA SetOfEmpty == ToSet(<<>>) = {} /\ Distinct(<<>>)
BY DEF ToSet, Distinct

LEMMA SetOfAppend ==
    ASSUME NEW s \in Seq(Client), NEW c \in Client, Distinct(s), c \notin ToSet(s)
    PROVE  ToSet(Append(s, c)) = ToSet(s) \cup {c} /\ Distinct(Append(s, c))
<1> DEFINE t == Append(s, c)
<1>1. /\ Len(s) \in Nat /\ DOMAIN s = 1..Len(s) /\ DOMAIN t = 1..(Len(s) + 1)
      /\ t[Len(s) + 1] = c /\ \A i \in 1..Len(s) : t[i] = s[i]
  OBVIOUS
<1> HIDE DEF t
<1>2. ToSet(t) = ToSet(s) \cup {c}
  <2>1. ASSUME NEW x
        PROVE  x \in ToSet(t) <=> x \in ToSet(s) \/ x = c
    <3>1. \A i : i \in DOMAIN t <=> i \in DOMAIN s \/ i = Len(s) + 1
      BY <1>1
    <3> QED
      BY <1>1, <3>1 DEF ToSet
  <2> QED
    BY <2>1
<1>3. Distinct(t)
  <2> SUFFICES ASSUME NEW i \in DOMAIN t, NEW j \in DOMAIN t, t[i] = t[j]
               PROVE  i = j
    BY DEF Distinct
  <2>1. \A k \in 1..Len(s) : s[k] # c
    BY <1>1 DEF ToSet
  <2> QED
    BY <1>1, <2>1 DEF Distinct
<1> QED
  BY <1>2, <1>3 DEF t

LEMMA SetOfTail ==
    ASSUME NEW s \in Seq(Client), s # <<>>, Distinct(s)
    PROVE  /\ Head(s) \in Client /\ Head(s) \in ToSet(s)
           /\ ToSet(Tail(s)) = ToSet(s) \ {Head(s)}
           /\ Distinct(Tail(s)) /\ Tail(s) \in Seq(Client)
<1>1. /\ Len(s) \in Nat /\ Len(s) > 0 /\ DOMAIN s = 1..Len(s)
      /\ Head(s) = s[1] /\ Head(s) \in Client
      /\ Tail(s) \in Seq(Client) /\ DOMAIN Tail(s) = 1..(Len(s) - 1)
      /\ \A i \in 1..(Len(s) - 1) : Tail(s)[i] = s[i + 1]
  BY HeadTailProperties
<1> DEFINE t == Tail(s)
<1> HIDE DEF t
<1>2. \A i \in 1..(Len(s) - 1) : t[i] = s[i + 1] /\ i + 1 \in DOMAIN s /\ i + 1 # 1
  BY <1>1 DEF t
<1>3. Distinct(t)
  <2> SUFFICES ASSUME NEW i \in DOMAIN t, NEW j \in DOMAIN t, t[i] = t[j]
               PROVE  i = j
    BY DEF Distinct
  <2>1. i \in 1..(Len(s) - 1) /\ j \in 1..(Len(s) - 1)
    BY <1>1 DEF t
  <2>2. i + 1 = j + 1
    BY <1>2, <2>1 DEF Distinct
  <2> QED
    BY <1>1, <2>1, <2>2
<1>4. ToSet(t) = ToSet(s) \ {Head(s)}
  <2>1. ASSUME NEW x \in ToSet(t)
        PROVE  x \in ToSet(s) /\ x # Head(s)
    <3>1. PICK i \in 1..(Len(s) - 1) : x = s[i + 1]
      BY <1>1, <1>2, <2>1 DEF ToSet, t
    <3> QED
      BY <1>1, <1>2, <3>1 DEF ToSet, Distinct
  <2>2. ASSUME NEW x \in ToSet(s), x # Head(s)
        PROVE  x \in ToSet(t)
    <3>1. PICK i \in 1..Len(s) : x = s[i] /\ i # 1
      BY <1>1, <2>2 DEF ToSet
    <3>2. i - 1 \in 1..(Len(s) - 1) /\ i - 1 + 1 = i
      BY <1>1, <3>1
    <3>3. t[i - 1] = x
      BY <1>2, <3>1, <3>2
    <3> QED
      BY <1>1, <3>2, <3>3 DEF ToSet, t
  <2> QED
    BY <2>1, <2>2
<1>5. Head(s) \in ToSet(s)
  BY <1>1 DEF ToSet
<1> QED
  BY <1>1, <1>3, <1>4, <1>5 DEF t

-------------------------------------------------------------------------------
(* What the parts of the invariant need of a step.                         *)

\* While a start was not overlapped, a scheduler that is on its way in or out
\* is alone.
LEMMA Alone ==
    ASSUME SocketInv, NEW p \in Process, ~overlapped,
           pc[p] \notin {"off", "serving", "look", "probe"},
           NEW q \in Process, q # p
    PROVE  pc[q] = "off"
BY DEF SocketInv, ReachInv

LEMMA ReachFollows ==
    ASSUME SocketInv, NEW p \in Process, NEW to \in Places,
           pc' = [pc EXCEPT ![p] = to],
           ~overlapped' =>
               /\ ~overlapped
               /\ to \in Up => path' = p
               /\ \A q \in Process \ {p} :
                   /\ pc[q] \in Up => path' = q
                   /\ to # "off" /\ pc[q] # "off" =>
                       \/ to = "serving" /\ pc[q] \in {"look", "probe"}
                       \/ pc[q] = "serving" /\ to \in {"look", "probe"}
    PROVE  ReachInv'
<1>1. pc'[p] = to /\ \A q \in Process \ {p} : pc'[q] = pc[q]
  BY DEF SocketInv, TypeInv
<1> QED
  BY <1>1 DEF SocketInv, ReachInv

\* Nothing happens to the connections.
LEMMA ServiceKept ==
    ASSUME SocketInv, UNCHANGED <<backlog, thread, conn, client, applied>>
    PROVE  ClientInv' /\ KeepInv'
<1>1. \A p \in Process : Kept(p)' = Kept(p)
  BY DEF Kept
<1> QED
  BY <1>1 DEF SocketInv, ClientInv, KeepInv, AnswersAreTrue

\* Connections end, or their clients give up.  A client that is still waiting
\* is kept where it was.
LEMMA ConnectionsDropped ==
    ASSUME SocketInv, TypeInv', applied' = applied,
           \A p \in Process :
               /\ conn'[p] \in {conn[p], None}
               /\ backlog'[p] \in {backlog[p], <<>>}
               /\ conn'[p] # None <=> thread'[p] \in Serving
               /\ conn'[p] # None => (thread'[p] = "answer" <=> thread[p] = "answer"),
           \A c \in Client : client'[c] # client[c] =>
               \/ client[c] \in {"idle", "waiting"} /\ client'[c] = "failed"
               \/ \E p \in Process :
                   /\ conn[p] = c /\ conn'[p] = None
                   /\ \/ client'[c] = "answered" /\ applied[c] = 1
                      \/ client'[c] = "rejected" /\ applied[c] = 0,
           \A c \in Client : client'[c] = "waiting" =>
               /\ client[c] = "waiting"
               /\ \A p \in Process :
                   /\ conn[p] = c => conn'[p] = c
                   /\ c \in Kept(p) => backlog'[p] = backlog[p]
    PROVE  ClientInv' /\ KeepInv'
<1>1. \A p \in Process : Kept(p)' \subseteq Kept(p)
  BY SetOfEmpty DEF Kept
<1>2. \A p \in Process : Distinct(backlog[p])'
  BY SetOfEmpty DEF SocketInv, KeepInv, Distinct
<1>3. \A p, q \in Process : p # q =>
        /\ (Kept(p) \cap Kept(q) = {})'
        /\ conn'[p] # None => conn'[p] # conn'[q]
  BY <1>1 DEF SocketInv, KeepInv
<1>4. \A p \in Process : None \notin Kept(p)
  BY ControlSocketAssumption DEF SocketInv, ClientInv, KeepInv, TypeInv, Kept, ToSet
<1>5. \A p, q \in Process : conn'[p] \notin Kept(q)'
  BY <1>1, <1>4 DEF SocketInv, KeepInv
<1>6. ASSUME NEW c \in Client, client'[c] = "waiting"
      PROVE  \E p \in Process : conn'[p] = c \/ c \in Kept(p)'
  <2>1. PICK p \in Process : conn[p] = c \/ c \in Kept(p)
    BY <1>6 DEF SocketInv, KeepInv
  <2>2. c \in Kept(p) => c \in Kept(p)'
    BY <1>6 DEF Kept
  <2> QED
    BY <1>6, <2>1, <2>2
<1>7. KeepInv'
  BY <1>2, <1>3, <1>5, <1>6 DEF KeepInv
<1>8. ASSUME NEW p \in Process, NEW c \in Client, conn'[p] = c \/ c \in Kept(p)'
      PROVE  client'[c] \in {"waiting", "failed"}
  <2>1. conn[p] = c \/ c \in Kept(p)
    BY <1>1, <1>8, ControlSocketAssumption
  <2>2. client[c] \in {"waiting", "failed"}
    BY <2>1, ControlSocketAssumption DEF SocketInv, ClientInv
  <2>3. \A q \in Process : conn[q] = c => conn'[q] = c
    <3> TAKE q \in Process
    <3> HAVE conn[q] = c
    <3>1. conn[p] = c
      BY <2>1 DEF SocketInv, KeepInv
    <3>2. q = p
      BY <3>1, ControlSocketAssumption DEF SocketInv, KeepInv
    <3>3. c \notin Kept(p)
      BY <3>1 DEF SocketInv, KeepInv
    <3> QED
      BY <1>1, <1>8, <3>2, <3>3
  <2> QED
    BY <2>2, <2>3, ControlSocketAssumption
<1>9. \A p \in Process : conn'[p] # None =>
        /\ client'[conn'[p]] \in {"waiting", "failed"}
        /\ applied'[conn'[p]] = IF thread'[p] = "answer" THEN 1 ELSE 0
  BY <1>8 DEF SocketInv, ClientInv, TypeInv
<1>10. \A p \in Process : \A c \in Kept(p)' :
         client'[c] \in {"waiting", "failed"} /\ applied'[c] = 0
  <2> TAKE p \in Process
  <2> TAKE c \in Kept(p)'
  <2>1. c \in Kept(p)
    BY <1>1
  <2>2. c \in Client
    BY <2>1 DEF SocketInv, TypeInv, Kept, ToSet
  <2> QED
    BY <1>8, <2>1, <2>2 DEF SocketInv, ClientInv
<1>11. AnswersAreTrue'
  <2> SUFFICES ASSUME NEW c \in Client
               PROVE  /\ client'[c] = "answered" => applied'[c] = 1
                      /\ client'[c] \in {"idle", "rejected"} => applied'[c] = 0
    BY DEF AnswersAreTrue
  <2>1. CASE client'[c] = client[c]
    BY <2>1 DEF SocketInv, ClientInv, AnswersAreTrue
  <2>2. CASE client'[c] # client[c]
    BY <2>2
  <2> QED
    BY <2>1, <2>2
<1> QED
  BY <1>7, <1>9, <1>10, <1>11 DEF ClientInv

\* A process that is starting moves on: it has no server, and what is at the
\* path is its own or nothing once it has looked there.
LEMMA StartingMoves ==
    ASSUME SocketInv, NEW p \in Process, NEW to \in Starting \ {"spawn"},
           pc[p] \in ({"off"} \cup Starting) \ {"spawn"},
           pc' = [pc EXCEPT ![p] = to],
           path' \in Process \cup {None},
           UNCHANGED <<listening, backlog, thread, conn, client, applied>>,
           ReachInv', PathInv'
    PROVE  SocketInv'
<1>1. TypeInv'
  BY DEF SocketInv, TypeInv, Places
<1>2. PlaceInv'
  <2>1. pc'[p] = to /\ \A q \in Process \ {p} : pc'[q] = pc[q]
    BY DEF SocketInv, TypeInv
  <2>2. to # "serving" /\ to \notin Stopping
    BY DEF Starting, Stopping
  <2> QED
    BY <2>1, <2>2 DEF SocketInv, PlaceInv, Starting, Stopping
<1>3. ClientInv' /\ KeepInv'
  BY ServiceKept
<1> QED
  BY <1>1, <1>2, <1>3 DEF SocketInv

LEMMA StartKeeps ==
    ASSUME SocketInv, NEW p \in Process, Start(p)
    PROVE  SocketInv'
<1>1. ReachInv'
  <2> SUFFICES ASSUME ~overlapped'
               PROVE  ReachInv'
    BY DEF ReachInv
  <2>1. ~overlapped /\ \A q \in Process : pc[q] \notin Starting \cup Stopping
    BY DEF Start
  <2>2. \A q \in Process : pc[q] \in {"off", "serving"}
    BY <2>1 DEF SocketInv, TypeInv, Places
  <2> QED
    BY <2>1, <2>2, ReachFollows DEF Start, Goto, SocketInv, ReachInv, Places, Starting, Up
<1>2. PathInv'
  BY DEF Start, Goto, SocketInv, PathInv, TypeInv, Bound, Stopping
<1> QED
  BY <1>1, <1>2, StartingMoves DEF Start, Goto, Starting, SocketInv, TypeInv

LEMMA LookKeeps ==
    ASSUME SocketInv, NEW p \in Process, LookAtPath(p)
    PROVE  SocketInv'
<1> PICK to \in {"bind", "probe"} : to = IF path = None THEN "bind" ELSE "probe"
  OBVIOUS
<1>1. ReachInv'
  <2>1. pc[p] = "look" /\ pc' = [pc EXCEPT ![p] = to]
        /\ UNCHANGED path /\ UNCHANGED overlapped
    BY DEF LookAtPath, Goto, OnlyPath, history
  <2>2. ~overlapped /\ to = "bind" => \A q \in Process \ {p} : pc[q] = "off"
    BY <2>1, ControlSocketAssumption DEF SocketInv, ReachInv, Up
  <2>3. ~overlapped => \A q \in Process \ {p} : pc[q] \in {"off", "serving"}
    BY <2>1 DEF SocketInv, ReachInv
  <2> QED
    BY <2>1, <2>2, <2>3, ReachFollows DEF SocketInv, ReachInv, Places, Starting, Up
<1>2. PathInv'
  BY DEF LookAtPath, Goto, OnlyPath, history, SocketInv, PathInv, TypeInv, Bound, Stopping
<1> QED
  BY <1>1, <1>2, StartingMoves DEF LookAtPath, Goto, OnlyPath, Starting, SocketInv, TypeInv

LEMMA ProbeKeeps ==
    ASSUME SocketInv, NEW p \in Process, Probe(p)
    PROVE  SocketInv'
<1>1. /\ pc[p] = "probe" /\ pc' = [pc EXCEPT ![p] = "unlink"]
      /\ UNCHANGED path /\ OnlyPath
  BY DEF Probe, Goto
<1>2. path # None /\ ~listening[path]
  BY DEF Probe, PathAccepts
<1>3. ReachInv'
  <2>1. ~overlapped => \A q \in Process : pc[q] # "serving"
    BY <1>2 DEF SocketInv, ReachInv, PlaceInv, Up
  <2>2. ~overlapped => \A q \in Process \ {p} : pc[q] = "off"
    BY <1>1, <2>1 DEF SocketInv, ReachInv
  <2> QED
    BY <1>1, <2>2, ReachFollows DEF OnlyPath, history, Places, Starting, Up
<1>4. PathInv'
  BY <1>1 DEF OnlyPath, history, SocketInv, PathInv, TypeInv, Bound, Stopping
<1> QED
  BY <1>1, <1>3, <1>4, StartingMoves DEF OnlyPath, Starting, SocketInv, TypeInv

LEMMA UnlinkKeeps ==
    ASSUME SocketInv, NEW p \in Process, UnlinkStale(p)
    PROVE  SocketInv'
<1>1. /\ pc[p] = "unlink" /\ pc' = [pc EXCEPT ![p] = "bind"]
      /\ path' = None /\ OnlyPath
  BY DEF UnlinkStale, Goto
<1>2. ~overlapped => \A q \in Process \ {p} : pc[q] = "off"
  BY <1>1, Alone
<1>3. ReachInv'
  BY <1>1, <1>2, ReachFollows DEF OnlyPath, history, Places, Starting, Up
<1>4. PathInv'
  BY <1>1 DEF PathInv
<1> QED
  BY <1>1, <1>3, <1>4, StartingMoves DEF OnlyPath, Starting

LEMMA BindKeeps ==
    ASSUME SocketInv, NEW p \in Process, Bind(p)
    PROVE  SocketInv'
<1>1. /\ pc[p] = "bind" /\ pc' = [pc EXCEPT ![p] = "chmod"] /\ path' = p
      /\ UNCHANGED <<listening, backlog, thread, conn, client, applied, overlapped>>
  BY DEF Bind, Goto
<1>2. ~overlapped => \A q \in Process \ {p} : pc[q] = "off"
  BY <1>1, Alone
<1>3. ReachInv'
  BY <1>1, <1>2, ReachFollows DEF Places, Starting, Up
<1>4. PathInv'
  BY <1>1 DEF PathInv, SocketInv, TypeInv, Bound
<1> QED
  BY <1>1, <1>3, <1>4, StartingMoves DEF Starting

LEMMA ChmodKeeps ==
    ASSUME SocketInv, NEW p \in Process, Chmod(p)
    PROVE  SocketInv'
<1>1. /\ pc[p] = "chmod" /\ pc' = [pc EXCEPT ![p] = "listen"]
      /\ UNCHANGED path /\ OnlyPath
  BY DEF Chmod, Goto
<1>2. ~overlapped => path = p /\ \A q \in Process \ {p} : pc[q] = "off"
  BY <1>1, Alone DEF SocketInv, ReachInv, Up
<1>3. ReachInv'
  BY <1>1, <1>2, ReachFollows DEF OnlyPath, history, Places, Starting, Up
<1>4. PathInv'
  BY <1>1 DEF OnlyPath, history, SocketInv, PathInv, TypeInv, Bound
<1> QED
  BY <1>1, <1>3, <1>4, StartingMoves DEF OnlyPath, Starting, SocketInv, TypeInv

LEMMA ListenKeeps ==
    ASSUME SocketInv, NEW p \in Process, Listen(p)
    PROVE  SocketInv'
<1> USE DEF Listen, Goto, history
<1>1. TypeInv'
  BY DEF SocketInv, TypeInv, Places, Starting
<1>2. PlaceInv'
  <2>1. /\ pc'[p] = "spawn" /\ listening'[p] /\ thread[p] = "none"
        /\ \A q \in Process \ {p} : pc'[q] = pc[q] /\ listening'[q] = listening[q]
    BY DEF SocketInv, TypeInv, PlaceInv, Starting
  <2> QED
    BY <2>1 DEF SocketInv, PlaceInv, Starting, Stopping
<1>3. ClientInv' /\ KeepInv'
  BY ServiceKept
<1>4. ReachInv'
  <2>1. ~overlapped => path = p /\ \A q \in Process \ {p} : pc[q] = "off"
    BY Alone DEF SocketInv, ReachInv, Up
  <2> QED
    BY <2>1, ReachFollows DEF Places, Starting, Up
<1>5. PathInv'
  BY DEF SocketInv, PathInv, TypeInv, Bound
<1> QED
  BY <1>1, <1>2, <1>3, <1>4, <1>5 DEF SocketInv

LEMMA StartThreadKeeps ==
    ASSUME SocketInv, NEW p \in Process, StartThread(p)
    PROVE  SocketInv'
<1> USE DEF StartThread, Goto, history
<1>1. thread[p] = "none" /\ listening[p]
  BY DEF SocketInv, PlaceInv, Starting
<1>2. TypeInv'
  BY DEF SocketInv, TypeInv, Places
<1>3. PlaceInv'
  <2>1. /\ pc'[p] = "serving" /\ thread'[p] = "accept"
        /\ \A q \in Process \ {p} : pc'[q] = pc[q] /\ thread'[q] = thread[q]
    BY DEF SocketInv, TypeInv
  <2> QED
    BY <1>1, <2>1 DEF SocketInv, PlaceInv, Starting, Stopping
<1>4. ClientInv' /\ KeepInv'
  <2>1. \A q \in Process : conn[q] # None <=> thread'[q] \in Serving
    BY <1>1 DEF SocketInv, ClientInv, TypeInv, Serving
  <2>2. \A q \in Process : conn[q] # None => (thread'[q] = "answer" <=> thread[q] = "answer")
    BY <1>1 DEF SocketInv, TypeInv
  <2> QED
    BY <1>2, <2>1, <2>2, ConnectionsDropped
<1>5. ReachInv'
  <2>1. ~overlapped => path = p /\ \A q \in Process \ {p} : pc[q] = "off"
    BY Alone DEF SocketInv, ReachInv, Up
  <2> QED
    BY <2>1, ReachFollows DEF Places, Up
<1>6. PathInv'
  BY DEF SocketInv, PathInv, TypeInv, Bound
<1> QED
  BY <1>2, <1>3, <1>4, <1>5, <1>6 DEF SocketInv

-------------------------------------------------------------------------------
(* Stopping, dying, and the server thread.                                 *)

LEMMA DisconnectEnds ==
    ASSUME SocketInv, NEW S, Disconnect(S)
    PROVE  /\ client' \in [Client -> {"idle", "waiting", "answered", "rejected", "failed"}]
           /\ \A c \in Client :
               /\ client'[c] # client[c] =>
                   client[c] \in {"idle", "waiting"} /\ client'[c] = "failed"
               /\ client'[c] = "waiting" => client[c] = "waiting" /\ c \notin S
BY DEF Disconnect, SocketInv, TypeInv

\* Process p drops the connections in S, and those only.
LEMMA DropKeeps ==
    ASSUME SocketInv, TypeInv', NEW p \in Process, NEW S,
           applied' = applied,
           \A q \in Process \ {p} :
               conn'[q] = conn[q] /\ backlog'[q] = backlog[q] /\ thread'[q] = thread[q],
           \/ conn'[p] = conn[p] /\ (thread'[p] \in Serving <=> thread[p] \in Serving)
              /\ (thread'[p] = "answer" <=> thread[p] = "answer")
           \/ conn'[p] = None /\ thread'[p] \notin Serving /\ conn[p] \in S,
           \/ backlog'[p] = backlog[p]
           \/ backlog'[p] = <<>> /\ Kept(p) \subseteq S,
           Disconnect(S)
    PROVE  ClientInv' /\ KeepInv'
<1>1. ASSUME NEW q \in Process
      PROVE  /\ conn'[q] \in {conn[q], None}
             /\ backlog'[q] \in {backlog[q], <<>>}
             /\ conn'[q] # None <=> thread'[q] \in Serving
             /\ conn'[q] # None => (thread'[q] = "answer" <=> thread[q] = "answer")
  BY DEF SocketInv, ClientInv
<1>2. \A c \in Client : client'[c] # client[c] =>
        client[c] \in {"idle", "waiting"} /\ client'[c] = "failed"
  BY DisconnectEnds
<1>3. ASSUME NEW c \in Client, client'[c] = "waiting"
      PROVE  /\ client[c] = "waiting"
             /\ \A q \in Process : /\ conn[q] = c => conn'[q] = c
                                   /\ c \in Kept(q) => backlog'[q] = backlog[q]
  <2>1. client[c] = "waiting" /\ c \notin S
    BY <1>3, DisconnectEnds
  <2> QED
    BY <2>1
<1> QED
  BY <1>1, <1>2, <1>3, ConnectionsDropped

LEMMA StopKeeps ==
    ASSUME SocketInv, NEW p \in Process, Stop(p)
    PROVE  SocketInv'
<1> PICK S : S = IF thread[p] = "accept" THEN {} ELSE Kept(p)
  OBVIOUS
<1>1. /\ pc[p] = "serving" /\ pc' = [pc EXCEPT ![p] = "join"]
      /\ UNCHANGED <<path, thread, conn, applied, cut>>
  BY DEF Stop, Goto
<1>2. /\ \/ thread[p] = "accept" /\ UNCHANGED <<listening, backlog, client>>
         \/ thread[p] # "accept" /\ Unlisten(p) /\ Disconnect(Kept(p))
  BY DEF Stop, Kept
<1>3. Disconnect(S)
  <2>1. CASE thread[p] = "accept"
    <3>1. S = {} /\ client' = client
      BY <1>2, <2>1
    <3> QED
      BY <3>1 DEF Disconnect, SocketInv, TypeInv
  <2>2. CASE thread[p] # "accept"
    BY <1>2, <2>2
  <2> QED
    BY <2>1, <2>2
<1>4. TypeInv'
  <2>1. listening' \in [Process -> BOOLEAN] /\ backlog' \in [Process -> Seq(Client)]
    <3>1. /\ listening' = listening \/ listening' = [listening EXCEPT ![p] = FALSE]
          /\ backlog' = backlog \/ backlog' = [backlog EXCEPT ![p] = <<>>]
      BY <1>2 DEF Unlisten
    <3>2. listening \in [Process -> BOOLEAN] /\ backlog \in [Process -> Seq(Client)]
      BY DEF SocketInv, TypeInv
    <3>3. backlog' \in [Process -> Seq(Client)]
      <4>1. <<>> \in Seq(Client)
        OBVIOUS
      <4>2. ASSUME NEW f \in [Process -> Seq(Client)]
            PROVE  [f EXCEPT ![p] = <<>>] \in [Process -> Seq(Client)]
        BY <4>1
      <4> QED
        BY <3>1, <3>2, <4>2
    <3>4. listening' \in [Process -> BOOLEAN]
      BY <3>1, <3>2
    <3> QED
      BY <3>3, <3>4
  <2>2. pc' \in [Process -> Places]
    BY <1>1 DEF SocketInv, TypeInv, Places, Stopping
  <2>3. client' \in [Client -> {"idle", "waiting", "answered", "rejected", "failed"}]
    BY <1>3, DisconnectEnds
  <2> QED
    BY <1>1, <2>1, <2>2, <2>3 DEF SocketInv, TypeInv
<1>5. PlaceInv'
  <2>1. /\ pc'[p] = "join" /\ \A q \in Process \ {p} : pc'[q] = pc[q]
        /\ thread[p] # "accept" => ~listening'[p] /\ backlog'[p] = <<>>
        /\ \A q \in Process \ {p} : listening'[q] = listening[q] /\ backlog'[q] = backlog[q]
    BY <1>1, <1>2 DEF Unlisten, SocketInv, TypeInv
  <2> QED
    BY <1>1, <2>1 DEF SocketInv, PlaceInv, Starting
<1>6. ClientInv' /\ KeepInv'
  <2>1. /\ \/ backlog'[p] = backlog[p]
           \/ backlog'[p] = <<>> /\ Kept(p) \subseteq S
        /\ \A q \in Process \ {p} : backlog'[q] = backlog[q]
    BY <1>2 DEF Unlisten, SocketInv, TypeInv
  <2> QED
    BY <1>1, <1>3, <1>4, <2>1, DropKeeps
<1>7. ReachInv'
  <2>1. ~overlapped' => ~overlapped /\ \A q \in Process : pc[q] \notin Starting
    BY DEF Stop
  <2>2. ~overlapped' => \A q \in Process \ {p} : pc[q] = "off"
    BY <1>1, <2>1 DEF SocketInv, ReachInv, Starting
  <2> QED
    BY <1>1, <2>1, <2>2, ReachFollows DEF Places, Stopping, Up
<1>8. PathInv'
  BY <1>1 DEF SocketInv, PathInv, TypeInv, Bound, Stopping
<1> QED
  BY <1>4, <1>5, <1>6, <1>7, <1>8 DEF SocketInv

LEMMA JoinKeeps ==
    ASSUME SocketInv, NEW p \in Process, Join(p)
    PROVE  SocketInv'
<1> USE DEF Join, Goto, OnlyPath, history
<1>1. TypeInv'
  BY DEF SocketInv, TypeInv, Places, Stopping
<1>2. PlaceInv'
  <2>1. pc'[p] = "remove" /\ \A q \in Process \ {p} : pc'[q] = pc[q]
    BY DEF SocketInv, TypeInv
  <2> QED
    BY <2>1 DEF SocketInv, PlaceInv, Starting, Stopping
<1>3. ClientInv' /\ KeepInv'
  BY ServiceKept
<1>4. ReachInv'
  <2>1. ~overlapped => \A q \in Process \ {p} : pc[q] = "off"
    BY Alone
  <2> QED
    BY <2>1, ReachFollows DEF Places, Stopping, Up
<1>5. PathInv'
  BY DEF SocketInv, PathInv, TypeInv, Bound, Stopping
<1> QED
  BY <1>1, <1>2, <1>3, <1>4, <1>5 DEF SocketInv

\* A process is gone: no socket, no server thread, no connections.
LEMMA GoneKeeps ==
    ASSUME SocketInv, NEW p \in Process, NEW S,
           pc' = [pc EXCEPT ![p] = "off"],
           Unlisten(p),
           thread' = [thread EXCEPT ![p] = "none"],
           conn' = [conn EXCEPT ![p] = None],
           conn[p] \in S, Kept(p) \subseteq S, Disconnect(S),
           UNCHANGED <<applied, overlapped>>,
           path' \in Process \cup {None},
           path' # path /\ ~overlapped => \A q \in Process \ {p} : pc[q] = "off",
           PathInv'
    PROVE  SocketInv'
<1>1. TypeInv'
  BY DisconnectEnds DEF SocketInv, TypeInv, Unlisten, Places
<1>2. /\ pc'[p] = "off" /\ thread'[p] = "none" /\ conn'[p] = None
      /\ ~listening'[p] /\ backlog'[p] = <<>>
      /\ \A q \in Process \ {p} :
           /\ pc'[q] = pc[q] /\ thread'[q] = thread[q] /\ conn'[q] = conn[q]
           /\ listening'[q] = listening[q] /\ backlog'[q] = backlog[q]
  BY DEF SocketInv, TypeInv, Unlisten
<1>3. PlaceInv'
  BY <1>2 DEF SocketInv, PlaceInv, Starting, Stopping
<1>4. ClientInv' /\ KeepInv'
  BY <1>1, <1>2, DropKeeps DEF Serving
<1>5. ReachInv'
  BY ReachFollows DEF SocketInv, ReachInv, Places, Up
<1> QED
  BY <1>1, <1>3, <1>4, <1>5 DEF SocketInv

LEMMA RemoveKeeps ==
    ASSUME SocketInv, NEW p \in Process, RemovePath(p)
    PROVE  SocketInv'
<1>1. pc[p] = "remove" /\ pc' = [pc EXCEPT ![p] = "off"] /\ path' = None
  BY DEF RemovePath, Goto
<1>2. thread[p] # "accept"
  BY <1>1 DEF SocketInv, PlaceInv
<1>3. Kept(p) = {}
  BY <1>1, <1>2, SetOfEmpty DEF SocketInv, PlaceInv, Stopping, Kept
<1>4. ~overlapped => \A q \in Process \ {p} : pc[q] = "off"
  BY <1>1, Alone
<1>5. PathInv'
  BY <1>1 DEF PathInv
<1> QED
  BY <1>1, <1>3, <1>4, <1>5, GoneKeeps DEF RemovePath, history

\* A process ends wherever it is: killed, or by an exception of its start or stop.
LEMMA EndEarlyKeeps ==
    ASSUME SocketInv, NEW p \in Process, EndEarly(p)
    PROVE  SocketInv'
<1>1. path' = path /\ path' \in Process \cup {None} /\ overlapped' = overlapped
  BY DEF EndEarly, SocketInv, TypeInv
<1>2. PathInv'
  <2>1. pc' = [pc EXCEPT ![p] = "off"] /\ cut \subseteq cut'
    BY DEF EndEarly
  <2>2. pc[p] \in Bound => p \in cut'
    BY DEF EndEarly
  <2> QED
    BY <1>1, <2>1, <2>2 DEF SocketInv, PathInv, TypeInv
<1> PICK S : S = {conn[p]} \cup ToSet(backlog[p])
  OBVIOUS
<1>3. conn[p] \in S /\ Kept(p) \subseteq S
  BY DEF Kept
<1> QED
  BY <1>1, <1>2, <1>3, GoneKeeps DEF EndEarly

LEMMA ThreadStopsKeeps ==
    ASSUME SocketInv, NEW p \in Process, ThreadStops(p)
    PROVE  SocketInv'
<1> USE DEF ThreadStops, history
<1>1. TypeInv'
  BY DisconnectEnds DEF SocketInv, TypeInv, Unlisten
<1>2. /\ thread'[p] = "none" /\ ~listening'[p] /\ backlog'[p] = <<>>
      /\ \A q \in Process \ {p} :
           /\ thread'[q] = thread[q]
           /\ listening'[q] = listening[q] /\ backlog'[q] = backlog[q]
  BY DEF SocketInv, TypeInv, Unlisten
<1>3. PlaceInv'
  BY <1>2 DEF SocketInv, PlaceInv, Starting, Stopping
<1>4. ClientInv' /\ KeepInv'
  <2>1. thread[p] \notin Serving /\ thread'[p] \notin Serving
    BY <1>2 DEF Serving
  <2> QED
    BY <1>1, <1>2, <2>1, DropKeeps DEF Kept
<1>5. ReachInv' /\ PathInv'
  BY DEF SocketInv, ReachInv, PathInv
<1> QED
  BY <1>1, <1>3, <1>4, <1>5 DEF SocketInv

LEMMA AcceptKeeps ==
    ASSUME SocketInv, NEW p \in Process, Accept(p)
    PROVE  SocketInv'
<1> USE DEF Accept, history
<1> PICK c : c = Head(backlog[p])
  OBVIOUS
<1>1. backlog[p] \in Seq(Client) /\ Distinct(backlog[p])
  BY DEF SocketInv, TypeInv, KeepInv
<1>2. /\ c \in Client /\ c \in Kept(p)
      /\ ToSet(Tail(backlog[p])) = Kept(p) \ {c}
      /\ Distinct(Tail(backlog[p])) /\ Tail(backlog[p]) \in Seq(Client)
  BY <1>1, SetOfTail DEF Kept
<1>3. TypeInv'
  BY <1>2 DEF SocketInv, TypeInv, Serving
<1>4. /\ thread'[p] = "read" /\ conn'[p] = c /\ conn[p] = None
      /\ Kept(p)' = Kept(p) \ {c} /\ Distinct(backlog[p])'
      /\ \A q \in Process \ {p} :
           /\ thread'[q] = thread[q] /\ conn'[q] = conn[q]
           /\ backlog'[q] = backlog[q] /\ Kept(q)' = Kept(q)
  BY <1>2 DEF SocketInv, TypeInv, ClientInv, Serving, Kept
<1>5. PlaceInv'
  BY <1>4 DEF SocketInv, PlaceInv, Starting, Stopping
<1>6. \A q \in Process : Kept(q)' \subseteq Kept(q) /\ Kept(q) \subseteq Client
  BY <1>4 DEF SocketInv, TypeInv, Kept, ToSet
<1>7. \A q \in Process \ {p} : conn[q] # c /\ c \notin Kept(q)
  BY <1>2 DEF SocketInv, KeepInv
<1>8. KeepInv'
  <2>1. \A q \in Process : Distinct(backlog[q])'
    BY <1>4 DEF SocketInv, KeepInv, Distinct
  <2>2. \A q, r \in Process : q # r =>
          /\ (Kept(q) \cap Kept(r) = {})'
          /\ conn'[q] # None => conn'[q] # conn'[r]
    BY <1>4, <1>6, <1>7, <1>2, ControlSocketAssumption DEF SocketInv, KeepInv
  <2>3. \A q, r \in Process : conn'[q] \notin Kept(r)'
    BY <1>4, <1>7 DEF SocketInv, KeepInv
  <2>4. \A d \in Client : client'[d] = "waiting" =>
          \E q \in Process : conn'[q] = d \/ d \in Kept(q)'
    <3> SUFFICES ASSUME NEW d \in Client, client[d] = "waiting"
                 PROVE  \E q \in Process : conn'[q] = d \/ d \in Kept(q)'
      OBVIOUS
    <3>1. PICK q \in Process : conn[q] = d \/ d \in Kept(q)
      BY DEF SocketInv, KeepInv
    <3> QED
      BY <1>4, <3>1, ControlSocketAssumption
  <2> QED
    BY <2>1, <2>2, <2>3, <2>4 DEF KeepInv
<1>9. ClientInv'
  <2>1. \A q \in Process :
          /\ conn'[q] # None <=> thread'[q] \in Serving
          /\ conn'[q] # None =>
              /\ client[conn'[q]] \in {"waiting", "failed"}
              /\ applied[conn'[q]] = IF thread'[q] = "answer" THEN 1 ELSE 0
    BY <1>2, <1>4, ControlSocketAssumption DEF SocketInv, ClientInv, Serving
  <2>2. \A q \in Process : \A d \in Kept(q)' :
          client[d] \in {"waiting", "failed"} /\ applied[d] = 0
    BY <1>6 DEF SocketInv, ClientInv
  <2> QED
    BY <2>1, <2>2 DEF SocketInv, ClientInv, AnswersAreTrue
<1>10. ReachInv' /\ PathInv'
  BY DEF SocketInv, ReachInv, PathInv
<1> QED
  BY <1>3, <1>5, <1>8, <1>9, <1>10 DEF SocketInv

\* The thread goes from one state to another, both after it has been started.
LEMMA ThreadMoves ==
    ASSUME SocketInv, NEW p \in Process, NEW to \in {"none", "accept", "dead"} \cup Serving,
           thread' = [thread EXCEPT ![p] = to],
           pc[p] = "serving" => to # "none",
           pc[p] \in Stopping => to # "accept",
           pc[p] \notin {"off"} \cup Starting,
           pc[p] \in Stopping => thread[p] # "accept",
           UNCHANGED <<path, pc, listening, backlog, history>>
    PROVE  PlaceInv' /\ ReachInv' /\ PathInv'
<1>1. thread'[p] = to /\ \A q \in Process \ {p} : thread'[q] = thread[q]
  BY DEF SocketInv, TypeInv
<1>2. PlaceInv'
  BY <1>1 DEF SocketInv, PlaceInv, Starting, Stopping
<1> QED
  BY <1>2 DEF SocketInv, ReachInv, PathInv, history

\* A server thread that is not about to begin or to end belongs to a process
\* that serves or stops.
LEMMA ThreadIsUp ==
    ASSUME SocketInv, NEW p \in Process, thread[p] # "none"
    PROVE  pc[p] \notin {"off"} \cup Starting
BY DEF SocketInv, PlaceInv

LEMMA AcceptFailsKeeps ==
    ASSUME SocketInv, NEW p \in Process, AcceptFails(p)
    PROVE  SocketInv'
<1> USE DEF AcceptFails
<1>1. TypeInv'
  BY DEF SocketInv, TypeInv, history
<1>2. PlaceInv' /\ ReachInv' /\ PathInv'
  BY ThreadMoves, ThreadIsUp DEF Stopping
<1>3. ClientInv' /\ KeepInv'
  <2>1. \A q \in Process : /\ conn[q] # None <=> thread'[q] \in Serving
                           /\ conn[q] # None => thread'[q] = thread[q]
    BY DEF SocketInv, TypeInv, ClientInv, Serving
  <2> QED
    BY <1>1, <2>1, ConnectionsDropped
<1> QED
  BY <1>1, <1>2, <1>3 DEF SocketInv

LEMMA RejectKeeps ==
    ASSUME SocketInv, NEW p \in Process, RejectRequest(p)
    PROVE  SocketInv'
<1> USE DEF RejectRequest
<1>1. TypeInv'
  BY DEF SocketInv, TypeInv, Serving, history
<1>2. PlaceInv' /\ ReachInv' /\ PathInv'
  BY ThreadMoves, ThreadIsUp DEF Serving
<1>3. ClientInv' /\ KeepInv'
  <2>1. \A q \in Process :
          /\ conn[q] # None <=> thread'[q] \in Serving
          /\ thread'[q] = "answer" <=> thread[q] = "answer"
    BY DEF SocketInv, TypeInv, ClientInv, Serving
  <2> QED
    BY <1>1, <2>1, ConnectionsDropped
<1> QED
  BY <1>1, <1>2, <1>3 DEF SocketInv

LEMMA HandleKeeps ==
    ASSUME SocketInv, NEW p \in Process, HandleRequest(p)
    PROVE  SocketInv'
<1> USE DEF HandleRequest
<1> PICK c : c = conn[p]
  OBVIOUS
<1>1. c \in Client /\ c # None /\ client[c] \in {"waiting", "failed"} /\ applied[c] = 0
  BY DEF SocketInv, TypeInv, ClientInv, Serving
<1>2. /\ thread'[p] = "answer" /\ applied'[c] = 1
      /\ \A q \in Process \ {p} : thread'[q] = thread[q]
      /\ \A d \in Client \ {c} : applied'[d] = applied[d]
  BY <1>1 DEF SocketInv, TypeInv
<1>3. TypeInv'
  <2>1. applied' = [applied EXCEPT ![c] = 1]
    BY <1>1 DEF SocketInv, TypeInv
  <2>2. applied' \in [Client -> 0..1]
    <3>1. applied \in [Client -> 0..1] /\ 1 \in 0..1
      BY DEF SocketInv, TypeInv
    <3> HIDE DEF HandleRequest
    <3> QED
      BY <1>1, <2>1, <3>1
  <2>3. thread' \in [Process -> {"none", "accept", "dead"} \cup Serving]
    BY DEF SocketInv, TypeInv, Serving
  <2> QED
    BY <2>2, <2>3 DEF SocketInv, TypeInv
<1>4. PlaceInv' /\ ReachInv' /\ PathInv'
  BY ThreadMoves, ThreadIsUp DEF Serving
<1>5. \A q \in Process : Kept(q)' = Kept(q) /\ Kept(q) \subseteq Client /\ c \notin Kept(q)
  BY DEF SocketInv, TypeInv, KeepInv, Kept, ToSet
<1>6. KeepInv'
  BY <1>5 DEF SocketInv, KeepInv
<1>7. ClientInv'
  <2>1. ASSUME NEW q \in Process
        PROVE  /\ conn'[q] # None <=> thread'[q] \in Serving
               /\ conn'[q] # None =>
                   /\ client'[conn'[q]] \in {"waiting", "failed"}
                   /\ applied'[conn'[q]] = IF thread'[q] = "answer" THEN 1 ELSE 0
    <3>1. CASE q = p
      BY <1>1, <1>2, <3>1 DEF Serving
    <3>2. CASE q # p
      <4>1. conn[q] # None => conn[q] \in Client \ {c}
        BY <3>2 DEF SocketInv, TypeInv, KeepInv
      <4> QED
        BY <1>2, <3>2, <4>1 DEF SocketInv, ClientInv
    <3> QED
      BY <3>1, <3>2
  <2>2. \A q \in Process : \A d \in Kept(q)' :
          client'[d] \in {"waiting", "failed"} /\ applied'[d] = 0
    BY <1>2, <1>5 DEF SocketInv, ClientInv
  <2>3. AnswersAreTrue'
    BY <1>1, <1>2 DEF SocketInv, ClientInv, AnswersAreTrue
  <2> QED
    BY <2>1, <2>2, <2>3 DEF ClientInv
<1> QED
  BY <1>3, <1>4, <1>6, <1>7 DEF SocketInv

\* What both ways to end a connection do to the server.
LEMMA EndedKeeps ==
    ASSUME SocketInv, NEW p \in Process, thread[p] \in Serving, EndConnection(p)
    PROVE  /\ PlaceInv' /\ ReachInv' /\ PathInv'
           /\ thread' \in [Process -> {"none", "accept", "dead"} \cup Serving]
           /\ conn' \in [Process -> Client \cup {None}]
           /\ thread'[p] \notin Serving /\ conn'[p] = None
           /\ \A q \in Process \ {p} : thread'[q] = thread[q] /\ conn'[q] = conn[q]
<1> PICK to \in {"none", "accept"} : to = IF pc[p] \in Stopping THEN "none" ELSE "accept"
  OBVIOUS
<1>1. thread' = [thread EXCEPT ![p] = to]
  BY DEF EndConnection
<1>2. pc[p] \notin {"off"} \cup Starting
  BY ThreadIsUp DEF Serving
<1>3. PlaceInv' /\ ReachInv' /\ PathInv'
  BY <1>1, <1>2, ThreadMoves DEF EndConnection, Serving, Stopping
<1> QED
  BY <1>1, <1>3 DEF EndConnection, SocketInv, TypeInv, Serving

LEMMA EmptyKeeps ==
    ASSUME SocketInv, NEW p \in Process, EmptyRequest(p)
    PROVE  SocketInv'
<1>1. EndConnection(p) /\ Disconnect({conn[p]}) /\ thread[p] \in Serving
  BY DEF EmptyRequest, Serving
<1>2. TypeInv'
  BY <1>1, EndedKeeps, DisconnectEnds DEF EndConnection, SocketInv, TypeInv, history
<1>3. ClientInv' /\ KeepInv'
  <2>1. applied' = applied /\ backlog' = backlog
    BY <1>1 DEF EndConnection
  <2>2. conn[p] \in {conn[p]}
    OBVIOUS
  <2> QED
    BY <1>1, <1>2, <2>1, <2>2, EndedKeeps, DropKeeps
<1> QED
  BY <1>1, <1>2, <1>3, EndedKeeps DEF SocketInv

LEMMA RespondKeeps ==
    ASSUME SocketInv, NEW p \in Process, Respond(p)
    PROVE  SocketInv'
<1> PICK c : c = conn[p]
  OBVIOUS
<1>1. EndConnection(p) /\ thread[p] \in {"answer", "reject"} /\ thread[p] \in Serving
  BY DEF Respond, Serving
<1>2. /\ c \in Client /\ c # None /\ client[c] \in {"waiting", "failed"}
      /\ applied[c] = IF thread[p] = "answer" THEN 1 ELSE 0
  BY <1>1 DEF SocketInv, TypeInv, ClientInv
<1> PICK to \in {"answered", "rejected", "failed"} :
      to = IF client[c] # "waiting" THEN client[c]
           ELSE IF thread[p] = "answer" THEN "answered" ELSE "rejected"
  BY <1>2
<1>3. client' = [client EXCEPT ![c] = to]
  <2>1. client' = [client EXCEPT ![c] =
                     CASE client[c] = "waiting" /\ thread[p] = "answer" -> "answered"
                       [] client[c] = "waiting" /\ thread[p] = "reject" -> "rejected"
                       [] OTHER -> client[c]]
    BY <1>2 DEF Respond, SocketInv, TypeInv
  <2> QED
    BY <1>1, <2>1
<1>4. client'[c] = to /\ \A d \in Client \ {c} : client'[d] = client[d]
  BY <1>2, <1>3 DEF SocketInv, TypeInv
<1>5. TypeInv'
  <2>1. client' \in [Client -> {"idle", "waiting", "answered", "rejected", "failed"}]
    BY <1>3 DEF SocketInv, TypeInv
  <2> QED
    BY <1>1, <2>1, EndedKeeps DEF EndConnection, SocketInv, TypeInv
<1>6. applied' = applied /\ backlog' = backlog
  BY <1>1 DEF EndConnection
<1>7. \A q \in Process :
        /\ conn'[q] \in {conn[q], None}
        /\ conn'[q] # None <=> thread'[q] \in Serving
        /\ conn'[q] # None => thread'[q] = thread[q]
  BY <1>1, EndedKeeps DEF SocketInv, ClientInv
<1>8. ASSUME NEW d \in Client, client'[d] # client[d]
      PROVE  \E q \in Process :
               /\ conn[q] = d /\ conn'[q] = None
               /\ \/ client'[d] = "answered" /\ applied[d] = 1
                  \/ client'[d] = "rejected" /\ applied[d] = 0
  <2>1. d = c /\ client[c] = "waiting"
    BY <1>2, <1>4, <1>8
  <2>2. conn[p] = d /\ conn'[p] = None
    BY <1>1, <2>1, EndedKeeps
  <2> QED
    BY <1>1, <1>2, <1>4, <2>1, <2>2
<1>9. ASSUME NEW d \in Client, client'[d] = "waiting"
      PROVE  client[d] = "waiting" /\ \A q \in Process : conn[q] = d => conn'[q] = d
  BY <1>1, <1>4, <1>9, EndedKeeps
<1>10. ClientInv' /\ KeepInv'
  BY <1>5, <1>6, <1>7, <1>8, <1>9, ConnectionsDropped
<1> QED
  BY <1>1, <1>5, <1>10, EndedKeeps DEF SocketInv

-------------------------------------------------------------------------------
(* The clients.                                                            *)

LEMMA ServerUntouched ==
    ASSUME SocketInv, UNCHANGED <<path, pc, listening, thread, history>>,
           \A p \in Process : backlog'[p] # backlog[p] => listening[p]
    PROVE  PlaceInv' /\ ReachInv' /\ PathInv'
BY DEF SocketInv, PlaceInv, ReachInv, PathInv, history

LEMMA ConnectKeeps ==
    ASSUME SocketInv, NEW c \in Client, Connect(c)
    PROVE  SocketInv'
<1> USE DEF Connect
<1> PICK p : p = path
  OBVIOUS
<1>1. p \in Process /\ listening[p]
  BY DEF PathAccepts, SocketInv, TypeInv
<1>2. \A q \in Process : conn[q] # c /\ c \notin Kept(q)
  <2>1. client[c] = "idle" /\ c # None
    BY ControlSocketAssumption
  <2> QED
    BY <2>1 DEF SocketInv, ClientInv
<1>3. backlog[p] \in Seq(Client) /\ Distinct(backlog[p])
  BY <1>1 DEF SocketInv, TypeInv, KeepInv
<1>4. /\ Append(backlog[p], c) \in Seq(Client) /\ Distinct(Append(backlog[p], c))
      /\ ToSet(Append(backlog[p], c)) = Kept(p) \cup {c}
  BY <1>1, <1>2, <1>3, SetOfAppend DEF Kept
<1>5. backlog' = [backlog EXCEPT ![p] = Append(backlog[p], c)]
  BY <1>1 DEF SocketInv, TypeInv
<1>6. /\ Distinct(backlog[p])' /\ Kept(p)' = Kept(p) \cup {c}
      /\ \A q \in Process \ {p} : backlog'[q] = backlog[q] /\ Kept(q)' = Kept(q)
  BY <1>1, <1>4, <1>5 DEF SocketInv, TypeInv, Kept
<1>7. client'[c] = "waiting" /\ \A d \in Client \ {c} : client'[d] = client[d]
  BY DEF SocketInv, TypeInv
<1>8. TypeInv'
  BY <1>4, <1>5 DEF SocketInv, TypeInv
<1>9. PlaceInv' /\ ReachInv' /\ PathInv'
  BY <1>1, <1>6, ServerUntouched
<1>10. KeepInv'
  <2>1. \A q \in Process : Distinct(backlog[q])'
    BY <1>6 DEF SocketInv, KeepInv, Distinct
  <2>2. \A q, r \in Process : q # r => (Kept(q) \cap Kept(r) = {})'
    BY <1>2, <1>6 DEF SocketInv, KeepInv
  <2>3. \A q, r \in Process : conn'[q] \notin Kept(r)'
    BY <1>2, <1>6 DEF SocketInv, KeepInv
  <2>4. \A d \in Client : client'[d] = "waiting" =>
          \E q \in Process : conn'[q] = d \/ d \in Kept(q)'
    <3> SUFFICES ASSUME NEW d \in Client, client'[d] = "waiting"
                 PROVE  \E q \in Process : conn'[q] = d \/ d \in Kept(q)'
      OBVIOUS
    <3>1. CASE d = c
      BY <1>1, <1>6, <3>1
    <3>2. CASE d # c
      <4>1. PICK q \in Process : conn[q] = d \/ d \in Kept(q)
        BY <1>7, <3>2 DEF SocketInv, KeepInv
      <4> QED
        BY <1>6, <4>1
    <3> QED
      BY <3>1, <3>2
  <2> QED
    BY <2>1, <2>2, <2>3, <2>4 DEF SocketInv, KeepInv
<1>11. ClientInv'
  <2>1. \A q \in Process : conn[q] # None => conn[q] \in Client \ {c}
    BY <1>2 DEF SocketInv, TypeInv
  <2>2. \A q \in Process :
          /\ conn'[q] # None <=> thread'[q] \in Serving
          /\ conn'[q] # None =>
              /\ client'[conn'[q]] \in {"waiting", "failed"}
              /\ applied'[conn'[q]] = IF thread'[q] = "answer" THEN 1 ELSE 0
    BY <1>7, <2>1 DEF SocketInv, ClientInv
  <2>3. ASSUME NEW q \in Process, NEW d \in Kept(q)'
        PROVE  client'[d] \in {"waiting", "failed"} /\ applied'[d] = 0
    <3>1. CASE d = c
      BY <1>7, <3>1 DEF SocketInv, ClientInv, AnswersAreTrue
    <3>2. CASE d # c
      <4>1. d \in Kept(q) /\ d \in Client
        BY <1>6, <2>3, <3>2 DEF SocketInv, TypeInv, Kept, ToSet
      <4> QED
        BY <1>7, <3>2, <4>1 DEF SocketInv, ClientInv
    <3> QED
      BY <3>1, <3>2
  <2>4. AnswersAreTrue'
    BY <1>7 DEF SocketInv, ClientInv, AnswersAreTrue
  <2> QED
    BY <2>2, <2>3, <2>4 DEF ClientInv
<1> QED
  BY <1>8, <1>9, <1>10, <1>11 DEF SocketInv

LEMMA ClientFails ==
    ASSUME SocketInv, NEW c \in Client, client[c] \in {"idle", "waiting"},
           client' = [client EXCEPT ![c] = "failed"],
           UNCHANGED <<serverVars, applied, history>>
    PROVE  SocketInv'
<1> USE DEF serverVars
<1>1. TypeInv'
  BY DEF SocketInv, TypeInv
<1>2. PlaceInv' /\ ReachInv' /\ PathInv'
  BY ServerUntouched
<1>3. client'[c] = "failed" /\ \A d \in Client \ {c} : client'[d] = client[d]
  BY DEF SocketInv, TypeInv
<1>4. ClientInv' /\ KeepInv'
  BY <1>1, <1>3, ConnectionsDropped DEF SocketInv, ClientInv
<1> QED
  BY <1>1, <1>2, <1>4 DEF SocketInv

-------------------------------------------------------------------------------
LEMMA SocketInitially == Init => SocketInv
<1> SUFFICES ASSUME Init
             PROVE  SocketInv
  OBVIOUS
<1> USE DEF Init
<1>1. TypeInv
  BY DEF TypeInv, Places
<1>2. PlaceInv
  BY DEF PlaceInv, Starting, Stopping
<1>3. \A p \in Process : Kept(p) = {} /\ Distinct(backlog[p])
  BY SetOfEmpty DEF Kept
<1>4. ClientInv
  BY <1>3 DEF ClientInv, AnswersAreTrue, Serving
<1>5. KeepInv
  BY <1>3 DEF KeepInv
<1>6. ReachInv /\ PathInv
  BY DEF ReachInv, PathInv, Up
<1> QED
  BY <1>1, <1>2, <1>4, <1>5, <1>6 DEF SocketInv

LEMMA SocketStep == SocketInv /\ [Next]_vars => SocketInv'
<1> SUFFICES ASSUME SocketInv, [Next]_vars
             PROVE  SocketInv'
  OBVIOUS
<1>1. ASSUME NEW p \in Process,
             \/ Start(p) \/ LookAtPath(p) \/ Probe(p) \/ UnlinkStale(p)
             \/ Bind(p) \/ Chmod(p) \/ Listen(p) \/ StartThread(p)
      PROVE  SocketInv'
  BY <1>1, StartKeeps, LookKeeps, ProbeKeeps, UnlinkKeeps, BindKeeps, ChmodKeeps, ListenKeeps,
     StartThreadKeeps
<1>2. ASSUME NEW p \in Process,
             \/ Stop(p) \/ Join(p) \/ RemovePath(p)
             \/ FailStart(p) \/ FailStop(p) \/ Crash(p)
      PROVE  SocketInv'
  BY <1>2, StopKeeps, JoinKeeps, RemoveKeeps, EndEarlyKeeps DEF FailStart, FailStop, Crash
<1>3. ASSUME NEW p \in Process, ServeForever(p) \/ AcceptFails(p)
      PROVE  SocketInv'
  BY <1>3, ThreadStopsKeeps, AcceptKeeps, HandleKeeps, RejectKeeps, EmptyKeeps,
     RespondKeeps, AcceptFailsKeeps DEF ServeForever
<1>4. ASSUME NEW c \in Client, Connect(c) \/ ConnectionRefused(c) \/ GiveUp(c)
      PROVE  SocketInv'
  BY <1>4, ConnectKeeps, ClientFails DEF ConnectionRefused, GiveUp
<1>5. ASSUME UNCHANGED vars
      PROVE  SocketInv'
  BY <1>5 DEF vars, serverVars, history, SocketInv, TypeInv, PlaceInv, ClientInv, AnswersAreTrue,
              KeepInv, Kept, ReachInv, PathInv
<1> QED
  BY <1>1, <1>2, <1>3, <1>4, <1>5 DEF Next

LEMMA SocketInvariance == Spec => []SocketInv
BY SocketInitially, SocketStep, PTL DEF Spec

LEMMA HistoryTyping == Spec => [](overlapped \in BOOLEAN /\ cut \subseteq Process)
<1> DEFINE Typed == overlapped \in BOOLEAN /\ cut \subseteq Process
<1>1. Init => Typed
  BY DEF Init
<1>2. Typed /\ [Next]_vars => Typed'
  <2> SUFFICES ASSUME Typed, [Next]_vars
               PROVE  Typed'
    OBVIOUS
  <2>1. overlapped' = overlapped \/ overlapped' \in BOOLEAN
    BY DEF Next, vars, history, Start, LookAtPath, Probe, UnlinkStale, Bind, Chmod, Listen,
           StartThread, Stop, Join, RemovePath, Crash, FailStart, FailStop, EndEarly,
           ServeForever, ThreadStops, Accept, AcceptFails, HandleRequest, RejectRequest,
           EmptyRequest, EndConnection, Respond, Connect, ConnectionRefused, GiveUp, OnlyPath
  <2>2. cut' \subseteq cut \cup Process
    BY DEF Next, vars, history, Start, LookAtPath, Probe, UnlinkStale, Bind, Chmod, Listen,
           StartThread, Stop, Join, RemovePath, Crash, FailStart, FailStop, EndEarly,
           ServeForever, ThreadStops, Accept, AcceptFails, HandleRequest, RejectRequest,
           EmptyRequest, EndConnection, Respond, Connect, ConnectionRefused, GiveUp, OnlyPath
  <2> QED
    BY <2>1, <2>2
<1> QED
  BY <1>1, <1>2, PTL DEF Spec

-------------------------------------------------------------------------------
(* The variables of the socket keep their types, for any number of         *)
(* schedulers and connections.                                             *)
THEOREM SocketTyping == Spec => []TypeOK
<1>1. TypeInv /\ overlapped \in BOOLEAN /\ cut \subseteq Process => TypeOK
  BY DEF TypeInv, TypeOK, Places, Serving
<1>2. SocketInv => TypeInv
  BY DEF SocketInv
<1> QED
  BY <1>1, <1>2, SocketInvariance, HistoryTyping, PTL

(* A client that is told that its request was accepted had it applied      *)
(* exactly once, and one that is told otherwise had it not, whatever       *)
(* crashes, timeouts, overlapping starts and failures of accept() happen.  *)
THEOREM ClientsAreToldTheTruth == Spec => []AnswersAreTrue
<1>1. SocketInv => AnswersAreTrue
  BY DEF SocketInv, ClientInv
<1> QED
  BY <1>1, SocketInvariance, PTL

(* A waiting client's connection is kept by exactly one scheduler, though  *)
(* several may have bound the same path one after the other.               *)
THEOREM ConnectionsStay == Spec => []ConnectionsAreKept
<1>1. SocketInv => ConnectionsAreKept
  <2> SUFFICES ASSUME SocketInv, NEW c \in Client, client[c] = "waiting"
               PROVE  \E p \in Process :
                        {q \in Process : conn[q] = c \/ c \in Kept(q)} = {p}
    BY DEF ConnectionsAreKept, Kept
  <2>1. PICK p \in Process : conn[p] = c \/ c \in Kept(p)
    BY DEF SocketInv, KeepInv
  <2>2. \A q \in Process : conn[q] = c \/ c \in Kept(q) => q = p
    BY <2>1, ControlSocketAssumption DEF SocketInv, KeepInv
  <2> QED
    BY <2>1, <2>2
<1> QED
  BY <1>1, SocketInvariance, PTL

(* Unless a start was overlapped by another start or stop, the scheduler   *)
(* that runs is the one whose socket is at the path, and it accepts, even  *)
(* after any number of crashes that left their sockets there.              *)
THEOREM RunningCanBeReached == Spec => []RunningIsReachable
<1>1. SocketInv => RunningIsReachable
  BY DEF SocketInv, ReachInv, PlaceInv, RunningIsReachable, Up
<1> QED
  BY <1>1, SocketInvariance, PTL

(* What is at the path belongs to a scheduler that is there to remove it,  *)
(* or to one that was killed or cut short by an exception after it had     *)
(* bound it, however starts and stops overlap: all others clean up, those  *)
(* that were refused have nothing to clean up.                             *)
THEOREM PathIsCleanedUp == Spec => []NoSocketLeftBehind
<1>1. SocketInv => NoSocketLeftBehind
  BY ControlSocketAssumption DEF SocketInv, PathInv, NoSocketLeftBehind, Bound, Stopping
<1> QED
  BY <1>1, SocketInvariance, PTL
===============================================================================
