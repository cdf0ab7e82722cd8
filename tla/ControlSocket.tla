----------------------------- MODULE ControlSocket -----------------------------
(***************************************************************************)
(* The Unix socket through which clients control schedulers:               *)
(* _controller_socket.py.  Several schedulers are started with the same    *)
(* socket path, run one after the other or by mistake at the same time.    *)
(* Starting looks at the path, probes whether a scheduler answers there,   *)
(* removes a stale socket, binds and listens; stopping closes the socket,  *)
(* joins the server thread and removes what is at the path.  None of these *)
(* steps excludes the steps of another process, and each of them may be    *)
(* the last one, because the process is killed or an exception is raised.  *)
(*                                                                         *)
(* A client stands for one connection: it connects, sends one request and  *)
(* waits for one answer.  The server thread serves one connection at a     *)
(* time.                                                                   *)
(***************************************************************************)
EXTENDS Naturals, Sequences, SequencesExt

CONSTANTS
    Process,            \* schedulers with the same socket path
    Client,             \* connections
    AcceptMayFail,      \* accept() may raise, for want of file descriptors
    None

ASSUME ControlSocketAssumption ==
    /\ AcceptMayFail \in BOOLEAN
    /\ None \notin Process \cup Client

VARIABLES
    path,               \* the process whose socket is at the path, dead or alive
    pc,                 \* where each process is in start() and stop()
    listening,          \* its socket accepts connections
    backlog,            \* connections the kernel keeps for it
    thread,             \* its server thread
    conn,               \* the connection the thread serves
    client,             \* how far each client is
    applied,            \* how often its request was applied to a controller
    overlapped,         \* history: a scheduler was started while another one
                        \* was starting or stopping
    cut                 \* history: the schedulers that ended after bind() and
                        \* before they came to remove what is at the path

serverVars == <<path, pc, listening, backlog, thread, conn>>
history == <<overlapped, cut>>
vars == <<serverVars, client, applied, history>>

Starting == {"look", "probe", "unlink", "bind", "chmod", "listen", "spawn"}
Stopping == {"join", "remove"}

\* A process has bound the path, and has yet to remove what is there.
Bound == {"chmod", "listen", "spawn", "serving"} \cup Stopping

TypeOK ==
    /\ path \in Process \cup {None}
    /\ pc \in [Process -> {"off", "serving"} \cup Starting \cup Stopping]
    /\ listening \in [Process -> BOOLEAN]
    /\ backlog \in [Process -> Seq(Client)]
    /\ thread \in [Process -> {"none", "accept", "read", "answer", "reject", "dead"}]
    /\ conn \in [Process -> Client \cup {None}]
    /\ client \in [Client -> {"idle", "waiting", "answered", "rejected", "failed"}]
    /\ applied \in [Client -> 0..1]
    /\ overlapped \in BOOLEAN
    /\ cut \subseteq Process

Init ==
    /\ path = None
    /\ pc = [p \in Process |-> "off"]
    /\ listening = [p \in Process |-> FALSE]
    /\ backlog = [p \in Process |-> <<>>]
    /\ thread = [p \in Process |-> "none"]
    /\ conn = [p \in Process |-> None]
    /\ client = [c \in Client |-> "idle"]
    /\ applied = [c \in Client |-> 0]
    /\ overlapped = FALSE
    /\ cut = {}

-------------------------------------------------------------------------------
Goto(p, from, to) == pc[p] = from /\ pc' = [pc EXCEPT ![p] = to]

\* A connect() to the path would succeed.
PathAccepts == path # None /\ listening[path]

\* The clients in S that still wait see their connection closed.
Disconnect(S) ==
    client' = [c \in Client |->
                 IF c \in S /\ client[c] = "waiting" THEN "failed" ELSE client[c]]

\* The process gives up its socket; the kernel resets what it kept for it.
Unlisten(p) ==
    /\ listening' = [listening EXCEPT ![p] = FALSE]
    /\ backlog' = [backlog EXCEPT ![p] = <<>>]

\* The process ends where it is.  What it has open is closed, but nobody
\* removes the socket it may have bound.
EndEarly(p) ==
    /\ pc' = [pc EXCEPT ![p] = "off"]
    /\ Unlisten(p)
    /\ thread' = [thread EXCEPT ![p] = "none"]
    /\ conn' = [conn EXCEPT ![p] = None]
    /\ Disconnect({conn[p]} \cup ToSet(backlog[p]))
    /\ cut' = IF pc[p] \in Bound THEN cut \cup {p} ELSE cut
    /\ UNCHANGED <<path, applied, overlapped>>

\* The process is killed.
Crash(p) ==
    /\ pc[p] # "off"
    /\ EndEarly(p)

-------------------------------------------------------------------------------
(* start().                                                                *)

OnlyPath == UNCHANGED <<listening, backlog, thread, conn, client, applied, history>>

\* start() raises, and schedule() with it, before its loop: a scheduler
\* answers at the path, a call fails, or the user interrupts.  From chmod() to
\* settimeout() an Exception closes the socket, later the end of schedule()
\* does; neither looks at the path.
FailStart(p) ==
    /\ pc[p] \in Starting
    /\ EndEarly(p)

Start(p) ==
    /\ Goto(p, "off", "look")
    /\ overlapped' = (overlapped \/ \E q \in Process : pc[q] \in Starting \cup Stopping)
    /\ UNCHANGED <<path, listening, backlog, thread, conn, client, applied, cut>>

\* _prepare_socket_path: nothing to do if there is nothing at the path.
LookAtPath(p) ==
    /\ Goto(p, "look", IF path = None THEN "bind" ELSE "probe")
    /\ UNCHANGED path
    /\ OnlyPath

\* Mutant: whatever is at the path counts as stale.
ProbeNothing(p) == Goto(p, "probe", "unlink") /\ UNCHANGED path /\ OnlyPath

\* stat() and socket_path_accepts_connections(): start() goes on if nobody
\* answers, otherwise it raises.  The probe connects and hangs up at once; the
\* server thread that accepts it reads an empty request.
Probe(p) ==
    /\ path # None
    /\ ~PathAccepts
    /\ Goto(p, "probe", "unlink")
    /\ UNCHANGED path
    /\ OnlyPath

\* unlink() raises if the path is gone.
UnlinkStale(p) ==
    /\ path # None
    /\ Goto(p, "unlink", "bind")
    /\ path' = None
    /\ OnlyPath

\* bind() raises if there is something at the path again.
Bind(p) ==
    /\ path = None
    /\ Goto(p, "bind", "chmod")
    /\ path' = p
    /\ cut' = cut \ {p}
    /\ UNCHANGED <<listening, backlog, thread, conn, client, applied, overlapped>>

\* chmod() raises if the path is gone.
Chmod(p) ==
    /\ path # None
    /\ Goto(p, "chmod", "listen")
    /\ UNCHANGED path
    /\ OnlyPath

\* From here on clients can connect.
Listen(p) ==
    /\ Goto(p, "listen", "spawn")
    /\ listening' = [listening EXCEPT ![p] = TRUE]
    /\ UNCHANGED <<path, backlog, thread, conn, client, applied, history>>

StartThread(p) ==
    /\ Goto(p, "spawn", "serving")
    /\ thread' = [thread EXCEPT ![p] = "accept"]
    /\ UNCHANGED <<path, listening, backlog, conn, client, applied, history>>

-------------------------------------------------------------------------------
(* stop().                                                                 *)

\* Set the stop event and close the socket.  While the server thread polls it
\* in accept(), the kernel keeps it open.
Stop(p) ==
    /\ Goto(p, "serving", "join")
    /\ overlapped' = (overlapped \/ \E q \in Process : pc[q] \in Starting)
    /\ IF thread[p] = "accept"
       THEN UNCHANGED <<listening, backlog, client>>
       ELSE Unlisten(p) /\ Disconnect(ToSet(backlog[p]))
    /\ UNCHANGED <<path, thread, conn, applied, cut>>

\* join() returns when the thread has ended, or after ten seconds if a client
\* keeps the thread busy.
Join(p) ==
    /\ Goto(p, "join", "remove")
    /\ thread[p] # "accept"
    /\ UNCHANGED path
    /\ OnlyPath

\* Mutant: the socket stays at the path.
RemoveNothing(p) ==
    /\ Goto(p, "remove", "off")
    /\ UNCHANGED path
    /\ Unlisten(p)
    /\ thread' = [thread EXCEPT ![p] = "none"]
    /\ conn' = [conn EXCEPT ![p] = None]
    /\ Disconnect({conn[p]})
    /\ UNCHANGED <<applied, history>>

\* Remove the socket that is at the path; the process ends.
RemovePath(p) ==
    /\ Goto(p, "remove", "off")
    /\ path' = None
    /\ Unlisten(p)
    /\ thread' = [thread EXCEPT ![p] = "none"]
    /\ conn' = [conn EXCEPT ![p] = None]
    /\ Disconnect({conn[p]})
    /\ UNCHANGED <<applied, history>>

\* stop() raises: the user interrupts it while it waits for its thread, or the
\* path cannot be removed.
FailStop(p) ==
    /\ pc[p] \in Stopping
    /\ EndEarly(p)

-------------------------------------------------------------------------------
(* _serve_forever().                                                       *)

ThreadStops(p) ==
    /\ thread[p] = "accept"
    /\ pc[p] \in Stopping
    /\ thread' = [thread EXCEPT ![p] = "none"]
    /\ Unlisten(p)
    /\ Disconnect(ToSet(backlog[p]))
    /\ UNCHANGED <<path, pc, conn, applied, history>>

\* Mutant: the connection is served again.
AcceptAgain(p) ==
    /\ thread[p] = "accept"
    /\ pc[p] = "serving"
    /\ backlog[p] # <<>>
    /\ thread' = [thread EXCEPT ![p] = "read"]
    /\ conn' = [conn EXCEPT ![p] = Head(backlog[p])]
    /\ UNCHANGED <<path, pc, listening, backlog, client, applied, history>>

Accept(p) ==
    /\ thread[p] = "accept"
    /\ pc[p] = "serving"
    /\ backlog[p] # <<>>
    /\ thread' = [thread EXCEPT ![p] = "read"]
    /\ conn' = [conn EXCEPT ![p] = Head(backlog[p])]
    /\ backlog' = [backlog EXCEPT ![p] = Tail(@)]
    /\ UNCHANGED <<path, pc, listening, client, applied, history>>

\* accept() raises OSError though nobody stops the server; the thread ends.
AcceptFails(p) ==
    /\ AcceptMayFail
    /\ thread[p] = "accept"
    /\ pc[p] = "serving"
    /\ thread' = [thread EXCEPT ![p] = "dead"]
    /\ UNCHANGED <<path, pc, listening, backlog, conn, client, applied, history>>

\* The request is read, parsed and applied to the controller, even if its
\* client has given up meanwhile.
HandleRequest(p) ==
    /\ thread[p] = "read"
    /\ thread' = [thread EXCEPT ![p] = "answer"]
    /\ applied' = [applied EXCEPT ![conn[p]] = @ + 1]
    /\ UNCHANGED <<path, pc, listening, backlog, conn, client, history>>

\* Mutant: the request is applied before it is found to be invalid.
RejectRequestTooLate(p) ==
    /\ thread[p] = "read"
    /\ thread' = [thread EXCEPT ![p] = "reject"]
    /\ applied' = [applied EXCEPT ![conn[p]] = @ + 1]
    /\ UNCHANGED <<path, pc, listening, backlog, conn, client, history>>

\* It is no request, too large, or does not arrive within the timeout.
RejectRequest(p) ==
    /\ thread[p] = "read"
    /\ thread' = [thread EXCEPT ![p] = "reject"]
    /\ UNCHANGED <<path, pc, listening, backlog, conn, client, applied, history>>

\* The connection is closed; a server that was stopped accepts no other.
EndConnection(p) ==
    /\ thread' = [thread EXCEPT ![p] = IF pc[p] \in Stopping THEN "none" ELSE "accept"]
    /\ conn' = [conn EXCEPT ![p] = None]
    /\ UNCHANGED <<path, pc, listening, backlog, applied, history>>

\* Mutant: the connection stays open.
EmptyRequestLeftOpen(p) ==
    /\ thread[p] = "read"
    /\ UNCHANGED client
    /\ EndConnection(p)

\* The client hung up without a request.
EmptyRequest(p) ==
    /\ thread[p] = "read"
    /\ Disconnect({conn[p]})
    /\ EndConnection(p)

\* A client that has given up does not get the answer.
Respond(p) ==
    /\ thread[p] \in {"answer", "reject"}
    /\ client' = [client EXCEPT ![conn[p]] =
                    CASE @ = "waiting" /\ thread[p] = "answer" -> "answered"
                      [] @ = "waiting" /\ thread[p] = "reject" -> "rejected"
                      [] OTHER -> @]
    /\ EndConnection(p)

ServeForever(p) ==
    \/ ThreadStops(p) \/ Accept(p) \/ HandleRequest(p) \/ RejectRequest(p)
    \/ EmptyRequest(p) \/ Respond(p)

-------------------------------------------------------------------------------
(* send_controller_socket_request().                                       *)

Connect(c) ==
    /\ client[c] = "idle"
    /\ PathAccepts
    /\ client' = [client EXCEPT ![c] = "waiting"]
    /\ backlog' = [backlog EXCEPT ![path] = Append(@, c)]
    /\ UNCHANGED <<path, pc, listening, thread, conn, applied, history>>

ConnectionRefused(c) ==
    /\ client[c] = "idle"
    /\ ~PathAccepts
    /\ client' = [client EXCEPT ![c] = "failed"]
    /\ UNCHANGED <<serverVars, applied, history>>

\* The client's timeout elapses.
GiveUp(c) ==
    /\ client[c] = "waiting"
    /\ client' = [client EXCEPT ![c] = "failed"]
    /\ UNCHANGED <<serverVars, applied, history>>

-------------------------------------------------------------------------------
Next ==
    \/ \E p \in Process :
        \/ Start(p) \/ LookAtPath(p) \/ Probe(p) \/ UnlinkStale(p)
        \/ Bind(p) \/ Chmod(p) \/ Listen(p) \/ StartThread(p) \/ FailStart(p)
        \/ Stop(p) \/ Join(p) \/ RemovePath(p) \/ FailStop(p) \/ Crash(p)
        \/ ServeForever(p) \/ AcceptFails(p)
    \/ \E c \in Client : Connect(c) \/ ConnectionRefused(c) \/ GiveUp(c)

Spec == Init /\ [][Next]_vars

\* Server threads are scheduled, and each read of a request ends by its timeout
\* or by the limit on its size.  A scheduler that listens goes on to start its
\* thread, or fails to.  Clients may wait for ever.
FairSpec ==
    /\ Spec
    /\ \A p \in Process :
        /\ WF_vars(ServeForever(p))
        /\ WF_vars(StartThread(p) \/ (pc[p] = "spawn" /\ FailStart(p)))

-------------------------------------------------------------------------------
(* Clients learn what became of their request: an answer other than an     *)
(* error means that it was applied, once, and an error answer that it was  *)
(* not -- across timeouts, crashes and stops of the server.                *)
AnswersAreTrue ==
    \A c \in Client :
        /\ client[c] = "answered" => applied[c] = 1
        /\ client[c] \in {"idle", "rejected"} => applied[c] = 0

(* A connection is in one place: no request is kept for two servers, or    *)
(* kept for one and served by another, and none waits where nobody will    *)
(* look.                                                                   *)
ConnectionsAreKept ==
    \A c \in Client :
        LET keepers == {p \in Process : conn[p] = c \/ c \in ToSet(backlog[p])}
        IN  client[c] = "waiting" => \E p \in Process : keepers = {p}

(* A scheduler that runs can be controlled: its socket is the one at the   *)
(* path, whatever stale sockets killed or failed ones have left there,     *)
(* unless one was started while another one was starting or stopping.      *)
RunningIsReachable ==
    ~overlapped =>
        \A p \in Process : pc[p] = "serving" => path = p /\ listening[p]

(* The path outlives a scheduler only if that scheduler was killed, or was  *)
(* cut short by an exception, after it had bound the path: one whose start *)
(* was refused before leaves nothing of its own, nor does one that stops   *)
(* regularly, however their starts and stops overlap with others'.         *)
NoSocketLeftBehind ==
    \A p \in Process : pc[p] = "off" /\ path = p => p \in cut

(* No client hangs on a connection: even without a timeout of its own it   *)
(* is answered or disconnected in the end, if no server thread has died.   *)
ConnectionsEnd ==
    \A c \in Client :
        client[c] = "waiting"
            ~> client[c] # "waiting" \/ \E p \in Process : thread[p] = "dead"

-------------------------------------------------------------------------------
(* What the documentation says and the code does not do.                   *)

(* "Another scheduler may already be running": the second one is rejected. *)
OnlyOneRuns ==
    \A p, q \in Process : pc[p] = "serving" /\ pc[q] = "serving" => p = q

(* stop: "close the socket, join the server thread, and unlink it" --      *)
(* its own socket, not the one of a scheduler that was started meanwhile.  *)
UnlinksItsOwn ==
    [][\A p \in Process :
        pc[p] = "remove" /\ pc'[p] = "off" /\ path' # path => path = p]_vars

(* "Accept socket connections until the server is stopped."                *)
AcceptsUntilStopped ==
    \A p \in Process : \A c \in Client :
        c \in ToSet(backlog[p]) ~> c \notin ToSet(backlog[p])
===============================================================================
