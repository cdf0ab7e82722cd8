---------------------------- MODULE ControlPromise ----------------------------
(***************************************************************************)
(* What a client of a running scheduler may rely on, in three variables.   *)
(* A request that was accepted is owed until the scheduler turns to it;    *)
(* the scheduler rests only when it owes nothing and is not leaving; it    *)
(* turns to everything it owes at once; a scheduler that was asked to      *)
(* leave gets to its end.  Neither threads nor locks occur here: module    *)
(* ScheduleRefinement shows that the loop and its controller keep this     *)
(* promise.                                                                *)
(***************************************************************************)
VARIABLES
    phase,      \* "resting", "working" or "over"
    owed,       \* requests accepted and not yet turned to
    leaving     \* the scheduler was asked to quit

promiseVars == <<phase, owed, leaving>>

Requests == {"wake", "run-now"}

PromiseTypeOK ==
    /\ phase \in {"resting", "working", "over"}
    /\ owed \subseteq Requests
    /\ leaving \in BOOLEAN

PromiseInit ==
    /\ phase = "working"
    /\ owed = {}
    /\ leaving = FALSE

\* A request rouses a resting scheduler.
Ask(request) ==
    /\ phase # "over"
    /\ ~leaving
    /\ phase' = "working"
    /\ owed' = owed \cup {request}
    /\ UNCHANGED leaving

AskToLeave ==
    /\ phase # "over"
    /\ phase' = "working"
    /\ leaving' = TRUE
    /\ UNCHANGED owed

TurnToRequests ==
    /\ phase = "working"
    /\ owed' = {}
    /\ UNCHANGED <<phase, leaving>>

Rest ==
    /\ phase = "working"
    /\ owed = {}
    /\ ~leaving
    /\ phase' = "resting"
    /\ UNCHANGED <<owed, leaving>>

Stir ==
    /\ phase = "resting"
    /\ phase' = "working"
    /\ UNCHANGED <<owed, leaving>>

End ==
    /\ phase = "working"
    /\ phase' = "over"
    /\ UNCHANGED <<owed, leaving>>

PromiseNext ==
    \/ \E request \in Requests : Ask(request)
    \/ AskToLeave \/ TurnToRequests \/ Rest \/ Stir \/ End

PromiseSafety == PromiseInit /\ [][PromiseNext]_promiseVars

\* Nothing stays owed, and leaving comes to an end.
Kept ==
    /\ owed # {} ~> owed = {} \/ phase = "over"
    /\ leaving ~> phase = "over"

Promise == PromiseSafety /\ Kept
===============================================================================
