---------------------------- MODULE SlackBoundary ----------------------------
(***************************************************************************)
(* The error boundary send_errors_to_slack as schedule() uses it, with     *)
(* reraise=False and a webhook.  An Exception of the attempt is posted to  *)
(* Slack if the rate limiter, which all schedulers of one cache directory  *)
(* share (module RateLimiter), grants it, and is kept either way.  The     *)
(* limiter is asked, and charged, before the post: the post happens later, *)
(* may fail, and may never happen.  Nothing catches what the limiter       *)
(* itself raises: it ends the scheduler.                                   *)
(***************************************************************************)
EXTENDS RateLimiter, FiniteSets

VARIABLES
    at,     \* where each scheduler is: in the attempt, or in the handler
    posts   \* the messages posted so far

boundaryVars == <<at, posts>>

BoundaryTypeOK ==
    /\ TypeOK
    /\ at \in [Process -> {"attempt", "limiter", "post"}]
    /\ posts \in Nat

BoundaryInit ==
    /\ Init
    /\ at = [p \in Process |-> "attempt"]
    /\ posts = 0

-------------------------------------------------------------------------------
Handler(p, from, to) == at[p] = from /\ at' = [at EXCEPT ![p] = to]

\* The attempt raises an Exception, and ping_if_ready is called.
AttemptFails(p) ==
    /\ Handler(p, "attempt", "limiter")
    /\ Call(p)
    /\ pc'[p] = "open_if_ready"
    /\ UNCHANGED posts

\* The program uses the limiter for something else.
UseLimiter(p) ==
    /\ at[p] = "attempt"
    /\ \/ Call(p) /\ pc'[p] = "open"
       \/ IsReady(p)
    /\ UNCHANGED boundaryVars

LimiterGoesOn(p) ==
    /\ \/ OpenFile(p) \/ LockFile(p)
       \/ Check(p) /\ pc'[p] # "idle"
       \/ Touch(p) /\ at[p] = "attempt"
    /\ UNCHANGED boundaryVars

\* Mutant: the error is posted although the limiter has denied it.
DenyAndPost(p) ==
    /\ Check(p)
    /\ pc'[p] = "idle"
    /\ Handler(p, "limiter", "post")
    /\ UNCHANGED posts

\* "Not posting to Slack to avoid hitting rate limits."
Deny(p) ==
    /\ Check(p)
    /\ pc'[p] = "idle"
    /\ Handler(p, "limiter", "attempt")
    /\ UNCHANGED posts

Grant(p) ==
    /\ Touch(p)
    /\ Handler(p, "limiter", "post")
    /\ UNCHANGED posts

Post(p) ==
    /\ Handler(p, "post", "attempt")
    /\ posts' = posts + 1
    /\ UNCHANGED vars

\* What requests.post raises is logged, and the limiter stays charged.
PostFails(p) ==
    /\ Handler(p, "post", "attempt")
    /\ UNCHANGED <<vars, posts>>

\* The scheduler is killed, or the limiter's files raise an OSError, which
\* leaves the handler and ends the scheduler; it is started anew.
SchedulerEnds(p) ==
    /\ Crash(p)
    /\ at' = [at EXCEPT ![p] = "attempt"]
    /\ UNCHANGED posts

BoundaryNext ==
    \/ \E p \in Process :
        \/ AttemptFails(p) \/ UseLimiter(p) \/ LimiterGoesOn(p)
        \/ Deny(p) \/ Grant(p) \/ Post(p) \/ PostFails(p) \/ SchedulerEnds(p)
    \/ Tick /\ UNCHANGED boundaryVars

BoundarySpec == BoundaryInit /\ [][BoundaryNext]_<<vars, boundaryVars>>

-------------------------------------------------------------------------------
Pending == {p \in Process : at[p] = "post"}

(* "A rate limiter to prevent hitting Slack's rate limits": whatever fails  *)
(* in how many schedulers, and however long a post is delayed after it was  *)
(* granted, the posts never outnumber the periods that have begun.  Those   *)
(* that are granted and still to be made are counted, too.                  *)
PostsAreFew ==
    posts + Cardinality(Pending) <= 1 + (now - StartTime) \div MinimumPeriod
==============================================================================
