-------------------------------- MODULE Startup --------------------------------
(***************************************************************************)
(* From the command line to the loop: the checks of the options, twice,    *)
(* and the configuration of Healthchecks in schedule().  Each request to   *)
(* the management API, and each warning sent to the log of the check, may  *)
(* succeed or fail; what fails is raised or survived, as hc_config_failure *)
(* says.  No request is repeated.                                          *)
(***************************************************************************)
EXTENDS CommandLine

VARIABLES
    stage,      \* where the program is
    options,    \* the parameters of schedule()
    command,    \* the job: its kind, check, and exit codes
    check,      \* the check that is pinged, None if there is none
    creation_failed,
    applied,    \* the parts of the configuration that Healthchecks has accepted
    warned      \* the warnings given: by the request that failed, or "no_key"

ASSUME NoneIsNoCheck ==
    None \notin {"", "uuid", "created"} \cup [uuid : {None, "", "uuid", "created"}]

startupVars == <<stage, options, command, check, creation_failed, applied, warned>>

\* The metadata given, by how it is treated: a description or a duration for
\* hc_timeout or hc_grace, and a duration for either that is no time at all.
Options ==
    [hc_manage_key : {None, "", "key"},
     hc_ping_key : {None, "key"},
     hc_uuid : {None, "", "uuid"},
     name : {None, "", "name"},
     metadata : SUBSET {"value", "zero_duration"},
     routing : BOOLEAN,     \* hc_channels or hc_tags
     hc_config_failure : {"raise", "warn", "invalid"}]

NoCommand ==
    [kind |-> "function", check |-> FALSE, success |-> {0}, neutral |-> {}]

\* The truth of an optional string in Python.
Truthy(value) == value \notin {None, ""}

\* "To ping a health check, we need (the UUID) || (the slug && the ping key)."
Pingable(o) == Truthy(o.hc_uuid) \/ (Truthy(o.hc_ping_key) /\ Truthy(o.name))

StartupInit ==
    /\ stage = "parse"
    /\ options \in Options
    /\ command = NoCommand
    /\ check = None
    /\ creation_failed = FALSE
    /\ applied = {}
    /\ warned = {}

GoTo(from, to) == stage = from /\ stage' = to

-------------------------------------------------------------------------------
(* The command line.                                                       *)

Configuration == <<check, creation_failed, applied, warned>>

\* A Python program calls schedule().
CallSchedule ==
    /\ GoTo("parse", "validate")
    /\ UNCHANGED <<options, command, Configuration>>

\* Click only lets "raise" and "warn" through.
ParseCommand ==
    /\ options.hc_config_failure \in {"raise", "warn"}
    /\ \E kind \in Commands, given \in BOOLEAN \cup {None} :
       \E success, neutral \in ParsedLists :
        /\ kind # "subprocess" => given = None
        /\ ValidSets(kind, given, success, neutral)
        /\ command' = [kind |-> kind, success |-> success, neutral |-> neutral,
                       check |-> kind = "subprocess" /\ Check(given, success, neutral)]
    /\ GoTo("parse", "result")
    /\ UNCHANGED <<options, Configuration>>

\* An invalid choice, list or combination, or a click command that cannot be
\* imported.
RefuseCommand ==
    /\ GoTo("parse", "refused")
    /\ UNCHANGED <<options, command, Configuration>>

MissingPrerequisite == options.routing /\ ~(Truthy(options.hc_manage_key) /\ Pingable(options))

\* schedule_cli__on_result, on the callable the command has returned.
OnResult ==
    /\ GoTo("result", IF MissingPrerequisite THEN "refused" ELSE "validate")
    /\ UNCHANGED <<options, command, Configuration>>

-------------------------------------------------------------------------------
(* schedule() before the loop.                                             *)

InvalidPolicy == options.hc_config_failure \notin {"raise", "warn"}

Refuse ==
    /\ InvalidPolicy \/ MissingPrerequisite
    /\ GoTo("validate", "refused")
    /\ UNCHANGED <<options, command, Configuration>>

\* Without a key the metadata is dropped, with a warning.
Prepare ==
    /\ ~InvalidPolicy /\ ~MissingPrerequisite
    /\ GoTo("validate", "metadata")
    /\ check' = IF Pingable(options) THEN [uuid |-> options.hc_uuid] ELSE None
    /\ warned' = IF options.hc_manage_key = None /\ options.metadata # {}
                 THEN {"no_key"} ELSE {}
    /\ UNCHANGED <<options, command, creation_failed, applied>>

\* What is sent of the metadata.  A duration is tested by its truth: one of no
\* time is left out.
ConfiguredMetadata(o) ==
    (IF o.name = None THEN {} ELSE {"name"}) \cup (o.metadata \ {"zero_duration"})

SendsMetadata ==
    /\ check # None
    /\ Truthy(options.hc_manage_key)
    /\ ConfiguredMetadata(options) # {}

\* Mutant: the routing update is sent although no check could be created.
SendsRoutingAnyway == options.routing

SendsRouting == options.routing /\ ~creation_failed

SkipStep ==
    /\ \/ GoTo("metadata", "routing") /\ ~SendsMetadata
       \/ GoTo("routing", "history") /\ ~SendsRouting
    /\ UNCHANGED <<options, command, Configuration>>

CreateCheck ==
    /\ SendsMetadata
    /\ options.hc_uuid = None
    /\ GoTo("metadata", "routing")
    /\ check' = [uuid |-> "created"]
    /\ applied' = ConfiguredMetadata(options)
    /\ UNCHANGED <<options, command, creation_failed, warned>>

UpdateMetadata ==
    /\ SendsMetadata
    /\ options.hc_uuid # None
    /\ GoTo("metadata", "routing")
    /\ applied' = ConfiguredMetadata(options)
    /\ UNCHANGED <<options, command, check, creation_failed, warned>>

UpdateRouting ==
    /\ SendsRouting
    /\ GoTo("routing", "history")
    /\ applied' = applied \cup {"routing"}
    /\ UNCHANGED <<options, command, check, creation_failed, warned>>

Sends == (stage = "metadata" /\ SendsMetadata) \/ (stage = "routing" /\ SendsRouting)

\* A RequestException (or, of the creation, a ValueError) is survived.
SurviveFailure ==
    /\ Sends
    /\ options.hc_config_failure = "warn"
    /\ stage' = "warning"
    /\ creation_failed' =
            (creation_failed \/ (stage = "metadata" /\ options.hc_uuid = None))
    /\ warned' = warned \cup {stage}
    /\ UNCHANGED <<options, command, check, applied>>

\* ... or raised, as any other error and a KeyboardInterrupt is.
RaiseFailure ==
    /\ Sends
    /\ stage' = "raised"
    /\ UNCHANGED <<options, command, Configuration>>

\* The warning goes to the log of the check; an Exception of that is dropped.
LogWarning ==
    /\ GoTo("warning", IF "routing" \in warned THEN "history" ELSE "routing")
    /\ UNCHANGED <<options, command, Configuration>>

\* KeyboardInterrupt or SystemExit while the warning is sent; or the directory
\* of the history cannot be made, or the old history not be removed.
StartupRaises ==
    /\ GoTo("warning", "raised") \/ GoTo("history", "raised")
    /\ UNCHANGED <<options, command, Configuration>>

OpenHistory ==
    /\ GoTo("history", "loop")
    /\ UNCHANGED <<options, command, Configuration>>

StartupNext ==
    \/ CallSchedule \/ ParseCommand \/ RefuseCommand \/ OnResult
    \/ Refuse \/ Prepare \/ SkipStep
    \/ CreateCheck \/ UpdateMetadata \/ UpdateRouting
    \/ SurviveFailure \/ RaiseFailure
    \/ LogWarning \/ StartupRaises \/ OpenHistory

-------------------------------------------------------------------------------
Started == stage \notin
    {"parse", "result", "validate", "metadata", "routing", "warning", "history",
     "refused", "raised"}

\* What is dropped without a word: a duration of no time, and all metadata if
\* the key is empty, or there is nothing to identify the check by.
DroppedSilently(o) ==
    IF o.hc_manage_key = None THEN {}
    ELSE IF o.hc_manage_key = "" \/ ~Pingable(o) THEN o.metadata
    ELSE o.metadata \cap {"zero_duration"}

(* When scheduled work starts, every part of the configuration that was    *)
(* asked for has been accepted, or a warning tells of it and the policy or *)
(* the missing key allows to go on, or it was dropped silently, and then   *)
(* it has not been sent.  Routing is never asked for without its           *)
(* prerequisites, nor sent for a check without an identity, other than an  *)
(* empty UUID that was given as such.                                      *)
WorkStartsConfigured ==
    Started =>
        /\ options.routing =>
            /\ Truthy(options.hc_manage_key) /\ Pingable(options)
            /\ "routing" \in applied \cup warned \/ creation_failed
        /\ \/ options.metadata \ DroppedSilently(options) \subseteq applied
           \/ "metadata" \in warned
           \/ "no_key" \in warned /\ options.hc_manage_key = None
        /\ DroppedSilently(options) \cap applied = {}
        /\ warned \subseteq {"no_key"} \/ options.hc_config_failure = "warn"
        /\ "routing" \in applied => Truthy(check.uuid) \/ options.hc_uuid = ""

-------------------------------------------------------------------------------
(* What the documentation says and the code does not do.                   *)

(* "Missing management keys or check identities remain errors in either    *)
(* mode": metadata that nothing can be done with does not pass unnoticed.  *)
NothingDroppedSilently ==
    Started => options.metadata \ {"zero_duration"} \subseteq applied \/ warned # {}
===============================================================================
