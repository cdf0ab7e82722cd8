---------------------------- MODULE JobReportProofs ----------------------------
(***************************************************************************)
(* Proofs about the startup and the reports of an attempt, for any exit    *)
(* codes: scheduled work starts as it was configured or with a warning,    *)
(* and its outcome is told as the table of outcomes says.                  *)
(***************************************************************************)
EXTENDS JobReport, TLAPS

Before == {"parse", "result", "validate"}
Configuring == {"metadata", "routing", "warning", "history"}
Attempt == {"loop", "job", "report", "exit", "record", "boundary", "attempted", "ended"}

\* The step for the metadata, and the one for the routing, are done.
MetadataDone == stage \in Configuring \cup Attempt /\ stage # "metadata"
RoutingDone ==
    stage \in Attempt \cup {"history"} \/ (stage = "warning" /\ "routing" \in warned)

Accepted(job) ==
    /\ job.kind \in Commands \cup {"function"}
    /\ job.check \in BOOLEAN
    /\ job.success \subseteq ExitCodes /\ job.neutral \subseteq ExitCodes
    /\ job.success \cap job.neutral = {}
    /\ job.check => job.kind = "subprocess" /\ job.success = {0} /\ job.neutral = {}

CommandOK == Accepted(command)

StageOK ==
    /\ stage \in Before \cup Configuring \cup Attempt \cup {"refused", "raised"}
    /\ options \in Options
    /\ applied \subseteq ConfiguredMetadata(options) \cup {"routing"}

(* What was validated stays so, and the check is known from then on.       *)
ValidInv ==
    /\ stage \in Before => applied = {} /\ warned = {} /\ ~creation_failed
    /\ stage \in Configuring \cup Attempt =>
        /\ ~InvalidPolicy /\ ~MissingPrerequisite
        /\ check = None <=> ~Pingable(options)
        /\ options.hc_manage_key = None /\ options.metadata # {} => "no_key" \in warned
        /\ options.hc_config_failure # "warn" => warned \subseteq {"no_key"}

(* What has been sent was accepted, or a warning tells of it; the check is *)
(* identified, unless its creation failed.                                 *)
SentInv ==
    stage \in Configuring \cup Attempt =>
        /\ check # None => check.uuid = options.hc_uuid \/ check.uuid = "created"
        /\ MetadataDone /\ SendsMetadata =>
            /\ ConfiguredMetadata(options) \subseteq applied \/ "metadata" \in warned
            /\ options.hc_uuid = None => check.uuid = "created" \/ creation_failed
        /\ RoutingDone /\ SendsRouting => "routing" \in applied \cup warned
        /\ "routing" \in applied => options.routing /\ ~creation_failed /\ RoutingDone
        /\ applied \subseteq {"routing"} \/ SendsMetadata

CheckOK == check \in {None} \cup [uuid : {None, "", "uuid", "created"}]

StartupInv == StageOK /\ ValidInv /\ SentInv /\ CheckOK

(* The pings of an attempt, without and with its outcome.                  *)
StartTold == IF check = None THEN {} ELSE {"start"}
AllTold == IF check = None THEN {} ELSE {"start"} \cup ({Promised} \ {"neutral"})

(* What is raised is raised by the job.                                    *)
ResultIsReal ==
    /\ result = Raised("Exception") <=> RaisesFor(command, ending)
    /\ Leaves(result) <=> Leaves(ending)

(* How far the attempt is told: what hc_func is about to return or raise   *)
(* stands for the promised outcome, until a ping that raises replaces it.  *)
TellInv ==
    /\ stage \notin Attempt \ {"loop"} => told = {} /\ ~unanswered
    /\ stage = "job" => told = StartTold /\ ~unanswered
    /\ stage = "report" =>
        /\ told = StartTold /\ ~unanswered
        /\ result.how = "returned" /\ AssessReturnValue(result.value) = Promised
        /\ ResultIsReal
    /\ stage = "exit" =>
        /\ result.how = "raised"
        /\ IF unanswered THEN result = Raised("Exception")
           ELSE told = StartTold /\ Promised = "failure" /\ ResultIsReal
    /\ stage \in {"record", "boundary", "attempted", "ended"} =>
        IF unanswered THEN result = Raised("Exception")
        ELSE told = AllTold /\ AssessResult(result) = Promised /\ ResultIsReal
    /\ stage \in {"boundary", "attempted", "ended"} => recorded = AssessResult(result)
    /\ stage \in {"attempted", "ended"} =>
        /\ posted <=> result = Raised("Exception")
        /\ stage = "ended" <=> Leaves(result)

-------------------------------------------------------------------------------
(* The startup.                                                            *)

\* Where the steps of the startup begin and end.
LEMMA StartupStages ==
    ASSUME StartupNext
    PROVE  /\ stage \in Before \cup Configuring
           /\ stage' \in Before \cup Configuring \cup {"loop", "refused", "raised"}
BY DEF StartupNext, CallSchedule, ParseCommand, RefuseCommand, OnResult, Refuse,
       Prepare, SkipStep, CreateCheck, UpdateMetadata, UpdateRouting, SurviveFailure, RaiseFailure, Sends,
       LogWarning, StartupRaises, OpenHistory, GoTo, Before, Configuring

LEMMA ChecksAreChecks ==
    ASSUME NEW u \in {None, "", "uuid", "created"}
    PROVE  /\ [uuid |-> u] \in [uuid : {None, "", "uuid", "created"}]
           /\ [uuid |-> u] # None
<1>1. [uuid |-> u] \in [uuid : {None, "", "uuid", "created"}]
  OBVIOUS
<1> QED
  BY <1>1, NoneIsNoCheck

\* Before there is anything to send, the steps only look at the options.
LEMMA BeforeStep ==
    ASSUME StartupInv, CallSchedule \/ ParseCommand \/ RefuseCommand \/ OnResult \/ Refuse
    PROVE  StartupInv'
<1>1. /\ stage \in Before /\ stage' \in Before \cup {"refused"}
      /\ options' = options /\ check' = check /\ applied' = applied
      /\ warned' = warned /\ creation_failed' = creation_failed
  BY DEF CallSchedule, ParseCommand, RefuseCommand, OnResult, Refuse, GoTo, Before,
         Configuration
<1> QED
  BY <1>1 DEF StartupInv, StageOK, ValidInv, SentInv, CheckOK, Before, Configuring, Attempt

\* The parts of the configuration that are sent as metadata.
LEMMA NamesAreParts ==
    ASSUME options \in Options
    PROVE  ConfiguredMetadata(options) \subseteq {"name", "value"}
BY DEF ConfiguredMetadata, Options

LEMMA PrepareStep ==
    ASSUME StartupInv, Prepare
    PROVE  StartupInv'
<1>1. /\ stage' = "metadata" /\ options \in Options
      /\ applied = {} /\ ~creation_failed
      /\ UNCHANGED <<options, command, creation_failed, applied>>
  BY DEF StartupInv, StageOK, ValidInv, Prepare, GoTo, Before
<1>2. CheckOK' /\ (check' = None <=> ~Pingable(options))
  <2>1. options.hc_uuid \in {None, "", "uuid"}
    BY <1>1 DEF Options
  <2> QED
    BY <2>1, ChecksAreChecks DEF Prepare, CheckOK
<1>3. StageOK'
  BY <1>1 DEF StageOK, Configuring
<1>4. ValidInv'
  BY <1>1, <1>2 DEF Prepare, ValidInv, InvalidPolicy, MissingPrerequisite, Pingable,
                    Truthy, Before
<1>5. SentInv'
  BY <1>1 DEF Prepare, SentInv, MetadataDone, RoutingDone, Attempt
<1> QED
  BY <1>2, <1>3, <1>4, <1>5 DEF StartupInv

LEMMA SkipStepKeeps ==
    ASSUME StartupInv, SkipStep
    PROVE  StartupInv'
<1>1. CASE GoTo("metadata", "routing") /\ ~SendsMetadata
  BY <1>1 DEF StartupInv, StageOK, ValidInv, SentInv, CheckOK, SkipStep, GoTo, Before,
              Configuring, Attempt, Configuration, MetadataDone, RoutingDone,
              SendsMetadata, SendsRouting, InvalidPolicy, MissingPrerequisite
<1>2. CASE GoTo("routing", "history") /\ ~SendsRouting
  BY <1>2 DEF StartupInv, StageOK, ValidInv, SentInv, CheckOK, SkipStep, GoTo, Before,
              Configuring, Attempt, Configuration, MetadataDone, RoutingDone,
              SendsMetadata, SendsRouting, InvalidPolicy, MissingPrerequisite
<1> QED
  BY <1>1, <1>2 DEF SkipStep

LEMMA CreateCheckStep ==
    ASSUME StartupInv, CreateCheck
    PROVE  StartupInv'
<1>1. /\ stage = "metadata" /\ stage' = "routing" /\ check # None /\ check' # None
      /\ check'.uuid = "created" /\ applied' = ConfiguredMetadata(options)
      /\ UNCHANGED <<options, command, creation_failed, warned>>
  BY ChecksAreChecks DEF CreateCheck, GoTo, SendsMetadata
<1>2. StageOK' /\ CheckOK'
  BY <1>1 DEF CreateCheck, StartupInv, StageOK, CheckOK, Configuring
<1>3. ValidInv'
  BY <1>1 DEF StartupInv, ValidInv, InvalidPolicy, MissingPrerequisite, Before,
              Configuring
<1>4. SentInv'
  <2>1. SendsMetadata'
    BY <1>1 DEF CreateCheck, SendsMetadata
  <2>2. "routing" \notin applied'
    BY <1>1, NamesAreParts DEF StartupInv, StageOK
  <2> QED
    BY <1>1, <2>1, <2>2 DEF SentInv, MetadataDone, RoutingDone, Attempt, Configuring
<1> QED
  BY <1>2, <1>3, <1>4 DEF StartupInv

LEMMA UpdateMetadataStep ==
    ASSUME StartupInv, UpdateMetadata
    PROVE  StartupInv'
<1>1. /\ stage = "metadata" /\ stage' = "routing" /\ SendsMetadata /\ options.hc_uuid # None
      /\ applied' = ConfiguredMetadata(options)
      /\ UNCHANGED <<options, command, check, creation_failed, warned>>
  BY DEF UpdateMetadata, GoTo
<1>2. StageOK' /\ CheckOK'
  BY <1>1 DEF StartupInv, StageOK, CheckOK, Configuring
<1>3. ValidInv'
  BY <1>1 DEF StartupInv, ValidInv, InvalidPolicy, MissingPrerequisite, Before,
              Configuring
<1>4. SentInv'
  <2>1. SendsMetadata'
    BY <1>1 DEF SendsMetadata
  <2>2. "routing" \notin applied'
    BY <1>1, NamesAreParts DEF StartupInv, StageOK
  <2> QED
    BY <1>1, <2>1, <2>2
    DEF StartupInv, SentInv, MetadataDone, RoutingDone, Attempt, Configuring
<1> QED
  BY <1>2, <1>3, <1>4 DEF StartupInv

LEMMA UpdateRoutingStep ==
    ASSUME StartupInv, UpdateRouting
    PROVE  StartupInv'
<1>1. /\ stage = "routing" /\ stage' = "history" /\ SendsRouting
      /\ applied' = applied \cup {"routing"}
      /\ UNCHANGED <<options, command, check, creation_failed, warned>>
  BY DEF UpdateRouting, GoTo
<1>2. StageOK' /\ CheckOK'
  BY <1>1 DEF StartupInv, StageOK, CheckOK, Configuring
<1>3. ValidInv'
  BY <1>1 DEF StartupInv, ValidInv, InvalidPolicy, MissingPrerequisite, Before,
              Configuring
<1>4. SentInv'
  <2>1. (SendsMetadata' = SendsMetadata) /\ (SendsRouting' = SendsRouting)
    BY <1>1 DEF SendsMetadata, SendsRouting
  <2> QED
    BY <1>1, <2>1 DEF StartupInv, SentInv, MetadataDone, RoutingDone, SendsRouting,
                      Attempt, Configuring
<1> QED
  BY <1>2, <1>3, <1>4 DEF StartupInv

LEMMA SurviveStep ==
    ASSUME StartupInv, SurviveFailure
    PROVE  StartupInv'
<1>1. /\ stage' = "warning" /\ options.hc_config_failure = "warn"
      /\ UNCHANGED <<options, command, check, applied>>
      /\ warned' = warned \cup {stage} /\ stage \in {"metadata", "routing"}
  BY DEF SurviveFailure, Sends
<1>2. StageOK' /\ CheckOK'
  BY <1>1 DEF SurviveFailure, StartupInv, StageOK, CheckOK, Configuring
<1>3. ValidInv'
  BY <1>1 DEF StartupInv, ValidInv, InvalidPolicy, MissingPrerequisite, Before,
              Configuring
<1>4. CASE stage = "metadata"
  <2>1. "routing" \notin applied
    BY <1>4 DEF StartupInv, SentInv, RoutingDone, Configuring, Attempt
  <2>2. SentInv'
    BY <1>1, <1>4, <2>1 DEF SurviveFailure, StartupInv, SentInv, MetadataDone,
         RoutingDone, SendsMetadata, SendsRouting, Attempt, Configuring
  <2> QED
    BY <1>2, <1>3, <2>2 DEF StartupInv
<1>5. CASE stage = "routing"
  <2>1. ~creation_failed /\ ~creation_failed'
    BY <1>5 DEF SurviveFailure, Sends, SendsRouting
  <2>2. SentInv'
    BY <1>1, <1>5, <2>1 DEF StartupInv, SentInv, MetadataDone,
         RoutingDone, SendsMetadata, SendsRouting, Attempt, Configuring
  <2> QED
    BY <1>2, <1>3, <2>2 DEF StartupInv
<1> QED
  BY <1>1, <1>4, <1>5

LEMMA LogStep ==
    ASSUME StartupInv, LogWarning
    PROVE  StartupInv'
<1>1. /\ stage = "warning"
      /\ IF "routing" \in warned THEN stage' = "history" ELSE stage' = "routing"
      /\ UNCHANGED <<options, check, creation_failed, applied, warned>>
  BY DEF LogWarning, GoTo, Configuration
<1>2. StageOK' /\ CheckOK' /\ ValidInv'
  BY <1>1 DEF StartupInv, StageOK, CheckOK, ValidInv, Before, Configuring, Attempt,
              InvalidPolicy, MissingPrerequisite
<1>3. "routing" \in applied => "routing" \in warned
  BY <1>1 DEF StartupInv, SentInv, Configuring, RoutingDone, Attempt
<1>4. SentInv'
  <2>1. MetadataDone /\ (RoutingDone' => "routing" \in warned)
    BY <1>1 DEF MetadataDone, RoutingDone, Configuring, Attempt
  <2>2. SendsMetadata' = SendsMetadata
    BY <1>1 DEF SendsMetadata
  <2>3. stage \in Configuring /\ stage' \in Configuring /\ MetadataDone'
    BY <1>1 DEF MetadataDone, Configuring
  <2>4. "routing" \in applied => RoutingDone'
    BY <1>1, <1>3 DEF RoutingDone
  <2> QED
    BY <1>1, <2>1, <2>2, <2>3, <2>4 DEF StartupInv, SentInv
<1> QED
  BY <1>2, <1>4 DEF StartupInv

\* The startup ends in the loop, or with an exception.
LEMMA EndOfStartupStep ==
    ASSUME StartupInv, RaiseFailure \/ StartupRaises \/ OpenHistory
    PROVE  StartupInv'
<1>1. /\ stage' = "raised" \/ (stage = "history" /\ stage' = "loop")
      /\ UNCHANGED <<options, check, creation_failed, applied, warned>>
  BY DEF RaiseFailure, StartupRaises, OpenHistory, GoTo, Configuration
<1>2. StageOK' /\ CheckOK' /\ ValidInv'
  BY <1>1 DEF StartupInv, StageOK, CheckOK, ValidInv, Before, Configuring, Attempt,
              InvalidPolicy, MissingPrerequisite
<1>3. SentInv'
  BY <1>1 DEF StartupInv, SentInv, Configuring, Attempt, MetadataDone,
              RoutingDone, SendsMetadata, SendsRouting
<1> QED
  BY <1>2, <1>3 DEF StartupInv

AttemptNext ==
    /\ Enter \/ RunJob \/ Report \/ Exit \/ Record \/ LeaveBoundary
    /\ UNCHANGED <<options, command, Configuration>>

\* An attempt changes nothing of the configuration.
LEMMA AttemptKeepsStartup ==
    ASSUME StartupInv,
           stage' = stage \/ (stage \in Attempt /\ stage' \in Attempt),
           UNCHANGED <<options, Configuration>>
    PROVE  StartupInv'
<1>1. /\ options' = options /\ check' = check /\ applied' = applied
      /\ warned' = warned /\ creation_failed' = creation_failed
  BY DEF Configuration
<1>2. StageOK' /\ CheckOK' /\ ValidInv'
  BY <1>1 DEF StartupInv, StageOK, CheckOK, ValidInv, Before, Configuring, Attempt,
              InvalidPolicy, MissingPrerequisite
<1>3. SentInv'
  <2>1. SendsMetadata' = SendsMetadata /\ (SendsRouting' = SendsRouting)
    BY <1>1 DEF SendsMetadata, SendsRouting
  <2>2. stage' \in Configuring \cup Attempt => stage \in Configuring \cup Attempt
    OBVIOUS
  <2>3. MetadataDone' = MetadataDone /\ RoutingDone' = RoutingDone
    BY <1>1 DEF MetadataDone, RoutingDone, Configuring, Attempt
  <2> QED
    BY <1>1, <2>1, <2>2, <2>3 DEF StartupInv, SentInv
<1> QED
  BY <1>2, <1>3 DEF StartupInv

LEMMA AttemptStages ==
    ASSUME AttemptNext
    PROVE  stage \in Attempt /\ stage' \in Attempt
BY DEF AttemptNext, Enter, RunJob, Report, Exit, Record, LeaveBoundary, GoTo, Attempt

LEMMA StartupInvariance == Spec => []StartupInv
<1>1. Init => StartupInv
  BY DEF Init, StartupInit, StartupInv, StageOK, ValidInv, SentInv, CheckOK, Before,
         Configuring, Attempt
<1>2. StartupInv /\ [Next]_<<startupVars, attemptVars>> => StartupInv'
  <2> SUFFICES ASSUME StartupInv, [Next]_<<startupVars, attemptVars>>
               PROVE  StartupInv'
    OBVIOUS
  <2>1. CASE StartupNext
    BY <2>1, BeforeStep, PrepareStep, SkipStepKeeps, CreateCheckStep, UpdateMetadataStep,
       UpdateRoutingStep, SurviveStep, LogStep, EndOfStartupStep DEF StartupNext
  <2>2. CASE AttemptNext
    BY <2>2, AttemptStages, AttemptKeepsStartup DEF AttemptNext
  <2>3. CASE UNCHANGED <<startupVars, attemptVars>>
    BY <2>3, AttemptKeepsStartup DEF startupVars, Configuration
  <2> QED
    BY <2>1, <2>2, <2>3 DEF Next, AttemptNext
<1> QED
  BY <1>1, <1>2, PTL DEF Spec

(* When scheduled work starts, every part of the configuration that was    *)
(* asked for has been accepted by Healthchecks, or a warning tells of it   *)
(* and the options allow to go on without, or it is among the metadata     *)
(* that is dropped silently and has not been sent.                         *)
THEOREM StartIsConfigured == Spec => []WorkStartsConfigured
<1>1. StartupInv => WorkStartsConfigured
  <2> SUFFICES ASSUME StartupInv, Started
               PROVE  WorkStartsConfigured
    BY DEF WorkStartsConfigured
  <2>1. /\ stage \in Attempt /\ MetadataDone /\ RoutingDone
        /\ options \in Options /\ options.hc_config_failure # "invalid"
    BY DEF Started, StartupInv, StageOK, ValidInv, Before, Configuring, Attempt,
           MetadataDone, RoutingDone, InvalidPolicy
  <2>2. options.routing => Truthy(options.hc_manage_key) /\ Pingable(options)
    BY <2>1 DEF StartupInv, ValidInv, MissingPrerequisite
  <2>3. options.routing => "routing" \in applied \cup warned \/ creation_failed
    BY <2>1 DEF StartupInv, SentInv, SendsRouting
  <2>a. check = None <=> ~Pingable(options)
    BY <2>1 DEF StartupInv, ValidInv
  <2>4. \/ options.metadata \ DroppedSilently(options) \subseteq applied
        \/ "metadata" \in warned
        \/ "no_key" \in warned /\ options.hc_manage_key = None
    <3>1. CASE options.hc_manage_key = None
      BY <2>1, <3>1 DEF StartupInv, ValidInv
    <3>2. CASE options.hc_manage_key # None /\ ~(Truthy(options.hc_manage_key) /\ check # None)
      BY <2>a, <3>2 DEF DroppedSilently, Truthy
    <3>3. CASE Truthy(options.hc_manage_key) /\ check # None
      <4>1. options.metadata \ DroppedSilently(options) \subseteq ConfiguredMetadata(options)
        BY <2>1, <2>a, <3>3 DEF DroppedSilently, ConfiguredMetadata, Truthy
      <4>2. ConfiguredMetadata(options) # {} =>
                ConfiguredMetadata(options) \subseteq applied \/ "metadata" \in warned
        BY <2>1, <3>3 DEF StartupInv, SentInv, SendsMetadata
      <4> QED
        BY <4>1, <4>2
    <3> QED
      BY <3>1, <3>2, <3>3
  <2>b. DroppedSilently(options) \cap applied = {}
    <3>1. DroppedSilently(options) \subseteq {"value", "zero_duration"}
      BY <2>1 DEF DroppedSilently, Options
    <3>2. CASE SendsMetadata
      <4>1. DroppedSilently(options) \subseteq {"zero_duration"}
        BY <2>a, <3>2 DEF SendsMetadata, DroppedSilently, Truthy
      <4>2. "zero_duration" \notin applied
        BY <2>1, NamesAreParts DEF StartupInv, StageOK
      <4> QED
        BY <4>1, <4>2
    <3>3. CASE applied \subseteq {"routing"}
      BY <3>1, <3>3
    <3> QED
      BY <2>1, <3>2, <3>3 DEF StartupInv, SentInv
  <2>5. warned \subseteq {"no_key"} \/ options.hc_config_failure = "warn"
    BY <2>1 DEF StartupInv, ValidInv
  <2>6. ASSUME "routing" \in applied
        PROVE  Truthy(check.uuid) \/ options.hc_uuid = ""
    <3>1. options.routing /\ ~creation_failed /\ check # None
      BY <2>1, <2>2, <2>6 DEF StartupInv, ValidInv, SentInv
    <3>2. Truthy("created") /\ Truthy("uuid")
      BY NoneIsNoCheck DEF Truthy
    <3>3. CASE options.hc_uuid = None
      <4>1. Truthy(options.hc_manage_key) /\ Truthy(options.name)
        BY <2>2, <3>1, <3>3 DEF Pingable, Truthy
      <4>2. SendsMetadata
        BY <3>1, <4>1 DEF SendsMetadata, ConfiguredMetadata, Truthy
      <4> QED
        BY <2>1, <3>1, <3>2, <3>3, <4>2 DEF StartupInv, SentInv
    <3>4. CASE options.hc_uuid = "uuid"
      BY <2>1, <3>1, <3>2, <3>4 DEF StartupInv, SentInv
    <3>5. options.hc_uuid \in {None, "", "uuid"}
      BY <2>1 DEF Options
    <3> QED
      BY <3>3, <3>4, <3>5
  <2> QED
    BY <2>2, <2>3, <2>4, <2>b, <2>5, <2>6 DEF WorkStartsConfigured
<1> QED
  BY <1>1, StartupInvariance, PTL

-------------------------------------------------------------------------------
(* The outcome.                                                            *)

Codes == ExitCodes \cup {None, Text}

\* An ending is one of the exits for a set of codes if its code is in it, and
\* no code counts as 0.
LEMMA ExitsAreMapped ==
    ASSUME NEW codes \in SUBSET ExitCodes, NEW code \in Codes
    PROVE  Exited(code) \in Exits(codes) <=>
               IF code = None THEN 0 \in codes ELSE code \in codes
<1>1. \A c, d : Exited(c) = Exited(d) <=> c = d
  BY DEF Exited
<1>2. None \notin codes
  BY ExitCodesAssumption
<1> QED
  BY <1>1, <1>2 DEF Exits

\* What ends without exiting is no exit.
LEMMA OthersAreNoExits ==
    ASSUME NEW codes, NEW end, end.how # "exited"
    PROVE  end \notin Exits(codes)
BY DEF Exits, Exited

\* map_exit_code gives an exit its promised outcome.
LEMMA MappedAsPromised ==
    ASSUME NEW job, Accepted(job), NEW code \in Codes
    PROVE  LET outcome == MapExitCode(code, job.success, job.neutral)
           IN  /\ outcome = PromisedFor(job, Exited(code))
               /\ AssessReturnValue(outcome) = outcome
<1>1. /\ Exited(code) \in Exits(job.success) <=>
             IF code = None THEN 0 \in job.success ELSE code \in job.success
      /\ Exited(code) \in Exits(job.neutral) <=>
             IF code = None THEN 0 \in job.neutral ELSE code \in job.neutral
  BY ExitsAreMapped DEF Accepted
<1>2. \A v : Exited(code) # Returned(v)
  BY DEF Exited, Returned
<1>3. Text \notin job.success \cup job.neutral /\ Text # None /\ Text # 0
  BY ExitCodesAssumption DEF Accepted
<1>4. job.success \cap job.neutral = {}
  BY DEF Accepted
<1>5. MapExitCode(code, job.success, job.neutral) = PromisedFor(job, Exited(code))
  BY <1>1, <1>2, <1>3, <1>4 DEF MapExitCode, PromisedFor
<1>6. MapExitCode(code, job.success, job.neutral) \in {"failure", "neutral", "success"}
  BY DEF MapExitCode
<1> QED
  BY <1>5, <1>6, ExitCodesAssumption DEF AssessReturnValue

\* What the callable of a command returns stands for the promised outcome, and
\* it only raises where that is a failure.
LEMMA FuncKeepsPromise ==
    ASSUME NEW job, Accepted(job), NEW e \in Endings(job.kind)
    PROVE  LET r == Func(job, e)
           IN  /\ r.how \in {"returned", "raised"}
               /\ r.how = "returned" => AssessReturnValue(r.value) = PromisedFor(job, e)
               /\ r.how = "raised" => PromisedFor(job, e) = "failure"
               /\ r = Raised("Exception") <=> RaisesFor(job, e)
               /\ Leaves(r) <=> Leaves(e)
<1> USE DEF RaisesFor, Leaves
<1> DEFINE r == Func(job, e)
<1>1. CASE e.how = "raised"
  <2>1. r = e
    BY <1>1 DEF Func
  <2>2. e \notin Exits(job.success) \cup Exits(job.neutral)
    BY <1>1, OthersAreNoExits
  <2> QED
    BY <1>1, <2>1, <2>2 DEF PromisedFor, Returned
<1>2. CASE job.kind = "function" /\ e.how # "raised"
  <2>1. PICK v \in {None, "success", "neutral", "failure", "other"} : e = Returned(v)
    BY <1>2 DEF Endings, Raised
  <2>2. e.how = "returned" /\ e.value = v /\ r = e
    BY <1>2, <2>1 DEF Returned, Func
  <2>3. e \notin Exits(job.success) \cup Exits(job.neutral)
    BY <2>2, OthersAreNoExits
  <2>4. \A w : e = Returned(w) <=> v = w
    BY <2>1 DEF Returned
  <2> QED
    BY <2>2, <2>3, <2>4, ExitCodesAssumption DEF PromisedFor, AssessReturnValue
<1>3. CASE job.kind \in {"py_exec", "click_invoke"} /\ e.how = "returned"
  <2>1. e = Returned(None)
    BY <1>3 DEF Endings, Raised, Exited, ClickExited
  <2>2. r = Returned("success")
    BY <1>3 DEF Func, PyExec, ClickInvoke
  <2>3. e \notin Exits(job.neutral) /\ e # Returned("neutral")
    BY <1>3, <2>1, OthersAreNoExits, ExitCodesAssumption DEF Returned
  <2> QED
    BY <1>3, <2>1, <2>2, <2>3 DEF PromisedFor, AssessReturnValue, Returned, Raised, Accepted
<1>4. CASE job.kind \in {"py_exec", "click_invoke"} /\ e.how = "exited"
  <2>1. PICK c \in Codes : e = Exited(c)
    BY <1>4 DEF Endings, Raised, Returned, Exited, ClickExited, Codes
  <2>2. r = Returned(MapExitCode(c, job.success, job.neutral))
    BY <1>4, <2>1 DEF Func, PyExec, ClickInvoke, Exited
  <2> QED
    BY <1>4, <2>1, <2>2, MappedAsPromised DEF Returned, Raised, Exited, Accepted
<1>5. CASE job.kind = "click_invoke" /\ e.how = "click_exited"
  <2>1. r = Raised("Exception")
    BY <1>5 DEF Func, ClickInvoke
  <2>2. e \notin Exits(job.success) \cup Exits(job.neutral)
    BY <1>5, OthersAreNoExits
  <2> QED
    BY <1>5, <2>1, <2>2 DEF PromisedFor, Raised, Returned
<1>6. CASE job.kind = "subprocess" /\ e.how # "raised"
  <2>1. PICK c \in ExitCodes : e = Exited(c)
    BY <1>6 DEF Endings, Raised
  <2>2. e.how = "exited" /\ e.value = c /\ c \in Codes
    BY <2>1 DEF Exited, Codes
  <2>3. CASE job.check /\ c # 0
    <3>1. r = Raised("Exception")
      BY <1>6, <2>2, <2>3 DEF Func, Subprocess
    <3>2. MapExitCode(c, job.success, job.neutral) = "failure"
      <4>1. c # None /\ c # Text /\ job.success = {0} /\ job.neutral = {}
        BY <2>3, ExitCodesAssumption DEF Accepted
      <4> QED
        BY <2>3, <4>1 DEF MapExitCode
    <3> QED
      BY <2>1, <2>2, <2>3, <3>1, <3>2, MappedAsPromised DEF Raised
  <2>4. CASE ~(job.check /\ c # 0)
    <3>1. r = Returned(MapExitCode(c, job.success, job.neutral))
      BY <1>6, <2>2, <2>4 DEF Func, Subprocess
    <3> QED
      BY <2>1, <2>2, <2>4, <3>1, MappedAsPromised DEF Returned, Raised
  <2> QED
    BY <2>3, <2>4
<1>7. e.how \in {"raised", "returned", "exited"}
        \/ (job.kind = "click_invoke" /\ e.how = "click_exited")
  BY DEF Endings, Raised, Returned, Exited, ClickExited
<1>8. job.kind \in {"function", "py_exec", "click_invoke", "subprocess"}
  BY DEF Accepted, Commands
<1> QED
  BY <1>1, <1>2, <1>3, <1>4, <1>5, <1>6, <1>7, <1>8

LEMMA CommandInvariance == Spec => []CommandOK
<1>1. Init => CommandOK
  BY ExitCodesAssumption DEF Init, StartupInit, NoCommand, CommandOK, Accepted
<1>2. CommandOK /\ [Next]_<<startupVars, attemptVars>> => CommandOK'
  <2> SUFFICES ASSUME CommandOK, [Next]_<<startupVars, attemptVars>>
               PROVE  CommandOK'
    OBVIOUS
  <2>1. CASE ParseCommand
    <3>1. PICK kind \in Commands, given \in BOOLEAN \cup {None} :
              \E success, neutral \in ParsedLists :
                /\ ValidSets(kind, given, success, neutral)
                /\ command' = [kind |-> kind, success |-> success, neutral |-> neutral,
                       check |-> kind = "subprocess" /\ Check(given, success, neutral)]
      BY <2>1 DEF ParseCommand
    <3>2. PICK success \in ParsedLists, neutral \in ParsedLists :
                /\ ValidSets(kind, given, success, neutral)
                /\ command' = [kind |-> kind, success |-> success, neutral |-> neutral,
                       check |-> kind = "subprocess" /\ Check(given, success, neutral)]
      BY <3>1
    <3>3. \A list \in ParsedLists : list \subseteq ExitCodes
      BY DEF ParsedLists
    <3> QED
      BY <3>2, <3>3 DEF CommandOK, Accepted, ValidSets
  <2>2. CASE UNCHANGED command
    BY <2>2 DEF CommandOK
  <2>3. ParseCommand \/ UNCHANGED command
    BY DEF Next, StartupNext, CallSchedule, RefuseCommand, OnResult, Refuse, Prepare,
           SkipStep, CreateCheck, UpdateMetadata, UpdateRouting, SurviveFailure, RaiseFailure, LogWarning,
           StartupRaises, OpenHistory, startupVars
  <2> QED
    BY <2>1, <2>2, <2>3
<1> QED
  BY <1>1, <1>2, PTL DEF Spec

\* Before the attempt, nothing is told of it.
LEMMA StartupTellsNothing ==
    ASSUME TellInv, StartupNext, UNCHANGED attemptVars
    PROVE  TellInv'
<1>1. /\ stage \in Before \cup Configuring
      /\ stage' \in Before \cup Configuring \cup {"loop", "refused", "raised"}
  BY StartupStages
<1>2. told' = told /\ unanswered' = unanswered
  BY DEF attemptVars
<1> QED
  BY <1>1, <1>2 DEF TellInv, Before, Configuring, Attempt

LEMMA EnterTells ==
    ASSUME TellInv, Enter, UNCHANGED <<command, check>>
    PROVE  TellInv'
<1>1. told = {} /\ ~unanswered /\ stage = "loop"
  BY DEF TellInv, Enter, GoTo
<1>2. CASE stage' = "job"
  BY <1>1, <1>2 DEF Enter, GoTo, PingReturns, NoPing, TellInv, StartTold, Attempt
<1>3. CASE stage' = "record"
  BY <1>1, <1>3 DEF Enter, GoTo, PingRaises, TellInv, Attempt
<1> QED
  BY <1>2, <1>3 DEF Enter, GoTo

LEMMA RunJobTells ==
    ASSUME TellInv, CommandOK, RunJob, UNCHANGED <<command, check>>
    PROVE  TellInv'
<1>1. PICK e \in Endings(command.kind) : ending' = e /\ result' = Func(command, e)
  BY DEF RunJob
<1>2. told = StartTold /\ ~unanswered /\ UNCHANGED <<told, unanswered>>
  BY DEF TellInv, RunJob, GoTo
<1>3. StartTold' = StartTold /\ Promised' = PromisedFor(command, e)
  BY <1>1 DEF StartTold, Promised
<1>4. /\ result'.how \in {"returned", "raised"}
      /\ result'.how = "returned" => AssessReturnValue(result'.value) = Promised'
      /\ result'.how = "raised" => Promised' = "failure"
      /\ ResultIsReal'
  BY <1>1, <1>3, FuncKeepsPromise DEF CommandOK, ResultIsReal
<1>5. stage' = IF result'.how = "returned" THEN "report" ELSE "exit"
  BY DEF RunJob, GoTo
<1>6. CASE stage' = "report"
  BY <1>2, <1>3, <1>4, <1>5, <1>6 DEF TellInv, Attempt
<1>7. CASE stage' = "exit"
  BY <1>2, <1>3, <1>4, <1>5, <1>7 DEF TellInv, Attempt
<1> QED
  BY <1>5, <1>6, <1>7

LEMMA ReportTells ==
    ASSUME TellInv, Report, UNCHANGED <<command, check>>
    PROVE  TellInv'
<1>1. /\ told = StartTold /\ ~unanswered /\ stage = "report"
      /\ result.how = "returned" /\ AssessReturnValue(result.value) = Promised
      /\ ending' = ending /\ ResultIsReal
  BY DEF TellInv, Report, GoTo
<1>2. Promised' = Promised
  BY <1>1 DEF Promised
<1>3. CASE stage' = "record"
  <2>1. /\ UNCHANGED <<result, unanswered>>
        /\ told' = IF check = None \/ Promised = "neutral" THEN told
                   ELSE told \cup {Promised}
    BY <1>1, <1>3 DEF Report, GoTo, PingReturns, NoPing
  <2>2. told' = AllTold'
    BY <1>1, <1>2, <2>1 DEF StartTold, AllTold
  <2>3. AssessResult(result)' = Promised'
    BY <1>1, <1>2, <2>1 DEF AssessResult
  <2>4. ResultIsReal'
    BY <1>1, <2>1 DEF ResultIsReal, RaisesFor, Leaves
  <2> QED
    BY <1>1, <1>3, <2>1, <2>2, <2>3, <2>4 DEF TellInv, Attempt
<1>4. CASE stage' = "exit"
  <2>1. unanswered' = TRUE /\ result' = Raised("Exception")
    BY <1>4 DEF Report, GoTo, PingRaises
  <2> QED
    BY <1>4, <2>1 DEF TellInv, Attempt, Raised
<1> QED
  BY <1>3, <1>4 DEF Report, GoTo

LEMMA ExitTells ==
    ASSUME TellInv, Exit, UNCHANGED <<command, check>>
    PROVE  TellInv'
<1>1. /\ stage = "exit" /\ stage' = "record" /\ ending' = ending
      /\ result.how = "raised"
      /\ IF unanswered THEN result = Raised("Exception")
         ELSE told = StartTold /\ Promised = "failure" /\ ResultIsReal
  BY DEF TellInv, Exit, GoTo
<1>2. Promised' = Promised
  BY <1>1 DEF Promised
<1>3. CASE unanswered' /\ result' = Raised("Exception")
  BY <1>1, <1>3 DEF TellInv, Attempt
<1>4. CASE /\ UNCHANGED <<result, unanswered>> /\ ~unanswered
           /\ told' = IF check = None THEN told ELSE told \cup {"failure"}
  <2>1. told' = AllTold'
    BY <1>1, <1>2, <1>4 DEF StartTold, AllTold
  <2>2. AssessResult(result)' = Promised'
    BY <1>1, <1>2, <1>4 DEF AssessResult
  <2>3. ResultIsReal'
    BY <1>1, <1>4 DEF ResultIsReal, RaisesFor, Leaves
  <2> QED
    BY <1>1, <1>4, <2>1, <2>2, <2>3 DEF TellInv, Attempt
<1>5. \/ unanswered' /\ result' = Raised("Exception")
      \/ /\ UNCHANGED <<result, unanswered>> /\ ~unanswered
         /\ told' = IF check = None THEN told ELSE told \cup {"failure"}
  BY <1>1 DEF Exit, PingReturns, PingRaises, NoPing
<1> QED
  BY <1>3, <1>4, <1>5

LEMMA RecordTells ==
    ASSUME TellInv, Record \/ LeaveBoundary, UNCHANGED <<command, check>>
    PROVE  TellInv'
<1>1. /\ stage \in {"record", "boundary"}
      /\ stage' \in {"boundary", "attempted", "ended"}
      /\ UNCHANGED <<ending, result, told, unanswered>>
      /\ recorded' = AssessResult(result)
      /\ stage' # "boundary" =>
            /\ posted' <=> result = Raised("Exception")
            /\ stage' = "ended" <=> Leaves(result)
  BY DEF TellInv, Record, LeaveBoundary, GoTo, Leaves
<1>2. /\ AllTold' = AllTold /\ Promised' = Promised
      /\ ResultIsReal' <=> ResultIsReal
      /\ Leaves(result)' <=> Leaves(result)
  BY <1>1 DEF AllTold, Promised, ResultIsReal, RaisesFor, Leaves
<1>3. AssessResult(result)' = AssessResult(result)
  BY <1>1
<1>4. CASE stage' = "boundary"
  BY <1>1, <1>2, <1>3, <1>4 DEF TellInv, Attempt
<1>5. CASE stage' \in {"attempted", "ended"}
  BY <1>1, <1>2, <1>3, <1>5 DEF TellInv, Attempt
<1> QED
  BY <1>1, <1>4, <1>5

(* Every attempt is reported as the table of outcomes says, on every       *)
(* channel: Slack hears of an attempt if and only if it raised an          *)
(* Exception, and a ping that raises makes it a failure of that kind.      *)
THEOREM AttemptIsTold == Spec => []OutcomesAreTold
<1>1. Init => TellInv
  BY DEF Init, StartupInit, TellInv, Attempt
<1>2. TellInv /\ CommandOK /\ [Next]_<<startupVars, attemptVars>> => TellInv'
  <2> SUFFICES ASSUME TellInv, CommandOK, [Next]_<<startupVars, attemptVars>>
               PROVE  TellInv'
    OBVIOUS
  <2>1. CASE StartupNext /\ UNCHANGED attemptVars
    BY <2>1, StartupTellsNothing
  <2>2. CASE AttemptNext
    <3>1. UNCHANGED <<command, check>>
      BY <2>2 DEF AttemptNext, Configuration
    <3> QED
      BY <2>2, <3>1, EnterTells, RunJobTells, ReportTells, ExitTells, RecordTells
      DEF AttemptNext
  <2>3. CASE UNCHANGED <<startupVars, attemptVars>>
    BY <2>3 DEF startupVars, attemptVars, TellInv, StartTold, AllTold, Promised,
                AssessResult, ResultIsReal, RaisesFor, Leaves
  <2> QED
    BY <2>1, <2>2, <2>3 DEF Next, AttemptNext
<1>3. TellInv => OutcomesAreTold
  <2> SUFFICES ASSUME TellInv, stage \in {"attempted", "ended"}
               PROVE  OutcomesAreTold
    BY DEF OutcomesAreTold
  <2>1. /\ recorded = AssessResult(result)
        /\ posted <=> result = Raised("Exception")
        /\ stage = "ended" <=> Leaves(result)
    BY DEF TellInv
  <2>2. CASE unanswered
    <3>1. result = Raised("Exception")
      BY <2>2 DEF TellInv
    <3>2. recorded = "failure" /\ ~Leaves(result)
      BY <2>1, <3>1 DEF AssessResult, Raised, Leaves
    <3> QED
      BY <2>1, <2>2, <3>1, <3>2 DEF OutcomesAreTold
  <2>3. CASE ~unanswered
    <3>1. told = AllTold /\ recorded = Promised /\ ResultIsReal
      BY <2>1, <2>3 DEF TellInv
    <3>2. posted <=> RaisesFor(command, ending)
      BY <2>1, <3>1 DEF ResultIsReal
    <3>3. stage = "ended" <=> Leaves(ending)
      BY <2>1, <3>1 DEF ResultIsReal
    <3> QED
      BY <2>3, <3>1, <3>2, <3>3 DEF OutcomesAreTold, AllTold
  <2> QED
    BY <2>2, <2>3
<1> QED
  BY <1>1, <1>2, <1>3, CommandInvariance, PTL DEF Spec
===============================================================================
