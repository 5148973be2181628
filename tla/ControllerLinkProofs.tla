------------------------ MODULE ControllerLinkProofs ------------------------
(***************************************************************************)
(* Proofs about ControllerLink for any number of targets, sessions,        *)
(* messages, sequences and crashes.  The properties are those the runs of  *)
(* MCControllerLink check.  What the operations on controller states       *)
(* guarantee, for every set of targets, comes first.                       *)
(***************************************************************************)
EXTENDS ControllerLink, TLAPS

-----------------------------------------------------------------------------
(* The operations on controller states *)

LEMMA EmptyStateType == EmptyState \in State
BY DEF EmptyState, State, MaybeTarget

LEMMA DiffType ==
  ASSUME NEW old \in State, NEW new \in State
  PROVE  Diff(old, new) \in Delta
<1> DEFINE fields == {g \in Field : old[g] # new[g]}
<1>1. fields \in SUBSET Field
  OBVIOUS
<1>2. Diff(old, new) \in [fields -> MaybeTarget]
  BY DEF Diff, State
<1> QED
  BY <1>1, <1>2 DEF Delta

LEMMA DeltaMembers ==
  ASSUME NEW delta \in Delta
  PROVE  /\ DOMAIN delta \subseteq Field
         /\ \A f \in DOMAIN delta : delta[f] \in MaybeTarget
<1>1. PICK fields \in SUBSET Field : delta \in [fields -> MaybeTarget]
  BY DEF Delta
<1> QED
  BY <1>1

LEMMA MergeType ==
  ASSUME NEW s \in State, NEW delta \in Delta
  PROVE  Merge(s, delta) \in State
BY DeltaMembers DEF Merge, State

LEMMA ValidateType ==
  ASSUME NEW s \in State
  PROVE  Validate(s) \in State
BY DEF Validate, State, MaybeTarget

\* What the engine sends is exactly what the host is missing: merging the
\* difference between two states into the first gives the second.
THEOREM MergeOfDiff ==
  ASSUME NEW old \in State, NEW new \in State
  PROVE  Merge(old, Diff(old, new)) = new
<1>1. \A f \in Field : Merge(old, Diff(old, new))[f] = new[f]
  BY DEF Merge, Diff
<1> QED
  BY <1>1 DEF Merge, State

\* Nothing is sent exactly when nothing has changed.
THEOREM EmptyDiff ==
  ASSUME NEW old \in State, NEW new \in State
  PROVE  DOMAIN Diff(old, new) = {} <=> old = new
<1>1. DOMAIN Diff(old, new) = {g \in Field : old[g] # new[g]}
  BY DEF Diff
<1>2. ASSUME DOMAIN Diff(old, new) = {}
      PROVE  old = new
  BY <1>1, <1>2 DEF State
<1>3. ASSUME old = new
      PROVE  DOMAIN Diff(old, new) = {}
  BY <1>1, <1>3
<1> QED
  BY <1>2, <1>3

LEMMA RankType ==
  /\ DOMAIN Rank = Exclusive
  /\ \A f \in Exclusive : Rank[f] \in Nat
  /\ \A f, g \in Exclusive : Rank[f] = Rank[g] => f = g
BY DEF Rank, Exclusive

\* The compatibility matrix: a validated state drives at most one of the
\* exclusive controls.
THEOREM ValidateExclusive ==
  ASSUME NEW s \in State,
         NEW f \in Exclusive, NEW g \in Exclusive,
         Validate(s)[f] # NoTarget, Validate(s)[g] # NoTarget
  PROVE  f = g
<1>1. Exclusive \subseteq Field
  BY DEF Exclusive, Field
<1>2. s[f] # NoTarget /\ s[g] # NoTarget
  BY <1>1 DEF Validate
<1>3. ~(Rank[g] < Rank[f]) /\ ~(Rank[f] < Rank[g])
  BY <1>1, <1>2 DEF Validate
<1> QED
  BY <1>3, RankType

\* Validating again changes nothing, and a field that no preferred one beats
\* is left as it is.
THEOREM ValidateIdempotent ==
  ASSUME NEW s \in State
  PROVE  Validate(Validate(s)) = Validate(s)
<1>1. ASSUME NEW f \in Field
      PROVE  Validate(Validate(s))[f] = Validate(s)[f]
  <2>1. CASE f \in Exclusive /\ \E g \in Exclusive :
               Rank[g] < Rank[f] /\ Validate(s)[g] # NoTarget
    <3>1. PICK g \in Exclusive : Rank[g] < Rank[f] /\ Validate(s)[g] # NoTarget
      BY <2>1
    <3>2. s[g] # NoTarget
      BY <3>1 DEF Validate, Exclusive, Field
    <3>3. Validate(s)[f] = NoTarget
      BY <2>1, <3>1, <3>2 DEF Validate
    <3> QED
      BY <3>3 DEF Validate
  <2>2. CASE ~(f \in Exclusive /\ \E g \in Exclusive :
               Rank[g] < Rank[f] /\ Validate(s)[g] # NoTarget)
    BY <2>2 DEF Validate
  <2> QED
    BY <2>1, <2>2
<1> QED
  BY <1>1 DEF Validate

-----------------------------------------------------------------------------
(* Types of what the actions build *)

LEMMA NoTagType == NoTag \in Tag
BY DEF NoTag, Tag

LEMMA NoGoalType == NoGoal \in [action : Field \cup {"none"}, target : MaybeTarget]
BY DEF NoGoal, MaybeTarget

LEMMA NoInFlightType ==
  NoInFlight \in [action : OneShot \cup {"none"}, corr : Nat, target : MaybeTarget]
BY DEF NoInFlight, MaybeTarget

LEMMA NoRealityType == NoReality \in [session : Nat, outcomes : SUBSET Outcome]
BY DEF NoReality

LEMMA OnlyType ==
  ASSUME NEW field, NEW target \in MaybeTarget
  PROVE  Only(field, target) \in State
BY EmptyStateType DEF Only, State

LEMMA EmitType ==
  ASSUME ChannelsTypeOK, NEW messages \in Seq(UpMessage), Emit(messages)
  PROVE  up' \in Seq(UpMessage)
BY DEF ChannelsTypeOK, Emit

LEMMA StatusType ==
  ASSUME NEW s \in Nat, NEW n \in Nat, NEW status \in Status
  PROVE  StatusMsg(s, n, status) \in UpMessage
BY DEF StatusMsg, UpMessage

LEMMA ObservationType ==
  ASSUME NEW s \in Nat, NEW n \in Nat
  PROVE  ObservationMsg(s, n) \in UpMessage
BY DEF ObservationMsg, UpMessage

LEMMA RealityType ==
  ASSUME NEW s \in Nat, NEW outcomes \in SUBSET Outcome
  PROVE  RealityMsg(s, outcomes) \in UpMessage
BY DEF RealityMsg, UpMessage

LEMMA StateMsgType ==
  ASSUME NEW delta \in Delta, NEW tag \in Tag
  PROVE  StateMsg(delta, tag) \in DownMessage
BY DEF StateMsg, DownMessage

LEMMA ConfigurationType == Configuration \in DownMessage
BY DEF Configuration, DownMessage

LEMMA SeqOf ==
  ASSUME NEW S, NEW a \in S, NEW b \in S, NEW c \in S
  PROVE  <<a>> \in Seq(S) /\ <<a, b>> \in Seq(S) /\ <<a, b, c>> \in Seq(S)
OBVIOUS

LEMMA HeadType ==
  ASSUME NEW S, NEW s \in Seq(S), s # <<>>
  PROVE  Head(s) \in S /\ Tail(s) \in Seq(S)
OBVIOUS

LEMMA StateForType ==
  ASSUME NEW d \in Decisions
  PROVE  StateFor(d) \in State
<1>1. d \in Decision
  BY EngineAssumption
<1>2. d.action \in Field \cup {"none"} /\ d.target \in MaybeTarget /\ d.move \in MaybeTarget
  BY <1>1 DEF Decision
<1>3. Only("goto", d.target) \in State /\ Only(d.action, d.target) \in State
  BY <1>2, OnlyType
<1>4. [Only(d.action, d.target) EXCEPT !["goto"] = d.move] \in State
  BY <1>2, <1>3 DEF State
<1> QED
  BY <1>3, <1>4, EmptyStateType DEF StateFor

LEMMA ReportType ==
  ASSUME HostTypeOK, NEW k \in OneShot, NEW ok \in BOOLEAN, NEW exec \in Tag
  PROVE  Report(k, ok, exec) \subseteq Outcome
<1>1. tags[k][2] \in Nat
  BY DEF HostTypeOK, Tag, OneShot, Field
<1> QED
  BY <1>1 DEF Report, Outcome

-----------------------------------------------------------------------------
(* The type invariant: the engine's half *)

LEMMA EngineTypesInit == EngineInit => EngineTypeOK
<1> SUFFICES ASSUME EngineInit PROVE EngineTypeOK
  OBVIOUS
<1>1. reality \in [session : Nat, outcomes : SUBSET Outcome]
  BY NoRealityType DEF EngineInit
<1>2. /\ current \in [action : Field \cup {"none"}, target : MaybeTarget]
      /\ inFlight \in [action : OneShot \cup {"none"}, corr : Nat, target : MaybeTarget]
  BY NoGoalType, NoInFlightType DEF EngineInit
<1>3. desired \in State /\ lastSent \in State
  BY EmptyStateType DEF EngineInit
<1>4. /\ phase \in Phase /\ remote \in Nat /\ lastSeq \in Nat
      /\ ctlSeq \in Nat /\ outcomeLost \in BOOLEAN
  BY DEF EngineInit, Phase
<1> QED
  BY <1>1, <1>2, <1>3, <1>4 DEF EngineTypeOK

LEMMA EngineTypesUnchanged == EngineTypeOK /\ UNCHANGED engine => EngineTypeOK'
BY DEF EngineTypeOK, engine, sync

LEMMA ResetType ==
  ASSUME ResetSessionAI
  PROVE  /\ current' \in [action : Field \cup {"none"}, target : MaybeTarget]
         /\ desired' \in State /\ lastSent' \in State /\ ctlSeq' \in Nat
         /\ inFlight' \in [action : OneShot \cup {"none"}, corr : Nat, target : MaybeTarget]
         /\ outcomeLost' \in BOOLEAN
BY NoGoalType, NoInFlightType, EmptyStateType DEF ResetSessionAI

LEMMA ApplyEventTypes ==
  ASSUME EngineTypeOK, ChannelsTypeOK, ApplyEvent
  PROVE  EngineTypeOK' /\ up' \in Seq(UpMessage)
<1>1. Head(up) \in UpMessage /\ up' \in Seq(UpMessage)
  BY HeadType DEF ChannelsTypeOK, ApplyEvent
<1> DEFINE e == Head(up)
<1>2. CASE e.type = "reality"
  <2>1. e \in [type : {"reality"}, session : Nat, outcomes : SUBSET Outcome]
    BY <1>1, <1>2 DEF UpMessage
  <2>2. ApplyReality(e)
    BY <1>2 DEF ApplyEvent
  <2>3. reality' \in [session : Nat, outcomes : SUBSET Outcome]
    <3>1. [session |-> e.session, outcomes |-> e.outcomes] \in [session : Nat, outcomes : SUBSET Outcome]
      BY <2>1
    <3>2. reality' = [session |-> e.session, outcomes |-> e.outcomes] \/ reality' = reality
      BY <2>2 DEF ApplyReality
    <3> QED
      BY <3>1, <3>2 DEF EngineTypeOK
  <2>4. outcomeLost' \in BOOLEAN
    BY <2>2 DEF ApplyReality, EngineTypeOK
  <2>5. UNCHANGED <<phase, remote, lastSeq, current, desired, lastSent, ctlSeq, inFlight>>
    BY <2>2 DEF ApplyReality, sync
  <2> QED
    BY <1>1, <2>3, <2>4, <2>5 DEF EngineTypeOK
<1>3. CASE e.type # "reality"
  <2>1. e.session \in Nat /\ e.seq \in Nat
    BY <1>1, <1>3 DEF UpMessage
  <2>2. ApplyObservation(e)
    BY <1>3 DEF ApplyEvent
  <2>3. PhaseAfter(e) \in Phase
    BY DEF PhaseAfter, Phase
  <2>4. /\ phase' \in Phase /\ remote' \in Nat /\ lastSeq' \in Nat
        /\ reality' \in [session : Nat, outcomes : SUBSET Outcome]
    BY <2>1, <2>2, <2>3, NoRealityType DEF ApplyObservation, EngineTypeOK
  <2>5. CASE ResetSessionAI
    BY <1>1, <2>4, <2>5, ResetType DEF EngineTypeOK
  <2>6. CASE UNCHANGED <<sync, outcomeLost>>
    BY <1>1, <2>4, <2>6 DEF EngineTypeOK, sync
  <2>7. ResetSessionAI \/ UNCHANGED <<sync, outcomeLost>>
    BY <2>2 DEF ApplyObservation
  <2> QED
    BY <2>5, <2>6, <2>7
<1> QED
  BY <1>2, <1>3

LEMMA SelectTypes ==
  ASSUME EngineTypeOK, ChannelsTypeOK, NEW d \in Decisions, Select(d, hostUp)
  PROVE  EngineTypeOK' /\ down' \in Seq(DownMessage)
<1>1. UNCHANGED <<phase, remote, lastSeq, reality>>
  BY DEF Select
<1>2. d.action \in Field \cup {"none"} /\ d.target \in MaybeTarget
  BY EngineAssumption DEF Decision
<1>3. desired' \in State
  <2>1. DesiredFor(d) \in State
    BY StateForType, EmptyStateType DEF DesiredFor, EngineTypeOK
  <2> QED
    BY <2>1, ValidateType DEF Select
<1>4. current' \in [action : Field \cup {"none"}, target : MaybeTarget]
  BY <1>2 DEF Select
<1>5. Diff(lastSent, desired') \in Delta
  BY <1>3, DiffType DEF EngineTypeOK
<1>6. InFlightAfterFeedback \in [action : OneShot \cup {"none"}, corr : Nat, target : MaybeTarget]
  BY NoInFlightType DEF InFlightAfterFeedback, EngineTypeOK
<1>7. outcomeLost' \in BOOLEAN
  BY DEF Select, EngineTypeOK
<1>8. CASE DOMAIN Diff(lastSent, desired') = {}
  <2>1. inFlight' = InFlightAfterFeedback /\ UNCHANGED <<lastSent, ctlSeq, down>>
    BY <1>8 DEF Select
  <2> QED
    BY <1>1, <1>3, <1>4, <1>6, <1>7, <2>1 DEF EngineTypeOK, ChannelsTypeOK
<1>9. CASE DOMAIN Diff(lastSent, desired') # {}
  <2>1. /\ ctlSeq' = ctlSeq + 1
        /\ lastSent' = desired'
        /\ SendControllerState(StateMsg(Diff(lastSent, desired'), <<remote, ctlSeq'>>), hostUp)
        /\ \/ inFlight' = InFlightAfterFeedback
           \/ d.action \in OneShot /\ inFlight' = [action |-> d.action, corr |-> ctlSeq', target |-> d.target]
    BY <1>9 DEF Select
  <2>2. ctlSeq' \in Nat
    BY <2>1 DEF EngineTypeOK
  <2>3. <<remote, ctlSeq'>> \in Tag
    BY <2>2 DEF Tag, EngineTypeOK
  <2>4. down' \in Seq(DownMessage)
    BY <1>5, <2>1, <2>3, StateMsgType DEF SendControllerState, ChannelsTypeOK
  <2>5. inFlight' \in [action : OneShot \cup {"none"}, corr : Nat, target : MaybeTarget]
    BY <1>2, <1>6, <2>1, <2>2
  <2> QED
    BY <1>1, <1>3, <1>4, <1>7, <2>1, <2>2, <2>4, <2>5 DEF EngineTypeOK
<1> QED
  BY <1>8, <1>9

-----------------------------------------------------------------------------
(* The type invariant: the host's half.  A bot is named by its epoch, and   *)
(* every new bot is in a new session, so the bound on sessions bounds both. *)

HostTypes == HostTypeOK /\ epoch =< sessions

LEMMA AllAbsentType == [b \in Bots |-> "absent"] \in [Bots -> Life]
BY DEF Life

LEMMA NoTagsType == [f \in Field |-> NoTag] \in [Field -> Tag]
BY NoTagType

LEMMA HostTypesInit == HostInit => HostTypes
<1> SUFFICES ASSUME HostInit PROVE HostTypes
  OBVIOUS
<1>1. state \in State /\ tags \in [Field -> Tag] /\ life \in [Bots -> Life]
  BY EmptyStateType, NoTagsType, AllAbsentType DEF HostInit
<1>2. /\ hostUp \in BOOLEAN /\ configured \in BOOLEAN /\ retryScheduled \in BOOLEAN
      /\ ticking \in BOOLEAN /\ tainted \in BOOLEAN
  BY DEF HostInit
<1>3. /\ session \in Nat /\ obsSeq \in Nat /\ timers \in Nat /\ bot \in Bots \cup {0}
      /\ epoch \in Nat /\ sessions \in Nat /\ errors \in Nat /\ epoch =< sessions
  BY DEF HostInit, HostTypes, HostTypeOK
<1>4. /\ buffer \subseteq Outcome /\ jobs \subseteq Job
      /\ reported \subseteq OneShot \X Nat
      /\ started \subseteq Field \X Nat \X MaybeTarget
      /\ terminal \subseteq Field \X Nat \X MaybeTarget
  BY DEF HostInit
<1> QED
  BY <1>1, <1>2, <1>3, <1>4 DEF HostTypes, HostTypeOK

LEMMA DiesTypes ==
  ASSUME HostTypes, Dies
  PROVE  HostTypes' /\ down' \in Seq(DownMessage)
<1>1. state' \in State /\ tags' \in [Field -> Tag] /\ life' \in [Bots -> Life]
  BY EmptyStateType, NoTagsType, AllAbsentType DEF Dies
<1>2. /\ hostUp' \in BOOLEAN /\ configured' \in BOOLEAN /\ retryScheduled' \in BOOLEAN
      /\ ticking' \in BOOLEAN /\ tainted' \in BOOLEAN
  BY DEF Dies
<1>3. /\ session' \in Nat /\ obsSeq' \in Nat /\ timers' \in Nat /\ bot' \in Bots \cup {0}
      /\ epoch' \in Nat /\ sessions' \in Nat /\ errors' \in Nat /\ epoch' =< sessions'
  BY DEF Dies, HostTypes, HostTypeOK
<1>4. /\ buffer' \subseteq Outcome /\ jobs' \subseteq Job
      /\ reported' \subseteq OneShot \X Nat
      /\ started' \subseteq Field \X Nat \X MaybeTarget
      /\ terminal' \subseteq Field \X Nat \X MaybeTarget
  BY DEF Dies
<1> QED
  BY <1>1, <1>2, <1>3, <1>4 DEF Dies, HostTypes, HostTypeOK

LEMMA ConnectTypes ==
  ASSUME HostTypes, ChannelsTypeOK, Connect
  PROVE  HostTypes' /\ up' \in Seq(UpMessage) /\ down' = down
<1> USE DEF HostTypes
<1>1. /\ timers' \in Nat /\ sessions' \in Nat /\ session' \in Nat
      /\ sessions' =< MaxSessions
      /\ retryScheduled' \in BOOLEAN /\ buffer' \subseteq Outcome
      /\ UNCHANGED <<hostUp, configured, errors, down>>
  <2>1. sessions' = sessions + 1 /\ sessions < MaxSessions /\ session' = sessions'
    BY DEF Connect
  <2>2. timers > 0 /\ timers' = timers - 1
    BY DEF Connect
  <2>3. retryScheduled' = FALSE /\ buffer' = {} /\ UNCHANGED <<hostUp, configured, errors, down>>
    BY DEF Connect
  <2>4. sessions' \in Nat /\ session' \in Nat /\ sessions' =< MaxSessions /\ timers' \in Nat
    BY <2>1, <2>2, HostAssumption DEF HostTypeOK
  <2>5. retryScheduled' \in BOOLEAN
    BY <2>3
  <2> QED
    BY <2>3, <2>4, <2>5
<1>2. CASE bot # 0
  BY <1>1, <1>2 DEF Connect, HostTypeOK, ChannelsTypeOK, adapter
<1>3. CASE bot = 0
  <2>1. /\ obsSeq' = 1
        /\ Emit(<<StatusMsg(session', 1, "connecting")>>)
        /\ epoch' = epoch + 1
        /\ bot' = epoch'
        /\ life' = [life EXCEPT ![bot'] = "joining"]
        /\ state' = EmptyState
        /\ tags' = [f \in Field |-> NoTag]
        /\ reported' = {} /\ started' = {} /\ terminal' = {}
        /\ tainted' = FALSE
        /\ UNCHANGED <<ticking, jobs>>
        /\ sessions' = sessions + 1
    BY <1>3 DEF Connect
  <2>2. epoch' \in Nat /\ epoch' =< sessions' /\ bot' \in Bots
    BY <1>1, <2>1, HostAssumption DEF HostTypeOK, Bots
  <2>3. life' \in [Bots -> Life]
    BY <2>1, <2>2 DEF HostTypeOK, Life
  <2>4. StatusMsg(session', 1, "connecting") \in UpMessage
    BY <1>1, StatusType DEF Status
  <2>5. up' \in Seq(UpMessage)
    BY <2>1, <2>4, EmitType, SeqOf
  <2>6. state' \in State /\ tags' \in [Field -> Tag]
    BY <2>1, EmptyStateType, NoTagsType
  <2> QED
    BY <1>1, <2>1, <2>2, <2>3, <2>5, <2>6 DEF HostTypeOK
<1> QED
  BY <1>2, <1>3

LEMMA ScheduleTypes ==
  ASSUME HostTypeOK, Schedule
  PROVE  retryScheduled' \in BOOLEAN /\ timers' \in Nat
BY DEF Schedule, HostTypeOK

LEMMA LifeStepType ==
  ASSUME HostTypeOK, NEW b \in Bots, NEW l \in Life
  PROVE  [life EXCEPT ![b] = l] \in [Bots -> Life]
BY DEF HostTypeOK

LEMMA SpawnTypes ==
  ASSUME HostTypes, ChannelsTypeOK, NEW b \in Bots, Spawn(b)
  PROVE  HostTypes' /\ ChannelsTypeOK'
<1> USE DEF HostTypes
<1> DEFINE first == StatusMsg(session, obsSeq + 1, "connected")
<1>1. first \in UpMessage
  BY StatusType DEF HostTypeOK, Status
<1>2. \A n \in Nat : ObservationMsg(session, obsSeq + n) \in UpMessage
  BY ObservationType DEF HostTypeOK
<1>3. CASE bot = 0
  <2>1. Emit(<<first, ObservationMsg(session, obsSeq + 2)>>) /\ Dies
    BY <1>3 DEF Spawn
  <2>2. up' \in Seq(UpMessage)
    BY <1>1, <1>2, <2>1, EmitType, SeqOf
  <2> QED
    BY <2>1, <2>2, DiesTypes DEF ChannelsTypeOK
<1>4. CASE bot # 0
  <2>1. /\ Emit(<<first, ObservationMsg(session, obsSeq + 2), ObservationMsg(session, obsSeq + 3)>>)
        /\ obsSeq' = obsSeq + 3
        /\ retryScheduled' = FALSE
        /\ life' = [life EXCEPT ![b] = "playing"]
        /\ ticking' = TRUE
        /\ UNCHANGED <<hostUp, configured, session, timers, buffer, bot, state, tags,
                       reported, started, terminal, jobs, epoch, sessions, errors,
                       tainted, down>>
    BY <1>4 DEF Spawn, Observes
  <2>2. up' \in Seq(UpMessage)
    BY <1>1, <1>2, <2>1, EmitType, SeqOf
  <2>3. life' \in [Bots -> Life]
    BY <2>1, LifeStepType DEF Life
  <2>4. obsSeq' \in Nat
    BY <2>1 DEF HostTypeOK
  <2>5. ticking' \in BOOLEAN /\ retryScheduled' \in BOOLEAN
    BY <2>1
  <2> QED
    BY <2>1, <2>2, <2>3, <2>4, <2>5 DEF HostTypeOK, ChannelsTypeOK
<1> QED
  BY <1>3, <1>4

LEMMA TelemetryTypes ==
  ASSUME HostTypes, ChannelsTypeOK, NEW b \in Bots, Telemetry(b)
  PROVE  HostTypes' /\ ChannelsTypeOK'
<1> USE DEF HostTypes
<1>1. obsSeq' \in Nat /\ Emit(<<ObservationMsg(session, obsSeq')>>)
  BY DEF Telemetry, Observes, HostTypeOK
<1>2. up' \in Seq(UpMessage)
  <2>1. ObservationMsg(session, obsSeq') \in UpMessage
    BY <1>1, ObservationType DEF HostTypeOK
  <2> QED
    BY <1>1, <2>1, EmitType, SeqOf
<1> QED
  BY <1>1, <1>2 DEF Telemetry, HostTypeOK, ChannelsTypeOK, adapter

LEMMA KickedTypes ==
  ASSUME HostTypes, ChannelsTypeOK, NEW b \in Bots, Kicked(b)
  PROVE  HostTypes' /\ ChannelsTypeOK'
<1> USE DEF HostTypes
<1>1. up' \in Seq(UpMessage)
  <2>1. /\ StatusMsg(session, obsSeq + 1, "failed") \in UpMessage
        /\ StatusMsg(session, obsSeq + 2, "disconnected") \in UpMessage
    BY StatusType DEF HostTypeOK, Status
  <2> QED
    BY <2>1, EmitType, SeqOf DEF Kicked
<1>2. retryScheduled' \in BOOLEAN /\ timers' \in Nat
  BY ScheduleTypes DEF Kicked
<1>3. life' \in [Bots -> Life]
  BY LifeStepType DEF Kicked, Life
<1>4. obsSeq' \in Nat
  BY DEF Kicked, Observes, HostTypeOK
<1> QED
  BY <1>1, <1>2, <1>3, <1>4 DEF Kicked, HostTypeOK, ChannelsTypeOK

LEMMA ErrorTypes ==
  ASSUME HostTypes, ChannelsTypeOK, NEW b \in Bots, Error(b)
  PROVE  HostTypes' /\ ChannelsTypeOK'
<1> USE DEF HostTypes
<1>1. obsSeq' \in Nat
  BY DEF Error, Observes, HostTypeOK
<1>2. up' \in Seq(UpMessage)
  <2>1. StatusMsg(session, obsSeq', "failed") \in UpMessage
    BY <1>1, StatusType DEF HostTypeOK, Status
  <2> QED
    BY <2>1, EmitType, SeqOf DEF Error
<1>3. retryScheduled' \in BOOLEAN /\ timers' \in Nat
  BY ScheduleTypes DEF Error
<1> QED
  BY <1>1, <1>2, <1>3 DEF Error, HostTypeOK, ChannelsTypeOK, adapter

LEMMA EndTypes ==
  ASSUME HostTypes, ChannelsTypeOK, NEW b \in Bots, End(b)
  PROVE  HostTypes' /\ ChannelsTypeOK'
<1> USE DEF HostTypes
<1>1. obsSeq' \in Nat
  BY DEF End, Observes, HostTypeOK
<1>2. up' \in Seq(UpMessage)
  <2>1. StatusMsg(session, obsSeq', "disconnected") \in UpMessage
    BY <1>1, StatusType DEF HostTypeOK, Status
  <2> QED
    BY <2>1, EmitType, SeqOf DEF End
<1>3. retryScheduled' \in BOOLEAN /\ timers' \in Nat
  BY ScheduleTypes DEF End
<1>4. life' \in [Bots -> Life]
  BY LifeStepType DEF End, Life
<1> QED
  BY <1>1, <1>2, <1>3, <1>4 DEF End, HostTypeOK, ChannelsTypeOK

LEMMA ApplyStateTypes ==
  ASSUME HostTypeOK, NEW m, m.delta \in Delta, m.tag \in Tag, ApplyState(m)
  PROVE  state' \in State /\ tags' \in [Field -> Tag] /\ jobs' \subseteq Job /\ tainted' \in BOOLEAN
<1>1. state' \in State
  BY MergeType DEF ApplyState, HostTypeOK
<1>2. tags' \in [Field -> Tag]
  BY NoTagType DEF ApplyState, RecordActionSequences, HostTypeOK
<1>3. jobs' \subseteq Job
  <2>1. \A j \in Digs : [j EXCEPT !.active = FALSE] \in Job
    BY DEF Digs, Job, HostTypeOK
  <2>2. jobs \subseteq Job
    BY DEF HostTypeOK
  <2>3. jobs' \subseteq jobs \cup {[j EXCEPT !.active = FALSE] : j \in Digs}
    BY DEF ApplyState
  <2> QED
    BY <2>1, <2>2, <2>3
<1>4. tainted' \in BOOLEAN
  BY DEF ApplyState, HostTypeOK
<1> QED
  BY <1>1, <1>2, <1>3, <1>4

LEMMA ReceiveTypes ==
  ASSUME HostTypes, ChannelsTypeOK, Receive
  PROVE  HostTypes' /\ ChannelsTypeOK'
<1> USE DEF HostTypes
<1> DEFINE m == Head(down)
<1>1. m \in DownMessage /\ down' \in Seq(DownMessage) /\ up' = up
  BY HeadType DEF Receive, ChannelsTypeOK
<1>2. UNCHANGED <<hostUp, session, obsSeq, retryScheduled, buffer, sessions, errors>>
  BY DEF Receive
<1>3. CASE m.type = "configure"
  <2>1. configured' = TRUE /\ timers' \in {timers, timers + 1} /\ UNCHANGED <<adapter, tainted>>
    BY <1>3 DEF Receive
  <2>2. configured' \in BOOLEAN
    BY <2>1
  <2>3. timers' \in Nat
    BY <2>1 DEF HostTypeOK
  <2> QED
    BY <1>1, <1>2, <2>1, <2>2, <2>3 DEF HostTypeOK, ChannelsTypeOK, adapter
<1>4. CASE m.type = "state" /\ configured
  <2>1. m.delta \in Delta /\ m.tag \in Tag
    BY <1>1, <1>4 DEF DownMessage
  <2>2. ApplyState(m)
    BY <1>4 DEF Receive
  <2> QED
    BY <1>1, <1>2, <2>1, <2>2, ApplyStateTypes DEF ApplyState, HostTypeOK, ChannelsTypeOK
<1>5. CASE m.type # "configure" /\ ~(m.type = "state" /\ configured)
  <2>1. UNCHANGED <<configured, timers, adapter, tainted>>
    BY <1>5 DEF Receive
  <2> QED
    BY <1>1, <1>2, <2>1 DEF HostTypeOK, ChannelsTypeOK, adapter
<1> QED
  BY <1>3, <1>4, <1>5

LEMMA ActionKeyType ==
  ASSUME HostTypeOK, NEW f \in Field
  PROVE  ActionKey(f) \in Field \X Nat \X MaybeTarget
BY DEF ActionKey, HostTypeOK, Tag, State

LEMMA NewJobType ==
  ASSUME HostTypeOK, bot # 0, NEW f \in OneShot \cup {"break"}
  PROVE  NewJob(f) \in Job
<1>1. f \in Field
  BY DEF OneShot, Field
<1>2. bot \in Bots /\ tags[f] \in Tag
  BY <1>1 DEF HostTypeOK
<1> QED
  BY <1>1, <1>2, ActionKeyType DEF NewJob, Job

LEMMA TickTypes ==
  ASSUME HostTypes, ChannelsTypeOK,
         NEW sustained \in SustainedResults, NEW starts \in StartResults,
         Tick(sustained, starts)
  PROVE  HostTypes' /\ ChannelsTypeOK'
<1> USE DEF HostTypes
<1> DEFINE over  == {f \in {"break", "attack"} : sustained[f] = "over"}
           digs  == {f \in {"break", "attack"} : sustained[f] = "digs"}
           runs  == {k \in Due : starts[k] = "runs"}
           fresh == UNION {Report(k, starts[k] = "completed", tags[k]) :
                             k \in {k \in Due : starts[k] # "runs"}}
<1>1. Due \subseteq OneShot /\ OneShot \subseteq Field
  BY DEF Due, OneShot, Field
<1>2. {"break", "attack"} \subseteq Field
  BY DEF Field
<1>3. fresh \subseteq Outcome
  <2>1. \A k \in Due : Report(k, starts[k] = "completed", tags[k]) \subseteq Outcome
    BY <1>1, ReportType DEF HostTypeOK
  <2> QED
    BY <2>1
<1>4. digs \subseteq {"break"}
  BY DEF SustainedResults
<1>5. UNCHANGED <<hostUp, configured, session, obsSeq, retryScheduled, timers, bot, life,
                  ticking, tags, epoch, sessions, errors, tainted, down>>
  BY DEF Tick
<1>6. terminal' \subseteq Field \X Nat \X MaybeTarget /\ started' \subseteq Field \X Nat \X MaybeTarget
  <2>1. \A f \in {"break", "attack"} : ActionKey(f) \in Field \X Nat \X MaybeTarget
    BY <1>2, ActionKeyType
  <2>2. /\ terminal' = terminal \cup {ActionKey(f) : f \in over}
        /\ started' = (started \ {ActionKey(f) : f \in over}) \cup {ActionKey(f) : f \in digs}
    BY DEF Tick
  <2> QED
    BY <2>1, <2>2 DEF HostTypeOK
<1>7. jobs' \subseteq Job
  <2>1. jobs' = jobs \cup {NewJob(f) : f \in digs \cup runs} /\ bot # 0
    BY DEF Tick
  <2>2. \A f \in digs \cup runs : NewJob(f) \in Job
    BY <1>1, <1>4, <2>1, NewJobType
  <2> QED
    BY <2>1, <2>2 DEF HostTypeOK
<1>8. state' \in State
  <2>1. state' = [f \in Field |-> IF f \in Due THEN NoTarget ELSE state[f]]
    BY DEF Tick
  <2> QED
    BY <2>1 DEF HostTypeOK, State, MaybeTarget
<1>9. reported' \subseteq OneShot \X Nat
  <2>1. reported' = reported \cup {<<o.kind, o.seq>> : o \in fresh}
    BY DEF Tick
  <2>2. \A o \in Outcome : <<o.kind, o.seq>> \in OneShot \X Nat
    BY DEF Outcome
  <2> QED
    BY <1>3, <2>1, <2>2 DEF HostTypeOK
<1>10. buffer' \subseteq Outcome /\ up' \in Seq(UpMessage)
  <2>1. buffer' = {} /\ Emit(<<RealityMsg(session, buffer \cup fresh)>>)
    BY DEF Tick
  <2>2. RealityMsg(session, buffer \cup fresh) \in UpMessage
    BY <1>3, RealityType DEF HostTypeOK
  <2> QED
    BY <2>1, <2>2, EmitType, SeqOf
<1> QED
  BY <1>5, <1>6, <1>7, <1>8, <1>9, <1>10 DEF HostTypeOK, ChannelsTypeOK

LEMMA SettleTypes ==
  ASSUME HostTypes, ChannelsTypeOK, NEW j \in jobs, NEW ok \in BOOLEAN, Settle(j, ok)
  PROVE  HostTypes' /\ ChannelsTypeOK'
<1> USE DEF HostTypes
<1>1. j \in Job /\ jobs' \subseteq Job
  BY DEF Settle, HostTypeOK
<1>2. UNCHANGED <<hostUp, configured, session, obsSeq, retryScheduled, timers, bot, life,
                  ticking, state, tags, epoch, sessions, errors, tainted, channels>>
  BY DEF Settle
<1>3. CASE j.kind = "break"
  <2>1. UNCHANGED <<buffer, reported>>
    BY <1>3 DEF Settle
  <2>2. j.key \in Field \X Nat \X MaybeTarget
    BY <1>1 DEF Job
  <2>3. \/ started' = started \ {j.key} /\ terminal' = terminal \cup {j.key}
        \/ UNCHANGED <<started, terminal>>
    BY <1>3 DEF Settle
  <2> QED
    BY <1>1, <1>2, <2>1, <2>2, <2>3 DEF HostTypeOK, ChannelsTypeOK, channels
<1>4. CASE j.kind # "break"
  <2> DEFINE fresh == Report(j.kind, ok, j.tag)
  <2>1. fresh \subseteq Outcome
    BY <1>1, <1>4, ReportType DEF Job
  <2>2. /\ buffer' = buffer \cup fresh
        /\ reported' = reported \cup {<<o.kind, o.seq>> : o \in fresh}
        /\ UNCHANGED <<started, terminal>>
    BY <1>4 DEF Settle
  <2>3. \A o \in Outcome : <<o.kind, o.seq>> \in OneShot \X Nat
    BY DEF Outcome
  <2> QED
    BY <1>1, <1>2, <2>1, <2>2, <2>3 DEF HostTypeOK, ChannelsTypeOK, channels
<1> QED
  BY <1>3, <1>4

-----------------------------------------------------------------------------
(* The type invariant of the composition *)

Types == EngineTypeOK /\ HostTypes /\ ChannelsTypeOK /\ crashes \in Nat

LEMMA TypesInit == Init => Types
<1> SUFFICES ASSUME Init PROVE Types
  OBVIOUS
<1>1. EngineTypeOK /\ HostTypes
  BY EngineTypesInit, HostTypesInit DEF Init
<1>2. ChannelsTypeOK
  BY DEF Init, ChannelsTypeOK
<1> QED
  BY <1>1, <1>2 DEF Init, Types

LEMMA HostTypesUnchanged == HostTypes /\ UNCHANGED host => HostTypes'
BY DEF HostTypes, HostTypeOK, host, controller, adapter

LEMMA TypesNext == Types /\ [Next]_vars => Types'
<1> SUFFICES ASSUME Types, [Next]_vars PROVE Types'
  OBVIOUS
<1> USE DEF Types
<1>1. CASE EngineApply
  BY <1>1, ApplyEventTypes, HostTypesUnchanged DEF EngineApply, ChannelsTypeOK
<1>2. CASE EngineSelect
  BY <1>2, SelectTypes, HostTypesUnchanged DEF EngineSelect, ChannelsTypeOK
<1>3. CASE StartHost
  <2>1. hostUp' \in BOOLEAN
    BY <1>3 DEF StartHost
  <2>2. /\ UNCHANGED <<controller, adapter, sessions, errors, tainted, channels, crashes>>
        /\ UNCHANGED engine
    BY <1>3 DEF StartHost
  <2> QED
    BY <2>1, <2>2, EngineTypesUnchanged
       DEF HostTypes, HostTypeOK, ChannelsTypeOK, controller, adapter, channels
<1>4. CASE ConfigureHost
  <2>1. down' \in Seq(DownMessage)
    BY <1>4, ConfigurationType DEF ConfigureHost, ChannelsTypeOK
  <2> QED
    BY <1>4, <2>1, EngineTypesUnchanged, HostTypesUnchanged DEF ConfigureHost, ChannelsTypeOK
<1>5. CASE HostDies
  BY <1>5, DiesTypes, EngineTypesUnchanged DEF HostDies, ChannelsTypeOK
<1>6. CASE HostReceive
  BY <1>6, ReceiveTypes, EngineTypesUnchanged DEF HostReceive
<1>7. CASE HostConnect
  BY <1>7, ConnectTypes, EngineTypesUnchanged DEF HostConnect, ChannelsTypeOK
<1>8. CASE HostTick
  <2>1. UNCHANGED <<engine, crashes>>
    BY <1>8 DEF HostTick
  <2>2. CASE \E sustained \in SustainedResults, starts \in StartResults : Tick(sustained, starts)
    BY <2>1, <2>2, TickTypes, EngineTypesUnchanged
  <2>3. CASE TickThrows
    BY <2>1, <2>3, DiesTypes, EngineTypesUnchanged DEF TickThrows, ChannelsTypeOK
  <2> QED
    BY <1>8, <2>2, <2>3 DEF HostTick
<1>9. CASE HostSettle
  BY <1>9, SettleTypes, EngineTypesUnchanged DEF HostSettle
<1>10. CASE BotSpawn
  BY <1>10, SpawnTypes, EngineTypesUnchanged DEF BotSpawn
<1>11. CASE BotTelemetry
  BY <1>11, TelemetryTypes, EngineTypesUnchanged DEF BotTelemetry
<1>12. CASE BotLost
  BY <1>12, KickedTypes, ErrorTypes, EndTypes, EngineTypesUnchanged DEF BotLost
<1>13. CASE UNCHANGED vars
  BY <1>13, EngineTypesUnchanged, HostTypesUnchanged DEF vars, channels, ChannelsTypeOK
<1> QED
  BY <1>1, <1>2, <1>3, <1>4, <1>5, <1>6, <1>7, <1>8, <1>9, <1>10, <1>11, <1>12, <1>13
     DEF Next

LEMMA TypesInvariant == Spec => []Types
BY TypesInit, TypesNext, PTL DEF Spec

\* Every variable keeps its type, for every set of targets and every bound.
THEOREM TypeCorrect == Spec => []TypeOK
<1>1. Types => TypeOK
  BY DEF Types, HostTypes, TypeOK
<1> QED
  BY <1>1, TypesInvariant, PTL

-----------------------------------------------------------------------------
(* Feedback is of the session the engine believes in                        *)

\* Inductive because a bot without a session has no feedback to outlive one.
RealityInv == RealityOfThisSession /\ (remote = 0 => reality = NoReality)

LEMMA RealityApplied ==
  ASSUME RealityInv, ApplyEvent
  PROVE  RealityInv'
<1> DEFINE e == Head(up)
<1>1. CASE e.type = "reality"
  <2>1. ApplyReality(e)
    BY <1>1 DEF ApplyEvent
  <2>2. CASE remote # 0 /\ e.session = remote
    BY <2>1, <2>2 DEF ApplyReality, RealityInv, RealityOfThisSession
  <2>3. CASE ~(remote # 0 /\ e.session = remote)
    BY <2>1, <2>3 DEF ApplyReality, RealityInv, RealityOfThisSession
  <2> QED
    BY <2>2, <2>3
<1>2. CASE e.type # "reality"
  <2>1. ApplyObservation(e)
    BY <1>2 DEF ApplyEvent
  <2>2. CASE e.session = remote
    BY <2>1, <2>2
       DEF ApplyObservation, BeginsNewRemoteSession, RealityInv, RealityOfThisSession
  <2>3. CASE e.session # remote
    BY <2>1, <2>3
       DEF ApplyObservation, BeginsNewRemoteSession, RealityInv, RealityOfThisSession
  <2> QED
    BY <2>2, <2>3
<1> QED
  BY <1>1, <1>2

LEMMA RealityNext == RealityInv /\ [Next]_vars => RealityInv'
<1> SUFFICES ASSUME RealityInv, [Next]_vars PROVE RealityInv'
  OBVIOUS
<1>1. CASE EngineApply
  BY <1>1, RealityApplied DEF EngineApply
<1>2. CASE UNCHANGED <<remote, reality>>
  BY <1>2 DEF RealityInv, RealityOfThisSession
<1>3. EngineApply \/ UNCHANGED <<remote, reality>>
  BY DEF Next, vars, engine, EngineSelect, Select, StartHost, ConfigureHost, HostDies,
         HostReceive, HostConnect, HostTick, HostSettle, BotSpawn, BotTelemetry, BotLost
<1> QED
  BY <1>1, <1>2, <1>3

LEMMA RealityInvariant == Spec => []RealityInv
<1>1. Init => RealityInv
  BY DEF Init, EngineInit, RealityInv, RealityOfThisSession
<1> QED
  BY <1>1, RealityNext, PTL DEF Spec

\* NetworkApplySystem never leaves the selector feedback of another session,
\* however observations, statuses and realities of two sessions interleave.
THEOREM FeedbackOfThisSession == Spec => []RealityOfThisSession
<1>1. RealityInv => RealityOfThisSession
  BY DEF RealityInv
<1> QED
  BY <1>1, RealityInvariant, PTL

-----------------------------------------------------------------------------
(* A lost bot always has its reconnect pending                              *)

\* Inductive because the flag that suppresses a second timer is only up
\* while a first one is pending.
ReconnectInv == ReconnectPending /\ (retryScheduled => timers > 0)

LEMMA ScheduleReconnects ==
  ASSUME HostTypeOK, ReconnectInv, Schedule
  PROVE  timers' > 0
BY DEF Schedule, ReconnectInv, HostTypeOK

LEMMA ReconnectNext == Types /\ ReconnectInv /\ [Next]_vars => ReconnectInv'
<1> SUFFICES ASSUME Types, ReconnectInv, [Next]_vars PROVE ReconnectInv'
  OBVIOUS
<1> USE DEF ReconnectInv, ReconnectPending
<1>0. HostTypeOK
  BY DEF Types, HostTypes
<1>1. CASE UNCHANGED <<configured, bot, retryScheduled, timers>>
  BY <1>1
<1>2. CASE Dies
  BY <1>2 DEF Dies
<1>3. CASE HostReceive
  <2>1. UNCHANGED retryScheduled /\ UNCHANGED bot
    BY <1>3 DEF HostReceive, Receive, ApplyState, adapter
  <2>2. \/ timers' = timers /\ configured' = configured
        \/ configured /\ timers' = timers
        \/ timers' = timers + 1
    BY <1>3 DEF HostReceive, Receive, ApplyState
  <2> QED
    BY <1>0, <2>1, <2>2 DEF HostTypeOK
<1>4. CASE HostConnect
  <2>1. retryScheduled' = FALSE /\ bot' # 0
    BY <1>0, <1>4 DEF HostConnect, Connect, HostTypeOK, adapter
  <2> QED
    BY <2>1
<1>5. CASE BotSpawn
  <2>1. PICK b \in Bots : Spawn(b)
    BY <1>5 DEF BotSpawn
  <2>2. Dies \/ (retryScheduled' = FALSE /\ UNCHANGED <<configured, bot, timers>>)
    BY <2>1 DEF Spawn
  <2> QED
    BY <1>2, <2>2
<1>6. CASE BotLost
  <2>1. Schedule
    BY <1>6 DEF BotLost, Kicked, Error, End
  <2> QED
    BY <1>0, <2>1, ScheduleReconnects
<1>7. \/ UNCHANGED <<configured, bot, retryScheduled, timers>>
      \/ Dies \/ HostReceive \/ HostConnect \/ BotSpawn \/ BotLost
  BY DEF Next, vars, host, controller, adapter, EngineApply, EngineSelect, StartHost,
         ConfigureHost, HostDies, HostTick, Tick, TickThrows, HostSettle, Settle,
         BotTelemetry, Telemetry
<1> QED
  BY <1>1, <1>2, <1>3, <1>4, <1>5, <1>6, <1>7

\* The Controller's retry flag never strands a host without a bot: whatever
\* the order of spawns, kicks, errors and ends, a connect is pending.
THEOREM ReconnectNeverLost == Spec => []ReconnectPending
<1>1. Init => ReconnectInv
  BY DEF Init, HostInit, ReconnectInv, ReconnectPending
<1>2. ReconnectInv => ReconnectPending
  BY DEF ReconnectInv
<1> QED
  BY <1>1, <1>2, ReconnectNext, TypesInvariant, PTL DEF Spec

-----------------------------------------------------------------------------
(* The engine never falls back to an earlier session                        *)

\* Inductive because what is in flight from the host is in the order of its
\* sessions, none of it older than the engine's or newer than the newest, and
\* because a host without a session has no bot to speak for.
Ordered ==
  /\ remote =< sessions
  /\ \A i \in 1 .. Len(up) : remote =< up[i].session /\ up[i].session =< sessions
  /\ \A i, j \in 1 .. Len(up) : i =< j => up[i].session =< up[j].session

Speaking == session = 0 => bot = 0 /\ \A b \in Bots : life[b] = "absent"

SessionInv == Ordered /\ Speaking /\ session \in {0, sessions}

LEMMA UpSessions ==
  ASSUME Types
  PROVE  /\ remote \in Nat /\ sessions \in Nat /\ Len(up) \in Nat
         /\ \A i \in 1 .. Len(up) : up[i] \in UpMessage /\ up[i].session \in Nat
<1>1. \A m \in UpMessage : m.session \in Nat
  BY DEF UpMessage
<1> QED
  BY <1>1 DEF Types, EngineTypeOK, HostTypes, HostTypeOK, ChannelsTypeOK

\* What the host emits in its newest session keeps the messages in order.
LEMMA EmitOrdered ==
  ASSUME Types, Ordered, UNCHANGED remote,
         NEW messages \in Seq(UpMessage), Emit(messages),
         sessions' \in Nat, sessions =< sessions',
         \A k \in 1 .. Len(messages) : messages[k].session = sessions'
  PROVE  Ordered'
<1>1. /\ Len(up') = Len(up) + Len(messages)
      /\ \A i \in 1 .. Len(up') :
           up'[i] = IF i =< Len(up) THEN up[i] ELSE messages[i - Len(up)]
  BY UpSessions DEF Emit, Types, ChannelsTypeOK
<1>2. \A i \in 1 .. Len(up') :
        IF i =< Len(up) THEN up'[i] = up[i] ELSE up'[i].session = sessions'
  <2> TAKE i \in 1 .. Len(up')
  <2>1. CASE i =< Len(up)
    BY <1>1, <2>1
  <2>2. CASE ~(i =< Len(up))
    <3>1. i - Len(up) \in 1 .. Len(messages)
      BY <1>1, <2>2, UpSessions
    <3> QED
      BY <1>1, <2>2, <3>1
  <2> QED
    BY <2>1, <2>2
<1>3. remote' =< sessions'
  BY UpSessions DEF Ordered
<1>4. \A i \in 1 .. Len(up') : remote' =< up'[i].session /\ up'[i].session =< sessions'
  BY <1>1, <1>2, <1>3, UpSessions DEF Ordered
<1>5. \A i, j \in 1 .. Len(up') : i =< j => up'[i].session =< up'[j].session
  BY <1>1, <1>2, UpSessions DEF Ordered
<1> QED
  BY <1>3, <1>4, <1>5 DEF Ordered

\* Reading the oldest message keeps the order and moves the engine forward.
LEMMA ApplyOrdered ==
  ASSUME Types, Ordered, ApplyEvent, UNCHANGED sessions
  PROVE  Ordered' /\ remote' >= remote
<1> DEFINE e == Head(up)
<1>1. /\ 1 \in 1 .. Len(up) /\ e = up[1]
      /\ Len(up') = Len(up) - 1
      /\ \A i \in 1 .. Len(up') : up'[i] = up[i + 1] /\ i + 1 \in 1 .. Len(up)
  BY UpSessions DEF ApplyEvent, Types, ChannelsTypeOK
<1>2. remote' = remote \/ remote' = e.session
  BY DEF ApplyEvent, ApplyReality, ApplyObservation
<1>3. remote =< e.session /\ e.session =< sessions
  BY <1>1 DEF Ordered
<1>4. remote' >= remote /\ remote' =< sessions'
  BY <1>2, <1>3, <1>1, UpSessions DEF Ordered
<1>5. \A i \in 1 .. Len(up') : e.session =< up'[i].session
  BY <1>1, UpSessions DEF Ordered
<1>6. \A i \in 1 .. Len(up') : remote' =< up'[i].session /\ up'[i].session =< sessions'
  <2> TAKE i \in 1 .. Len(up')
  <2>1. up'[i] = up[i + 1] /\ i + 1 \in 1 .. Len(up)
    BY <1>1
  <2>2. remote =< up'[i].session /\ up'[i].session =< sessions
    BY <2>1 DEF Ordered
  <2> QED
    BY <1>2, <1>5, <2>2
<1>7. \A i, j \in 1 .. Len(up') : i =< j => up'[i].session =< up'[j].session
  <2> TAKE i, j \in 1 .. Len(up')
  <2> HAVE i =< j
  <2>1. /\ up'[i] = up[i + 1] /\ i + 1 \in 1 .. Len(up)
        /\ up'[j] = up[j + 1] /\ j + 1 \in 1 .. Len(up)
    BY <1>1
  <2>2. i + 1 =< j + 1
    BY UpSessions
  <2> QED
    BY <2>1, <2>2 DEF Ordered
<1> QED
  BY <1>4, <1>6, <1>7 DEF Ordered

LEMMA DiesOrdered ==
  ASSUME Ordered, Dies, UNCHANGED <<up, remote>>
  PROVE  SessionInv'
BY DEF Dies, Ordered, Speaking, SessionInv

LEMMA SpeaksInNewest ==
  ASSUME Types, SessionInv, NEW b \in Bots, bot # 0 \/ life[b] # "absent"
  PROVE  session = sessions
BY DEF SessionInv, Speaking

LEMMA StatusSession ==
  ASSUME NEW s, NEW n, NEW status
  PROVE  StatusMsg(s, n, status).session = s /\ ObservationMsg(s, n).session = s
BY DEF StatusMsg, ObservationMsg

LEMMA SpawnOrdered ==
  ASSUME Types, SessionInv, NEW b \in Bots, Spawn(b), UNCHANGED remote
  PROVE  SessionInv'
<1> DEFINE s1 == StatusMsg(session, obsSeq + 1, "connected")
           o2 == ObservationMsg(session, obsSeq + 2)
           o3 == ObservationMsg(session, obsSeq + 3)
<1>1. session = sessions
  BY SpeaksInNewest DEF Spawn
<1>2. s1 \in UpMessage /\ o2 \in UpMessage /\ o3 \in UpMessage
  BY StatusType, ObservationType DEF Types, HostTypes, HostTypeOK, Status
<1>3. <<s1, o2>> \in Seq(UpMessage) /\ <<s1, o2, o3>> \in Seq(UpMessage)
  BY <1>2, SeqOf
<1>4. s1.session = session /\ o2.session = session /\ o3.session = session
  BY StatusSession
<1>5. sessions' = sessions /\ sessions' \in Nat
  BY UpSessions DEF Spawn, Dies
<1>6. CASE bot = 0
  <2>1. Emit(<<s1, o2>>) /\ Dies
    BY <1>6 DEF Spawn
  <2>2. \A k \in 1 .. Len(<<s1, o2>>) : <<s1, o2>>[k].session = sessions'
    BY <1>1, <1>4, <1>5
  <2>3. Ordered'
    <3> DEFINE ms == <<s1, o2>>
    <3>1. ms \in Seq(UpMessage) /\ Emit(ms) /\ \A k \in 1 .. Len(ms) : ms[k].session = sessions'
      BY <1>3, <1>5, <2>1, <2>2
    <3>2. sessions' \in Nat /\ sessions =< sessions' /\ Ordered
      BY <1>5, UpSessions DEF SessionInv
    <3> HIDE DEF ms
    <3> QED
      BY <3>1, <3>2, EmitOrdered
  <2> QED
    BY <2>1, <2>3 DEF Dies, Speaking, SessionInv
<1>7. CASE bot # 0
  <2>1. Emit(<<s1, o2, o3>>) /\ UNCHANGED <<session, bot>>
    BY <1>7 DEF Spawn
  <2>2. \A k \in 1 .. Len(<<s1, o2, o3>>) : <<s1, o2, o3>>[k].session = sessions'
    BY <1>1, <1>4, <1>5
  <2>3. Ordered'
    <3> DEFINE ms == <<s1, o2, o3>>
    <3>1. ms \in Seq(UpMessage) /\ Emit(ms) /\ \A k \in 1 .. Len(ms) : ms[k].session = sessions'
      BY <1>3, <1>5, <2>1, <2>2
    <3>2. sessions' \in Nat /\ sessions =< sessions' /\ Ordered
      BY <1>5, UpSessions DEF SessionInv
    <3> HIDE DEF ms
    <3> QED
      BY <3>1, <3>2, EmitOrdered
  <2> QED
    BY <1>5, <1>7, <2>1, <2>3 DEF Speaking, SessionInv
<1> QED
  BY <1>6, <1>7

LEMMA ConnectOrdered ==
  ASSUME Types, SessionInv, Connect, UNCHANGED remote
  PROVE  SessionInv'
<1>1. session' = sessions' /\ sessions' = sessions + 1 /\ sessions' \in Nat
  BY UpSessions DEF Connect
<1>2. Speaking' /\ session' \in {0, sessions'}
  BY <1>1, UpSessions DEF Speaking
<1>3. CASE bot # 0
  <2>1. UNCHANGED up
    BY <1>3 DEF Connect
  <2> QED
    BY <1>1, <1>2, <2>1, UpSessions DEF SessionInv, Ordered
<1>4. CASE bot = 0
  <2> DEFINE m == StatusMsg(session', 1, "connecting")
  <2>1. Emit(<<m>>)
    BY <1>4 DEF Connect
  <2>2. m \in UpMessage /\ m.session = sessions'
    BY <1>1, StatusType, StatusSession DEF Status
  <2>3. <<m>> \in Seq(UpMessage)
    BY <2>2, SeqOf
  <2>4. \A k \in 1 .. Len(<<m>>) : <<m>>[k].session = sessions'
    BY <2>2
  <2>5. Ordered'
    <3> DEFINE ms == <<m>>
    <3>1. ms \in Seq(UpMessage) /\ Emit(ms) /\ \A k \in 1 .. Len(ms) : ms[k].session = sessions'
      BY <1>1, <2>1, <2>3, <2>4
    <3>2. sessions' \in Nat /\ sessions =< sessions' /\ Ordered
      BY <1>1, UpSessions DEF SessionInv
    <3> HIDE DEF ms
    <3> QED
      BY <3>1, <3>2, EmitOrdered
  <2> QED
    BY <1>2, <2>5 DEF SessionInv
<1> QED
  BY <1>3, <1>4

LEMMA OneMessageOrdered ==
  ASSUME Types, SessionInv, session = sessions, UNCHANGED <<remote, sessions>>,
         NEW m \in UpMessage, m.session = session, Emit(<<m>>)
  PROVE  Ordered'
<1> DEFINE ms == <<m>>
<1>1. ms \in Seq(UpMessage) /\ Emit(ms) /\ \A k \in 1 .. Len(ms) : ms[k].session = sessions'
  BY SeqOf
<1>2. sessions' \in Nat /\ sessions =< sessions' /\ Ordered
  BY UpSessions DEF SessionInv
<1> HIDE DEF ms
<1> QED
  BY <1>1, <1>2, EmitOrdered

\* An event of a bot that is alive keeps the host speaking for a session.
LEMMA LostOrdered ==
  ASSUME Types, SessionInv, NEW b \in Bots, Kicked(b) \/ Error(b) \/ End(b), UNCHANGED remote
  PROVE  SessionInv'
<1>1. session = sessions /\ session # 0
  <2>1. life[b] # "absent"
    BY DEF Kicked, Error, End
  <2> QED
    BY <2>1, SpeaksInNewest DEF SessionInv, Speaking
<1>2. UNCHANGED <<session, sessions>>
  BY DEF Kicked, Error, End
<1>3. obsSeq \in Nat /\ session \in Nat
  BY DEF Types, HostTypes, HostTypeOK
<1>4. Ordered'
  <2>1. CASE Kicked(b)
    <3> DEFINE failed == StatusMsg(session, obsSeq + 1, "failed")
               disconnected == StatusMsg(session, obsSeq + 2, "disconnected")
               ms == <<failed, disconnected>>
    <3>1. failed \in UpMessage /\ disconnected \in UpMessage
      BY <1>3, StatusType DEF Status
    <3>2. failed.session = session /\ disconnected.session = session
      BY StatusSession
    <3>3. ms \in Seq(UpMessage) /\ \A k \in 1 .. Len(ms) : ms[k].session = sessions'
      BY <1>1, <1>2, <3>1, <3>2, SeqOf
    <3>4. Emit(ms)
      BY <2>1 DEF Kicked
    <3>5. sessions' \in Nat /\ sessions =< sessions' /\ Ordered
      BY <1>2, UpSessions DEF SessionInv
    <3> HIDE DEF ms
    <3> QED
      BY <3>3, <3>4, <3>5, EmitOrdered
  <2>2. CASE Error(b) \/ End(b)
    <3>1. PICK status \in Status : Emit(<<StatusMsg(session, obsSeq + 1, status)>>)
      BY <2>2 DEF Error, End, Observes, Status
    <3>2. StatusMsg(session, obsSeq + 1, status) \in UpMessage
      BY <1>3, StatusType
    <3> QED
      BY <1>1, <1>2, <3>1, <3>2, StatusSession, OneMessageOrdered
  <2> QED
    BY <2>1, <2>2
<1> QED
  BY <1>1, <1>2, <1>4 DEF SessionInv, Speaking

LEMMA TelemetryOrdered ==
  ASSUME Types, SessionInv, NEW b \in Bots, Telemetry(b), UNCHANGED remote
  PROVE  SessionInv'
<1>1. session = sessions
  BY SpeaksInNewest DEF Telemetry
<1>2. UNCHANGED <<session, sessions, bot, life>> /\ Emit(<<ObservationMsg(session, obsSeq')>>)
  BY DEF Telemetry, adapter
<1>3. ObservationMsg(session, obsSeq') \in UpMessage
  BY ObservationType DEF Telemetry, Observes, Types, HostTypes, HostTypeOK
<1>4. Ordered'
  BY <1>1, <1>2, <1>3, StatusSession, OneMessageOrdered
<1> QED
  BY <1>2, <1>4 DEF SessionInv, Speaking

LEMMA TickOrdered ==
  ASSUME Types, SessionInv, UNCHANGED remote,
         NEW sustained \in SustainedResults, NEW starts \in StartResults,
         Tick(sustained, starts)
  PROVE  SessionInv'
<1>1. session = sessions
  BY DEF Tick, SessionInv, Speaking
<1>2. UNCHANGED <<session, sessions, bot, life>>
  BY DEF Tick
<1>3. PICK outcomes : Emit(<<RealityMsg(session, outcomes)>>)
  BY DEF Tick
<1>4. up' \in Seq(UpMessage)
  BY TickTypes DEF Types, ChannelsTypeOK
<1>5. RealityMsg(session, outcomes) \in UpMessage
  <2>1. /\ Len(up) + 1 \in 1 .. Len(up')
        /\ up'[Len(up) + 1] = RealityMsg(session, outcomes)
    BY <1>3 DEF Emit, Types, ChannelsTypeOK
  <2> QED
    BY <1>4, <2>1
<1>6. RealityMsg(session, outcomes).session = session
  BY DEF RealityMsg
<1>7. Ordered'
  BY <1>1, <1>2, <1>3, <1>5, <1>6, OneMessageOrdered
<1> QED
  BY <1>2, <1>7 DEF SessionInv, Speaking

LEMMA SessionQuiet ==
  ASSUME SessionInv, UNCHANGED <<remote, up, session, sessions, bot, life>>
  PROVE  SessionInv'
BY DEF SessionInv, Ordered, Speaking

LEMMA SessionNext ==
  ASSUME Types, SessionInv, [Next]_vars
  PROVE  SessionInv' /\ remote' >= remote
<1>1. CASE EngineApply
  <2>1. UNCHANGED <<session, sessions, bot, life>> /\ ApplyEvent
    BY <1>1 DEF EngineApply, host, controller, adapter
  <2> QED
    BY <2>1, ApplyOrdered DEF SessionInv, Speaking
<1>2. CASE UNCHANGED remote
  <2>1. SessionInv'
    <3>1. CASE UNCHANGED <<up, session, sessions, bot, life>>
      BY <1>2, <3>1, SessionQuiet
    <3>2. CASE Dies /\ UNCHANGED up
      BY <1>2, <3>2, DiesOrdered DEF SessionInv
    <3>3. CASE HostConnect
      BY <1>2, <3>3, ConnectOrdered DEF HostConnect
    <3>4. CASE BotSpawn
      BY <1>2, <3>4, SpawnOrdered DEF BotSpawn
    <3>5. CASE BotTelemetry
      BY <1>2, <3>5, TelemetryOrdered DEF BotTelemetry
    <3>6. CASE BotLost
      BY <1>2, <3>6, LostOrdered DEF BotLost
    <3>7. CASE \E sustained \in SustainedResults, starts \in StartResults : Tick(sustained, starts)
      BY <1>2, <3>7, TickOrdered
    <3>8. CASE EngineApply
      BY <1>1, <3>8
    <3>9. CASE EngineSelect \/ ConfigureHost
      BY <1>2, <3>9, SessionQuiet DEF EngineSelect, ConfigureHost, host, controller, adapter
    <3>10. CASE HostReceive
      BY <1>2, <3>10, SessionQuiet DEF HostReceive, Receive, ApplyState, adapter
    <3>11. CASE StartHost \/ UNCHANGED vars
      BY <1>2, <3>11, SessionQuiet DEF StartHost, vars, host, controller, adapter, channels
    <3>12. CASE HostSettle
      BY <1>2, <3>12, SessionQuiet DEF HostSettle, Settle, channels
    <3> QED
      BY <3>1, <3>2, <3>3, <3>4, <3>5, <3>6, <3>7, <3>8, <3>9, <3>10, <3>11, <3>12
         DEF Next, HostDies, HostTick, TickThrows
  <2>2. remote' >= remote
    BY <1>2, UpSessions
  <2> QED
    BY <2>1, <2>2
<1>3. EngineApply \/ UNCHANGED remote
  BY DEF Next, vars, engine, EngineSelect, Select, StartHost, ConfigureHost, HostDies,
         HostReceive, HostConnect, HostTick, HostSettle, BotSpawn, BotTelemetry, BotLost
<1> QED
  BY <1>1, <1>2, <1>3

LEMMA SessionInvariant == Spec => []SessionInv
<1>1. Init => SessionInv
  <2> SUFFICES ASSUME Init PROVE SessionInv
    OBVIOUS
  <2>1. remote = 0 /\ sessions = 0 /\ session = 0 /\ up = <<>>
    BY DEF Init, EngineInit, HostInit
  <2>2. Speaking
    BY DEF Init, HostInit, Speaking
  <2> QED
    BY <2>1, <2>2 DEF SessionInv, Ordered
<1>2. Types /\ SessionInv /\ [Next]_vars => SessionInv'
  BY SessionNext
<1> QED
  BY <1>1, <1>2, TypesInvariant, PTL DEF Spec

\* Whatever late messages of a dying host or an abandoned session are still
\* in flight, the engine never returns to a session it has left.
THEOREM SessionsMoveForward == Spec => SessionNeverReturns
<1>1. Types /\ SessionInv /\ [Next]_vars => [remote' >= remote]_vars
  BY SessionNext
<1> QED
  BY <1>1, SessionInvariant, TypesInvariant, PTL DEF Spec, SessionNeverReturns
=============================================================================
