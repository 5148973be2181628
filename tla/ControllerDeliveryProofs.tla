---------------------- MODULE ControllerDeliveryProofs ----------------------
(***************************************************************************)
(* Proofs about what ControllerLink delivers: that the deltas add up, that *)
(* the answer to a one-shot is not lost or given twice, and that within    *)
(* the first session one-shots are delivered one at a time and every       *)
(* outcome is of the delta it names.                                       *)
(*                                                                         *)
(* A session begins Fresh, known to the host only, and is in step once the *)
(* engine has heard of it.  No other step leads into InStep.               *)
(***************************************************************************)
EXTENDS ControllerLinkProofs

-----------------------------------------------------------------------------
(* What holds in every state *)

\* A host with a session is configured, and nothing connects one that is not
\* or that is down.
ConfiguredInv ==
  /\ configured => hostUp
  /\ session # 0 => configured
  /\ timers > 0 => configured

\* Without a session the host has nothing to report.
QuietInv == session = 0 => jobs = {} /\ buffer = {}

\* What the selector desires is what it has sent last; it is validated, and a
\* one-shot is all there is in it.
SentInv ==
  /\ desired = lastSent
  /\ Validate(desired) = desired
  /\ \A k \in OneShot : desired[k] # NoTarget => desired = Only(k, desired[k])
  /\ phase = "ready" => remote # 0

StateMsgs == {i \in 1 .. Len(down) : down[i].type = "state"}

\* Deltas name a session the engine has known, and a sequence it has used.
TagsInv ==
  \A i \in StateMsgs :
    /\ 1 =< down[i].tag[1] /\ down[i].tag[1] =< remote
    /\ 1 =< down[i].tag[2]
    /\ down[i].tag[1] = remote => down[i].tag[2] =< ctlSeq

\* The host speaks in a session, and numbers what it says from 1.
UpInv ==
  \A i \in 1 .. Len(up) :
    /\ 1 =< up[i].session
    /\ up[i].type # "reality" => 1 =< up[i].seq

\* A session the engine has not heard of yet, on an adapter that was reset.
Fresh == session > remote /\ ~tainted

FreshInv ==
  Fresh => /\ state = EmptyState
           /\ tags = [f \in Field |-> NoTag]
           /\ reported = {}
           /\ buffer = {}

-----------------------------------------------------------------------------
(* What holds in step *)

\* The sequences the adapter has are of this session, and used.
SeqsInv ==
  InStep =>
    /\ \A f \in Field : tags[f] = NoTag \/ (tags[f][1] = session /\ tags[f][2] \in 1 .. ctlSeq)
    /\ \A r \in reported : r[2] =< ctlSeq

IsLast(i, f) == i \in Writes(f) /\ \A j \in Writes(f) : j =< i

\* AdapterAgrees, with the last write of a field named.
Agrees(f) ==
  \/ Writes(f) = {} /\ (state[f] = lastSent[f] \/ (f \in OneShot /\ state[f] = NoTarget))
  \/ \E i \in Writes(f) : IsLast(i, f) /\ down[i].delta[f] = lastSent[f]

AgreesInv == InStep => \A f \in Field : Agrees(f)

-----------------------------------------------------------------------------
(* Answers *)

KeyOf(o) == <<o.kind, o.seq>>

Keys(outcomes) == {KeyOf(o) : o \in outcomes}

Realities == {i \in 1 .. Len(up) : up[i].type = "reality"}

\* Whatever the host has said of this session it remembers having reported.
ReportedInv ==
  /\ Keys(buffer) \subseteq reported
  /\ \A i \in Realities : up[i].session = session => Keys(up[i].outcomes) \subseteq reported
  /\ reality.session = session => Keys(reality.outcomes) \subseteq reported

\* One outcome for a key.
Single(outcomes) == \A o, p \in outcomes : KeyOf(o) = KeyOf(p) => o = p

Apart(outcomes, others) == Keys(outcomes) \cap Keys(others) = {}

AnswersInv ==
  /\ Single(buffer) /\ Single(reality.outcomes)
  /\ \A i \in Realities : Single(up[i].outcomes)
  /\ \A i, j \in Realities :
       i # j /\ up[i].session = up[j].session => Apart(up[i].outcomes, up[j].outcomes)
  /\ \A i \in Realities :
       /\ up[i].session = session => Apart(up[i].outcomes, buffer)
       /\ up[i].session = reality.session => Apart(up[i].outcomes, reality.outcomes)
  /\ reality.session = session => Apart(reality.outcomes, buffer)

\* An outcome with this key is on its way to the selector.
Carried(key) ==
  \/ key \in Keys(buffer)
  \/ key \in Keys(reality.outcomes)
  \/ \E i \in Realities : up[i].session = session /\ key \in Keys(up[i].outcomes)

\* Where the one-shot of kind k and sequence c is, until it is reported.
Held(k, c) ==
  \/ \E i \in Writes(k) : /\ IsLast(i, k) /\ down[i].tag[2] = c
                          /\ down[i].delta[k] # NoTarget
  \/ Writes(k) = {} /\ tags[k][2] = c /\ state[k] # NoTarget
  \/ Writes(k) = {} /\ tags[k][2] = c /\ \E j \in jobs : j.kind = k /\ j.tag = tags[k]

FlightInv ==
  \A k \in OneShot, c \in Nat :
    InStep /\ inFlight.action = k /\ inFlight.corr = c /\ ~outcomeLost =>
      /\ c \in 1 .. ctlSeq
      /\ <<k, c>> \in reported => Carried(<<k, c>>)
      /\ lastSent[k] = NoTarget \/ <<k, c>> \in reported \/ Held(k, c)

-----------------------------------------------------------------------------
(* The first session *)

\* The deltas on their way that ask for a one-shot.
Asks == {i \in StateMsgs : \E k \in OneShot \cap DOMAIN down[i].delta : down[i].delta[k] # NoTarget}

Running == {j \in jobs : j.kind \in OneShot}

\* The adapter of the first session holds nothing of another.
FirstInv == sessions =< 1 /\ session # 0 => ~tainted

FlightKey == <<inFlight.action, inFlight.corr>>

\* Every trace of a one-shot is of the one in flight.
FlightOnly ==
  /\ \A i \in Asks : /\ down[i].tag = <<session, inFlight.corr>>
                     /\ \A k \in OneShot \cap DOMAIN down[i].delta :
                          down[i].delta[k] # NoTarget => k = inFlight.action
  /\ \A k \in Due : k = inFlight.action /\ tags[k] = <<session, inFlight.corr>>
  /\ \A j \in Running : j.kind = inFlight.action /\ j.tag = <<session, inFlight.corr>>

\* It is in one place, and in none once it has been reported.
OnePlace ==
  /\ \A i, j \in Asks : i = j
  /\ \A i, j \in Running : i = j
  /\ Asks # {} => Due = {} /\ Running = {}
  /\ Due # {} => Running = {}
  /\ FlightKey \in reported => Asks = {} /\ Due = {} /\ Running = {}

NoOneShot == Asks = {} /\ Due = {} /\ Running = {}

OneAtATime ==
  /\ inFlight.action = "none" => NoOneShot
  /\ FlightOnly
  /\ OnePlace
  /\ \A j \in Running : tags[j.kind] \in {NoTag, j.tag}

OneAtATimeInv ==
  sessions =< 1 => (Fresh => Running = {}) /\ (InStep => OneAtATime)

GenuineInv == sessions =< 1 => OutcomesGenuine

DInv ==
  /\ ConfiguredInv /\ QuietInv /\ SentInv /\ TagsInv /\ UpInv
  /\ FreshInv /\ SeqsInv /\ AgreesInv
  /\ ReportedInv /\ AnswersInv /\ FlightInv
  /\ FirstInv /\ OneAtATimeInv /\ GenuineInv

-----------------------------------------------------------------------------
(* What a step does, as far as the invariant can tell *)

\* The host writes nothing, or observations and statuses of its newest session.
Chats ==
  /\ Len(up) =< Len(up')
  /\ \A i \in 1 .. Len(up) : up'[i] = up[i]
  /\ \A i \in 1 .. Len(up') : Len(up) < i =>
       up'[i].type # "reality" /\ up'[i].session = sessions' /\ 1 =< sessions' /\ 1 =< up'[i].seq

LEMMA Silence ==
  ASSUME ChannelsTypeOK, UNCHANGED up
  PROVE  Chats
<1>1. Len(up) \in Nat /\ Len(up') = Len(up)
  BY DEF ChannelsTypeOK
<1>. QED  BY <1>1 DEF Chats

LEMMA Chatting ==
  ASSUME ChannelsTypeOK, NEW ms \in Seq(UpMessage), Emit(ms), sessions' = sessions, 1 =< sessions,
         \A k \in 1 .. Len(ms) : \E n \in Nat : \/ \E st \in Status : ms[k] = StatusMsg(sessions, n + 1, st)
                                               \/ ms[k] = ObservationMsg(sessions, n + 1)
  PROVE  Chats
<1>1. /\ Len(up) \in Nat /\ Len(ms) \in Nat /\ Len(up') = Len(up) + Len(ms)
      /\ \A i \in 1 .. Len(up) : up'[i] = up[i]
      /\ \A i \in 1 .. Len(up') : Len(up) < i => /\ up'[i] = ms[i - Len(up)]
                                                 /\ i - Len(up) \in 1 .. Len(ms)
  BY DEF Emit, ChannelsTypeOK
<1>2. ASSUME NEW k \in 1 .. Len(ms)
      PROVE  ms[k].type # "reality" /\ ms[k].session = sessions /\ 1 =< ms[k].seq
  <2>1. PICK n \in Nat : \/ \E st \in Status : ms[k] = StatusMsg(sessions, n + 1, st)
                         \/ ms[k] = ObservationMsg(sessions, n + 1)
    OBVIOUS
  <2>2. \A st \in Status : /\ StatusMsg(sessions, n + 1, st).type = "status"
                          /\ StatusMsg(sessions, n + 1, st).session = sessions
                          /\ StatusMsg(sessions, n + 1, st).seq = n + 1
    BY DEF StatusMsg
  <2>3. /\ ObservationMsg(sessions, n + 1).type = "observation"
        /\ ObservationMsg(sessions, n + 1).session = sessions
        /\ ObservationMsg(sessions, n + 1).seq = n + 1
    BY DEF ObservationMsg
  <2>. QED  BY <2>1, <2>2, <2>3
<1>. QED  BY <1>1, <1>2 DEF Chats

\* A bot that has not ended speaks in the newest session.
LEMMA Spoken ==
  ASSUME Types, SessionInv, NEW b \in Bots, bot # 0 \/ life[b] # "absent"
  PROVE  /\ session = sessions /\ sessions \in Nat /\ 1 =< sessions
         /\ obsSeq \in Nat /\ obsSeq + 1 \in Nat /\ obsSeq + 2 \in Nat
<1>1. session = sessions /\ session # 0
  BY SpeaksInNewest DEF SessionInv, Speaking
<1>. QED  BY <1>1 DEF Types, HostTypes, HostTypeOK

\* The process ends, whatever its last words were.
Death == Dies /\ Chats /\ UNCHANGED <<engine, sessions>>

\* A step that only talks, or does nothing the invariant is about.
Chat ==
  /\ Chats
  /\ UNCHANGED <<engine, down, configured, session, sessions, buffer, state, tags, reported,
                 jobs, tainted>>
  /\ timers' > 0 => timers > 0 \/ session # 0
  /\ hostUp => hostUp'

LEMMA SpawnShape ==
  ASSUME Types, SessionInv, NEW b \in Bots, Spawn(b), UNCHANGED engine
  PROVE  Death \/ Chat
<1>. DEFINE s1 == StatusMsg(session, obsSeq + 1, "connected")
            o2 == ObservationMsg(session, obsSeq + 2)
            o3 == ObservationMsg(session, obsSeq + 3)
<1>1. session = sessions /\ sessions' = sessions /\ 1 =< sessions /\ obsSeq \in Nat
  BY Spoken DEF Spawn, Dies
<1>2. /\ s1 = StatusMsg(sessions, obsSeq + 1, "connected") /\ "connected" \in Status
      /\ o2 = ObservationMsg(sessions, (obsSeq + 1) + 1)
      /\ o3 = ObservationMsg(sessions, (obsSeq + 2) + 1)
      /\ obsSeq + 1 \in Nat /\ obsSeq + 2 \in Nat
  BY <1>1 DEF Status
<1>3. s1 \in UpMessage /\ o2 \in UpMessage /\ o3 \in UpMessage
  BY <1>1, <1>2, StatusType, ObservationType DEF Types, HostTypes, HostTypeOK
<1>4. <<s1, o2>> \in Seq(UpMessage) /\ <<s1, o2, o3>> \in Seq(UpMessage)
  BY <1>3, SeqOf
<1>5. CASE bot = 0
  <2>. DEFINE ms == <<s1, o2>>
  <2>1. Emit(ms) /\ Dies /\ ms \in Seq(UpMessage)
    BY <1>4, <1>5 DEF Spawn
  <2>2. \A k \in 1 .. Len(ms) : ms[k] = s1 \/ ms[k] = o2
    OBVIOUS
  <2>. HIDE DEF ms, s1, o2
  <2>3. Chats
    BY <1>1, <1>2, <2>1, <2>2, Chatting DEF Types
  <2>. QED  BY <1>1, <2>1, <2>3 DEF Death
<1>6. CASE bot # 0
  <2>. DEFINE ms == <<s1, o2, o3>>
  <2>1. Emit(ms) /\ ms \in Seq(UpMessage)
    BY <1>4, <1>6 DEF Spawn
  <2>2. \A k \in 1 .. Len(ms) : ms[k] = s1 \/ ms[k] = o2 \/ ms[k] = o3
    OBVIOUS
  <2>. HIDE DEF ms, s1, o2, o3
  <2>3. Chats
    BY <1>1, <1>2, <2>1, <2>2, Chatting DEF Types
  <2>. QED  BY <1>6, <2>3 DEF Spawn, Chat
<1>. QED  BY <1>5, <1>6

LEMMA TelemetryShape ==
  ASSUME Types, SessionInv, NEW b \in Bots, Telemetry(b), UNCHANGED engine
  PROVE  Chat
<1>. DEFINE m == ObservationMsg(session, obsSeq + 1)
            ms == <<m>>
<1>1. session = sessions /\ sessions' = sessions /\ 1 =< sessions /\ obsSeq \in Nat
  BY Spoken DEF Telemetry
<1>2. Emit(ms) /\ ms \in Seq(UpMessage) /\ Len(ms) = 1 /\ ms[1] = m
  <2>1. m \in UpMessage
    BY <1>1, ObservationType DEF Types, HostTypes, HostTypeOK
  <2>. QED  BY <1>1, <2>1, SeqOf DEF Telemetry, Observes
<1>3. m = ObservationMsg(sessions, obsSeq + 1)
  BY <1>1
<1>. HIDE DEF ms, m
<1>4. Chats
  BY <1>1, <1>2, <1>3, Chatting DEF Types
<1>. QED  BY <1>4 DEF Telemetry, Chat, adapter

LEMMA LostShape ==
  ASSUME Types, SessionInv, NEW b \in Bots, Kicked(b) \/ Error(b) \/ End(b), UNCHANGED engine
  PROVE  Chat
<1>1. session = sessions /\ sessions' = sessions /\ 1 =< sessions /\ obsSeq \in Nat
  <2>1. life[b] # "absent"
    BY DEF Kicked, Error, End
  <2>. QED  BY <2>1, Spoken DEF Kicked, Error, End
<1>2. PICK n \in Nat, st \in Status, k \in Nat, sk \in Status :
        \/ Emit(<<StatusMsg(sessions, n + 1, st)>>)
        \/ Emit(<<StatusMsg(sessions, n + 1, st), StatusMsg(sessions, k + 1, sk)>>)
  <2>1. CASE Kicked(b)
    <3>1. /\ Emit(<<StatusMsg(sessions, obsSeq + 1, "failed"), StatusMsg(sessions, (obsSeq + 1) + 1, "disconnected")>>)
          /\ "failed" \in Status /\ "disconnected" \in Status /\ obsSeq + 1 \in Nat
      BY <1>1, <2>1 DEF Kicked, Status
    <3>. QED  BY <1>1, <3>1
  <2>2. CASE Error(b)
    <3>1. Emit(<<StatusMsg(sessions, obsSeq + 1, "failed")>>) /\ "failed" \in Status
      BY <1>1, <2>2 DEF Error, Status, Observes
    <3>. QED  BY <1>1, <3>1
  <2>3. CASE End(b)
    <3>1. Emit(<<StatusMsg(sessions, obsSeq + 1, "disconnected")>>) /\ "disconnected" \in Status
      BY <1>1, <2>3 DEF End, Status, Observes
    <3>. QED  BY <1>1, <3>1
  <2>. QED  BY <2>1, <2>2, <2>3
<1>. DEFINE m == StatusMsg(sessions, n + 1, st)
            w == StatusMsg(sessions, k + 1, sk)
<1>3. m \in UpMessage /\ w \in UpMessage
  BY <1>1, StatusType DEF Types, HostTypes, HostTypeOK
<1>4. PICK ms \in Seq(UpMessage) : Emit(ms) /\ \A i \in 1 .. Len(ms) : ms[i] = m \/ ms[i] = w
  <2>1. <<m>> \in Seq(UpMessage) /\ <<m, w>> \in Seq(UpMessage)
    BY <1>3, SeqOf
  <2>2. \A i \in 1 .. Len(<<m, w>>) : <<m, w>>[i] = m \/ <<m, w>>[i] = w
    OBVIOUS
  <2>3. \A i \in 1 .. Len(<<m>>) : <<m>>[i] = m
    OBVIOUS
  <2>. HIDE DEF m, w
  <2>. QED  BY <1>2, <2>1, <2>2, <2>3 DEF m, w
<1>5. Chats
  BY <1>1, <1>4, Chatting DEF Types
<1>6. timers' > 0 => timers > 0 \/ session # 0
  BY <1>1
<1>. QED  BY <1>5, <1>6 DEF Kicked, Error, End, Chat, adapter
-----------------------------------------------------------------------------
(* The steps of the engine                                                   *)

\* NetworkApply reads one message.
Reads == up # <<>> /\ up' = Tail(up) /\ UNCHANGED <<host, down>>

\* It is of no consequence, or only for the phase.
Skip ==
  /\ Reads
  /\ Head(up).type = "reality" => Head(up).session # remote
  /\ phase' = "ready" => remote # 0
  /\ UNCHANGED <<remote, reality, sync, outcomeLost>>

\* It replaces the feedback in the view.
View ==
  /\ Reads
  /\ Head(up).type = "reality" /\ Head(up).session = remote
  /\ reality' = [session |-> Head(up).session, outcomes |-> Head(up).outcomes]
  /\ outcomeLost' = (outcomeLost \/ Answers(reality.outcomes) # {})
  /\ UNCHANGED <<phase, remote, sync>>

\* It is the first the engine hears of a session.
Begin ==
  /\ Reads
  /\ Head(up).type # "reality" /\ remote' = Head(up).session /\ remote < remote'
  /\ reality' = NoReality
  /\ ResetSessionAI

LEMMA ApplyShape ==
  ASSUME Types, SessionInv, RealityInv, SentInv, UpInv, EngineApply
  PROVE  Skip \/ View \/ Begin
<1>. DEFINE e == Head(up)
<1>1. up # <<>> /\ 1 \in 1 .. Len(up) /\ e = up[1] /\ Reads
  BY UpSessions DEF EngineApply, ApplyEvent, Types, ChannelsTypeOK, Reads
<1>2. /\ remote \in Nat /\ e.session \in Nat /\ remote =< e.session /\ 1 =< e.session
      /\ e.type # "reality" => 1 =< e.seq
      /\ e.type # "reality" => e.seq \in Nat
  BY <1>1, UpSessions DEF SessionInv, Ordered, UpInv, UpMessage
<1>3. CASE e.type = "reality"
  <2>1. ApplyReality(e)
    BY <1>3 DEF EngineApply, ApplyEvent
  <2>. QED  BY <1>1, <1>2, <1>3, <2>1 DEF ApplyReality, SentInv, Skip, View
<1>4. CASE e.type # "reality" /\ e.session = remote
  <2>1. ApplyObservation(e)
    BY <1>4 DEF EngineApply, ApplyEvent
  <2>. QED  BY <1>1, <1>2, <1>4, <2>1 DEF ApplyObservation, BeginsNewRemoteSession, Skip
<1>5. CASE e.type # "reality" /\ e.session # remote
  <2>1. ApplyObservation(e)
    BY <1>5 DEF EngineApply, ApplyEvent
  <2>2. remote' = e.session /\ remote < remote' /\ ResetSessionAI
    BY <1>2, <1>5, <2>1 DEF ApplyObservation
  <2>3. reality' = NoReality
    BY <1>5, <2>1 DEF ApplyObservation, BeginsNewRemoteSession, RealityInv
  <2>. QED  BY <1>1, <1>5, <2>2, <2>3 DEF Begin
<1>. QED  BY <1>3, <1>4, <1>5

\* The selector has nothing to send.
Idle == inFlight' = InFlightAfterFeedback /\ UNCHANGED <<desired, lastSent, ctlSeq, down>>

Sends ==
  /\ ctlSeq' = ctlSeq + 1
  /\ lastSent' = desired' /\ desired' \in State /\ Validate(desired') = desired'
  /\ SendControllerState(StateMsg(Diff(lastSent, desired'), <<remote, ctlSeq'>>), hostUp)

\* It sends a state without a one-shot.
Clears ==
  /\ Sends
  /\ inFlight' = InFlightAfterFeedback
  /\ \A k \in OneShot : desired'[k] = NoTarget

\* It sends a one-shot, which nothing in flight precedes.
Orders(k, t) ==
  /\ Sends
  /\ InFlightAfterFeedback.action = "none"
  /\ inFlight' = [action |-> k, corr |-> ctlSeq', target |-> t]
  /\ desired' = Only(k, t) /\ lastSent[k] # t

Selects ==
  /\ UNCHANGED <<host, up, phase, remote, reality>>
  /\ remote # 0
  /\ outcomeLost' = (outcomeLost /\ ~Answered)
  /\ Idle \/ Clears \/ \E k \in OneShot, t \in Target : Orders(k, t)

LEMMA OnlyValid ==
  ASSUME NEW k \in Field, NEW t \in MaybeTarget
  PROVE  Validate(Only(k, t)) = Only(k, t)
<1>1. Only(k, t) = [f \in Field |-> IF f = k THEN t ELSE NoTarget]
  BY DEF Only, EmptyState
<1>2. \A f \in Field : Validate(Only(k, t))[f] = Only(k, t)[f]
  BY <1>1, RankType DEF Validate, Exclusive, Field
<1>. QED  BY <1>1, <1>2 DEF Validate

LEMMA OnlyAt ==
  ASSUME NEW k \in Field, NEW t \in MaybeTarget
  PROVE  Only(k, t)[k] = t /\ \A f \in Field : f # k => Only(k, t)[f] = NoTarget
BY DEF Only, EmptyState

\* A decision that is no one-shot asks for none.
LEMMA NoOneShotFor ==
  ASSUME NEW d \in Decisions, d.action \notin OneShot, NEW k \in OneShot
  PROVE  Validate(StateFor(d))[k] = NoTarget
<1>1. d.action \in Field \cup {"none"} /\ d.target \in MaybeTarget /\ d.move \in MaybeTarget
  BY EngineAssumption DEF Decision
<1>2. k \in Field /\ k # "goto" /\ k # d.action
  BY DEF OneShot, Field
<1>3. StateFor(d)[k] = NoTarget
  <2>1. CASE d.action = "none"
    BY <1>2, <2>1 DEF StateFor, EmptyState
  <2>2. CASE d.action = "goto"
    BY <1>1, <1>2, <2>2, OnlyAt DEF StateFor, Field
  <2>3. CASE d.action # "none" /\ d.action # "goto"
    <3>1. StateFor(d) = [Only(d.action, d.target) EXCEPT !["goto"] = d.move]
      BY <2>3 DEF StateFor
    <3>2. Only(d.action, d.target) \in State /\ Only(d.action, d.target)[k] = NoTarget
      BY <1>1, <1>2, <2>3, OnlyAt, OnlyType
    <3>. QED  BY <1>2, <3>1, <3>2 DEF State
  <2>. QED  BY <2>1, <2>2, <2>3
<1>. QED  BY <1>2, <1>3 DEF Validate

LEMMA SelectShape ==
  ASSUME Types, SentInv, EngineSelect
  PROVE  Selects
<1>1. PICK d \in Decisions : Select(d, hostUp)
  BY DEF EngineSelect
<1>2. d.action \in Field \cup {"none"} /\ d.target \in MaybeTarget
      /\ (d.action # "none" => d.target \in Target)
  BY EngineAssumption DEF Decision
<1>3. /\ UNCHANGED <<host, up, phase, remote, reality>> /\ remote # 0
      /\ outcomeLost' = (outcomeLost /\ ~Answered)
  BY <1>1 DEF EngineSelect, Select, SentInv
<1>4. desired' = Validate(DesiredFor(d)) /\ desired \in State /\ lastSent \in State
  BY <1>1 DEF Select, Types, EngineTypeOK
<1>5. DesiredFor(d) \in State
  BY <1>4, StateForType, EmptyStateType DEF DesiredFor
<1>6. desired' \in State /\ Validate(desired') = desired'
  BY <1>4, <1>5, ValidateType, ValidateIdempotent
<1>7. CASE desired' = lastSent
  <2>1. DOMAIN Diff(lastSent, desired') = {}
    BY <1>4, <1>6, <1>7, EmptyDiff
  <2>2. Idle
    BY <1>1, <1>7, <2>1 DEF Select, SentInv, Idle
  <2>. QED  BY <1>3, <2>2 DEF Selects
<1>8. CASE desired' # lastSent
  <2>1. DOMAIN Diff(lastSent, desired') # {}
    BY <1>4, <1>6, <1>8, EmptyDiff
  <2>2. /\ Sends
        /\ inFlight' = IF /\ d.action \in OneShot
                          /\ ~CompletedOneShot
                          /\ InFlightAfterFeedback.action = "none"
                       THEN [action |-> d.action, corr |-> ctlSeq', target |-> d.target]
                       ELSE InFlightAfterFeedback
    BY <1>1, <1>6, <2>1 DEF Select, Sends
  <2>3. CASE d.action \notin OneShot
    <3>1. DesiredFor(d) = StateFor(d) /\ inFlight' = InFlightAfterFeedback
      BY <2>2, <2>3 DEF DesiredFor
    <3>. QED  BY <1>3, <1>4, <2>2, <2>3, <3>1, NoOneShotFor DEF Clears, Selects
  <2>4. CASE d.action \in OneShot /\ CompletedOneShot
    <3>1. DesiredFor(d) = EmptyState /\ inFlight' = InFlightAfterFeedback
      BY <2>2, <2>4 DEF DesiredFor
    <3>2. \A k \in OneShot : desired'[k] = NoTarget
      BY <1>4, <3>1 DEF Validate, EmptyState, OneShot, Field
    <3>. QED  BY <1>3, <2>2, <3>1, <3>2 DEF Clears, Selects
  <2>5. CASE d.action \in OneShot /\ ~CompletedOneShot /\ InFlightAfterFeedback.action # "none"
    <3>1. DesiredFor(d) = desired
      BY <2>5 DEF DesiredFor
    <3>. QED  BY <1>4, <1>8, <3>1 DEF SentInv
  <2>6. CASE d.action \in OneShot /\ ~CompletedOneShot /\ InFlightAfterFeedback.action = "none"
    <3>1. DesiredFor(d) = Only(d.action, d.target)
      BY <2>6 DEF DesiredFor, StateFor, OneShot
    <3>2. d.action \in Field /\ d.target \in Target /\ d.target # NoTarget
      BY <1>2, <2>6, NoTargetAssumption DEF OneShot
    <3>3. desired' = Only(d.action, d.target)
      BY <1>2, <1>4, <3>1, <3>2, OnlyValid
    <3>4. lastSent[d.action] # d.target
      BY <1>8, <2>6, <3>2, <3>3 DEF SentInv
    <3>5. Orders(d.action, d.target)
      BY <2>2, <2>6, <3>3, <3>4 DEF Orders
    <3>. QED  BY <1>3, <2>6, <3>2, <3>5 DEF Selects
  <2>. QED  BY <2>3, <2>4, <2>5, <2>6
<1>. QED  BY <1>7, <1>8
-----------------------------------------------------------------------------
(* The steps of the host                                                     *)

\* What no step of the host itself changes in the rest.
HostOnly == UNCHANGED <<engine, hostUp, sessions>>

\* The configured host merges the delta it reads.
Merges ==
  /\ down # <<>> /\ down' = Tail(down) /\ Head(down).type = "state" /\ configured
  /\ state' = Merge(state, Head(down).delta)
  /\ tags' = RecordActionSequences(Head(down))
  /\ tainted' = (tainted \/ Head(down).tag[1] # session)
  /\ jobs' = {} \/ jobs # {}
  /\ {j \in jobs' : j.kind \in OneShot} = {j \in jobs : j.kind \in OneShot}
  /\ HostOnly /\ UNCHANGED <<up, configured, session, buffer, reported, timers>>

\* It is the configuration, or the host is not configured yet.
Passes ==
  /\ down # <<>> /\ down' = Tail(down) /\ (Head(down).type = "state" => ~configured)
  /\ hostUp
  /\ configured => configured'
  /\ timers' > 0 => timers > 0 \/ configured'
  /\ HostOnly
  /\ UNCHANGED <<up, session, buffer, state, tags, reported, jobs, tainted>>

LEMMA OneShotsGoOn ==
  ASSUME NEW S, NEW D, D \subseteq S, \A j \in D : j.kind = "break",
         \A j \in D : [j EXCEPT !.active = FALSE].kind = "break"
  PROVE  LET T == (S \ D) \cup {[j EXCEPT !.active = FALSE] : j \in D}
         IN  /\ {j \in T : j.kind \in OneShot} = {j \in S : j.kind \in OneShot}
             /\ T = {} \/ S # {}
<1>1. "break" \notin OneShot
  BY DEF OneShot
<1>. QED  BY <1>1

LEMMA ReceiveShape ==
  ASSUME Types, HostReceive
  PROVE  Merges \/ Passes
<1>. DEFINE m == Head(down)
<1>1. /\ down # <<>> /\ down' = Tail(down) /\ hostUp /\ HostOnly
      /\ UNCHANGED <<up, session, buffer>>
      /\ m \in DownMessage
  BY HeadType DEF HostReceive, Receive, HostOnly, Types, ChannelsTypeOK
<1>2. m.type \in {"configure", "state"}
  BY <1>1 DEF DownMessage
<1>3. CASE m.type = "state" /\ configured
  <2>1. ApplyState(m) /\ UNCHANGED <<configured, timers, reported>>
    BY <1>3 DEF HostReceive, Receive, ApplyState
  <2>2. Digs \subseteq jobs /\ \A j \in Digs : j.kind = "break"
    BY DEF Digs
  <2>3. \A j \in Digs : [j EXCEPT !.active = FALSE].kind = "break"
    BY <2>2 DEF Types, HostTypes, HostTypeOK, Job
  <2>4. jobs' = jobs \/ jobs' = (jobs \ Digs) \cup {[j EXCEPT !.active = FALSE] : j \in Digs}
    BY <2>1 DEF ApplyState
  <2>5. /\ {j \in jobs' : j.kind \in OneShot} = {j \in jobs : j.kind \in OneShot}
        /\ jobs' = {} \/ jobs # {}
    BY <2>2, <2>3, <2>4, OneShotsGoOn
  <2>. QED  BY <1>1, <1>3, <2>1, <2>5 DEF ApplyState, Merges
<1>4. CASE ~(m.type = "state" /\ configured)
  <2>1. /\ UNCHANGED <<adapter, tainted>>
        /\ \/ configured' = TRUE
           \/ UNCHANGED <<configured, timers>>
    BY <1>2, <1>4 DEF HostReceive, Receive
  <2>. QED  BY <1>1, <1>4, <2>1 DEF adapter, Passes
<1>. QED  BY <1>3, <1>4

\* A new session begins, on an adapter that is reset unless it has a bot.
Connects ==
  /\ timers > 0
  /\ session' = sessions + 1 /\ sessions' = sessions + 1
  /\ buffer' = {}
  /\ timers' = timers - 1
  /\ Chats
  /\ UNCHANGED <<engine, down, hostUp, configured, jobs>>
  /\ \/ bot # 0 /\ tainted' = TRUE /\ UNCHANGED <<state, tags, reported>>
     \/ /\ tainted' = FALSE
        /\ state' = EmptyState /\ tags' = [f \in Field |-> NoTag] /\ reported' = {}

LEMMA ConnectShape ==
  ASSUME Types, HostConnect
  PROVE  Connects
<1>1. /\ timers > 0 /\ session' = sessions + 1 /\ sessions' = sessions + 1 /\ buffer' = {}
      /\ timers' = timers - 1
      /\ UNCHANGED <<engine, down, hostUp, configured>>
  BY DEF HostConnect, Connect
<1>2. CASE bot # 0
  <2>1. UNCHANGED <<adapter, up>> /\ tainted' = TRUE
    BY <1>2 DEF HostConnect, Connect
  <2>2. Chats
    BY <2>1, Silence DEF Types
  <2>. QED  BY <1>1, <1>2, <2>1, <2>2 DEF Connects, adapter
<1>3. CASE bot = 0
  <2>1. /\ Emit(<<StatusMsg(session', 1, "connecting")>>)
        /\ state' = EmptyState /\ tags' = [f \in Field |-> NoTag] /\ reported' = {}
        /\ tainted' = FALSE /\ jobs' = jobs
    BY <1>3 DEF HostConnect, Connect
  <2>2. Chats
    <3>. DEFINE m == StatusMsg(sessions + 1, 1, "connecting")
    <3>1. m.type = "status" /\ m.session = sessions + 1 /\ m.seq = 1
      BY DEF StatusMsg
    <3>2. up' = up \o <<m>> /\ up \in Seq(UpMessage) /\ sessions' = sessions + 1 /\ 1 =< sessions'
      BY <1>1, <2>1, UpSessions DEF Emit, Types, ChannelsTypeOK
    <3>. HIDE DEF m
    <3>3. /\ Len(up) \in Nat /\ Len(up') = Len(up) + 1
          /\ \A i \in 1 .. Len(up) : up'[i] = up[i]
          /\ up'[Len(up) + 1] = m
      BY <3>2
    <3>. QED  BY <3>1, <3>2, <3>3 DEF Chats
  <2>. QED  BY <1>1, <2>1, <2>2 DEF Connects
<1>. QED  BY <1>2, <1>3

-----------------------------------------------------------------------------
(* What the host reports                                                     *)

\* What reportOutcome finds new for the one-shots in kinds, each executed under
\* a tag of its own.
Reports(fresh, kinds) ==
  /\ fresh \subseteq Outcome
  /\ Single(fresh)
  /\ \A o \in fresh : /\ o.kind \in kinds /\ o.seq = tags[o.kind][2] /\ o.seq # 0
                      /\ KeyOf(o) \notin reported
  /\ \A k \in kinds : tags[k][2] # 0 => <<k, tags[k][2]>> \in reported \cup Keys(fresh)

LEMMA ReportOne ==
  ASSUME Types, NEW k \in OneShot, NEW ok \in BOOLEAN, NEW exec \in Tag
  PROVE  Reports(Report(k, ok, exec), {k}) /\ \A o \in Report(k, ok, exec) : o.exec = exec
<1>1. Report(k, ok, exec) \subseteq Outcome
  BY ReportType DEF Types, HostTypes
<1>2. CASE tags[k][2] = 0 \/ <<k, tags[k][2]>> \in reported
  BY <1>1, <1>2 DEF Report, Reports, Single, Keys, KeyOf
<1>3. CASE ~(tags[k][2] = 0 \/ <<k, tags[k][2]>> \in reported)
  <2>. DEFINE o == [kind |-> k, seq |-> tags[k][2], ok |-> ok, exec |-> exec]
  <2>1. Report(k, ok, exec) = {o}
    BY <1>3 DEF Report
  <2>2. o.kind = k /\ o.seq = tags[k][2] /\ o.exec = exec /\ KeyOf(o) = <<k, tags[k][2]>>
    BY DEF KeyOf
  <2>. QED  BY <1>1, <1>3, <2>1, <2>2 DEF Reports, Single, Keys
<1>. QED  BY <1>2, <1>3

\* The one-shots a tick reports at once, and those it leaves running.
Ended(starts) == {k \in Due : starts[k] # "runs"}

Found(starts) == UNION {Report(k, starts[k] = "completed", tags[k]) : k \in Ended(starts)}

Started(starts) == {NewJob(k) : k \in Due \ Ended(starts)}

\* A tick starts and reports the one-shots that are due, and may start a dig.
Ticks(starts) ==
  /\ session # 0
  /\ state' = [f \in Field |-> IF f \in Due THEN NoTarget ELSE state[f]]
  /\ {j \in jobs' : j.kind \in OneShot} = {j \in jobs : j.kind \in OneShot} \cup Started(starts)
  /\ reported' = reported \cup Keys(Found(starts))
  /\ buffer' = {}
  /\ up' = Append(up, RealityMsg(session, buffer \cup Found(starts)))
  /\ HostOnly
  /\ UNCHANGED <<down, configured, timers, session, tags, tainted>>

LEMMA FoundReports ==
  ASSUME Types, NEW starts \in StartResults
  PROVE  /\ Reports(Found(starts), Ended(starts))
         /\ \A o \in Found(starts) : o.exec = tags[o.kind]
<1>. DEFINE rep(k) == Report(k, starts[k] = "completed", tags[k])
<1>1. ASSUME NEW k \in Ended(starts)
      PROVE  /\ k \in OneShot /\ Reports(rep(k), {k}) /\ \A o \in rep(k) : o.exec = tags[k]
             /\ rep(k) \subseteq Found(starts)
  <2>1. k \in OneShot /\ (starts[k] = "completed") \in BOOLEAN /\ tags[k] \in Tag
    BY DEF Ended, Due, Types, HostTypes, HostTypeOK, OneShot, Field
  <2>2. Reports(rep(k), {k}) /\ \A o \in rep(k) : o.exec = tags[k]
    BY <2>1, ReportOne
  <2>3. rep(k) \subseteq Found(starts)
    BY DEF Found
  <2>. QED  BY <2>1, <2>2, <2>3
<1>2. ASSUME NEW o \in Found(starts)
      PROVE  \E k \in Ended(starts) : o \in rep(k)
  BY DEF Found
<1>3. ASSUME NEW o \in Found(starts)
      PROVE  /\ o.kind \in Ended(starts) /\ o \in rep(o.kind) /\ o \in Outcome
             /\ o.seq = tags[o.kind][2] /\ o.seq # 0 /\ KeyOf(o) \notin reported
             /\ o.exec = tags[o.kind]
  <2>1. PICK k \in Ended(starts) : o \in rep(k)
    BY <1>2
  <2>. HIDE DEF rep
  <2>2. o.kind = k
    BY <1>1, <2>1 DEF Reports
  <2>. QED  BY <1>1, <2>1, <2>2 DEF Reports
<1>4. Single(Found(starts))
  <2>1. ASSUME NEW o \in Found(starts), NEW p \in Found(starts), KeyOf(o) = KeyOf(p)
        PROVE  o = p
    <3>. HIDE DEF rep
    <3>1. o.kind = p.kind
      BY <2>1 DEF KeyOf
    <3>2. o \in rep(o.kind) /\ p \in rep(o.kind) /\ Single(rep(o.kind))
      BY <1>1, <1>3, <3>1 DEF Reports
    <3>. QED  BY <2>1, <3>2 DEF Single
  <2>. QED  BY <2>1 DEF Single
<1>5. ASSUME NEW k \in Ended(starts), tags[k][2] # 0
      PROVE  <<k, tags[k][2]>> \in reported \cup Keys(Found(starts))
  <2>. HIDE DEF rep
  <2>1. <<k, tags[k][2]>> \in reported \cup Keys(rep(k)) /\ rep(k) \subseteq Found(starts)
    BY <1>1, <1>5 DEF Reports
  <2>. QED  BY <2>1 DEF Keys
<1>. HIDE DEF rep
<1>. QED  BY <1>3, <1>4, <1>5 DEF Reports
LEMMA TickShape ==
  ASSUME Types, SessionInv, UNCHANGED <<engine, crashes>>,
         NEW sustained \in SustainedResults, NEW starts \in StartResults,
         Tick(sustained, starts)
  PROVE  Ticks(starts)
<1>. DEFINE over == {f \in {"break", "attack"} : sustained[f] = "over"}
            digs == {f \in {"break", "attack"} : sustained[f] = "digs"}
            runs == {k \in Due : starts[k] = "runs"}
<1>1. {k \in Due : starts[k] # "runs"} = Ended(starts) /\ runs = Due \ Ended(starts)
  BY DEF Ended
<1>2. Found(starts) = UNION {Report(k, starts[k] = "completed", tags[k]) :
                               k \in {k \in Due : starts[k] # "runs"}}
  BY <1>1 DEF Found
<1>3. /\ jobs' = jobs \cup {NewJob(f) : f \in digs \cup runs}
      /\ state' = [f \in Field |-> IF f \in Due THEN NoTarget ELSE state[f]]
      /\ reported' = reported \cup {<<o.kind, o.seq>> : o \in Found(starts)}
      /\ buffer' = {}
      /\ Emit(<<RealityMsg(session, buffer \cup Found(starts))>>)
      /\ UNCHANGED <<hostUp, configured, session, timers, tags, sessions, tainted, down>>
      /\ bot # 0
  BY <1>2 DEF Tick
<1>4. session # 0
  BY <1>3 DEF SessionInv, Speaking
<1>5. digs \cap OneShot = {} /\ runs \subseteq OneShot
  BY DEF OneShot, Due
<1>6. \A f : NewJob(f).kind = f
  BY DEF NewJob
<1>7. {j \in jobs' : j.kind \in OneShot} = {j \in jobs : j.kind \in OneShot} \cup Started(starts)
  <2>1. {j \in jobs' : j.kind \in OneShot}
          = {j \in jobs : j.kind \in OneShot} \cup {NewJob(f) : f \in runs}
    <3>. HIDE DEF digs, runs
    <3>. QED  BY <1>3, <1>5, <1>6
  <2>. QED  BY <1>1, <2>1 DEF Started
<1>8. Keys(Found(starts)) = {<<o.kind, o.seq>> : o \in Found(starts)}
  BY DEF Keys, KeyOf
<1>9. up' = Append(up, RealityMsg(session, buffer \cup Found(starts)))
  BY <1>3, UpSessions DEF Emit, Types, ChannelsTypeOK
<1>. QED  BY <1>3, <1>4, <1>7, <1>8, <1>9 DEF Ticks, HostOnly

\* A promise settles, and what it reports waits for the next tick.
Settled(j, fresh) ==
  /\ j \in jobs /\ jobs' = jobs \ {j}
  /\ j.kind \in OneShot => Reports(fresh, {j.kind}) /\ \A o \in fresh : o.exec = j.tag
  /\ j.kind \notin OneShot => fresh = {}
  /\ buffer' = buffer \cup fresh
  /\ reported' = reported \cup Keys(fresh)
  /\ HostOnly
  /\ UNCHANGED <<up, down, configured, timers, session, state, tags, tainted>>

LEMMA SettleShape ==
  ASSUME Types, UNCHANGED <<engine, crashes>>, NEW j \in jobs, NEW ok \in BOOLEAN, Settle(j, ok)
  PROVE  \E fresh : Settled(j, fresh)
<1>1. j \in Job
  BY DEF Types, HostTypes, HostTypeOK
<1>2. /\ jobs' = jobs \ {j} /\ HostOnly
      /\ UNCHANGED <<up, down, configured, timers, session, state, tags, tainted>>
  BY DEF Settle, HostOnly, channels
<1>3. CASE j.kind = "break"
  <2>1. buffer' = buffer /\ reported' = reported /\ Keys({}) = {} /\ j.kind \notin OneShot
    BY <1>3 DEF Settle, Keys, OneShot
  <2>2. Settled(j, {})
    BY <1>2, <2>1 DEF Settled
  <2>. QED  BY <2>2
<1>4. CASE j.kind # "break"
  <2>. DEFINE fresh == Report(j.kind, ok, j.tag)
  <2>1. j.kind \in OneShot /\ j.tag \in Tag
    BY <1>1, <1>4 DEF Job
  <2>2. Reports(fresh, {j.kind}) /\ \A o \in fresh : o.exec = j.tag
    BY <2>1, ReportOne
  <2>3. buffer' = buffer \cup fresh /\ reported' = reported \cup {<<o.kind, o.seq>> : o \in fresh}
    BY <1>4 DEF Settle
  <2>4. reported' = reported \cup Keys(fresh)
    BY <2>3 DEF Keys, KeyOf
  <2>5. Settled(j, fresh)
    <3>. HIDE DEF fresh
    <3>. QED  BY <1>2, <2>1, <2>2, <2>3, <2>4 DEF Settled
  <2>. QED  BY <2>5
<1>. QED  BY <1>3, <1>4

\* The supervisor answers the host's hello.
Configures ==
  /\ hostUp
  /\ down' = Append(down, Configuration)
  /\ UNCHANGED <<host, engine, up>>

-----------------------------------------------------------------------------
(* Every step is one of these                                                *)

Step ==
  \/ Skip \/ View \/ Begin
  \/ Selects
  \/ Merges \/ Passes \/ Connects
  \/ \E starts \in StartResults : Ticks(starts)
  \/ \E j \in jobs : \E fresh : Settled(j, fresh)
  \/ Death \/ Configures \/ Chat

\* What the proof carries along besides DInv.
Base == Types /\ SessionInv /\ RealityInv

LEMMA QuietChat ==
  ASSUME Types, UNCHANGED <<engine, channels, controller, adapter, sessions, tainted>>,
         hostUp => hostUp'
  PROVE  Chat
<1>1. Chats
  BY Silence DEF Types, channels
<1>. QED  BY <1>1 DEF Chat, channels, controller, adapter

LEMMA Steps ==
  ASSUME Base, SentInv, UpInv, [Next]_vars
  PROVE  Step
<1>. USE DEF Base
<1>1. CASE EngineApply
  BY <1>1, ApplyShape DEF Step
<1>2. CASE EngineSelect
  BY <1>2, SelectShape DEF Step
<1>3. CASE StartHost
  BY <1>3, QuietChat DEF StartHost, Step
<1>4. CASE ConfigureHost
  BY <1>4 DEF ConfigureHost, Configures, Step
<1>5. ASSUME Dies, UNCHANGED <<engine, up>>
      PROVE  Death
  BY <1>5, Silence DEF Types, Death, Dies
<1>6. CASE HostDies
  BY <1>5, <1>6 DEF HostDies, Step
<1>7. CASE HostReceive
  BY <1>7, ReceiveShape DEF Step
<1>8. CASE HostConnect
  BY <1>8, ConnectShape DEF Step
<1>9. CASE HostTick
  <2>1. UNCHANGED <<engine, crashes>>
    BY <1>9 DEF HostTick
  <2>2. CASE \E sustained \in SustainedResults, starts \in StartResults : Tick(sustained, starts)
    BY <2>1, <2>2, TickShape DEF Step
  <2>3. CASE TickThrows
    BY <1>5, <2>1, <2>3 DEF TickThrows, Step
  <2>. QED  BY <1>9, <2>2, <2>3 DEF HostTick
<1>10. CASE HostSettle
  BY <1>10, SettleShape DEF HostSettle, Step
<1>11. CASE BotSpawn
  BY <1>11, SpawnShape DEF BotSpawn, Step
<1>12. CASE BotTelemetry
  BY <1>12, TelemetryShape DEF BotTelemetry, Step
<1>13. CASE BotLost
  BY <1>13, LostShape DEF BotLost, Step
<1>14. CASE UNCHANGED vars
  BY <1>14, QuietChat DEF vars, host, Step
<1>. QED
  BY <1>1, <1>2, <1>3, <1>4, <1>6, <1>7, <1>8, <1>9, <1>10, <1>11, <1>12, <1>13, <1>14 DEF Next
-----------------------------------------------------------------------------
(* The channels, message by message                                          *)

LEMMA DownMessages ==
  ASSUME Types
  PROVE  /\ Len(down) \in Nat /\ down \in Seq(DownMessage)
         /\ \A i \in 1 .. Len(down) :
              down[i].type = "state" => down[i].delta \in Delta /\ down[i].tag \in Tag
<1>1. down \in Seq(DownMessage) /\ Len(down) \in Nat
  BY DEF Types, ChannelsTypeOK
<1>2. ASSUME NEW m \in DownMessage, m.type = "state"
      PROVE  m.delta \in Delta /\ m.tag \in Tag
  BY <1>2 DEF DownMessage
<1>. QED  BY <1>1, <1>2

LEMMA UpMessages ==
  ASSUME Types
  PROVE  /\ Len(up) \in Nat /\ up \in Seq(UpMessage)
         /\ \A i \in 1 .. Len(up) : /\ up[i].session \in Nat
                                    /\ up[i].type # "reality" => up[i].seq \in Nat
                                    /\ up[i].type = "reality" => up[i].outcomes \subseteq Outcome
<1>1. up \in Seq(UpMessage) /\ Len(up) \in Nat
  BY DEF Types, ChannelsTypeOK
<1>2. ASSUME NEW m \in UpMessage
      PROVE  /\ m.session \in Nat
             /\ m.type # "reality" => m.seq \in Nat
             /\ m.type = "reality" => m.outcomes \subseteq Outcome
  BY <1>2 DEF UpMessage
<1>. QED  BY <1>1, <1>2

\* The host reads the oldest message: the others move up by one.
LEMMA DownRead ==
  ASSUME Types, down # <<>>, down' = Tail(down)
  PROVE  /\ 1 \in 1 .. Len(down) /\ Head(down) = down[1]
         /\ Len(down') = Len(down) - 1 /\ Len(down') \in Nat
         /\ \A i \in 1 .. Len(down') : down'[i] = down[i + 1] /\ i + 1 \in 1 .. Len(down)
         /\ \A i \in 1 .. Len(down) : i # 1 => i - 1 \in 1 .. Len(down') /\ down'[i - 1] = down[i]
BY DownMessages

LEMMA UpRead ==
  ASSUME Types, up # <<>>, up' = Tail(up)
  PROVE  /\ 1 \in 1 .. Len(up) /\ Head(up) = up[1]
         /\ Len(up') = Len(up) - 1 /\ Len(up') \in Nat
         /\ \A i \in 1 .. Len(up') : up'[i] = up[i + 1] /\ i + 1 \in 1 .. Len(up)
         /\ \A i \in 1 .. Len(up) : i # 1 => i - 1 \in 1 .. Len(up') /\ up'[i - 1] = up[i]
BY UpMessages

\* A message is written after all the others.
LEMMA DownWritten ==
  ASSUME Types, NEW m, down' = Append(down, m)
  PROVE  /\ Len(down) \in Nat /\ Len(down') = Len(down) + 1
         /\ \A i \in 1 .. Len(down) : down'[i] = down[i] /\ i \in 1 .. Len(down')
         /\ down'[Len(down) + 1] = m /\ Len(down) + 1 \in 1 .. Len(down')
         /\ \A i \in 1 .. Len(down') : i \in 1 .. Len(down) \/ i = Len(down) + 1
BY DownMessages

LEMMA UpWritten ==
  ASSUME Types, NEW m, up' = Append(up, m)
  PROVE  /\ Len(up) \in Nat /\ Len(up') = Len(up) + 1
         /\ \A i \in 1 .. Len(up) : up'[i] = up[i] /\ i \in 1 .. Len(up')
         /\ up'[Len(up) + 1] = m /\ Len(up) + 1 \in 1 .. Len(up')
         /\ \A i \in 1 .. Len(up') : i \in 1 .. Len(up) \/ i = Len(up) + 1
BY UpMessages

\* What Chats adds is not reality.
LEMMA Chatted ==
  ASSUME Types, Types', Chats
  PROVE  /\ Len(up) \in Nat /\ Len(up') \in Nat /\ Len(up) =< Len(up')
         /\ Realities' = Realities
         /\ \A i \in Realities : up'[i] = up[i]
<1>1. Len(up) \in Nat /\ Len(up') \in Nat /\ Len(up) =< Len(up')
  BY DEF Types, ChannelsTypeOK, Chats
<1>2. \A i : i \in Realities' <=> i \in Realities
  BY <1>1 DEF Chats, Realities
<1>. QED  BY <1>1, <1>2 DEF Chats, Realities

-----------------------------------------------------------------------------
(* What holds in every state is preserved                                    *)

LEMMA ConfiguredNext ==
  ASSUME ConfiguredInv, Step
  PROVE  ConfiguredInv'
<1>1. CASE Skip \/ View \/ Begin \/ Selects \/ Configures
  BY <1>1 DEF ConfiguredInv, Skip, View, Begin, Reads, Selects, Configures, host, controller
<1>2. CASE Merges \/ Passes \/ Connects
  BY <1>2 DEF ConfiguredInv, Merges, Passes, Connects, HostOnly
<1>3. CASE \E starts \in StartResults : Ticks(starts)
  BY <1>3 DEF ConfiguredInv, Ticks, HostOnly
<1>4. CASE \E j \in jobs : \E fresh : Settled(j, fresh)
  BY <1>4 DEF ConfiguredInv, Settled, HostOnly
<1>5. CASE Death \/ Chat
  BY <1>5 DEF ConfiguredInv, Death, Dies, Chat
<1>. QED  BY <1>1, <1>2, <1>3, <1>4, <1>5 DEF Step

LEMMA QuietNext ==
  ASSUME Types, QuietInv, Step
  PROVE  QuietInv'
<1>1. CASE Skip \/ View \/ Begin \/ Selects \/ Configures
  BY <1>1 DEF QuietInv, Skip, View, Begin, Reads, Selects, Configures, host, controller, adapter
<1>2. CASE Merges \/ Passes
  BY <1>2 DEF QuietInv, Merges, Passes
<1>3. CASE Connects
  BY <1>3, UpSessions DEF QuietInv, Connects
<1>4. CASE \E starts \in StartResults : Ticks(starts)
  BY <1>4 DEF QuietInv, Ticks
<1>5. CASE \E j \in jobs : \E fresh : Settled(j, fresh)
  BY <1>5 DEF QuietInv, Settled
<1>6. CASE Death \/ Chat
  BY <1>6 DEF QuietInv, Death, Dies, Chat
<1>. QED  BY <1>1, <1>2, <1>3, <1>4, <1>5, <1>6 DEF Step

LEMMA SentNext ==
  ASSUME Types, SentInv, Step
  PROVE  SentInv'
<1>1. CASE Skip \/ View
  BY <1>1 DEF SentInv, Skip, View, sync
<1>2. CASE Begin
  <2>1. desired' = EmptyState /\ lastSent' = EmptyState /\ remote' # 0
    BY <1>2, UpSessions DEF Begin, ResetSessionAI
  <2>2. Validate(EmptyState) = EmptyState
    BY DEF Validate, EmptyState
  <2>3. \A k \in OneShot : EmptyState[k] = NoTarget
    BY DEF EmptyState, OneShot, Field
  <2>. QED  BY <2>1, <2>2, <2>3 DEF SentInv
<1>3. CASE Selects
  <2>1. UNCHANGED <<phase, remote>> /\ phase = phase' /\ remote # 0
    BY <1>3 DEF Selects
  <2>2. CASE Idle
    BY <2>1, <2>2 DEF Idle, SentInv
  <2>3. CASE Clears
    BY <2>1, <2>3 DEF Clears, Sends, SentInv
  <2>4. CASE \E k \in OneShot, t \in Target : Orders(k, t)
    <3>1. PICK k \in OneShot, t \in Target : Orders(k, t)
      BY <2>4
    <3>2. k \in Field /\ t \in MaybeTarget
      BY DEF OneShot, Field, MaybeTarget
    <3>3. \A l \in OneShot : l \in Field
      BY DEF OneShot, Field
    <3>4. /\ desired' = Only(k, t) /\ lastSent' = desired' /\ Validate(desired') = desired'
      BY <3>1 DEF Orders, Sends
    <3>5. \A l \in OneShot : desired'[l] # NoTarget => desired' = Only(l, desired'[l])
      BY <3>2, <3>3, <3>4, OnlyAt
    <3>. QED  BY <2>1, <3>4, <3>5 DEF SentInv
  <2>. QED  BY <1>3, <2>2, <2>3, <2>4 DEF Selects
<1>4. CASE UNCHANGED engine
  BY <1>4 DEF SentInv, engine, sync
<1>5. Skip \/ View \/ Begin \/ Selects \/ UNCHANGED engine
  BY DEF Step, Merges, Passes, Connects, Ticks, Settled, Death, Configures, Chat, HostOnly
<1>. QED  BY <1>1, <1>2, <1>3, <1>4, <1>5

LEMMA TagsNext ==
  ASSUME Types, SessionInv, SentInv, TagsInv, Step
  PROVE  TagsInv'
<1>0. remote \in Nat /\ ctlSeq \in Nat
      /\ \A i \in StateMsgs : down[i].tag[1] \in Nat /\ down[i].tag[2] \in Nat
  BY DownMessages DEF Types, EngineTypeOK, StateMsgs, Tag
<1>1. CASE UNCHANGED <<down, remote, ctlSeq>>
  BY <1>1 DEF TagsInv, StateMsgs
<1>2. CASE Begin
  <2>1. down' = down /\ remote < remote' /\ remote' \in Nat
    BY <1>2, UpRead, UpMessages DEF Begin, Reads
  <2>. QED  BY <1>0, <2>1 DEF TagsInv, StateMsgs
<1>3. CASE Selects
  <2>1. remote' = remote /\ remote # 0
    BY <1>3 DEF Selects
  <2>2. CASE Idle
    BY <1>1, <2>1, <2>2 DEF Idle
  <2>3. CASE Sends
    <3>. DEFINE m == StateMsg(Diff(lastSent, desired'), <<remote, ctlSeq'>>)
    <3>1. ctlSeq' = ctlSeq + 1 /\ (down' = Append(down, m) \/ down' = down)
      BY <2>3 DEF Sends, SendControllerState
    <3>2. m.tag = <<remote, ctlSeq + 1>>
      BY <3>1 DEF StateMsg
    <3>3. CASE down' = down
      BY <1>0, <2>1, <3>1, <3>3 DEF TagsInv, StateMsgs
    <3>4. CASE down' = Append(down, m)
      <4>. HIDE DEF m
      <4>1. ASSUME NEW i \in StateMsgs'
            PROVE  (i \in StateMsgs /\ down'[i] = down[i]) \/ down'[i] = m
        BY <3>4, DownWritten DEF StateMsgs
      <4>. QED  BY <1>0, <2>1, <3>1, <3>2, <4>1 DEF TagsInv
    <3>. QED  BY <3>1, <3>3, <3>4
  <2>. QED  BY <1>3, <2>2, <2>3 DEF Selects, Clears, Orders
<1>4. CASE Merges \/ Passes
  <2>1. down # <<>> /\ down' = Tail(down) /\ UNCHANGED <<remote, ctlSeq>>
    BY <1>4 DEF Merges, Passes, HostOnly, engine, sync
  <2>2. \A i \in StateMsgs' : i + 1 \in StateMsgs /\ down'[i] = down[i + 1]
    BY <2>1, DownRead DEF StateMsgs
  <2>. QED  BY <2>1, <2>2 DEF TagsInv
<1>5. CASE Configures
  <2>1. down' = Append(down, Configuration) /\ UNCHANGED <<remote, ctlSeq>>
    BY <1>5 DEF Configures, engine, sync
  <2>2. \A i \in StateMsgs' : i \in StateMsgs /\ down'[i] = down[i]
    BY <2>1, DownWritten DEF StateMsgs, Configuration
  <2>. QED  BY <2>1, <2>2 DEF TagsInv
<1>6. CASE Death
  <2>1. StateMsgs' = {}
    BY <1>6 DEF Death, Dies, StateMsgs
  <2>. QED  BY <2>1 DEF TagsInv
<1>7. \/ Begin \/ Selects \/ Merges \/ Passes \/ Configures \/ Death
      \/ UNCHANGED <<down, remote, ctlSeq>>
  BY DEF Step, Skip, View, Reads, sync, engine, Connects, Ticks, Settled, Chat, HostOnly
<1>. QED  BY <1>1, <1>2, <1>3, <1>4, <1>5, <1>6, <1>7

LEMMA UpNext ==
  ASSUME Types, Types', SessionInv, UpInv, Step
  PROVE  UpInv'
<1>1. CASE up' = up
  BY <1>1 DEF UpInv
<1>2. CASE Skip \/ View \/ Begin
  BY <1>2, UpRead DEF Skip, View, Begin, Reads, UpInv
<1>3. CASE Chats
  <2>1. Len(up) \in Nat /\ Len(up') \in Nat
    BY UpMessages DEF Types, ChannelsTypeOK
  <2>. QED  BY <1>3, <2>1 DEF Chats, UpInv
<1>4. CASE \E starts \in StartResults : Ticks(starts)
  <2>1. PICK starts \in StartResults : Ticks(starts)
    BY <1>4
  <2>. DEFINE m == RealityMsg(session, buffer \cup Found(starts))
  <2>2. m.type = "reality" /\ m.session = session
    BY DEF RealityMsg
  <2>3. up' = Append(up, m) /\ session \in Nat /\ session # 0
    BY <2>1 DEF Ticks, Types, HostTypes, HostTypeOK
  <2>. HIDE DEF m
  <2>. QED  BY <2>2, <2>3, UpWritten DEF UpInv
<1>5. up' = up \/ Skip \/ View \/ Begin \/ Chats \/ \E starts \in StartResults : Ticks(starts)
  BY DEF Step, Selects, Merges, Passes, Connects, Settled, Death, Configures, Chat
<1>. QED  BY <1>1, <1>2, <1>3, <1>4, <1>5
LEMMA FreshNext ==
  ASSUME Base, TagsInv, FreshInv, Step
  PROVE  FreshInv'
<1>. SUFFICES ASSUME Fresh'
              PROVE  /\ state' = EmptyState /\ tags' = [f \in Field |-> NoTag]
                     /\ reported' = {} /\ buffer' = {}
  BY DEF FreshInv
<1>0. session \in Nat /\ sessions \in Nat /\ remote \in Nat /\ remote =< sessions
  BY DEF Base, Types, HostTypes, HostTypeOK, EngineTypeOK, SessionInv, Ordered
<1>1. CASE UNCHANGED <<session, tainted, state, tags, reported, buffer, remote>>
  <2>1. Fresh
    BY <1>1 DEF Fresh
  <2>. QED  BY <1>1, <2>1 DEF FreshInv
<1>2. CASE Begin
  <2>1. UNCHANGED <<session, tainted, state, tags, reported, buffer>> /\ remote < remote'
        /\ remote' \in Nat
    BY <1>2, UpRead, UpMessages DEF Begin, Reads, host, controller, adapter, Base
  <2>2. Fresh
    BY <1>0, <2>1 DEF Fresh
  <2>. QED  BY <2>1, <2>2 DEF FreshInv
<1>3. CASE Merges
  <2>1. 1 \in StateMsgs /\ Head(down) = down[1]
    BY <1>3, DownRead DEF Merges, StateMsgs, Base
  <2>2. down[1].tag[1] =< remote /\ down[1].tag[1] \in Nat
    BY <2>1, DownMessages DEF TagsInv, StateMsgs, Base, Tag
  <2>3. session' = session /\ remote' = remote /\ (tainted' = (tainted \/ down[1].tag[1] # session))
    BY <1>3, <2>1 DEF Merges, HostOnly, engine
  <2>4. ~tainted' /\ session > remote
    BY <2>3 DEF Fresh
  <2>5. down[1].tag[1] # session
    BY <1>0, <2>2, <2>4
  <2>. QED  BY <2>3, <2>4, <2>5
<1>4. CASE Connects
  <2>1. tainted' = FALSE
    BY DEF Fresh
  <2>. QED  BY <1>4, <2>1 DEF Connects
<1>5. CASE \E starts \in StartResults : Ticks(starts)
  <2>1. PICK starts \in StartResults : Ticks(starts)
    BY <1>5
  <2>2. Fresh
    BY <2>1 DEF Ticks, HostOnly, engine, Fresh
  <2>3. Due = {}
    BY <2>2 DEF FreshInv, Due, EmptyState, OneShot, Field
  <2>4. Found(starts) = {}
    BY <2>3 DEF Found, Ended
  <2>. QED  BY <2>1, <2>2, <2>3, <2>4 DEF Ticks, FreshInv, Keys, EmptyState
<1>6. CASE \E j \in jobs : \E fresh : Settled(j, fresh)
  <2>1. PICK j, fresh : j \in jobs /\ Settled(j, fresh)
    BY <1>6
  <2>2. Fresh
    BY <2>1 DEF Settled, HostOnly, engine, Fresh
  <2>3. fresh = {}
    <3>1. \A o \in fresh : o.kind \in OneShot /\ tags[o.kind][2] # 0
      BY <2>1 DEF Settled, Reports
    <3>2. \A k \in OneShot : tags[k] = NoTag
      BY <2>2 DEF FreshInv, OneShot, Field
    <3>. QED  BY <3>1, <3>2 DEF NoTag
  <2>. QED  BY <2>1, <2>2, <2>3 DEF Settled, FreshInv, Keys
<1>7. CASE Death
  BY <1>0, <1>7 DEF Death, Dies, engine, Fresh
<1>8. CASE Skip \/ View \/ Selects \/ Passes \/ Configures \/ Chat
  <2>1. UNCHANGED <<session, tainted, state, tags, reported, buffer, remote>>
    BY <1>8 DEF Skip, View, Reads, Selects, Passes, HostOnly, Configures, Chat, host, controller,
                adapter, engine
  <2>. QED  BY <1>0, <1>1, <2>1
<1>. QED  BY <1>2, <1>3, <1>4, <1>5, <1>6, <1>7, <1>8 DEF Step

-----------------------------------------------------------------------------
(* A step that ends in step                                                  *)

Steady ==
  \/ Skip \/ View \/ Selects
  \/ Merges \/ (Passes /\ Head(down).type # "state")
  \/ \E starts \in StartResults : Ticks(starts)
  \/ \E j \in jobs : \E fresh : Settled(j, fresh)
  \/ Configures \/ Chat

\* Either the engine hears of a fresh session, or both ends were in step.
LEMMA InStepBack ==
  ASSUME Base, ConfiguredInv, TagsInv, Step, InStep'
  PROVE  \/ Begin /\ Fresh /\ StateMsgs = {}
         \/ Steady /\ InStep /\ UNCHANGED <<session, sessions, remote>>
<1>0. session \in Nat /\ sessions \in Nat /\ remote \in Nat /\ remote =< sessions
  BY DEF Base, Types, HostTypes, HostTypeOK, EngineTypeOK, SessionInv, Ordered
<1>1. CASE Begin
  <2>1. UNCHANGED <<session, tainted, down>> /\ remote < remote'
    BY <1>1 DEF Begin, Reads, host, controller
  <2>2. Fresh
    BY <2>1 DEF InStep, Fresh
  <2>3. ASSUME NEW i \in StateMsgs PROVE FALSE
    <3>1. down[i].tag[1] = session
      BY <2>1 DEF InStep, StateMsgs
    <3>2. down[i].tag[1] =< remote
      BY DEF TagsInv
    <3>. QED  BY <1>0, <2>2, <3>1, <3>2 DEF Fresh
  <2>. QED  BY <1>1, <2>2, <2>3
<1>2. CASE Merges \/ Passes
  <2>1. /\ down # <<>> /\ down' = Tail(down) /\ Head(down) = down[1]
        /\ UNCHANGED <<session, sessions, remote>>
    BY <1>2, DownRead DEF Merges, Passes, HostOnly, engine, Base
  <2>2. session = remote /\ session # 0 /\ configured
    BY <2>1 DEF InStep, ConfiguredInv
  <2>3. ~tainted /\ (Head(down).type = "state" => Head(down).tag[1] = session)
    <3>1. ~tainted'
      BY DEF InStep
    <3>2. CASE Merges
      BY <2>1, <2>2, <3>1, <3>2 DEF Merges
    <3>3. CASE Passes
      BY <2>2, <3>1, <3>3 DEF Passes
    <3>. QED  BY <1>2, <3>2, <3>3
  <2>4. \A i \in 1 .. Len(down) : down[i].type = "state" => down[i].tag[1] = session
    BY <2>1, <2>3, DownRead DEF InStep, Base
  <2>. QED  BY <1>2, <2>1, <2>2, <2>3, <2>4 DEF InStep, Steady, Passes
<1>3. CASE Selects
  <2>1. UNCHANGED <<session, sessions, remote, tainted>>
    BY <1>3 DEF Selects, host, controller
  <2>2. down' = down \/ \E m : down' = Append(down, m)
    BY <1>3 DEF Selects, Idle, Clears, Orders, Sends, SendControllerState
  <2>3. \A i \in 1 .. Len(down) : i \in 1 .. Len(down') /\ down'[i] = down[i]
    BY <2>2, DownWritten DEF Base
  <2>. QED  BY <1>3, <2>1, <2>3 DEF InStep, Steady
<1>4. CASE Configures
  <2>1. UNCHANGED <<session, sessions, remote, tainted>> /\ down' = Append(down, Configuration)
    BY <1>4 DEF Configures, host, controller, engine
  <2>2. \A i \in 1 .. Len(down) : i \in 1 .. Len(down') /\ down'[i] = down[i]
    BY <2>1, DownWritten DEF Base
  <2>. QED  BY <1>4, <2>1, <2>2 DEF InStep, Steady
<1>5. CASE Connects
  <2>1. session' = sessions + 1 /\ remote' = remote /\ session' = remote'
    BY <1>5 DEF Connects, engine, InStep
  <2>. QED  BY <1>0, <2>1
<1>6. CASE Death
  BY <1>6 DEF Death, Dies, InStep
<1>7. CASE UNCHANGED <<session, sessions, remote, tainted, down>> /\ Steady
  BY <1>7 DEF InStep
<1>8. CASE Skip \/ View \/ Chat
  BY <1>7, <1>8 DEF Skip, View, Reads, Chat, Steady, host, controller, engine
<1>9. CASE \E starts \in StartResults : Ticks(starts)
  BY <1>7, <1>9 DEF Ticks, HostOnly, Steady, engine
<1>10. CASE \E j \in jobs : \E fresh : Settled(j, fresh)
  BY <1>7, <1>10 DEF Settled, HostOnly, Steady, engine
<1>. QED  BY <1>1, <1>2, <1>3, <1>4, <1>5, <1>6, <1>8, <1>9, <1>10 DEF Step
-----------------------------------------------------------------------------
(* The sequences in step                                                     *)

\* A cleared field has no tag, a set one has the tag of the delta.
LEMMA RecordedTag ==
  ASSUME NEW m, NEW f \in Field
  PROVE  RecordActionSequences(m)[f]
           = IF f \notin DOMAIN m.delta THEN tags[f]
             ELSE IF m.delta[f] = NoTarget THEN NoTag ELSE m.tag
BY DEF RecordActionSequences

LEMMA SeqsNext ==
  ASSUME Base, ConfiguredInv, TagsInv, FreshInv, SeqsInv, Step
  PROVE  SeqsInv'
<1>. SUFFICES ASSUME InStep'
              PROVE  /\ \A f \in Field : \/ tags'[f] = NoTag
                                         \/ tags'[f][1] = session' /\ tags'[f][2] \in 1 .. ctlSeq'
                     /\ \A r \in reported' : r[2] =< ctlSeq'
  BY DEF SeqsInv
<1>0. ctlSeq \in Nat /\ \A r \in reported : r[2] \in Nat
  BY DEF Base, Types, EngineTypeOK, HostTypes, HostTypeOK
<1>1. CASE Begin /\ Fresh
  <2>1. tags' = [f \in Field |-> NoTag] /\ reported' = {}
    BY <1>1 DEF Begin, Reads, host, adapter, FreshInv
  <2>. QED  BY <2>1
<1>2. CASE Steady /\ InStep /\ UNCHANGED <<session, sessions, remote>>
  <2>1. /\ \A f \in Field : tags[f] = NoTag \/ (tags[f][1] = session /\ tags[f][2] \in 1 .. ctlSeq)
        /\ \A r \in reported : r[2] =< ctlSeq
    BY <1>2 DEF SeqsInv
  <2>2. CASE UNCHANGED <<tags, reported>> /\ (ctlSeq' = ctlSeq \/ ctlSeq' = ctlSeq + 1)
    BY <1>0, <1>2, <2>1, <2>2
  <2>3. CASE Merges
    <3>1. /\ 1 \in StateMsgs /\ tags' = RecordActionSequences(down[1])
          /\ UNCHANGED <<reported, ctlSeq>>
      BY <2>3, DownRead DEF Merges, HostOnly, engine, sync, StateMsgs, Base
    <3>2. /\ down[1].tag[1] = session /\ down[1].tag[2] \in Nat
          /\ 1 =< down[1].tag[2] /\ down[1].tag[2] =< ctlSeq
      BY <1>2, <3>1, DownMessages DEF TagsInv, InStep, StateMsgs, Tag, Base
    <3>3. down[1].tag[2] \in 1 .. ctlSeq
      BY <1>0, <3>2
    <3>. QED  BY <1>2, <2>1, <3>1, <3>2, <3>3, RecordedTag
  <2>4. CASE \E starts \in StartResults : Ticks(starts)
    <3>1. PICK starts \in StartResults : Ticks(starts)
      BY <2>4
    <3>2. UNCHANGED <<tags, ctlSeq>> /\ reported' = reported \cup Keys(Found(starts))
      BY <3>1 DEF Ticks, HostOnly, engine, sync
    <3>3. ASSUME NEW o \in Found(starts)
          PROVE  o.seq =< ctlSeq
      <4>1. o.kind \in Field /\ o.seq = tags[o.kind][2] /\ o.seq # 0
        BY FoundReports DEF Reports, Ended, Due, OneShot, Field, Base
      <4>. QED  BY <1>0, <2>1, <4>1 DEF NoTag
    <3>4. \A r \in Keys(Found(starts)) : r[2] =< ctlSeq
      BY <3>3 DEF Keys, KeyOf
    <3>. QED  BY <1>2, <2>1, <3>2, <3>4
  <2>5. CASE \E j \in jobs : \E fresh : Settled(j, fresh)
    <3>1. PICK j, fresh : j \in jobs /\ Settled(j, fresh)
      BY <2>5
    <3>2. UNCHANGED <<tags, ctlSeq>> /\ reported' = reported \cup Keys(fresh)
      BY <3>1 DEF Settled, HostOnly, engine, sync
    <3>3. ASSUME NEW o \in fresh
          PROVE  o.seq =< ctlSeq
      <4>1. o.kind \in OneShot /\ o.seq = tags[o.kind][2] /\ o.seq # 0
        BY <3>1 DEF Settled, Reports
      <4>2. o.kind \in Field
        BY <4>1 DEF OneShot, Field
      <4>. QED  BY <1>0, <2>1, <4>1, <4>2 DEF NoTag
    <3>4. \A r \in Keys(fresh) : r[2] =< ctlSeq
      BY <3>3 DEF Keys, KeyOf
    <3>. QED  BY <1>2, <2>1, <3>2, <3>4
  <2>6. CASE Selects
    <3>1. UNCHANGED <<tags, reported>>
      BY <2>6 DEF Selects, host, adapter
    <3>2. ctlSeq' = ctlSeq \/ ctlSeq' = ctlSeq + 1
      BY <2>6 DEF Selects, Idle, Clears, Orders, Sends
    <3>. QED  BY <2>2, <3>1, <3>2
  <2>7. CASE Skip \/ View \/ Passes \/ Configures \/ Chat
    <3>1. UNCHANGED <<tags, reported, ctlSeq>>
      BY <2>7 DEF Skip, View, Reads, Passes, HostOnly, Configures, Chat, host, adapter, engine, sync
    <3>. QED  BY <2>2, <3>1
  <2>. QED  BY <1>2, <2>3, <2>4, <2>5, <2>6, <2>7 DEF Steady
<1>. QED  BY <1>1, <1>2, InStepBack

-----------------------------------------------------------------------------
(* The deltas add up                                                         *)

LEMMA WritesRead ==
  ASSUME Types, down # <<>>, down' = Tail(down), NEW f
  PROVE  /\ \A i \in Writes(f)' : i + 1 \in Writes(f) /\ down'[i] = down[i + 1] /\ i \in Nat
         /\ \A i \in Writes(f) : i # 1 => i - 1 \in Writes(f)' /\ down'[i - 1] = down[i]
<1>. QED  BY DownRead DEF Writes

LEMMA LastRead ==
  ASSUME Types, down # <<>>, down' = Tail(down), NEW f, NEW i, IsLast(i, f)
  PROVE  /\ i = 1 => Writes(f)' = {}
         /\ i # 1 => IsLast(i - 1, f)' /\ down'[i - 1] = down[i]
<1>1. i \in Nat /\ 1 =< i
  BY DownMessages DEF IsLast, Writes
<1>2. \A j \in Writes(f)' : j + 1 \in Writes(f) /\ j \in Nat /\ 1 =< j
  BY DownRead DEF Writes
<1>3. \A j \in Writes(f)' : j + 1 =< i
  BY <1>2 DEF IsLast
<1>4. CASE i = 1
  BY <1>2, <1>3, <1>4
<1>5. CASE i # 1
  <2>1. i - 1 \in Writes(f)' /\ down'[i - 1] = down[i]
    BY <1>5, WritesRead DEF IsLast
  <2>2. \A j \in Writes(f)' : j =< i - 1
    BY <1>1, <1>2, <1>3
  <2>. QED  BY <1>5, <2>1, <2>2 DEF IsLast
<1>. QED  BY <1>4, <1>5

LEMMA NoneRead ==
  ASSUME Types, down # <<>>, down' = Tail(down), NEW f, Writes(f) = {}
  PROVE  Writes(f)' = {}
BY WritesRead

LEMMA WritesWritten ==
  ASSUME Types, NEW m, down' = Append(down, m), NEW f
  PROVE  /\ m.type = "state" /\ f \in DOMAIN m.delta =>
              \E i \in Writes(f)' : IsLast(i, f)' /\ down'[i] = m
         /\ ~(m.type = "state" /\ f \in DOMAIN m.delta) =>
              Writes(f)' = Writes(f) /\ \A i \in Writes(f) : down'[i] = down[i]
<1>1. CASE m.type = "state" /\ f \in DOMAIN m.delta
  <2>1. PICK i \in Nat : i = Len(down) + 1
    BY DownMessages
  <2>2. i \in Writes(f)' /\ down'[i] = m
    BY <1>1, <2>1, DownWritten DEF Writes
  <2>3. \A j \in Writes(f)' : j =< i
    BY <2>1, DownWritten DEF Writes
  <2>. QED  BY <1>1, <2>2, <2>3 DEF IsLast
<1>2. CASE ~(m.type = "state" /\ f \in DOMAIN m.delta)
  <2>1. \A i : i \in Writes(f)' <=> i \in Writes(f)
    BY <1>2, DownWritten DEF Writes
  <2>2. \A i \in Writes(f) : down'[i] = down[i]
    BY DownWritten DEF Writes
  <2>. QED  BY <1>2, <2>1, <2>2
<1>. QED  BY <1>1, <1>2

LEMMA ConfigureWrites ==
  ASSUME Types, Configures, NEW f
  PROVE  Writes(f)' = Writes(f) /\ \A i \in Writes(f) : down'[i] = down[i]
<1>. DEFINE m == Configuration
<1>1. down' = Append(down, m)
  BY DEF Configures
<1>2. m.type # "state"
  BY DEF Configuration
<1>. HIDE DEF m
<1>. QED  BY <1>1, <1>2, WritesWritten

LEMMA AgreesNext ==
  ASSUME Base, ConfiguredInv, SentInv, TagsInv, FreshInv, AgreesInv, Step
  PROVE  AgreesInv'
<1>. SUFFICES ASSUME InStep', NEW f \in Field
              PROVE  Agrees(f)'
  BY DEF AgreesInv
<1>. USE DEF Base
<1>1. CASE Begin /\ Fresh /\ StateMsgs = {}
  <2>1. state' = EmptyState /\ lastSent' = EmptyState /\ down' = down
    BY <1>1 DEF Begin, Reads, ResetSessionAI, host, adapter, FreshInv
  <2>2. Writes(f)' = {}
    BY <1>1, <2>1 DEF StateMsgs, Writes
  <2>. QED  BY <2>1, <2>2 DEF Agrees
<1>2. CASE Steady /\ InStep
  <2>0. Agrees(f)
    BY <1>2 DEF AgreesInv
  <2>1. CASE UNCHANGED <<down, lastSent>>
             /\ (state'[f] = state[f] \/ (f \in OneShot /\ state'[f] = NoTarget))
    BY <2>0, <2>1 DEF Agrees, IsLast, Writes
  <2>2. CASE Merges
    <3>1. /\ down # <<>> /\ down' = Tail(down) /\ Head(down) = down[1] /\ 1 \in 1 .. Len(down)
          /\ state' = Merge(state, down[1].delta) /\ down[1].type = "state"
          /\ lastSent' = lastSent
      BY <2>2, DownRead DEF Merges, HostOnly, engine, sync
    <3>2. CASE f \in DOMAIN down[1].delta
      <4>1. 1 \in Writes(f) /\ state'[f] = down[1].delta[f]
        BY <3>1, <3>2 DEF Writes, Merge
      <4>2. PICK i \in Writes(f) : IsLast(i, f) /\ down[i].delta[f] = lastSent[f]
        BY <2>0, <4>1 DEF Agrees
      <4>3. CASE i = 1
        BY <3>1, <4>1, <4>2, <4>3, LastRead DEF Agrees
      <4>4. CASE i # 1
        <5>1. IsLast(i - 1, f)' /\ down'[i - 1] = down[i]
          BY <3>1, <4>2, <4>4, LastRead
        <5>2. i - 1 \in Writes(f)' /\ down'[i - 1].delta[f] = lastSent'[f]
          BY <3>1, <4>2, <5>1 DEF IsLast
        <5>. QED  BY <5>1, <5>2 DEF Agrees
      <4>. QED  BY <4>3, <4>4
    <3>3. CASE f \notin DOMAIN down[1].delta
      <4>1. state'[f] = state[f] /\ 1 \notin Writes(f)
        BY <3>1, <3>3 DEF Merge, Writes
      <4>2. CASE Writes(f) = {}
        BY <2>0, <3>1, <4>1, <4>2, NoneRead DEF Agrees
      <4>3. CASE Writes(f) # {}
        <5>1. PICK i \in Writes(f) : IsLast(i, f) /\ down[i].delta[f] = lastSent[f]
          BY <2>0, <4>3 DEF Agrees
        <5>2. IsLast(i - 1, f)' /\ down'[i - 1] = down[i]
          BY <3>1, <4>1, <5>1, LastRead
        <5>3. i - 1 \in Writes(f)' /\ down'[i - 1].delta[f] = lastSent'[f]
          BY <3>1, <5>1, <5>2 DEF IsLast
        <5>. QED  BY <5>2, <5>3 DEF Agrees
      <4>. QED  BY <4>2, <4>3
    <3>. QED  BY <3>2, <3>3
  <2>3. CASE Passes /\ Head(down).type # "state"
    <3>1. /\ down # <<>> /\ down' = Tail(down) /\ Head(down) = down[1]
          /\ UNCHANGED <<state, lastSent>>
      BY <2>3, DownRead DEF Passes, HostOnly, engine, sync
    <3>2. 1 \notin Writes(f)
      BY <2>3, <3>1 DEF Writes
    <3>3. CASE Writes(f) = {}
      BY <2>0, <3>1, <3>3, NoneRead DEF Agrees
    <3>4. CASE Writes(f) # {}
      <4>1. PICK i \in Writes(f) : IsLast(i, f) /\ down[i].delta[f] = lastSent[f]
        BY <2>0, <3>4 DEF Agrees
      <4>2. IsLast(i - 1, f)' /\ down'[i - 1] = down[i]
        BY <3>1, <3>2, <4>1, LastRead
      <4>3. i - 1 \in Writes(f)' /\ down'[i - 1].delta[f] = lastSent'[f]
        BY <3>1, <4>1, <4>2 DEF IsLast
      <4>. QED  BY <4>2, <4>3 DEF Agrees
    <3>. QED  BY <3>3, <3>4
  <2>4. CASE Selects
    <3>1. state' = state
      BY <2>4 DEF Selects, host, adapter
    <3>2. CASE Idle
      BY <2>1, <3>1, <3>2 DEF Idle
    <3>3. CASE Sends
      <4>. DEFINE m == StateMsg(Diff(lastSent, desired'), <<remote, ctlSeq'>>)
      <4>1. hostUp
        BY <1>2 DEF InStep, ConfiguredInv
      <4>2. down' = Append(down, m) /\ lastSent' = desired'
        BY <3>3, <4>1 DEF Sends, SendControllerState
      <4>3. /\ m.type = "state" /\ (f \in DOMAIN m.delta <=> lastSent[f] # lastSent'[f])
            /\ lastSent[f] # lastSent'[f] => m.delta[f] = lastSent'[f]
        BY <4>2 DEF StateMsg, Diff
      <4>. HIDE DEF m
      <4>4. CASE f \in DOMAIN m.delta
        <5>1. PICK i \in Writes(f)' : IsLast(i, f)' /\ down'[i] = m
          BY <4>2, <4>3, <4>4, WritesWritten
        <5>. QED  BY <4>3, <4>4, <5>1 DEF Agrees
      <4>5. CASE f \notin DOMAIN m.delta
        <5>1. Writes(f)' = Writes(f) /\ \A i \in Writes(f) : down'[i] = down[i]
          BY <4>2, <4>5, WritesWritten
        <5>. QED  BY <2>0, <3>1, <4>3, <4>5, <5>1 DEF Agrees, IsLast
      <4>. QED  BY <4>4, <4>5
    <3>. QED  BY <2>4, <3>2, <3>3 DEF Selects, Clears, Orders
  <2>5. CASE Configures
    <3>1. UNCHANGED <<state, lastSent>>
      BY <2>5 DEF Configures, host, adapter, engine, sync
    <3>2. Writes(f)' = Writes(f) /\ \A i \in Writes(f) : down'[i] = down[i]
      BY <2>5, ConfigureWrites
    <3>. QED  BY <2>0, <3>1, <3>2 DEF Agrees, IsLast
  <2>6. CASE \E starts \in StartResults : Ticks(starts)
    <3>1. UNCHANGED <<down, lastSent>>
          /\ state' = [g \in Field |-> IF g \in Due THEN NoTarget ELSE state[g]]
      BY <2>6 DEF Ticks, HostOnly, engine, sync
    <3>2. state'[f] = state[f] \/ (f \in OneShot /\ state'[f] = NoTarget)
      BY <3>1 DEF Due
    <3>. QED  BY <2>1, <3>1, <3>2
  <2>7. CASE Skip \/ View \/ Chat \/ \E j \in jobs : \E fresh : Settled(j, fresh)
    <3>1. UNCHANGED <<down, lastSent, state>>
      BY <2>7 DEF Skip, View, Reads, Chat, Settled, HostOnly, host, adapter, engine, sync
    <3>. QED  BY <2>1, <3>1
  <2>. QED  BY <1>2, <2>2, <2>3, <2>4, <2>5, <2>6, <2>7 DEF Steady
<1>. QED  BY <1>1, <1>2, InStepBack
-----------------------------------------------------------------------------
(* Keys of outcomes                                                          *)

LEMMA KeysUnion ==
  ASSUME NEW A, NEW B
  PROVE  Keys(A \cup B) = Keys(A) \cup Keys(B) /\ Keys({}) = {}
BY DEF Keys

LEMMA SingleUnion ==
  ASSUME NEW A, NEW B, Single(A), Single(B), Apart(A, B)
  PROVE  Single(A \cup B)
<1>. SUFFICES ASSUME NEW o \in A \cup B, NEW p \in A \cup B, KeyOf(o) = KeyOf(p)
              PROVE  o = p
  BY DEF Single
<1>1. \A a \in A, b \in B : KeyOf(a) # KeyOf(b)
  BY DEF Apart, Keys
<1>. QED  BY <1>1 DEF Single

LEMMA ApartUnion ==
  ASSUME NEW A, NEW B, NEW C, Apart(A, B), Apart(A, C)
  PROVE  Apart(A, B \cup C)
BY KeysUnion DEF Apart

\* What is newly reported is apart from all that has been.
LEMMA NewApart ==
  ASSUME NEW A, NEW fresh, Keys(A) \subseteq reported, \A o \in fresh : KeyOf(o) \notin reported
  PROVE  Apart(A, fresh)
BY DEF Apart, Keys

LEMMA SettledFresh ==
  ASSUME NEW j, NEW fresh, Settled(j, fresh)
  PROVE  Single(fresh) /\ \A o \in fresh : KeyOf(o) \notin reported
<1>1. CASE j.kind \in OneShot
  BY <1>1 DEF Settled, Reports
<1>2. CASE j.kind \notin OneShot
  BY <1>2 DEF Settled, Single
<1>. QED  BY <1>1, <1>2

\* The realities on their way after a message was read.
LEMMA RealitiesRead ==
  ASSUME Types, Skip \/ View \/ Begin
  PROVE  /\ \A i \in Realities' : i + 1 \in Realities /\ i + 1 # 1 /\ up'[i] = up[i + 1]
         /\ \A i \in Realities : i # 1 => i - 1 \in Realities' /\ up'[i - 1] = up[i]
         /\ Head(up) = up[1]
         /\ View => 1 \in Realities
<1>1. up # <<>> /\ up' = Tail(up)
  BY DEF Skip, View, Begin, Reads
<1>2. /\ 1 \in 1 .. Len(up) /\ Head(up) = up[1]
      /\ \A i \in 1 .. Len(up') : /\ up'[i] = up[i + 1] /\ i + 1 \in 1 .. Len(up)
                                  /\ i + 1 # 1
      /\ \A i \in 1 .. Len(up) : i # 1 => i - 1 \in 1 .. Len(up') /\ up'[i - 1] = up[i]
  BY <1>1, UpRead
<1>. QED  BY <1>2 DEF Realities, View

\* After a tick there is one more.
LEMMA RealitiesTicked ==
  ASSUME Types, NEW starts, Ticks(starts)
  PROVE  \E n \in Realities' :
           /\ up'[n].session = session /\ up'[n].outcomes = buffer \cup Found(starts)
           /\ n \notin Realities
           /\ \A i \in Realities' : i = n \/ (i \in Realities /\ up'[i] = up[i])
           /\ \A i \in Realities : i \in Realities' /\ up'[i] = up[i]
<1>. DEFINE m == RealityMsg(session, buffer \cup Found(starts))
<1>1. up' = Append(up, m)
  BY DEF Ticks
<1>2. /\ m.type = "reality" /\ m.session = session /\ m.outcomes = buffer \cup Found(starts)
  BY DEF RealityMsg
<1>. HIDE DEF m
<1>3. PICK n \in Nat : n = Len(up) + 1
  BY UpMessages
<1>4. n \in Realities' /\ up'[n] = m
  BY <1>1, <1>2, <1>3, UpWritten DEF Realities
<1>5. n \notin Realities
  BY <1>3, UpMessages DEF Realities
<1>6. \A i \in Realities' : i = n \/ (i \in Realities /\ up'[i] = up[i])
  BY <1>1, <1>3, UpWritten DEF Realities
<1>7. \A i \in Realities : i \in Realities' /\ up'[i] = up[i]
  BY <1>1, UpWritten DEF Realities
<1>. QED  BY <1>2, <1>4, <1>5, <1>6, <1>7

\* The other steps add none.
LEMMA RealitiesKept ==
  ASSUME Types, Types',
         Selects \/ Merges \/ Passes \/ Connects \/ (\E j \in jobs : \E fresh : Settled(j, fresh))
           \/ Death \/ Configures \/ Chat
  PROVE  Realities' = Realities /\ \A i \in Realities : up'[i] = up[i]
<1>1. up' = up \/ Chats
  BY DEF Selects, Merges, Passes, Connects, Settled, Death, Configures, Chat
<1>2. CASE up' = up
  BY <1>2 DEF Realities
<1>. QED  BY <1>1, <1>2, Chatted

\* The feedback in the view is of a session the engine has known, or empty.
LEMMA RealitySession ==
  ASSUME Base
  PROVE  /\ reality.session \in Nat /\ reality.session =< sessions
         /\ reality.session = 0 => reality.outcomes = {}
         /\ reality.session # 0 => reality.session = remote
<1>1. remote \in Nat /\ sessions \in Nat /\ remote =< sessions /\ reality.session \in Nat
  BY DEF Base, Types, EngineTypeOK, HostTypes, HostTypeOK, SessionInv, Ordered
<1>2. NoReality.session = 0 /\ NoReality.outcomes = {}
  BY DEF NoReality
<1>3. reality = NoReality \/ (reality.session = remote /\ remote # 0)
  BY DEF Base, RealityInv, RealityOfThisSession
<1>. QED  BY <1>1, <1>2, <1>3

LEMMA ReportedNext ==
  ASSUME Base, Types', UpInv, ReportedInv, Step
  PROVE  ReportedInv'
<1>. USE DEF Base
<1>1. CASE Skip \/ View \/ Begin
  <2>1. UNCHANGED <<session, buffer, reported>>
    BY <1>1 DEF Skip, View, Begin, Reads, host, controller, adapter
  <2>2. \A i \in Realities' : up'[i].session = session => Keys(up'[i].outcomes) \subseteq reported
    BY <1>1, RealitiesRead DEF ReportedInv
  <2>3. reality'.session = session => Keys(reality'.outcomes) \subseteq reported
    <3>1. CASE Skip
      BY <3>1 DEF Skip, ReportedInv
    <3>2. CASE View
      <4>1. 1 \in Realities /\ reality' = [session |-> up[1].session, outcomes |-> up[1].outcomes]
        BY <3>2, RealitiesRead DEF View
      <4>. QED  BY <4>1 DEF ReportedInv
    <3>3. CASE Begin
      <4>1. reality'.outcomes = {}
        BY <3>3 DEF Begin, NoReality
      <4>. QED  BY <4>1 DEF Keys
    <3>. QED  BY <1>1, <3>1, <3>2, <3>3
  <2>. QED  BY <2>1, <2>2, <2>3 DEF ReportedInv
<1>2. CASE \E starts \in StartResults : Ticks(starts)
  <2>1. PICK starts \in StartResults : Ticks(starts)
    BY <1>2
  <2>2. /\ buffer' = {} /\ reported' = reported \cup Keys(Found(starts))
        /\ UNCHANGED <<session, reality>>
    BY <2>1 DEF Ticks, HostOnly, engine
  <2>3. PICK n \in Realities' :
           /\ up'[n].outcomes = buffer \cup Found(starts)
           /\ \A i \in Realities' : i = n \/ (i \in Realities /\ up'[i] = up[i])
    BY <2>1, RealitiesTicked
  <2>4. Keys(up'[n].outcomes) \subseteq reported'
    BY <2>2, <2>3, KeysUnion DEF ReportedInv
  <2>. QED  BY <2>2, <2>3, <2>4, KeysUnion DEF ReportedInv
<1>3. ASSUME Realities' = Realities, \A i \in Realities : up'[i] = up[i],
             UNCHANGED <<session, reality>>, reported \subseteq reported',
             Keys(buffer') \subseteq reported'
      PROVE  ReportedInv'
  BY <1>3 DEF ReportedInv
<1>4. CASE \E j \in jobs : \E fresh : Settled(j, fresh)
  <2>1. PICK j, fresh : j \in jobs /\ Settled(j, fresh)
    BY <1>4
  <2>2. /\ buffer' = buffer \cup fresh /\ reported' = reported \cup Keys(fresh)
        /\ UNCHANGED <<session, reality>>
    BY <2>1 DEF Settled, HostOnly, engine
  <2>3. Keys(buffer') \subseteq reported' /\ reported \subseteq reported'
    BY <2>2, KeysUnion DEF ReportedInv
  <2>. QED  BY <1>3, <1>4, <2>2, <2>3, RealitiesKept
<1>5. CASE Connects
  <2>1. /\ session' = sessions + 1 /\ buffer' = {} /\ reality' = reality
        /\ Realities' = Realities /\ \A i \in Realities : up'[i] = up[i]
    BY <1>5, RealitiesKept DEF Connects, engine
  <2>2. \A i \in Realities : up[i].session # session'
    BY <2>1, UpSessions DEF SessionInv, Ordered, Realities
  <2>3. reality.session # session'
    BY <2>1, RealitySession, UpSessions
  <2>. QED  BY <2>1, <2>2, <2>3, KeysUnion DEF ReportedInv
<1>6. CASE Death
  <2>1. /\ session' = 0 /\ buffer' = {} /\ reality' = reality
        /\ Realities' = Realities /\ \A i \in Realities : up'[i] = up[i]
    BY <1>6, RealitiesKept DEF Death, Dies, engine
  <2>2. \A i \in Realities : up[i].session # session'
    BY <2>1 DEF UpInv, Realities
  <2>. QED  BY <2>1, <2>2, RealitySession, KeysUnion DEF ReportedInv
<1>7. CASE Selects \/ Merges \/ Passes \/ Configures \/ Chat
  <2>1. UNCHANGED <<session, reality, buffer, reported>>
    BY <1>7 DEF Selects, Merges, Passes, Configures, Chat, HostOnly, host, controller, adapter, engine
  <2>2. Keys(buffer') \subseteq reported'
    BY <2>1 DEF ReportedInv
  <2>. QED  BY <1>3, <1>7, <2>1, <2>2, RealitiesKept
<1>. QED  BY <1>1, <1>2, <1>4, <1>5, <1>6, <1>7 DEF Step

LEMMA AnswersNext ==
  ASSUME Base, Types', ReportedInv, AnswersInv, Step
  PROVE  AnswersInv'
<1>. USE DEF Base
<1>0. Single({}) /\ \A A : Apart(A, {}) /\ Apart({}, A)
  BY DEF Single, Apart, Keys
<1>1. CASE Skip \/ View \/ Begin
  <2>1. UNCHANGED <<session, buffer>>
    BY <1>1 DEF Skip, View, Begin, Reads, host, controller
  <2>2. /\ \A i \in Realities' : Single(up'[i].outcomes)
        /\ \A i \in Realities' : up'[i].session = session => Apart(up'[i].outcomes, buffer)
    BY <1>1, RealitiesRead DEF AnswersInv
  <2>3. \A i, j \in Realities' :
          i # j /\ up'[i].session = up'[j].session => Apart(up'[i].outcomes, up'[j].outcomes)
    <3>. SUFFICES ASSUME NEW i \in Realities', NEW j \in Realities', i # j,
                         up'[i].session = up'[j].session
                  PROVE  Apart(up'[i].outcomes, up'[j].outcomes)
      OBVIOUS
    <3>1. /\ i + 1 \in Realities /\ j + 1 \in Realities
          /\ up'[i] = up[i + 1] /\ up'[j] = up[j + 1]
      BY <1>1, RealitiesRead
    <3>2. i + 1 # j + 1
      BY DEF Realities
    <3>. QED  BY <3>1, <3>2 DEF AnswersInv
  <2>4. /\ Single(reality'.outcomes)
        /\ \A i \in Realities' : up'[i].session = reality'.session => Apart(up'[i].outcomes, reality'.outcomes)
        /\ reality'.session = session => Apart(reality'.outcomes, buffer)
    <3>1. CASE Skip
      <4>1. reality' = reality
        BY <3>1 DEF Skip
      <4>. QED  BY <1>1, <4>1, RealitiesRead DEF AnswersInv
    <3>2. CASE View
      <4>1. 1 \in Realities /\ reality' = [session |-> up[1].session, outcomes |-> up[1].outcomes]
        BY <3>2, RealitiesRead DEF View
      <4>2. \A i \in Realities' : i + 1 \in Realities /\ i + 1 # 1 /\ up'[i] = up[i + 1]
        BY <1>1, RealitiesRead
      <4>. QED  BY <4>1, <4>2 DEF AnswersInv
    <3>3. CASE Begin
      <4>1. reality'.outcomes = {}
        BY <3>3 DEF Begin, NoReality
      <4>. QED  BY <1>0, <4>1
    <3>. QED  BY <1>1, <3>1, <3>2, <3>3
  <2>. QED  BY <2>1, <2>2, <2>3, <2>4 DEF AnswersInv
<1>2. CASE \E starts \in StartResults : Ticks(starts)
  <2>1. PICK starts \in StartResults : Ticks(starts)
    BY <1>2
  <2>. DEFINE F == Found(starts)
  <2>2. buffer' = {} /\ UNCHANGED <<session, reality>>
    BY <2>1 DEF Ticks, HostOnly, engine
  <2>3. Single(F) /\ \A o \in F : KeyOf(o) \notin reported
    BY FoundReports DEF Reports
  <2>4. PICK n \in Realities' :
           /\ up'[n].session = session /\ up'[n].outcomes = buffer \cup F
           /\ n \notin Realities
           /\ \A i \in Realities' : i = n \/ (i \in Realities /\ up'[i] = up[i])
    BY <2>1, RealitiesTicked
  <2>. HIDE DEF F
  <2>5. Single(buffer \cup F)
    BY <2>3, SingleUnion, NewApart DEF AnswersInv, ReportedInv
  <2>6. ASSUME NEW i \in Realities, up[i].session = session
        PROVE  Apart(up[i].outcomes, buffer \cup F)
    <3>1. Apart(up[i].outcomes, buffer) /\ Keys(up[i].outcomes) \subseteq reported
      BY <2>6 DEF AnswersInv, ReportedInv
    <3>. QED  BY <2>3, <3>1, ApartUnion, NewApart
  <2>7. reality.session = session => Apart(buffer \cup F, reality.outcomes)
    <3>1. reality.session = session => Apart(reality.outcomes, buffer \cup F)
      BY <2>3, ApartUnion, NewApart DEF AnswersInv, ReportedInv
    <3>. QED  BY <3>1 DEF Apart
  <2>8. \A i, j \in Realities' :
          i # j /\ up'[i].session = up'[j].session => Apart(up'[i].outcomes, up'[j].outcomes)
    <3>. SUFFICES ASSUME NEW i \in Realities', NEW j \in Realities', i # j,
                         up'[i].session = up'[j].session
                  PROVE  Apart(up'[i].outcomes, up'[j].outcomes)
      OBVIOUS
    <3>1. CASE i # n /\ j # n
      BY <2>4, <3>1 DEF AnswersInv
    <3>2. CASE j = n
      BY <2>4, <2>6, <3>2
    <3>3. CASE i = n
      <4>1. Apart(up'[j].outcomes, up'[i].outcomes)
        BY <2>4, <2>6, <3>3
      <4>. QED  BY <4>1 DEF Apart
    <3>. QED  BY <3>1, <3>2, <3>3
  <2>. QED  BY <1>0, <2>2, <2>4, <2>5, <2>7, <2>8 DEF AnswersInv
<1>3. CASE \E j \in jobs : \E fresh : Settled(j, fresh)
  <2>1. PICK j, fresh : j \in jobs /\ Settled(j, fresh)
    BY <1>3
  <2>2. buffer' = buffer \cup fresh /\ UNCHANGED <<session, reality>>
        /\ Realities' = Realities /\ \A i \in Realities : up'[i] = up[i]
    BY <1>3, <2>1, RealitiesKept DEF Settled, HostOnly, engine
  <2>3. Single(fresh) /\ \A o \in fresh : KeyOf(o) \notin reported
    BY <2>1, SettledFresh
  <2>4. Single(buffer \cup fresh)
    BY <2>3, SingleUnion, NewApart DEF AnswersInv, ReportedInv
  <2>5. ASSUME NEW i \in Realities, up[i].session = session
        PROVE  Apart(up[i].outcomes, buffer \cup fresh)
    <3>1. Apart(up[i].outcomes, buffer) /\ Keys(up[i].outcomes) \subseteq reported
      BY <2>5 DEF AnswersInv, ReportedInv
    <3>. QED  BY <2>3, <3>1, ApartUnion, NewApart
  <2>6. ASSUME reality.session = session
        PROVE  Apart(reality.outcomes, buffer \cup fresh)
    <3>1. Apart(reality.outcomes, buffer) /\ Keys(reality.outcomes) \subseteq reported
      BY <2>6 DEF AnswersInv, ReportedInv
    <3>2. Apart(reality.outcomes, fresh)
      BY <2>3, <3>1, NewApart
    <3>. QED  BY <3>1, <3>2, ApartUnion
  <2>7. /\ \A i \in Realities' : Single(up'[i].outcomes)
        /\ \A a, b \in Realities' :
             a # b /\ up'[a].session = up'[b].session => Apart(up'[a].outcomes, up'[b].outcomes)
    BY <2>2 DEF AnswersInv
  <2>8. \A i \in Realities' :
          /\ up'[i].session = session => Apart(up'[i].outcomes, buffer')
          /\ up'[i].session = reality.session => Apart(up'[i].outcomes, reality.outcomes)
    BY <2>2, <2>5 DEF AnswersInv
  <2>9. Single(buffer') /\ Single(reality.outcomes)
        /\ (reality.session = session => Apart(reality.outcomes, buffer'))
    BY <2>2, <2>4, <2>6 DEF AnswersInv
  <2>. QED  BY <2>2, <2>7, <2>8, <2>9 DEF AnswersInv
<1>4. CASE Connects \/ Death
  <2>1. buffer' = {} /\ reality' = reality /\ Realities' = Realities /\ \A i \in Realities : up'[i] = up[i]
    BY <1>4, RealitiesKept DEF Connects, Death, Dies, engine
  <2>. QED  BY <1>0, <2>1 DEF AnswersInv
<1>5. CASE Selects \/ Merges \/ Passes \/ Configures \/ Chat
  <2>1. UNCHANGED <<session, reality, buffer>>
    BY <1>5 DEF Selects, Merges, Passes, Configures, Chat, HostOnly, host, controller, engine
  <2>2. Realities' = Realities /\ \A i \in Realities : up'[i] = up[i]
    BY <1>5, RealitiesKept
  <2>. QED  BY <2>1, <2>2 DEF AnswersInv
<1>. QED  BY <1>1, <1>2, <1>3, <1>4, <1>5 DEF Step
-----------------------------------------------------------------------------
(* The answer to the one-shot in flight                                      *)

LEMMA OneShotField == \A k \in OneShot : k \in Field /\ k # "none" /\ k # "break"
BY DEF OneShot, Field

\* While feedback does not end it, the one-shot in flight is the same.
LEMMA StillInFlight ==
  ASSUME NEW k \in OneShot, InFlightAfterFeedback.action = k
  PROVE  InFlightAfterFeedback = inFlight /\ ~Answered
BY OneShotField DEF InFlightAfterFeedback, NoInFlight

LEMMA CarriedOn ==
  ASSUME NEW key, Carried(key), UNCHANGED <<buffer, reality, session>>,
         Realities' = Realities, \A i \in Realities : up'[i] = up[i]
  PROVE  Carried(key)'
BY DEF Carried

\* A delta that is read takes its one-shot to the adapter.
LEMMA HeldRead ==
  ASSUME Types, NEW k \in OneShot, NEW c \in Nat, Held(k, c), Merges
  PROVE  Held(k, c)'
<1>1. /\ down # <<>> /\ down' = Tail(down) /\ Head(down) = down[1] /\ 1 \in 1 .. Len(down)
      /\ state' = Merge(state, down[1].delta) /\ tags' = RecordActionSequences(down[1])
      /\ down[1].type = "state"
      /\ {j \in jobs' : j.kind \in OneShot} = {j \in jobs : j.kind \in OneShot}
  BY DownRead DEF Merges
<1>2. k \in Field
  BY OneShotField
<1>3. CASE \E i \in Writes(k) : /\ IsLast(i, k) /\ down[i].tag[2] = c
                                /\ down[i].delta[k] # NoTarget
  <2>1. PICK i \in Writes(k) : IsLast(i, k) /\ down[i].tag[2] = c /\ down[i].delta[k] # NoTarget
    BY <1>3
  <2>2. CASE i = 1
    <3>1. Writes(k)' = {}
      BY <1>1, <2>1, <2>2, LastRead
    <3>2. k \in DOMAIN down[1].delta
      BY <2>2 DEF Writes
    <3>3. state'[k] = down[1].delta[k] /\ tags'[k] = down[1].tag
      BY <1>1, <1>2, <2>1, <2>2, <3>2, RecordedTag DEF Merge
    <3>. QED  BY <2>1, <2>2, <3>1, <3>3 DEF Held
  <2>3. CASE i # 1
    <3>1. IsLast(i - 1, k)' /\ down'[i - 1] = down[i]
      BY <1>1, <2>1, <2>3, LastRead
    <3>2. i - 1 \in Writes(k)'
      BY <3>1 DEF IsLast
    <3>. QED  BY <2>1, <3>1, <3>2 DEF Held
  <2>. QED  BY <2>2, <2>3
<1>4. CASE Writes(k) = {}
  <2>1. Writes(k)' = {} /\ k \notin DOMAIN down[1].delta
    BY <1>1, <1>4, NoneRead DEF Writes
  <2>2. state'[k] = state[k] /\ tags'[k] = tags[k]
    BY <1>1, <1>2, <2>1, RecordedTag DEF Merge
  <2>3. ASSUME NEW j \in jobs, j.kind = k
        PROVE  j \in jobs'
    BY <1>1, <2>3
  <2>. QED  BY <1>4, <2>1, <2>2, <2>3 DEF Held
<1>. QED  BY <1>3, <1>4 DEF Held

LEMMA HeldPast ==
  ASSUME Types, NEW k \in OneShot, NEW c \in Nat, Held(k, c), Passes, Head(down).type # "state"
  PROVE  Held(k, c)'
<1>1. /\ down # <<>> /\ down' = Tail(down) /\ Head(down) = down[1]
      /\ UNCHANGED <<state, tags, jobs>>
  BY DownRead DEF Passes
<1>2. CASE \E i \in Writes(k) : /\ IsLast(i, k) /\ down[i].tag[2] = c
                                /\ down[i].delta[k] # NoTarget
  <2>1. PICK i \in Writes(k) : IsLast(i, k) /\ down[i].tag[2] = c /\ down[i].delta[k] # NoTarget
    BY <1>2
  <2>2. i # 1
    BY <1>1 DEF Writes
  <2>3. IsLast(i - 1, k)' /\ down'[i - 1] = down[i]
    BY <1>1, <2>1, <2>2, LastRead
  <2>4. i - 1 \in Writes(k)'
    BY <2>3 DEF IsLast
  <2>. QED  BY <2>1, <2>3, <2>4 DEF Held
<1>3. CASE Writes(k) = {}
  <2>1. Writes(k)' = {}
    BY <1>1, <1>3, NoneRead
  <2>. QED  BY <1>1, <1>3, <2>1 DEF Held
<1>. QED  BY <1>2, <1>3 DEF Held

\* A tick starts the one-shot it finds, or reports it.
LEMMA HeldTicked ==
  ASSUME Types, NEW k \in OneShot, NEW c \in Nat, c # 0, Held(k, c),
         NEW starts \in StartResults, Ticks(starts)
  PROVE  Held(k, c)' \/ <<k, c>> \in reported'
<1>1. /\ UNCHANGED <<down, tags>> /\ reported' = reported \cup Keys(Found(starts))
      /\ {j \in jobs' : j.kind \in OneShot}
           = {j \in jobs : j.kind \in OneShot} \cup Started(starts)
  BY DEF Ticks
<1>2. Writes(k)' = Writes(k)
  BY <1>1 DEF Writes
<1>3. CASE Writes(k) # {}
  <2>1. PICK i \in Writes(k) : IsLast(i, k) /\ down[i].tag[2] = c /\ down[i].delta[k] # NoTarget
    BY <1>3 DEF Held
  <2>2. i \in Writes(k)' /\ IsLast(i, k)'
    BY <1>1, <1>2, <2>1 DEF IsLast
  <2>. QED  BY <1>1, <2>1, <2>2 DEF Held
<1>4. CASE Writes(k) = {} /\ \E j \in jobs : j.kind = k /\ j.tag = tags[k]
  <2>1. PICK j \in jobs : j.kind = k /\ j.tag = tags[k]
    BY <1>4
  <2>2. j \in jobs' /\ tags[k][2] = c
    BY <1>1, <1>4, <2>1 DEF Held
  <2>. QED  BY <1>1, <1>2, <1>4, <2>1, <2>2 DEF Held
<1>5. CASE Writes(k) = {} /\ tags[k][2] = c /\ state[k] # NoTarget
  <2>1. k \in Due
    BY <1>5 DEF Due
  <2>2. CASE k \in Ended(starts)
    BY <1>1, <1>5, <2>2, FoundReports DEF Reports
  <2>3. CASE k \notin Ended(starts)
    <3>1. NewJob(k) \in Started(starts) /\ NewJob(k).kind = k /\ NewJob(k).tag = tags[k]
      BY <2>1, <2>3 DEF Started, NewJob
    <3>2. NewJob(k) \in jobs'
      BY <1>1, <3>1
    <3>. QED  BY <1>1, <1>2, <1>5, <3>1, <3>2 DEF Held
  <2>. QED  BY <2>2, <2>3
<1>. QED  BY <1>3, <1>4, <1>5 DEF Held

\* A promise that settles reports.
LEMMA HeldSettled ==
  ASSUME Types, NEW k \in OneShot, NEW c \in Nat, c # 0, Held(k, c),
         NEW j \in jobs, NEW fresh, Settled(j, fresh)
  PROVE  Held(k, c)' \/ <<k, c>> \in reported'
<1>1. /\ UNCHANGED <<down, tags, state>> /\ reported' = reported \cup Keys(fresh)
      /\ jobs' = jobs \ {j}
  BY DEF Settled
<1>2. Writes(k)' = Writes(k)
  BY <1>1 DEF Writes
<1>3. CASE \E i \in Writes(k) : /\ IsLast(i, k) /\ down[i].tag[2] = c
                                /\ down[i].delta[k] # NoTarget
  <2>1. PICK i \in Writes(k) : IsLast(i, k) /\ down[i].tag[2] = c /\ down[i].delta[k] # NoTarget
    BY <1>3
  <2>2. i \in Writes(k)' /\ IsLast(i, k)'
    BY <1>1, <1>2, <2>1 DEF IsLast
  <2>. QED  BY <1>1, <2>1, <2>2 DEF Held
<1>4. CASE Writes(k) = {} /\ tags[k][2] = c /\ state[k] # NoTarget
  BY <1>1, <1>2, <1>4 DEF Held
<1>5. CASE Writes(k) = {} /\ tags[k][2] = c /\ \E i \in jobs : i.kind = k /\ i.tag = tags[k]
  <2>1. PICK i \in jobs : i.kind = k /\ i.tag = tags[k]
    BY <1>5
  <2>2. CASE i = j
    <3>1. Reports(fresh, {k})
      BY <2>1, <2>2 DEF Settled
    <3>. QED  BY <1>1, <1>5, <3>1 DEF Reports
  <2>3. CASE i # j
    BY <1>1, <1>2, <1>5, <2>1, <2>3 DEF Held
  <2>. QED  BY <2>2, <2>3
<1>. QED  BY <1>3, <1>4, <1>5 DEF Held

LEMMA FlightNext ==
  ASSUME Base, Types', ConfiguredInv, SentInv, TagsInv, SeqsInv, ReportedInv, FlightInv, Step
  PROVE  FlightInv'
<1>. SUFFICES ASSUME NEW k \in OneShot, NEW c \in Nat,
                     InStep', inFlight'.action = k, inFlight'.corr = c, ~outcomeLost'
              PROVE  /\ c \in 1 .. ctlSeq'
                     /\ <<k, c>> \in reported' => Carried(<<k, c>>)'
                     /\ lastSent'[k] = NoTarget \/ <<k, c>> \in reported' \/ Held(k, c)'
  BY DEF FlightInv
<1>. USE DEF Base
<1>0. k \in Field /\ k # "none" /\ ctlSeq \in Nat
  BY OneShotField DEF Types, EngineTypeOK
<1>1. ~Begin
  BY <1>0 DEF Begin, ResetSessionAI, NoInFlight
<1>2. Steady /\ InStep /\ UNCHANGED <<session, sessions, remote>>
  BY <1>1, InStepBack
\* A one-shot that was in flight before the step.
<1>3. ASSUME inFlight' = inFlight, ~outcomeLost
      PROVE  /\ c \in 1 .. ctlSeq
             /\ <<k, c>> \in reported => Carried(<<k, c>>)
             /\ lastSent[k] = NoTarget \/ <<k, c>> \in reported \/ Held(k, c)
  BY <1>2, <1>3 DEF FlightInv
<1>4. CASE Skip \/ View
  <2>1. /\ UNCHANGED <<buffer, reported, session, ctlSeq, lastSent, down, state, tags, jobs>>
        /\ inFlight' = inFlight /\ ~outcomeLost
    <3>1. UNCHANGED host /\ UNCHANGED <<down, sync>>
      BY <1>4 DEF Skip, View, Reads
    <3>2. ~outcomeLost
      BY <1>4 DEF Skip, View
    <3>. QED  BY <3>1, <3>2 DEF host, controller, adapter, sync
  <2>2. Held(k, c)' <=> Held(k, c)
    BY <2>1 DEF Held, IsLast, Writes
  <2>3. ASSUME Carried(<<k, c>>)
        PROVE  Carried(<<k, c>>)'
    <3>1. CASE <<k, c>> \in Keys(buffer)
      BY <2>1, <3>1 DEF Carried
    <3>2. CASE <<k, c>> \in Keys(reality.outcomes)
      <4>1. ~View
        <5>1. PICK o \in reality.outcomes : o.kind = k /\ o.seq = c
          BY <3>2 DEF Keys, KeyOf
        <5>2. o \in Answers(reality.outcomes)
          BY <2>1, <5>1 DEF Answers
        <5>. QED  BY <5>2 DEF View
      <4>2. reality' = reality
        BY <1>4, <4>1 DEF Skip
      <4>. QED  BY <3>2, <4>2 DEF Carried
    <3>3. CASE \E i \in Realities : up[i].session = session /\ <<k, c>> \in Keys(up[i].outcomes)
      <4>1. PICK i \in Realities : up[i].session = session /\ <<k, c>> \in Keys(up[i].outcomes)
        BY <3>3
      <4>2. CASE i # 1
        <5>1. i - 1 \in Realities' /\ up'[i - 1] = up[i]
          BY <1>4, <4>2, RealitiesRead
        <5>. QED  BY <2>1, <4>1, <5>1 DEF Carried
      <4>3. CASE i = 1
        <5>1. Head(up) = up[1] /\ up[1].type = "reality" /\ session = remote
          BY <1>2, <1>4, <4>3, RealitiesRead DEF Realities, InStep
        <5>2. View
          BY <1>4, <4>1, <4>3, <5>1 DEF Skip
        <5>3. reality'.outcomes = up[1].outcomes
          BY <5>1, <5>2 DEF View
        <5>. QED  BY <4>1, <4>3, <5>3 DEF Carried
      <4>. QED  BY <4>2, <4>3
    <3>. QED  BY <2>3, <3>1, <3>2, <3>3 DEF Carried
  <2>. QED  BY <1>3, <2>1, <2>2, <2>3
<1>5. CASE Selects
  <2>1. /\ UNCHANGED <<buffer, reported, session, reality, state, tags, jobs>>
        /\ Realities' = Realities /\ \A i \in Realities : up'[i] = up[i]
        /\ outcomeLost' = (outcomeLost /\ ~Answered)
    BY <1>5, RealitiesKept DEF Selects, host, controller, adapter
  <2>2. Carried(<<k, c>>) => Carried(<<k, c>>)'
    BY <2>1, CarriedOn
  <2>3. CASE inFlight' = InFlightAfterFeedback /\ (Idle \/ Clears)
    <3>1. inFlight' = inFlight /\ ~Answered
      BY <2>3, StillInFlight
    <3>2. ~outcomeLost
      BY <2>1, <3>1
    <3>3. CASE Idle
      <4>1. UNCHANGED <<lastSent, ctlSeq, down>>
        BY <3>3 DEF Idle
      <4>2. Held(k, c)' <=> Held(k, c)
        BY <2>1, <4>1 DEF Held, IsLast, Writes
      <4>. QED  BY <1>3, <2>1, <2>2, <3>1, <3>2, <4>1, <4>2
    <3>4. CASE Clears
      <4>1. ctlSeq' = ctlSeq + 1 /\ lastSent'[k] = NoTarget
        BY <3>4 DEF Clears, Sends
      <4>. QED  BY <1>0, <1>3, <2>1, <2>2, <3>1, <3>2, <4>1
    <3>. QED  BY <2>3, <3>3, <3>4
  <2>4. CASE \E l \in OneShot, t \in Target : Orders(l, t)
    <3>1. PICK t \in Target : Orders(k, t)
      BY <2>4 DEF Orders
    <3>. DEFINE m == StateMsg(Diff(lastSent, desired'), <<remote, ctlSeq'>>)
    <3>2. /\ ctlSeq' = ctlSeq + 1 /\ c = ctlSeq + 1 /\ lastSent[k] # t /\ desired' = Only(k, t)
          /\ down' = Append(down, m)
      BY <1>2, <3>1 DEF Orders, Sends, SendControllerState, InStep, ConfiguredInv
    <3>3. t # NoTarget /\ t \in MaybeTarget
      BY NoTargetAssumption DEF MaybeTarget
    <3>4. desired'[k] = t
      BY <1>0, <3>2, <3>3, OnlyAt
    <3>5. /\ m.type = "state" /\ k \in DOMAIN m.delta /\ m.delta[k] = t /\ m.tag[2] = c
      BY <1>0, <3>2, <3>4 DEF StateMsg, Diff
    <3>. HIDE DEF m
    <3>6. Held(k, c)'
      <4>1. PICK i \in Writes(k)' : IsLast(i, k)' /\ down'[i] = m
        BY <3>2, <3>5, WritesWritten
      <4>. QED  BY <3>3, <3>5, <4>1 DEF Held
    <3>7. <<k, c>> \notin reported'
      <4>1. \A r \in reported : r[2] =< ctlSeq
        BY <1>2 DEF SeqsInv
      <4>. QED  BY <1>0, <2>1, <3>2, <4>1
    <3>. QED  BY <1>0, <3>2, <3>6, <3>7
  <2>. QED  BY <1>5, <2>3, <2>4 DEF Selects, Idle, Clears
<1>6. CASE Merges \/ (Passes /\ Head(down).type # "state") \/ Configures \/ Chat
  <2>1. /\ UNCHANGED <<buffer, reported, session, reality, ctlSeq, lastSent, inFlight, outcomeLost>>
        /\ Realities' = Realities /\ \A i \in Realities : up'[i] = up[i]
    BY <1>6, RealitiesKept
       DEF Merges, Passes, Configures, Chat, HostOnly, host, controller, adapter, engine, sync
  <2>2. ASSUME Held(k, c)
        PROVE  Held(k, c)'
    <3>1. CASE Merges
      BY <2>2, <3>1, HeldRead
    <3>2. CASE Passes /\ Head(down).type # "state"
      BY <2>2, <3>2, HeldPast
    <3>3. CASE Configures
      <4>1. UNCHANGED <<state, tags, jobs>>
        BY <3>3 DEF Configures, host, adapter
      <4>2. Writes(k)' = Writes(k) /\ \A i \in Writes(k) : down'[i] = down[i]
        BY <3>3, ConfigureWrites
      <4>. QED  BY <2>2, <4>1, <4>2 DEF Held, IsLast
    <3>4. CASE Chat
      BY <2>2, <3>4 DEF Chat, Held, IsLast, Writes
    <3>. QED  BY <1>6, <3>1, <3>2, <3>3, <3>4
  <2>3. Carried(<<k, c>>) => Carried(<<k, c>>)'
    BY <2>1, CarriedOn
  <2>. QED  BY <1>3, <2>1, <2>2, <2>3
<1>7. CASE \E starts \in StartResults : Ticks(starts)
  <2>1. PICK starts \in StartResults : Ticks(starts)
    BY <1>7
  <2>2. /\ UNCHANGED <<session, reality, ctlSeq, lastSent, inFlight, outcomeLost>>
        /\ reported' = reported \cup Keys(Found(starts))
    BY <2>1 DEF Ticks, HostOnly, engine, sync
  <2>3. c # 0 /\ (Held(k, c) => Held(k, c)' \/ <<k, c>> \in reported')
    BY <1>3, <2>1, <2>2, HeldTicked
  <2>4. PICK n \in Realities' :
           /\ up'[n].session = session /\ up'[n].outcomes = buffer \cup Found(starts)
           /\ \A i \in Realities : i \in Realities' /\ up'[i] = up[i]
    BY <2>1, RealitiesTicked
  <2>5. Keys(up'[n].outcomes) = Keys(buffer) \cup Keys(Found(starts))
    BY <2>4, KeysUnion
  <2>6. ASSUME <<k, c>> \in reported'
        PROVE  Carried(<<k, c>>)'
    <3>1. Carried(<<k, c>>) \/ <<k, c>> \in Keys(Found(starts))
      BY <1>3, <2>2, <2>6
    <3>2. CASE <<k, c>> \in Keys(up'[n].outcomes)
      BY <2>2, <2>4, <3>2 DEF Carried
    <3>3. CASE <<k, c>> \notin Keys(up'[n].outcomes)
      BY <2>2, <2>4, <2>5, <3>1, <3>3 DEF Carried
    <3>. QED  BY <3>2, <3>3
  <2>. QED  BY <1>3, <2>2, <2>3, <2>6
<1>8. CASE \E j \in jobs : \E fresh : Settled(j, fresh)
  <2>1. PICK j, fresh : j \in jobs /\ Settled(j, fresh)
    BY <1>8
  <2>2. /\ UNCHANGED <<session, reality, ctlSeq, lastSent, inFlight, outcomeLost>>
        /\ reported' = reported \cup Keys(fresh) /\ buffer' = buffer \cup fresh
        /\ Realities' = Realities /\ \A i \in Realities : up'[i] = up[i]
    BY <1>8, <2>1, RealitiesKept DEF Settled, HostOnly, engine, sync
  <2>3. c # 0 /\ (Held(k, c) => Held(k, c)' \/ <<k, c>> \in reported')
    BY <1>3, <2>1, <2>2, HeldSettled
  <2>4. ASSUME <<k, c>> \in reported'
        PROVE  Carried(<<k, c>>)'
    <3>1. Carried(<<k, c>>) \/ <<k, c>> \in Keys(fresh)
      BY <1>3, <2>2, <2>4
    <3>2. Keys(buffer') = Keys(buffer) \cup Keys(fresh)
      BY <2>2, KeysUnion
    <3>. QED  BY <2>2, <3>1, <3>2 DEF Carried
  <2>. QED  BY <1>3, <2>2, <2>3, <2>4
<1>. QED  BY <1>2, <1>4, <1>5, <1>6, <1>7, <1>8 DEF Steady
-----------------------------------------------------------------------------
(* The first session                                                         *)

LEMMA SessionsGrow ==
  ASSUME Base, Step
  PROVE  sessions \in Nat /\ sessions' \in Nat /\ sessions =< sessions'
<1>1. sessions \in Nat
  BY DEF Base, Types, HostTypes, HostTypeOK
<1>2. sessions' = sessions \/ sessions' = sessions + 1
  BY DEF Step, Skip, View, Begin, Reads, Selects, Merges, Passes, HostOnly, Connects, Ticks,
         Settled, Death, Configures, Chat, host
<1>. QED  BY <1>1, <1>2

LEMMA FirstNext ==
  ASSUME Base, TagsInv, FirstInv, Step
  PROVE  FirstInv'
<1>. SUFFICES ASSUME sessions' =< 1, session' # 0
              PROVE  ~tainted'
  BY DEF FirstInv
<1>0. /\ sessions \in Nat /\ session \in Nat /\ remote \in Nat /\ remote =< sessions
      /\ session \in {0, sessions} /\ sessions =< 1
  <2>1. /\ sessions \in Nat /\ session \in Nat /\ remote \in Nat /\ remote =< sessions
        /\ session \in {0, sessions}
    BY DEF Base, Types, HostTypes, HostTypeOK, EngineTypeOK, SessionInv, Ordered
  <2>2. sessions =< 1
    BY SessionsGrow
  <2>. QED  BY <2>1, <2>2
<1>1. CASE Connects
  <2>1. sessions = 0
    BY <1>0, <1>1 DEF Connects
  <2>2. bot = 0
    BY <1>0, <2>1 DEF Base, SessionInv, Speaking
  <2>. QED  BY <1>1, <2>2 DEF Connects
<1>2. CASE Merges
  <2>1. 1 \in StateMsgs /\ Head(down) = down[1] /\ session' = session
    BY <1>2, DownRead DEF Merges, StateMsgs, Base
  <2>2. down[1].tag[1] \in Nat /\ 1 =< down[1].tag[1] /\ down[1].tag[1] =< remote
    BY <2>1, DownMessages DEF TagsInv, StateMsgs, Base, Tag
  <2>3. down[1].tag[1] = session
    BY <1>0, <2>1, <2>2
  <2>4. ~tainted
    BY <1>0, <2>1 DEF FirstInv
  <2>. QED  BY <1>2, <2>1, <2>3, <2>4 DEF Merges
<1>3. CASE Death
  BY <1>3 DEF Death, Dies
<1>4. CASE UNCHANGED <<session, tainted>>
  BY <1>0, <1>4 DEF FirstInv
<1>5. Connects \/ Merges \/ Death \/ UNCHANGED <<session, tainted>>
  BY DEF Step, Skip, View, Begin, Reads, Selects, Passes, Ticks, Settled, Configures, Chat, host,
         controller
<1>. QED  BY <1>1, <1>2, <1>3, <1>4, <1>5

\* In the first session the two ends are in step as soon as the engine has heard of it.
LEMMA FirstSession ==
  ASSUME Base, TagsInv, FirstInv, sessions =< 1, session # 0
  PROVE  Fresh \/ InStep
<1>1. /\ sessions = 1 /\ session = 1 /\ remote \in {0, 1} /\ ~tainted
  BY DEF Base, Types, HostTypes, HostTypeOK, EngineTypeOK, SessionInv, Ordered, FirstInv
<1>2. \A i \in StateMsgs : down[i].tag[1] \in Nat /\ 1 =< down[i].tag[1] /\ down[i].tag[1] =< remote
  BY DownMessages DEF TagsInv, StateMsgs, Base, Tag
<1>3. CASE remote = 0
  BY <1>1, <1>3 DEF Fresh
<1>4. CASE remote = 1
  <2>1. \A i \in StateMsgs : down[i].tag[1] = session
    BY <1>1, <1>2, <1>4
  <2>. QED  BY <1>1, <1>4, <2>1 DEF InStep, StateMsgs
<1>. QED  BY <1>1, <1>3, <1>4

LEMMA NothingToDeliver ==
  ASSUME NoOneShot
  PROVE  OneAtATime
BY DEF NoOneShot, OneAtATime, FlightOnly, OnePlace

LEMMA NothingToDeliverNext ==
  ASSUME NoOneShot'
  PROVE  OneAtATime'
BY DEF NoOneShot, OneAtATime, FlightOnly, OnePlace

\* Nothing changes but the places of the deltas that ask for a one-shot.
LEMMA OneAtATimeKept ==
  ASSUME OneAtATime, UNCHANGED <<session, inFlight, reported, tags>>, Due' = Due, Running' = Running,
         NEW n \in {0, 1}, \A i \in Asks' : i \in Nat /\ i + n \in Asks /\ down'[i] = down[i + n]
  PROVE  OneAtATime'
<1>1. /\ \A i \in Asks' : /\ down'[i].tag = <<session, inFlight.corr>>
                          /\ \A k \in OneShot \cap DOMAIN down'[i].delta :
                               down'[i].delta[k] # NoTarget => k = inFlight.action
      /\ \A i, j \in Asks' : i = j
      /\ Asks' # {} => Asks # {}
  BY DEF OneAtATime, FlightOnly, OnePlace
<1>2. NoOneShot => NoOneShot'
  BY DEF NoOneShot
<1>3. FlightOnly'
  BY <1>1 DEF OneAtATime, FlightOnly
<1>4. OnePlace'
  BY <1>1 DEF OneAtATime, OnePlace, FlightKey
<1>. QED  BY <1>2, <1>3, <1>4 DEF OneAtATime

\* The one-shot that is answered is nowhere any more.
LEMMA AnsweredNowhere ==
  ASSUME Base, ReportedInv, InStep, OneAtATime, InFlightAfterFeedback.action = "none"
  PROVE  NoOneShot
<1>1. CASE Answered
  <2>1. PICK o \in reality.outcomes : o.kind = inFlight.action /\ o.seq = inFlight.corr
    BY <1>1 DEF Answered, Answers
  <2>2. FlightKey \in Keys(reality.outcomes)
    BY <2>1 DEF Keys, KeyOf, FlightKey
  <2>3. reality.session = session
    BY <2>1, RealitySession DEF InStep
  <2>. QED  BY <2>2, <2>3 DEF ReportedInv, OneAtATime, OnePlace, NoOneShot
<1>2. CASE ~Answered
  BY <1>2 DEF InFlightAfterFeedback, OneAtATime
<1>. QED  BY <1>1, <1>2

LEMMA AsksRead ==
  ASSUME Types, down # <<>>, down' = Tail(down)
  PROVE  \A i \in Asks' : i \in Nat /\ i + 1 \in Asks /\ i + 1 # 1 /\ down'[i] = down[i + 1]
<1>1. \A i \in 1 .. Len(down') : /\ i \in Nat /\ i + 1 # 1
                                 /\ down'[i] = down[i + 1] /\ i + 1 \in 1 .. Len(down)
  BY DownRead
<1>. QED  BY <1>1 DEF Asks, StateMsgs

LEMMA AsksWritten ==
  ASSUME Types, NEW m, down' = Append(down, m)
  PROVE  \A i \in Asks' :
           \/ i \in Nat /\ i \in Asks /\ down'[i] = down[i]
           \/ /\ i = Len(down) + 1 /\ down'[i] = m /\ m.type = "state"
              /\ \E k \in OneShot \cap DOMAIN m.delta : m.delta[k] # NoTarget
<1>1. /\ \A i \in 1 .. Len(down') : i \in 1 .. Len(down) \/ i = Len(down) + 1
      /\ \A i \in 1 .. Len(down) : down'[i] = down[i] /\ i \in Nat
      /\ down'[Len(down) + 1] = m
  BY DownWritten
<1>. QED  BY <1>1 DEF Asks, StateMsgs

LEMMA OneAtATimeSelects ==
  ASSUME Base, ConfiguredInv, SeqsInv, ReportedInv, InStep, OneAtATime, Selects
  PROVE  OneAtATime'
<1>. USE DEF Base
<1>1. /\ UNCHANGED <<session, reported, tags, remote, state, jobs>>
      /\ Due' = Due /\ Running' = Running
  BY DEF Selects, host, controller, adapter, Due, Running
<1>2. CASE inFlight' = InFlightAfterFeedback /\ \A i \in Asks' : i \in Nat /\ i \in Asks /\ down'[i] = down[i]
  <2>1. CASE InFlightAfterFeedback.action = "none"
    <3>1. NoOneShot
      BY <2>1, AnsweredNowhere
    <3>2. NoOneShot'
      BY <1>1, <1>2, <3>1 DEF NoOneShot
    <3>. QED  BY <3>2, NothingToDeliverNext
  <2>2. CASE InFlightAfterFeedback.action # "none"
    <3>1. inFlight' = inFlight
      BY <1>2, <2>2 DEF InFlightAfterFeedback, NoInFlight
    <3>2. \A i \in Asks' : i \in Nat /\ i + 0 \in Asks /\ down'[i] = down[i + 0]
      BY <1>2
    <3>. QED  BY <1>1, <3>1, <3>2, OneAtATimeKept
  <2>. QED  BY <2>1, <2>2
<1>3. CASE Idle
  <2>1. \A i \in Asks' : i \in Nat /\ i \in Asks /\ down'[i] = down[i]
    BY <1>3 DEF Idle, Asks, StateMsgs
  <2>. QED  BY <1>2, <1>3, <2>1 DEF Idle
<1>4. ASSUME Sends
      PROVE  \A i \in Asks' :
               \/ i \in Nat /\ i \in Asks /\ down'[i] = down[i]
               \/ /\ i = Len(down) + 1 /\ down'[i].tag = <<session, ctlSeq'>>
                  /\ \A k \in OneShot \cap DOMAIN down'[i].delta : down'[i].delta[k] = desired'[k]
                  /\ \E k \in OneShot : desired'[k] # NoTarget
  <2>. DEFINE m == StateMsg(Diff(lastSent, desired'), <<remote, ctlSeq'>>)
  <2>1. down' = Append(down, m)
    BY <1>4 DEF Sends, SendControllerState, InStep, ConfiguredInv
  <2>2. /\ m.tag = <<session, ctlSeq'>>
        /\ \A k \in DOMAIN m.delta : m.delta[k] = desired'[k]
    BY DEF StateMsg, Diff, InStep
  <2>. HIDE DEF m
  <2>3. \A i \in Asks' :
          \/ i \in Nat /\ i \in Asks /\ down'[i] = down[i]
          \/ /\ i = Len(down) + 1 /\ down'[i] = m
             /\ \E k \in OneShot \cap DOMAIN m.delta : m.delta[k] # NoTarget
    BY <2>1, AsksWritten
  <2>. QED  BY <2>2, <2>3
<1>5. CASE Clears
  <2>1. \A i \in Asks' : i \in Nat /\ i \in Asks /\ down'[i] = down[i]
    BY <1>4, <1>5 DEF Clears
  <2>. QED  BY <1>2, <1>5, <2>1 DEF Clears
<1>6. CASE \E k \in OneShot, t \in Target : Orders(k, t)
  <2>1. PICK k \in OneShot, t \in Target : Orders(k, t)
    BY <1>6
  <2>2. /\ Sends /\ InFlightAfterFeedback.action = "none" /\ ctlSeq' = ctlSeq + 1
        /\ inFlight'.action = k /\ inFlight'.corr = ctlSeq' /\ desired' = Only(k, t)
    BY <2>1 DEF Orders, Sends
  <2>3. NoOneShot
    BY <2>2, AnsweredNowhere
  <2>4. t \in MaybeTarget /\ \A l \in OneShot : desired'[l] # NoTarget => l = k
    BY <2>2, OneShotField, OnlyAt DEF MaybeTarget
  <2>5. \A i \in Asks' : /\ i = Len(down) + 1 /\ down'[i].tag = <<session', inFlight'.corr>>
                         /\ \A l \in OneShot \cap DOMAIN down'[i].delta :
                              down'[i].delta[l] # NoTarget => l = inFlight'.action
    BY <1>1, <1>4, <2>2, <2>3, <2>4 DEF NoOneShot
  <2>6. Due' = {} /\ Running' = {}
    BY <1>1, <2>3 DEF NoOneShot
  <2>7. FlightKey' \notin reported'
    <3>1. ctlSeq \in Nat /\ \A r \in reported : r[2] =< ctlSeq
      BY DEF SeqsInv, Types, EngineTypeOK
    <3>2. FlightKey' = <<k, ctlSeq + 1>>
      BY <2>2 DEF FlightKey
    <3>. QED  BY <1>1, <3>1, <3>2
  <2>8. FlightOnly'
    BY <2>5, <2>6 DEF FlightOnly
  <2>9. OnePlace'
    BY <2>5, <2>6, <2>7 DEF OnePlace
  <2>. QED  BY <2>2, <2>6, <2>8, <2>9, OneShotField DEF OneAtATime
<1>. QED  BY <1>3, <1>5, <1>6 DEF Selects

LEMMA OneAtATimeMerges ==
  ASSUME Base, InStep, OneAtATime, Merges
  PROVE  OneAtATime'
<1>. USE DEF Base
<1>1. /\ down # <<>> /\ down' = Tail(down) /\ 1 \in StateMsgs
      /\ state' = Merge(state, down[1].delta) /\ tags' = RecordActionSequences(down[1])
      /\ UNCHANGED <<session, inFlight, reported>> /\ Running' = Running
      /\ state \in State
  BY DownRead DEF Merges, HostOnly, engine, sync, Running, StateMsgs, Types, HostTypes, HostTypeOK
<1>2. /\ \A i \in Asks' : i \in Nat /\ i + 1 \in Asks /\ i + 1 # 1 /\ down'[i] = down[i + 1]
  BY <1>1, AsksRead
<1>3. \A k \in OneShot :
        /\ state'[k] = IF k \in DOMAIN down[1].delta THEN down[1].delta[k] ELSE state[k]
        /\ tags'[k] = IF k \notin DOMAIN down[1].delta THEN tags[k]
                      ELSE IF down[1].delta[k] = NoTarget THEN NoTag ELSE down[1].tag
  BY <1>1, RecordedTag, OneShotField DEF Merge
<1>4. CASE 1 \in Asks
  <2>1. /\ down[1].tag = <<session, inFlight.corr>>
        /\ \A k \in OneShot \cap DOMAIN down[1].delta :
             down[1].delta[k] # NoTarget => k = inFlight.action
        /\ Due = {} /\ Running = {} /\ FlightKey \notin reported
        /\ \A i \in Asks : i = 1
    BY <1>4 DEF OneAtATime, FlightOnly, OnePlace
  <2>2. Asks' = {} /\ Running' = {}
    BY <1>1, <1>2, <2>1
  <2>3. inFlight.action # "none"
    BY <1>4 DEF OneAtATime, NoOneShot
  <2>4. \A k \in Due' : k = inFlight.action /\ tags'[k] = <<session, inFlight.corr>>
    BY <1>3, <2>1 DEF Due
  <2>5. FlightKey' \notin reported'
    BY <1>1, <2>1 DEF FlightKey
  <2>6. FlightOnly'
    BY <1>1, <2>2, <2>4 DEF FlightOnly
  <2>7. OnePlace'
    BY <2>2, <2>5 DEF OnePlace
  <2>. QED  BY <1>1, <2>2, <2>3, <2>6, <2>7 DEF OneAtATime
<1>5. CASE 1 \notin Asks
  <2>1. \A k \in OneShot \cap DOMAIN down[1].delta : down[1].delta[k] = NoTarget
    BY <1>1, <1>5 DEF Asks
  <2>2. \A k \in Due' : k \in Due /\ tags'[k] = tags[k]
    BY <1>3, <2>1 DEF Due
  <2>3. \A k \in OneShot : tags'[k] \in {NoTag, tags[k]}
    BY <1>3, <2>1
  <2>4. /\ \A i \in Asks' : /\ down'[i].tag = <<session, inFlight.corr>>
                            /\ \A k \in OneShot \cap DOMAIN down'[i].delta :
                                 down'[i].delta[k] # NoTarget => k = inFlight.action
        /\ \A i, j \in Asks' : i = j
        /\ Asks' # {} => Asks # {}
        /\ Due' # {} => Due # {}
    BY <1>2, <2>2 DEF OneAtATime, FlightOnly, OnePlace
  <2>5. FlightOnly'
    BY <1>1, <2>2, <2>4 DEF OneAtATime, FlightOnly
  <2>6. OnePlace'
    BY <1>1, <2>4 DEF OneAtATime, OnePlace, FlightKey
  <2>7. NoOneShot => NoOneShot'
    BY <1>1, <2>4 DEF NoOneShot
  <2>8. \A j \in Running' : tags'[j.kind] \in {NoTag, j.tag}
    <3>1. \A j \in Running : j.kind \in OneShot /\ tags[j.kind] \in {NoTag, j.tag}
      BY DEF OneAtATime, Running
    <3>. QED  BY <1>1, <2>3, <3>1
  <2>. QED  BY <1>1, <2>5, <2>6, <2>7, <2>8 DEF OneAtATime
<1>. QED  BY <1>4, <1>5

LEMMA OneAtATimeTicks ==
  ASSUME Base, OneAtATime, NEW starts \in StartResults, Ticks(starts)
  PROVE  OneAtATime'
<1>. USE DEF Base
<1>1. /\ UNCHANGED <<session, inFlight, tags, down>>
      /\ Running' = Running \cup Started(starts)
      /\ reported' = reported \cup Keys(Found(starts))
      /\ state' = [f \in Field |-> IF f \in Due THEN NoTarget ELSE state[f]]
  BY DEF Ticks, HostOnly, engine, sync, Running
<1>2. Due' = {} /\ Asks' = Asks
  <2>1. \A k \in OneShot : k \in Field
    BY OneShotField
  <2>2. \A k \in OneShot : state'[k] = NoTarget
    BY <1>1, <2>1 DEF Due
  <2>. QED  BY <1>1, <2>2 DEF Due, Asks, StateMsgs
<1>3. CASE Due = {}
  <2>1. Started(starts) = {} /\ Found(starts) = {}
    BY <1>3 DEF Started, Found, Ended
  <2>2. Running' = Running /\ reported' = reported
    BY <1>1, <2>1, KeysUnion
  <2>3. \A i \in Asks' : i \in Nat /\ i + 0 \in Asks /\ down'[i] = down[i + 0]
    <3>1. \A i \in Asks : i \in Nat
      BY DownMessages DEF Asks, StateMsgs
    <3>. QED  BY <1>1, <1>2, <3>1
  <2>. QED  BY <1>1, <1>2, <1>3, <2>2, <2>3, OneAtATimeKept
<1>4. CASE Due # {}
  <2>1. /\ Asks = {} /\ Running = {} /\ FlightKey \notin reported
        /\ inFlight.action # "none"
        /\ \A k \in Due : k = inFlight.action /\ tags[k] = <<session, inFlight.corr>>
    BY <1>4 DEF OneAtATime, OnePlace, FlightOnly, NoOneShot
  <2>2. \A j \in Started(starts) : \E k \in Due \ Ended(starts) : j = NewJob(k)
    BY DEF Started
  <2>3. \A j \in Running' : /\ j.kind = inFlight.action /\ j.tag = <<session, inFlight.corr>>
                            /\ tags[j.kind] = j.tag /\ j = NewJob(inFlight.action)
                            /\ inFlight.action \notin Ended(starts)
    BY <1>1, <2>1, <2>2 DEF NewJob
  <2>4. FlightKey' \in reported' => Running' = {}
    <3>. SUFFICES ASSUME FlightKey' \in reported', NEW j \in Running'
                  PROVE  FALSE
      OBVIOUS
    <3>1. FlightKey \in Keys(Found(starts))
      BY <1>1, <2>1 DEF FlightKey
    <3>2. PICK o \in Found(starts) : KeyOf(o) = FlightKey
      BY <3>1 DEF Keys
    <3>3. o.kind \in Ended(starts) /\ o.kind = inFlight.action
      BY <3>2, FoundReports DEF Reports, KeyOf, FlightKey
    <3>. QED  BY <2>3, <3>3
  <2>5. FlightOnly'
    BY <1>1, <1>2, <2>1, <2>3 DEF FlightOnly
  <2>6. OnePlace'
    BY <1>2, <2>1, <2>3, <2>4 DEF OnePlace
  <2>. QED  BY <1>1, <2>1, <2>3, <2>5, <2>6 DEF OneAtATime
<1>. QED  BY <1>3, <1>4

LEMMA OneAtATimeSettled ==
  ASSUME Base, OneAtATime, NEW j \in jobs, NEW fresh, Settled(j, fresh)
  PROVE  OneAtATime'
<1>. USE DEF Base
<1>1. /\ UNCHANGED <<session, inFlight, tags, down, state>>
      /\ Running' = Running \ {j} /\ reported' = reported \cup Keys(fresh)
      /\ Due' = Due /\ Asks' = Asks
  BY DEF Settled, HostOnly, engine, sync, Running, Due, Asks, StateMsgs
<1>2. CASE j \notin Running
  <2>1. fresh = {}
    BY <1>2 DEF Settled, Running
  <2>2. Running' = Running /\ reported' = reported
    BY <1>1, <1>2, <2>1, KeysUnion
  <2>3. \A i \in Asks' : i \in Nat /\ i + 0 \in Asks /\ down'[i] = down[i + 0]
    <3>1. \A i \in Asks : i \in Nat
      BY DownMessages DEF Asks, StateMsgs
    <3>. QED  BY <1>1, <3>1
  <2>. QED  BY <1>1, <2>2, <2>3, OneAtATimeKept
<1>3. CASE j \in Running
  <2>1. Asks = {} /\ Due = {} /\ \A i \in Running : i = j
    BY <1>3 DEF OneAtATime, OnePlace
  <2>2. NoOneShot'
    BY <1>1, <2>1 DEF NoOneShot
  <2>. QED  BY <2>2, NothingToDeliverNext
<1>. QED  BY <1>2, <1>3

LEMMA OneAtATimeNext ==
  ASSUME Base, ConfiguredInv, QuietInv, TagsInv, FreshInv, SeqsInv, ReportedInv, FirstInv,
         OneAtATimeInv, Step
  PROVE  OneAtATimeInv'
<1>. SUFFICES ASSUME sessions' =< 1
              PROVE  (Fresh' => Running' = {}) /\ (InStep' => OneAtATime')
  BY DEF OneAtATimeInv
<1>. USE DEF Base
<1>0. /\ sessions \in Nat /\ session \in Nat /\ remote \in Nat /\ remote =< sessions
      /\ session \in {0, sessions} /\ sessions =< 1
  <2>1. /\ sessions \in Nat /\ session \in Nat /\ remote \in Nat /\ remote =< sessions
        /\ session \in {0, sessions}
    BY DEF Base, Types, HostTypes, HostTypeOK, EngineTypeOK, SessionInv, Ordered
  <2>2. sessions =< 1
    BY SessionsGrow
  <2>. QED  BY <2>1, <2>2
<1>1. ASSUME Fresh'
      PROVE  Running' = {}
  <2>1. CASE Connects
    <3>1. sessions = 0 /\ jobs' = jobs
      BY <1>0, <2>1 DEF Connects
    <3>2. jobs = {}
      BY <1>0, <3>1 DEF QuietInv
    <3>. QED  BY <3>1, <3>2 DEF Running
  <2>2. CASE Death
    <3>1. session' = 0 /\ remote' = remote
      BY <2>2 DEF Death, Dies, engine
    <3>. QED  BY <1>0, <1>1, <3>1 DEF Fresh
  <2>3. CASE ~Connects /\ ~Death
    <3>1. session' = session /\ ~tainted /\ (remote' = remote \/ Begin)
      <4>1. ~tainted'
        BY <1>1 DEF Fresh
      <4>2. CASE Merges
        BY <4>1, <4>2 DEF Merges, HostOnly, engine
      <4>3. CASE Skip \/ View \/ Begin \/ Selects
        BY <4>1, <4>3 DEF Skip, View, Begin, Reads, Selects, host, controller
      <4>4. CASE Passes \/ Configures \/ Chat
        BY <4>1, <4>4 DEF Passes, Configures, Chat, HostOnly, host, controller, engine
      <4>5. CASE \E starts \in StartResults : Ticks(starts)
        BY <4>1, <4>5 DEF Ticks, HostOnly, engine
      <4>6. CASE \E j \in jobs : \E fresh : Settled(j, fresh)
        BY <4>1, <4>6 DEF Settled, HostOnly, engine
      <4>. QED  BY <2>3, <4>2, <4>3, <4>4, <4>5, <4>6 DEF Step
    <3>2. remote =< remote' /\ remote' \in Nat
      BY <1>0, <3>1, UpRead, UpMessages DEF Begin, Reads
    <3>3. Fresh
      BY <1>0, <1>1, <3>1, <3>2 DEF Fresh
    <3>4. Running = {} /\ Due = {}
      BY <1>0, <3>3 DEF OneAtATimeInv, FreshInv, Due, EmptyState, OneShot, Field
    <3>5. CASE \E starts \in StartResults : Ticks(starts)
      <4>1. PICK starts \in StartResults : Ticks(starts)
        BY <3>5
      <4>2. Running' = Running \cup Started(starts) /\ Started(starts) = {}
        BY <3>4, <4>1 DEF Ticks, Running, Started
      <4>. QED  BY <3>4, <4>2
    <3>6. CASE Merges \/ (\E j \in jobs : \E fresh : Settled(j, fresh))
      BY <3>4, <3>6 DEF Merges, Settled, Running
    <3>7. CASE jobs' = jobs
      BY <3>4, <3>7 DEF Running
    <3>8. \/ \E starts \in StartResults : Ticks(starts)
          \/ Merges \/ (\E j \in jobs : \E fresh : Settled(j, fresh))
          \/ jobs' = jobs
      BY <2>3 DEF Step, Skip, View, Begin, Reads, Selects, Passes, Configures, Chat, host, adapter
    <3>. QED  BY <3>5, <3>6, <3>7, <3>8
  <2>. QED  BY <2>1, <2>2, <2>3
<1>2. ASSUME InStep'
      PROVE  OneAtATime'
  <2>1. CASE Begin /\ Fresh /\ StateMsgs = {}
    <3>1. UNCHANGED <<down, state, jobs>>
      BY <2>1 DEF Begin, Reads, host, adapter
    <3>2. Running = {} /\ Due = {} /\ Asks = {}
      BY <1>0, <2>1 DEF OneAtATimeInv, FreshInv, Due, EmptyState, OneShot, Field, Asks
    <3>3. NoOneShot'
      BY <3>1, <3>2 DEF NoOneShot, Running, Due, Asks, StateMsgs
    <3>. QED  BY <3>3, NothingToDeliverNext
  <2>2. CASE Steady /\ InStep
    <3>1. OneAtATime
      BY <1>0, <2>2 DEF OneAtATimeInv
    <3>2. CASE Selects
      BY <2>2, <3>1, <3>2, OneAtATimeSelects
    <3>3. CASE Merges
      BY <2>2, <3>1, <3>3, OneAtATimeMerges
    <3>4. CASE \E starts \in StartResults : Ticks(starts)
      BY <3>1, <3>4, OneAtATimeTicks
    <3>5. CASE \E j \in jobs : \E fresh : Settled(j, fresh)
      BY <3>1, <3>5, OneAtATimeSettled
    <3>6. ASSUME Skip \/ View \/ Passes \/ Configures \/ Chat
          PROVE  UNCHANGED <<session, inFlight, reported, tags, state, jobs>>
                 /\ Due' = Due /\ Running' = Running
      <4>1. UNCHANGED <<session, inFlight, reported, tags, state, jobs>>
        BY <3>6 DEF Skip, View, Reads, Passes, Configures, Chat, HostOnly, host, controller, adapter,
                    engine, sync
      <4>. QED  BY <4>1 DEF Due, Running
    <3>7. CASE Passes /\ Head(down).type # "state"
      <4>1. down # <<>> /\ down' = Tail(down)
        BY <3>7 DEF Passes
      <4>. QED  BY <3>1, <3>6, <3>7, <4>1, AsksRead, OneAtATimeKept
    <3>8. CASE Skip \/ View \/ Chat \/ Configures
      <4>1. \A i \in Asks' : i \in Nat /\ i + 0 \in Asks /\ down'[i] = down[i + 0]
        <5>1. \A i \in Asks' : i \in Nat /\ i \in Asks /\ down'[i] = down[i]
          <6>1. CASE Configures
            <7>. DEFINE m == Configuration
            <7>1. m.type # "state"
              BY DEF Configuration
            <7>2. down' = Append(down, m)
              BY <6>1 DEF Configures
            <7>. HIDE DEF m
            <7>. QED  BY <7>1, <7>2, AsksWritten
          <6>2. CASE Skip \/ View \/ Chat
            <7>1. down' = down
              BY <6>2 DEF Skip, View, Reads, Chat
            <7>. QED  BY <7>1, DownMessages DEF Asks, StateMsgs
          <6>. QED  BY <3>8, <6>1, <6>2
        <5>. QED  BY <5>1
      <4>. QED  BY <3>1, <3>6, <3>8, <4>1, OneAtATimeKept
    <3>. QED  BY <2>2, <3>2, <3>3, <3>4, <3>5, <3>7, <3>8 DEF Steady
  <2>. QED  BY <1>2, <2>1, <2>2, InStepBack
<1>. QED  BY <1>1, <1>2
\* In the first session a one-shot reports under the tag it was executed with.
LEMMA FoundGenuine ==
  ASSUME Base, TagsInv, FreshInv, SeqsInv, FirstInv, sessions =< 1,
         NEW starts \in StartResults, Ticks(starts)
  PROVE  \A o \in Found(starts) : o.exec = <<session, o.seq>>
<1>1. session # 0
  BY DEF Ticks
<1>2. CASE Fresh
  <2>1. Due = {}
    BY <1>2 DEF FreshInv, Due, EmptyState, OneShot, Field
  <2>. QED  BY <2>1 DEF Found, Ended
<1>3. CASE InStep
  <2>. TAKE o \in Found(starts)
  <2>1. o.kind \in Field /\ o.seq = tags[o.kind][2] /\ o.seq # 0 /\ o.exec = tags[o.kind]
    BY FoundReports DEF Reports, Ended, Due, OneShot, Field, Base
  <2>2. tags[o.kind] \in Tag /\ (tags[o.kind] = NoTag \/ tags[o.kind][1] = session)
    BY <1>3, <2>1 DEF SeqsInv, Base, Types, HostTypes, HostTypeOK
  <2>3. tags[o.kind][1] = session
    BY <2>1, <2>2 DEF NoTag
  <2>. QED  BY <2>1, <2>2, <2>3 DEF Tag
<1>. QED  BY <1>1, <1>2, <1>3, FirstSession

LEMMA SettledGenuine ==
  ASSUME Base, QuietInv, TagsInv, FirstInv, OneAtATimeInv, sessions =< 1,
         NEW j \in jobs, NEW fresh, Settled(j, fresh)
  PROVE  \A o \in fresh : o.exec = <<session, o.seq>>
<1>. SUFFICES ASSUME NEW o \in fresh
              PROVE  o.exec = <<session, o.seq>>
  OBVIOUS
<1>1. /\ j.kind \in OneShot /\ j \in Running /\ session # 0
      /\ o.seq = tags[j.kind][2] /\ o.seq # 0 /\ o.exec = j.tag
  BY DEF Settled, Reports, Running, QuietInv
<1>2. InStep
  BY <1>1, FirstSession DEF OneAtATimeInv
<1>3. tags[j.kind] \in {NoTag, j.tag} /\ j.tag = <<session, inFlight.corr>>
  BY <1>1, <1>2 DEF OneAtATimeInv, OneAtATime, FlightOnly
<1>4. tags[j.kind] = j.tag
  BY <1>1, <1>3 DEF NoTag
<1>. QED  BY <1>1, <1>3, <1>4

LEMMA GenuineNext ==
  ASSUME Base, Types', QuietInv, TagsInv, FreshInv, SeqsInv, FirstInv, OneAtATimeInv, GenuineInv, Step
  PROVE  GenuineInv'
<1>. SUFFICES ASSUME sessions' =< 1
              PROVE  /\ \A o \in buffer' : o.exec = <<session', o.seq>>
                     /\ \A i \in Realities' : \A o \in up'[i].outcomes : o.exec = <<up'[i].session, o.seq>>
  BY DEF GenuineInv, OutcomesGenuine, Genuine, Realities
<1>. USE DEF Base
<1>0. sessions =< 1
  BY SessionsGrow
<1>1. /\ \A o \in buffer : o.exec = <<session, o.seq>>
      /\ \A i \in Realities : \A o \in up[i].outcomes : o.exec = <<up[i].session, o.seq>>
  BY <1>0 DEF GenuineInv, OutcomesGenuine, Genuine, Realities
<1>2. CASE Skip \/ View \/ Begin
  <2>1. UNCHANGED <<buffer, session>>
    BY <1>2 DEF Skip, View, Begin, Reads, host, controller
  <2>. QED  BY <1>1, <1>2, <2>1, RealitiesRead
<1>3. CASE \E starts \in StartResults : Ticks(starts)
  <2>1. PICK starts \in StartResults : Ticks(starts)
    BY <1>3
  <2>2. buffer' = {}
    BY <2>1 DEF Ticks
  <2>3. PICK n \in Realities' :
           /\ up'[n].session = session /\ up'[n].outcomes = buffer \cup Found(starts)
           /\ \A i \in Realities' : i = n \/ (i \in Realities /\ up'[i] = up[i])
    BY <2>1, RealitiesTicked
  <2>4. \A o \in Found(starts) : o.exec = <<session, o.seq>>
    BY <1>0, <2>1, FoundGenuine
  <2>. QED  BY <1>1, <2>2, <2>3, <2>4
<1>4. CASE \E j \in jobs : \E fresh : Settled(j, fresh)
  <2>1. PICK j, fresh : j \in jobs /\ Settled(j, fresh)
    BY <1>4
  <2>2. /\ buffer' = buffer \cup fresh /\ session' = session
        /\ Realities' = Realities /\ \A i \in Realities : up'[i] = up[i]
    BY <1>4, <2>1, RealitiesKept DEF Settled
  <2>3. \A o \in fresh : o.exec = <<session, o.seq>>
    BY <1>0, <2>1, SettledGenuine
  <2>. QED  BY <1>1, <2>2, <2>3
<1>5. CASE Connects \/ Death \/ Selects \/ Merges \/ Passes \/ Configures \/ Chat
  <2>1. Realities' = Realities /\ \A i \in Realities : up'[i] = up[i]
    BY <1>5, RealitiesKept
  <2>2. buffer' = {} \/ UNCHANGED <<buffer, session>>
    BY <1>5 DEF Connects, Death, Dies, Selects, Merges, Passes, Configures, Chat, host, controller
  <2>. QED  BY <1>1, <2>1, <2>2
<1>. QED  BY <1>2, <1>3, <1>4, <1>5 DEF Step

-----------------------------------------------------------------------------
(* The invariant                                                             *)

LEMMA DInvInit == Init => DInv
<1>. SUFFICES ASSUME Init PROVE DInv
  OBVIOUS
<1>1. /\ up = <<>> /\ down = <<>> /\ session = 0 /\ sessions = 0 /\ remote = 0 /\ timers = 0
      /\ configured = FALSE /\ buffer = {} /\ jobs = {} /\ reality = NoReality
      /\ desired = EmptyState /\ lastSent = EmptyState /\ phase = "stopped"
  BY DEF Init, EngineInit, HostInit
<1>2. ConfiguredInv /\ QuietInv /\ UpInv
  BY <1>1 DEF ConfiguredInv, QuietInv, UpInv
<1>3. SentInv
  <2>1. Validate(EmptyState) = EmptyState
    BY DEF Validate, EmptyState
  <2>2. \A k \in OneShot : EmptyState[k] = NoTarget
    BY DEF EmptyState, OneShot, Field
  <2>. QED  BY <1>1, <2>1, <2>2 DEF SentInv
<1>4. ~Fresh /\ ~InStep /\ StateMsgs = {} /\ Realities = {}
  BY <1>1 DEF Fresh, InStep, StateMsgs, Realities
<1>5. TagsInv /\ FreshInv /\ SeqsInv /\ AgreesInv /\ FlightInv
  BY <1>4 DEF TagsInv, FreshInv, SeqsInv, AgreesInv, FlightInv
<1>6. ReportedInv /\ AnswersInv
  <2>1. reality.outcomes = {} /\ buffer = {}
    BY <1>1 DEF NoReality
  <2>. QED  BY <1>4, <2>1 DEF ReportedInv, AnswersInv, Keys, Single, Apart
<1>7. FirstInv /\ OneAtATimeInv
  BY <1>1, <1>4 DEF FirstInv, OneAtATimeInv
<1>8. GenuineInv
  BY <1>1, <1>4 DEF GenuineInv, OutcomesGenuine, Genuine, Realities
<1>. QED  BY <1>2, <1>3, <1>5, <1>6, <1>7, <1>8 DEF DInv

LEMMA DInvNext ==
  ASSUME Base, Types', DInv, [Next]_vars
  PROVE  DInv'
<1>1. /\ ConfiguredInv /\ QuietInv /\ SentInv /\ TagsInv /\ UpInv
      /\ FreshInv /\ SeqsInv /\ AgreesInv
      /\ ReportedInv /\ AnswersInv /\ FlightInv
      /\ FirstInv /\ OneAtATimeInv /\ GenuineInv
  BY DEF DInv
<1>2. Step
  BY <1>1, Steps
<1>3. Types /\ SessionInv
  BY DEF Base
<1>4. ConfiguredInv' /\ QuietInv' /\ SentInv'
  BY <1>1, <1>2, <1>3, ConfiguredNext, QuietNext, SentNext
<1>5. TagsInv' /\ UpInv'
  BY <1>1, <1>2, <1>3, TagsNext, UpNext
<1>6. FreshInv' /\ SeqsInv'
  BY <1>1, <1>2, FreshNext, SeqsNext
<1>7. AgreesInv'
  BY <1>1, <1>2, AgreesNext
<1>8. ReportedInv' /\ AnswersInv'
  BY <1>1, <1>2, ReportedNext, AnswersNext
<1>9. FlightInv'
  BY <1>1, <1>2, FlightNext
<1>10. FirstInv'
  BY <1>1, <1>2, FirstNext
<1>11. OneAtATimeInv'
  BY <1>1, <1>2, OneAtATimeNext
<1>12. GenuineInv'
  BY <1>1, <1>2, GenuineNext
<1>. QED
  BY <1>4, <1>5, <1>6, <1>7, <1>8, <1>9, <1>10, <1>11, <1>12 DEF DInv
THEOREM DeliveryInvariant == Spec => []DInv
<1>1. Base /\ Types' /\ DInv /\ [Next]_vars => DInv'
  BY DInvNext
<1>2. Types /\ SessionInv /\ RealityInv => Base
  BY DEF Base
<1>. QED
  BY <1>1, <1>2, DInvInit, TypesInvariant, SessionInvariant, RealityInvariant, PTL DEF Spec

-----------------------------------------------------------------------------
(* What follows                                                              *)

\* What the selector sends adds up: whenever engine and host are in the same
\* session, merging every delta on its way leaves the adapter with exactly what
\* was last sent, but for one-shots a tick has consumed.  No reconnect, crash
\* or delta that overtook the configuration leaves a difference behind.
THEOREM DeltasAddUp == Spec => []AdapterAgrees
<1>1. ASSUME Types, AgreesInv
      PROVE  AdapterAgrees
  <2>. SUFFICES ASSUME InStep, NEW f \in Field
                PROVE  \/ Settles(f) = lastSent[f]
                       \/ (f \in OneShot /\ Writes(f) = {} /\ state[f] = NoTarget)
    BY DEF AdapterAgrees
  <2>1. Agrees(f)
    BY <1>1 DEF AgreesInv
  <2>2. CASE Writes(f) = {}
    BY <2>1, <2>2 DEF Agrees, Settles
  <2>3. CASE Writes(f) # {}
    <3>1. PICK i \in Writes(f) : IsLast(i, f) /\ down[i].delta[f] = lastSent[f]
      BY <2>1, <2>3 DEF Agrees
    <3>. DEFINE last == CHOOSE n \in Writes(f) : \A j \in Writes(f) : j =< n
    <3>2. last \in Writes(f) /\ \A j \in Writes(f) : j =< last
      BY <3>1 DEF IsLast
    <3>3. last = i
      <4>1. \A n \in Writes(f) : n \in Nat
        BY DEF Writes
      <4>. HIDE DEF last
      <4>2. i =< last /\ last =< i
        BY <3>1, <3>2 DEF IsLast
      <4>. QED  BY <3>2, <4>1, <4>2
    <3>4. Settles(f) = down[last].delta[f]
      BY <2>3 DEF Settles
    <3>. QED  BY <3>1, <3>3, <3>4
  <2>. QED  BY <2>2, <2>3
<1>2. DInv => AgreesInv
  BY DEF DInv
<1>. QED  BY <1>1, <1>2, DeliveryInvariant, TypesInvariant, PTL

\* The answer to the one-shot in flight is lost in two ways only: a decision
\* that clears the field first, and a reality that overwrites it unread.
THEOREM AnswerStillComes == Spec => []InFlightAnswerable
<1>1. ASSUME Types, FlightInv
      PROVE  InFlightAnswerable
  <2>. SUFFICES ASSUME InStep, inFlight.action # "none", ~outcomeLost,
                       lastSent[inFlight.action] # NoTarget
                PROVE  Answerable
    BY DEF InFlightAnswerable
  <2>. DEFINE k == inFlight.action
              c == inFlight.corr
  <2>1. k \in OneShot /\ c \in Nat
    BY <1>1 DEF Types, EngineTypeOK
  <2>2. (<<k, c>> \in reported => Carried(<<k, c>>)) /\ (<<k, c>> \in reported \/ Held(k, c))
    BY <1>1, <2>1 DEF FlightInv
  <2>3. CASE Carried(<<k, c>>)
    <3>1. ASSUME NEW outcomes, <<k, c>> \in Keys(outcomes)
          PROVE  \E o \in outcomes : o.kind = k /\ o.seq = c
      BY <3>1 DEF Keys, KeyOf
    <3>2. \/ \E o \in buffer : o.kind = k /\ o.seq = c
          \/ \E o \in reality.outcomes : o.kind = k /\ o.seq = c
          \/ \E i \in 1 .. Len(up) : /\ up[i].type = "reality"
                                     /\ \E o \in up[i].outcomes : o.kind = k /\ o.seq = c
      BY <2>3, <3>1 DEF Carried, Realities
    <3>. QED  BY <3>2 DEF Answerable
  <2>4. CASE Held(k, c)
    BY <2>4 DEF Held, Answerable
  <2>. QED  BY <2>2, <2>3, <2>4
<1>2. DInv => FlightInv
  BY DEF DInv
<1>. QED  BY <1>1, <1>2, DeliveryInvariant, TypesInvariant, PTL

\* Within a session no one-shot is answered twice: what the host has reported
\* it reports no more, whichever promise settles under the sequence.
THEOREM AnsweredOnce == Spec => []OneAnswerEach
<1>1. ASSUME Types, AnswersInv
      PROVE  OneAnswerEach
  <2>1. ASSUME NEW c \in Carriers
        PROVE  \/ /\ c.place \in Realities /\ c.session = up[c.place].session
                  /\ c.outcomes = up[c.place].outcomes
               \/ c.place = 0 /\ c.session = reality.session /\ c.outcomes = reality.outcomes
               \/ c.place = Len(up) + 1 /\ c.session = session /\ c.outcomes = buffer
    BY DEF Carriers, Realities
  <2>2. Len(up) \in Nat /\ \A i \in Realities : i # 0 /\ i # Len(up) + 1
    BY <1>1, UpMessages DEF Realities
  <2>. SUFFICES ASSUME NEW c \in Carriers, NEW d \in Carriers, c.session = d.session,
                       NEW o \in c.outcomes, NEW p \in d.outcomes, o.kind = p.kind, o.seq = p.seq
                PROVE  c.place = d.place /\ o = p
    BY DEF OneAnswerEach
  <2>3. KeyOf(o) = KeyOf(p) /\ ~Apart(c.outcomes, d.outcomes) /\ ~Apart(d.outcomes, c.outcomes)
    BY DEF KeyOf, Keys, Apart
  <2>4. c.place = d.place
    BY <1>1, <2>1, <2>3 DEF AnswersInv
  <2>5. c.outcomes = d.outcomes /\ Single(c.outcomes)
    BY <1>1, <2>1, <2>2, <2>4 DEF AnswersInv
  <2>. QED  BY <2>3, <2>4, <2>5 DEF Single
<1>2. DInv => AnswersInv
  BY DEF DInv
<1>. QED  BY <1>1, <1>2, DeliveryInvariant, TypesInvariant, PTL

\* One-shots are delivered one at a time: in the first session the host never
\* holds two.  In a later one it may, after a promise of an earlier bot has
\* answered for the first.
THEOREM OneShotAtATime == Spec => [](sessions =< 1 => OneShotsOneAtATime)
<1>1. ASSUME OneAtATimeInv, sessions =< 1
      PROVE  OneShotsOneAtATime
  <2>. SUFFICES ASSUME InStep, NEW s \in Outstanding
                PROVE  s = <<session, inFlight.corr>>
    BY DEF OneShotsOneAtATime
  <2>1. FlightOnly
    BY <1>1 DEF OneAtATimeInv, OneAtATime
  <2>2. \/ \E i \in Asks : s = down[i].tag
        \/ \E k \in Due : s = tags[k]
        \/ \E j \in Running : s = j.tag
    BY DEF Outstanding, Asks, StateMsgs, Running
  <2>. QED  BY <2>1, <2>2 DEF FlightOnly
<1>2. DInv => OneAtATimeInv
  BY DEF DInv
<1>3. DInv => (sessions =< 1 => OneShotsOneAtATime)
  BY <1>1, <1>2
<1>. QED  BY <1>3, DeliveryInvariant, PTL

\* In the first session every outcome, buffered or on its way, was produced by
\* the execution of the very delta its sequence names.  In a later one it need
\* not be: a promise of an earlier bot reports under the sequence of the new.
THEOREM OutcomesOfTheirDelta == Spec => [](sessions =< 1 => OutcomesGenuine)
<1>1. DInv => (sessions =< 1 => OutcomesGenuine)
  BY DEF DInv, GenuineInv
<1>. QED  BY <1>1, DeliveryInvariant, PTL
=============================================================================
