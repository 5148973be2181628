---------------------------- MODULE ControllerLink ----------------------------
(***************************************************************************)
(* The control loop of one bot: the engine's selector and the Node host    *)
(* that executes its deltas, over the supervisor's local socket.  The host *)
(* process may die and be started again; the engine is not told.           *)
(***************************************************************************)
EXTENDS EngineControl, BotHost

CONSTANT MaxCrashes    \* bound on the exits of the host process

ASSUME LinkAssumption == MaxCrashes \in Nat

VARIABLE crashes       \* history: exits of the host process so far

vars == <<engine, host, channels, crashes>>

Init ==
  /\ EngineInit
  /\ HostInit
  /\ up = <<>>
  /\ down = <<>>
  /\ crashes = 0

EngineApply == ApplyEvent /\ UNCHANGED <<host, down, crashes>>

EngineSelect ==
  /\ \E d \in Decisions : Select(d, hostUp)
  /\ UNCHANGED <<host, up, crashes>>

\* The supervisor starts the process and accepts its connection: from now on
\* deltas are written to it.
StartHost ==
  /\ ~hostUp
  /\ hostUp' = TRUE
  /\ UNCHANGED <<controller, adapter, sessions, errors, tainted, engine, channels, crashes>>

\* The host said hello and the supervisor answers with the configuration.
ConfigureHost ==
  /\ hostUp
  /\ ~configured
  /\ \A i \in 1 .. Len(down) : down[i].type # "configure"
  /\ down' = Append(down, Configuration)
  /\ UNCHANGED <<host, engine, up, crashes>>

HostDies ==
  /\ hostUp
  /\ crashes < MaxCrashes
  /\ crashes' = crashes + 1
  /\ Dies
  /\ UNCHANGED <<engine, up>>

HostReceive == Receive /\ UNCHANGED <<engine, crashes>>

HostConnect == Connect /\ UNCHANGED <<engine, crashes>>

HostTick ==
  /\ \/ \E sustained \in SustainedResults, starts \in StartResults : Tick(sustained, starts)
     \/ TickThrows
  /\ UNCHANGED <<engine, crashes>>

HostSettle ==
  /\ \E j \in jobs, ok \in BOOLEAN : Settle(j, ok)
  /\ UNCHANGED <<engine, crashes>>

BotSpawn == (\E b \in Bots : Spawn(b)) /\ UNCHANGED <<engine, crashes>>

BotTelemetry == (\E b \in Bots : Telemetry(b)) /\ UNCHANGED <<engine, crashes>>

BotLost ==
  /\ \E b \in Bots : Kicked(b) \/ Error(b) \/ End(b)
  /\ UNCHANGED <<engine, crashes>>

Next ==
  \/ EngineApply
  \/ EngineSelect
  \/ StartHost
  \/ ConfigureHost
  \/ HostDies
  \/ HostReceive
  \/ HostConnect
  \/ HostTick
  \/ HostSettle
  \/ BotSpawn
  \/ BotTelemetry
  \/ BotLost

Spec == Init /\ [][Next]_vars

\* The engine's loop, the supervisor's goroutines and Node's event loop keep
\* running; the selector runs every tick, so it reads an answer that stays,
\* but nothing makes the behaviors ever change their decision.  That a
\* Mineflayer promise settles is an assumption about the library.  Nothing
\* makes the bot spawn, send telemetry or lose its connection.
Fairness ==
  /\ WF_vars(EngineApply)
  /\ WF_vars(Answered /\ EngineSelect)
  /\ WF_vars(StartHost)
  /\ WF_vars(ConfigureHost)
  /\ WF_vars(HostReceive)
  /\ WF_vars(HostConnect)
  /\ WF_vars(HostTick)
  /\ WF_vars(HostSettle)

FairSpec == Spec /\ Fairness

-----------------------------------------------------------------------------
(* Types *)

TypeOK ==
  /\ EngineTypeOK
  /\ HostTypeOK
  /\ ChannelsTypeOK
  /\ crashes \in Nat

-----------------------------------------------------------------------------
(* Safety *)

\* The feedback the selector reads is always of the session the engine
\* believes in: what an earlier session reported is cleared or dropped.
RealityOfThisSession ==
  reality # NoReality => reality.session = remote

\* A configured host without a bot always has a timer that will connect one:
\* no order of kicks, errors, ends and spawns loses the reconnect.
ReconnectPending ==
  configured /\ bot = 0 => timers > 0

\* Both ends are in the same session and nothing of another one is on the
\* adapter or on its way to it.
InStep ==
  /\ session = remote /\ session # 0
  /\ ~tainted
  /\ \A i \in 1 .. Len(down) : down[i].type = "state" => down[i].tag[1] = session

Writes(f) ==
  {i \in 1 .. Len(down) : down[i].type = "state" /\ f \in DOMAIN down[i].delta}

\* What field f of the adapter will be once every delta on its way is merged.
Settles(f) ==
  IF Writes(f) = {} THEN state[f]
  ELSE LET last == CHOOSE i \in Writes(f) : \A j \in Writes(f) : j =< i
       IN  down[last].delta[f]

\* The deltas add up: merged in order they leave the adapter with exactly
\* the state the engine last sent, but for one-shots already consumed.
AdapterAgrees ==
  InStep => \A f \in Field :
              \/ Settles(f) = lastSent[f]
              \/ f \in OneShot /\ Writes(f) = {} /\ state[f] = NoTarget

\* The one-shots of this session whose answer is still to come: on their way
\* to the adapter, on it, or running.
Outstanding ==
       {down[i].tag : i \in {i \in 1 .. Len(down) :
                             /\ down[i].type = "state"
                             /\ \E k \in OneShot \cap DOMAIN down[i].delta :
                                  down[i].delta[k] # NoTarget}}
  \cup {tags[k] : k \in Due}
  \cup {j.tag : j \in {j \in jobs : j.kind \in OneShot}}

\* One-shots are delivered one at a time: within a session, the host never
\* holds two, not even when the first was superseded by another goal.
OneShotsOneAtATime ==
  InStep => \A s, t \in {x \in Outstanding : x[1] = session} : s = t

\* Every outcome of the current session, wherever it is, was produced by the
\* execution of the very delta its sequence names.
Genuine(outcomes, ofSession) ==
  \A o \in outcomes : o.exec = <<ofSession, o.seq>>

OutcomesGenuine ==
  /\ Genuine(buffer, session)
  /\ \A i \in 1 .. Len(up) :
       up[i].type = "reality" => Genuine(up[i].outcomes, up[i].session)

\* "Neither stale targets nor prior outcome de-duplication may survive into
\* the new bot instance": nor may the promises of the old one.  When every
\* delta the adapter merged is of its session, so is every outcome it reports.
OutcomesOfThisBot ==
  ~tainted => Genuine(buffer, session)

\* Where outcomes are on their way to the selector: the messages, the view
\* and the Controller's buffer, numbered, each with its session.
Carriers ==
       {[place |-> i, session |-> up[i].session, outcomes |-> up[i].outcomes] :
          i \in {i \in 1 .. Len(up) : up[i].type = "reality"}}
  \cup {[place |-> 0, session |-> reality.session, outcomes |-> reality.outcomes],
        [place |-> Len(up) + 1, session |-> session, outcomes |-> buffer]}

\* Within a session no one-shot is answered twice, whatever promises of an
\* earlier bot settle under its sequence.
OneAnswerEach ==
  \A c, d \in Carriers : c.session = d.session =>
    \A o \in c.outcomes, p \in d.outcomes :
      o.kind = p.kind /\ o.seq = p.seq => c.place = d.place /\ o = p

-----------------------------------------------------------------------------
(* The in-flight one-shot *)

\* The answer to the in-flight one-shot exists or can still be produced.
Answerable ==
  LET k == inFlight.action
      c == inFlight.corr
      mine(outcomes) == \E o \in outcomes : o.kind = k /\ o.seq = c
  IN  \/ \E i \in Writes(k) : down[i].tag[2] = c /\ down[i].delta[k] # NoTarget
      \/ state[k] # NoTarget /\ tags[k][2] = c
      \/ \E j \in jobs : j.kind = k /\ j.tag = tags[k] /\ j.tag[2] = c
      \/ mine(buffer) \/ mine(reality.outcomes)
      \/ \E i \in 1 .. Len(up) : up[i].type = "reality" /\ mine(up[i].outcomes)

\* There are two ways to lose the answer and no other: a decision that clears
\* the field before the answer, and a reality that overwrites it unread.
InFlightAnswerable ==
  InStep /\ inFlight.action # "none" =>
    Answerable \/ lastSent[inFlight.action] = NoTarget \/ outcomeLost

\* "One-shot delivery is correlated one at a time; keep its desired field
\* while utility selection and sustained controls continue."
InFlightFieldKept ==
  inFlight.action # "none" => desired[inFlight.action] = inFlight.target

\* "Controller sequences and action targets are scoped to one host session":
\* what the adapter executes was meant for the session it is in.
TargetsScopedToSession ==
  \A f \in Field : state[f] # NoTarget => tags[f][1] = session

-----------------------------------------------------------------------------
(* What a step may never do *)

\* The engine never falls back to a session it has left.
SessionNeverReturns == [][remote' >= remote]_vars

-----------------------------------------------------------------------------
(* What must happen *)

\* A configured host that has lost its bot connects another one, or its
\* successor does when the process ends before that.
Reconnects ==
  configured /\ bot = 0 ~> bot # 0 \/ sessions = MaxSessions

\* An in-flight one-shot whose field is kept ends, for as long as the session
\* lasts and the adapter ticks: its answer is produced, carried back and read.
\* (The telemetry of a bot that has not spawned already makes the engine take
\* the session for ready; nothing executes what it then sends.)
InFlightEnds ==
  inFlight.action # "none" ~>
    \/ inFlight.action = "none"
    \/ lastSent[inFlight.action] = NoTarget
    \/ outcomeLost
    \/ ctlSeq = MaxSeq
    \/ ~InStep \/ bot = 0 \/ ~ticking \/ phase # "ready"
=============================================================================
