------------------------------- MODULE BotHost -------------------------------
(***************************************************************************)
(* The Node host's half of the control protocol, for one bot: the          *)
(* Controller of host.ts, which names the sessions and retries them, and   *)
(* the MineflayerAdapter, which owns the Mineflayer bot, merges the deltas *)
(* and executes them in its 100 ms tick.  Node runs one callback at a      *)
(* time, so a callback is an action.                                       *)
(*                                                                         *)
(* Mineflayer itself is the environment: its events come in any order its  *)
(* bots allow, and its promises settle with either result.  Outcomes of    *)
(* goto, break and attack are left out: the engine reads none of them.     *)
(***************************************************************************)
EXTENDS ControllerChannels

CONSTANTS MaxSessions, \* bound on the sessions of all host processes
          MaxObs,      \* bound on the observations of one session
          MaxErrors    \* bound on the error events that do not end the bot

ASSUME HostAssumption ==
  MaxSessions \in Nat /\ MaxObs \in Nat /\ MaxErrors \in Nat

VARIABLES
  hostUp,         \* the Node process runs and its socket is accepted
  configured,     \* the configuration arrived: the Controller exists
  session,        \* Controller #session; 0 is the empty string
  obsSeq,         \* Controller #sequence
  retryScheduled, \* Controller #retryScheduled
  timers,         \* pending setTimeout calls that will run connect()
  buffer,         \* Controller #actionOutcomes
  bot,            \* MineflayerAdapter #bot; 0 is undefined
  life,           \* where each Mineflayer bot is in its own life
  ticking,        \* #tickTimer is set
  state,          \* #state
  tags,           \* #actionSequences; NoTag is a deleted entry
  reported,       \* #reportedOutcomes of the one-shots
  started,        \* #startedActions
  terminal,       \* #terminalActions
  jobs,           \* Mineflayer promises that have not settled
  epoch,          \* #controllerSessionEpoch, which also names the bots
  sessions,       \* history: sessions ever named, so that each id is new
  errors,         \* history: error events so far
  tainted         \* history: the adapter holds what another session sent

adapter == <<bot, life, ticking, state, tags, reported, started, terminal, jobs, epoch>>

controller == <<configured, session, obsSeq, retryScheduled, timers, buffer>>

host == <<hostUp, controller, adapter, sessions, errors, tainted>>

Life == {"absent", "joining", "playing", "closing", "gone"}

Bots == 1 .. MaxSessions

\* A running promise: a one-shot's closure knows its kind only, a dig's also
\* the action key and the epoch it captured.  tag is history for a one-shot.
Job == [kind : OneShot \cup {"break"}, key : Field \X Nat \X MaybeTarget,
        bot : Bots, tag : Tag, active : BOOLEAN]

HostTypeOK ==
  /\ hostUp \in BOOLEAN /\ configured \in BOOLEAN
  /\ session \in Nat /\ obsSeq \in Nat
  /\ retryScheduled \in BOOLEAN /\ timers \in Nat
  /\ buffer \subseteq Outcome
  /\ bot \in Bots \cup {0} /\ life \in [Bots -> Life] /\ ticking \in BOOLEAN
  /\ state \in State /\ tags \in [Field -> Tag]
  /\ reported \subseteq OneShot \X Nat
  /\ started \subseteq Field \X Nat \X MaybeTarget
  /\ terminal \subseteq Field \X Nat \X MaybeTarget
  /\ jobs \subseteq Job
  /\ epoch \in Nat /\ sessions \in Nat /\ errors \in Nat
  /\ tainted \in BOOLEAN

HostInit ==
  /\ hostUp = FALSE /\ configured = FALSE
  /\ session = 0 /\ obsSeq = 0
  /\ retryScheduled = FALSE /\ timers = 0
  /\ buffer = {}
  /\ bot = 0 /\ life = [b \in Bots |-> "absent"]
  /\ ticking = FALSE
  /\ state = EmptyState /\ tags = [f \in Field |-> NoTag]
  /\ reported = {} /\ started = {} /\ terminal = {}
  /\ jobs = {}
  /\ epoch = 0
  /\ sessions = 0 /\ errors = 0 /\ tainted = FALSE

\* The process is gone, with everything it held and whatever its socket had
\* not read; what it wrote to the socket stays readable.
Dies ==
  /\ hostUp' = FALSE /\ configured' = FALSE
  /\ session' = 0 /\ obsSeq' = 0
  /\ retryScheduled' = FALSE /\ timers' = 0
  /\ buffer' = {}
  /\ bot' = 0 /\ life' = [b \in Bots |-> "absent"]
  /\ ticking' = FALSE
  /\ state' = EmptyState /\ tags' = [f \in Field |-> NoTag]
  /\ reported' = {} /\ started' = {} /\ terminal' = {}
  /\ jobs' = {}
  /\ epoch' = 0
  /\ tainted' = FALSE
  /\ down' = <<>>
  /\ UNCHANGED <<sessions, errors>>

-----------------------------------------------------------------------------
(* The Controller: sessions and retries *)

\* Mutant: the flag is set before it is looked at.
ScheduleAfterTheFlag ==
  /\ retryScheduled' = TRUE
  /\ timers' = IF retryScheduled' THEN timers ELSE timers + 1

\* schedule(): one retry timer at a time, as far as the flag knows.
Schedule ==
  /\ retryScheduled' = TRUE
  /\ timers' = IF retryScheduled THEN timers ELSE timers + 1

\* observe(): each observation of a session takes the next sequence.
Observes(n) == obsSeq + n =< MaxObs /\ obsSeq' = obsSeq + n

\* The start or retry timer fires: connect() names a new session, and the
\* adapter begins a new bot and forgets the old session unless it still has
\* a bot, in which case it returns at once.
Connect ==
  /\ timers > 0
  /\ sessions < MaxSessions
  /\ timers' = timers - 1
  /\ retryScheduled' = FALSE
  /\ buffer' = {}
  /\ sessions' = sessions + 1
  /\ session' = sessions'
  /\ IF bot # 0
     THEN /\ obsSeq' = 0
          /\ tainted' = TRUE
          /\ UNCHANGED <<adapter, up>>
     ELSE /\ obsSeq' = 1
          /\ Emit(<<StatusMsg(session', 1, "connecting")>>)
          /\ epoch' = epoch + 1
          /\ bot' = epoch'
          /\ life' = [life EXCEPT ![bot'] = "joining"]
          /\ state' = EmptyState
          /\ tags' = [f \in Field |-> NoTag]
          /\ reported' = {}
          /\ started' = {}
          /\ terminal' = {}
          /\ tainted' = FALSE
          /\ UNCHANGED <<ticking, jobs>>
  /\ UNCHANGED <<hostUp, configured, errors, down>>

-----------------------------------------------------------------------------
(* Events of a Mineflayer bot *)

\* The spawn handler of bot b.  It reads #bot, which an end event of an
\* earlier bot may have cleared: that read throws and ends the process.
Spawn(b) ==
  /\ life[b] = "joining"
  /\ IF bot = 0
     THEN /\ Emit(<<StatusMsg(session, obsSeq + 1, "connected"),
                    ObservationMsg(session, obsSeq + 2)>>)
          /\ Dies
     ELSE /\ Observes(3)
          /\ Emit(<<StatusMsg(session, obsSeq + 1, "connected"),
                    ObservationMsg(session, obsSeq + 2),
                    ObservationMsg(session, obsSeq + 3)>>)
          /\ retryScheduled' = FALSE
          /\ life' = [life EXCEPT ![b] = "playing"]
          /\ ticking' = TRUE
          /\ UNCHANGED <<hostUp, configured, session, timers, buffer, bot, state, tags,
                         reported, started, terminal, jobs, epoch, sessions, errors,
                         tainted, down>>

\* Health, effects, motion, inventory: one more observation.  The handlers do
\* not ask whether the bot has spawned, nor whether it has been dropped.
Telemetry(b) ==
  /\ life[b] \in {"joining", "playing", "closing"}
  /\ Observes(1)
  /\ Emit(<<ObservationMsg(session, obsSeq')>>)
  /\ UNCHANGED <<hostUp, configured, session, retryScheduled, timers, buffer, adapter,
                 sessions, errors, tainted, down>>

\* The server kicks the bot; its end event comes later.
Kicked(b) ==
  /\ life[b] \in {"joining", "playing"}
  /\ Observes(2)
  /\ Emit(<<StatusMsg(session, obsSeq + 1, "failed"),
            StatusMsg(session, obsSeq + 2, "disconnected")>>)
  /\ Schedule
  /\ life' = [life EXCEPT ![b] = "closing"]
  /\ bot' = 0
  /\ UNCHANGED <<hostUp, configured, session, buffer, ticking, state, tags, reported,
                 started, terminal, jobs, epoch, sessions, errors, tainted, down>>

\* An error event leaves the bot where it is.
Error(b) ==
  /\ life[b] \in {"joining", "playing", "closing"}
  /\ errors < MaxErrors
  /\ errors' = errors + 1
  /\ Observes(1)
  /\ Emit(<<StatusMsg(session, obsSeq', "failed")>>)
  /\ Schedule
  /\ UNCHANGED <<hostUp, configured, session, buffer, adapter, sessions, tainted, down>>

\* The connection of bot b is over, whichever bot the adapter holds by now.
End(b) ==
  /\ life[b] \in {"joining", "playing", "closing"}
  /\ Observes(1)
  /\ Emit(<<StatusMsg(session, obsSeq', "disconnected")>>)
  /\ Schedule
  /\ life' = [life EXCEPT ![b] = "gone"]
  /\ ticking' = FALSE
  /\ bot' = 0
  /\ UNCHANGED <<hostUp, configured, session, buffer, state, tags, reported, started,
                 terminal, jobs, epoch, sessions, errors, tainted, down>>

-----------------------------------------------------------------------------
(* Deltas from the engine *)

Digs == {j \in jobs : j.kind = "break" /\ j.bot = bot /\ j.active}

\* A cleared field forgets its sequence, a set one takes the delta's.
RecordActionSequences(m) ==
  [f \in Field |->
     IF f \notin DOMAIN m.delta THEN tags[f]
     ELSE IF m.delta[f] = NoTarget THEN NoTag ELSE m.tag]

\* applyState(): clearing break also stops the dig of the current bot.
ApplyState(m) ==
  /\ state' = Merge(state, m.delta)
  /\ tags' = RecordActionSequences(m)
  /\ jobs' = IF "break" \in DOMAIN m.delta /\ m.delta["break"] = NoTarget
             THEN (jobs \ Digs) \cup {[j EXCEPT !.active = FALSE] : j \in Digs}
             ELSE jobs
  /\ tainted' = (tainted \/ m.tag[1] # session)
  /\ UNCHANGED <<configured, timers, bot, life, ticking, reported, started, terminal, epoch>>

\* The first message of a connection configures the host; a delta that
\* overtook it finds no Controller and is ignored.
Receive ==
  /\ hostUp
  /\ down # <<>>
  /\ down' = Tail(down)
  /\ LET m == Head(down)
     IN  CASE m.type = "configure" ->
                /\ configured' = TRUE
                /\ timers' = IF configured THEN timers ELSE timers + 1
                /\ UNCHANGED <<adapter, tainted>>
           [] m.type = "state" /\ configured -> ApplyState(m)
           [] OTHER -> UNCHANGED <<configured, timers, adapter, tainted>>
  /\ UNCHANGED <<hostUp, session, obsSeq, retryScheduled, buffer, sessions, errors, up>>

-----------------------------------------------------------------------------
(* The tick, and the promises it starts *)

ActionKey(f) == <<f, tags[f][2], state[f]>>

\* Mutant: a failed promise is swallowed.
ReportSuccessOnly(kind, ok, exec) ==
  LET seq == tags[kind][2]
  IN  IF seq = 0 \/ <<kind, seq>> \in reported \/ ~ok THEN {}
      ELSE {[kind |-> kind, seq |-> seq, ok |-> ok, exec |-> exec]}

\* Mutant: outcomes are not de-duplicated.
ReportAgain(kind, ok, exec) ==
  LET seq == tags[kind][2]
  IN  IF seq = 0 THEN {} ELSE {[kind |-> kind, seq |-> seq, ok |-> ok, exec |-> exec]}

\* reportOutcome(): under the sequence the kind has now, and only once.
Report(kind, ok, exec) ==
  LET seq == tags[kind][2]
  IN  IF seq = 0 \/ <<kind, seq>> \in reported THEN {}
      ELSE {[kind |-> kind, seq |-> seq, ok |-> ok, exec |-> exec]}

Pending(f) == state[f] # NoTarget /\ ActionKey(f) \notin terminal

Due == {k \in OneShot : state[k] # NoTarget}

\* What starting a one-shot may give: a running promise, a failure found at
\* once, and for equip also an item that is already in hand.
StartResults == {r \in [Due -> {"runs", "failed", "completed"}] :
                   \A k \in Due : r[k] = "completed" => k = "equip"}

\* What the tick does with a sustained target: it waits for range, finds the
\* action over, or (a block in reach) starts the one dig of its sequence.
SustainedResults ==
  {r \in [{"break", "attack"} -> {"waits", "over", "digs"}] :
     /\ \A f \in {"break", "attack"} : r[f] # "waits" => Pending(f)
     /\ r["attack"] # "digs"
     /\ r["break"] = "digs" => Digs = {} /\ ActionKey("break") \notin started}

NewJob(f) == [kind |-> f, key |-> ActionKey(f), bot |-> bot, tag |-> tags[f], active |-> TRUE]

\* One tick of the current bot: the sustained targets, then each one-shot
\* target, which is consumed whatever its start gives, then the reality with
\* all outcomes buffered by now.
Tick(sustained, starts) ==
  LET over  == {f \in {"break", "attack"} : sustained[f] = "over"}
      digs  == {f \in {"break", "attack"} : sustained[f] = "digs"}
      fresh == UNION {Report(k, starts[k] = "completed", tags[k]) :
                        k \in {k \in Due : starts[k] # "runs"}}
  IN  /\ hostUp /\ ticking /\ bot # 0
      /\ life[bot] \in {"joining", "playing", "closing"}
      /\ terminal' = terminal \cup {ActionKey(f) : f \in over}
      /\ started' = (started \ {ActionKey(f) : f \in over}) \cup {ActionKey(f) : f \in digs}
      /\ jobs' = jobs \cup {NewJob(f) : f \in digs \cup {k \in Due : starts[k] = "runs"}}
      /\ state' = [f \in Field |-> IF f \in Due THEN NoTarget ELSE state[f]]
      /\ reported' = reported \cup {<<o.kind, o.seq>> : o \in fresh}
      /\ buffer' = {}
      /\ Emit(<<RealityMsg(session, buffer \cup fresh)>>)
      /\ UNCHANGED <<hostUp, configured, session, obsSeq, retryScheduled, timers, bot, life,
                     ticking, tags, epoch, sessions, errors, tainted, down>>

\* A timer that an earlier bot left running ticks over a bot that is still
\* joining and has no entity, registry, world or inventory yet: a target that it
\* acts on throws and ends the process.  A bot that has logged in ticks as any
\* other.
TickThrows ==
  /\ hostUp /\ ticking /\ bot # 0
  /\ life[bot] = "joining"
  /\ \E f \in Field : IF f \in {"break", "attack"} THEN Pending(f) ELSE state[f] # NoTarget
  /\ Dies
  /\ UNCHANGED up

\* A promise settles.  A dig of an earlier epoch is discarded and a dig that
\* counts ends its action key; a one-shot reports whatever its epoch.
Settle(j, ok) ==
  /\ j \in jobs
  /\ jobs' = jobs \ {j}
  /\ IF j.kind = "break"
     THEN /\ IF j.bot = epoch
             THEN /\ started' = started \ {j.key}
                  /\ terminal' = terminal \cup {j.key}
             ELSE UNCHANGED <<started, terminal>>
          /\ UNCHANGED <<buffer, reported>>
     ELSE LET fresh == Report(j.kind, ok, j.tag)
          IN  /\ buffer' = buffer \cup fresh
              /\ reported' = reported \cup {<<o.kind, o.seq>> : o \in fresh}
              /\ UNCHANGED <<started, terminal>>
  /\ UNCHANGED <<hostUp, configured, session, obsSeq, retryScheduled, timers, bot, life,
                 ticking, state, tags, epoch, sessions, errors, tainted, channels>>
=============================================================================
