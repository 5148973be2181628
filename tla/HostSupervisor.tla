---------------------------- MODULE HostSupervisor ----------------------------
(***************************************************************************)
(* The engine's HostSupervisor: the goroutine of Runtime.Run, which starts *)
(* and stops the Node host, and for every host it starts a goroutine that  *)
(* watches the process and one that accepts and serves its connection.     *)
(* Hosts are numbered in the order they are started; 0 is Go's nil.        *)
(*                                                                         *)
(* The engine asks for a start in its first frame and never for a stop;    *)
(* here Apply may be given either at any time, as its interface allows.    *)
(***************************************************************************)
EXTENDS Integers, FiniteSets

CONSTANT MaxHosts  \* bound: hosts started

ASSUME SupervisorAssumption == MaxHosts \in Nat

VARIABLES ctxDone,    \* the context of Run is done
          run,        \* Run: "running", "failing" with an error of Apply, "ended" after its Close
          started, command, connection, listener, cancel,  \* the fields of HostSupervisor
          launched,   \* hosts started so far
          exited,     \* hosts whose process has ended
          cancelled,  \* hosts whose own context was cancelled
          unheard,    \* hosts whose listener is closed
          hungUp,     \* hosts whose connection Close has closed
          watch,      \* where the goroutine watch of each host is
          accept,     \* where the goroutine accept of each host is
          failed      \* history: a restart has failed

fields == <<started, command, connection, listener, cancel>>

hosts == <<launched, exited, cancelled, unheard, hungUp, watch, accept>>

vars == <<ctxDone, run, fields, hosts, failed>>

Hosts == 1 .. MaxHosts

Processes == 1 .. launched

\* The context of a host is done: CommandContext kills its process.
Killed(g) == ctxDone \/ g \in cancelled

Live(g) == g \in Processes /\ g \notin exited /\ ~Killed(g)

Init ==
  /\ ctxDone = FALSE
  /\ run = "running"
  /\ started = FALSE
  /\ command = 0 /\ connection = 0 /\ listener = 0 /\ cancel = 0
  /\ launched = 0
  /\ exited = {} /\ cancelled = {} /\ unheard = {} /\ hungUp = {}
  /\ watch = [g \in Hosts |-> "none"]
  /\ accept = [g \in Hosts |-> "none"]
  /\ failed = FALSE

-----------------------------------------------------------------------------
(* Start and Close, both under the mutex *)

\* Mutant: a host that is started does not keep another from being started.
MayStartAlways == TRUE

MayStart == ~started

\* Start succeeds.  The watches in "returned" end in the same step.
\* exec.Cmd starts no process under a context that is done.
Launch(returned) ==
  /\ MayStart /\ ~ctxDone
  /\ launched < MaxHosts
  /\ LET g == launched + 1 IN
       /\ launched' = g
       /\ command' = g /\ listener' = g /\ cancel' = g
       /\ watch' = [h \in Hosts |-> IF h = g THEN "waiting"
                                   ELSE IF h \in returned THEN "done" ELSE watch[h]]
       /\ accept' = [accept EXCEPT ![g] = "accepting"]
  /\ started' = TRUE
  /\ UNCHANGED <<connection, exited, cancelled, unheard, hungUp>>

\* Mutant: the listener is left open.
NothingToClose == {}

ListenerToClose == {listener} \ {0}

\* Close leaves the fields as they are, but for started.
CloseHost ==
  /\ cancelled' = cancelled \cup ({cancel} \ {0})
  /\ hungUp' = hungUp \cup ({connection} \ {0})
  /\ unheard' = unheard \cup ListenerToClose
  /\ started' = FALSE
  /\ UNCHANGED <<command, connection, listener, cancel, launched, exited, watch, accept>>

-----------------------------------------------------------------------------
(* Run: the frames' intents, and the deferred Close *)

ApplyStart ==
  /\ run = "running"
  /\ Launch({})
  /\ UNCHANGED <<ctxDone, run, failed>>

\* There is no directory, listener or script, or the process does not start:
\* the frame fails with the error.
ApplyStartFails ==
  /\ run = "running"
  /\ MayStart
  /\ run' = "failing"
  /\ UNCHANGED <<ctxDone, fields, hosts, failed>>

ApplyStop ==
  /\ run = "running"
  /\ CloseHost
  /\ UNCHANGED <<ctxDone, run, failed>>

\* The loop ends with its context or with the error of a frame.
RunEnds ==
  /\ run # "ended"
  /\ run' = "ended"
  /\ CloseHost
  /\ UNCHANGED <<ctxDone, failed>>

CancelContext ==
  /\ ~ctxDone
  /\ ctxDone' = TRUE
  /\ UNCHANGED <<run, fields, hosts, failed>>

-----------------------------------------------------------------------------
(* The process and its watch *)

\* A process ends by itself, by its socket's end, or because it is killed.
ProcessExits(g) ==
  /\ g \in Processes \ exited
  /\ exited' = exited \cup {g}
  /\ UNCHANGED <<ctxDone, run, fields, launched, cancelled, unheard, hungUp, watch, accept, failed>>

\* Mutant: a supervisor that was closed restarts its host.
ShouldRestartIfClosed(g) == command = g /\ ~ctxDone

\* Mutant: the end of an earlier host counts as that of the present one.
ShouldRestartForAny(g) == started /\ ~ctxDone

\* Mutant: only a host that has connected is restarted.
ShouldRestartIfConnected(g) == started /\ command = g /\ ~ctxDone /\ connection = g

ShouldRestart(g) == started /\ command = g /\ ~ctxDone

\* command.Wait returns.
WatchWakes(g) ==
  /\ g \in exited /\ watch[g] = "waiting"
  /\ IF ShouldRestart(g)
     THEN /\ started' = FALSE
          /\ connection' = 0 /\ listener' = 0 /\ command' = 0
          /\ unheard' = unheard \cup ({listener} \ {0})
          /\ watch' = [watch EXCEPT ![g] = "backoff"]
     ELSE /\ watch' = [watch EXCEPT ![g] = "done"]
          /\ UNCHANGED <<started, connection, listener, command, unheard>>
  /\ UNCHANGED <<ctxDone, run, cancel, launched, exited, cancelled, hungUp, accept, failed>>

\* A second later Start is called once more.
Restart(g) ==
  /\ watch[g] = "backoff"
  /\ Launch({g})
  /\ UNCHANGED <<ctxDone, run, failed>>

\* The context is done, another Start was first, or Start fails, whose error
\* is dropped.
NoRestart(g) ==
  /\ watch[g] = "backoff"
  /\ watch' = [watch EXCEPT ![g] = "done"]
  /\ failed' = (failed \/ ~(ctxDone \/ started))
  /\ UNCHANGED <<ctxDone, run, fields, launched, exited, cancelled, unheard, hungUp, accept>>

-----------------------------------------------------------------------------
(* The connection *)

\* Accept returns, perhaps a connection whose process has ended since.
Accepts(g) ==
  /\ accept[g] = "accepting" /\ g \notin unheard
  /\ accept' = [accept EXCEPT ![g] = "accepted"]
  /\ UNCHANGED <<ctxDone, run, fields, launched, exited, cancelled, unheard, hungUp, watch, failed>>

AcceptFails(g) ==
  /\ accept[g] = "accepting" /\ g \in unheard
  /\ accept' = [accept EXCEPT ![g] = "done"]
  /\ UNCHANGED <<ctxDone, run, fields, launched, exited, cancelled, unheard, hungUp, watch, failed>>

\* accept has the mutex: it does not look whether its host is still the one.
Connects(g) ==
  /\ accept[g] = "accepted"
  /\ connection' = g
  /\ accept' = [accept EXCEPT ![g] = "serving"]
  /\ UNCHANGED <<ctxDone, run, started, command, listener, cancel, launched, exited, cancelled,
                 unheard, hungUp, watch, failed>>

\* serve returns: the connection has ended, or what came over it is wrong.  The
\* field keeps the closed connection.
ServeEnds(g) ==
  /\ accept[g] = "serving"
  /\ accept' = [accept EXCEPT ![g] = "done"]
  /\ UNCHANGED <<ctxDone, run, fields, launched, exited, cancelled, unheard, hungUp, watch, failed>>

Next ==
  \/ ApplyStart \/ ApplyStartFails \/ ApplyStop
  \/ RunEnds
  \/ CancelContext
  \/ \E g \in Hosts :
       \/ ProcessExits(g) \/ WatchWakes(g) \/ Restart(g) \/ NoRestart(g)
       \/ Accepts(g) \/ AcceptFails(g) \/ Connects(g) \/ ServeEnds(g)

Spec == Init /\ [][Next]_vars

\* Goroutines run and the loop notices its context or its error.  A process
\* ends once it is killed or its connection is closed, a connection once its process
\* has ended or Close has closed it.
Fairness ==
  /\ WF_vars((ctxDone \/ run = "failing") /\ RunEnds)
  /\ \A g \in Hosts :
       /\ WF_vars((Killed(g) \/ accept[g] = "done") /\ ProcessExits(g))
       /\ WF_vars(WatchWakes(g))
       /\ WF_vars(Restart(g) \/ NoRestart(g))
       /\ WF_vars(AcceptFails(g))
       /\ WF_vars(Connects(g))
       /\ WF_vars((g \in exited \cup hungUp) /\ ServeEnds(g))

FairSpec == Spec /\ Fairness

-----------------------------------------------------------------------------
(* Properties *)

TypeOK ==
  /\ ctxDone \in BOOLEAN /\ started \in BOOLEAN /\ failed \in BOOLEAN
  /\ run \in {"running", "failing", "ended"}
  /\ launched \in 0 .. MaxHosts
  /\ command \in 0 .. launched /\ connection \in 0 .. launched
  /\ listener \in 0 .. launched /\ cancel \in 0 .. launched
  /\ exited \subseteq Processes /\ cancelled \subseteq Processes
  /\ unheard \subseteq Processes /\ hungUp \subseteq Processes
  /\ watch \in [Hosts -> {"none", "waiting", "backoff", "done"}]
  /\ accept \in [Hosts -> {"none", "accepting", "accepted", "serving", "done"}]
  /\ \A g \in Hosts \ Processes : watch[g] = "none" /\ accept[g] = "none"

\* The fields of a started supervisor are those of its latest host, which
\* Close can still reach; a host is left to run only while it is that one.
FieldsOfTheHost ==
  /\ started => /\ command = launched /\ listener = launched /\ cancel = launched
                /\ command # 0 /\ command \notin cancelled \cup unheard
                /\ ctxDone \/ watch[command] = "waiting"
  /\ \A g \in Hosts : Live(g) => started /\ command = g

Inv == TypeOK /\ FieldsOfTheHost

\* Two hosts never run at once: they would log the same bots in twice.
OneHost == \A g, h \in Hosts : Live(g) /\ Live(h) => g = h

\* A host that was stopped is not taken for one that crashed.
StoppedNotRestarted ==
  [][\A g \in Hosts : watch[g] # "backoff" /\ watch'[g] = "backoff" => ~Killed(g)]_vars

\* A host that ends by itself is replaced, unless the supervisor is closed, its
\* context ends or the restart fails.
CrashedHostReturns ==
  \A g \in Hosts :
    started /\ command = g /\ g \in exited
      ~> (\E h \in Hosts : Live(h)) \/ Killed(g) \/ failed \/ launched = MaxHosts

\* When the context ends before Run does, no process and no goroutine is left.
Gone ==
  \A g \in Processes : g \in exited /\ watch[g] = "done" /\ accept[g] = "done"

NothingLeft == ctxDone /\ run # "ended" ~> Gone

\* A host has ended by itself and its restart is still to come.
Lost ==
  \E g \in Processes :
    ~Live(g) /\ ~ctxDone /\ (watch[g] = "backoff" \/ (started /\ command = g))

LiveHosts == {g \in Hosts : Live(g)}

Lifecycle == INSTANCE HostLifecycle WITH
  live <- LiveHosts,
  lost <- LiveHosts = {} /\ Lost,
  over <- ctxDone

\* The supervisor keeps the promises of HostLifecycle.
KeepsLifecycle == Lifecycle!FairSpec
=============================================================================
