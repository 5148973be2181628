------------------------- MODULE HostSupervisorProofs -------------------------
(***************************************************************************)
(* Theorems about HostSupervisor, for any number of hosts.                 *)
(***************************************************************************)
EXTENDS HostSupervisor, TLAPS

\* The step of a start is used by ApplyStart and by every Restart.
LEMMA LaunchKeepsInv ==
  ASSUME Inv, NEW returned \in SUBSET Hosts, \A h \in returned : watch[h] = "backoff",
         Launch(returned), UNCHANGED <<ctxDone, run, failed>>
  PROVE  Inv'
<1>. USE SupervisorAssumption DEF Inv, TypeOK, FieldsOfTheHost, Launch, MayStart, Hosts, Processes,
         Live, Killed
<1>1. launched + 1 \in Hosts /\ launched' = launched + 1
  OBVIOUS
<1>2. TypeOK'
  <2>1. /\ ctxDone' \in BOOLEAN /\ started' \in BOOLEAN /\ failed' \in BOOLEAN
        /\ run' \in {"running", "failing", "ended"}
        /\ launched' \in 0 .. MaxHosts
        /\ command' \in 0 .. launched' /\ connection' \in 0 .. launched'
        /\ listener' \in 0 .. launched' /\ cancel' \in 0 .. launched'
    BY <1>1
  <2>2. Processes \subseteq Processes'
    BY <1>1
  <2>3. /\ exited' \subseteq Processes' /\ cancelled' \subseteq Processes'
        /\ unheard' \subseteq Processes' /\ hungUp' \subseteq Processes'
    BY <2>2
  <2>4. /\ watch' \in [Hosts -> {"none", "waiting", "backoff", "done"}]
        /\ accept' \in [Hosts -> {"none", "accepting", "accepted", "serving", "done"}]
    BY <1>1
  <2>5. \A g \in Hosts \ Processes' : watch[g] = "none" /\ accept[g] = "none" /\ g # launched + 1
    BY <1>1, <2>2
  <2>6. \A g \in Hosts \ Processes' : watch'[g] = "none" /\ accept'[g] = "none"
    BY <1>1, <2>5
  <2>. QED  BY <2>1, <2>3, <2>4, <2>6
<1>3. (launched + 1 \notin cancelled) /\ (launched + 1 \notin unheard)
  OBVIOUS
<1>4. FieldsOfTheHost'
  BY <1>1, <1>3
<1>. QED  BY <1>2, <1>4

LEMMA CloseKeepsInv ==
  ASSUME Inv, CloseHost, UNCHANGED <<ctxDone, failed>>, run' \in {"running", "failing", "ended"}
  PROVE  Inv'
<1>. USE SupervisorAssumption DEF Inv, TypeOK, FieldsOfTheHost, CloseHost, ListenerToClose, Hosts,
         Processes, Live, Killed
<1>1. TypeOK'
  <2>1. cancel \in Processes \cup {0} /\ connection \in Processes \cup {0}
        /\ listener \in Processes \cup {0}
    OBVIOUS
  <2>. QED  BY <2>1
<1>2. \A g \in Hosts : ~Live(g)'
  OBVIOUS
<1>. QED  BY <1>1, <1>2

\* The invariant is inductive: the supervisor's fields and what is left to run
\* always agree.
LEMMA InvInductive == Inv /\ [Next]_vars => Inv'
<1>. SUFFICES ASSUME Inv, [Next]_vars PROVE Inv'
  OBVIOUS
<1>. USE SupervisorAssumption DEF Inv
<1>1. CASE ApplyStart
  BY <1>1, LaunchKeepsInv DEF ApplyStart
<1>2. CASE ApplyStartFails
  BY <1>2 DEF ApplyStartFails, TypeOK, FieldsOfTheHost, fields, hosts, Hosts, Processes, Live, Killed
<1>3. CASE ApplyStop
  BY <1>3, CloseKeepsInv DEF ApplyStop, TypeOK
<1>4. CASE RunEnds
  BY <1>4, CloseKeepsInv DEF RunEnds
<1>5. CASE CancelContext
  BY <1>5 DEF CancelContext, TypeOK, FieldsOfTheHost, fields, hosts, Hosts, Processes, Live, Killed
<1>6. ASSUME NEW g \in Hosts, ProcessExits(g) PROVE Inv'
  BY <1>6 DEF ProcessExits, TypeOK, FieldsOfTheHost, fields, Hosts, Processes, Live, Killed
<1>7. ASSUME NEW g \in Hosts, WatchWakes(g) PROVE Inv'
  <2>. g \in Processes
    BY <1>7 DEF WatchWakes, TypeOK
  <2>1. CASE ShouldRestart(g)
    <3>. listener \in Processes \cup {0}
      BY DEF TypeOK, Processes
    <3>1. TypeOK'
      <4>1. /\ command' \in 0 .. launched' /\ connection' \in 0 .. launched'
            /\ listener' \in 0 .. launched' /\ cancel' \in 0 .. launched'
        BY <1>7, <2>1 DEF WatchWakes, TypeOK
      <4>2. Processes' = Processes
        BY <1>7 DEF WatchWakes, Processes
      <4>3. unheard' \subseteq Processes'
        BY <1>7, <2>1, <4>2 DEF WatchWakes, TypeOK
      <4>4. /\ watch' \in [Hosts -> {"none", "waiting", "backoff", "done"}]
            /\ \A h \in Hosts \ Processes' : watch'[h] = "none" /\ accept'[h] = "none"
        BY <1>7, <2>1, <4>2 DEF WatchWakes, TypeOK
      <4>. QED  BY <1>7, <2>1, <4>1, <4>2, <4>3, <4>4 DEF WatchWakes, TypeOK
    <3>2. \A h \in Hosts : ~Live(h)'
      BY <1>7, <2>1 DEF WatchWakes, ShouldRestart, TypeOK, FieldsOfTheHost, Hosts, Processes, Live,
                        Killed
    <3>. QED  BY <1>7, <2>1, <3>1, <3>2 DEF WatchWakes, FieldsOfTheHost
  <2>2. CASE ~ShouldRestart(g)
    <3>1. TypeOK'
      BY <1>7, <2>2 DEF WatchWakes, TypeOK, Processes
    <3>2. ASSUME started, ~ctxDone PROVE watch'[command] = "waiting"
      <4>1. command # g
        BY <2>2, <3>2 DEF ShouldRestart
      <4>2. command \in Hosts
        BY <3>2 DEF TypeOK, FieldsOfTheHost, Hosts
      <4>3. watch[command] = "waiting"
        BY <3>2 DEF FieldsOfTheHost
      <4>4. watch' = [watch EXCEPT ![g] = "done"] /\ watch \in [Hosts -> {"none", "waiting", "backoff", "done"}]
        BY <1>7, <2>2 DEF WatchWakes, TypeOK
      <4>. QED  BY <4>1, <4>2, <4>3, <4>4
    <3>3. FieldsOfTheHost'
      BY <1>7, <2>2, <3>2 DEF WatchWakes, FieldsOfTheHost, Processes, Live, Killed
    <3>. QED  BY <3>1, <3>3
  <2>. QED  BY <2>1, <2>2
<1>8. ASSUME NEW g \in Hosts, Restart(g) PROVE Inv'
  BY <1>8, LaunchKeepsInv DEF Restart
<1>9. ASSUME NEW g \in Hosts, NoRestart(g) PROVE Inv'
  BY <1>9 DEF NoRestart, TypeOK, FieldsOfTheHost, fields, Hosts, Processes, Live, Killed
<1>10. ASSUME NEW g \in Hosts, Accepts(g) \/ AcceptFails(g) \/ ServeEnds(g) PROVE Inv'
  <2>1. g \in Processes
    BY <1>10 DEF Accepts, AcceptFails, ServeEnds, TypeOK
  <2>2. TypeOK'
    BY <1>10, <2>1 DEF Accepts, AcceptFails, ServeEnds, TypeOK, fields, Processes
  <2>3. FieldsOfTheHost'
    BY <1>10 DEF Accepts, AcceptFails, ServeEnds, FieldsOfTheHost, fields, Processes, Live, Killed
  <2>. QED  BY <2>2, <2>3
<1>11. ASSUME NEW g \in Hosts, Connects(g) PROVE Inv'
  BY <1>11 DEF Connects, TypeOK, FieldsOfTheHost, fields, Hosts, Processes, Live, Killed
<1>12. CASE UNCHANGED vars
  BY <1>12 DEF vars, TypeOK, FieldsOfTheHost, fields, hosts, Hosts, Processes, Live, Killed
<1>. QED
  BY <1>1, <1>2, <1>3, <1>4, <1>5, <1>6, <1>7, <1>8, <1>9, <1>10, <1>11, <1>12 DEF Next

LEMMA InitInv == Init => Inv
<1>. SUFFICES ASSUME Init PROVE Inv
  OBVIOUS
<1>1. Processes = {}
  BY DEF Init, Processes
<1>2. TypeOK
  <2>1. launched \in 0 .. MaxHosts /\ 0 \in 0 .. launched
    BY SupervisorAssumption DEF Init
  <2>. QED  BY <1>1, <2>1 DEF Init, TypeOK
<1>3. FieldsOfTheHost
  BY <1>1 DEF Init, FieldsOfTheHost, Live
<1>. QED  BY <1>2, <1>3 DEF Inv

\* The state of the supervisor is well typed, and its fields are those of the
\* only host it lets run.
THEOREM FieldsAgree == Spec => []Inv
BY InitInv, InvInductive, PTL DEF Spec

-----------------------------------------------------------------------------

\* Two Node hosts never run at once, however starts, stops, crashes and
\* restarts interleave.
THEOREM AtMostOneHost == Spec => []OneHost
<1>1. Inv => OneHost
  BY DEF Inv, FieldsOfTheHost, OneHost
<1>. QED  BY <1>1, FieldsAgree, PTL

\* A watch that finds its host ended waits for a restart only if nobody had
\* told that host to end.
THEOREM NoRestartOfTheStopped == Spec => StoppedNotRestarted
<1>. DEFINE OnlyCrashed ==
       \A g \in Hosts : watch[g] # "backoff" /\ watch'[g] = "backoff" => ~Killed(g)
<1>1. Inv /\ [Next]_vars => [OnlyCrashed]_vars
  <2>. SUFFICES ASSUME Inv, [Next]_vars, NEW g \in Hosts,
                       watch[g] # "backoff", watch'[g] = "backoff"
                PROVE  ~Killed(g)
    OBVIOUS
  <2>. USE DEF Inv, TypeOK
  <2>1. CASE \E h \in Hosts : WatchWakes(h)
    <3>. PICK h \in Hosts : WatchWakes(h)
      BY <2>1
    <3>1. h = g /\ ShouldRestart(g)
      BY DEF WatchWakes
    <3>. QED  BY <3>1 DEF ShouldRestart, FieldsOfTheHost, Killed
  <2>2. CASE ApplyStart \/ \E h \in Hosts : Restart(h)
    BY <2>2 DEF ApplyStart, Restart, Launch
  <2>3. CASE \E h \in Hosts : NoRestart(h)
    BY <2>3 DEF NoRestart
  <2>. QED
    BY <2>1, <2>2, <2>3 DEF Next, vars, fields, hosts, CloseHost, ApplyStartFails, ApplyStop, RunEnds,
       CancelContext, ProcessExits, Accepts, AcceptFails, Connects, ServeEnds
<1>. QED  BY <1>1, FieldsAgree, PTL DEF Spec, StoppedNotRestarted

-----------------------------------------------------------------------------
(* The supervisor implements HostLifecycle: its steps are steps of the      *)
(* abstract specification, or change nothing there.                        *)

AbstractLost == LiveHosts = {} /\ Lost

\* A start launches the only host.
LEMMA LaunchRefines ==
  ASSUME Inv, NEW returned, Launch(returned), UNCHANGED ctxDone
  PROVE  Lifecycle!Launch
<1>. USE SupervisorAssumption DEF Inv, TypeOK, FieldsOfTheHost, Launch, MayStart, Hosts, Processes,
         Live, Killed
<1>1. LiveHosts = {}
  BY DEF LiveHosts
<1>2. LiveHosts' = {launched + 1} /\ launched + 1 \in Hosts
  BY DEF LiveHosts
<1>3. AbstractLost' = FALSE
  BY <1>2 DEF AbstractLost
<1>. QED  BY <1>1, <1>2, <1>3 DEF Lifecycle!Launch, AbstractLost

\* Close ends the host, and what was lost stays so only if its restart was
\* waiting already.
LEMMA CloseRefines ==
  ASSUME Inv, CloseHost, UNCHANGED ctxDone
  PROVE  [Lifecycle!Next]_(Lifecycle!vars)
<1>1. LiveHosts' = {}
  BY SupervisorAssumption
     DEF Inv, TypeOK, FieldsOfTheHost, CloseHost, Hosts, Processes, LiveHosts, Live, Killed
<1>2. CASE ~Lost'
  <2>1. AbstractLost' = FALSE
    BY <1>2 DEF AbstractLost
  <2>. QED  BY <1>1, <2>1 DEF Lifecycle!Next, Lifecycle!Drop, AbstractLost
<1>3. CASE Lost' /\ LiveHosts = {}
  <2>1. Lost
    <3>1. PICK g \in Processes' : ~ctxDone' /\ watch'[g] = "backoff"
      BY <1>3 DEF Lost, CloseHost
    <3>2. g \in Processes /\ g \in Hosts /\ ~ctxDone /\ watch[g] = "backoff"
      BY <3>1, SupervisorAssumption DEF CloseHost, Inv, TypeOK, Hosts, Processes
    <3>3. ~Live(g)
      BY <1>3, <3>2 DEF LiveHosts
    <3>. QED  BY <3>2, <3>3 DEF Lost
  <2>. QED  BY <1>1, <1>3, <2>1 DEF Lifecycle!vars
<1>4. CASE Lost' /\ LiveHosts # {}
  <2>1. AbstractLost' = TRUE
    BY <1>1, <1>4 DEF AbstractLost, Lost
  <2>. QED  BY <1>1, <1>4, <2>1 DEF Lifecycle!Next, Lifecycle!Lose, AbstractLost
<1>. QED  BY <1>2, <1>3, <1>4

LEMMA StepRefines ==
  ASSUME Inv, [Next]_vars
  PROVE  [Lifecycle!Next]_(Lifecycle!vars)
<1>. USE DEF Inv
<1>1. ASSUME Launch({}) \/ \E g \in Hosts : Launch({g}), UNCHANGED ctxDone
      PROVE  Lifecycle!Next
  BY <1>1, LaunchRefines DEF Lifecycle!Next
<1>2. CASE ApplyStart
  BY <1>1, <1>2 DEF ApplyStart
<1>3. CASE ApplyStop \/ RunEnds
  BY <1>3, CloseRefines DEF ApplyStop, RunEnds
<1>4. CASE CancelContext
  <2>1. LiveHosts' = {} /\ AbstractLost' = FALSE /\ ctxDone' = TRUE
    BY <1>4 DEF CancelContext, LiveHosts, AbstractLost, Lost, Live, Killed
  <2>. QED  BY <2>1 DEF Lifecycle!Next, Lifecycle!End, AbstractLost
<1>5. ASSUME NEW g \in Hosts, ProcessExits(g), Live(g)
      PROVE  Lifecycle!Next
  <2>. USE <1>5 DEF ProcessExits, fields
  <2>1. LiveHosts # {} /\ LiveHosts' = {}
    BY DEF FieldsOfTheHost, LiveHosts, Live, Killed, Processes, Hosts
  <2>2. g \in Processes' /\ ~Live(g)' /\ ~ctxDone' /\ started' /\ command' = g
    BY DEF FieldsOfTheHost, Live, Killed, Processes
  <2>3. AbstractLost' = TRUE
    BY <2>1, <2>2 DEF AbstractLost, Lost
  <2>. QED  BY <2>1, <2>3 DEF Lifecycle!Next, Lifecycle!Lose, AbstractLost
<1>6. ASSUME NEW g \in Hosts, ProcessExits(g), ~Live(g)
      PROVE  UNCHANGED Lifecycle!vars
  <2>1. \A h \in Processes : Live(h)' = Live(h)
    BY <1>6 DEF ProcessExits, fields, Live, Killed, Processes
  <2>2. LiveHosts' = LiveHosts
    BY <1>6 DEF ProcessExits, fields, LiveHosts, Live, Killed, Processes
  <2>3. Lost' = Lost
    BY <1>6, <2>1 DEF ProcessExits, fields, Lost, Processes
  <2>. QED  BY <1>6, <2>2, <2>3 DEF ProcessExits, Lifecycle!vars
<1>7. ASSUME NEW g \in Hosts, WatchWakes(g)
      PROVE  UNCHANGED Lifecycle!vars
  <2>. USE <1>7 DEF WatchWakes
  <2>1. LiveHosts' = LiveHosts /\ \A h \in Processes : Live(h)' = Live(h)
    BY DEF LiveHosts, Live, Killed, Processes
  <2>2. g \in Processes /\ Processes' = Processes /\ ~Live(g)
    BY DEF TypeOK, Live, Processes
  <2>3. CASE ShouldRestart(g)
    <3>1. Lost
      BY <2>2, <2>3 DEF Lost, ShouldRestart
    <3>2. watch'[g] = "backoff" /\ ~ctxDone' /\ g \in Processes' /\ ~Live(g)'
      BY <2>1, <2>2, <2>3 DEF ShouldRestart, TypeOK
    <3>3. Lost'
      BY <3>2 DEF Lost
    <3>. QED  BY <2>1, <3>1, <3>3 DEF Lifecycle!vars
  <2>4. CASE ~ShouldRestart(g)
    <3>1. \A h \in Hosts : watch'[h] = "backoff" <=> watch[h] = "backoff"
      BY <2>4 DEF TypeOK
    <3>2. Processes \subseteq Hosts
      BY SupervisorAssumption DEF TypeOK, Processes, Hosts
    <3>3. Lost' <=> Lost
      BY <2>1, <2>2, <2>4, <3>1, <3>2 DEF Lost
    <3>. QED  BY <2>1, <3>3 DEF Lifecycle!vars
  <2>. QED  BY <2>3, <2>4
<1>8. ASSUME NEW g \in Hosts, Restart(g) PROVE Lifecycle!Next
  BY <1>1, <1>8 DEF Restart
<1>9. ASSUME NEW g \in Hosts, NoRestart(g)
      PROVE  [Lifecycle!Next]_(Lifecycle!vars)
  <2>. USE <1>9 DEF NoRestart, fields
  <2>1. LiveHosts' = LiveHosts /\ ctxDone' = ctxDone
    BY DEF LiveHosts, Live, Killed, Processes
  <2>2. Lost' => Lost
    BY DEF Lost, Live, Killed, Processes, TypeOK, Hosts
  <2>3. CASE AbstractLost' = AbstractLost
    BY <2>1, <2>3 DEF AbstractLost, Lifecycle!vars
  <2>4. CASE AbstractLost' # AbstractLost
    <3>1. LiveHosts' = {} /\ AbstractLost' = FALSE
      BY <2>1, <2>2, <2>4 DEF AbstractLost
    <3>. QED  BY <2>1, <3>1 DEF Lifecycle!Next, Lifecycle!Drop, AbstractLost
  <2>. QED  BY <2>3, <2>4
<1>10. ASSUME UNCHANGED <<ctxDone, started, command, launched, exited, cancelled, watch>>
       PROVE  UNCHANGED Lifecycle!vars
  BY <1>10 DEF Lifecycle!vars, LiveHosts, Lost, Live, Killed, Processes
<1>. QED
  BY <1>2, <1>3, <1>4, <1>5, <1>6, <1>7, <1>8, <1>9, <1>10
     DEF Next, vars, fields, hosts, ApplyStartFails, Accepts, AcceptFails, Connects, ServeEnds

\* Every behavior of the supervisor is one HostLifecycle allows: hosts come one
\* after the other, and none once the context is done.
THEOREM SupervisorRefinesLifecycle == Spec => Lifecycle!Spec
<1>1. Init => Lifecycle!Init
  BY DEF Init, Lifecycle!Init, LiveHosts, Lost, Live, Processes
<1>2. Inv /\ [Next]_vars => [Lifecycle!Next]_(Lifecycle!vars)
  BY StepRefines
<1>. QED  BY <1>1, <1>2, FieldsAgree, PTL DEF Spec, Lifecycle!Spec
=============================================================================
