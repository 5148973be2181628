---------------------------- MODULE EngineControl ----------------------------
(***************************************************************************)
(* The engine's half of the control protocol, for one bot: what            *)
(* NetworkApplySystem does with one event of the tick's batch, and what    *)
(* GoalSelectorSystem does with the bot once the batch is applied.         *)
(*                                                                         *)
(* A tick drains the whole Inbox, applies it event by event and then runs  *)
(* the selector once.  Here any number of ApplyEvent steps may come before *)
(* a Select step, which gives every possible batch.  The utility scores    *)
(* are abstracted: any decision of Decisions may win a tick.               *)
(***************************************************************************)
EXTENDS ControllerChannels

CONSTANTS Decisions,   \* what the behaviors may decide in this instance
          MaxSeq       \* bound on the controller sequences of one session

\* A decision of the behavior runner: an action with its target, and a
\* movement target beside it; action "none" is a goal without an action.
Decision == [action : Field \cup {"none"}, target : MaybeTarget, move : MaybeTarget]

ASSUME EngineAssumption ==
  /\ Decisions \subseteq Decision
  /\ \A d \in Decisions : d.action # "none" => d.target \in Target
  /\ MaxSeq \in Nat

VARIABLES phase,       \* Session.Phase
          remote,      \* Session.RemoteSessionID; 0 is the empty string
          lastSeq,     \* Session.LastSequence
          reality,     \* the bot's entry of RealityView, NoReality if absent
          current,     \* UtilityAIState: the goal and the target it is after
          desired,     \* ControllerSyncState.Desired
          lastSent,    \* ControllerSyncState.LastSent
          ctlSeq,      \* ControllerSyncState.ControllerSequence
          inFlight,    \* ControllerSyncState.InFlightOneShot
          outcomeLost  \* history: an outcome for inFlight was overwritten

sync == <<current, desired, lastSent, ctlSeq, inFlight>>

engine == <<phase, remote, lastSeq, reality, sync, outcomeLost>>

Phase == {"stopped", "connecting", "ready", "retry"}

NoReality == [session |-> 0, outcomes |-> {}]

NoGoal == [action |-> "none", target |-> NoTarget]

NoInFlight == [action |-> "none", corr |-> 0, target |-> NoTarget]

EngineTypeOK ==
  /\ phase \in Phase /\ remote \in Nat /\ lastSeq \in Nat
  /\ reality \in [session : Nat, outcomes : SUBSET Outcome]
  /\ current \in [action : Field \cup {"none"}, target : MaybeTarget]
  /\ desired \in State /\ lastSent \in State
  /\ ctlSeq \in Nat
  /\ inFlight \in [action : OneShot \cup {"none"}, corr : Nat, target : MaybeTarget]
  /\ outcomeLost \in BOOLEAN

EngineInit ==
  /\ phase = "stopped"
  /\ remote = 0
  /\ lastSeq = 0
  /\ reality = NoReality
  /\ current = NoGoal
  /\ desired = EmptyState
  /\ lastSent = EmptyState
  /\ ctlSeq = 0
  /\ inFlight = NoInFlight
  /\ outcomeLost = FALSE

-----------------------------------------------------------------------------
(* NetworkApplySystem *)

Answers(outcomes) ==
  {o \in outcomes : o.kind = inFlight.action /\ o.seq = inFlight.corr}

\* Mutant: a status never begins a session.
BeginsNewRemoteSessionByObservation(e) ==
  e.type = "observation" /\ remote # 0 /\ e.session # remote

BeginsNewRemoteSession(e) == remote # 0 /\ e.session # remote

ResetSessionAI ==
  /\ current' = NoGoal
  /\ desired' = EmptyState
  /\ lastSent' = EmptyState
  /\ ctlSeq' = 0
  /\ inFlight' = NoInFlight
  /\ outcomeLost' = FALSE

PhaseAfter(e) ==
  IF e.type = "observation" THEN "ready"
  ELSE CASE e.status = "connecting" -> "connecting"
         [] e.status = "connected"  -> "ready"
         [] OTHER                   -> "retry"

\* An observation or a status: a new session resets the bot's AI before the
\* sequence is looked at, and only a sequence above the last one is accepted.
ApplyObservation(e) ==
  LET new  == e.session # remote
      last == IF new THEN 0 ELSE lastSeq
  IN  /\ reality' = IF BeginsNewRemoteSession(e) THEN NoReality ELSE reality
      /\ IF new THEN ResetSessionAI ELSE UNCHANGED <<sync, outcomeLost>>
      /\ IF e.seq > last
         THEN /\ remote' = e.session
              /\ lastSeq' = e.seq
              /\ phase' = PhaseAfter(e)
         ELSE UNCHANGED <<remote, lastSeq, phase>>

\* Reality feedback carries no ordered sequence: it replaces what the view
\* held if it is of the bot's session, and is dropped otherwise.
ApplyReality(e) ==
  /\ IF remote # 0 /\ e.session = remote
     THEN /\ reality' = [session |-> e.session, outcomes |-> e.outcomes]
          /\ outcomeLost' = (outcomeLost \/ Answers(reality.outcomes) # {})
     ELSE UNCHANGED <<reality, outcomeLost>>
  /\ UNCHANGED <<phase, remote, lastSeq, sync>>

ApplyEvent ==
  /\ up # <<>>
  /\ up' = Tail(up)
  /\ LET e == Head(up)
     IN  IF e.type = "reality" THEN ApplyReality(e) ELSE ApplyObservation(e)

-----------------------------------------------------------------------------
(* GoalSelectorSystem *)

\* The controller state a decision asks for.
StateFor(d) ==
  CASE d.action = "none"    -> EmptyState
    [] d.action = "goto"    -> Only("goto", d.target)
    [] d.action \in OneShot -> Only(d.action, d.target)
    [] OTHER                -> [Only(d.action, d.target) EXCEPT !["goto"] = d.move]

\* Matching feedback ends the in-flight one-shot; it completes or fails the
\* goal only if that goal and its target are still the selected ones.
Answered == inFlight.action # "none" /\ Answers(reality.outcomes) # {}

CompletedOneShot ==
  Answered /\ current = [action |-> inFlight.action, target |-> inFlight.target]

InFlightAfterFeedback == IF Answered THEN NoInFlight ELSE inFlight

\* Mutant: a one-shot does not wait for the one in flight.
DesiredForAtOnce(d) ==
  IF d.action \in OneShot /\ CompletedOneShot THEN EmptyState ELSE StateFor(d)

DesiredFor(d) ==
  IF d.action \in OneShot /\ CompletedOneShot THEN EmptyState
  ELSE IF d.action \in OneShot /\ InFlightAfterFeedback.action # "none" THEN desired
  ELSE StateFor(d)

\* One tick of the selector that decides d.  The difference from the last
\* state sent, if there is one, goes out under a new sequence; a one-shot is
\* then in flight unless another one still is, or has only now ended.
Select(d, connected) ==
  /\ phase = "ready"
  /\ current' = [action |-> d.action, target |-> d.target]
  /\ desired' = Validate(DesiredFor(d))
  /\ LET delta == Diff(lastSent, desired')
     IN  IF DOMAIN delta = {}
         THEN /\ inFlight' = InFlightAfterFeedback
              /\ UNCHANGED <<lastSent, ctlSeq, down>>
         ELSE /\ ctlSeq < MaxSeq
              /\ ctlSeq' = ctlSeq + 1
              /\ inFlight' = IF /\ d.action \in OneShot
                                /\ ~CompletedOneShot
                                /\ InFlightAfterFeedback.action = "none"
                             THEN [action |-> d.action, corr |-> ctlSeq', target |-> d.target]
                             ELSE InFlightAfterFeedback
              /\ lastSent' = desired'
              /\ SendControllerState(StateMsg(delta, <<remote, ctlSeq'>>), connected)
  /\ outcomeLost' = (outcomeLost /\ ~Answered)
  /\ UNCHANGED <<phase, remote, lastSeq, reality>>
=============================================================================
