------------------------- MODULE ControllerChannels -------------------------
(***************************************************************************)
(* The two directions of the local socket between the engine and the Node  *)
(* host, for one bot, with what each message carries of the control        *)
(* protocol.  Both directions keep their order and the engine's Inbox and  *)
(* Outbox keep it too, so each is one sequence.  A host process that is    *)
(* started again has a connection and a goroutine of its own, so between   *)
(* what is left of the old one and what the new one writes the order is an *)
(* assumption: the supervisor waits a second before it starts the process. *)
(*                                                                         *)
(* A tag <<session, sequence>> is a history value: it names the delta a    *)
(* target or an outcome stems from by the session the engine was           *)
(* addressing when it sent it.  The wire carries the sequence alone.       *)
(***************************************************************************)
EXTENDS Naturals, Sequences, ControllerState

CONSTANT MaxUp         \* messages the host may have in flight to the engine

ASSUME MaxUpAssumption == MaxUp \in Nat

VARIABLES up,          \* host to engine: observations and realities
          down         \* engine to host: the configuration and the deltas

channels == <<up, down>>

Tag == Nat \X Nat

NoTag == <<0, 0>>

Outcome == [kind : OneShot, seq : Nat, ok : BOOLEAN, exec : Tag]

Status == {"connecting", "connected", "disconnected", "failed"}

UpMessage ==
       [type : {"status"}, session : Nat, seq : Nat, status : Status]
  \cup [type : {"observation"}, session : Nat, seq : Nat]
  \cup [type : {"reality"}, session : Nat, outcomes : SUBSET Outcome]

DownMessage ==
       [type : {"configure"}]
  \cup [type : {"state"}, delta : Delta, tag : Tag]

ChannelsTypeOK == up \in Seq(UpMessage) /\ down \in Seq(DownMessage)

StatusMsg(session, seq, status) ==
  [type |-> "status", session |-> session, seq |-> seq, status |-> status]

ObservationMsg(session, seq) ==
  [type |-> "observation", session |-> session, seq |-> seq]

RealityMsg(session, outcomes) ==
  [type |-> "reality", session |-> session, outcomes |-> outcomes]

Configuration == [type |-> "configure"]

StateMsg(delta, tag) == [type |-> "state", delta |-> delta, tag |-> tag]

\* Mutant: a later write overtakes the ones before it.
EmitFirst(messages) ==
  /\ Len(up) + Len(messages) =< MaxUp
  /\ up' = messages \o up

\* The host writes its messages in the order its handlers emit them.
Emit(messages) ==
  /\ Len(up) + Len(messages) =< MaxUp
  /\ up' = up \o messages

\* sendControllerState(): without a connection the delta is dropped.
SendControllerState(message, connected) ==
  down' = IF connected THEN Append(down, message) ELSE down
=============================================================================
