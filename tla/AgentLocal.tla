----------------------------- MODULE AgentLocal -----------------------------
(***************************************************************************)
(* What an agent keeps for itself: the artifacts below its model root      *)
(* (ArtifactInstall) and its event buffer (EventBuffer).  They share no    *)
(* state, so a behaviour is one of the one or one of the other.            *)
(***************************************************************************)
EXTENDS ArtifactInstall

CONSTANTS BufferLimit, HeartbeatLimit, MaxEvents

VARIABLES events, recorded, hb, received, trimmed,
          part      \* the one that moves

bufferVars == <<events, recorded, hb, received, trimmed>>

Buffer == INSTANCE EventBuffer

ASSUME AgentLocalAssumption == ArtifactInstallAssumption /\ Buffer!EventBufferAssumption

PackInit == part \in {"events", "install"} /\ Init /\ Buffer!Init

PackNext ==
  /\ \/ part = "events" /\ Buffer!Next /\ UNCHANGED vars
     \/ part = "install" /\ Next /\ UNCHANGED bufferVars
  /\ UNCHANGED part

\* The fairness of the installs.
PackSpec ==
  /\ PackInit /\ [][PackNext]_<<vars, bufferVars, part>>
  /\ part = "install" => Fairness

\* See the modules.
LossIsBounded == Buffer!LossIsBounded
AgentsGetReady == part = "install" => EventuallyReady
=============================================================================
