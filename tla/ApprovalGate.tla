---------------------------- MODULE ApprovalGate ----------------------------
(***************************************************************************)
(* What the orchestrator promises about a project, without files, turns or *)
(* processes: the workflow state moves one declared edge at a time, only   *)
(* when a human approves, and every move is counted exactly once in the    *)
(* artifact revision.  The one other move is the engine giving up on an    *)
(* autonomous state.  An agent's turn is not an action here: a turn never  *)
(* moves a project.                                                        *)
(***************************************************************************)
EXTENDS Approvals

CONSTANTS Graph, Initial

VARIABLES workflow_state, artifact_revision

gateVars == <<workflow_state, artifact_revision>>

Init ==
  /\ workflow_state = Initial
  /\ artifact_revision = 0

\* A human approves.  A state that waits for an approval takes a type it
\* declares; any other state moves on for a text the command does not parse.
Grant(text) ==
  /\ RequiresApproval(Graph[workflow_state]) \/ text \in Phrase
  /\ Advance(Graph, workflow_state, text) # Nothing
  /\ workflow_state' = Advance(Graph, workflow_state, text)
  /\ artifact_revision' = artifact_revision + 1

GiveUp ==
  /\ Graph[workflow_state].kind = "autonomous"
  /\ workflow_state' = "blocked"
  /\ UNCHANGED artifact_revision

Next == GiveUp \/ \E text \in Text : Grant(text)

Spec == Init /\ [][Next]_gateVars
=============================================================================
