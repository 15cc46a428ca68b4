-------------------------- MODULE DocumentedClaims --------------------------
(***************************************************************************)
(* Sentences of the repository's own documents and comments, stated over   *)
(* CliProject.  Each is refuted by what the code does; PROJECT.json quotes *)
(* the sentence and README.md tells the counterexample.                    *)
(***************************************************************************)
EXTENDS CliProject

\* docs/plan.md:311, domain/approvals.py:3: free text is always feedback, and
\* only a typed approval that the pending action names moves a project.
TypedApprovalsOnly ==
  [][disk'.artifact_revision > disk.artifact_revision
     => /\ RequiresApproval(Graph[disk.workflow_state])
        /\ appr.text \in Valid(Graph[disk.workflow_state])]_vars

\* docs/plan.md:119: `previous turn failed` is a boundary trigger, so no turn
\* resumes a conversation whose last turn failed.
FailedTurnIsBoundary ==
  turn.pc = "invoke" /\ turn.resume =>
    LET id == turn.snap.session.id
    IN  id # Unknown => ~ hermes[id].failed
=============================================================================
