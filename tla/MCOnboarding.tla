----------------------------- MODULE MCOnboarding -----------------------------
(***************************************************************************)
(* Onboarding over the head of the shipped workflow: the gate `backlog`    *)
(* with its two approvals and the two states they lead to.                 *)
(***************************************************************************)
EXTENDS Onboarding, MCGraphs

HeadType == {"START_PROJECT", "IMPORT_PROJECT", "TO_DISCOVERY", "APPROVE_DISCOVERY"}

HeadGraph ==
  "backlog" :> Branching(GateState(None, None),
                         "START_PROJECT" :> "discovery" @@ "IMPORT_PROJECT" :> "onboarding")
  @@ "onboarding" :> Branching(CollaborativeState("auditor", None, None),
                               "TO_DISCOVERY" :> "discovery")
  @@ "discovery" :> CollaborativeState("planner", "APPROVE_DISCOVERY", "done")
  @@ "done" :> TerminalState

HeadName == DOMAIN HeadGraph \cup {"blocked", "failed", "cancelled"}
=============================================================================
