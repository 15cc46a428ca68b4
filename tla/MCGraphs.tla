------------------------------ MODULE MCGraphs ------------------------------
(***************************************************************************)
(* The workflows of the runs.  MCGraph is the shipped workflow             *)
(* from the onboarding of an imported project on, with the document states *)
(* after discovery and the second half of the autonomous chain cut out; it *)
(* has every kind of state: a branching collaborative one, an ordinary     *)
(* one, an autonomous one, a gate and terminal ones.  ShippedGraph is the  *)
(* shipped workflow.yaml itself.                                           *)
(***************************************************************************)
EXTENDS Workflow, TLC

None == Nothing
NoBranch == [t \in ApprovalType |-> Nothing]

GateState(type, next) ==
  [kind |-> "gate", role |-> None, completion |-> None, approval_type |-> type,
   next |-> next, on_failure |-> None, on_reject |-> None, max_attempts |-> 1,
   next_by_approval |-> NoBranch]

TerminalState == [GateState(None, None) EXCEPT !.kind = "terminal"]

CollaborativeState(role, type, next) ==
  [GateState(type, next) EXCEPT !.kind = "collaborative", !.role = role,
                           !.completion = "approval"]

AutonomousState(role, attempts, next) ==
  [GateState(None, next) EXCEPT !.kind = "autonomous", !.role = role,
                           !.max_attempts = attempts, !.on_failure = "blocked"]

Branching(st, branches) == [st EXCEPT !.next_by_approval = branches @@ @]

\* Texts nobody declares: a type in lower case, two words, the empty text.
Extra == {"approve_discovery", "looks good", ""}

Canonical(t) == IF t = "approve_discovery" THEN "APPROVE_DISCOVERY" ELSE t

-----------------------------------------------------------------------------
(* The part of the workflow an imported project goes through *)

MCApprovalType ==
  {"TO_DISCOVERY", "TO_IMPLEMENTATION", "APPROVE_DISCOVERY", "APPROVE_MERGE"}

MCText == MCApprovalType \cup Extra

MCUpper == [t \in MCText |-> Canonical(t)]

MCGraph ==
  [n \in {"onboarding", "discovery", "implementation", "awaiting-merge",
          "done", "blocked"} |->
     CASE n = "onboarding" ->
            Branching(CollaborativeState("auditor", None, None),
                      "TO_DISCOVERY" :> "discovery" @@ "TO_IMPLEMENTATION" :> "implementation")
       [] n = "discovery" -> CollaborativeState("planner", "APPROVE_DISCOVERY", "implementation")
       [] n = "implementation" -> AutonomousState("builder", 2, "awaiting-merge")
       [] n = "awaiting-merge" -> GateState("APPROVE_MERGE", "done")
       [] OTHER -> TerminalState]

MCName == DOMAIN MCGraph \cup {"failed", "cancelled"}

-----------------------------------------------------------------------------
(* templates/workspace/config/workflow.yaml, whole *)

ToName ==
  "TO_DISCOVERY" :> "discovery" @@ "TO_PLANNING" :> "planning" @@
  "TO_PRODUCT_DESIGN" :> "product-design" @@ "TO_ARCHITECTURE" :> "architecture" @@
  "TO_AWAITING_APPROVAL" :> "awaiting-approval" @@
  "TO_IMPLEMENTATION" :> "implementation" @@ "TO_REVIEW" :> "review" @@ "TO_QA" :> "qa"

ShippedApprovalType ==
  DOMAIN ToName \cup
  {"START_PROJECT", "IMPORT_PROJECT", "APPROVE_DISCOVERY", "APPROVE_PRD",
   "APPROVE_PRODUCT_DESIGN", "APPROVE_ARCHITECTURE", "APPROVE_TECH_PLAN", "APPROVE_MERGE"}

ShippedText == ShippedApprovalType \cup Extra

ShippedName ==
  {ToName[t] : t \in DOMAIN ToName} \cup
  {"backlog", "onboarding", "awaiting-merge", "done", "blocked", "cancelled", "failed"}

ShippedGraph ==
  [n \in ShippedName |->
     CASE n = "backlog" ->
            Branching(GateState(None, None),
                      "START_PROJECT" :> "discovery" @@ "IMPORT_PROJECT" :> "onboarding")
       [] n = "onboarding" -> Branching(CollaborativeState("auditor", None, None), ToName)
       [] n = "discovery" -> CollaborativeState("planner", "APPROVE_DISCOVERY", "planning")
       [] n = "planning" -> CollaborativeState("planner", "APPROVE_PRD", "product-design")
       [] n = "product-design" ->
            CollaborativeState("product-designer", "APPROVE_PRODUCT_DESIGN", "architecture")
       [] n = "architecture" ->
            CollaborativeState("architect", "APPROVE_ARCHITECTURE", "awaiting-approval")
       [] n = "awaiting-approval" -> GateState("APPROVE_TECH_PLAN", "implementation")
       [] n = "implementation" -> AutonomousState("builder", 2, "review")
       [] n = "review" -> AutonomousState("reviewer", 2, "qa")
       [] n = "qa" -> [AutonomousState("qa", 2, "awaiting-merge")
                         EXCEPT !.on_reject = "implementation"]
       [] n = "awaiting-merge" -> GateState("APPROVE_MERGE", "done")
       [] OTHER -> TerminalState]
=============================================================================
