------------------------------ MODULE Workflow ------------------------------
(***************************************************************************)
(* The workflow graph of domain/workflow.py: what one state of             *)
(* workflow.yaml says, what a loaded definition guarantees, and where      *)
(* advance() and fail() go.                                                *)
(*                                                                         *)
(* A definition is a function from the names it declares to StateSpec      *)
(* records.  Name may be larger than the domain of a definition: a target  *)
(* that is not declared is exactly what _validate() looks for.  Nothing    *)
(* stands for Python's None and for a raised WorkflowError.                *)
(***************************************************************************)
EXTENDS Integers

CONSTANTS
  Name,          \* names a workflow.yaml can mention
  Text,          \* what a human can give as an approval type
  ApprovalType,  \* the approval types workflow.yaml declares
  Role,          \* agent roles
  Nothing        \* None

ASSUME WorkflowAssumption ==
  /\ {"blocked", "failed", "cancelled"} \subseteq Name
  /\ ApprovalType \subseteq Text
  /\ Text # {}
  /\ Nothing \notin Name \cup Text \cup Role

Kinds == {"autonomous", "collaborative", "gate", "terminal"}

\* One declared state.  next_by_approval maps a type to its destination, or
\* to Nothing when the state does not declare the type.
StateSpec ==
  [kind             : Kinds,
   role             : Role \cup {Nothing},
   completion       : {"approval", Nothing},
   approval_type    : ApprovalType \cup {Nothing},
   next             : Name \cup {Nothing},
   on_failure       : Name \cup {Nothing},
   on_reject        : Name \cup {Nothing},
   max_attempts     : Int,
   next_by_approval : [ApprovalType -> Name \cup {Nothing}]]

RunsAgent(st) == st.kind \in {"autonomous", "collaborative"}

\* Only collaborative states may resume a Hermes session.
AllowsContinuation(st) == st.kind = "collaborative"

RequiresApproval(st) == st.kind = "gate" \/ st.completion = "approval"

Branches(st) == {t \in ApprovalType : st.next_by_approval[t] # Nothing}

-----------------------------------------------------------------------------
(* Loading: _validate and _assert_reachable *)

PlainTargets(st) == {st.next, st.on_failure, st.on_reject} \ {Nothing}

Targets(st) == PlainTargets(st) \cup {st.next_by_approval[t] : t \in Branches(st)}

\* BROKEN: looks at `next` only; does not ask for a way on.
WellFormedNextOnly(def, n) ==
  LET st == def[n]
  IN  /\ {st.next} \ {Nothing} \subseteq DOMAIN def
      /\ st.kind # "terminal" => st.next # Nothing \/ Branches(st) # {}

WellFormedNoWayOn(def, n) == Targets(def[n]) \subseteq DOMAIN def

\* The per-state half of _validate: every target is declared, and a state
\* that is not terminal can be left, has a role when it runs an agent and a
\* type when it waits for an approval.
WellFormed(def, n) ==
  LET st == def[n]
      typed == st.approval_type # Nothing \/ Branches(st) # {}
  IN  /\ Targets(st) \subseteq DOMAIN def
      /\ st.kind # "terminal" =>
           /\ st.next # Nothing \/ Branches(st) # {}
           /\ RunsAgent(st) => st.role # Nothing
           /\ RequiresApproval(st) => typed

Validates(def, initial) ==
  /\ initial \in DOMAIN def
  /\ \A n \in DOMAIN def : WellFormed(def, n)

\* Entered by the engine, so they need no incoming edge.
Exceptional == {"cancelled", "failed", "blocked"}

-----------------------------------------------------------------------------
(* Queries *)

\* Where `frm` goes on the happy path, or Nothing when advance() raises.
\* A state that neither branches nor requires an approval looks at no type.
Advance(def, frm, approval) ==
  LET st == def[frm]
  IN  IF st.kind = "terminal" THEN Nothing
      ELSE IF Branches(st) # {}
        THEN IF approval \in Branches(st) THEN st.next_by_approval[approval] ELSE Nothing
      ELSE IF RequiresApproval(st) /\ approval # st.approval_type THEN Nothing
      ELSE st.next
=============================================================================
