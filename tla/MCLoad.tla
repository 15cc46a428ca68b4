------------------------------- MODULE MCLoad -------------------------------
(***************************************************************************)
(* WorkflowLoad over every file of three ordinary states whose             *)
(* specifications come from a small set, together with `blocked`: targets  *)
(* that are missing, undeclared, shared, branching and cyclic, states      *)
(* without a role or a type, and an unknown kind; and the shipped file.    *)
(***************************************************************************)
EXTENDS WorkflowLoad, MCGraphs

\* `gone` is mentioned and never declared.
LoadName == MCName \cup ShippedName \cup {"a", "b", "c", "gone"}

LoadUpper == [t \in ShippedText |-> Canonical(t)]

Loadable ==
  {TerminalState}
    \cup {GateState("APPROVE_MERGE", n) : n \in {"a", "b", "c", "gone", None}}
    \cup {[AutonomousState("builder", 1, n) EXCEPT !.on_failure = f] :
            n \in {"a", "b", "c"}, f \in {"blocked", "c"}}
    \cup {Branching(CollaborativeState("auditor", None, None),
                    "TO_DISCOVERY" :> n @@ "TO_IMPLEMENTATION" :> "c") : n \in {"a", "b", "gone"}}
    \cup {CollaborativeState(None, "APPROVE_DISCOVERY", "b"),
          CollaborativeState("planner", None, "b"),
          [TerminalState EXCEPT !.kind = "typo"]}

LoadFiles ==
  {[initial |-> i,
    states  |-> "a" :> a @@ "b" :> b @@ "c" :> c @@ "blocked" :> TerminalState] :
     i \in {"a", "gone", None}, a, b, c \in Loadable}
  \cup {[initial |-> "backlog", states |-> ShippedGraph]}
=============================================================================
