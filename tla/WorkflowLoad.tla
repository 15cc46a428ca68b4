----------------------------- MODULE WorkflowLoad -----------------------------
(***************************************************************************)
(* WorkflowDefinition.load(): a workflow.yaml is parsed, checked state by  *)
(* state and then walked from its initial state.  A file is its `initial`  *)
(* and the specifications of its states; the walk's stack is a set here,   *)
(* so it visits the states in every order, the code's among them.          *)
(***************************************************************************)
EXTENDS Approvals

CONSTANT Files  \* workflow.yaml files: [initial, states]

File(f) ==
  /\ DOMAIN f.states \subseteq Name
  /\ f.initial \in Name \cup {Nothing}
  /\ \A n \in DOMAIN f.states :
       f.states[n].kind \in Kinds => f.states[n] \in StateSpec

ASSUME FilesAssumption == \A f \in Files : File(f)

VARIABLES
  file,      \* the file being loaded
  pc,        \* how far load() has come
  seen,      \* states visited by _assert_reachable
  frontier   \* states still to visit

vars == <<file, pc, seen, frontier>>

Init ==
  /\ file \in Files
  /\ pc = "parse"
  /\ seen = {}
  /\ frontier = {}

\* load(): an initial state is named and every kind is a known one.
Parses(f) == f.initial # Nothing /\ \A n \in DOMAIN f.states : f.states[n].kind \in Kinds

Parse ==
  /\ pc = "parse"
  /\ pc' = IF Parses(file) THEN "validate" ELSE "rejected"
  /\ UNCHANGED <<file, seen, frontier>>

Validate ==
  /\ pc = "validate"
  /\ IF Validates(file.states, file.initial)
     THEN pc' = "walk" /\ frontier' = {file.initial}
     ELSE pc' = "rejected" /\ UNCHANGED frontier
  /\ UNCHANGED <<file, seen>>

\* BROKEN: follows `next` only; forgets which states it has visited.
VisitNext(n) ==
  /\ pc = "walk"
  /\ seen' = seen \cup {n}
  /\ frontier' = (frontier \ {n}) \cup
                   IF n \in seen THEN {} ELSE {file.states[n].next} \ {Nothing}
  /\ UNCHANGED <<file, pc>>

VisitAgain(n) ==
  /\ pc = "walk"
  /\ seen' = seen \cup {n}
  /\ frontier' = (frontier \ {n}) \cup Targets(file.states[n])
  /\ UNCHANGED <<file, pc>>

\* One round of the loop of _assert_reachable, which skips a visited state.
Visit(n) ==
  /\ pc = "walk"
  /\ seen' = seen \cup {n}
  /\ frontier' = (frontier \ {n}) \cup
                   IF n \in seen THEN {} ELSE Targets(file.states[n])
  /\ UNCHANGED <<file, pc>>

Orphans == (DOMAIN file.states \ seen) \ Exceptional

Conclude ==
  /\ pc = "walk"
  /\ frontier = {}
  /\ pc' = IF Orphans = {} THEN "loaded" ELSE "rejected"
  /\ UNCHANGED <<file, seen, frontier>>

Next ==
  \/ Parse
  \/ Validate
  \/ \E n \in frontier : Visit(n)
  \/ Conclude

Spec == Init /\ [][Next]_vars

FairSpec == Spec /\ WF_vars(Next)

-----------------------------------------------------------------------------
(* Properties *)

TypeOK ==
  /\ File(file)
  /\ pc \in {"parse", "validate", "walk", "loaded", "rejected"}
  /\ seen \subseteq DOMAIN file.states
  /\ frontier \subseteq DOMAIN file.states

\* A set of states no edge leaves.
Closed(S) == \A n \in S : Targets(file.states[n]) \subseteq S

\* The states reachable from the initial one: in every closed set it is in.
Reachable ==
  {n \in DOMAIN file.states :
     \A S \in SUBSET DOMAIN file.states : file.initial \in S /\ Closed(S) => n \in S}

\* What load() promises: it returns exactly the definitions that parse and
\* validate and whose every ordinary state is reachable from the initial one,
\* in whatever order the walk visits a graph with cycles and shared targets.
VerdictIsRight ==
  pc \in {"loaded", "rejected"} =>
    (pc = "loaded" <=> /\ Parses(file)
                       /\ Validates(file.states, file.initial)
                       /\ DOMAIN file.states \ Exceptional \subseteq Reachable)

\* States whose pending action asks for an approval.
WaitsForApproval(st) == st.kind # "terminal" /\ RequiresApproval(st)

\* The texts apply_approval() moves state n for: typed (`drawn` is Nothing),
\* or from a button drawn at the current revision, 0 here.
Movers(def, n, drawn) == {t \in Text : Applied(def, n, 0, t, drawn) # Nothing}

\* A loaded definition leaves no state waiting for an approval that cannot be
\* given: the pending action of _resolve_requested_type() names some types, they
\* are exactly what apply_approval() moves the project for, typed or by button,
\* and each of them leads to a declared state.  The two files that decide this,
\* approvals.py and workflow.py's advance(), never see each other's checks.
GatesOpen ==
  pc = "loaded" =>
    \A n \in DOMAIN file.states :
      LET st == file.states[n]
      IN  WaitsForApproval(st) =>
            /\ Valid(st) # {}
            /\ Movers(file.states, n, Nothing) = Valid(st)
            /\ Movers(file.states, n, 0) = Valid(st)
            /\ \A t \in Valid(st) : Advance(file.states, n, t) \in DOMAIN file.states

\* What the walk knows at each step: it has not left the reachable states, and
\* the only edges it has not followed start in the frontier.
WalkInv ==
  /\ TypeOK
  /\ pc \in {"validate", "walk", "loaded"} => Parses(file)
  /\ pc \in {"walk", "loaded"} => Validates(file.states, file.initial)
  /\ pc \in {"parse", "validate"} => seen = {} /\ frontier = {}
  /\ pc = "walk" => /\ file.initial \in seen \cup frontier
                    /\ \A n \in seen : Targets(file.states[n]) \subseteq seen \cup frontier
                    /\ frontier \subseteq Reachable
  /\ seen \subseteq Reachable
  /\ VerdictIsRight

\* load() returns or raises: a cycle in the workflow does not keep it walking.
LoadEnds == <>(pc \in {"loaded", "rejected"})
=============================================================================
