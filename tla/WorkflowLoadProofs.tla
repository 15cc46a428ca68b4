-------------------------- MODULE WorkflowLoadProofs --------------------------
(***************************************************************************)
(* What WorkflowLoad's runs check on small files, for every file: the walk *)
(* of _assert_reachable decides reachability, whatever the order of its    *)
(* visits, and in a definition that loads a state that waits for an        *)
(* approval can be given one.                                              *)
(***************************************************************************)
EXTENDS WorkflowLoad, TLAPS

\* The reachable states are a closed set with the initial state, the smallest.
LEMMA ReachableIsClosed ==
  ASSUME Validates(file.states, file.initial)
  PROVE  file.initial \in Reachable /\ Closed(Reachable)
  BY DEF Validates, WellFormed, Reachable, Closed

\* Any closed set with the initial state holds them all.
LEMMA ReachableIsSmallest ==
  ASSUME NEW S \in SUBSET DOMAIN file.states, file.initial \in S, Closed(S)
  PROVE  Reachable \subseteq S
  BY DEF Reachable

\* A file that is not touched keeps its reachable states.
LEMMA ReachableIsFixed ==
  ASSUME file' = file
  PROVE  Reachable' = Reachable
  BY DEF Reachable, Closed

\* Before anything is read there is nothing seen and nothing to visit.
LEMMA InitWalkInv == Init => WalkInv
  <1> SUFFICES ASSUME Init PROVE WalkInv
    OBVIOUS
  <1>1. File(file)
    BY FilesAssumption DEF Init
  <1> QED
    BY <1>1 DEF Init, WalkInv, TypeOK, VerdictIsRight

\* One round of the walk: the visited state's edges enter the frontier, so
\* what was reached stays within the reachable states and misses no edge.
LEMMA VisitKeepsWalkInv ==
  ASSUME WalkInv, NEW n \in frontier, Visit(n)
  PROVE  WalkInv'
  <1> DEFINE followed == IF n \in seen THEN {} ELSE Targets(file.states[n])
  <1>1. /\ pc = "walk" /\ pc' = "walk" /\ file' = file
        /\ seen' = seen \cup {n}
        /\ frontier' = (frontier \ {n}) \cup followed
    BY DEF Visit
  <1>2. Validates(file.states, file.initial) /\ Parses(file) /\ n \in Reachable
    BY <1>1 DEF WalkInv
  <1>3. n \in DOMAIN file.states /\ Targets(file.states[n]) \subseteq DOMAIN file.states
    BY <1>2 DEF WalkInv, TypeOK, Validates, WellFormed
  <1>4. Targets(file.states[n]) \subseteq Reachable
    BY <1>2, ReachableIsClosed DEF Closed
  <1>5. TypeOK'
    BY <1>1, <1>3 DEF WalkInv, TypeOK, File
  <1>6. /\ file.initial \in seen' \cup frontier'
        /\ \A m \in seen' : Targets(file.states[m]) \subseteq seen' \cup frontier'
    <2>1. file.initial \in seen \cup frontier
      BY <1>1 DEF WalkInv
    <2>2. \A m \in seen : Targets(file.states[m]) \subseteq seen \cup frontier
      BY <1>1 DEF WalkInv
    <2>3. seen \cup frontier \subseteq seen' \cup frontier'
      BY <1>1
    <2>4. Targets(file.states[n]) \subseteq seen' \cup frontier'
      BY <1>1, <2>2, <2>3
    <2> QED
      BY <1>1, <2>1, <2>2, <2>3, <2>4
  <1>7. frontier' \subseteq Reachable /\ seen' \subseteq Reachable
    BY <1>1, <1>2, <1>4 DEF WalkInv
  <1>8. Reachable' = Reachable
    BY <1>1, ReachableIsFixed
  <1> QED
    <2>1. Parses(file)' /\ Validates(file.states, file.initial)'
      BY <1>1, <1>2
    <2> QED
      BY <1>1, <1>5, <1>6, <1>7, <1>8, <2>1 DEF WalkInv, VerdictIsRight

\* With nothing left to visit, what was seen is exactly what is reachable.
LEMMA ConcludeKeepsWalkInv ==
  ASSUME WalkInv, Conclude
  PROVE  WalkInv'
  <1>1. /\ pc = "walk" /\ frontier = {} /\ UNCHANGED <<file, seen, frontier>>
        /\ pc' = IF Orphans = {} THEN "loaded" ELSE "rejected"
    BY DEF Conclude
  <1>2. Validates(file.states, file.initial) /\ Parses(file)
    BY <1>1 DEF WalkInv
  <1>3. Reachable = seen
    <2>1. file.initial \in seen /\ Closed(seen) /\ seen \subseteq DOMAIN file.states
      BY <1>1 DEF WalkInv, TypeOK, Closed
    <2> QED
      BY <2>1, ReachableIsSmallest DEF WalkInv
  <1>4. Reachable' = Reachable
    BY <1>1, ReachableIsFixed
  <1>5. Orphans = {} <=> DOMAIN file.states \ Exceptional \subseteq Reachable
    BY <1>3 DEF Orphans
  <1>6. Parses(file)' /\ Validates(file.states, file.initial)'
    BY <1>1, <1>2
  <1>7. VerdictIsRight'
    BY <1>1, <1>4, <1>5, <1>6 DEF VerdictIsRight
  <1>8. TypeOK'
    BY <1>1 DEF WalkInv, TypeOK, File
  <1> QED
    BY <1>1, <1>4, <1>6, <1>7, <1>8 DEF WalkInv

\* The walk's invariant holds of every load: _assert_reachable never misses
\* or invents a reachable state.
THEOREM LoadInvariance == Spec => []WalkInv
  <1>1. ASSUME WalkInv, [Next]_vars PROVE WalkInv'
    <2>1. CASE Parse
      <3>1. /\ pc = "parse" /\ UNCHANGED <<file, seen, frontier>>
            /\ pc' = IF Parses(file) THEN "validate" ELSE "rejected"
        BY <2>1 DEF Parse
      <3>2. Reachable' = Reachable
        BY <3>1, ReachableIsFixed
      <3>3. Parses(file)' = Parses(file)
        BY <3>1
      <3>4. TypeOK'
        BY <1>1, <3>1 DEF WalkInv, TypeOK, File
      <3> QED
        BY <1>1, <3>1, <3>2, <3>3, <3>4 DEF WalkInv, VerdictIsRight
    <2>2. CASE Validate
      <3>1. /\ pc = "validate" /\ UNCHANGED <<file, seen>>
            /\ IF Validates(file.states, file.initial)
               THEN pc' = "walk" /\ frontier' = {file.initial}
               ELSE pc' = "rejected" /\ frontier' = frontier
        BY <2>2 DEF Validate
      <3>2. Reachable' = Reachable
        BY <3>1, ReachableIsFixed
      <3>3. /\ Parses(file)' = Parses(file)
            /\ Validates(file.states, file.initial)' = Validates(file.states, file.initial)
        BY <3>1
      <3>4. TypeOK'
        BY <1>1, <3>1 DEF WalkInv, TypeOK, File, Validates
      <3>5. CASE Validates(file.states, file.initial)
        BY <1>1, <3>1, <3>2, <3>3, <3>4, <3>5, ReachableIsClosed DEF WalkInv, VerdictIsRight
      <3>6. CASE ~ Validates(file.states, file.initial)
        BY <1>1, <3>1, <3>2, <3>3, <3>4, <3>6 DEF WalkInv, VerdictIsRight
      <3> QED
        BY <3>5, <3>6
    <2>3. ASSUME NEW n \in frontier, Visit(n) PROVE WalkInv'
      BY <1>1, <2>3, VisitKeepsWalkInv
    <2>4. CASE Conclude
      BY <1>1, <2>4, ConcludeKeepsWalkInv
    <2>5. CASE UNCHANGED vars
      <3>1. Reachable' = Reachable
        BY <2>5, ReachableIsFixed DEF vars
      <3> QED
        BY <1>1, <2>5, <3>1
        DEF vars, WalkInv, TypeOK, File, VerdictIsRight, Parses, Validates, WellFormed
    <2> QED
      BY <1>1, <2>1, <2>2, <2>3, <2>4, <2>5 DEF Next
  <1> QED
    BY InitWalkInv, <1>1, PTL DEF Spec

\* The walk only ever holds declared states, whatever the file.
THEOREM TypeCorrect == Spec => []TypeOK
  <1>1. WalkInv => TypeOK
    BY DEF WalkInv
  <1> QED
    BY LoadInvariance, <1>1, PTL

\* load() accepts a file exactly when it parses, validates and is connected.
THEOREM VerdictCorrect == Spec => []VerdictIsRight
  <1>1. WalkInv => VerdictIsRight
    BY DEF WalkInv
  <1> QED
    BY LoadInvariance, <1>1, PTL

\* What the pending action of a state names is declared, and there is some
\* when the state waits for an approval.
LEMMA PendingIsNamed ==
  ASSUME NEW def, NEW n \in DOMAIN def, def[n] \in StateSpec, WellFormed(def, n),
         WaitsForApproval(def[n])
  PROVE  /\ Valid(def[n]) \subseteq ApprovalType
         /\ Valid(def[n]) # {}
  <1> DEFINE st == def[n]
  <1>1. Branches(st) \subseteq ApprovalType
    BY DEF Branches
  <1>2. st.approval_type \in ApprovalType \cup {Nothing}
    BY DEF StateSpec
  <1>3. st.approval_type # Nothing \/ Branches(st) # {}
    BY DEF WellFormed, WaitsForApproval
  <1> QED
    BY <1>1, <1>2, <1>3 DEF Valid

\* Each type it names leads to a declared state.
LEMMA NamedLeadsOn ==
  ASSUME NEW def, NEW n \in DOMAIN def, def[n] \in StateSpec, WellFormed(def, n),
         WaitsForApproval(def[n]), NEW t \in Valid(def[n])
  PROVE  Advance(def, n, t) \in DOMAIN def
  <1> DEFINE st == def[n]
  <1>1. st.kind # "terminal" /\ RequiresApproval(st)
    BY DEF WaitsForApproval
  <1>2. Targets(st) \subseteq DOMAIN def /\ (st.next # Nothing \/ Branches(st) # {})
    BY <1>1 DEF WellFormed
  <1>3. CASE Branches(st) # {}
    <2>1. t \in Branches(st)
      BY <1>3 DEF Valid
    <2>2. st.next_by_approval[t] \in Targets(st)
      BY <2>1 DEF Targets
    <2> QED
      BY <1>1, <1>2, <1>3, <2>1, <2>2 DEF Advance
  <1>4. CASE Branches(st) = {}
    <2>1. t = st.approval_type
      BY <1>4 DEF Valid
    <2>2. st.next \in Targets(st)
      BY <1>2, <1>4 DEF Targets, PlainTargets
    <2> QED
      BY <1>1, <1>2, <1>4, <2>1, <2>2 DEF Advance
  <1> QED
    BY <1>3, <1>4

\* advance() refuses a waiting state every text its pending action does not
\* name, so feedback that resolve_command() lets through moves nothing.
LEMMA OthersStay ==
  ASSUME NEW def, NEW n, WaitsForApproval(def[n]), WellFormed(def, n),
         NEW t \in Text, t \notin Valid(def[n]),
         def[n].approval_type = Nothing => Branches(def[n]) # {}
  PROVE  Advance(def, n, t) = Nothing
  BY DEF Advance, Valid, WaitsForApproval

\* In a definition that loads, whichever file it comes from, a state that waits
\* for an approval is moved by exactly the types its pending action names.
THEOREM LoadedGatesOpen == Spec => []GatesOpen
  <1>1. ASSUME WalkInv PROVE GatesOpen
    <2> SUFFICES ASSUME pc = "loaded", NEW n \in DOMAIN file.states,
                        WaitsForApproval(file.states[n])
                 PROVE  /\ Valid(file.states[n]) # {}
                        /\ Movers(file.states, n, Nothing) = Valid(file.states[n])
                        /\ Movers(file.states, n, 0) = Valid(file.states[n])
                        /\ \A t \in Valid(file.states[n]) :
                             Advance(file.states, n, t) \in DOMAIN file.states
      BY DEF GatesOpen
    <2> DEFINE st == file.states[n]
    <2>1. st \in StateSpec /\ DOMAIN file.states \subseteq Name
      BY <1>1 DEF WalkInv, TypeOK, File, Parses
    <2>2. WellFormed(file.states, n)
      BY <1>1 DEF WalkInv, Validates
    <2>3. Valid(st) \subseteq ApprovalType /\ Valid(st) # {}
      BY <2>1, <2>2, PendingIsNamed
    <2>4. ASSUME NEW t \in Valid(st)
          PROVE  Advance(file.states, n, t) \in DOMAIN file.states
      BY <2>1, <2>2, <2>4, NamedLeadsOn
    <2>5. Nothing \notin DOMAIN file.states
      BY <2>1, WorkflowAssumption
    <2>6. ASSUME NEW t \in Text \ Valid(st) PROVE Advance(file.states, n, t) = Nothing
      <3>1. st.approval_type = Nothing => Branches(st) # {}
        BY <2>2 DEF WellFormed, WaitsForApproval
      <3> QED
        BY <2>2, <2>6, <3>1, OthersStay
    <2>7. ASSUME NEW t \in Valid(st)
          PROVE  CommandReturns(st, t) /\ CallbackReturns(st, t, 0, 0)
      <3>1. t # Blank /\ RequiresApproval(st)
        BY <2>3, ApprovalsAssumption DEF WaitsForApproval
      <3>2. Resolves(st, t)
        BY <3>1 DEF Resolves
      <3> QED
        BY <3>1, <3>2 DEF CommandReturns, CallbackReturns
    <2>8. ASSUME NEW drawn \in {Nothing, 0}
          PROVE  Movers(file.states, n, drawn) = Valid(st)
      <3>1. ASSUME NEW t \in Valid(st) PROVE t \in Movers(file.states, n, drawn)
        <4>1. Applied(file.states, n, 0, t, drawn) = Advance(file.states, n, t)
          BY <2>7, <2>8, <3>1 DEF Applied
        <4>2. t \in Text
          BY <2>3, WorkflowAssumption
        <4> QED
          BY <2>4, <2>5, <4>1, <4>2 DEF Movers
      <3>2. ASSUME NEW t \in Text \ Valid(st) PROVE t \notin Movers(file.states, n, drawn)
        <4>1. Applied(file.states, n, 0, t, drawn) = Nothing
          BY <2>6, <3>2 DEF Applied
        <4> QED
          BY <4>1 DEF Movers
      <3> QED
        BY <3>1, <3>2 DEF Movers
    <2> QED
      BY <2>3, <2>4, <2>8
  <1> QED
    BY LoadInvariance, <1>1, PTL
=============================================================================
