------------------------------ MODULE Sessions ------------------------------
(***************************************************************************)
(* domain/sessions.py: when a turn may resume the Hermes session its       *)
(* project keeps in state.yaml, and what a turn leaves in that session.    *)
(* Which of several reasons is reported first is left out: only whether    *)
(* there is one decides between a delta and a full turn.                   *)
(***************************************************************************)
EXTENDS Workflow

CONSTANTS
  MaxSessionTurns,  \* SessionPolicy.max_session_turns
  Unknown           \* the id recorded when Hermes reported none

ASSUME SessionsAssumption ==
  /\ MaxSessionTurns \in Nat
  /\ Unknown \notin Nat \cup {Nothing}
  /\ Nothing \notin Nat

\* Hermes numbers its conversations.
SessionId == Nat \ {0}

\* revisions of the source tree, or Nothing when there is no index
IndexRevision == Nat \cup {Nothing}

Session ==
  [id               : SessionId \cup {Unknown},
   role             : Role,
   state            : Name,
   turns            : Nat,
   artifact         : Nat,
   decision         : Nat,
   index            : IndexRevision,
   last_turn_failed : BOOLEAN]

\* SessionManager.open()
Open(id, role, state, artifact, decision, index) ==
  [id |-> id, role |-> role, state |-> state, turns |-> 1,
   artifact |-> artifact, decision |-> decision, index |-> index,
   last_turn_failed |-> FALSE]

\* SessionManager.record_turn()
RecordTurn(session, failed) ==
  [session EXCEPT !.turns = @ + 1, !.last_turn_failed = failed]

\* The triggers of _boundary_reason(); refresh_requested is never set by any
\* caller.  `aged` is the outcome of _is_stale() against the wall clock.
Boundary(session, st, n, artifact, decision, index, aged) ==
  \/ session = Nothing
  \/ ~ AllowsContinuation(st)
  \/ session.last_turn_failed
  \/ session.state # n
  \/ session.role # st.role
  \/ session.artifact # artifact
  \/ session.decision # decision
  \/ session.index # index
  \/ session.turns >= MaxSessionTurns
  \/ aged

\* SessionManager.decide(): resume only if every boundary check passes.
Resume(session, st, n, artifact, decision, index, aged) ==
  ~ Boundary(session, st, n, artifact, decision, index, aged)
=============================================================================
