----------------------------- MODULE CliProject -----------------------------
(***************************************************************************)
(* A project driven from entrypoints/cli.py by one person at a terminal:   *)
(* `agentic turn`, and `agentic approve`, which runs the first turn of the *)
(* state it unlocked before it exits.  A command is a process of its own   *)
(* and the next one is typed when it has ended; it can be killed between   *)
(* any two of its steps, and only what is on disk survives.  This is the   *)
(* discipline ProjectStore.update_state asks for: one writer at a time.    *)
(***************************************************************************)
EXTENDS TurnEngine

CONSTANT MaxCrashes  \* bound: killed commands

ASSUME CliAssumption == MaxCrashes \in Nat

VARIABLE crashes     \* history: killed commands

vars == <<engineVars, crashes>>

Init == EngineInit /\ crashes = 0

Ended == {"idle", "refused", "raised", "done"}

CliTurn ==
  /\ appr.pc = "idle"
  /\ BeginTurn
  /\ UNCHANGED crashes

CliApprove(text) ==
  /\ turn.pc = "idle"
  /\ BeginApproval(text, Nothing)
  /\ UNCHANGED crashes

\* _approve_and_continue: the state just entered runs an agent.
CliContinue ==
  /\ appr.pc = "granted"
  /\ RunsAgent(Graph[appr.next])
  /\ BeginTurn
  /\ UNCHANGED crashes

\* The command returns: a refused or raised turn, a finished one, a rejected
\* approval, or a granted one with nothing left to run.
CliExit ==
  /\ turn.pc \in Ended
  /\ appr.pc \in {"idle", "rejected", "granted"}
  /\ turn.pc # "idle" \/ appr.pc # "idle"
  /\ turn.pc = "idle" /\ appr.pc = "granted" =>
       ~ RunsAgent(Graph[appr.next]) \/ turns = MaxTurns
  /\ turn' = IdleTurn
  /\ appr' = IdleApproval
  /\ UNCHANGED <<disk, decisions, head, turns, granted, decided, hermes, failures, crashes>>

CliKilled ==
  /\ turn.pc # "idle" \/ appr.pc # "idle"
  /\ crashes < MaxCrashes
  /\ crashes' = crashes + 1
  /\ turn' = IdleTurn
  /\ appr' = IdleApproval
  /\ UNCHANGED <<disk, decisions, head, turns, granted, decided, hermes, failures>>

Next ==
  \/ CliTurn
  \/ \E text \in Text : CliApprove(text)
  \/ CliContinue
  \/ CliExit
  \/ CliKilled
  \/ TurnStep /\ UNCHANGED crashes
  \/ ApprovalStep /\ UNCHANGED crashes
  \/ EditSource /\ UNCHANGED crashes

Spec == Init /\ [][Next]_vars

-----------------------------------------------------------------------------
(* Properties *)

(* What makes the reads of one command still true at its writes.  None of  *)
(* this survives a second writer: it is why every read-modify-write of     *)
(* state.yaml may do without a lock here.                                  *)

\* A turn runs alone, or as the last thing its approval does.
OneAtATime == turn.pc # "idle" => appr.pc \in {"idle", "granted"}

\* The failed turn that state.yaml does not count yet.
Uncounted ==
  IF turn.failed /\ turn.pc \in {"record", "session", "session_write",
                                "attempts", "attempts_write"}
  THEN 1 ELSE 0

TurnIsCurrent ==
  /\ turn.pc = "idle" => turn = IdleTurn
  /\ turn.pc \notin Ended =>
       /\ SameStay
       /\ turn.snap.attempts = disk.attempts
       /\ RunsAgent(TurnState)
       /\ IF turn.pc \in {"block", "block_write"} THEN Exhausted(turn.snap)
                                                ELSE ~ Exhausted(turn.snap)
  /\ \A p \in DOMAIN ReadThenWrite :
       turn.pc = ReadThenWrite[p] => turn.buf = disk
  /\ turn.pc \in {"base", "base_write"} => disk.base = Nothing
  /\ turn.pc = "finish" => ~ turn.failed
  /\ turn.resume => turn.snap.session # Nothing

ApprovalIsCurrent ==
  /\ appr.pc \in {"save", "save_write"} =>
       /\ appr.snap = disk
       /\ RequiresApproval(Graph[disk.workflow_state]) \/ appr.text \in Phrase
       /\ appr.next = Advance(Graph, disk.workflow_state, appr.text)
       /\ appr.next # Nothing
  /\ appr.pc = "save_write" => appr.buf = disk

CountIsTrue ==
  /\ disk.attempts + Uncounted <= failures
  /\ failures <= disk.attempts + Uncounted + crashes

WithinBudget ==
  LET st == Graph[disk.workflow_state]
  IN  st.kind = "autonomous" /\ failures > 0 => disk.attempts <= st.max_attempts

\* Every variable keeps its type: in particular a project is always in a
\* declared state and its counters never go below zero.
TypeOK == EngineTypeOK /\ crashes \in Nat

\* The inductive invariant.
IInv ==
  /\ TypeOK
  /\ OneAtATime
  /\ TurnIsCurrent
  /\ ApprovalIsCurrent
  /\ CountIsTrue
  /\ WithinBudget

Gate == INSTANCE ApprovalGate WITH
          workflow_state    <- disk.workflow_state,
          artifact_revision <- disk.artifact_revision

\* state.yaml implements the gate: through all the reads, buffers and writes
\* of turns and approvals, and however commands are killed, the project only
\* ever moves by one approved edge, counted once, or to `blocked`.
GateSpec == Gate!Spec

\* The event log never claims an approval that state.yaml lost, and misses at
\* most one per killed command; with no kill the log is the project's path.
AuditTrail ==
  LET n == Len(granted)
  IN  /\ n <= disk.artifact_revision
      /\ disk.artifact_revision <= n + crashes + (IF appr.pc = "log" THEN 1 ELSE 0)
      /\ crashes = 0 =>
           /\ \A i \in 1..n-1 : granted[i].to = granted[i + 1].from
           /\ n > 0 /\ appr.pc # "log" =>
                disk.workflow_state \in {granted[n].to, "blocked"}

\* What one more step needs to know for AuditTrail to hold again.
AuditInv ==
  LET n       == Len(granted)
      pending == IF appr.pc = "log" THEN 1 ELSE 0
  IN  /\ n + pending <= disk.artifact_revision
      /\ disk.artifact_revision <= n + crashes + pending
      /\ crashes = 0 =>
           /\ \A i \in 1..n-1 : granted[i].to = granted[i + 1].from
           /\ n > 0 /\ pending = 0 => disk.workflow_state \in {granted[n].to, "blocked"}
           /\ n > 0 /\ pending = 1 => appr.snap.workflow_state = granted[n].to
           /\ pending = 1 => disk.workflow_state = appr.next

\* max_attempts bounds the failed turns of one stay in an autonomous state:
\* only a command killed before it counted its failure allows one more.
RetryBudget ==
  LET st == Graph[disk.workflow_state]
  IN  st.kind = "autonomous" /\ failures > 0 => failures <= st.max_attempts + crashes

\* run_turn gives up on a state only when that many turns really failed in
\* this stay: failures elsewhere are not charged to it.
BlockedAfterBudget ==
  [][ /\ disk'.workflow_state # disk.workflow_state
      /\ disk'.artifact_revision = disk.artifact_revision
      => failures >= Graph[disk.workflow_state].max_attempts ]_vars

\* The revision reviewer and qa diff against stays the one captured when the
\* project first entered these states, whatever is committed and retried.
BaseIsKept ==
  [][disk.base # Nothing => disk'.base = disk.base]_vars

\* The steps of a running command are taken: every call it makes returns,
\* the Hermes call by its own timeout.
Fairness ==
  /\ WF_vars(TurnStep /\ UNCHANGED crashes)
  /\ WF_vars(ApprovalStep /\ UNCHANGED crashes)
  /\ WF_vars(CliContinue)
  /\ WF_vars(CliExit)

FairSpec == Spec /\ Fairness

\* Every command ends: no return, refusal or exception of a turn or of an
\* approval leaves it waiting for something.
CommandEnds ==
  (turn.pc # "idle" \/ appr.pc # "idle") ~> (turn.pc = "idle" /\ appr.pc = "idle")
=============================================================================
