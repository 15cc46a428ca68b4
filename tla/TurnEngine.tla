----------------------------- MODULE TurnEngine -----------------------------
(***************************************************************************)
(* One project's state.yaml and the two operations that write it:          *)
(* TurnRunner.run_turn (app/turn_runner.py) and apply_approval             *)
(* (app/approval_flow.py).  Both go through ProjectStore.update_state,     *)
(* an unlocked read-modify-write of the whole file, so each update is two  *)
(* steps here: a read into a buffer and a write of that buffer with some   *)
(* fields replaced.  Which operations can overlap is decided by the        *)
(* modules that extend this one (CliProject, TelegramBot).                 *)
(*                                                                         *)
(* Prompts, manifests, responses, conversation files and summaries are     *)
(* written and never read back by these decisions; they are left out.      *)
(***************************************************************************)
EXTENDS Approvals, Sessions, FiniteSets, Sequences

CONSTANTS
  Graph,        \* the loaded workflow definition
  Initial,      \* its initial state
  Guided,       \* roles with context_mode: guided
  DecisionId,   \* ids agents give their decision blocks
  BaseStates,   \* _DIFF_BASE_REVISION_STATES
  BuilderState, \* the one state whose turns are committed to the source
  GitSource,    \* the project's source tree is a git repository
  MaxTurns,     \* bound: calls of run_turn
  MaxEdits      \* bound: commits in the source tree

ASSUME EngineAssumption ==
  /\ DOMAIN Graph \subseteq Name
  /\ Graph \in [DOMAIN Graph -> StateSpec]
  /\ Validates(Graph, Initial)
  /\ "blocked" \in DOMAIN Graph
  /\ Graph["blocked"].kind = "terminal"
  /\ BaseStates \subseteq Name
  /\ IsFiniteSet(DecisionId)
  /\ GitSource \in BOOLEAN
  /\ MaxTurns \in Nat /\ MaxEdits \in Nat

VARIABLES
  disk,       \* state.yaml
  decisions,  \* ids of the files in decisions/
  head,       \* HEAD of the project's source tree
  turn,       \* the running run_turn: program counter and locals
  appr,       \* the running apply_approval: program counter and locals
  turns,      \* run_turn calls so far
  granted,    \* APPROVAL_GRANTED events of events.jsonl
  decided,    \* DECISION_RECORDED events of events.jsonl
  hermes,     \* Hermes's own conversations, in the order they were opened
  failures    \* history: failed turns in this stay in this state

engineVars == <<disk, decisions, head, turn, appr, turns, granted, decided,
                hermes, failures>>

States == DOMAIN Graph

Disk ==
  [workflow_state : States, attempts : Nat, artifact_revision : Nat,
   session : Session \cup {Nothing}, base : Nat \cup {Nothing}]

\* create_project() writes the state and the attempts; the other keys are
\* absent and read with their defaults.
NewProject ==
  [workflow_state |-> Initial, attempts |-> 0, artifact_revision |-> 0,
   session |-> Nothing, base |-> Nothing]

\* Each update_state of run_turn, from the program counter at which it reads
\* state.yaml to the one at which it writes it back.
ReadThenWrite ==
  [block    |-> "block_write",
   base     |-> "base_write",
   index    |-> "index_write",
   session  |-> "session_write",
   attempts |-> "attempts_write"]

TurnPc ==
  DOMAIN ReadThenWrite \cup {ReadThenWrite[p] : p \in DOMAIN ReadThenWrite}
    \cup {"idle", "ensure_base", "decide", "invoke", "record", "finish",
          "done", "refused", "raised"}

IdleTurn ==
  [pc |-> "idle", snap |-> NewProject, buf |-> NewProject, revision |-> Nothing,
   resume |-> FALSE, id |-> Unknown, failed |-> FALSE]

IdleApproval ==
  [pc |-> "idle", snap |-> NewProject, buf |-> NewProject, text |-> Blank,
   next |-> Initial]

EngineInit ==
  /\ disk = NewProject
  /\ decisions = {}
  /\ head = 0
  /\ turn = IdleTurn
  /\ appr = IdleApproval
  /\ turns = 0
  /\ granted = <<>>
  /\ decided = 0
  /\ hermes = <<>>
  /\ failures = 0

-----------------------------------------------------------------------------
(* run_turn, up to the invocation *)

\* The state a turn runs in is the one it read first: state.yaml may have
\* moved on since.
TurnState == Graph[turn.snap.workflow_state]

Exhausted(data) ==
  LET st == Graph[data.workflow_state]
  IN  st.kind = "autonomous" /\ data.attempts >= st.max_attempts

\* read_state and the early returns: a gate or terminal state runs no agent,
\* an autonomous state with its attempts spent is blocked instead of run.
BeginTurn ==
  /\ turn.pc = "idle"
  /\ turns < MaxTurns
  /\ turns' = turns + 1
  /\ turn' = [turn EXCEPT !.snap = disk,
                !.pc = IF ~ RunsAgent(Graph[disk.workflow_state]) THEN "refused"
                       ELSE IF Exhausted(disk) THEN "block"
                       ELSE "ensure_base"]
  /\ UNCHANGED <<disk, decisions, head, appr, granted, decided, hermes, failures>>

\* BROKEN: captures the revision again on every turn.
NeedsBaseEveryTurn == turn.snap.workflow_state \in BaseStates /\ GitSource

\* _ensure_implementation_base_revision: the states qa can bounce between
\* share the revision captured when the project first entered one of them.
NeedsBase ==
  /\ turn.snap.workflow_state \in BaseStates
  /\ GitSource
  /\ disk.base = Nothing

EnsureBase ==
  /\ turn.pc = "ensure_base"
  /\ turn' = [turn EXCEPT !.pc = IF NeedsBase THEN "base" ELSE "index"]
  /\ UNCHANGED <<disk, decisions, head, appr, turns, granted, decided, hermes, failures>>

\* _current_index_revision: only a guided role's turn has one, it is the HEAD
\* the index was built for, and an indexer that fails leaves None.
IndexedAt ==
  IF GitSource /\ TurnState.role \in Guided THEN {head, Nothing} ELSE {Nothing}

\* What update_state is about to write that is not a local yet: the head of
\* the source tree or the index's revision, both asked for just before it.
Asked ==
  CASE turn.pc = "base"  -> {head}
    [] turn.pc = "index" -> IndexedAt
    [] OTHER             -> {turn.revision}

\* The reading half of update_state.
ReadState ==
  /\ turn.pc \in DOMAIN ReadThenWrite
  /\ \E revision \in Asked :
       turn' = [turn EXCEPT !.pc = ReadThenWrite[@], !.buf = disk, !.revision = revision]
  /\ UNCHANGED <<disk, decisions, head, appr, turns, granted, decided, hermes, failures>>

\* The writing half: the buffer, whatever state.yaml holds by now.
WriteState(from, to, data) ==
  /\ turn.pc = from
  /\ disk' = data
  /\ turn' = [turn EXCEPT !.pc = to, !.buf = NewProject]

WriteBlocked ==
  /\ WriteState("block_write", "refused",
                [turn.buf EXCEPT !.workflow_state = "blocked"])
  /\ UNCHANGED <<decisions, head, appr, turns, granted, decided, hermes, failures>>

WriteBase ==
  /\ WriteState("base_write", "index", [turn.buf EXCEPT !.base = turn.revision])
  /\ UNCHANGED <<decisions, head, appr, turns, granted, decided, hermes, failures>>

\* index_revision itself is read by nobody; the write still rewrites the file.
WriteIndex ==
  /\ WriteState("index_write", "decide", turn.buf)
  /\ UNCHANGED <<decisions, head, appr, turns, granted, decided, hermes, failures>>

\* decide() on the session and revision of the first read.  aged: the wall
\* clock decided against the session.
Decide(aged) ==
  /\ turn.pc = "decide"
  /\ turn' = [turn EXCEPT !.pc = "invoke",
                !.resume = Resume(turn.snap.session, TurnState,
                                  turn.snap.workflow_state,
                                  turn.snap.artifact_revision,
                                  Cardinality(decisions), turn.revision, aged)]
  /\ UNCHANGED <<disk, decisions, head, appr, turns, granted, decided, hermes, failures>>

-----------------------------------------------------------------------------
(* run_turn, from the invocation on *)

\* The turn belongs to the stay the project is in now: no approval since.
SameStay ==
  /\ turn.snap.workflow_state = disk.workflow_state
  /\ turn.snap.artifact_revision = disk.artifact_revision

\* Hermes ran.  A full turn opens a conversation; its id is recovered or not.
\* A resumed turn continues the one it was given.
HermesAnswers(failed, known) ==
  /\ turn.pc = "invoke"
  /\ LET resumed == turn.snap.session.id
         conversation == [state |-> turn.snap.workflow_state, failed |-> failed,
                          revision |-> turn.snap.artifact_revision, decided |-> decided]
     IN  IF turn.resume
         THEN /\ known
              /\ hermes' = IF resumed = Unknown THEN hermes
                           ELSE [hermes EXCEPT ![resumed].failed = failed]
              /\ turn' = [turn EXCEPT !.pc = "record", !.id = resumed, !.failed = failed]
         ELSE /\ hermes' = Append(hermes, conversation)
              /\ turn' = [turn EXCEPT !.pc = "record", !.failed = failed,
                            !.id = IF known THEN Len(hermes) + 1 ELSE Unknown]
  /\ failures' = IF failed /\ SameStay THEN failures + 1 ELSE failures
  /\ UNCHANGED <<disk, decisions, head, appr, turns, granted, decided>>

\* BROKEN: swallows the exception and tries again, with no count of attempts.
TurnRaisesRetried ==
  /\ turn.pc = "invoke"
  /\ turn' = [turn EXCEPT !.pc = "decide"]
  /\ UNCHANGED <<disk, decisions, head, appr, turns, granted, decided, hermes, failures>>

\* Building the context or launching Hermes raised (a denylisted item, a
\* timeout, an unreachable runtime): nothing catches it inside run_turn.
TurnRaises ==
  /\ turn.pc = "invoke"
  /\ turn' = [turn EXCEPT !.pc = "raised"]
  /\ hermes' = IF turn.resume /\ turn.snap.session.id # Unknown
               THEN [hermes EXCEPT ![turn.snap.session.id].failed = TRUE]
               ELSE hermes
  /\ UNCHANGED <<disk, decisions, head, appr, turns, granted, decided, failures>>

\* _record_decisions: one file per id, overwritten when the id is known.
RecordDecisions(ids) ==
  /\ turn.pc = "record"
  /\ decisions' = decisions \cup ids
  /\ decided' = decided + Cardinality(ids)
  /\ turn' = [turn EXCEPT !.pc = "session"]
  /\ UNCHANGED <<disk, head, appr, turns, granted, hermes, failures>>

\* BROKEN: describes the session by the state the project is in by now.
NewSessionOfNow ==
  IF turn.resume
  THEN RecordTurn(turn.snap.session, turn.failed)
  ELSE Open(turn.id, Graph[turn.buf.workflow_state].role, turn.buf.workflow_state,
            turn.buf.artifact_revision, Cardinality(decisions), turn.revision)

\* _update_session: a resumed session counts the turn, any other turn opens a
\* session at the revisions of the first read and the decisions of now.
NewSession ==
  IF turn.resume
  THEN RecordTurn(turn.snap.session, turn.failed)
  ELSE Open(turn.id, TurnState.role, turn.snap.workflow_state,
            turn.snap.artifact_revision, Cardinality(decisions), turn.revision)

WriteSession ==
  /\ WriteState("session_write", IF turn.failed THEN "attempts" ELSE "finish",
                [turn.buf EXCEPT !.session = NewSession])
  /\ hermes' = IF turn.resume \/ turn.id = Unknown THEN hermes
               ELSE [hermes EXCEPT ![turn.id].decided = decided]
  /\ UNCHANGED <<decisions, head, appr, turns, granted, decided, failures>>

\* A successful turn is summarised, its artifacts are versioned and, in the
\* builder's state, its source changes are committed.
FinishTurn(changed) ==
  /\ turn.pc = "finish"
  /\ changed => /\ GitSource
                /\ turn.snap.workflow_state = BuilderState
                /\ head < MaxEdits
  /\ head' = IF changed THEN head + 1 ELSE head
  /\ turn' = [turn EXCEPT !.pc = "attempts"]
  /\ UNCHANGED <<disk, decisions, appr, turns, granted, decided, hermes, failures>>

\* The summarizer could not be launched, or git failed in artifacts/.
FinishRaises ==
  /\ turn.pc = "finish"
  /\ turn' = [turn EXCEPT !.pc = "raised"]
  /\ UNCHANGED <<disk, decisions, head, appr, turns, granted, decided, hermes, failures>>

\* BROKEN: counts down from the budget; does not count; moves the project on.
AttemptsLeft == IF turn.failed THEN turn.snap.attempts - 1 ELSE 0

AttemptsUncounted == IF turn.failed THEN turn.snap.attempts ELSE 0

\* The count is the first read's plus one, not the buffer's.
Attempts == IF turn.failed THEN turn.snap.attempts + 1 ELSE 0

AfterTurnAdvancing ==
  [turn.buf EXCEPT !.attempts = Attempts,
     !.workflow_state = IF TurnState.kind = "autonomous" /\ ~ turn.failed
                        THEN TurnState.next ELSE @]

AfterTurn == [turn.buf EXCEPT !.attempts = Attempts]

WriteAttempts ==
  /\ WriteState("attempts_write", "done", AfterTurn)
  /\ failures' = IF turn.failed THEN failures ELSE 0
  /\ UNCHANGED <<decisions, head, appr, turns, granted, decided, hermes>>

TurnStep ==
  \/ EnsureBase
  \/ ReadState
  \/ WriteBlocked
  \/ WriteBase
  \/ WriteIndex
  \/ \E aged \in BOOLEAN : Decide(aged)
  \/ \E failed, known \in BOOLEAN : HermesAnswers(failed, known)
  \/ TurnRaises
  \/ \E ids \in SUBSET DecisionId : RecordDecisions(ids)
  \/ WriteSession
  \/ \E changed \in BOOLEAN : FinishTurn(changed)
  \/ FinishRaises
  \/ WriteAttempts

-----------------------------------------------------------------------------
(* apply_approval *)

\* read_state, resolve_command or resolve_callback, advance.
BeginApproval(text, seen) ==
  /\ appr.pc = "idle"
  /\ LET next == Applied(Graph, disk.workflow_state, disk.artifact_revision, text, seen)
     IN  appr' = IF next = Nothing
                 THEN [appr EXCEPT !.pc = "rejected"]
                 ELSE [appr EXCEPT !.pc = "save", !.snap = disk, !.text = text, !.next = next]
  /\ UNCHANGED <<disk, decisions, head, turn, turns, granted, decided, hermes, failures>>

\* BROKEN: logs the approval before it is saved.
ReadForApprovalLogging ==
  /\ appr.pc = "save"
  /\ appr' = [appr EXCEPT !.pc = "save_write", !.buf = disk]
  /\ granted' = Append(granted, [from |-> appr.snap.workflow_state,
                                 text |-> appr.text, to |-> appr.next])
  /\ UNCHANGED <<disk, decisions, head, turn, turns, decided, hermes, failures>>

ReadForApproval ==
  /\ appr.pc = "save"
  /\ appr' = [appr EXCEPT !.pc = "save_write", !.buf = disk]
  /\ UNCHANGED <<disk, decisions, head, turn, turns, granted, decided, hermes, failures>>

\* BROKEN: the new state inherits the attempts of the old one.
AfterApprovalKeepingAttempts ==
  [appr.buf EXCEPT !.workflow_state = appr.next, !.session = Nothing,
     !.artifact_revision = appr.snap.artifact_revision + 1]

AfterApproval ==
  [appr.buf EXCEPT !.workflow_state = appr.next, !.attempts = 0, !.session = Nothing,
     !.artifact_revision = appr.snap.artifact_revision + 1]

WriteApproval ==
  /\ appr.pc = "save_write"
  /\ disk' = AfterApproval
  /\ appr' = [appr EXCEPT !.pc = "log", !.buf = NewProject]
  /\ failures' = 0
  /\ UNCHANGED <<decisions, head, turn, turns, granted, decided, hermes>>

LogApproval ==
  /\ appr.pc = "log"
  /\ granted' = Append(granted, [from |-> appr.snap.workflow_state,
                                 text |-> appr.text, to |-> appr.next])
  /\ appr' = [appr EXCEPT !.pc = "granted"]
  /\ UNCHANGED <<disk, decisions, head, turn, turns, decided, hermes, failures>>

ApprovalStep == ReadForApproval \/ WriteApproval \/ LogApproval

-----------------------------------------------------------------------------
(* The surroundings *)

\* Somebody else commits to the project's source tree.
EditSource ==
  /\ GitSource
  /\ head < MaxEdits
  /\ head' = head + 1
  /\ UNCHANGED <<disk, decisions, turn, appr, turns, granted, decided, hermes, failures>>

Turn ==
  [pc : TurnPc, snap : Disk, buf : Disk, revision : IndexRevision,
   resume : BOOLEAN, id : SessionId \cup {Unknown}, failed : BOOLEAN]

Approval ==
  [pc : {"idle", "rejected", "save", "save_write", "log", "granted"},
   snap : Disk, buf : Disk, text : Text, next : States]

Grants == [from : States, text : Text, to : States]

Conversation == [state : States, failed : BOOLEAN, revision : Nat, decided : Nat]

EngineTypeOK ==
  /\ disk \in Disk
  /\ decisions \subseteq DecisionId
  /\ head \in Nat
  /\ turn \in Turn
  /\ appr \in Approval
  /\ turns \in Nat
  /\ granted \in Seq(Grants)
  /\ decided \in Nat
  /\ hermes \in Seq(Conversation)
  /\ failures \in Nat
=============================================================================
