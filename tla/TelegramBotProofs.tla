-------------------------- MODULE TelegramBotProofs --------------------------
(***************************************************************************)
(* Theorems of TelegramBot, for every workflow definition that loads and   *)
(* any number of messages, clicks and restarts.  Unlike in CliProject an   *)
(* approval may come between any two steps of a turn and either may        *)
(* overwrite what the other wrote, so nothing here says that a buffer or a *)
(* first read is still current: only that whatever state.yaml is           *)
(* overwritten with is itself sound.                                       *)
(***************************************************************************)
EXTENDS TelegramBot, FiniteSetTheorems, SequenceTheorems, TLAPS

USE WorkflowAssumption, ApprovalsAssumption, SessionsAssumption

-----------------------------------------------------------------------------
(* The inductive invariant *)

Writing == {"block_write", "base_write", "index_write", "session_write", "attempts_write"}

\* The turn runs its agent, or is about to, or is dealing with the answer.
Active == {"ensure_base", "base", "base_write", "index", "index_write", "decide", "invoke",
           "record", "session", "session_write", "finish", "attempts", "attempts_write"}

\* It has been answered and has not written the session yet.
Answered == {"record", "session", "session_write"}

\* What the decision to run, and to resume, was taken on.
TurnBegan ==
  /\ turn.pc = "idle" => turn = IdleTurn
  /\ turn.pc \in Active => RunsAgent(TurnState) /\ ~ Exhausted(turn.snap)
  /\ turn.pc = "finish" => ~ turn.failed
  /\ turn.resume => turn.snap.session # Nothing

\* The conversation that Hermes knows under id was opened there.
OpenedIn(id, n, revision) ==
  /\ id \in DOMAIN hermes
  /\ hermes[id].state = n
  /\ hermes[id].revision = revision

Known(session) ==
  session # Nothing /\ session.id # Unknown
    => OpenedIn(session.id, session.state, session.artifact)

\* Every session in state.yaml or in a copy of it, which may be written back.
SessionsFit ==
  /\ Known(disk.session) /\ Known(turn.snap.session) /\ Known(turn.buf.session)
  /\ turn.pc \in Answered /\ ~ turn.resume /\ turn.id # Unknown
       => OpenedIn(turn.id, turn.snap.workflow_state, turn.snap.artifact_revision)
  /\ turn.pc = "invoke" /\ turn.resume
       => /\ turn.snap.session.state = turn.snap.workflow_state
          /\ turn.snap.session.artifact = turn.snap.artifact_revision

Approved(n) == n \in {Initial, "blocked"} \cup {accepted[i].to : i \in DOMAIN accepted}

\* Every state that is, or may come to be, in state.yaml.
StatesApproved ==
  Approved(disk.workflow_state) /\ Approved(turn.buf.workflow_state) /\ Approved(appr.next)

\* The failed turn that state.yaml does not count yet.
Uncounted ==
  IF turn.failed /\ turn.pc \in {"record", "session", "session_write",
                                "attempts", "attempts_write"}
  THEN 1 ELSE 0

\* Counts(data): the count of a state.yaml that may be written back.
Counts(data) == failures <= data.attempts + Uncounted + restarts

InBudget(data) ==
  LET st == Graph[data.workflow_state]
  IN  st.kind = "autonomous" /\ failures > 0 => failures <= st.max_attempts + restarts

Budgeted ==
  /\ Counts(disk) /\ InBudget(disk)
  /\ turn.pc \in Active => Counts(turn.snap)
  /\ turn.pc \in Writing => Counts(turn.buf) /\ InBudget(turn.buf)

EngineInv ==
  /\ EngineTypeOK
  /\ accepted \in Seq([token : Token, to : States])
  /\ restarts \in Nat
  /\ TurnBegan
  /\ SessionsFit
  /\ StatesApproved
  /\ Budgeted

\* A token that is on its way to an approval is no longer in the table, and
\* one that was used is neither.
TokensUsedUp ==
  /\ \A p, q \in table : p.token = q.token => p = q
  /\ \A p \in table : p.token <= minted
  /\ \A i \in DOMAIN accepted : accepted[i].token <= minted
  /\ \A p \in table, i \in DOMAIN accepted : accepted[i].token # p.token
  /\ handler.pc \in {"edit", "apply"} /\ handler.payload # Nothing =>
       /\ handler.payload.token = handler.token
       /\ handler.token <= minted
       /\ \A p \in table : p.token # handler.token
       /\ \A i \in DOMAIN accepted : accepted[i].token # handler.token
  /\ handler.pc = "apply" => handler.payload # Nothing

IInv ==
  /\ TypeOK
  /\ EngineInv
  /\ GrantedOnce
  /\ TokensUsedUp

-----------------------------------------------------------------------------
(* The engine *)

\* The program counters of an update_state, without the function.
LEMMA Updates ==
  /\ DOMAIN ReadThenWrite = {"block", "base", "index", "session", "attempts"}
  /\ ReadThenWrite["block"] = "block_write"
  /\ ReadThenWrite["base"] = "base_write"
  /\ ReadThenWrite["index"] = "index_write"
  /\ ReadThenWrite["session"] = "session_write"
  /\ ReadThenWrite["attempts"] = "attempts_write"
  BY DEF ReadThenWrite

\* A turn's program counter, spelled out.
LEMMA TurnPcs ==
  TurnPc = {"block", "base", "index", "session", "attempts",
            "block_write", "base_write", "index_write", "session_write",
            "attempts_write", "idle", "ensure_base", "decide", "invoke",
            "record", "finish", "done", "refused", "raised"}
<1>1. {ReadThenWrite[p] : p \in DOMAIN ReadThenWrite} =
        {"block_write", "base_write", "index_write", "session_write", "attempts_write"}
  BY Updates
<1> QED
  BY <1>1, Updates DEF TurnPc

\* What the types say of the parts of state.yaml that the invariant is about.
LEMMA DiskParts ==
  ASSUME NEW d \in Disk
  PROVE  /\ d.workflow_state \in States /\ d.attempts \in Nat
         /\ d.artifact_revision \in Nat
         /\ d.session \in Session \cup {Nothing}
         /\ Graph[d.workflow_state] \in StateSpec
         /\ Graph[d.workflow_state].max_attempts \in Int
  BY EngineAssumption DEF Disk, States, StateSpec

\* A project that is new, and an engine at rest.
LEMMA AtRest ==
  /\ NewProject \in Disk /\ NewProject.workflow_state = Initial
  /\ NewProject.session = Nothing /\ NewProject.attempts = 0
  /\ IdleTurn \in Turn /\ IdleTurn.pc = "idle" /\ ~ IdleTurn.failed /\ ~ IdleTurn.resume
  /\ IdleTurn.snap = NewProject /\ IdleTurn.buf = NewProject
  /\ IdleApproval \in Approval /\ IdleApproval.next = Initial
<1>1. Initial \in States
  BY EngineAssumption DEF Validates, States
<1>2. NewProject \in Disk
  BY <1>1 DEF NewProject, Disk
<1> QED
  BY <1>1, <1>2, TurnPcs
     DEF NewProject, IdleTurn, IdleApproval, Turn, Approval, IndexRevision, SessionId

\* The failures of a stay are counted from none.
LEMMA EngineBegins ==
  ASSUME EngineInit, accepted = <<>>, restarts = 0
  PROVE  EngineInv
<1> USE DEF EngineInit
<1>1. EngineTypeOK
  BY AtRest DEF EngineTypeOK
<1>2. TurnBegan /\ SessionsFit
  BY AtRest DEF TurnBegan, SessionsFit, Known, Active, Answered
<1>3. StatesApproved
  BY AtRest DEF StatesApproved, Approved
<1>4. Budgeted
  BY AtRest DEF Budgeted, Counts, InBudget, Uncounted, Active, Writing
<1> QED
  BY <1>1, <1>2, <1>3, <1>4 DEF EngineInv

\* run_turn begins with the state.yaml of now.
LEMMA BeginTurnKeeps ==
  ASSUME EngineInv, BeginTurn, UNCHANGED <<accepted, restarts>>
  PROVE  EngineInv'
<1> DEFINE q == IF ~ RunsAgent(Graph[disk.workflow_state]) THEN "refused"
                ELSE IF Exhausted(disk) THEN "block" ELSE "ensure_base"
<1>1. /\ turn.pc = "idle" /\ turns' = turns + 1
      /\ turn' = [turn EXCEPT !.snap = disk, !.pc = q]
      /\ UNCHANGED <<disk, decisions, head, appr, granted, decided, hermes, failures>>
  BY DEF BeginTurn
<1>2. turn \in Turn /\ disk \in Disk /\ turns \in Nat
  BY DEF EngineInv, EngineTypeOK
<1>3. /\ turn' \in Turn /\ turn'.pc = q /\ turn'.snap = disk /\ turn'.buf = turn.buf
      /\ turn'.resume = turn.resume /\ turn'.failed = turn.failed
  BY <1>1, <1>2, TurnPcs DEF Turn
<1>4. EngineTypeOK'
  BY <1>1, <1>2, <1>3 DEF EngineInv, EngineTypeOK
<1>5. TurnBegan' /\ SessionsFit'
  <2>1. ~ turn.resume
    BY <1>1, AtRest DEF EngineInv, TurnBegan
  <2>2. q = "ensure_base" => RunsAgent(Graph[disk.workflow_state]) /\ ~ Exhausted(disk)
    OBVIOUS
  <2>3. q \in {"refused", "block", "ensure_base"}
    OBVIOUS
  <2> HIDE DEF q
  <2>4. TurnBegan'
    BY <1>3, <2>1, <2>2, <2>3 DEF TurnBegan, TurnState, Active
  <2> QED
    BY <1>1, <1>3, <2>1, <2>3, <2>4 DEF EngineInv, SessionsFit, Known, OpenedIn, Answered
<1>6. StatesApproved'
  BY <1>1, <1>3 DEF EngineInv, StatesApproved, Approved
<1>7. Budgeted'
  <2>1. Uncounted = 0 /\ Uncounted' = 0 /\ turn'.pc \notin Writing
    BY <1>1, <1>3 DEF Uncounted, Writing
  <2> QED
    BY <1>1, <1>3, <2>1 DEF EngineInv, Budgeted, Counts, InBudget
<1> QED
  BY <1>4, <1>5, <1>6, <1>7 DEF EngineInv

\* An answer has finitely many decision blocks.
LEMMA DecisionCount ==
  ASSUME NEW ids \in SUBSET DecisionId
  PROVE  Cardinality(ids) \in Nat
<1>1. IsFiniteSet(DecisionId)
  BY EngineAssumption
<1>2. IsFiniteSet(ids)
  BY <1>1, FS_Subset
<1> QED
  BY <1>2, FS_CardinalityType

\* A step of run_turn that touches neither state.yaml nor Hermes.
LEMMA MoveKeeps ==
  ASSUME EngineInv, NEW q \in TurnPc \ {"idle", "invoke"}, q \notin Writing,
         turn' = [turn EXCEPT !.pc = q], turn.pc # "idle",
         q \in Active => turn.pc \in Active,
         q \in Answered => turn.pc \in Answered,
         q = "finish" => ~ turn.failed, Uncounted' = Uncounted,
         decisions' \subseteq DecisionId, head' \in Nat, decided' \in Nat,
         UNCHANGED <<disk, appr, turns, granted, hermes, failures, accepted, restarts>>
  PROVE  EngineInv'
<1>1. /\ turn' \in Turn /\ turn'.pc = q /\ turn'.snap = turn.snap /\ turn'.buf = turn.buf
      /\ turn'.resume = turn.resume /\ turn'.failed = turn.failed /\ turn'.id = turn.id
  BY DEF EngineInv, EngineTypeOK, Turn
<1>2. EngineTypeOK'
  BY <1>1 DEF EngineInv, EngineTypeOK
<1>3. TurnBegan'
  BY <1>1 DEF EngineInv, TurnBegan, TurnState
<1>4. SessionsFit'
  BY <1>1 DEF EngineInv, SessionsFit, Known, OpenedIn
<1>5. StatesApproved'
  BY <1>1 DEF EngineInv, StatesApproved, Approved
<1>6. Budgeted'
  BY <1>1 DEF EngineInv, Budgeted, Counts, InBudget
<1> QED
  BY <1>2, <1>3, <1>4, <1>5, <1>6 DEF EngineInv

\* The steps it applies to.
LEMMA MovesKeep ==
  ASSUME EngineInv, UNCHANGED <<accepted, restarts>>,
         \/ EnsureBase \/ FinishRaises
         \/ \E ids \in SUBSET DecisionId : RecordDecisions(ids)
         \/ \E changed \in BOOLEAN : FinishTurn(changed)
  PROVE  EngineInv'
<1> USE DEF EngineInv, EngineTypeOK
<1>0. turn \in Turn /\ decided \in Nat /\ head \in Nat
  OBVIOUS
<1>1. CASE EnsureBase
  <2>1. PICK q \in {"base", "index"} : turn' = [turn EXCEPT !.pc = q]
    BY <1>1 DEF EnsureBase
  <2>2. turn.pc = "ensure_base" /\ turn'.pc = q
    BY <1>0, <1>1, <2>1 DEF EnsureBase, Turn
  <2>3. Uncounted' = Uncounted
    BY <2>2 DEF Uncounted
  <2> QED
    BY <1>1, <2>1, <2>2, <2>3, MoveKeeps, TurnPcs DEF EnsureBase, Active, Answered, Writing
<1>2. CASE FinishRaises
  <2>1. turn.pc = "finish" /\ turn'.pc = "raised"
    BY <1>0, <1>2 DEF FinishRaises, Turn
  <2>2. Uncounted' = Uncounted
    BY <2>1 DEF Uncounted
  <2> QED
    BY <1>2, <2>1, <2>2, MoveKeeps, TurnPcs DEF FinishRaises, Active, Answered, Writing
<1>3. ASSUME NEW ids \in SUBSET DecisionId, RecordDecisions(ids)
      PROVE  EngineInv'
  <2>1. turn.pc = "record" /\ turn'.pc = "session" /\ turn'.failed = turn.failed
    BY <1>0, <1>3 DEF RecordDecisions, Turn
  <2>2. Uncounted' = Uncounted
    BY <2>1 DEF Uncounted
  <2>3. decided' \in Nat
    BY <1>0, <1>3, DecisionCount DEF RecordDecisions
  <2> QED
    BY <1>3, <2>1, <2>2, <2>3, MoveKeeps, TurnPcs
       DEF RecordDecisions, Active, Answered, Writing
<1>4. ASSUME NEW changed \in BOOLEAN, FinishTurn(changed)
      PROVE  EngineInv'
  <2>1. turn.pc = "finish" /\ turn'.pc = "attempts" /\ turn'.failed = turn.failed
    BY <1>0, <1>4 DEF FinishTurn, Turn
  <2>2. ~ turn.failed
    BY <2>1 DEF TurnBegan
  <2>3. Uncounted' = Uncounted
    BY <2>1, <2>2 DEF Uncounted
  <2>4. head' \in Nat
    BY <1>0, <1>4 DEF FinishTurn
  <2> QED
    BY <1>4, <2>1, <2>3, <2>4, MoveKeeps, TurnPcs DEF FinishTurn, Active, Answered, Writing
<1> QED
  BY <1>1, <1>2, <1>3, <1>4

\* The buffer of an update_state is a copy of state.yaml.
LEMMA ReadStateKeeps ==
  ASSUME EngineInv, ReadState, UNCHANGED <<accepted, restarts>>
  PROVE  EngineInv'
<1>1. PICK revision \in Asked :
        turn' = [turn EXCEPT !.pc = ReadThenWrite[@], !.buf = disk, !.revision = revision]
  BY DEF ReadState
<1>2. /\ turn.pc \in {"block", "base", "index", "session", "attempts"}
      /\ UNCHANGED <<disk, decisions, head, appr, turns, granted, decided, hermes, failures>>
  BY Updates DEF ReadState
<1>3. revision \in IndexRevision
  BY <1>1 DEF EngineInv, EngineTypeOK, Turn, Asked, IndexedAt, IndexRevision
<1>4. /\ turn' \in Turn /\ turn'.pc = ReadThenWrite[turn.pc]
      /\ turn'.snap = turn.snap /\ turn'.buf = disk
      /\ turn'.resume = turn.resume /\ turn'.failed = turn.failed /\ turn'.id = turn.id
  BY <1>1, <1>2, <1>3, TurnPcs, Updates DEF EngineInv, EngineTypeOK, Turn
<1>5. EngineTypeOK'
  BY <1>2, <1>4 DEF EngineInv, EngineTypeOK
<1>6. TurnBegan'
  BY <1>2, <1>4, Updates DEF EngineInv, TurnBegan, TurnState, Active
<1>7. SessionsFit'
  BY <1>2, <1>4, Updates DEF EngineInv, SessionsFit, Known, OpenedIn, Answered
<1>8. StatesApproved'
  BY <1>2, <1>4 DEF EngineInv, StatesApproved, Approved
<1>9. Budgeted'
  <2>1. Uncounted' = Uncounted
    BY <1>2, <1>4, Updates DEF Uncounted
  <2>2. turn'.pc \in Active => turn.pc \in Active
    BY <1>2, <1>4, Updates DEF Active
  <2> QED
    BY <1>2, <1>4, <2>1, <2>2 DEF EngineInv, Budgeted, Counts, InBudget
<1> QED
  BY <1>5, <1>6, <1>7, <1>8, <1>9 DEF EngineInv

\* The second half of an update_state: what is written is sound, so is the
\* state.yaml it makes.  It need not have been current.
LEMMA WriteKeeps ==
  ASSUME EngineInv, NEW from \in Writing, NEW to \in TurnPc, NEW data \in Disk,
         WriteState(from, to, data), to \notin Writing \cup Answered \cup {"idle", "invoke"},
         to \in Active => from \in Active, to = "finish" => ~ turn.failed,
         Known(data.session)', Approved(data.workflow_state),
         failures' \in {0, failures}, failures' <= data.attempts + Uncounted' + restarts,
         to \in Active => Uncounted' = Uncounted,
         Graph[data.workflow_state].kind = "autonomous" =>
           data.workflow_state = turn.buf.workflow_state,
         \A s \in Session \cup {Nothing} : Known(s) => Known(s)',
         hermes' \in Seq(Conversation),
         UNCHANGED <<decisions, head, appr, turns, granted, decided, accepted, restarts>>
  PROVE  EngineInv'
<1>1. /\ turn.pc = from /\ disk' = data
      /\ turn' = [turn EXCEPT !.pc = to, !.buf = NewProject]
  BY DEF WriteState
<1>2. /\ turn \in Turn /\ disk \in Disk /\ failures \in Nat /\ restarts \in Nat
      /\ turn.snap \in Disk /\ turn.buf \in Disk
  BY DEF EngineInv, EngineTypeOK, Turn
<1>3. /\ turn' \in Turn /\ turn'.pc = to /\ turn'.snap = turn.snap /\ turn'.buf = NewProject
      /\ turn'.resume = turn.resume /\ turn'.failed = turn.failed /\ turn'.id = turn.id
  BY <1>1, <1>2, AtRest DEF Turn
<1>4. EngineTypeOK'
  BY <1>1, <1>2, <1>3 DEF EngineInv, EngineTypeOK
<1>5. TurnBegan'
  BY <1>1, <1>3 DEF EngineInv, TurnBegan, TurnState
<1>6. SessionsFit'
  <2>1. Known(turn.snap.session)' /\ Known(turn.buf.session)'
    <3>1. turn.snap.session \in Session \cup {Nothing} /\ Known(turn.snap.session)
      BY <1>2, DiskParts DEF EngineInv, SessionsFit
    <3>2. turn'.snap.session = turn.snap.session /\ turn'.buf.session = Nothing
      BY <1>3, AtRest
    <3> QED
      BY <3>1, <3>2 DEF Known, OpenedIn
  <2>2. Known(disk.session)'
    BY <1>1 DEF Known, OpenedIn
  <2> QED
    BY <1>1, <1>3, <2>1, <2>2 DEF SessionsFit
<1>7. StatesApproved'
  BY <1>1, <1>3, AtRest DEF EngineInv, StatesApproved, Approved
<1>8. Budgeted'
  <2>1. Counts(disk)'
    BY <1>1 DEF Counts
  <2>2. InBudget(disk)'
    BY <1>1, <1>2 DEF EngineInv, Budgeted, InBudget
  <2>3. turn'.pc \in Active => Counts(turn.snap)'
    <3>1. turn.snap.attempts \in Nat /\ Uncounted \in Nat
      BY <1>2, DiskParts DEF Uncounted
    <3> QED
      BY <1>1, <1>2, <1>3, <3>1 DEF EngineInv, Budgeted, Counts
  <2> QED
    BY <1>3, <2>1, <2>2, <2>3 DEF Budgeted
<1> QED
  BY <1>4, <1>5, <1>6, <1>7, <1>8 DEF EngineInv

\* The writes before the invocation: of the buffer, with at most the state
\* that the engine gives up in, or the base revision, in its place.
LEMMA EarlyWritesKeep ==
  ASSUME EngineInv, WriteBlocked \/ WriteBase \/ WriteIndex, UNCHANGED <<accepted, restarts>>
  PROVE  EngineInv'
<1>1. /\ turn \in Turn /\ turn.buf \in Disk /\ failures \in Nat
      /\ turn.revision \in IndexRevision
  BY DEF EngineInv, EngineTypeOK, Turn
<1>a. PICK to \in {"refused", "index", "decide"} :
        /\ \E data : WriteState(turn.pc, to, data)
        /\ turn.pc \in {"block_write", "base_write", "index_write"}
        /\ to # "refused" => turn.pc # "block_write"
        /\ UNCHANGED <<decisions, head, appr, turns, granted, decided, hermes, failures>>
  BY DEF WriteBlocked, WriteBase, WriteIndex, WriteState
<1>b. PICK data : WriteState(turn.pc, to, data)
  BY <1>a
<1>2. /\ WriteState(turn.pc, to, data)
      /\ turn.pc \in {"block_write", "base_write", "index_write"}
      /\ to # "refused" => turn.pc # "block_write"
      /\ UNCHANGED <<decisions, head, appr, turns, granted, decided, hermes, failures>>
  BY <1>a, <1>b
<1>3. /\ data \in Disk
      /\ data.workflow_state \in {turn.buf.workflow_state, "blocked"}
      /\ data.session = turn.buf.session /\ data.attempts = turn.buf.attempts
  <2>1. CASE WriteBlocked
    BY <1>1, <1>2, <2>1, EngineAssumption DEF WriteBlocked, WriteState, Disk, States
  <2>2. CASE WriteBase
    <3>1. turn.revision \in Nat \cup {Nothing}
      BY <1>1 DEF IndexRevision
    <3> QED
      BY <1>1, <1>2, <2>2, <3>1 DEF WriteBase, WriteState, Disk
  <2>3. CASE WriteIndex
    BY <1>1, <1>2, <2>3 DEF WriteIndex, WriteState
  <2> QED
    BY <2>1, <2>2, <2>3
<1>4. Known(data.session)' /\ Approved(data.workflow_state)
  BY <1>2, <1>3 DEF EngineInv, SessionsFit, Known, OpenedIn, StatesApproved, Approved
<1>5. turn'.pc = to
  BY <1>1, <1>2, TurnPcs DEF WriteState, Turn
<1>6. Uncounted = 0 /\ Uncounted' = 0
  BY <1>2, <1>5 DEF Uncounted
<1>7. failures' <= data.attempts + Uncounted' + restarts
  BY <1>2, <1>3, <1>6 DEF EngineInv, Budgeted, Counts, Writing
<1>8. Graph[data.workflow_state].kind = "autonomous" =>
        data.workflow_state = turn.buf.workflow_state
  BY <1>3, EngineAssumption
<1>9. \A s \in Session \cup {Nothing} : Known(s) => Known(s)'
  BY <1>2 DEF Known, OpenedIn
<1>10. hermes' \in Seq(Conversation)
  BY <1>2 DEF EngineInv, EngineTypeOK
<1> QED
  BY <1>2, <1>3, <1>4, <1>6, <1>7, <1>8, <1>9, <1>10, WriteKeeps, TurnPcs
     DEF Writing, Answered, Active

\* A turn resumes only a session of its own state and revision.
LEMMA DecideKeeps ==
  ASSUME EngineInv, NEW aged \in BOOLEAN, Decide(aged), UNCHANGED <<accepted, restarts>>
  PROVE  EngineInv'
<1> DEFINE r == Resume(turn.snap.session, TurnState, turn.snap.workflow_state,
                       turn.snap.artifact_revision, Cardinality(decisions), turn.revision, aged)
<1>1. /\ turn.pc = "decide" /\ turn' = [turn EXCEPT !.pc = "invoke", !.resume = r]
      /\ UNCHANGED <<disk, decisions, head, appr, turns, granted, decided, hermes, failures>>
  BY DEF Decide
<1>2. r \in BOOLEAN /\ (r => /\ turn.snap.session # Nothing
                            /\ turn.snap.session.state = turn.snap.workflow_state
                            /\ turn.snap.session.artifact = turn.snap.artifact_revision)
  BY DEF Resume, Boundary
<1> HIDE DEF r
<1>3. /\ turn' \in Turn /\ turn'.pc = "invoke" /\ turn'.snap = turn.snap
      /\ turn'.buf = turn.buf /\ turn'.resume = r /\ turn'.failed = turn.failed
  BY <1>1, <1>2, TurnPcs DEF EngineInv, EngineTypeOK, Turn
<1>4. EngineTypeOK'
  BY <1>1, <1>3 DEF EngineInv, EngineTypeOK
<1>5. TurnBegan' /\ SessionsFit'
  BY <1>1, <1>2, <1>3
     DEF EngineInv, TurnBegan, TurnState, Active, SessionsFit, Known, OpenedIn, Answered
<1>6. StatesApproved'
  BY <1>1, <1>3 DEF EngineInv, StatesApproved, Approved
<1>7. Budgeted'
  <2>1. Uncounted' = Uncounted
    BY <1>1, <1>3 DEF Uncounted
  <2> QED
    BY <1>1, <1>3, <2>1 DEF EngineInv, Budgeted, Counts, InBudget, Active, Writing
<1> QED
  BY <1>4, <1>5, <1>6, <1>7 DEF EngineInv

\* Updating one conversation, known or not, leaves a sequence of them and the
\* place each was opened in.
LEMMA ConversationUpdate ==
  ASSUME NEW h \in Seq(Conversation), NEW i, NEW b \in BOOLEAN, NEW n \in Nat,
         NEW k, k \in {[h EXCEPT ![i].failed = b], [h EXCEPT ![i].decided = n]}
  PROVE  /\ k \in Seq(Conversation) /\ DOMAIN k = DOMAIN h
         /\ \A j \in DOMAIN h : k[j].state = h[j].state /\ k[j].revision = h[j].revision
<1>1. h \in [1..Len(h) -> Conversation] /\ Len(h) \in Nat
  OBVIOUS
<1>2. k \in [1..Len(h) -> Conversation]
  <2>1. CASE k = [h EXCEPT ![i].failed = b]
    <3>1. [h EXCEPT ![i].failed = b] \in [1..Len(h) -> Conversation]
      BY <1>1 DEF Conversation
    <3> QED
      BY <2>1, <3>1
  <2>2. CASE k = [h EXCEPT ![i].decided = n]
    BY <1>1, <2>2 DEF Conversation
  <2> QED
    BY <2>1, <2>2
<1>3. \A j \in DOMAIN h : k[j].state = h[j].state /\ k[j].revision = h[j].revision
  <2>1. CASE k = [h EXCEPT ![i].failed = b]
    BY <1>1, <2>1 DEF Conversation
  <2>2. CASE k = [h EXCEPT ![i].decided = n]
    BY <1>1, <2>2 DEF Conversation
  <2> QED
    BY <2>1, <2>2
<1> QED
  BY <1>1, <1>2, <1>3, SeqDef

\* Hermes as a step leaves it: every conversation stays where it was opened.
Kept ==
  /\ hermes' \in Seq(Conversation)
  /\ \A j \in DOMAIN hermes : /\ j \in DOMAIN hermes'
                              /\ hermes'[j].state = hermes[j].state
                              /\ hermes'[j].revision = hermes[j].revision

LEMMA UpdateKept ==
  ASSUME hermes \in Seq(Conversation), NEW i, NEW b \in BOOLEAN, NEW n \in Nat,
         \/ hermes' = hermes
         \/ hermes' = [hermes EXCEPT ![i].failed = b]
         \/ hermes' = [hermes EXCEPT ![i].decided = n]
  PROVE  Kept
<1>1. CASE hermes' = hermes
  BY <1>1 DEF Kept
<1>2. CASE hermes' # hermes
  <2>1. hermes' \in {[hermes EXCEPT ![i].failed = b], [hermes EXCEPT ![i].decided = n]}
    BY <1>2
  <2> QED
    BY <2>1, ConversationUpdate DEF Kept
<1> QED
  BY <1>1, <1>2

\* So a session that fitted goes on fitting.
LEMMA KnownStays ==
  ASSUME Kept, NEW session, Known(session)
  PROVE  Known(session)'
  BY DEF Kept, Known, OpenedIn

\* A bound that grows by as much as what it bounds.
LEMMA OneMore ==
  \A f, g, u, a, r \in Nat : g <= f + u /\ f <= a + r => g <= a + u + r
  OBVIOUS

\* A failed answer is one failure more, and the turn had attempts left.
LEMMA HermesAnswersKeeps ==
  ASSUME EngineInv, NEW failed \in BOOLEAN, NEW known \in BOOLEAN,
         HermesAnswers(failed, known), UNCHANGED <<accepted, restarts>>
  PROVE  EngineInv'
<1>1. /\ turn.pc = "invoke"
      /\ turn' = [turn EXCEPT !.pc = "record", !.id = turn'.id, !.failed = failed]
      /\ failures' = IF failed /\ SameStay THEN failures + 1 ELSE failures
      /\ UNCHANGED <<disk, decisions, head, appr, turns, granted, decided>>
  BY DEF HermesAnswers, EngineInv, EngineTypeOK, Turn
<1>2. /\ turn \in Turn /\ disk \in Disk /\ failures \in Nat /\ restarts \in Nat
      /\ turn.snap \in Disk /\ hermes \in Seq(Conversation)
  BY DEF EngineInv, EngineTypeOK, Turn
<1>3. /\ turn'.id \in SessionId \cup {Unknown} /\ Kept
      /\ ~ turn.resume /\ turn'.id # Unknown
           => OpenedIn(turn.id, turn.snap.workflow_state, turn.snap.artifact_revision)'
  <2>1. CASE turn.resume
    <3>1. turn'.id = turn.snap.session.id
      BY <1>2, <2>1 DEF HermesAnswers, Turn
    <3>2. turn.snap.session \in Session
      BY <1>2, <2>1, DiskParts DEF EngineInv, TurnBegan
    <3>3. hermes' = hermes \/ hermes' = [hermes EXCEPT ![turn.snap.session.id].failed = failed]
      BY <2>1 DEF HermesAnswers
    <3>4. Kept
      BY <1>2, <3>3, UpdateKept
    <3> QED
      BY <2>1, <3>1, <3>2, <3>4 DEF Session
  <2>2. CASE ~ turn.resume
    <3> DEFINE c == [state |-> turn.snap.workflow_state, failed |-> failed,
                     revision |-> turn.snap.artifact_revision, decided |-> decided]
    <3>1. c \in Conversation
      BY <1>2, DiskParts DEF EngineInv, EngineTypeOK, Conversation
    <3>2. /\ hermes' = Append(hermes, c)
          /\ turn'.id = IF known THEN Len(hermes) + 1 ELSE Unknown
      BY <1>2, <2>2 DEF HermesAnswers, Turn
    <3>3. c.state = turn.snap.workflow_state /\ c.revision = turn.snap.artifact_revision
      OBVIOUS
    <3> HIDE DEF c
    <3>4. /\ Len(hermes) \in Nat /\ hermes' \in Seq(Conversation)
          /\ Len(hermes') = Len(hermes) + 1 /\ hermes'[Len(hermes) + 1] = c
          /\ \A j \in 1..Len(hermes) : hermes'[j] = hermes[j]
      BY <1>2, <3>1, <3>2
    <3>5. Kept
      BY <1>2, <3>4 DEF Kept
    <3>6. turn'.snap = turn.snap
      BY <1>1, <1>2 DEF Turn
    <3> QED
      BY <1>2, <3>2, <3>3, <3>4, <3>5, <3>6 DEF SessionId, OpenedIn
  <2> QED
    BY <2>1, <2>2
<1>4. /\ turn' \in Turn /\ turn'.pc = "record" /\ turn'.failed = failed
      /\ turn'.snap = turn.snap /\ turn'.buf = turn.buf /\ turn'.resume = turn.resume
  BY <1>1, <1>2, <1>3, TurnPcs DEF Turn
<1>5. EngineTypeOK'
  BY <1>1, <1>2, <1>3, <1>4 DEF EngineInv, EngineTypeOK, Kept
<1>6. TurnBegan'
  BY <1>1, <1>4 DEF EngineInv, TurnBegan, TurnState, Active
<1>7. SessionsFit'
  <2>1. Known(disk.session)' /\ Known(turn.snap.session)' /\ Known(turn.buf.session)'
    BY <1>1, <1>3, <1>4 DEF EngineInv, SessionsFit, Kept, Known, OpenedIn
  <2> QED
    BY <1>3, <1>4, <2>1 DEF SessionsFit
<1>8. StatesApproved'
  BY <1>1, <1>4 DEF EngineInv, StatesApproved, Approved
<1>9. Budgeted'
  <2>1. Uncounted = 0 /\ Uncounted' = IF failed THEN 1 ELSE 0
    BY <1>1, <1>4 DEF Uncounted
  <2>2. /\ ~ Exhausted(turn.snap) /\ Counts(disk) /\ Counts(turn.snap) /\ InBudget(disk)
    BY <1>1 DEF EngineInv, TurnBegan, Budgeted, Active
  <2>3. /\ disk.attempts \in Nat /\ turn.snap.attempts \in Nat
        /\ Graph[disk.workflow_state].max_attempts \in Int
    BY <1>2, DiskParts
  <2>4. Counts(disk)' /\ Counts(turn.snap)'
    <3>1. /\ failures' \in Nat /\ failures' <= failures + Uncounted'
          /\ disk'.attempts = disk.attempts /\ turn'.snap.attempts = turn.snap.attempts
      BY <1>1, <1>2, <1>4, <2>1
    <3>2. failures <= disk.attempts + restarts /\ failures <= turn.snap.attempts + restarts
      BY <1>2, <2>1, <2>2, <2>3 DEF Counts
    <3>3. Uncounted' \in Nat
      BY <2>1
    <3>4. /\ failures' <= disk.attempts + Uncounted' + restarts
          /\ failures' <= turn.snap.attempts + Uncounted' + restarts
      BY <1>2, <2>3, <3>1, <3>2, <3>3, OneMore
    <3> QED
      BY <3>1, <3>4 DEF Counts
  <2>5. InBudget(disk)'
    <3>1. CASE failed /\ SameStay
      <4>1. failures' = failures + 1 /\ turn.snap.workflow_state = disk.workflow_state
        BY <1>1, <3>1 DEF SameStay
      <4>2. failures <= turn.snap.attempts + restarts
        BY <1>2, <2>1, <2>2, <2>3 DEF Counts
      <4>3. Graph[disk.workflow_state].kind = "autonomous"
              => turn.snap.attempts < Graph[disk.workflow_state].max_attempts
        BY <2>2, <2>3, <4>1 DEF Exhausted
      <4> QED
        BY <1>1, <1>2, <2>3, <4>1, <4>2, <4>3 DEF InBudget
    <3>2. CASE ~ (failed /\ SameStay)
      BY <1>1, <2>2, <3>2 DEF InBudget
    <3> QED
      BY <3>1, <3>2
  <2> QED
    BY <1>4, <2>4, <2>5 DEF Budgeted, Writing
<1> QED
  BY <1>5, <1>6, <1>7, <1>8, <1>9 DEF EngineInv

\* A turn that raises has opened no conversation, and counts as no failure.
LEMMA TurnRaisesKeeps ==
  ASSUME EngineInv, TurnRaises, UNCHANGED <<accepted, restarts>>
  PROVE  EngineInv'
<1>1. /\ turn.pc = "invoke" /\ turn' = [turn EXCEPT !.pc = "raised"]
      /\ hermes' \in {hermes, [hermes EXCEPT ![turn.snap.session.id].failed = TRUE]}
      /\ UNCHANGED <<disk, decisions, head, appr, turns, granted, decided, failures>>
  BY DEF TurnRaises
<1>2. turn \in Turn /\ hermes \in Seq(Conversation)
  BY DEF EngineInv, EngineTypeOK
<1>3. /\ turn' \in Turn /\ turn'.pc = "raised" /\ turn'.snap = turn.snap
      /\ turn'.buf = turn.buf /\ turn'.resume = turn.resume
  BY <1>1, <1>2, TurnPcs DEF Turn
<1>4. Kept
  BY <1>1, <1>2, UpdateKept
<1>5. EngineTypeOK'
  BY <1>1, <1>3, <1>4 DEF EngineInv, EngineTypeOK, Kept
<1>6. TurnBegan'
  BY <1>3 DEF EngineInv, TurnBegan, Active
<1>7. SessionsFit'
  <2>1. Known(disk.session)' /\ Known(turn.snap.session)' /\ Known(turn.buf.session)'
    BY <1>1, <1>3, <1>4 DEF EngineInv, SessionsFit, Kept, Known, OpenedIn
  <2> QED
    BY <1>3, <2>1 DEF SessionsFit, Answered
<1>8. StatesApproved'
  BY <1>1, <1>3 DEF EngineInv, StatesApproved, Approved
<1>9. Budgeted'
  <2>1. Uncounted = 0 /\ Uncounted' = 0
    BY <1>1, <1>3 DEF Uncounted
  <2> QED
    BY <1>1, <1>3, <2>1 DEF EngineInv, Budgeted, Counts, InBudget, Active, Writing
<1> QED
  BY <1>5, <1>6, <1>7, <1>8, <1>9 DEF EngineInv

\* A state that runs an agent names its role.
LEMMA AgentHasRole ==
  ASSUME NEW n \in States, RunsAgent(Graph[n])
  PROVE  Graph[n].role \in Role
<1>1. WellFormed(Graph, n) /\ Graph[n] \in StateSpec
  BY EngineAssumption DEF Validates, States
<1> QED
  BY <1>1 DEF WellFormed, RunsAgent, StateSpec

\* What a turn leaves as its session is one that fits: it is resumed, or it is
\* described by the first read, as Hermes's conversation was.
LEMMA NewSessionFits ==
  ASSUME EngineInv, turn.pc = "session_write"
  PROVE  NewSession \in Session /\ Known(NewSession)
<1>1. /\ turn \in Turn /\ turn.snap \in Disk /\ turn.revision \in IndexRevision
      /\ turn.id \in SessionId \cup {Unknown} /\ turn.failed \in BOOLEAN
      /\ decisions \subseteq DecisionId
  BY DEF EngineInv, EngineTypeOK, Turn
<1>2. CASE turn.resume
  <2> DEFINE old == turn.snap.session
  <2>1. old \in Session /\ Known(old) /\ old # Nothing
    BY <1>1, <1>2, DiskParts DEF EngineInv, TurnBegan, SessionsFit
  <2>2. NewSession = [old EXCEPT !.turns = @ + 1, !.last_turn_failed = turn.failed]
    BY <1>2 DEF NewSession, RecordTurn
  <2> HIDE DEF old
  <2>3. old.turns + 1 \in Nat
    BY <2>1 DEF Session
  <2>4. /\ NewSession \in Session /\ NewSession.id = old.id
        /\ NewSession.state = old.state /\ NewSession.artifact = old.artifact
    BY <1>1, <2>1, <2>2, <2>3 DEF Session
  <2> QED
    BY <2>1, <2>4 DEF Known
<1>3. CASE ~ turn.resume
  <2>1. TurnState.role \in Role
    BY <1>1, AgentHasRole, DiskParts DEF EngineInv, TurnBegan, TurnState, Active
  <2>2. Cardinality(decisions) \in Nat
    BY <1>1, DecisionCount
  <2>3. turn.snap.workflow_state \in Name /\ turn.snap.artifact_revision \in Nat
    BY <1>1, DiskParts, EngineAssumption DEF States
  <2>4. /\ NewSession \in Session /\ NewSession.id = turn.id
        /\ NewSession.state = turn.snap.workflow_state
        /\ NewSession.artifact = turn.snap.artifact_revision
    BY <1>1, <1>3, <2>1, <2>2, <2>3 DEF NewSession, Open, Session
  <2> QED
    BY <1>3, <2>4 DEF EngineInv, SessionsFit, Known, Answered
<1> QED
  BY <1>2, <1>3

\* The write of the session.
LEMMA WriteSessionKeeps ==
  ASSUME EngineInv, WriteSession, UNCHANGED <<accepted, restarts>>
  PROVE  EngineInv'
<1>1. PICK to \in {"attempts", "finish"} :
        /\ to = IF turn.failed THEN "attempts" ELSE "finish"
        /\ WriteState("session_write", to, [turn.buf EXCEPT !.session = NewSession])
        /\ hermes' \in {hermes, [hermes EXCEPT ![turn.id].decided = decided]}
        /\ UNCHANGED <<decisions, head, appr, turns, granted, decided, failures>>
  BY DEF WriteSession
<1>2. PICK data : data = [turn.buf EXCEPT !.session = NewSession]
  OBVIOUS
<1>3. /\ turn \in Turn /\ turn.buf \in Disk /\ failures \in Nat /\ decided \in Nat
      /\ hermes \in Seq(Conversation)
  BY DEF EngineInv, EngineTypeOK, Turn
<1>4. turn.pc = "session_write" /\ turn'.pc = to /\ turn'.failed = turn.failed
  BY <1>1, <1>3 DEF WriteState, Turn
<1>5. NewSession \in Session /\ Known(NewSession)
  BY <1>4, NewSessionFits
<1>6. /\ data \in Disk /\ data.workflow_state = turn.buf.workflow_state
      /\ data.session = NewSession /\ data.attempts = turn.buf.attempts
  BY <1>2, <1>3, <1>5 DEF Disk
<1>7. Kept
  BY <1>1, <1>3, UpdateKept
<1>8. \A s \in Session \cup {Nothing} : Known(s) => Known(s)'
  BY <1>7, KnownStays
<1>9. Known(data.session)'
  BY <1>5, <1>6, <1>8
<1>10. Approved(data.workflow_state)
  BY <1>6 DEF EngineInv, StatesApproved
<1>11. Uncounted' = Uncounted
  BY <1>1, <1>4 DEF Uncounted
<1>12. failures' <= data.attempts + Uncounted' + restarts
  BY <1>1, <1>4, <1>6, <1>11 DEF EngineInv, Budgeted, Counts, Writing
<1> QED
  BY <1>1, <1>2, <1>4, <1>6, <1>7, <1>8, <1>9, <1>10, <1>11, <1>12, WriteKeeps, TurnPcs
     DEF Writing, Answered, Active, Kept

\* The count catches up with the failure; success forgets them all.
LEMMA WriteAttemptsKeeps ==
  ASSUME EngineInv, WriteAttempts, UNCHANGED <<accepted, restarts>>
  PROVE  EngineInv'
<1>1. /\ WriteState("attempts_write", "done", AfterTurn)
      /\ failures' = IF turn.failed THEN failures ELSE 0
      /\ UNCHANGED <<decisions, head, appr, turns, granted, decided, hermes>>
  BY DEF WriteAttempts
<1>2. PICK data : data = AfterTurn
  OBVIOUS
<1>3. /\ turn \in Turn /\ turn.buf \in Disk /\ turn.snap \in Disk
      /\ failures \in Nat /\ restarts \in Nat
  BY DEF EngineInv, EngineTypeOK, Turn
<1>4. turn.pc = "attempts_write" /\ turn'.pc = "done"
  BY <1>1, <1>3 DEF WriteState, Turn
<1>5. turn.snap.attempts \in Nat /\ Attempts \in Nat
  BY <1>3, DiskParts DEF Attempts
<1>6. /\ data \in Disk /\ data.workflow_state = turn.buf.workflow_state
      /\ data.session = turn.buf.session /\ data.attempts = Attempts
  BY <1>2, <1>3, <1>5 DEF AfterTurn, Disk
<1>7. Known(data.session)' /\ Approved(data.workflow_state)
  BY <1>1, <1>6 DEF EngineInv, SessionsFit, Known, OpenedIn, StatesApproved
<1>8. Uncounted' = 0 /\ Uncounted = IF turn.failed THEN 1 ELSE 0
  BY <1>4 DEF Uncounted
<1>9. failures' <= data.attempts + Uncounted' + restarts
  <2>1. failures <= turn.snap.attempts + Uncounted + restarts
    BY <1>4 DEF EngineInv, Budgeted, Counts, Active
  <2> QED
    BY <1>1, <1>3, <1>5, <1>6, <1>8, <2>1 DEF Attempts
<1>10. \A s \in Session \cup {Nothing} : Known(s) => Known(s)'
  BY <1>1 DEF Known, OpenedIn
<1>11. hermes' \in Seq(Conversation)
  BY <1>1 DEF EngineInv, EngineTypeOK
<1> QED
  BY <1>1, <1>2, <1>3, <1>4, <1>6, <1>7, <1>9, <1>10, <1>11, WriteKeeps, TurnPcs
     DEF Writing, Answered, Active

\* No step of a turn puts anything unsound into state.yaml.
LEMMA TurnStepKeeps ==
  ASSUME EngineInv, TurnStep, UNCHANGED <<accepted, restarts>>
  PROVE  EngineInv'
  BY MovesKeep, ReadStateKeeps, EarlyWritesKeep, DecideKeeps, HermesAnswersKeeps,
     TurnRaisesKeeps, WriteSessionKeeps, WriteAttemptsKeeps DEF TurnStep

-----------------------------------------------------------------------------
(* Approvals *)

\* advance() answers with a declared state or raises.
LEMMA AdvanceIsDeclared ==
  ASSUME NEW n \in States, NEW text
  PROVE  Advance(Graph, n, text) \in States \cup {Nothing}
<1>1. WellFormed(Graph, n) /\ Graph[n] \in StateSpec
  BY EngineAssumption DEF Validates, States
<1>2. Branches(Graph[n]) # {} /\ text \in Branches(Graph[n])
        => Graph[n].next_by_approval[text] \in Targets(Graph[n])
  BY DEF Targets, Branches
<1>3. Graph[n].next \in Targets(Graph[n]) \cup {Nothing}
  BY DEF Targets, PlainTargets
<1> QED
  BY <1>1, <1>2, <1>3 DEF WellFormed, Advance, States

\* A step that changes only the approval under way.
LEMMA ApprovalMoveKeeps ==
  ASSUME EngineInv, appr' \in Approval, granted' \in Seq(Grants),
         Approved(appr.next)',
         accepted' \in Seq([token : Token, to : States]),
         \A n : Approved(n) => Approved(n)',
         UNCHANGED <<disk, decisions, head, turn, turns, decided, hermes, failures, restarts>>
  PROVE  EngineInv'
<1>1. EngineTypeOK'
  BY DEF EngineInv, EngineTypeOK
<1>2. TurnBegan' /\ SessionsFit'
  BY DEF EngineInv, TurnBegan, TurnState, SessionsFit, Known, OpenedIn
<1>3. StatesApproved'
  BY DEF EngineInv, StatesApproved, Approved
<1>4. Budgeted'
  BY DEF EngineInv, Budgeted, Counts, InBudget, Uncounted
<1> QED
  BY <1>1, <1>2, <1>3, <1>4 DEF EngineInv

\* The write of an approval, over whatever a turn has written meanwhile: a
\* state a human approved, with no session and no failures.
LEMMA WriteApprovalKeeps ==
  ASSUME EngineInv, WriteApproval, UNCHANGED <<accepted, restarts>>
  PROVE  EngineInv'
<1>1. /\ appr.pc = "save_write" /\ disk' = AfterApproval /\ failures' = 0
      /\ appr' = [appr EXCEPT !.pc = "log", !.buf = NewProject]
      /\ UNCHANGED <<decisions, head, turn, turns, granted, decided, hermes>>
  BY DEF WriteApproval
<1>2. /\ appr \in Approval /\ appr.buf \in Disk /\ appr.snap \in Disk /\ appr.next \in States
      /\ turn \in Turn /\ turn.snap \in Disk /\ turn.buf \in Disk /\ restarts \in Nat
  BY DEF EngineInv, EngineTypeOK, Approval, Turn
<1>3. /\ disk' \in Disk /\ disk'.workflow_state = appr.next
      /\ disk'.session = Nothing /\ disk'.attempts = 0
  <2>1. appr.snap.artifact_revision + 1 \in Nat
    BY <1>2, DiskParts
  <2> QED
    BY <1>1, <1>2, <2>1 DEF AfterApproval, Disk
<1>4. appr' \in Approval /\ appr'.next = appr.next
  BY <1>1, <1>2, AtRest DEF Approval
<1>5. EngineTypeOK'
  BY <1>1, <1>3, <1>4 DEF EngineInv, EngineTypeOK
<1>6. TurnBegan' /\ SessionsFit'
  BY <1>1, <1>3 DEF EngineInv, TurnBegan, TurnState, SessionsFit, Known, OpenedIn
<1>7. StatesApproved'
  BY <1>1, <1>3, <1>4 DEF EngineInv, StatesApproved, Approved
<1>8. Budgeted'
  <2>1. Uncounted' \in Nat
    BY DEF Uncounted
  <2>2. /\ disk'.attempts \in Nat /\ turn'.snap.attempts \in Nat
        /\ turn'.buf.attempts \in Nat
    BY <1>1, <1>2, <1>3, DiskParts
  <2>3. Counts(disk)' /\ Counts(turn.snap)' /\ Counts(turn.buf)'
    BY <1>1, <1>2, <2>1, <2>2 DEF Counts
  <2>4. InBudget(disk)' /\ InBudget(turn.buf)'
    BY <1>1 DEF InBudget
  <2> QED
    BY <2>3, <2>4 DEF Budgeted
<1> QED
  BY <1>5, <1>6, <1>7, <1>8 DEF EngineInv

\* The other steps of an approval once it is validated.
LEMMA ApprovalStepKeeps ==
  ASSUME EngineInv, ApprovalStep, UNCHANGED <<accepted, restarts>>
  PROVE  EngineInv'
<1>1. appr \in Approval /\ disk \in Disk /\ granted \in Seq(Grants)
  BY DEF EngineInv, EngineTypeOK
<1>2. \A n : Approved(n) => Approved(n)'
  BY DEF Approved
<1>3. CASE ReadForApproval
  <2>1. appr' \in Approval /\ appr'.next = appr.next
    BY <1>1, <1>3 DEF ReadForApproval, Approval
  <2>2. Approved(appr.next)'
    BY <2>1 DEF EngineInv, StatesApproved, Approved
  <2> QED
    BY <1>1, <1>2, <1>3, <2>1, <2>2, ApprovalMoveKeeps DEF ReadForApproval, EngineInv
<1>4. CASE LogApproval
  <2>1. appr' \in Approval /\ appr'.next = appr.next
    BY <1>1, <1>4 DEF LogApproval, Approval
  <2>2. Approved(appr.next)'
    BY <2>1 DEF EngineInv, StatesApproved, Approved
  <2> DEFINE g == [from |-> appr.snap.workflow_state, text |-> appr.text, to |-> appr.next]
  <2>3. g \in Grants
    BY <1>1, DiskParts DEF Approval, Grants
  <2>4. granted' = Append(granted, g)
    BY <1>4 DEF LogApproval
  <2> HIDE DEF g
  <2>5. granted' \in Seq(Grants)
    BY <1>1, <2>3, <2>4
  <2> QED
    BY <1>1, <1>2, <1>4, <2>1, <2>2, <2>5, ApprovalMoveKeeps DEF LogApproval, EngineInv
<1> QED
  BY <1>3, <1>4, WriteApprovalKeeps DEF ApprovalStep

\* A commit in the source tree is not seen until it is asked for.
LEMMA EditSourceKeeps ==
  ASSUME EngineInv, EditSource, UNCHANGED <<accepted, restarts>>
  PROVE  EngineInv'
<1> USE DEF EngineInv, EditSource
<1>1. EngineTypeOK'
  BY DEF EngineTypeOK
<1>2. TurnBegan' /\ SessionsFit'
  BY DEF TurnBegan, TurnState, SessionsFit, Known, OpenedIn
<1>3. StatesApproved'
  BY DEF StatesApproved, Approved
<1>4. Budgeted'
  BY DEF Budgeted, Counts, InBudget, Uncounted
<1> QED
  BY <1>1, <1>2, <1>3, <1>4

-----------------------------------------------------------------------------
(* What the loop and the worker do to the engine *)

\* A turn is over or its process is gone; a failure it had not counted yet is
\* one restart's.
LEMMA TurnRests ==
  ASSUME EngineInv, turn' = IdleTurn, appr' \in {appr, IdleApproval},
         restarts' \in Nat, restarts' >= restarts + Uncounted,
         UNCHANGED <<disk, decisions, head, turns, granted, decided, hermes, failures,
                     accepted>>
  PROVE  EngineInv'
<1>1. EngineTypeOK'
  BY AtRest DEF EngineInv, EngineTypeOK
<1>2. TurnBegan' /\ SessionsFit'
  BY AtRest DEF EngineInv, TurnBegan, SessionsFit, Known, OpenedIn, Active, Answered
<1>3. StatesApproved'
  BY AtRest DEF EngineInv, StatesApproved, Approved
<1>4. Budgeted'
  <2>1. /\ disk \in Disk /\ failures \in Nat /\ restarts \in Nat /\ disk.attempts \in Nat
        /\ Graph[disk.workflow_state].max_attempts \in Int
    BY DiskParts DEF EngineInv, EngineTypeOK
  <2>2. Uncounted \in Nat /\ Uncounted' = 0 /\ turn'.pc \notin Active \cup Writing
    BY AtRest DEF Uncounted, Active, Writing
  <2>3. Counts(disk)' /\ InBudget(disk)'
    BY <2>1, <2>2 DEF EngineInv, Budgeted, Counts, InBudget
  <2> QED
    BY <2>2, <2>3 DEF Budgeted
<1> QED
  BY <1>1, <1>2, <1>3, <1>4 DEF EngineInv

\* The approval is over, or was refused.
LEMMA ApprovalRests ==
  ASSUME EngineInv, appr' = IdleApproval,
         UNCHANGED <<disk, decisions, head, turn, turns, granted, decided, hermes, failures,
                     accepted, restarts>>
  PROVE  EngineInv'
<1>1. \A n : Approved(n) => Approved(n)'
  BY DEF Approved
<1>2. Approved(appr.next)'
  BY AtRest DEF Approved
<1> QED
  BY <1>1, <1>2, AtRest, ApprovalMoveKeeps DEF EngineInv, EngineTypeOK

\* What a button stands for when its approval is applied.
LEMMA PayloadApplied ==
  ASSUME IInv, handler.pc = "apply"
  PROVE  /\ handler.payload \in ButtonPayload
         /\ handler.payload.token = handler.token /\ handler.token \in Token
         /\ handler.payload.type \in Text /\ handler.payload.revision \in Nat
  BY DEF IInv, TypeOK, TokensUsedUp, ButtonPayload

\* A click whose approval is validated is what makes a state an approved one.
LEMMA ApplyApprovalCases ==
  ASSUME IInv, ApplyApproval
  PROVE  /\ handler.pc = "apply" /\ handler' = [handler EXCEPT !.pc = "applied"]
         /\ appr' \in Approval
         /\ \/ accepted' = accepted /\ appr'.next = appr.next
            \/ /\ appr'.next \in States
               /\ accepted' = Append(accepted, [token |-> handler.token, to |-> appr'.next])
<1> DEFINE next == Applied(Graph, disk.workflow_state, disk.artifact_revision,
                           handler.payload.type, handler.payload.revision)
<1>1. /\ handler.pc = "apply" /\ handler' = [handler EXCEPT !.pc = "applied"]
      /\ appr' = IF next = Nothing THEN [appr EXCEPT !.pc = "rejected"]
                 ELSE [appr EXCEPT !.pc = "save", !.snap = disk,
                         !.text = handler.payload.type, !.next = next]
      /\ accepted' = IF appr'.pc = "rejected" THEN accepted
                     ELSE Append(accepted, [token |-> handler.token, to |-> appr'.next])
  BY DEF ApplyApproval, BeginApproval
<1>2. appr \in Approval /\ disk \in Disk
  BY DEF IInv, EngineInv, EngineTypeOK
<1>3. next \in States \cup {Nothing}
  BY <1>2, AdvanceIsDeclared, DiskParts DEF Applied
<1>4. handler.payload.type \in Text
  BY <1>1, PayloadApplied
<1> HIDE DEF next
<1>5. CASE next = Nothing
  BY <1>1, <1>2, <1>5 DEF Approval
<1>6. CASE next # Nothing
  <2>1. next \in States
    BY <1>3, <1>6
  <2>2. appr' \in Approval /\ appr'.pc = "save" /\ appr'.next = next
    BY <1>1, <1>2, <1>4, <1>6, <2>1 DEF Approval
  <2> QED
    BY <1>1, <2>1, <2>2
<1> QED
  BY <1>5, <1>6

\* The approvals so far, with one more.
LEMMA AcceptedGrows ==
  ASSUME IInv, ApplyApproval
  PROVE  /\ accepted' \in Seq([token : Token, to : States])
         /\ \A n : Approved(n) => Approved(n)'
         /\ Approved(appr.next)'
<1>1. accepted \in Seq([token : Token, to : States]) /\ Approved(appr.next)
  BY DEF IInv, EngineInv, StatesApproved
<1>2. CASE accepted' = accepted /\ appr'.next = appr.next
  BY <1>1, <1>2 DEF Approved
<1>3. CASE /\ appr'.next \in States
           /\ accepted' = Append(accepted, [token |-> handler.token, to |-> appr'.next])
  <2>1. PICK a \in [token : Token, to : States] :
          a = [token |-> handler.token, to |-> appr'.next] /\ a.to = appr'.next
    BY <1>3, ApplyApprovalCases, PayloadApplied
  <2>2. /\ accepted' \in Seq([token : Token, to : States])
        /\ DOMAIN accepted \subseteq DOMAIN accepted'
        /\ \A i \in DOMAIN accepted : accepted'[i] = accepted[i]
        /\ Len(accepted) + 1 \in DOMAIN accepted' /\ accepted'[Len(accepted) + 1] = a
    BY <1>1, <1>3, <2>1
  <2> QED
    BY <2>1, <2>2 DEF Approved
<1> QED
  BY <1>2, <1>3, ApplyApprovalCases

\* Every step keeps the engine's part of the invariant.
LEMMA EngineKeeps ==
  ASSUME IInv, Next
  PROVE  EngineInv'
<1>0. EngineInv
  BY DEF IInv
<1>1. CASE UNCHANGED <<engineVars, accepted, restarts>>
  <2> USE <1>1 DEF engineVars
  <2>1. EngineTypeOK' /\ TurnBegan' /\ SessionsFit'
    BY <1>0 DEF EngineInv, EngineTypeOK, TurnBegan, TurnState, SessionsFit, Known, OpenedIn
  <2>2. StatesApproved' /\ Budgeted'
    BY <1>0 DEF EngineInv, StatesApproved, Approved, Budgeted, Counts, InBudget, Uncounted
  <2> QED
    BY <1>0, <2>1, <2>2 DEF EngineInv
<1>2. CASE \/ HandleMessage \/ HandleClick \/ PopToken \/ EditKeyboard \/ ReplyExpired
           \/ JobRaises \/ SendAnswer \/ SendFails \/ Apologise \/ Human
  <2>1. UNCHANGED <<engineVars, accepted, restarts>>
    BY <1>2 DEF HandleMessage, HandleClick, PopToken, EditKeyboard, ReplyExpired, JobRaises,
                SendAnswer, SendFails, Apologise, Human, SendMessage, Click
  <2> QED
    BY <1>1, <2>1
<1>3. CASE ApplyApproval
  BY <1>0, <1>3, ApplyApprovalCases, AcceptedGrows, ApprovalMoveKeeps
     DEF ApplyApproval, BeginApproval, EngineInv, EngineTypeOK
<1>4. CASE ReplyRejected \/ ReplyApproved \/ HandlerRaises
  BY <1>0, <1>4, ApprovalRests DEF ReplyRejected, ReplyApproved, HandlerRaises
<1>5. CASE TakeJob
  BY <1>0, <1>5, BeginTurnKeeps DEF TakeJob
<1>6. CASE TurnDone \/ TurnEndedOtherwise
  <2>1. Uncounted = 0 /\ restarts \in Nat
    BY <1>0, <1>6 DEF TurnDone, TurnEndedOtherwise, Uncounted, EngineInv
  <2> QED
    BY <1>0, <1>6, <2>1, TurnRests DEF TurnDone, TurnEndedOtherwise
<1>7. CASE BotRestarts
  <2>1. Uncounted \in 0..1 /\ restarts \in Nat
    BY <1>0 DEF Uncounted, EngineInv
  <2> QED
    BY <1>0, <1>7, <2>1, TurnRests DEF BotRestarts
<1>8. CASE (TurnStep \/ ApprovalStep \/ EditSource) /\ UNCHANGED botVars
  BY <1>0, <1>8, TurnStepKeeps, ApprovalStepKeeps, EditSourceKeeps DEF botVars
<1> QED
  BY <1>2, <1>3, <1>4, <1>5, <1>6, <1>7, <1>8 DEF Next, Loop, Worker

-----------------------------------------------------------------------------
(* Buttons *)

\* The types under an answer are finitely many, of those declared, and come
\* in some order.
LEMMA OfferedTypes ==
  ASSUME NEW d \in Disk
  PROVE  /\ Offered(d) \subseteq ApprovalType
         /\ Cardinality(Offered(d)) \in Nat
         /\ SetToSeq(Offered(d)) \in [1..Cardinality(Offered(d)) -> Offered(d)]
<1> DEFINE S == Offered(d)
           N == Cardinality(S)
<1>1. S \subseteq ApprovalType
  BY DiskParts DEF Offered, Valid, Branches, StateSpec
<1> HIDE DEF S
<1>2. IsFiniteSet(S)
  <2>1. IsFiniteSet(ApprovalType)
    BY BotAssumption
  <2> QED
    BY <1>1, <2>1, FS_Subset
<1>3. N \in Nat /\ ExistsBijection(1..N, S)
  BY <1>2, FS_CardinalityType
<1>4. \E f \in [1..N -> S] : IsInjective(f)
  <2>1. PICK f \in Bijection(1..N, S) : TRUE
    BY <1>3 DEF ExistsBijection
  <2>2. f \in [1..N -> S] /\ \A a, b \in 1..N : f[a] = f[b] => a = b
    BY <2>1 DEF Bijection, Injection, IsInjective
  <2> QED
    BY <2>2 DEF IsInjective
<1>5. SetToSeq(S) \in [1..N -> S]
  BY <1>4 DEF SetToSeq
<1> QED
  BY <1>1, <1>3, <1>5 DEF S

\* The tokens of an answer are new ones, each drawn for one type.
LEMMA TokensDrawn ==
  ASSUME IInv, TurnDone
  PROVE  /\ minted' \in Nat /\ minted' >= minted
         /\ \A p \in table' \ table : /\ p \in ButtonPayload
                                     /\ p.token > minted /\ p.token <= minted'
         /\ \A p, q \in table' \ table : p.token = q.token => p = q
         /\ worker'.pc = "send" /\ worker' \in [pc : {"send"}, tokens : SUBSET Token, state : States]
         /\ table \subseteq table'
<1> DEFINE types == SetToSeq(Offered(disk))
           drawn == {minted + i : i \in DOMAIN types}
           N == Cardinality(Offered(disk))
<1>1. disk \in Disk /\ minted \in Nat /\ turn \in Turn /\ disk.artifact_revision \in Nat
  BY DiskParts DEF IInv, EngineInv, TypeOK, EngineTypeOK
<1>2. N \in Nat /\ types \in [1..N -> ApprovalType] /\ minted' = minted + N
  BY <1>1, OfferedTypes DEF TurnDone
<1>3. /\ table' = table \cup {[token |-> t, type |-> types[t - minted],
                             revision |-> disk.artifact_revision] : t \in drawn}
      /\ worker' = [pc |-> "send", tokens |-> drawn, state |-> turn.snap.workflow_state]
  BY DEF TurnDone
<1> HIDE DEF types, N
<1>4. \A t \in drawn : /\ t \in Token /\ t > minted /\ t <= minted + N
                      /\ t - minted \in 1..N /\ types[t - minted] \in ApprovalType
  <2> SUFFICES ASSUME NEW i \in 1..N
               PROVE  /\ minted + i \in Token /\ minted + i > minted
                      /\ minted + i <= minted + N /\ (minted + i) - minted = i
    BY <1>2
  <2> QED
    BY <1>1, <1>2 DEF Token
<1> HIDE DEF drawn
<1>5. \A p \in table' \ table : p.token \in drawn /\
        p = [token |-> p.token, type |-> types[p.token - minted],
             revision |-> disk.artifact_revision]
  BY <1>3
<1>6. \A p \in table' \ table : /\ p \in ButtonPayload
                                /\ p.token > minted /\ p.token <= minted'
  BY <1>1, <1>2, <1>4, <1>5 DEF ButtonPayload
<1>7. \A p, q \in table' \ table : p.token = q.token => p = q
  BY <1>5
<1>8. worker' \in [pc : {"send"}, tokens : SUBSET Token, state : States]
  <2>1. turn.snap.workflow_state \in States
    BY <1>1, DiskParts DEF Turn
  <2> QED
    BY <1>3, <1>4, <2>1
<1>9. minted' \in Nat /\ minted' >= minted
  BY <1>1, <1>2
<1> QED
  BY <1>3, <1>6, <1>7, <1>8, <1>9

\* Neither a grant nor a button: tokens stay as used, and as unused, as they
\* were, and a handler past the table has found its button there before.
LEMMA TokensStay ==
  ASSUME IInv, UNCHANGED <<minted, accepted>>, table' \subseteq table,
         \/ handler' = handler
         \/ handler'.pc \notin {"edit", "apply"}
         \/ /\ handler.pc = "edit" /\ handler.payload # Nothing
            /\ handler' = [handler EXCEPT !.pc = "apply"]
  PROVE  TokensUsedUp' /\ GrantedOnce'
<1>1. GrantedOnce'
  BY DEF IInv, GrantedOnce
<1>2. CASE handler' = handler \/ handler'.pc \notin {"edit", "apply"}
  BY <1>1, <1>2 DEF IInv, TokensUsedUp
<1>3. CASE /\ handler.pc = "edit" /\ handler.payload # Nothing
           /\ handler' = [handler EXCEPT !.pc = "apply"]
  <2>1. handler'.pc = "apply" /\ handler'.payload = handler.payload /\ handler'.token = handler.token
    BY <1>3 DEF IInv, TypeOK
  <2> QED
    BY <1>1, <1>3, <2>1 DEF IInv, TokensUsedUp
<1> QED
  BY <1>2, <1>3

\* Looking a token up takes it out of the table, before the next await.
LEMMA PopTokenKeeps ==
  ASSUME IInv, PopToken
  PROVE  TokensUsedUp' /\ GrantedOnce' /\ table' \subseteq table
         /\ handler' \in [pc : {"edit"}, token : Nat, payload : ButtonPayload \cup {Nothing}]
<1> DEFINE found == Payload(handler.token)
<1>1. /\ handler' = [handler EXCEPT !.pc = "edit", !.payload = found]
      /\ table' = table \ {found} /\ UNCHANGED <<minted, accepted>>
  BY DEF PopToken
<1>2. /\ table \subseteq ButtonPayload
      /\ handler.token \in Nat /\ handler \in [pc : {"idle", "answer", "edit", "expired", "apply", "applied"},
                   token : Nat, payload : ButtonPayload \cup {Nothing}]
  BY DEF IInv, TypeOK
<1>3. found # Nothing => found \in table /\ found.token = handler.token
  BY DEF Payload
<1>4. found \in ButtonPayload \cup {Nothing}
  BY <1>2, <1>3
<1> HIDE DEF found
<1>5. /\ handler'.pc = "edit" /\ handler'.payload = found /\ handler'.token = handler.token
      /\ handler' \in [pc : {"edit"}, token : Nat, payload : ButtonPayload \cup {Nothing}]
  BY <1>1, <1>2, <1>4
<1>6. GrantedOnce'
  BY <1>1 DEF IInv, GrantedOnce
<1>7. TokensUsedUp'
  <2>1. found # Nothing => \A p \in table' : p.token # handler.token
    BY <1>1, <1>3 DEF IInv, TokensUsedUp
  <2>2. found # Nothing => /\ handler.token <= minted
                           /\ \A i \in DOMAIN accepted : accepted[i].token # handler.token
    BY <1>3 DEF IInv, TokensUsedUp
  <2> QED
    BY <1>1, <1>3, <1>5, <2>1, <2>2 DEF IInv, TokensUsedUp
<1> QED
  BY <1>1, <1>5, <1>6, <1>7

\* The one grant of a token.
LEMMA ApplyApprovalKeeps ==
  ASSUME IInv, ApplyApproval
  PROVE  TokensUsedUp' /\ GrantedOnce'
<1>1. /\ handler'.pc = "applied" /\ UNCHANGED <<minted, table>>
      /\ accepted \in Seq([token : Token, to : States])
  BY ApplyApprovalCases DEF ApplyApproval, IInv, TypeOK
<1>2. CASE accepted' = accepted
  BY <1>1, <1>2, TokensStay
<1>3. CASE accepted' = Append(accepted, [token |-> handler.token, to |-> appr'.next])
  <2> DEFINE n == Len(accepted) + 1
  <2>1. /\ DOMAIN accepted = 1..Len(accepted) /\ Len(accepted) \in Nat
        /\ DOMAIN accepted' = 1..n /\ accepted'[n].token = handler.token
        /\ \A i \in 1..Len(accepted) : accepted'[i] = accepted[i]
    BY <1>1, <1>3
  <2>2. /\ handler.token <= minted
        /\ \A p \in table : p.token # handler.token
        /\ \A i \in DOMAIN accepted : accepted[i].token # handler.token
    BY ApplyApprovalCases DEF IInv, TokensUsedUp
  <2>3. \A i \in DOMAIN accepted' : i \in DOMAIN accepted \/ i = n
    BY <2>1
  <2>4. GrantedOnce'
    BY <2>1, <2>2, <2>3 DEF IInv, GrantedOnce
  <2>5. TokensUsedUp'
    BY <1>1, <2>1, <2>2, <2>3 DEF IInv, TokensUsedUp
  <2> QED
    BY <2>4, <2>5
<1> QED
  BY <1>2, <1>3, ApplyApprovalCases

\* The elements of a sequence over a set.
LEMMA ElementType ==
  ASSUME NEW S, NEW s \in Seq(S), NEW i \in DOMAIN s
  PROVE  s[i] \in S
BY ONLY s \in Seq(S), i \in DOMAIN s

\* New tokens are larger than any that was ever used.
LEMMA TurnDoneKeeps ==
  ASSUME IInv, TurnDone
  PROVE  TokensUsedUp' /\ GrantedOnce'
<1>1. UNCHANGED <<handler, accepted>> /\ minted \in Nat
  BY DEF TurnDone, IInv, TypeOK
<1>2. GrantedOnce'
  BY <1>1 DEF IInv, GrantedOnce
<1>3. \A p \in table : p.token \in Nat /\ p.token <= minted
  BY DEF IInv, TypeOK, TokensUsedUp, ButtonPayload, Token
<1>4. \A p \in table' \ table : p.token \in Nat /\ p.token > minted /\ p.token <= minted'
  BY TokensDrawn DEF ButtonPayload, Token
<1>5. \A i \in DOMAIN accepted : accepted[i].token \in Nat /\ accepted[i].token <= minted
  <2> TAKE i \in DOMAIN accepted
  <2>1. accepted \in Seq([token : Token, to : States])
    BY DEF IInv, TypeOK
  <2>2. accepted[i] \in [token : Token, to : States]
    BY <2>1, ElementType
  <2>3. accepted[i].token <= minted
    BY DEF IInv, TokensUsedUp
  <2> QED
    BY <2>2, <2>3 DEF Token
<1>6. handler.token \in Nat /\ minted' \in Nat /\ minted' >= minted
  BY TokensDrawn DEF IInv, TypeOK
<1>7. \A p, q \in table' : p.token = q.token => p = q
  <2> TAKE p, q \in table'
  <2> HAVE p.token = q.token
  <2>1. CASE p \in table /\ q \in table
    BY <2>1 DEF IInv, TokensUsedUp
  <2>2. CASE p \notin table /\ q \notin table
    BY <2>2, TokensDrawn
  <2>3. CASE p \in table /\ q \notin table
    BY <1>1, <1>3, <1>4, <2>3
  <2>4. CASE p \notin table /\ q \in table
    BY <1>1, <1>3, <1>4, <2>4
  <2> QED
    BY <2>1, <2>2, <2>3, <2>4
<1>8. TokensUsedUp'
  <2>1. \A p \in table' : p.token <= minted'
    BY <1>1, <1>3, <1>4, <1>6
  <2>2. \A i \in DOMAIN accepted' : accepted'[i].token <= minted'
    BY <1>1, <1>5, <1>6
  <2>3. \A p \in table', i \in DOMAIN accepted' : accepted'[i].token # p.token
    BY <1>1, <1>4, <1>5 DEF IInv, TokensUsedUp
  <2>4. handler.pc \in {"edit", "apply"} /\ handler.payload # Nothing =>
          /\ handler.payload.token = handler.token
          /\ handler.token <= minted'
          /\ \A p \in table' : p.token # handler.token
          /\ \A i \in DOMAIN accepted : accepted[i].token # handler.token
    BY <1>1, <1>4, <1>6 DEF IInv, TokensUsedUp
  <2> QED
    BY <1>1, <1>7, <2>1, <2>2, <2>3, <2>4 DEF IInv, TokensUsedUp
<1> QED
  BY <1>2, <1>8

\* However updates, answers and restarts come in between.
LEMMA TokensKeep ==
  ASSUME IInv, Next
  PROVE  TokensUsedUp' /\ GrantedOnce'
<1>1. CASE UNCHANGED <<table, minted, handler, accepted>>
  BY <1>1, TokensStay
<1>2. CASE \/ HandleMessage \/ TakeJob \/ JobRaises \/ TurnEndedOtherwise \/ SendAnswer
           \/ SendFails \/ Apologise \/ Human
           \/ (ApprovalStep \/ TurnStep \/ EditSource) /\ UNCHANGED botVars
  <2>1. UNCHANGED <<table, minted, handler, accepted>>
    BY <1>2 DEF HandleMessage, TakeJob, JobRaises, TurnEndedOtherwise, SendAnswer, SendFails,
                Apologise, Human, SendMessage, Click, botVars
  <2> QED
    BY <1>1, <2>1
<1>3. CASE \/ HandleClick \/ ReplyExpired \/ ReplyRejected \/ ReplyApproved \/ HandlerRaises
           \/ BotRestarts
  <2>1. UNCHANGED <<minted, accepted>> /\ table' \subseteq table
    BY <1>3 DEF HandleClick, ReplyExpired, ReplyRejected, ReplyApproved, HandlerRaises,
                BotRestarts
  <2>2. \/ \E t : handler' = [IdleHandler EXCEPT !.pc = "answer", !.token = t]
        \/ handler' = IdleHandler
    BY <1>3 DEF HandleClick, ReplyExpired, ReplyRejected, ReplyApproved, HandlerRaises,
                BotRestarts
  <2>3. handler'.pc \notin {"edit", "apply"}
    <3>1. CASE handler' = IdleHandler
      BY <3>1 DEF IdleHandler
    <3>2. ASSUME NEW t, handler' = [IdleHandler EXCEPT !.pc = "answer", !.token = t]
          PROVE  handler'.pc = "answer"
      BY <3>2 DEF IdleHandler
    <3> QED
      BY <2>2, <3>1, <3>2
  <2> QED
    BY <2>1, <2>3, TokensStay
<1>4. CASE EditKeyboard
  <2>1. /\ UNCHANGED <<minted, accepted, table>> /\ handler.pc = "edit"
        /\ handler' = [handler EXCEPT !.pc = IF handler.payload = Nothing THEN "expired"
                                             ELSE "apply"]
    BY <1>4 DEF EditKeyboard
  <2>2. handler'.pc = IF handler.payload = Nothing THEN "expired" ELSE "apply"
    BY <2>1 DEF IInv, TypeOK
  <2> QED
    BY <2>1, <2>2, TokensStay
<1> QED
  BY <1>2, <1>3, <1>4, PopTokenKeeps, ApplyApprovalKeeps, TurnDoneKeeps DEF Next, Loop, Worker

-----------------------------------------------------------------------------
(* The loop's and the worker's own types *)

\* TypeOK without the engine's part and the history.
LoopTypeOK ==
  /\ updates \in Seq(Token \cup {Nothing})
  /\ inbox \in Nat
  /\ worker \in [pc : {"waiting", "running", "send", "apologise"},
                  tokens : SUBSET Token, state : States]
  /\ handler \in [pc : {"idle", "answer", "edit", "expired", "apply", "applied"},
                   token : Nat, payload : ButtonPayload \cup {Nothing}]
  /\ table \subseteq ButtonPayload
  /\ minted \in Nat
  /\ chat \subseteq [tokens : SUBSET Token, state : States]
  /\ restarts \in 0..MaxRestarts

\* At rest, the worker and the handler have their types.
LEMMA LoopAtRest ==
  /\ IdleWorker \in [pc : {"waiting"}, tokens : SUBSET Token, state : States]
  /\ IdleHandler \in [pc : {"idle"}, token : {0}, payload : {Nothing}]
<1>1. Initial \in States
  BY EngineAssumption DEF Validates, States
<1> QED
  BY <1>1 DEF IdleWorker, IdleHandler

\* What the human sends.
LEMMA HumanTypes ==
  ASSUME IInv, Human
  PROVE  LoopTypeOK'
<1>1. \E u \in Token \cup {Nothing} : updates' = Append(updates, u)
  BY DEF Human, SendMessage, Click, Token, IInv, TypeOK
<1>2. UNCHANGED <<inbox, worker, handler, table, minted, chat, restarts>>
  BY DEF Human, SendMessage, Click
<1>3. updates' \in Seq(Token \cup {Nothing})
  BY <1>1 DEF IInv, TypeOK
<1> QED
  BY <1>2, <1>3 DEF IInv, TypeOK, LoopTypeOK

\* What the loop does with it.
LEMMA LoopTypes ==
  ASSUME IInv, Loop
  PROVE  LoopTypeOK'
<1> USE DEF IInv, TypeOK, LoopTypeOK
<1>1. CASE HandleMessage \/ HandleClick
  <2>0. updates \in Seq(Token \cup {Nothing}) /\ updates # <<>> /\ updates' = Tail(updates)
    BY <1>1 DEF HandleMessage, HandleClick, NextUpdate
  <2>1. /\ updates' \in Seq(Token \cup {Nothing})
        /\ Head(updates) # Nothing => Head(updates) \in Token
    BY ONLY <2>0
  <2>2. handler' \in [pc : {"idle", "answer", "edit", "expired", "apply", "applied"},
                     token : Nat, payload : ButtonPayload \cup {Nothing}]
    BY <1>1, <2>1, LoopAtRest DEF HandleMessage, HandleClick, IdleHandler, Token
  <2> QED
    BY <1>1, <2>1, <2>2 DEF HandleMessage, HandleClick
<1>2. CASE PopToken
  BY <1>2, PopTokenKeeps DEF PopToken
<1>3. CASE EditKeyboard
  <2>1. handler' \in [pc : {"expired", "apply"}, token : Nat,
                     payload : ButtonPayload \cup {Nothing}]
    BY <1>3 DEF EditKeyboard
  <2> QED
    BY <1>3, <2>1 DEF EditKeyboard
<1>4. CASE ApplyApproval
  BY <1>4, ApplyApprovalCases DEF ApplyApproval
<1>5. CASE ReplyExpired \/ ReplyRejected \/ ReplyApproved \/ HandlerRaises
  <2>1. handler' = IdleHandler /\ inbox' \in Nat
    BY <1>5 DEF ReplyExpired, ReplyRejected, ReplyApproved, HandlerRaises
  <2> QED
    BY <1>5, <2>1, LoopAtRest DEF ReplyExpired, ReplyRejected, ReplyApproved, HandlerRaises
<1>6. CASE ApprovalStep /\ UNCHANGED botVars
  BY <1>6 DEF botVars
<1> QED
  BY <1>1, <1>2, <1>3, <1>4, <1>5, <1>6 DEF Loop

\* What the worker does.
LEMMA WorkerTypes ==
  ASSUME IInv, Worker
  PROVE  LoopTypeOK'
<1> USE DEF IInv, TypeOK, LoopTypeOK
<1>1. CASE TakeJob \/ JobRaises
  <2>1. worker' \in [pc : {"running", "apologise"}, tokens : SUBSET Token, state : States]
    BY <1>1 DEF TakeJob, JobRaises
  <2>2. inbox' \in Nat
    BY <1>1 DEF TakeJob, JobRaises
  <2> QED
    BY <1>1, <2>1, <2>2 DEF TakeJob, JobRaises
<1>2. CASE TurnDone
  BY <1>2, TokensDrawn DEF TurnDone
<1>3. CASE TurnEndedOtherwise
  <2>1. turn.snap.workflow_state \in States
    BY DiskParts DEF EngineTypeOK, Turn
  <2>2. worker' \in [pc : {"send", "apologise"}, tokens : SUBSET Token, state : States]
    BY <1>3, <2>1 DEF TurnEndedOtherwise
  <2> QED
    BY <1>3, <2>2 DEF TurnEndedOtherwise
<1>4. CASE SendAnswer \/ SendFails \/ Apologise
  <2>1. worker' \in [pc : {"waiting", "apologise"}, tokens : SUBSET Token, state : States]
    BY <1>4, LoopAtRest DEF SendAnswer, SendFails, Apologise
  <2>2. chat' \subseteq [tokens : SUBSET Token, state : States]
    BY <1>4 DEF SendAnswer, SendFails, Apologise
  <2> QED
    BY <1>4, <2>1, <2>2 DEF SendAnswer, SendFails, Apologise
<1> QED
  BY <1>1, <1>2, <1>3, <1>4 DEF Worker

\* Every step keeps the types.
LEMMA TypesKeep ==
  ASSUME IInv, Next
  PROVE  TypeOK'
<1>1. CASE BotRestarts
  <2>1. /\ updates' \in {updates, <<>>} /\ inbox' = 0 /\ worker' = IdleWorker
        /\ handler' = IdleHandler /\ table' = {} /\ UNCHANGED <<minted, chat>>
        /\ restarts' = restarts + 1 /\ restarts < MaxRestarts
    BY <1>1 DEF BotRestarts
  <2>3. updates' \in Seq(Token \cup {Nothing}) /\ inbox' \in Nat
    <3>1. updates \in Seq(Token \cup {Nothing})
      BY DEF IInv, TypeOK
    <3>2. <<>> \in Seq(Token \cup {Nothing})
      OBVIOUS
    <3> QED
      BY <2>1, <3>1, <3>2
  <2>4. /\ worker' \in [pc : {"waiting", "running", "send", "apologise"},
                         tokens : SUBSET Token, state : States]
        /\ handler' \in [pc : {"idle", "answer", "edit", "expired", "apply", "applied"},
                          token : Nat, payload : ButtonPayload \cup {Nothing}]
    BY <2>1, LoopAtRest
  <2>5. restarts' \in 0..MaxRestarts
    BY <2>1, BotAssumption DEF IInv, TypeOK
  <2>2. LoopTypeOK'
    BY <2>1, <2>3, <2>4, <2>5 DEF IInv, TypeOK, LoopTypeOK
  <2> QED
    BY <2>2, EngineKeeps DEF TypeOK, LoopTypeOK, EngineInv
<1>2. CASE (TurnStep \/ EditSource) /\ UNCHANGED botVars
  <2>1. LoopTypeOK'
    BY <1>2 DEF IInv, TypeOK, LoopTypeOK, botVars
  <2> QED
    BY <2>1, EngineKeeps DEF TypeOK, LoopTypeOK, EngineInv
<1>3. CASE Human \/ Loop \/ Worker
  BY <1>3, HumanTypes, LoopTypes, WorkerTypes, EngineKeeps DEF TypeOK, LoopTypeOK, EngineInv
<1> QED
  BY <1>1, <1>2, <1>3 DEF Next

-----------------------------------------------------------------------------
(* Theorems *)

\* A bot that has just been started, with one new project.
LEMMA InitIInv == Init => IInv
<1> SUFFICES ASSUME Init PROVE IInv
  OBVIOUS
<1>1. EngineInv
  BY EngineBegins DEF Init
<1>2. LoopTypeOK
  BY LoopAtRest, BotAssumption DEF Init, LoopTypeOK
<1>3. TokensUsedUp /\ GrantedOnce
  BY LoopAtRest DEF Init, TokensUsedUp, GrantedOnce
<1> QED
  BY <1>1, <1>2, <1>3 DEF IInv, TypeOK, LoopTypeOK, EngineInv

\* Every step keeps the invariant.
LEMMA StepKeeps == IInv /\ [Next]_vars => IInv'
<1> SUFFICES ASSUME IInv, [Next]_vars PROVE IInv'
  OBVIOUS
<1>1. CASE Next
  BY <1>1, EngineKeeps, TokensKeep, TypesKeep DEF IInv
<1>2. CASE UNCHANGED vars
  <2> USE <1>2 DEF IInv, vars, engineVars, botVars
  <2>1. TypeOK' /\ GrantedOnce' /\ TokensUsedUp'
    BY DEF TypeOK, EngineTypeOK, GrantedOnce, TokensUsedUp
  <2>2. TurnBegan' /\ SessionsFit'
    BY DEF EngineInv, TurnBegan, TurnState, SessionsFit, Known, OpenedIn
  <2>3. StatesApproved' /\ Budgeted'
    BY DEF EngineInv, StatesApproved, Approved, Budgeted, Counts, InBudget, Uncounted
  <2> QED
    BY <2>1, <2>2, <2>3 DEF EngineInv, TypeOK
<1> QED
  BY <1>1, <1>2

\* The inductive invariant: whatever state.yaml, a buffer or a first read
\* holds is sound by itself, current or not.
THEOREM Invariance == Spec => []IInv
  BY InitIInv, StepKeeps, PTL DEF Spec

\* Every variable keeps its type, whichever update of state.yaml is lost.
THEOREM TypeCorrect == Spec => []TypeOK
<1>1. IInv => TypeOK
  BY DEF IInv
<1> QED
  BY <1>1, Invariance, PTL

\* A project of the bot is in its initial state, in one a human approved, or
\* blocked, however run_turn and apply_approval overlap.
THEOREM OnlyApprovedStatesHolds == Spec => []OnlyApprovedStates
<1>1. IInv => OnlyApprovedStates
  BY DEF IInv, EngineInv, StatesApproved, Approved, OnlyApprovedStates
<1> QED
  BY <1>1, Invariance, PTL

\* handle_approve_callback grants at most once for a button.
THEOREM GrantedOnceHolds == Spec => []GrantedOnce
<1>1. IInv => GrantedOnce
  BY DEF IInv
<1> QED
  BY <1>1, Invariance, PTL

\* A resumed Hermes conversation is one of the turn's own state and artifact
\* revision (SessionManager.decide).
THEOREM ResumeFitsHolds == Spec => []ResumeFits
<1>1. IInv => ResumeFits
  <2> SUFFICES ASSUME IInv, turn.pc = "invoke", turn.resume, turn.snap.session.id # Unknown
               PROVE  /\ hermes[turn.snap.session.id].state = turn.snap.workflow_state
                      /\ hermes[turn.snap.session.id].revision = turn.snap.artifact_revision
    BY DEF ResumeFits
  <2> QED
    BY DEF IInv, EngineInv, TurnBegan, SessionsFit, Known, OpenedIn
<1> QED
  BY <1>1, Invariance, PTL

\* max_attempts bounds the failed turns of a stay, up to one per restart.
THEOREM RetryBudgetHolds == Spec => []RetryBudget
<1>1. IInv => RetryBudget
  BY DEF IInv, EngineInv, Budgeted, InBudget, RetryBudget
<1> QED
  BY <1>1, Invariance, PTL
=============================================================================
