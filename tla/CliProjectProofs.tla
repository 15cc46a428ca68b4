-------------------------- MODULE CliProjectProofs --------------------------
(***************************************************************************)
(* Theorems of CliProject, for every workflow definition that loads.       *)
(***************************************************************************)
EXTENDS CliProject, FiniteSetTheorems, SequenceTheorems, TLAPS

USE WorkflowAssumption, ApprovalsAssumption, SessionsAssumption

\* advance() answers with a declared state or raises: _validate() saw every
\* target and found a successor for every state that can be left.
LEMMA AdvanceIsDeclared ==
  ASSUME NEW n \in States, NEW text
  PROVE  Advance(Graph, n, text) \in States \cup {Nothing}
<1>1. WellFormed(Graph, n)
  BY EngineAssumption DEF Validates, States
<1>2. Graph[n] \in StateSpec
  BY EngineAssumption DEF States
<1>3. Branches(Graph[n]) # {} /\ text \in Branches(Graph[n])
        => Graph[n].next_by_approval[text] \in Targets(Graph[n])
  BY DEF Targets, Branches
<1>4. Graph[n].next \in Targets(Graph[n]) \cup {Nothing}
  BY DEF Targets, PlainTargets
<1> QED
  BY <1>1, <1>3, <1>4 DEF WellFormed, Advance, States

\* A state that runs an agent names its role.
LEMMA AgentHasRole ==
  ASSUME NEW n \in States, RunsAgent(Graph[n])
  PROVE  Graph[n].role \in Role
<1>1. WellFormed(Graph, n)
  BY EngineAssumption DEF Validates, States
<1>2. Graph[n] \in StateSpec
  BY EngineAssumption DEF States
<1> QED
  BY <1>1, <1>2 DEF WellFormed, RunsAgent, StateSpec

\* The program counters of an update_state, without the function.
LEMMA Updates ==
  /\ DOMAIN ReadThenWrite = {"block", "base", "index", "session", "attempts"}
  /\ ReadThenWrite["block"] = "block_write"
  /\ ReadThenWrite["base"] = "base_write"
  /\ ReadThenWrite["index"] = "index_write"
  /\ ReadThenWrite["session"] = "session_write"
  /\ ReadThenWrite["attempts"] = "attempts_write"
  BY DEF ReadThenWrite

\* A turn's program counter, spelled out.
LEMMA TurnPcs ==
  TurnPc = {"block", "base", "index", "session", "attempts",
            "block_write", "base_write", "index_write", "session_write",
            "attempts_write", "idle", "ensure_base", "decide", "invoke",
            "record", "finish", "done", "refused", "raised"}
<1>1. {ReadThenWrite[p] : p \in DOMAIN ReadThenWrite} =
        {"block_write", "base_write", "index_write", "session_write", "attempts_write"}
  BY Updates
<1> QED
  BY <1>1, Updates DEF TurnPc

\* A new project satisfies the inductive invariant.
THEOREM InitIInv == Init => IInv
<1> SUFFICES ASSUME Init PROVE IInv
  OBVIOUS
<1> USE DEF Init, EngineInit
<1>1. NewProject \in Disk
  BY EngineAssumption DEF NewProject, Disk, States, Validates
<1>2. TypeOK
  BY <1>1, TurnPcs, EngineAssumption
     DEF TypeOK, EngineTypeOK, IdleTurn, IdleApproval, IndexRevision, SessionId,
         States, Validates, Turn, Approval
<1>3. OneAtATime /\ ApprovalIsCurrent
  BY DEF OneAtATime, ApprovalIsCurrent, IdleApproval, IdleTurn
<1>4. TurnIsCurrent
  BY Updates DEF TurnIsCurrent, IdleTurn, Ended
<1>5. CountIsTrue /\ WithinBudget
  BY DEF CountIsTrue, WithinBudget, Uncounted, IdleTurn, NewProject
<1> QED
  BY <1>2, <1>3, <1>4, <1>5 DEF IInv

-----------------------------------------------------------------------------
(* Every action keeps IInv *)

\* The first read is the state.yaml of now: nobody else is writing it.
LEMMA BeginTurnKeeps ==
  ASSUME IInv, BeginTurn, appr.pc \in {"idle", "granted"}, UNCHANGED crashes
  PROVE  IInv'
<1> USE DEF IInv, BeginTurn
<1>1. TypeOK'
  <2>1. turn' \in Turn
    BY TurnPcs DEF TypeOK, EngineTypeOK, Turn
  <2> QED
    BY <2>1 DEF TypeOK, EngineTypeOK
<1>2. OneAtATime' /\ ApprovalIsCurrent'
  BY DEF OneAtATime, ApprovalIsCurrent
<1>3. TurnIsCurrent'
  BY Updates DEF TypeOK, EngineTypeOK, Turn, Approval, TurnIsCurrent, SameStay, TurnState, Ended, IdleTurn, Exhausted, NewProject, RunsAgent
<1>4. CountIsTrue' /\ WithinBudget'
  BY DEF TypeOK, EngineTypeOK, Turn, Approval, TurnIsCurrent, CountIsTrue, WithinBudget, Uncounted, IdleTurn
<1> QED
  BY <1>1, <1>2, <1>3, <1>4

\* Looking for a base revision writes nothing.
LEMMA EnsureBaseKeeps ==
  ASSUME IInv, EnsureBase, UNCHANGED crashes
  PROVE  IInv'
<1> USE DEF IInv, EnsureBase
<1>1. TypeOK'
  BY TurnPcs DEF TypeOK, EngineTypeOK, Turn
<1>2. OneAtATime' /\ ApprovalIsCurrent'
  BY DEF OneAtATime, ApprovalIsCurrent
<1>3. TurnIsCurrent'
  BY Updates DEF TypeOK, EngineTypeOK, Turn, Approval, TurnIsCurrent, SameStay, TurnState, Ended, NeedsBase
<1>4. CountIsTrue' /\ WithinBudget'
  BY DEF TypeOK, EngineTypeOK, Turn, Approval, CountIsTrue, WithinBudget, Uncounted
<1> QED
  BY <1>1, <1>2, <1>3, <1>4

\* The buffer of an update_state is the state.yaml of now.
LEMMA ReadStateKeeps ==
  ASSUME IInv, ReadState, UNCHANGED crashes
  PROVE  IInv'
<1> USE DEF IInv, ReadState
<1>1. TypeOK'
  <2>1. PICK revision \in Asked :
          turn' = [turn EXCEPT !.pc = ReadThenWrite[@], !.buf = disk, !.revision = revision]
    OBVIOUS
  <2>2. revision \in IndexRevision
    BY <2>1 DEF TypeOK, EngineTypeOK, Turn, Asked, IndexedAt, IndexRevision
  <2>3. turn' \in Turn
    BY <2>1, <2>2, TurnPcs, Updates DEF TypeOK, EngineTypeOK, Turn
  <2> QED
    BY <2>3 DEF TypeOK, EngineTypeOK
<1>2. OneAtATime' /\ ApprovalIsCurrent'
  BY Updates DEF OneAtATime, ApprovalIsCurrent
<1>3. TurnIsCurrent'
  BY Updates DEF TypeOK, EngineTypeOK, Turn, Approval, TurnIsCurrent, SameStay, TurnState, Ended
<1>4. CountIsTrue' /\ WithinBudget'
  BY Updates DEF TypeOK, EngineTypeOK, Turn, Approval, CountIsTrue, WithinBudget, Uncounted
<1> QED
  BY <1>1, <1>2, <1>3, <1>4

\* A new project's state.yaml has its type.
LEMMA NewProjectType == NewProject \in Disk
  BY EngineAssumption DEF NewProject, Disk, States, Validates

\* Giving up is earned: the attempts of the first read are still the count.
LEMMA WriteBlockedKeeps ==
  ASSUME IInv, WriteBlocked, UNCHANGED crashes
  PROVE  IInv'
<1> USE DEF IInv, WriteBlocked, WriteState
<1>1. TypeOK'
  <2>1. disk' \in Disk
    BY EngineAssumption DEF TypeOK, EngineTypeOK, Turn, Disk, States
  <2>2. turn' \in Turn
    BY TurnPcs, NewProjectType DEF TypeOK, EngineTypeOK, Turn
  <2> QED
    BY <2>1, <2>2 DEF TypeOK, EngineTypeOK
<1>2. OneAtATime' /\ ApprovalIsCurrent'
  BY Updates DEF OneAtATime, ApprovalIsCurrent, TurnIsCurrent
<1>3. TurnIsCurrent'
  BY Updates DEF TypeOK, EngineTypeOK, Turn, Approval, TurnIsCurrent, SameStay, TurnState, Ended
<1>4. CountIsTrue' /\ WithinBudget'
  BY Updates, EngineAssumption
     DEF TypeOK, EngineTypeOK, Turn, Disk, CountIsTrue, WithinBudget, Uncounted, TurnIsCurrent
<1> QED
  BY <1>1, <1>2, <1>3, <1>4

\* Capturing the base revision touches neither state nor attempts.
LEMMA WriteBaseKeeps ==
  ASSUME IInv, WriteBase, UNCHANGED crashes
  PROVE  IInv'
<1> USE DEF IInv, WriteBase, WriteState
<1>1. TypeOK'
  <2>1. disk' \in Disk
    BY EngineAssumption DEF TypeOK, EngineTypeOK, Turn, Disk, IndexRevision
  <2>2. turn' \in Turn
    BY TurnPcs, NewProjectType DEF TypeOK, EngineTypeOK, Turn
  <2> QED
    BY <2>1, <2>2 DEF TypeOK, EngineTypeOK
<1>2. OneAtATime' /\ ApprovalIsCurrent'
  BY Updates DEF OneAtATime, ApprovalIsCurrent, TurnIsCurrent
<1>3. TurnIsCurrent'
  BY Updates DEF TypeOK, EngineTypeOK, Turn, Approval, TurnIsCurrent, SameStay, TurnState, Ended
<1>4. CountIsTrue' /\ WithinBudget'
  BY Updates DEF TypeOK, EngineTypeOK, Turn, Disk, CountIsTrue, WithinBudget, Uncounted, TurnIsCurrent
<1> QED
  BY <1>1, <1>2, <1>3, <1>4

\* Rewriting the file with the buffer changes nothing: it is the same.
LEMMA WriteIndexKeeps ==
  ASSUME IInv, WriteIndex, UNCHANGED crashes
  PROVE  IInv'
<1> USE DEF IInv, WriteIndex, WriteState
<1>1. TypeOK'
  <2>1. disk' \in Disk
    BY EngineAssumption DEF TypeOK, EngineTypeOK, Turn, Disk
  <2>2. turn' \in Turn
    BY TurnPcs, NewProjectType DEF TypeOK, EngineTypeOK, Turn
  <2> QED
    BY <2>1, <2>2 DEF TypeOK, EngineTypeOK
<1>2. OneAtATime' /\ ApprovalIsCurrent'
  BY Updates DEF OneAtATime, ApprovalIsCurrent, TurnIsCurrent
<1>3. TurnIsCurrent'
  BY Updates DEF TypeOK, EngineTypeOK, Turn, Approval, TurnIsCurrent, SameStay, TurnState, Ended
<1>4. CountIsTrue' /\ WithinBudget'
  BY Updates DEF TypeOK, EngineTypeOK, Turn, Disk, CountIsTrue, WithinBudget, Uncounted, TurnIsCurrent
<1> QED
  BY <1>1, <1>2, <1>3, <1>4

\* Only a session that was there at the first read is resumed.
LEMMA DecideKeeps ==
  ASSUME NEW aged \in BOOLEAN, IInv, Decide(aged), UNCHANGED crashes
  PROVE  IInv'
<1> USE DEF IInv, Decide
<1>1. TypeOK'
  BY TurnPcs DEF TypeOK, EngineTypeOK, Turn, Resume
<1>2. OneAtATime' /\ ApprovalIsCurrent'
  BY Updates DEF OneAtATime, ApprovalIsCurrent
<1>3. TurnIsCurrent'
  BY Updates DEF TypeOK, EngineTypeOK, Turn, Approval, TurnIsCurrent, SameStay, TurnState, Ended, Resume, Boundary
<1>4. CountIsTrue' /\ WithinBudget'
  BY Updates DEF TypeOK, EngineTypeOK, Turn, Disk, CountIsTrue, WithinBudget, Uncounted, TurnIsCurrent
<1> QED
  BY <1>1, <1>2, <1>3, <1>4

\* The session a turn resumes was there at its first read.
LEMMA ResumedSession ==
  ASSUME IInv, turn.resume
  PROVE  turn.snap.session \in Session
  BY DEF IInv, TypeOK, EngineTypeOK, Turn, Disk, TurnIsCurrent

\* Updating one conversation, known or not, leaves a sequence of them.
LEMMA ConversationUpdate ==
  ASSUME NEW h \in Seq(Conversation), NEW i, NEW c \in Conversation
  PROVE  [h EXCEPT ![i] = c] \in Seq(Conversation)
<1>1. h \in [1..Len(h) -> Conversation] /\ Len(h) \in Nat
  OBVIOUS
<1>2. [h EXCEPT ![i] = c] \in [1..Len(h) -> Conversation]
  BY <1>1
<1> QED
  BY <1>1, <1>2, SeqDef

\* Marking a conversation as failed leaves a sequence of them.
LEMMA ConversationMarked ==
  ASSUME NEW h \in Seq(Conversation), NEW i, NEW b \in BOOLEAN
  PROVE  [h EXCEPT ![i].failed = b] \in Seq(Conversation)
<1>1. h \in [1..Len(h) -> Conversation] /\ Len(h) \in Nat
  OBVIOUS
<1>2. [h EXCEPT ![i].failed = b] \in [1..Len(h) -> Conversation]
  BY <1>1 DEF Conversation
<1> QED
  BY <1>1, <1>2, SeqDef

\* Noting what a conversation has decided leaves a sequence of them.
LEMMA ConversationDecided ==
  ASSUME NEW h \in Seq(Conversation), NEW i, NEW n \in Nat
  PROVE  [h EXCEPT ![i].decided = n] \in Seq(Conversation)
<1>1. h \in [1..Len(h) -> Conversation] /\ Len(h) \in Nat
  OBVIOUS
<1>2. [h EXCEPT ![i].decided = n] \in [1..Len(h) -> Conversation]
  BY <1>1 DEF Conversation
<1> QED
  BY <1>1, <1>2, SeqDef

\* A failed answer is one failure more, not yet counted in state.yaml.
LEMMA HermesAnswersKeeps ==
  ASSUME NEW failed \in BOOLEAN, NEW known \in BOOLEAN,
         IInv, HermesAnswers(failed, known), UNCHANGED crashes
  PROVE  IInv'
<1> USE DEF IInv
<1>1. turn' = [turn EXCEPT !.pc = "record", !.failed = failed, !.id = turn'.id]
  BY DEF HermesAnswers, TypeOK, EngineTypeOK, Turn
<1>2. turn'.id \in SessionId \cup {Unknown}
  <2>1. CASE turn.resume
    BY <2>1, ResumedSession DEF HermesAnswers, TypeOK, EngineTypeOK, Turn, Session
  <2>2. CASE ~ turn.resume
    <3>1. turn'.id = IF known THEN Len(hermes) + 1 ELSE Unknown
      BY <2>2 DEF HermesAnswers, TypeOK, EngineTypeOK, Turn
    <3>2. Len(hermes) + 1 \in SessionId
      BY DEF TypeOK, EngineTypeOK, SessionId
    <3> QED
      BY <3>1, <3>2
  <2> QED
    BY <2>1, <2>2
<1>3. hermes' \in Seq(Conversation)
  <2>1. CASE turn.resume
    BY <2>1, ConversationMarked DEF HermesAnswers, TypeOK, EngineTypeOK
  <2>2. CASE ~ turn.resume
    <3> DEFINE c == [state |-> turn.snap.workflow_state, failed |-> failed,
                     revision |-> turn.snap.artifact_revision, decided |-> decided]
    <3>1. c \in Conversation
      BY DEF TypeOK, EngineTypeOK, Turn, Disk, Conversation
    <3>2. hermes' = Append(hermes, c)
      BY <2>2 DEF HermesAnswers
    <3> QED
      BY <3>1, <3>2 DEF TypeOK, EngineTypeOK
  <2> QED
    BY <2>1, <2>2
<1>4. /\ turn.pc = "invoke"
      /\ failures' = IF failed THEN failures + 1 ELSE failures
      /\ UNCHANGED <<disk, decisions, head, appr, turns, granted, decided>>
  BY DEF HermesAnswers, TurnIsCurrent, Ended
<1>5. /\ turn'.pc = "record" /\ turn'.failed = failed
      /\ turn'.snap = turn.snap /\ turn'.resume = turn.resume
  BY <1>1 DEF TypeOK, EngineTypeOK, Turn
<1>6. TypeOK'
  <2>1. turn' \in Turn
    BY <1>1, <1>2, TurnPcs DEF TypeOK, EngineTypeOK, Turn
  <2> QED
    BY <1>3, <1>4, <2>1 DEF TypeOK, EngineTypeOK
<1>7. OneAtATime' /\ ApprovalIsCurrent'
  BY <1>1, <1>4 DEF OneAtATime, ApprovalIsCurrent, TypeOK, EngineTypeOK, Turn
<1>8. TurnIsCurrent'
  BY <1>5, <1>4, Updates
     DEF TypeOK, EngineTypeOK, Turn, TurnIsCurrent, SameStay, TurnState, Ended
<1>9. CountIsTrue' /\ WithinBudget'
  <2>1. CountIsTrue'
    BY <1>5, <1>4 DEF TypeOK, EngineTypeOK, Turn, Disk, CountIsTrue, Uncounted
  <2>2. /\ ~ Exhausted(turn.snap)
        /\ turn.snap.workflow_state = disk.workflow_state
        /\ turn.snap.attempts = disk.attempts
    BY <1>4 DEF TurnIsCurrent, Ended, SameStay
  <2>3. disk.attempts \in Nat /\ Graph[disk.workflow_state].max_attempts \in Int
    BY EngineAssumption DEF TypeOK, EngineTypeOK, Disk, States, StateSpec
  <2>4. WithinBudget'
    BY <1>4, <2>2, <2>3 DEF WithinBudget, Exhausted
  <2> QED
    BY <2>1, <2>4
<1> QED
  BY <1>6, <1>7, <1>8, <1>9

\* An invocation that raises is neither a failure nor counted as one.
LEMMA TurnRaisesKeeps ==
  ASSUME IInv, TurnRaises, UNCHANGED crashes
  PROVE  IInv'
<1> USE DEF IInv, TurnRaises
<1>1. TypeOK'
  <2>1. turn' \in Turn
    BY TurnPcs DEF TypeOK, EngineTypeOK, Turn
  <2>2. hermes' \in Seq(Conversation)
    BY ConversationMarked DEF TypeOK, EngineTypeOK
  <2> QED
    BY <2>1, <2>2 DEF TypeOK, EngineTypeOK
<1>2. OneAtATime' /\ ApprovalIsCurrent'
  BY Updates DEF OneAtATime, ApprovalIsCurrent
<1>3. TurnIsCurrent'
  BY Updates DEF TypeOK, EngineTypeOK, Turn, Approval, TurnIsCurrent, SameStay, TurnState, Ended
<1>4. CountIsTrue' /\ WithinBudget'
  BY Updates DEF TypeOK, EngineTypeOK, Turn, Disk, CountIsTrue, WithinBudget, Uncounted, TurnIsCurrent
<1> QED
  BY <1>1, <1>2, <1>3, <1>4

\* Recording decisions leaves state.yaml alone.
LEMMA RecordDecisionsKeeps ==
  ASSUME NEW ids \in SUBSET DecisionId, IInv, RecordDecisions(ids), UNCHANGED crashes
  PROVE  IInv'
<1> USE DEF IInv, RecordDecisions
<1>1. TypeOK'
  <2>1. turn' \in Turn
    BY TurnPcs DEF TypeOK, EngineTypeOK, Turn
  <2>2. decided' \in Nat
    BY EngineAssumption, FS_Subset, FS_CardinalityType DEF TypeOK, EngineTypeOK
  <2> QED
    BY <2>1, <2>2 DEF TypeOK, EngineTypeOK
<1>2. OneAtATime' /\ ApprovalIsCurrent'
  BY Updates DEF OneAtATime, ApprovalIsCurrent
<1>3. TurnIsCurrent'
  BY Updates DEF TypeOK, EngineTypeOK, Turn, Approval, TurnIsCurrent, SameStay, TurnState, Ended
<1>4. CountIsTrue' /\ WithinBudget'
  BY Updates DEF TypeOK, EngineTypeOK, Turn, Disk, CountIsTrue, WithinBudget, Uncounted, TurnIsCurrent
<1> QED
  BY <1>1, <1>2, <1>3, <1>4

\* A session that counts one more turn is a session.
LEMMA RecordTurnType ==
  ASSUME NEW session \in Session, NEW failed \in BOOLEAN
  PROVE  RecordTurn(session, failed) \in Session
<1>1. session.turns + 1 \in Nat
  BY DEF Session
<1> QED
  BY <1>1 DEF RecordTurn, Session

\* What a turn leaves behind as its session is a session.
LEMMA NewSessionType ==
  ASSUME IInv, turn.pc = "session_write"
  PROVE  NewSession \in Session
<1> USE DEF IInv
<1>1. CASE turn.resume
  <2>1. turn.snap.session \in Session /\ turn.failed \in BOOLEAN
    BY <1>1, ResumedSession DEF TypeOK, EngineTypeOK, Turn
  <2> QED
    BY <1>1, <2>1, RecordTurnType DEF NewSession
<1>2. CASE ~ turn.resume
  <2>1. turn.snap \in Disk /\ turn.revision \in IndexRevision
        /\ turn.id \in SessionId \cup {Unknown}
    BY DEF TypeOK, EngineTypeOK, Turn
  <2>2. TurnState.role \in Role
    BY <2>1, AgentHasRole DEF TurnIsCurrent, Ended, TurnState, Disk
  <2>3. Cardinality(decisions) \in Nat
    BY EngineAssumption, FS_Subset, FS_CardinalityType DEF TypeOK, EngineTypeOK
  <2>4. turn.snap.workflow_state \in Name /\ turn.snap.artifact_revision \in Nat
    BY <2>1, EngineAssumption DEF Disk, States
  <2> QED
    BY <1>2, <2>1, <2>2, <2>3, <2>4 DEF NewSession, Open, Session
<1> QED
  BY <1>1, <1>2

\* Writing the session keeps the state and the attempts of the first read.
LEMMA WriteSessionKeeps ==
  ASSUME IInv, WriteSession, UNCHANGED crashes
  PROVE  IInv'
<1> USE DEF IInv, WriteSession, WriteState
<1>1. TypeOK'
  <2>1. disk' \in Disk
    BY NewSessionType DEF TypeOK, EngineTypeOK, Turn, Disk
  <2>2. turn' \in Turn
    BY TurnPcs, NewProjectType DEF TypeOK, EngineTypeOK, Turn
  <2>3. hermes' \in Seq(Conversation)
    BY ConversationDecided DEF TypeOK, EngineTypeOK
  <2> QED
    BY <2>1, <2>2, <2>3 DEF TypeOK, EngineTypeOK
<1>2. OneAtATime' /\ ApprovalIsCurrent'
  BY Updates DEF OneAtATime, ApprovalIsCurrent, TurnIsCurrent
<1>3. TurnIsCurrent'
  BY Updates DEF TypeOK, EngineTypeOK, Turn, Approval, TurnIsCurrent, SameStay, TurnState, Ended
<1>4. CountIsTrue' /\ WithinBudget'
  BY Updates DEF TypeOK, EngineTypeOK, Turn, Disk, CountIsTrue, WithinBudget, Uncounted, TurnIsCurrent
<1> QED
  BY <1>1, <1>2, <1>3, <1>4

\* Only a successful turn is summarised and committed.
LEMMA FinishTurnKeeps ==
  ASSUME NEW changed \in BOOLEAN, IInv, FinishTurn(changed), UNCHANGED crashes
  PROVE  IInv'
<1> USE DEF IInv, FinishTurn
<1>1. TypeOK'
  <2>1. turn' \in Turn
    BY TurnPcs DEF TypeOK, EngineTypeOK, Turn
  <2> QED
    BY <2>1 DEF TypeOK, EngineTypeOK
<1>2. OneAtATime' /\ ApprovalIsCurrent'
  BY Updates DEF OneAtATime, ApprovalIsCurrent
<1>3. TurnIsCurrent'
  BY Updates DEF TypeOK, EngineTypeOK, Turn, Approval, TurnIsCurrent, SameStay, TurnState, Ended
<1>4. CountIsTrue' /\ WithinBudget'
  BY Updates DEF TypeOK, EngineTypeOK, Turn, Disk, CountIsTrue, WithinBudget, Uncounted, TurnIsCurrent
<1> QED
  BY <1>1, <1>2, <1>3, <1>4

\* A summary or a commit that raises leaves the count as it is.
LEMMA FinishRaisesKeeps ==
  ASSUME IInv, FinishRaises, UNCHANGED crashes
  PROVE  IInv'
<1> USE DEF IInv, FinishRaises
<1>1. TypeOK'
  BY TurnPcs DEF TypeOK, EngineTypeOK, Turn
<1>2. OneAtATime' /\ ApprovalIsCurrent'
  BY Updates DEF OneAtATime, ApprovalIsCurrent
<1>3. TurnIsCurrent'
  BY Updates DEF TypeOK, EngineTypeOK, Turn, Approval, TurnIsCurrent, SameStay, TurnState, Ended
<1>4. CountIsTrue' /\ WithinBudget'
  BY Updates DEF TypeOK, EngineTypeOK, Turn, Disk, CountIsTrue, WithinBudget, Uncounted, TurnIsCurrent
<1> QED
  BY <1>1, <1>2, <1>3, <1>4

\* The count catches up with the failure, and success forgets them all; the
\* budget holds because this turn was begun with attempts left.
LEMMA WriteAttemptsKeeps ==
  ASSUME IInv, WriteAttempts, UNCHANGED crashes
  PROVE  IInv'
<1> USE DEF IInv
<1>1. turn.pc = "attempts_write" /\ turn.buf = disk /\ turn.snap.attempts = disk.attempts
  BY Updates DEF WriteAttempts, WriteState, TurnIsCurrent, Ended
<1>2. disk' = [disk EXCEPT !.attempts = IF turn.failed THEN disk.attempts + 1 ELSE 0]
  BY <1>1 DEF WriteAttempts, WriteState, AfterTurn, Attempts
<1>3. turn' = [turn EXCEPT !.pc = "done", !.buf = NewProject]
  BY DEF WriteAttempts, WriteState
<1>4. /\ failures' = IF turn.failed THEN failures ELSE 0
      /\ UNCHANGED <<decisions, head, appr, turns, granted, decided, hermes, crashes>>
  BY DEF WriteAttempts
<1>5. TypeOK'
  <2>1. disk' \in Disk
    <3>1. disk \in Disk
      BY DEF TypeOK, EngineTypeOK
    <3>2. (IF turn.failed THEN disk.attempts + 1 ELSE 0) \in Nat
      BY <3>1 DEF Disk
    <3> HIDE DEF IInv
    <3> QED
      BY <1>2, <3>1, <3>2 DEF Disk
  <2>2. turn' \in Turn
    BY <1>3, TurnPcs, NewProjectType DEF TypeOK, EngineTypeOK, Turn
  <2> QED
    BY <1>4, <2>1, <2>2 DEF TypeOK, EngineTypeOK
<1>6. turn'.pc = "done"
  BY <1>3 DEF TypeOK, EngineTypeOK, Turn
<1>7. OneAtATime' /\ ApprovalIsCurrent'
  BY <1>1, <1>4, <1>6 DEF OneAtATime, ApprovalIsCurrent
<1>8. TurnIsCurrent'
  BY <1>3, <1>6, Updates DEF TypeOK, EngineTypeOK, Turn, TurnIsCurrent, Ended
<1>9. CountIsTrue'
  <2>1. Uncounted = (IF turn.failed THEN 1 ELSE 0) /\ Uncounted' = 0
    BY <1>1, <1>6 DEF Uncounted
  <2>2. disk'.attempts = IF turn.failed THEN disk.attempts + 1 ELSE 0
    BY <1>2 DEF TypeOK, EngineTypeOK, Disk
  <2>3. disk.attempts \in Nat /\ crashes \in Nat /\ failures \in Nat
    BY DEF TypeOK, EngineTypeOK, Disk
  <2> QED
    BY <1>4, <2>1, <2>2, <2>3 DEF CountIsTrue
<1>10. WithinBudget'
  <2>1. ~ Exhausted(turn.snap) /\ turn.snap.workflow_state = disk.workflow_state
    BY <1>1 DEF TurnIsCurrent, Ended, SameStay
  <2>2. /\ disk'.workflow_state = disk.workflow_state
        /\ disk'.attempts = IF turn.failed THEN disk.attempts + 1 ELSE 0
    BY <1>2 DEF TypeOK, EngineTypeOK, Disk
  <2>3. disk.attempts \in Nat /\ Graph[disk.workflow_state].max_attempts \in Int
    BY EngineAssumption DEF TypeOK, EngineTypeOK, Disk, States, StateSpec
  <2> QED
    BY <1>1, <2>1, <2>2, <2>3 DEF WithinBudget, Exhausted
<1> QED
  BY <1>5, <1>7, <1>8, <1>9, <1>10

\* A validated approval was validated against the state.yaml of now.
LEMMA BeginApprovalKeeps ==
  ASSUME NEW text \in Text, IInv, turn.pc = "idle",
         BeginApproval(text, Nothing), UNCHANGED crashes
  PROVE  IInv'
<1> USE DEF IInv
<1> DEFINE next == Applied(Graph, disk.workflow_state, disk.artifact_revision, text, Nothing)
<1>1. /\ appr.pc = "idle"
      /\ appr' = IF next = Nothing
                 THEN [appr EXCEPT !.pc = "rejected"]
                 ELSE [appr EXCEPT !.pc = "save", !.snap = disk, !.text = text, !.next = next]
      /\ UNCHANGED <<disk, decisions, head, turn, turns, granted, decided, hermes,
                     failures, crashes>>
  BY DEF BeginApproval
<1>2. next # Nothing =>
        /\ RequiresApproval(Graph[disk.workflow_state]) \/ text \in Phrase
        /\ next = Advance(Graph, disk.workflow_state, text)
  BY DEF Applied, CommandReturns
<1>3. next \in States \cup {Nothing}
  BY <1>2, AdvanceIsDeclared DEF TypeOK, EngineTypeOK, Disk
<1> HIDE DEF next
<1>4. TypeOK'
  <2>1. appr' \in Approval
    BY <1>1, <1>3 DEF TypeOK, EngineTypeOK, Approval
  <2> QED
    BY <1>1, <2>1 DEF TypeOK, EngineTypeOK
<1>5. ApprovalIsCurrent'
  <2>1. CASE next = Nothing
    BY <1>1, <2>1 DEF ApprovalIsCurrent, TypeOK, EngineTypeOK, Approval
  <2>2. CASE next # Nothing
    BY <1>1, <1>2, <2>2 DEF ApprovalIsCurrent, TypeOK, EngineTypeOK, Approval
  <2> QED
    BY <2>1, <2>2
<1>6. OneAtATime' /\ TurnIsCurrent'
  BY <1>1 DEF OneAtATime, TurnIsCurrent, SameStay, TurnState, Ended
<1>7. CountIsTrue' /\ WithinBudget'
  BY <1>1 DEF CountIsTrue, WithinBudget, Uncounted
<1> QED
  BY <1>4, <1>5, <1>6, <1>7

\* The buffer of an approval is its first read.
LEMMA ReadForApprovalKeeps ==
  ASSUME IInv, ReadForApproval, UNCHANGED crashes
  PROVE  IInv'
<1> USE DEF IInv, ReadForApproval
<1>1. TypeOK'
  BY DEF TypeOK, EngineTypeOK, Approval
<1>2. OneAtATime' /\ ApprovalIsCurrent'
  BY DEF OneAtATime, ApprovalIsCurrent, TypeOK, EngineTypeOK, Approval
<1>3. TurnIsCurrent'
  BY DEF TurnIsCurrent, SameStay, TurnState, Ended
<1>4. CountIsTrue' /\ WithinBudget'
  BY DEF CountIsTrue, WithinBudget, Uncounted
<1> QED
  BY <1>1, <1>2, <1>3, <1>4

\* What state.yaml becomes: the buffer and the first read are both what it
\* held, so nothing of another writer is lost.
LEMMA ApprovalWritten ==
  ASSUME IInv, WriteApproval
  PROVE  /\ turn.pc = "idle"
         /\ appr' = [appr EXCEPT !.pc = "log", !.buf = NewProject]
         /\ disk' = [disk EXCEPT !.workflow_state = appr.next, !.attempts = 0,
                       !.session = Nothing,
                       !.artifact_revision = disk.artifact_revision + 1]
         /\ appr.next = Advance(Graph, disk.workflow_state, appr.text)
         /\ appr.next # Nothing
         /\ RequiresApproval(Graph[disk.workflow_state]) \/ appr.text \in Phrase
         /\ failures' = 0
         /\ UNCHANGED <<decisions, head, turn, turns, granted, decided, hermes>>
  BY DEF IInv, OneAtATime, ApprovalIsCurrent, WriteApproval, AfterApproval

\* A new stay starts with no failure and no attempt.
LEMMA WriteApprovalKeeps ==
  ASSUME IInv, WriteApproval, UNCHANGED crashes
  PROVE  IInv'
<1> USE DEF IInv
<1>1. TypeOK'
  <2>1. disk' \in Disk
    <3>1. disk \in Disk /\ appr.next \in States
      BY DEF TypeOK, EngineTypeOK, Approval
    <3>2. disk.artifact_revision + 1 \in Nat
      BY <3>1 DEF Disk
    <3>3. disk' = [disk EXCEPT !.workflow_state = appr.next, !.attempts = 0,
                     !.session = Nothing,
                     !.artifact_revision = disk.artifact_revision + 1]
      BY ApprovalWritten
    <3> HIDE DEF IInv
    <3> QED
      BY <3>1, <3>2, <3>3 DEF Disk
  <2>2. appr' \in Approval
    BY ApprovalWritten, NewProjectType DEF TypeOK, EngineTypeOK, Approval
  <2> QED
    BY ApprovalWritten, <2>1, <2>2 DEF TypeOK, EngineTypeOK
<1>2. appr'.pc = "log"
  BY ApprovalWritten DEF TypeOK, EngineTypeOK, Approval
<1>3. OneAtATime' /\ ApprovalIsCurrent'
  BY ApprovalWritten, <1>2 DEF OneAtATime, ApprovalIsCurrent
<1>4. TurnIsCurrent'
  BY ApprovalWritten, Updates DEF TurnIsCurrent, Ended, IdleTurn
<1>5. CountIsTrue' /\ WithinBudget'
  <2>1. disk'.attempts = 0
    BY ApprovalWritten DEF TypeOK, EngineTypeOK, Disk
  <2> QED
    BY ApprovalWritten, <2>1 DEF TypeOK, EngineTypeOK, CountIsTrue, WithinBudget, Uncounted
<1> QED
  BY <1>1, <1>3, <1>4, <1>5

\* The event log is not read by any of this.
LEMMA LogApprovalKeeps ==
  ASSUME IInv, LogApproval, UNCHANGED crashes
  PROVE  IInv'
<1> USE DEF IInv, LogApproval
<1>1. TypeOK'
  <2>1. appr' \in Approval
    BY DEF TypeOK, EngineTypeOK, Approval
  <2> DEFINE grant == [from |-> appr.snap.workflow_state, text |-> appr.text, to |-> appr.next]
  <2>2. grant \in Grants
    BY DEF TypeOK, EngineTypeOK, Approval, Disk, Grants
  <2>3. granted' \in Seq(Grants)
    BY <2>2 DEF TypeOK, EngineTypeOK
  <2> QED
    BY <2>1, <2>3 DEF TypeOK, EngineTypeOK
<1>2. OneAtATime' /\ ApprovalIsCurrent'
  BY DEF OneAtATime, ApprovalIsCurrent, TypeOK, EngineTypeOK, Approval
<1>3. TurnIsCurrent'
  BY DEF TurnIsCurrent, SameStay, TurnState, Ended
<1>4. CountIsTrue' /\ WithinBudget'
  BY DEF CountIsTrue, WithinBudget, Uncounted
<1> QED
  BY <1>1, <1>2, <1>3, <1>4

\* Nor is the source tree.
LEMMA EditSourceKeeps ==
  ASSUME IInv, EditSource, UNCHANGED crashes
  PROVE  IInv'
<1> USE DEF IInv, EditSource
<1>1. TypeOK'
  BY DEF TypeOK, EngineTypeOK
<1>2. OneAtATime' /\ ApprovalIsCurrent'
  BY DEF OneAtATime, ApprovalIsCurrent
<1>3. TurnIsCurrent'
  BY DEF TurnIsCurrent, SameStay, TurnState, Ended
<1>4. CountIsTrue' /\ WithinBudget'
  BY DEF CountIsTrue, WithinBudget, Uncounted
<1> QED
  BY <1>1, <1>2, <1>3, <1>4

\* The process is gone: it exited or it was killed.  A killed command may
\* take one uncounted failure with it.
LEMMA ProcessGoneKeeps ==
  ASSUME IInv, turn' = IdleTurn, appr' = IdleApproval,
         UNCHANGED <<disk, decisions, head, turns, granted, decided, hermes, failures>>,
         crashes' \in Nat, crashes + Uncounted <= crashes'
  PROVE  IInv'
<1> USE DEF IInv
<1>1. TypeOK'
  <2>1. turn' \in Turn
    BY TurnPcs, NewProjectType DEF IdleTurn, Turn, IndexRevision
  <2>2. appr' \in Approval
    BY NewProjectType, EngineAssumption, ApprovalsAssumption
       DEF IdleApproval, Approval, States, Validates
  <2> QED
    BY <2>1, <2>2 DEF TypeOK, EngineTypeOK
<1>2. OneAtATime' /\ ApprovalIsCurrent'
  BY DEF OneAtATime, ApprovalIsCurrent, IdleApproval
<1>3. TurnIsCurrent'
  BY Updates DEF TurnIsCurrent, IdleTurn, Ended
<1>4. CountIsTrue' /\ WithinBudget'
  <2>1. Uncounted' = 0 /\ Uncounted \in {0, 1}
    BY DEF Uncounted, IdleTurn
  <2>2. disk.attempts \in Nat /\ failures \in Nat /\ crashes \in Nat
    BY DEF TypeOK, EngineTypeOK, Disk
  <2> QED
    BY <2>1, <2>2 DEF CountIsTrue, WithinBudget
<1> QED
  BY <1>1, <1>2, <1>3, <1>4

\* A command that ended has counted its failure.
LEMMA CliExitKeeps ==
  ASSUME IInv, CliExit
  PROVE  IInv'
<1>1. Uncounted = 0 /\ crashes \in Nat
  BY DEF IInv, TypeOK, CliExit, Ended, Uncounted
<1> QED
  BY <1>1, ProcessGoneKeeps DEF CliExit

\* A command that was killed may not have.
LEMMA CliKilledKeeps ==
  ASSUME IInv, CliKilled
  PROVE  IInv'
<1>1. Uncounted <= 1 /\ Uncounted \in Nat /\ crashes \in Nat
  BY DEF IInv, TypeOK, Uncounted
<1> QED
  BY <1>1, ProcessGoneKeeps DEF CliKilled

\* Every step of a turn keeps the invariant.
LEMMA TurnStepKeeps ==
  ASSUME IInv, TurnStep, UNCHANGED crashes
  PROVE  IInv'
  BY EnsureBaseKeeps, ReadStateKeeps, WriteBlockedKeeps, WriteBaseKeeps, WriteIndexKeeps,
     DecideKeeps, HermesAnswersKeeps, TurnRaisesKeeps, RecordDecisionsKeeps,
     WriteSessionKeeps, FinishTurnKeeps, FinishRaisesKeeps, WriteAttemptsKeeps
  DEF TurnStep

\* Every step of a command, and every kill, keeps the invariant.
LEMMA StepKeepsIInv == IInv /\ [Next]_vars => IInv'
<1> SUFFICES ASSUME IInv, [Next]_vars PROVE IInv'
  OBVIOUS
<1>1. CASE CliTurn
  BY <1>1, BeginTurnKeeps DEF CliTurn
<1>2. ASSUME NEW text \in Text, CliApprove(text) PROVE IInv'
  BY <1>2, BeginApprovalKeeps DEF CliApprove
<1>3. CASE CliContinue
  BY <1>3, BeginTurnKeeps DEF CliContinue
<1>4. CASE CliExit
  BY <1>4, CliExitKeeps
<1>5. CASE CliKilled
  BY <1>5, CliKilledKeeps
<1>6. CASE TurnStep /\ UNCHANGED crashes
  BY <1>6, TurnStepKeeps
<1>7. CASE ApprovalStep /\ UNCHANGED crashes
  BY <1>7, ReadForApprovalKeeps, WriteApprovalKeeps, LogApprovalKeeps DEF ApprovalStep
<1>8. CASE EditSource /\ UNCHANGED crashes
  BY <1>8, EditSourceKeeps
<1>9. CASE UNCHANGED vars
  BY <1>9 DEF IInv, TypeOK, EngineTypeOK, OneAtATime, TurnIsCurrent, ApprovalIsCurrent,
       CountIsTrue, WithinBudget, Uncounted, SameStay, TurnState, vars, engineVars
<1> QED
  BY <1>1, <1>2, <1>3, <1>4, <1>5, <1>6, <1>7, <1>8, <1>9 DEF Next

\* The reads of a command are still true at its writes, whatever the workflow
\* and however many commands are run and killed, as long as one runs at a time.
THEOREM Invariance == Spec => []IInv
  BY InitIInv, StepKeepsIInv, PTL DEF Spec

-----------------------------------------------------------------------------
(* What follows from it *)

\* The type invariant: whatever the workflow, the turns, the approvals and
\* the kills, state.yaml names a declared state and its counters are counts.
THEOREM TypeCorrect == Spec => []TypeOK
<1>1. IInv => TypeOK
  BY DEF IInv
<1> QED
  BY <1>1, Invariance, PTL

\* The retry budget of an autonomous state holds for every budget and every
\* number of killed commands.
THEOREM RetryBudgetHolds == Spec => []RetryBudget
<1>1. IInv => RetryBudget
  <2> SUFFICES ASSUME IInv, Graph[disk.workflow_state].kind = "autonomous", failures > 0
               PROVE  failures <= Graph[disk.workflow_state].max_attempts + crashes
    BY DEF RetryBudget
  <2> USE DEF IInv
  <2>1. /\ disk.attempts \in Nat /\ failures \in Nat /\ crashes \in Nat
        /\ Graph[disk.workflow_state].max_attempts \in Int
    BY EngineAssumption DEF TypeOK, EngineTypeOK, Disk, States, StateSpec
  <2>2. CASE Uncounted = 0
    BY <2>1, <2>2 DEF CountIsTrue, WithinBudget
  <2>3. CASE Uncounted = 1
    BY <2>1, <2>3, Updates
       DEF CountIsTrue, WithinBudget, Uncounted, TurnIsCurrent, Exhausted, SameStay, Ended
  <2> QED
    BY <2>2, <2>3 DEF Uncounted
<1> QED
  BY <1>1, Invariance, PTL

\* The only writes that move a project: an approval and giving up.
LEMMA ProjectMoves ==
  ASSUME IInv, [Next]_vars
  PROVE  /\ \/ WriteBlocked
            \/ WriteApproval
            \/ /\ disk'.workflow_state = disk.workflow_state
               /\ disk'.artifact_revision = disk.artifact_revision
         /\ disk.base # Nothing => disk'.base = disk.base
<1> USE DEF IInv
<1>1. CASE WriteBlocked
  BY <1>1, Updates
     DEF WriteBlocked, WriteState, TurnIsCurrent, TypeOK, EngineTypeOK, Turn, Disk
<1>2. CASE WriteApproval
  BY <1>2, ApprovalWritten DEF TypeOK, EngineTypeOK, Disk
<1>3. CASE WriteBase
  BY <1>3, Updates
     DEF WriteBase, WriteState, TurnIsCurrent, TypeOK, EngineTypeOK, Turn, Disk
<1>4. CASE WriteIndex
  BY <1>4, Updates DEF WriteIndex, WriteState, TurnIsCurrent
<1>5. CASE WriteSession
  BY <1>5, Updates
     DEF WriteSession, WriteState, TurnIsCurrent, TypeOK, EngineTypeOK, Turn, Disk
<1>6. CASE WriteAttempts
  BY <1>6, Updates
     DEF WriteAttempts, WriteState, AfterTurn, TurnIsCurrent, TypeOK, EngineTypeOK, Turn, Disk
<1>7. CASE UNCHANGED disk
  BY <1>7
<1>8. TurnStep => \/ WriteBlocked \/ WriteBase \/ WriteIndex \/ WriteSession
                  \/ WriteAttempts \/ UNCHANGED disk
  BY DEF TurnStep, EnsureBase, ReadState, Decide, HermesAnswers, TurnRaises,
         RecordDecisions, FinishTurn, FinishRaises
<1>9. ApprovalStep => WriteApproval \/ UNCHANGED disk
  BY DEF ApprovalStep, ReadForApproval, LogApproval
<1> QED
  BY <1>1, <1>2, <1>3, <1>4, <1>5, <1>6, <1>7, <1>8, <1>9
     DEF Next, CliTurn, CliApprove, CliContinue, CliExit, CliKilled, BeginTurn,
         BeginApproval, EditSource, vars, engineVars

\* Giving up writes `blocked` into the state.yaml of the first read.
LEMMA BlockedWritten ==
  ASSUME IInv, WriteBlocked
  PROVE  /\ disk'.workflow_state = "blocked"
         /\ disk'.artifact_revision = disk.artifact_revision
         /\ Graph[disk.workflow_state].kind = "autonomous"
         /\ failures >= Graph[disk.workflow_state].max_attempts
<1> USE DEF IInv
<1>1. turn.pc = "block_write" /\ disk' = [turn.buf EXCEPT !.workflow_state = "blocked"]
  BY DEF WriteBlocked, WriteState
<1>2. turn.buf = disk
  BY <1>1, Updates DEF TurnIsCurrent
<1>3. Exhausted(disk)
  BY <1>1 DEF TurnIsCurrent, Ended, SameStay, Exhausted
<1>4. disk.attempts <= failures /\ disk.attempts \in Nat /\ failures \in Nat
  BY <1>1 DEF CountIsTrue, Uncounted, TypeOK, EngineTypeOK, Disk
<1>5. Graph[disk.workflow_state].max_attempts \in Int
  BY EngineAssumption DEF TypeOK, EngineTypeOK, Disk, States, StateSpec
<1> QED
  BY <1>1, <1>2, <1>3, <1>4, <1>5 DEF Exhausted, TypeOK, EngineTypeOK, Disk

\* Every step is a step of the approval gate or leaves it alone.
LEMMA GateStep == IInv /\ [Next]_vars => [Gate!Next]_(Gate!gateVars)
<1> SUFFICES ASSUME IInv, [Next]_vars PROVE [Gate!Next]_(Gate!gateVars)
  OBVIOUS
<1>1. CASE WriteBlocked
  BY <1>1, BlockedWritten DEF Gate!Next, Gate!GiveUp
<1>2. CASE WriteApproval
  <2>1. /\ disk'.workflow_state = appr.next
        /\ disk'.artifact_revision = disk.artifact_revision + 1
    BY <1>2, ApprovalWritten DEF IInv, TypeOK, EngineTypeOK, Disk
  <2>2. appr.text \in Text
    BY DEF IInv, TypeOK, EngineTypeOK, Approval
  <2>3. Gate!Advance(Graph, disk.workflow_state, appr.text)
          = Advance(Graph, disk.workflow_state, appr.text)
    BY DEF Gate!Advance, Advance, Gate!Branches, Branches, Gate!RequiresApproval,
           RequiresApproval
  <2>4. Gate!Grant(appr.text)
    BY <1>2, <2>1, <2>3, ApprovalWritten
       DEF Gate!Grant, Gate!RequiresApproval, RequiresApproval
  <2> QED
    BY <2>2, <2>4 DEF Gate!Next
<1>3. CASE /\ disk'.workflow_state = disk.workflow_state
           /\ disk'.artifact_revision = disk.artifact_revision
  BY <1>3 DEF Gate!gateVars
<1> QED
  BY <1>1, <1>2, <1>3, ProjectMoves

\* A project driven from the command line implements the approval gate.
THEOREM Refinement == Spec => GateSpec
<1>1. Init => Gate!Init
  BY DEF Init, EngineInit, NewProject, Gate!Init
<1> QED
  BY <1>1, Invariance, GateStep, PTL DEF Spec, GateSpec, Gate!Spec

\* Giving up takes max_attempts real failures of this stay.
THEOREM BlockedIsEarned == Spec => BlockedAfterBudget
<1> DEFINE A == /\ disk'.workflow_state # disk.workflow_state
                /\ disk'.artifact_revision = disk.artifact_revision
                => failures >= Graph[disk.workflow_state].max_attempts
<1>1. IInv /\ [Next]_vars => [A]_vars
  <2> SUFFICES ASSUME IInv, [Next]_vars PROVE A
    OBVIOUS
  <2>1. CASE WriteApproval
    <3>1. disk'.artifact_revision = disk.artifact_revision + 1
          /\ disk.artifact_revision \in Nat
      BY <2>1, ApprovalWritten DEF IInv, TypeOK, EngineTypeOK, Disk
    <3> QED
      BY <3>1
  <2> QED
    BY <2>1, BlockedWritten, ProjectMoves
<1> QED
  BY <1>1, Invariance, PTL DEF Spec, BlockedAfterBudget

\* The implementation base revision, once captured, is never captured again.
THEOREM BaseHolds == Spec => BaseIsKept
<1> DEFINE A == disk.base # Nothing => disk'.base = disk.base
<1>1. IInv /\ [Next]_vars => [A]_vars
  BY ProjectMoves
<1> QED
  BY <1>1, Invariance, PTL DEF Spec, BaseIsKept

-----------------------------------------------------------------------------
(* The event log *)

\* A step that is neither an approval's nor giving up leaves the log and the
\* project where they are; it may be the kill of a command.
LEMMA AuditUntouched ==
  ASSUME IInv, AuditInv,
         UNCHANGED granted,
         disk'.workflow_state = disk.workflow_state,
         disk'.artifact_revision = disk.artifact_revision,
         \/ /\ UNCHANGED crashes
            /\ appr.pc # "log"
            /\ appr'.pc # "log"
         \/ UNCHANGED <<crashes, appr>>
         \/ crashes' = crashes + 1 /\ appr'.pc # "log"
  PROVE  AuditInv'
<1>1. Len(granted) \in Nat /\ disk.artifact_revision \in Nat /\ crashes \in Nat
  BY DEF IInv, TypeOK, EngineTypeOK, Disk
<1>2. CASE UNCHANGED crashes /\ appr.pc # "log" /\ appr'.pc # "log"
  BY <1>1, <1>2 DEF AuditInv
<1>3. CASE UNCHANGED <<crashes, appr>>
  BY <1>1, <1>3 DEF AuditInv
<1>4. CASE crashes' = crashes + 1 /\ appr'.pc # "log"
  BY <1>1, <1>4 DEF AuditInv
<1> QED
  BY <1>2, <1>3, <1>4

\* A written approval is the one the log lacks.
LEMMA AuditWritten ==
  ASSUME IInv, AuditInv, WriteApproval, UNCHANGED crashes
  PROVE  AuditInv'
<1>1. /\ Len(granted) \in Nat /\ disk.artifact_revision \in Nat /\ crashes \in Nat
      /\ disk \in Disk /\ appr \in Approval
  BY DEF IInv, TypeOK, EngineTypeOK, Disk
<1>2. appr.pc = "save_write" /\ appr.snap = disk
  BY DEF WriteApproval, IInv, ApprovalIsCurrent
<1>3. appr'.pc = "log" /\ appr'.next = appr.next /\ appr'.snap = disk
  BY <1>1, <1>2, ApprovalWritten DEF Approval
<1>4. /\ disk'.workflow_state = appr.next
      /\ disk'.artifact_revision = disk.artifact_revision + 1
  BY <1>1, ApprovalWritten DEF Disk
<1>5. disk.workflow_state # "blocked"
  BY ApprovalWritten, EngineAssumption DEF Advance
<1>6. granted' = granted /\ crashes' = crashes /\ appr.next # Nothing
  BY ApprovalWritten DEF WriteApproval
<1>7. /\ Len(granted) <= disk.artifact_revision
      /\ disk.artifact_revision <= Len(granted) + crashes
      /\ crashes = 0 =>
           /\ \A i \in 1..Len(granted)-1 : granted[i].to = granted[i + 1].from
           /\ Len(granted) > 0 => disk.workflow_state \in {granted[Len(granted)].to, "blocked"}
  BY <1>1, <1>2 DEF AuditInv
<1>8. crashes = 0 /\ Len(granted) > 0 =>
        appr'.snap.workflow_state = granted[Len(granted)].to
  BY <1>3, <1>5, <1>7
<1>9. /\ Len(granted) + 1 <= disk'.artifact_revision
      /\ disk'.artifact_revision <= Len(granted) + crashes + 1
  BY <1>1, <1>4, <1>7
<1> QED
  BY <1>3, <1>4, <1>6, <1>7, <1>8, <1>9 DEF AuditInv

\* Logging it closes the gap.
LEMMA AuditLogged ==
  ASSUME IInv, AuditInv, LogApproval, UNCHANGED crashes
  PROVE  AuditInv'
<1> DEFINE n == Len(granted)
           grant == [from |-> appr.snap.workflow_state, text |-> appr.text, to |-> appr.next]
<1>1. /\ granted \in Seq(Grants) /\ n \in Nat /\ disk.artifact_revision \in Nat
      /\ crashes \in Nat /\ appr \in Approval
  BY DEF IInv, TypeOK, EngineTypeOK, Disk
<1>2. /\ appr.pc = "log" /\ granted' = Append(granted, grant)
      /\ appr'.pc = "granted" /\ UNCHANGED disk
  BY <1>1 DEF LogApproval, Approval
<1>3. /\ Len(granted') = n + 1
      /\ \A i \in 1..n : granted'[i] = granted[i]
      /\ granted'[n + 1] = grant
  BY <1>1, <1>2
<1>4. crashes = 0 => \A i \in 1..n : granted'[i].to = granted'[i + 1].from
  <2> SUFFICES ASSUME crashes = 0, NEW i \in 1..n
               PROVE  granted'[i].to = granted'[i + 1].from
    OBVIOUS
  <2>1. CASE i = n
    BY <1>1, <1>2, <1>3, <2>1 DEF AuditInv
  <2>2. CASE i < n
    <3>1. i \in 1..n-1 /\ i + 1 \in 1..n
      BY <1>1, <2>2
    <3> QED
      BY <1>3, <3>1 DEF AuditInv
  <2> QED
    BY <1>1, <2>1, <2>2
<1> QED
  BY <1>1, <1>2, <1>3, <1>4 DEF AuditInv

\* Giving up moves the project and adds nothing to the log.
LEMMA AuditBlocked ==
  ASSUME IInv, AuditInv, WriteBlocked, UNCHANGED crashes
  PROVE  AuditInv'
<1>1. /\ Len(granted) \in Nat /\ disk.artifact_revision \in Nat /\ crashes \in Nat
      /\ UNCHANGED <<granted, appr>>
  BY DEF IInv, TypeOK, EngineTypeOK, Disk, WriteBlocked
<1>2. appr.pc # "log"
  BY DEF IInv, OneAtATime, WriteBlocked, WriteState
<1> QED
  BY <1>1, <1>2, BlockedWritten DEF AuditInv

\* Every step keeps the log and state.yaml in step.
LEMMA AuditStep == IInv /\ AuditInv /\ [Next]_vars => AuditInv'
<1> SUFFICES ASSUME IInv, AuditInv, [Next]_vars PROVE AuditInv'
  OBVIOUS
<1>1. CASE WriteBlocked /\ UNCHANGED crashes
  BY <1>1, AuditBlocked
<1>2. CASE WriteApproval /\ UNCHANGED crashes
  BY <1>2, AuditWritten
<1>3. CASE LogApproval /\ UNCHANGED crashes
  BY <1>3, AuditLogged
<1>4. ASSUME UNCHANGED crashes, ~ WriteBlocked, ~ WriteApproval, ~ LogApproval
      PROVE  AuditInv'
  <2>1. /\ disk'.workflow_state = disk.workflow_state
        /\ disk'.artifact_revision = disk.artifact_revision
    BY <1>4, ProjectMoves
  <2>2. ~ CliKilled
    BY <1>4 DEF CliKilled, IInv, TypeOK
  <2>3. CASE CliExit
    BY <2>1, <2>3, AuditUntouched DEF CliExit, IdleApproval
  <2>4. CASE ReadForApproval /\ UNCHANGED crashes
    BY <2>1, <2>4, AuditUntouched
       DEF ReadForApproval, IInv, TypeOK, EngineTypeOK, Approval
  <2>5. ASSUME NEW text \in Text, CliApprove(text) PROVE AuditInv'
    BY <2>1, <2>5, AuditUntouched
       DEF CliApprove, BeginApproval, IInv, TypeOK, EngineTypeOK, Approval
  <2>6. CASE UNCHANGED <<granted, crashes, appr>>
    BY <2>1, <2>6, AuditUntouched
  <2>7. TurnStep => UNCHANGED <<granted, appr>>
    BY DEF TurnStep, EnsureBase, ReadState, WriteBlocked, WriteBase, WriteIndex, Decide,
       HermesAnswers, TurnRaises, RecordDecisions, WriteSession, FinishTurn, FinishRaises,
       WriteAttempts
  <2> QED
    BY <1>4, <2>2, <2>3, <2>4, <2>5, <2>6, <2>7
       DEF Next, ApprovalStep, CliTurn, CliContinue, BeginTurn, EditSource, vars, engineVars
<1>5. CASE CliKilled
  BY <1>5, AuditUntouched DEF CliKilled, IdleApproval
<1>6. CliKilled \/ UNCHANGED crashes
  BY DEF Next, CliTurn, CliApprove, CliContinue, CliExit, vars
<1> QED
  BY <1>1, <1>2, <1>3, <1>4, <1>5, <1>6

\* The log misses at most one approval per killed command and never claims one
\* that state.yaml lost.
THEOREM AuditTrailHolds == Spec => []AuditTrail
<1>1. Init => AuditInv
  BY DEF Init, EngineInit, NewProject, IdleApproval, AuditInv
<1>2. IInv /\ AuditInv => AuditTrail
  <2> SUFFICES ASSUME IInv, AuditInv PROVE AuditTrail
    OBVIOUS
  <2>1. Len(granted) \in Nat /\ disk.artifact_revision \in Nat /\ crashes \in Nat
    BY DEF IInv, TypeOK, EngineTypeOK, Disk
  <2> QED
    BY <2>1 DEF AuditInv, AuditTrail
<1> QED
  BY <1>1, <1>2, Invariance, AuditStep, PTL DEF Spec
=============================================================================
