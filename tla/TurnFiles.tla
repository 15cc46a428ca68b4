----------------------------- MODULE TurnFiles ------------------------------
(***************************************************************************)
(* Everything a turn leaves on disk besides state.yaml: conversation       *)
(* files, turns/<turn id>/, events.jsonl, decisions/, summaries/, the git  *)
(* repository of artifacts/ and the commit of the project's source.  It is *)
(* TurnRunner.run_turn (app/turn_runner.py) in the order of its writes,    *)
(* composed with the index (CodeIndex) and the call of Hermes (AgentCall), *)
(* whose strays go on editing while the next turn runs.  The process may   *)
(* be killed between any two writes; each turn runs alone, in the workflow *)
(* state that state.yaml (TurnEngine) happens to hold.                     *)
(***************************************************************************)
EXTENDS AgentCall, CodeIndex, FiniteSets

CONSTANTS
  States,       \* workflow states that run an agent
  Guided,       \* those whose role works in the source tree
  Builder,      \* the one whose turns are committed there
  DecisionId,   \* ids agents give their decision blocks
  Base, Width,  \* file names number conversations with Width digits
  Window,       \* RecentTurnsProvider's count
  Past,         \* conversation files of earlier turns
  MaxRuns,      \* bound: turns
  MaxFaults,    \* bound: killed processes and calls cut off
  MaxArtifacts  \* bound: edits in artifacts/

ASSUME FilesAssumption ==
  /\ Guided \subseteq States /\ Builder \in Guided
  /\ Base \in Nat /\ Base > 1
  /\ {Width, Window, Past, MaxRuns, MaxFaults, MaxArtifacts} \subseteq Nat
  /\ Width > 0 /\ Window > 0
  /\ Base^Width \in Nat  \* arithmetic, which the provers do not know of ^

VARIABLES
  run,        \* the running run_turn
  runs,       \* turns begun so far
  conv,       \* conversations/<state>/: the files in the order of their numbers
  files,      \* what was written under turns/, by which run
  log,        \* events.jsonl
  decisions,  \* decisions/: which run wrote each file last
  summary,    \* summaries/<state>.md: the runs folded into it
  art         \* artifacts/: its repository, content on disk, staged, committed; index.lock

fileVars == <<runs, conv, files, log, decisions, summary>>
vars == <<run, fileVars, art, callVars, codeVars>>

RunId == 1..MaxRuns
EventType == {"started", "built", "completed", "failed", "decided", "summary",
              "artifact", "source"}

NoRun ==
  [pc |-> "idle", n |-> 0, state |-> Builder, turn |-> 0, recent |-> {},
   failed |-> FALSE, made |-> 0, decision |-> Nothing]

PastFile == [actor |-> "agent", run |-> 0]

Init ==
  /\ CallInit /\ CodeInit
  /\ run = NoRun
  /\ runs = 0
  /\ conv = [s \in States |-> [i \in 1..Past |-> PastFile]]
  /\ files = {}
  /\ log = {}
  /\ decisions = [d \in DecisionId |-> 0]
  /\ summary = [s \in States |-> {}]
  /\ art = [repo |-> "absent", work |-> 0, staged |-> 0, committed |-> 0, lock |-> FALSE]

-----------------------------------------------------------------------------
(* Numbers and names of files *)

\* BROKEN: numbers a turn by the answers on disk.
TurnNumberByAnswers(s) ==
  Cardinality({i \in DOMAIN conv[s] : conv[s][i].actor = "agent"}) + 1

\* next_turn_sequence: one more than the highest number.  Files are only ever
\* added, so that is one more than their count.
TurnNumber(s) == Len(conv[s]) + 1

\* BROKEN: no padding.
DigitsBare(n) ==
  CHOOSE w \in 1..(n + 1) : n < Base^w /\ \A v \in 1..(w - 1) : n >= Base^v

\* Digits of a number in a file name.
Digits(n) ==
  CHOOSE w \in Width..(Width + n) :
    n < Base^w /\ \A v \in Width..(w - 1) : n >= Base^v

\* sorted() compares names as text: digit by digit from the left.
NameBefore(m, n) ==
  LET dm == Digits(m)
      dn == Digits(n)
  IN  \/ dm = dn /\ m < n
      \/ dm < dn /\ m * Base^(dn - dm) <= n
      \/ dm > dn /\ m < n * Base^(dm - dn)

\* RecentTurnsProvider: the last names of the directory.
Recent(s) ==
  {n \in DOMAIN conv[s] :
     Cardinality({m \in DOMAIN conv[s] : NameBefore(n, m)}) < Window}

-----------------------------------------------------------------------------
(* run_turn up to the call *)

Begin(s) ==
  /\ run.pc = "idle"
  /\ runs < MaxRuns
  /\ runs' = runs + 1
  /\ run' = [NoRun EXCEPT !.pc = "started", !.n = runs + 1, !.state = s,
                          !.turn = TurnNumber(s)]
  /\ UNCHANGED <<conv, files, log, decisions, summary, art, callVars, codeVars>>

\* BROKEN: logs the context before it is written.
AfterLoggingFirst ==
  [started |-> "human", prompt |-> "manifest", built |-> "prompt", manifest |-> "invoke",
   response |-> "reply", completed |-> "decisions", reply |-> "completed",
   decided |-> "outcome", failed |-> "done", summarized |-> "add",
   versioned |-> "source", sourced |-> "done"]

\* What follows a step that only writes.
After ==
  [started |-> "human", prompt |-> "manifest", manifest |-> "built", built |-> "invoke",
   response |-> "reply", reply |-> "completed", completed |-> "decisions",
   decided |-> "outcome", failed |-> "done", summarized |-> "add",
   versioned |-> "source", sourced |-> "done"]

Goto(pc) == run' = [run EXCEPT !.pc = pc]

\* EventLog.emit: the step, the event it appends.
EventOf ==
  [started |-> "started", built |-> "built", completed |-> "completed",
   decided |-> "decided", failed |-> "failed", summarized |-> "summary",
   versioned |-> "artifact", sourced |-> "source"]

Event(type) ==
  [type |-> type, run |-> run.n, state |-> run.state, turn |-> run.turn,
   id |-> IF type = "decided" THEN run.decision ELSE Nothing]

Emit ==
  /\ run.pc \in DOMAIN EventOf
  /\ log' = log \cup {Event(EventOf[run.pc])}
  /\ Goto(After[run.pc])
  /\ UNCHANGED <<runs, conv, files, decisions, summary, art, callVars, codeVars>>

\* append_conversation_turn
AppendConversationTurn(actor) ==
  conv' = [conv EXCEPT ![run.state] = Append(@, [actor |-> actor, run |-> run.n])]

AppendHuman ==
  /\ run.pc = "human"
  /\ AppendConversationTurn("human")
  /\ Goto("index")
  /\ UNCHANGED <<runs, files, log, decisions, summary, art, callVars, codeVars>>

\* _current_index_revision: for a guided role, when there is an indexer that
\* supports the tree.
Index(supported) ==
  /\ run.pc = "index"
  /\ IF supported /\ run.state \in Guided
     THEN Goto("indexing") /\ fresh' = BeginFresh
     ELSE Goto("context") /\ UNCHANGED fresh
  /\ UNCHANGED <<fileVars, art, callVars, treeVars, meta, graph, cut>>

Indexing ==
  /\ run.pc = "indexing"
  /\ FreshStep
  /\ UNCHANGED <<run, fileVars, art, callVars>>

\* Whatever ensure_fresh raised is swallowed: the turn has no index revision.
Indexed ==
  /\ run.pc = "indexing"
  /\ fresh.pc \in {"returned", "raised"}
  /\ fresh' = FreshOff
  /\ Goto("context")
  /\ UNCHANGED <<fileVars, art, callVars, treeVars, meta, graph, cut>>

\* IndexProvider reads graph.json, and does not expect it torn.
BuildContext ==
  /\ run.pc = "context"
  /\ ~ (run.state \in Guided /\ graph = Torn)
  /\ run' = [run EXCEPT !.pc = "prompt", !.recent = Recent(run.state)]
  /\ UNCHANGED <<fileVars, art, callVars, codeVars>>

ContextRaises ==
  /\ run.pc = "context"
  /\ Goto("raised")
  /\ UNCHANGED <<fileVars, art, callVars, codeVars>>

File(name) == [state |-> run.state, turn |-> run.turn, name |-> name, run |-> run.n]

\* write_turn_artifact
WriteFile ==
  /\ run.pc \in {"prompt", "manifest", "response"}
  /\ files' = files \cup {File(run.pc)}
  /\ Goto(After[run.pc])
  /\ UNCHANGED <<runs, conv, log, decisions, summary, art, callVars, codeVars>>

-----------------------------------------------------------------------------
(* The call *)

Invoke ==
  /\ run.pc = "invoke"
  /\ Start
  /\ Goto("invoked")
  /\ UNCHANGED <<fileVars, art, codeVars>>

Calling == run.pc \in {"invoked", "summarizing"}

\* What happens inside the call, as far as its caller can tell.
CallProceeds ==
  /\ Calling
  /\ Launch \/ End \/ Break \/ Answer \/ GiveUp
  /\ UNCHANGED <<run, fileVars, art, codeVars>>

Answered(failed) ==
  /\ run.pc = "invoked"
  /\ call = "answered"
  /\ Return
  /\ run' = [run EXCEPT !.pc = "response", !.failed = failed, !.made = art.work]
  /\ UNCHANGED <<fileVars, art, codeVars>>

CallRaised ==
  /\ run.pc = "invoked"
  /\ call = "raised"
  /\ Return
  /\ Goto("raised")
  /\ UNCHANGED <<fileVars, art, codeVars>>

-----------------------------------------------------------------------------
(* run_turn after the call *)

AppendReply ==
  /\ run.pc = "reply"
  /\ AppendConversationTurn("agent")
  /\ Goto(After["reply"])
  /\ UNCHANGED <<runs, files, log, decisions, summary, art, callVars, codeVars>>

\* _record_decisions: a file, then its event.  One block per answer at most.
RecordDecision(d) ==
  /\ run.pc = "decisions"
  /\ decisions' = [decisions EXCEPT ![d] = run.n]
  /\ run' = [run EXCEPT !.pc = "decided", !.decision = d]
  /\ UNCHANGED <<runs, conv, files, log, summary, art, callVars, codeVars>>

NoDecision ==
  /\ run.pc = "decisions"
  /\ Goto("outcome")
  /\ UNCHANGED <<fileVars, art, callVars, codeVars>>

Outcome(summarizer) ==
  /\ run.pc = "outcome"
  /\ Goto(IF run.failed THEN "failed" ELSE IF summarizer THEN "summarize" ELSE "add")
  /\ UNCHANGED <<fileVars, art, callVars, codeVars>>

Summarize ==
  /\ run.pc = "summarize"
  /\ Start
  /\ Goto("summarizing")
  /\ UNCHANGED <<fileVars, art, codeVars>>

\* update_summary: only a call that was answered and did not fail is written.
Summarized(failed) ==
  /\ run.pc = "summarizing"
  /\ call = "answered"
  /\ Return
  /\ Goto(IF failed THEN "add" ELSE "summary")
  /\ UNCHANGED <<fileVars, art, codeVars>>

\* A RuntimeError, from the HTTP runtime, is swallowed; the in-process one
\* raises HermesInvocationError out of the turn.
SummaryRaised(swallowed) ==
  /\ run.pc = "summarizing"
  /\ call = "raised"
  /\ Return
  /\ Goto(IF swallowed THEN "add" ELSE "raised")
  /\ UNCHANGED <<fileVars, art, codeVars>>

WriteSummary ==
  /\ run.pc = "summary"
  /\ summary' = [summary EXCEPT ![run.state] = @ \cup {run.n}]
  /\ Goto("summarized")
  /\ UNCHANGED <<runs, conv, files, log, decisions, art, callVars, codeVars>>

-----------------------------------------------------------------------------
(* Versioning.  In artifacts/ every git command is checked. *)

\* BROKEN: a git failure in artifacts/ is best-effort, as in the source tree.
GitFailsQuietly == Goto("source") /\ UNCHANGED art

GitFails == Goto("raised") /\ UNCHANGED art

\* ensure_repo: git init, then an identity for the commits.  It looks for .git
\* only, so what was begun and not finished stays as it is.
EnsureRepo ==
  /\ \/ /\ run.pc = "add" /\ art.repo = "absent"
        /\ Goto("identity")
        /\ art' = [art EXCEPT !.repo = "begun"]
     \/ /\ run.pc = "identity"
        /\ Goto("add")
        /\ art' = [art EXCEPT !.repo = "ready"]
  /\ UNCHANGED <<fileVars, callVars, codeVars>>

\* A command in artifacts/.  Without an identity, or some of .git, it may fail.
Git(step) == step \/ (art.repo = "begun" /\ GitFails)

GitAdd ==
  /\ run.pc = "add" /\ art.repo # "absent"
  /\ Git(IF art.lock THEN GitFails
         ELSE Goto("status") /\ art' = [art EXCEPT !.staged = art.work])
  /\ UNCHANGED <<fileVars, callVars, codeVars>>

\* git status --porcelain
GitStatus ==
  /\ run.pc = "status"
  /\ LET clean == art.work = art.staged /\ art.staged = art.committed
     IN  Git(Goto(IF clean THEN "source" ELSE "commit") /\ UNCHANGED art)
  /\ UNCHANGED <<fileVars, callVars, codeVars>>

\* BROKEN: commits what is in artifacts/ by then.
GitCommitAll ==
  /\ run.pc = "commit"
  /\ Git(IF art.lock \/ art.work = art.committed THEN GitFails
         ELSE Goto("versioned") /\ art' = [art EXCEPT !.committed = art.work])
  /\ UNCHANGED <<fileVars, callVars, codeVars>>

\* git commit takes what is staged, and fails when that is nothing new.
GitCommit ==
  /\ run.pc = "commit"
  /\ Git(IF art.lock \/ art.staged = art.committed THEN GitFails
         ELSE Goto("versioned") /\ art' = [art EXCEPT !.committed = art.staged])
  /\ UNCHANGED <<fileVars, callVars, codeVars>>

\* _commit_project_source: in the builder's state, when there is a repository
\* and something to commit.  Whatever fails is swallowed.
CommitSource ==
  /\ run.pc = "source"
  /\ run.state = Builder
  /\ CommitTree
  /\ Goto("sourced")
  /\ UNCHANGED <<fileVars, art, callVars, indexVars>>

NoCommit ==
  /\ run.pc = "source"
  /\ Goto("done")
  /\ UNCHANGED <<fileVars, art, callVars, codeVars>>

Exit ==
  /\ run.pc \in {"done", "raised"}
  /\ run' = NoRun
  /\ UNCHANGED <<fileVars, art, callVars, codeVars>>

-----------------------------------------------------------------------------
(* Faults and other people *)

\* The process is killed; a git child killed with it leaves its index.lock.
Killed ==
  /\ run.pc # "idle"
  /\ faults < MaxFaults
  /\ run' = NoRun
  /\ IF call \in Pending THEN CutOff("idle")
     ELSE call' = "idle" /\ faults' = faults + 1 /\ UNCHANGED strays
  /\ FreshKilled
  /\ \E locked \in {art.lock, run.pc \in {"add", "commit"} /\ art.repo # "absent"} :
       art' = [art EXCEPT !.lock = locked \/ art.lock]
  /\ UNCHANGED <<fileVars, treeVars>>

CallCutOff ==
  /\ Calling
  /\ faults < MaxFaults
  /\ CutOff("raised")
  /\ UNCHANGED <<run, fileVars, art, codeVars>>

StrayGone ==
  /\ StrayEnds
  /\ UNCHANGED <<run, fileVars, art, codeVars>>

\* The turn's Hermes, a stray one, or a person works in artifacts/ ...
ArtifactEdited ==
  /\ art.work < MaxArtifacts
  /\ art' = [art EXCEPT !.work = @ + 1]
  /\ UNCHANGED <<run, fileVars, callVars, codeVars>>

\* ... or in the source tree.
TreeChanges ==
  /\ SomebodyChangesTree
  /\ UNCHANGED <<run, fileVars, art, callVars>>

TurnStep ==
  \/ Emit \/ AppendHuman
  \/ \E supported \in BOOLEAN : Index(supported)
  \/ Indexing \/ Indexed \/ BuildContext \/ ContextRaises \/ WriteFile
  \/ Invoke
  \/ \E failed \in BOOLEAN : Answered(failed)
  \/ CallRaised \/ CallProceeds \/ AppendReply \/ NoDecision
  \/ \E d \in DecisionId : RecordDecision(d)
  \/ \E summarizer \in BOOLEAN : Outcome(summarizer)
  \/ Summarize
  \/ \E failed \in BOOLEAN : Summarized(failed)
  \/ \E swallowed \in BOOLEAN : SummaryRaised(swallowed)
  \/ WriteSummary
  \/ EnsureRepo \/ GitAdd \/ GitStatus \/ GitCommit \/ CommitSource \/ NoCommit
  \/ Exit

Next ==
  \/ \E s \in States : Begin(s)
  \/ TurnStep
  \/ Killed \/ CallCutOff \/ StrayGone
  \/ ArtifactEdited \/ TreeChanges

Spec == Init /\ [][Next]_vars

-----------------------------------------------------------------------------
(* Properties *)

Pcs ==
  DOMAIN After \cup DOMAIN EventOf \cup
  {"idle", "human", "index", "indexing", "context", "invoke", "invoked", "decisions",
   "outcome", "summarize", "summarizing", "summary", "add", "identity", "status", "commit",
   "source", "done", "raised"}

RunType ==
  [pc : Pcs, n : 0..MaxRuns, state : States, turn : Nat, recent : SUBSET Nat,
   failed : BOOLEAN, made : Nat, decision : DecisionId \cup {Nothing}]

FileType == [state : States, turn : Nat, name : {"prompt", "manifest", "response"}, run : RunId]

LogType ==
  [type : EventType, run : RunId, state : States, turn : Nat,
   id : DecisionId \cup {Nothing}]

ArtType ==
  [repo : {"absent", "begun", "ready"}, work : Nat, staged : Nat, committed : Nat,
   lock : BOOLEAN]

\* The type invariant.  A call is open only while its turn waits for it, an
\* ensure_fresh only while its turn looks at the index, and artifacts/ never
\* has committed what it did not stage.
TypeOK ==
  /\ CallTypeOK /\ CodeTypeOK
  /\ run \in RunType /\ runs \in 0..MaxRuns
  /\ run.pc # "idle" => run.n = runs /\ runs > 0
  /\ conv \in [States -> Seq([actor : {"human", "agent"}, run : 0..MaxRuns])]
  /\ files \subseteq FileType
  /\ log \subseteq LogType
  /\ decisions \in [DecisionId -> 0..MaxRuns]
  /\ summary \in [States -> SUBSET RunId]
  /\ art \in ArtType
  /\ art.committed <= art.staged /\ art.staged <= art.work
  /\ Calling <=> call # "idle"
  /\ run.pc = "indexing" <=> fresh.pc # "off"

\* Nothing under turns/ is written twice: the prompt, manifest and response of
\* a turn are all of one run, although a run killed or failed at any point
\* leaves a part of them and the next one computes its number from what it
\* finds in conversations/ (next_turn_sequence, write_turn_artifact).
TurnWrittenOnce ==
  \A f, g \in files :
    f.state = g.state /\ f.turn = g.turn => f.run = g.run

HasFile(e, name) ==
  [state |-> e.state, turn |-> e.turn, name |-> name, run |-> e.run] \in files

\* The event log is an audit trail (adapters/storage/events.py): whatever point a run
\* was killed at, what an event reports is on disk, and a response on disk is
\* that of a call the log knows the prompt of.
LogHasEvidence ==
  /\ \A e \in log :
       CASE e.type = "built" -> HasFile(e, "prompt") /\ HasFile(e, "manifest")
         [] e.type = "completed" ->
              /\ HasFile(e, "response")
              /\ \E i \in DOMAIN conv[e.state] :
                   conv[e.state][i] = [actor |-> "agent", run |-> e.run]
         [] e.type = "decided" -> decisions[e.id] >= e.run
         [] e.type = "summary" -> e.run \in summary[e.state]
         [] e.type = "artifact" -> art.committed > 0
         [] OTHER -> TRUE
  /\ \A f \in files : f.name = "response" =>
       \E e \in log : /\ e.type = "built"
                      /\ e.state = f.state /\ e.turn = f.turn /\ e.run = f.run

\* A turn that is reported to have succeeded has all its work in artifacts/
\* under version control, whatever was staged, left over, locked or edited
\* there before and meanwhile: git's failures end the turn (_git, check=True).
SuccessIsVersioned ==
  run.pc = "done" /\ ~ run.failed => art.committed >= run.made

\* The turns an agent is shown are the latest of its state, as long as all
\* numbers have the digits of the format: only then is the order of the names
\* the order of the turns (RecentTurnsProvider, {seq:03d}).
RecentAreLatest ==
  LET last == Len(conv[run.state])
  IN  run.pc = "prompt" /\ last < Base^Width
      => run.recent = {n \in 1..last : n > last - Window}
=============================================================================
