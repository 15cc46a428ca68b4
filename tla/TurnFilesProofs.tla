--------------------------- MODULE TurnFilesProofs ---------------------------
(***************************************************************************)
(* Theorems of TurnFiles: what a turn leaves on disk, for any number of    *)
(* turns, states, kills and edits.                                         *)
(***************************************************************************)
EXTENDS TurnFiles, CodeIndexProofs, FiniteSetTheorems, SequenceTheorems

\* The number of a turn is used up by its human file, the first it writes;
\* everything under turns/ has a number that is used up, and what has the
\* number of the running turn is of this run.
Numbered ==
  /\ \A f \in files : f.turn <= Len(conv[f.state]) /\ f.run <= runs
  /\ run.pc \in {"started", "human"} => run.turn = Len(conv[run.state]) + 1
  /\ run.pc \notin {"idle", "started", "human"} => run.turn <= Len(conv[run.state])
  /\ \A f \in files :
       run.pc # "idle" /\ f.state = run.state /\ f.turn = run.turn => f.run = run.n

Has(name) == File(name) \in files

\* What the next event of the running turn will say is on disk already.
Evident ==
  /\ run.pc \in {"manifest", "built"} => Has("prompt")
  /\ run.pc = "built" => Has("manifest")
  /\ run.pc \in {"invoke", "invoked", "response"} => Event("built") \in log
  /\ run.pc \in {"reply", "completed"} => Has("response")
  /\ run.pc = "completed" =>
       \E i \in DOMAIN conv[run.state] :
         conv[run.state][i] = [actor |-> "agent", run |-> run.n]
  /\ run.pc = "decided" => run.decision \in DecisionId /\ decisions[run.decision] = run.n
  /\ run.pc = "summarized" => run.n \in summary[run.state]
  /\ run.pc = "versioned" => art.committed > 0

\* The log and decisions/ know of no run but those begun.
Dated ==
  /\ \A e \in log : e.run <= runs /\ (e.type = "decided" => e.id \in DecisionId)
  /\ \A d \in DecisionId : decisions[d] <= runs

\* How far the turn's work has got into artifacts/'s history.
Versioned ==
  /\ run.made <= art.work
  /\ run.pc = "failed" => run.failed
  /\ run.pc \in {"status", "commit"} /\ ~ run.failed => run.made <= art.staged
  /\ run.pc \in {"versioned", "source", "sourced", "done"} /\ ~ run.failed
       => run.made <= art.committed

IInv ==
  /\ TypeOK /\ CodeInv
  /\ Numbered /\ TurnWrittenOnce
  /\ Evident /\ Dated /\ LogHasEvidence
  /\ Versioned
  /\ RecentAreLatest

USE FilesAssumption DEF treeVars, indexVars, codeVars, callVars, fileVars

-----------------------------------------------------------------------------
(* What the steps of a turn do to its program counter *)

\* The tables of the turn, entry by entry.
LEMMA Tables ==
  /\ After["started"] = "human" /\ After["prompt"] = "manifest" /\ After["manifest"] = "built"
  /\ After["built"] = "invoke" /\ After["response"] = "reply" /\ After["reply"] = "completed"
  /\ After["completed"] = "decisions" /\ After["decided"] = "outcome" /\ After["failed"] = "done"
  /\ After["summarized"] = "add" /\ After["versioned"] = "source" /\ After["sourced"] = "done"
  /\ EventOf["started"] = "started" /\ EventOf["built"] = "built"
  /\ EventOf["completed"] = "completed" /\ EventOf["decided"] = "decided"
  /\ EventOf["failed"] = "failed" /\ EventOf["summarized"] = "summary"
  /\ EventOf["versioned"] = "artifact" /\ EventOf["sourced"] = "source"
  /\ DOMAIN EventOf = {"started", "built", "completed", "decided", "failed", "summarized",
                       "versioned", "sourced"}
  BY DEF After, EventOf

\* The places a turn can be at.
LEMMA PcSet ==
  Pcs = {"started", "prompt", "manifest", "built", "response", "reply", "completed", "decided",
         "failed", "summarized", "versioned", "sourced", "idle", "human", "index", "indexing",
         "context", "invoke", "invoked", "decisions", "outcome", "summarize", "summarizing",
         "summary", "add", "identity", "status", "commit", "source", "done", "raised"}
<1>1. DOMAIN After = {"started", "prompt", "manifest", "built", "response", "reply",
                      "completed", "decided", "failed", "summarized", "versioned", "sourced"}
  BY DEF After
<1> QED
  BY <1>1, Tables DEF Pcs

\* The turn goes on, as the same turn.
Goes(q) ==
  /\ run' \in RunType /\ run'.pc = q
  /\ run'.n = run.n /\ run'.state = run.state /\ run'.turn = run.turn
  /\ run'.decision = run.decision /\ run'.failed = run.failed /\ run'.made = run.made

\* Goto changes the place and nothing else of the run.
LEMMA GotoGoes ==
  ASSUME run \in RunType, NEW q \in Pcs, Goto(q)
  PROVE  Goes(q)
  BY DEF Goto, RunType, Goes

\* No turn runs.
LEMMA NoRunType ==
  /\ NoRun \in RunType /\ NoRun.pc = "idle" /\ NoRun.made = 0 /\ ~ NoRun.failed
  BY PcSet DEF NoRun, RunType

\* The steps that emit an event.
LEMMA EmitCases ==
  ASSUME run \in RunType, Emit
  PROVE  /\ UNCHANGED <<runs, conv, files, decisions, summary, art, callVars, codeVars>>
         /\ run.pc \in {"started", "built", "completed", "decided", "failed", "summarized",
                        "versioned", "sourced"}
         /\ log' = log \cup {Event(EventOf[run.pc])} /\ Goes(After[run.pc])
<1>1. run.pc \in {"started", "built", "completed", "decided", "failed", "summarized",
                  "versioned", "sourced"}
  BY Tables DEF Emit
<1>2. After[run.pc] \in Pcs
  BY <1>1, Tables, PcSet
<1>3. Goes(After[run.pc])
  BY <1>2, GotoGoes DEF Emit
<1> QED
  BY <1>1, <1>3 DEF Emit

\* The steps that write a file of the turn.
LEMMA WriteCases ==
  ASSUME run \in RunType, WriteFile
  PROVE  /\ UNCHANGED <<runs, conv, log, decisions, summary, art, callVars, codeVars>>
         /\ run.pc \in {"prompt", "manifest", "response"}
         /\ files' = files \cup {File(run.pc)} /\ Goes(After[run.pc])
<1>1. run.pc \in {"prompt", "manifest", "response"}
  BY DEF WriteFile
<1>2. After[run.pc] \in Pcs
  BY <1>1, Tables, PcSet
<1>3. Goes(After[run.pc])
  BY <1>2, GotoGoes DEF WriteFile
<1> QED
  BY <1>1, <1>3 DEF WriteFile

\* The steps that write none of a turn's files.
Quiet ==
  \/ \E supported \in BOOLEAN : Index(supported)
  \/ Indexing \/ Indexed \/ BuildContext \/ ContextRaises \/ Invoke
  \/ \E failed \in BOOLEAN : Answered(failed)
  \/ CallRaised \/ CallProceeds \/ NoDecision
  \/ \E summarizer \in BOOLEAN : Outcome(summarizer)
  \/ Summarize
  \/ \E failed \in BOOLEAN : Summarized(failed)
  \/ \E swallowed \in BOOLEAN : SummaryRaised(swallowed)
  \/ EnsureRepo \/ GitAdd \/ GitStatus \/ GitCommit \/ CommitSource \/ NoCommit

\* Where those lead.
Leads ==
  \/ run' = run
  \/ run.pc \in {"index", "indexing"} /\ run'.pc \in {"indexing", "context"}
  \/ run.pc = "context" /\ run'.pc \in {"prompt", "raised"}
  \/ run.pc = "invoke" /\ run'.pc = "invoked"
  \/ run.pc = "invoked" /\ run'.pc \in {"response", "raised"}
  \/ run.pc = "decisions" /\ run'.pc = "outcome"
  \/ run.pc = "outcome" /\ run'.pc \in {"failed", "summarize", "add"}
  \/ run.pc = "summarize" /\ run'.pc = "summarizing"
  \/ run.pc = "summarizing" /\ run'.pc \in {"add", "summary", "raised"}
  \/ run.pc = "add" /\ run'.pc \in {"raised", "status", "identity"}
  \/ run.pc = "identity" /\ run'.pc = "add"
  \/ run.pc = "status" /\ run'.pc \in {"raised", "source", "commit"}
  \/ run.pc = "commit" /\ run'.pc \in {"raised", "versioned"}
  \/ run.pc = "source" /\ run'.pc \in {"sourced", "done"}

\* The steps that write nothing of the project.
LEMMA QuietCases ==
  ASSUME TypeOK, Quiet
  PROVE  /\ UNCHANGED fileVars
         /\ run' \in RunType /\ run.pc # "idle" /\ Leads
         /\ run'.n = run.n /\ run'.state = run.state /\ run'.turn = run.turn
         /\ run'.decision = run.decision
<1> DEFINE P == /\ UNCHANGED fileVars
                /\ run' \in RunType /\ run.pc # "idle" /\ Leads
                /\ run'.n = run.n /\ run'.state = run.state /\ run'.turn = run.turn
                /\ run'.decision = run.decision
<1>0. run \in RunType
  BY DEF TypeOK
<1>1. ASSUME NEW q \in Pcs, Goto(q), run.pc # "idle", UNCHANGED fileVars, Leads
      PROVE  P
  BY <1>0, <1>1, GotoGoes DEF Goes
<1>2. ASSUME NEW q \in Pcs, Goto(q)
      PROVE  run'.pc = q
  BY <1>0, <1>2, GotoGoes DEF Goes
<1>3. ASSUME NEW supported \in BOOLEAN, Index(supported)
      PROVE  P
  <2>1. Goto("indexing") \/ Goto("context")
    BY <1>3 DEF Index
  <2> QED
    BY <1>1, <1>2, <1>3, <2>1, PcSet DEF Index, Leads
<1>4. CASE Indexing \/ CallProceeds
  BY <1>0, <1>4 DEF Indexing, CallProceeds, Calling, Leads
<1>5. CASE Indexed
  BY <1>1, <1>2, <1>5, PcSet DEF Indexed, Leads
<1>6. CASE BuildContext
  <2>1. Recent(run.state) \in SUBSET Nat
    <3>1. run.state \in States
      BY <1>0 DEF RunType
    <3>2. DOMAIN conv[run.state] \subseteq Nat
      BY <3>1 DEF TypeOK
    <3> QED
      BY <3>2 DEF Recent
  <2> QED
    BY <1>0, <1>6, <2>1, PcSet DEF BuildContext, Leads, RunType
<1>7. CASE ContextRaises \/ CallRaised
  BY <1>1, <1>2, <1>7, PcSet DEF ContextRaises, CallRaised, Leads
<1>8. CASE Invoke \/ NoDecision \/ Summarize
  BY <1>1, <1>2, <1>8, PcSet DEF Invoke, NoDecision, Summarize, Leads
<1>9. ASSUME NEW failed \in BOOLEAN, Answered(failed)
      PROVE  P
  <2>1. art.work \in Nat
    BY DEF TypeOK, ArtType
  <2> QED
    BY <1>0, <1>9, <2>1, PcSet DEF Answered, Leads, RunType
<1>10. ASSUME NEW summarizer \in BOOLEAN, Outcome(summarizer)
       PROVE  P
  <2>1. Goto("failed") \/ Goto("summarize") \/ Goto("add")
    BY <1>10 DEF Outcome
  <2> QED
    BY <1>1, <1>2, <1>10, <2>1, PcSet DEF Outcome, Leads
<1>11. ASSUME NEW failed \in BOOLEAN, Summarized(failed)
       PROVE  P
  <2>1. Goto("summary") \/ Goto("add")
    BY <1>11 DEF Summarized
  <2> QED
    BY <1>1, <1>2, <1>11, <2>1, PcSet DEF Summarized, Leads
<1>12. ASSUME NEW swallowed \in BOOLEAN, SummaryRaised(swallowed)
       PROVE  P
  <2>1. Goto("raised") \/ Goto("add")
    BY <1>12 DEF SummaryRaised
  <2> QED
    BY <1>1, <1>2, <1>12, <2>1, PcSet DEF SummaryRaised, Leads
<1>13. CASE GitAdd
  <2>1. Goto("raised") \/ Goto("status")
    BY <1>13 DEF GitAdd, Git, GitFails
  <2> QED
    BY <1>1, <1>2, <1>13, <2>1, PcSet DEF EnsureRepo, GitAdd, Leads
<1>14. CASE GitStatus
  <2>1. Goto("raised") \/ Goto("source") \/ Goto("commit")
    BY <1>14 DEF GitStatus, Git, GitFails
  <2> QED
    BY <1>1, <1>2, <1>14, <2>1, PcSet DEF GitStatus, Leads
<1>15. CASE GitCommit
  <2>1. Goto("raised") \/ Goto("versioned")
    BY <1>15 DEF GitCommit, Git, GitFails
  <2> QED
    BY <1>1, <1>2, <1>15, <2>1, PcSet DEF GitCommit, Leads
<1>16. CASE CommitSource \/ NoCommit
  BY <1>1, <1>2, <1>16, PcSet DEF CommitSource, NoCommit, Leads
<1>17. CASE EnsureRepo
  BY <1>1, <1>2, <1>17, PcSet DEF EnsureRepo, Leads
<1> QED
  BY <1>3, <1>4, <1>5, <1>6, <1>7, <1>8, <1>9, <1>10, <1>11, <1>12, <1>13, <1>14, <1>15, <1>16, <1>17
     DEF Quiet

\* What nobody's turn does, and what ends it: no file, and the same turn or none.
Elsewhere == Exit \/ Killed \/ CallCutOff \/ StrayGone \/ ArtifactEdited \/ TreeChanges

\* The steps that are not the turn's own, and its two ends.
LEMMA ElsewhereCases ==
  ASSUME TypeOK, Elsewhere
  PROVE  /\ UNCHANGED fileVars
         /\ run' \in RunType /\ run' \in {run, NoRun}
  BY NoRunType DEF TypeOK, Elsewhere, Exit, Killed, CallCutOff, StrayGone, ArtifactEdited, TreeChanges

\* Every step is one of these.
LEMMA NextCases ==
  ASSUME Next
  PROVE  \/ \E s \in States : Begin(s)
         \/ Emit \/ AppendHuman \/ WriteFile \/ AppendReply \/ WriteSummary
         \/ \E d \in DecisionId : RecordDecision(d)
         \/ Quiet \/ Elsewhere
  BY DEF Next, TurnStep, Quiet, Elsewhere

-----------------------------------------------------------------------------
(* The parts: the index, the call, the types *)

\* To the index, every step of the turn is one of its own or none.
LEMMA IndexSteps ==
  ASSUME TypeOK, Next
  PROVE  CodeStep
<1>0. run.pc = "indexing" <=> fresh.pc # "off"
  BY DEF TypeOK
<1>1. CASE (\E s \in States : Begin(s)) \/ Emit \/ AppendHuman \/ WriteFile \/ AppendReply
           \/ WriteSummary \/ (\E d \in DecisionId : RecordDecision(d))
  BY <1>1 DEF Begin, Emit, AppendHuman, WriteFile, AppendReply, WriteSummary, RecordDecision,
              CodeStep
<1>2. ASSUME NEW supported \in BOOLEAN, Index(supported)
      PROVE  CodeStep
  BY <1>0, <1>2 DEF Index, CodeStep
<1>3. CASE Indexing
  BY <1>3 DEF Indexing, CodeStep
<1>4. CASE Indexed
  BY <1>4 DEF Indexed, CodeStep
<1>5. CASE CommitSource
  BY <1>5 DEF CommitSource, CodeStep
<1>6. CASE Killed
  BY <1>6 DEF Killed, CodeStep
<1>7. CASE TreeChanges
  BY <1>7 DEF TreeChanges, SomebodyChangesTree, CodeStep
<1>8. CASE Exit \/ CallCutOff \/ StrayGone \/ ArtifactEdited
  BY <1>8 DEF Exit, CallCutOff, StrayGone, ArtifactEdited, CodeStep
<1>9. CASE Quiet
  BY <1>2, <1>3, <1>4, <1>5, <1>9
     DEF Quiet, BuildContext, ContextRaises, Invoke, Answered, CallRaised, CallProceeds,
         NoDecision, Outcome, Summarize, Summarized, SummaryRaised, EnsureRepo, GitAdd, GitStatus,
         GitCommit, NoCommit, CodeStep
<1> QED
  BY <1>1, <1>6, <1>7, <1>8, <1>9, NextCases DEF Elsewhere

\* The call to Hermes keeps its types.
LEMMA CallKeepsType ==
  ASSUME TypeOK, Next
  PROVE  CallTypeOK'
<1>0. CallTypeOK
  BY DEF TypeOK
<1>1. CASE UNCHANGED callVars
  BY <1>0, <1>1 DEF CallTypeOK
<1>2. ASSUME NEW from, NEW to \in Pending \cup {"idle", "answered", "raised"}, Step(from, to)
      PROVE  CallTypeOK'
  BY <1>0, <1>2 DEF Step, CallTypeOK
<1>3. ASSUME NEW to \in {"idle", "raised"}, CutOff(to)
      PROVE  CallTypeOK'
  <2>1. strays' \in 0..(strays + 1) \/ strays' \in 0..strays
    BY <1>3 DEF CutOff
  <2>2. strays' \in Nat /\ call' = to /\ faults' \in Nat
    BY <1>0, <1>3, <2>1 DEF CutOff, CallTypeOK
  <2> QED
    BY <2>2 DEF CallTypeOK
<1>4. CASE StrayEnds
  BY <1>0, <1>4 DEF StrayEnds, CallTypeOK
<1>5. CASE Killed
  BY <1>0, <1>3, <1>5 DEF Killed, CallTypeOK
<1>6. CASE CallProceeds
  BY <1>2, <1>6 DEF CallProceeds, Launch, End, Break, Answer, GiveUp, Pending
<1>7. CASE Start \/ Return
  BY <1>2, <1>7 DEF Start, Return, Pending
<1> QED
  BY <1>1, <1>3, <1>4, <1>5, <1>6, <1>7
     DEF Next, TurnStep, Begin, Emit, AppendHuman, Index, Indexing, Indexed, BuildContext,
         ContextRaises, WriteFile, Invoke, Answered, CallRaised, AppendReply, NoDecision,
         RecordDecision, Outcome, Summarize, Summarized, SummaryRaised, WriteSummary, EnsureRepo, GitAdd,
         GitStatus, GitCommit, CommitSource, NoCommit, Exit, CallCutOff, StrayGone,
         ArtifactEdited, TreeChanges

\* A call is open only while its turn waits for it.
LEMMA CallIsOfTurn ==
  ASSUME TypeOK, Next
  PROVE  (Calling <=> call # "idle")'
<1>0. run \in RunType /\ (Calling <=> call # "idle")
  BY DEF TypeOK
<1>1. ASSUME UNCHANGED call, run.pc \notin {"invoked", "summarizing"},
             run'.pc \notin {"invoked", "summarizing"}
      PROVE  (Calling <=> call # "idle")'
  BY <1>0, <1>1 DEF Calling
<1>2. CASE \E s \in States : Begin(s)
  BY <1>1, <1>2, PcSet DEF Begin, NoRun
<1>3. CASE Emit
  BY <1>0, <1>1, <1>3, EmitCases, Tables DEF Goes
<1>4. CASE WriteFile
  BY <1>0, <1>1, <1>4, WriteCases, Tables DEF Goes
<1>5. CASE AppendHuman \/ AppendReply \/ WriteSummary \/ \E d \in DecisionId : RecordDecision(d)
  BY <1>0, <1>1, <1>5, Tables DEF AppendHuman, AppendReply, WriteSummary, RecordDecision, Goto, RunType
<1>6. CASE Quiet
  <2>1. CASE Invoke \/ Summarize
    BY <1>0, <2>1 DEF Invoke, Summarize, Start, Step, Goto, RunType, Calling
  <2>2. CASE CallProceeds
    BY <1>0, <2>2 DEF CallProceeds, Launch, End, Break, Answer, GiveUp, Step, Calling
  <2>3. CASE \/ \E failed \in BOOLEAN : Answered(failed) \/ Summarized(failed)
             \/ CallRaised
             \/ \E swallowed \in BOOLEAN : SummaryRaised(swallowed)
    <3>1. call' = "idle" /\ run.pc \in {"invoked", "summarizing"}
      BY <2>3 DEF Answered, Summarized, CallRaised, SummaryRaised, Return, Step
    <3>2. run'.pc \in {"response", "raised", "add", "summary"}
      BY <1>0, <2>3 DEF Answered, Summarized, CallRaised, SummaryRaised, Goto, RunType
    <3> QED
      BY <3>1, <3>2 DEF Calling
  <2>4. CASE \/ \E supported \in BOOLEAN : Index(supported)
             \/ Indexing \/ Indexed \/ BuildContext \/ ContextRaises \/ NoDecision
             \/ \E summarizer \in BOOLEAN : Outcome(summarizer)
             \/ EnsureRepo \/ GitAdd \/ GitStatus \/ GitCommit \/ CommitSource \/ NoCommit
    <3>1. /\ UNCHANGED call
          /\ run.pc \notin {"invoked", "summarizing"}
      BY <2>4 DEF Index, Indexing, Indexed, BuildContext, ContextRaises, NoDecision, Outcome,
                  EnsureRepo, GitAdd, GitStatus, GitCommit, CommitSource, NoCommit
    <3>2. run'.pc \notin {"invoked", "summarizing"}
      <4>1. run.pc # "invoke" /\ run.pc # "summarize"
        BY <2>4 DEF Index, Indexing, Indexed, BuildContext, ContextRaises, NoDecision, Outcome,
                    EnsureRepo, GitAdd, GitStatus, GitCommit, CommitSource, NoCommit
      <4> QED
        BY <1>6, <3>1, <4>1, QuietCases DEF Leads
    <3> QED
      BY <1>1, <3>1, <3>2
  <2> QED
    BY <1>6, <2>1, <2>2, <2>3, <2>4 DEF Quiet
<1>7. CASE Elsewhere
  <2>1. CASE Exit
    BY <1>1, <2>1, NoRunType DEF Exit
  <2>2. CASE Killed
    BY <2>2, NoRunType DEF Killed, CutOff, Calling
  <2>3. CASE CallCutOff
    BY <2>3 DEF CallCutOff, CutOff, Calling
  <2>4. CASE StrayGone \/ ArtifactEdited \/ TreeChanges
    BY <1>0, <2>4 DEF StrayGone, StrayEnds, ArtifactEdited, TreeChanges, Calling
  <2> QED
    BY <1>7, <2>1, <2>2, <2>3, <2>4 DEF Elsewhere
<1> QED
  BY <1>2, <1>3, <1>4, <1>5, <1>6, <1>7, NextCases

\* ensure_fresh runs only while its turn looks at the index.
LEMMA FreshIsOfTurn ==
  ASSUME TypeOK, Next
  PROVE  (run.pc = "indexing" <=> fresh.pc # "off")'
<1>0. run \in RunType /\ (run.pc = "indexing" <=> fresh.pc # "off")
  BY DEF TypeOK
<1>1. ASSUME UNCHANGED fresh, run.pc # "indexing", run'.pc # "indexing"
      PROVE  (run.pc = "indexing" <=> fresh.pc # "off")'
  BY <1>0, <1>1
<1>2. CASE \E s \in States : Begin(s)
  BY <1>1, <1>2 DEF Begin, NoRun
<1>3. CASE Emit
  BY <1>0, <1>1, <1>3, EmitCases, Tables DEF Goes
<1>4. CASE WriteFile
  BY <1>0, <1>1, <1>4, WriteCases, Tables DEF Goes
<1>5. CASE AppendHuman \/ AppendReply \/ WriteSummary \/ \E d \in DecisionId : RecordDecision(d)
  BY <1>0, <1>1, <1>5, Tables DEF AppendHuman, AppendReply, WriteSummary, RecordDecision, Goto, RunType
<1>6. CASE Quiet
  <2>1. ASSUME NEW supported \in BOOLEAN, Index(supported)
        PROVE  (run.pc = "indexing" <=> fresh.pc # "off")'
    BY <1>0, <2>1, NotBuilding DEF Index, Goto, RunType
  <2>2. CASE Indexing
    BY <1>0, <2>2, Saves DEF Indexing, FreshStep, LookUp, Build, BuildFails, SaveGraph,
                             SaveMetadata, TypeOK, CodeTypeOK, Fresh
  <2>3. CASE Indexed
    BY <1>0, <2>3, NotBuilding DEF Indexed, Goto, RunType
  <2>4. CASE \/ BuildContext \/ ContextRaises \/ Invoke
             \/ \E failed \in BOOLEAN : Answered(failed) \/ Summarized(failed)
             \/ CallRaised \/ CallProceeds \/ NoDecision \/ Summarize
             \/ \E summarizer \in BOOLEAN : Outcome(summarizer)
             \/ \E swallowed \in BOOLEAN : SummaryRaised(swallowed)
             \/ EnsureRepo \/ GitAdd \/ GitStatus \/ GitCommit \/ CommitSource \/ NoCommit
    <3>1. UNCHANGED fresh /\ run.pc \notin {"index", "indexing"}
      BY <2>4 DEF BuildContext, ContextRaises, Invoke, Answered, CallRaised, CallProceeds,
                  NoDecision, Outcome, Summarize, Summarized, SummaryRaised, EnsureRepo, GitAdd, GitStatus,
                  GitCommit, CommitSource, NoCommit, Calling
    <3>2. run'.pc # "indexing"
      BY <1>6, <3>1, QuietCases DEF Leads
    <3> QED
      BY <1>1, <3>1, <3>2
  <2> QED
    BY <1>6, <2>1, <2>2, <2>3, <2>4 DEF Quiet
<1>7. CASE Elsewhere
  <2>1. CASE Killed
    BY <2>1, NoRunType, NotBuilding DEF Killed, FreshKilled
  <2>2. CASE Exit
    BY <1>1, <2>2, NoRunType DEF Exit
  <2>3. CASE CallCutOff \/ StrayGone \/ ArtifactEdited \/ TreeChanges
    BY <1>0, <2>3 DEF CallCutOff, StrayGone, ArtifactEdited, TreeChanges, SomebodyChangesTree
  <2> QED
    BY <1>7, <2>1, <2>2, <2>3 DEF Elsewhere
<1> QED
  BY <1>2, <1>3, <1>4, <1>5, <1>6, <1>7, NextCases

ConvType == [States -> Seq([actor : {"human", "agent"}, run : 0..MaxRuns])]

\* append_conversation_turn adds one entry to one state's conversation.
LEMMA AppendKeepsType ==
  ASSUME TypeOK, NEW actor \in {"human", "agent"}, run.pc # "idle", AppendConversationTurn(actor)
  PROVE  /\ conv' \in ConvType /\ run.state \in States
         /\ conv'[run.state] = Append(conv[run.state], [actor |-> actor, run |-> run.n])
         /\ \A s \in States : s # run.state => conv'[s] = conv[s]
<1>1. run.state \in States /\ run.n \in 0..MaxRuns /\ conv \in ConvType
  BY DEF TypeOK, RunType, ConvType
<1>2. [actor |-> actor, run |-> run.n] \in [actor : {"human", "agent"}, run : 0..MaxRuns]
  BY <1>1
<1>3. Append(conv[run.state], [actor |-> actor, run |-> run.n])
        \in Seq([actor : {"human", "agent"}, run : 0..MaxRuns])
  BY <1>1, <1>2, AppendProperties DEF ConvType
<1> QED
  BY <1>1, <1>3 DEF AppendConversationTurn, ConvType

\* What the running turn is made of.
LEMMA RunFacts ==
  ASSUME TypeOK, run.pc # "idle"
  PROVE  /\ run.n = runs /\ run.n \in RunId /\ run.state \in States /\ run.turn \in Nat
         /\ run.decision \in DecisionId \cup {Nothing}
  BY DEF TypeOK, RunType, RunId

\* What a turn writes keeps its types.
LEMMA FilesKeepType ==
  ASSUME TypeOK, Next
  PROVE  /\ run' \in RunType /\ runs' \in 0..MaxRuns
         /\ (run.pc # "idle" => run.n = runs /\ runs > 0)'
         /\ conv' \in ConvType
         /\ files' \subseteq FileType
         /\ log' \subseteq LogType
         /\ decisions' \in [DecisionId -> 0..MaxRuns]
         /\ summary' \in [States -> SUBSET RunId]
<1> DEFINE P == /\ run' \in RunType /\ runs' \in 0..MaxRuns
                /\ (run.pc # "idle" => run.n = runs /\ runs > 0)'
                /\ conv' \in ConvType
                /\ files' \subseteq FileType
                /\ log' \subseteq LogType
                /\ decisions' \in [DecisionId -> 0..MaxRuns]
                /\ summary' \in [States -> SUBSET RunId]
<1>0. /\ run \in RunType /\ runs \in 0..MaxRuns
      /\ run.pc # "idle" => run.n = runs /\ runs > 0
      /\ conv \in ConvType
      /\ files \subseteq FileType
      /\ log \subseteq LogType
      /\ decisions \in [DecisionId -> 0..MaxRuns]
      /\ summary \in [States -> SUBSET RunId]
  BY DEF TypeOK, ConvType
<1>1. ASSUME NEW s \in States, Begin(s)
      PROVE  P
  <2>1. runs + 1 \in 0..MaxRuns /\ runs + 1 > 0
    BY <1>0, <1>1 DEF Begin
  <2>2. TurnNumber(s) \in Nat
    <3>1. conv[s] \in Seq([actor : {"human", "agent"}, run : 0..MaxRuns])
      BY <1>0 DEF ConvType
    <3> QED
      BY <3>1 DEF TurnNumber
  <2>3. run' = [NoRun EXCEPT !.pc = "started", !.n = runs + 1, !.state = s, !.turn = TurnNumber(s)]
    BY <1>1 DEF Begin
  <2>4. run' \in RunType /\ run'.n = runs + 1
    BY <2>1, <2>2, <2>3, NoRunType, PcSet DEF RunType
  <2> QED
    BY <1>0, <1>1, <2>1, <2>4 DEF Begin
<1>2. CASE Emit
  <2>1. /\ UNCHANGED <<runs, conv, files, decisions, summary>>
        /\ run' \in RunType /\ run'.n = run.n /\ run.pc # "idle"
        /\ run.pc \in {"started", "built", "completed", "decided", "failed", "summarized",
                       "versioned", "sourced"}
        /\ log' = log \cup {Event(EventOf[run.pc])}
    BY <1>0, <1>2, EmitCases DEF Goes
  <2>2. EventOf[run.pc] \in EventType
    BY <2>1, Tables DEF EventType
  <2>3. Event(EventOf[run.pc]) \in LogType
    BY <2>1, <2>2, RunFacts DEF Event, LogType
  <2> QED
    BY <1>0, <2>1, <2>3
<1>3. CASE WriteFile
  <2>1. /\ UNCHANGED <<runs, conv, log, decisions, summary>>
        /\ run' \in RunType /\ run'.n = run.n /\ run.pc # "idle"
        /\ run.pc \in {"prompt", "manifest", "response"}
        /\ files' = files \cup {File(run.pc)}
    BY <1>0, <1>3, WriteCases DEF Goes
  <2>2. File(run.pc) \in FileType
    BY <2>1, RunFacts DEF File, FileType
  <2> QED
    BY <1>0, <2>1, <2>2
<1>4. CASE AppendHuman \/ AppendReply
  <2>1. /\ UNCHANGED <<runs, files, log, decisions, summary>>
        /\ Goto("index") \/ Goto("completed")
        /\ run.pc # "idle"
        /\ AppendConversationTurn("human") \/ AppendConversationTurn("agent")
    BY <1>4, Tables DEF AppendHuman, AppendReply
  <2>2. run' \in RunType /\ run'.n = run.n
    BY <1>0, <2>1, GotoGoes, PcSet DEF Goes
  <2>3. run.pc # "idle"
    BY <1>4 DEF AppendHuman, AppendReply
  <2>4. conv' \in ConvType
    BY <2>1, <2>3, AppendKeepsType
  <2> QED
    BY <1>0, <2>1, <2>2, <2>3, <2>4
<1>5. CASE WriteSummary
  <2>1. run' \in RunType /\ run'.n = run.n
    BY <1>0, <1>5, GotoGoes, PcSet DEF WriteSummary, Goes
  <2>2. run.pc # "idle"
    BY <1>5 DEF WriteSummary
  <2>3. summary' \in [States -> SUBSET RunId]
    BY <1>0, <1>5, <2>2, RunFacts DEF WriteSummary
  <2> QED
    BY <1>0, <1>5, <2>1, <2>2, <2>3 DEF WriteSummary
<1>6. ASSUME NEW d \in DecisionId, RecordDecision(d)
      PROVE  P
  <2>1. run.pc = "decisions" /\ run' = [run EXCEPT !.pc = "decided", !.decision = d]
    BY <1>6 DEF RecordDecision
  <2>2. run' \in RunType /\ run'.n = run.n
    BY <1>0, <2>1, PcSet DEF RunType
  <2>3. decisions' \in [DecisionId -> 0..MaxRuns]
    BY <1>0, <1>6, <2>1, RunFacts DEF RecordDecision, RunId
  <2> QED
    BY <1>0, <1>6, <2>1, <2>2, <2>3 DEF RecordDecision
<1>7. CASE Quiet
  BY <1>0, <1>7, QuietCases
<1>8. CASE Elsewhere
  BY <1>0, <1>8, ElsewhereCases, NoRunType
<1> QED
  BY <1>1, <1>2, <1>3, <1>4, <1>5, <1>6, <1>7, <1>8, NextCases

\* artifacts/ never has committed what it did not stage.
LEMMA ArtifactsKeepType ==
  ASSUME TypeOK, Next
  PROVE  /\ art' \in ArtType
         /\ art'.committed <= art'.staged /\ art'.staged <= art'.work
         /\ art'.work >= art.work /\ art'.staged >= art.staged /\ art'.committed >= art.committed
<1>0. /\ art \in ArtType
      /\ art.committed <= art.staged /\ art.staged <= art.work
  BY DEF TypeOK
<1>1. CASE UNCHANGED art
  BY <1>0, <1>1 DEF ArtType
<1>2. CASE EnsureRepo \/ GitAdd
  BY <1>0, <1>2 DEF EnsureRepo, GitAdd, Git, GitFails, ArtType
<1>3. CASE GitCommit
  BY <1>0, <1>3 DEF GitCommit, Git, GitFails, ArtType
<1>4. CASE ArtifactEdited
  BY <1>0, <1>4 DEF ArtifactEdited, ArtType
<1>5. CASE Killed
  <2> DEFINE l == run.pc \in {"add", "commit"} /\ art.repo # "absent"
  <2>1. PICK locked \in {art.lock, l} : art' = [art EXCEPT !.lock = locked \/ art.lock]
    BY <1>5 DEF Killed
  <2> DEFINE x == locked \/ art.lock
  <2>2. x \in BOOLEAN
    BY Zenon
  <2>3. art' = [art EXCEPT !.lock = x]
    BY <2>1
  <2> HIDE DEF x
  <2> QED
    BY <1>0, <2>2, <2>3 DEF ArtType
<1> QED
  BY <1>1, <1>2, <1>3, <1>4, <1>5
     DEF Next, TurnStep, Begin, Emit, AppendHuman, Index, Indexing, Indexed, BuildContext,
         ContextRaises, WriteFile, Invoke, Answered, CallRaised, CallProceeds, AppendReply,
         NoDecision, RecordDecision, Outcome, Summarize, Summarized, SummaryRaised, WriteSummary,
         GitStatus, Git, GitFails, CommitSource, NoCommit, Exit, CallCutOff, StrayGone, TreeChanges

\* The parts above, together.
LEMMA TypeKeeps ==
  ASSUME TypeOK, CodeInv, Next
  PROVE  TypeOK' /\ CodeInv'
<1>1. CodeInv'
  BY IndexSteps, CodeStepKeeps
<1>2. TypeOK'
  BY <1>1, FilesKeepType, ArtifactsKeepType, CallKeepsType, CallIsOfTurn, FreshIsOfTurn
     DEF TypeOK, CodeInv, ConvType
<1> QED
  BY <1>1, <1>2

-----------------------------------------------------------------------------
(* Numbers *)

\* A turn takes its number from the conversation, and the conversation has an
\* entry of it before any file is written under it.
LEMMA NumberedKeeps ==
  ASSUME TypeOK, Numbered, TurnWrittenOnce, Next
  PROVE  Numbered' /\ TurnWrittenOnce'
<1>0. /\ run \in RunType /\ runs \in 0..MaxRuns /\ conv \in ConvType /\ files \subseteq FileType
      /\ \A s \in States : Len(conv[s]) \in Nat
  <2>1. /\ run \in RunType /\ runs \in 0..MaxRuns /\ conv \in ConvType /\ files \subseteq FileType
    BY DEF TypeOK, ConvType
  <2>2. \A s \in States : conv[s] \in Seq([actor : {"human", "agent"}, run : 0..MaxRuns])
    BY <2>1 DEF ConvType
  <2> QED
    BY <2>1, <2>2
<1>1. ASSUME UNCHANGED <<runs, conv, files>>,
             run'.pc # "idle" => /\ run.pc # "idle"
                                 /\ run'.n = run.n /\ run'.state = run.state /\ run'.turn = run.turn,
             run'.pc \in {"started", "human"} => run.pc \in {"started", "human"},
             run.pc \in {"started", "human"} => run'.pc \in {"idle", "started", "human"}
      PROVE  Numbered' /\ TurnWrittenOnce'
  BY <1>1 DEF Numbered, TurnWrittenOnce
<1>2. ASSUME NEW s \in States, Begin(s)
      PROVE  Numbered' /\ TurnWrittenOnce'
  <2>1. /\ run'.pc = "started" /\ run'.state = s /\ run'.turn = Len(conv[s]) + 1
        /\ runs' = runs + 1 /\ UNCHANGED <<conv, files>>
    BY <1>2 DEF Begin, NoRun, TurnNumber
  <2>2. \A f \in files : f.turn \in Nat /\ f.run \in Nat
    BY <1>0 DEF FileType, RunId
  <2> QED
    BY <1>0, <2>1, <2>2 DEF Numbered, TurnWrittenOnce
<1>3. CASE Emit
  BY <1>0, <1>1, <1>3, EmitCases, Tables DEF Goes
<1>4. CASE WriteFile
  <2>1. /\ UNCHANGED <<runs, conv>> /\ run.pc \in {"prompt", "manifest", "response"}
        /\ run'.pc \in {"manifest", "built", "reply"}
        /\ run'.n = run.n /\ run'.state = run.state /\ run'.turn = run.turn
        /\ files' = files \cup {File(run.pc)}
    BY <1>0, <1>4, WriteCases, Tables DEF Goes
  <2>2. /\ File(run.pc).turn = run.turn /\ File(run.pc).state = run.state
        /\ File(run.pc).run = run.n
    BY DEF File
  <2>3. run.n = runs /\ runs \in Nat
    BY <1>0, <2>1, RunFacts
  <2>4. Numbered'
    BY <2>1, <2>2, <2>3 DEF Numbered
  <2>5. TurnWrittenOnce'
    BY <2>1, <2>2 DEF Numbered, TurnWrittenOnce
  <2> QED
    BY <2>4, <2>5
<1>5. CASE AppendHuman \/ AppendReply
  <2>1. /\ UNCHANGED <<runs, files>> /\ run.pc \in {"human", "reply"}
        /\ Goto("index") \/ Goto("completed")
        /\ AppendConversationTurn("human") \/ AppendConversationTurn("agent")
    BY <1>5, Tables DEF AppendHuman, AppendReply
  <2>2. /\ run'.pc \in {"index", "completed"}
        /\ run'.n = run.n /\ run'.state = run.state /\ run'.turn = run.turn
    BY <1>0, <2>1, GotoGoes, PcSet DEF Goes
  <2>3. /\ run.state \in States
        /\ Len(conv'[run.state]) = Len(conv[run.state]) + 1
        /\ \A s \in States : s # run.state => conv'[s] = conv[s]
    <3>1. PICK actor \in {"human", "agent"} : AppendConversationTurn(actor)
      BY <2>1
    <3>2. /\ run.state \in States
          /\ conv'[run.state] = Append(conv[run.state], [actor |-> actor, run |-> run.n])
          /\ \A s \in States : s # run.state => conv'[s] = conv[s]
      BY <2>1, <3>1, AppendKeepsType
    <3>3. conv[run.state] \in Seq([actor : {"human", "agent"}, run : 0..MaxRuns])
      BY <1>0, <3>2 DEF ConvType
    <3> QED
      BY <3>2, <3>3
  <2>4. \A s \in States : Len(conv'[s]) >= Len(conv[s])
    BY <1>0, <2>3
  <2>5. \A f \in files : f.state \in States /\ f.turn \in Nat
    BY <1>0 DEF FileType
  <2>6. run.turn \in Nat
    BY <1>0 DEF RunType
  <2>7. Numbered'
    <3>1. \A f \in files : f.turn <= Len(conv'[f.state]) /\ f.run <= runs
      BY <1>0, <2>3, <2>4, <2>5 DEF Numbered
    <3>2. run.turn <= Len(conv'[run.state])
      BY <1>0, <2>1, <2>3, <2>6 DEF Numbered
    <3> QED
      BY <2>1, <2>2, <3>1, <3>2 DEF Numbered
  <2> QED
    BY <2>1, <2>7 DEF TurnWrittenOnce
<1>6. CASE WriteSummary
  BY <1>0, <1>1, <1>6, GotoGoes, PcSet DEF WriteSummary, Goes
<1>7. ASSUME NEW d \in DecisionId, RecordDecision(d)
      PROVE  Numbered' /\ TurnWrittenOnce'
  BY <1>0, <1>1, <1>7 DEF RecordDecision, RunType
<1>8. CASE Quiet
  <2>1. run'.pc # "idle"
    BY <1>8, QuietCases DEF Leads
  <2>2. run'.pc \in {"started", "human"} => run.pc \in {"started", "human"}
    BY <1>8, QuietCases DEF Leads
  <2>3. run.pc \in {"started", "human"} => run'.pc \in {"idle", "started", "human"}
    BY <1>8, QuietCases DEF Leads
  <2> QED
    BY <1>1, <1>8, <2>1, <2>2, <2>3, QuietCases
<1>9. CASE Elsewhere
  BY <1>1, <1>9, ElsewhereCases, NoRunType
<1> QED
  BY <1>2, <1>3, <1>4, <1>5, <1>6, <1>7, <1>8, <1>9, NextCases

-----------------------------------------------------------------------------
(* Evidence *)

\* Nothing is dated later than the runs so far.
LEMMA DatedKeeps ==
  ASSUME TypeOK, Evident, Dated, Next
  PROVE  Dated'
<1>0. /\ run \in RunType /\ runs \in Nat /\ log \subseteq LogType
      /\ decisions \in [DecisionId -> 0..MaxRuns]
  BY DEF TypeOK
<1>1. CASE UNCHANGED <<runs, log, decisions>>
  BY <1>1 DEF Dated
<1>2. ASSUME NEW s \in States, Begin(s)
      PROVE  Dated'
  <2>1. runs' = runs + 1 /\ UNCHANGED <<log, decisions>>
    BY <1>2 DEF Begin
  <2>2. \A e \in log : e.run \in Nat
    BY <1>0 DEF LogType, RunId
  <2> QED
    BY <1>0, <2>1, <2>2 DEF Dated
<1>3. CASE Emit
  <2>1. /\ UNCHANGED <<runs, decisions>> /\ run.pc # "idle"
        /\ run.pc \in {"started", "built", "completed", "decided", "failed", "summarized",
                       "versioned", "sourced"}
        /\ log' = log \cup {Event(EventOf[run.pc])}
    BY <1>0, <1>3, EmitCases
  <2>2. run.n <= runs
    BY <1>0, <2>1, RunFacts
  <2>3. Event(EventOf[run.pc]).run = run.n
        /\ (Event(EventOf[run.pc]).type = "decided" => Event(EventOf[run.pc]).id \in DecisionId)
    BY <2>1, Tables DEF Event, Evident
  <2> QED
    BY <2>1, <2>2, <2>3 DEF Dated
<1>4. ASSUME NEW d \in DecisionId, RecordDecision(d)
      PROVE  Dated'
  <2>1. decisions' = [decisions EXCEPT ![d] = run.n] /\ UNCHANGED <<runs, log>>
    BY <1>4 DEF RecordDecision
  <2>2. run.n <= runs
    BY <1>0, <1>4, RunFacts DEF RecordDecision
  <2> QED
    BY <1>0, <2>1, <2>2 DEF Dated
<1>5. CASE AppendHuman \/ WriteFile \/ AppendReply \/ WriteSummary \/ Quiet \/ Elsewhere
  BY <1>1, <1>5, QuietCases, ElsewhereCases DEF AppendHuman, WriteFile, AppendReply, WriteSummary
<1> QED
  BY <1>2, <1>3, <1>4, <1>5, NextCases

\* Files are only added, conversations only grow, a decision file is only
\* replaced by a later run's, and git only commits more.
LEMMA EvidenceStays ==
  ASSUME TypeOK, Dated, Next
  PROVE  /\ files \subseteq files' /\ log \subseteq log'
         /\ \A s \in States : summary[s] \subseteq summary'[s]
         /\ \A d \in DecisionId : decisions'[d] >= decisions[d]
         /\ \A s \in States : \A i \in DOMAIN conv[s] :
              i \in DOMAIN conv'[s] /\ conv'[s][i] = conv[s][i]
         /\ art'.committed >= art.committed
<1>0. /\ run \in RunType /\ runs \in Nat
      /\ summary \in [States -> SUBSET RunId]
      /\ decisions \in [DecisionId -> 0..MaxRuns]
      /\ conv \in ConvType
  <2>1. /\ runs \in 0..MaxRuns /\ run \in RunType
        /\ summary \in [States -> SUBSET RunId]
        /\ decisions \in [DecisionId -> 0..MaxRuns]
    BY DEF TypeOK
  <2>2. conv \in ConvType
    BY DEF TypeOK, ConvType
  <2>3. runs \in Nat
    BY <2>1
  <2> QED
    BY <2>1, <2>2, <2>3
<1>1. art'.committed >= art.committed
  BY ArtifactsKeepType
<1>2. files \subseteq files' /\ log \subseteq log'
  <2>1. CASE (\E s \in States : Begin(s)) \/ AppendHuman \/ AppendReply \/ WriteSummary
             \/ (\E d \in DecisionId : RecordDecision(d)) \/ Quiet \/ Elsewhere
    BY <2>1, QuietCases, ElsewhereCases
       DEF Begin, AppendHuman, AppendReply, WriteSummary, RecordDecision
  <2>2. CASE Emit \/ WriteFile
    BY <1>0, <2>2, EmitCases, WriteCases
  <2> QED
    BY <2>1, <2>2, NextCases
<1>3. \A s \in States : summary[s] \subseteq summary'[s]
  <2>1. CASE WriteSummary
    BY <1>0, <2>1 DEF WriteSummary
  <2>2. CASE \/ (\E s \in States : Begin(s)) \/ Emit \/ WriteFile \/ AppendHuman \/ AppendReply
             \/ (\E d \in DecisionId : RecordDecision(d)) \/ Quiet \/ Elsewhere
    BY <2>2, QuietCases, ElsewhereCases
       DEF Begin, Emit, WriteFile, AppendHuman, AppendReply, RecordDecision
  <2> QED
    BY <2>1, <2>2, NextCases
<1>4. \A d \in DecisionId : decisions'[d] >= decisions[d]
  <2>1. ASSUME NEW d \in DecisionId, RecordDecision(d)
        PROVE  \A e \in DecisionId : decisions'[e] >= decisions[e]
    <3>1. run.n = runs
      BY <2>1, RunFacts DEF RecordDecision
    <3>2. \A e \in DecisionId : decisions[e] \in Nat /\ decisions[e] <= runs
      BY <1>0 DEF Dated
    <3> QED
      BY <1>0, <2>1, <3>1, <3>2 DEF RecordDecision
  <2>2. CASE UNCHANGED decisions
    BY <1>0, <2>2
  <2>3. CASE \/ (\E s \in States : Begin(s)) \/ Emit \/ WriteFile \/ AppendHuman \/ AppendReply
             \/ WriteSummary \/ Quiet \/ Elsewhere
    BY <2>2, <2>3, QuietCases, ElsewhereCases
       DEF Begin, Emit, WriteFile, AppendHuman, AppendReply, WriteSummary
  <2> QED
    BY <2>1, <2>3, NextCases
<1>5. \A s \in States : \A i \in DOMAIN conv[s] :
        i \in DOMAIN conv'[s] /\ conv'[s][i] = conv[s][i]
  <2>1. CASE AppendHuman \/ AppendReply
    <3>1. PICK actor \in {"human", "agent"} : AppendConversationTurn(actor)
      BY <2>1 DEF AppendHuman, AppendReply
    <3>2. run.pc # "idle"
      BY <2>1 DEF AppendHuman, AppendReply
    <3>3. /\ run.state \in States
          /\ conv'[run.state] = Append(conv[run.state], [actor |-> actor, run |-> run.n])
          /\ \A s \in States : s # run.state => conv'[s] = conv[s]
      BY <3>1, <3>2, AppendKeepsType
    <3>4. conv[run.state] \in Seq([actor : {"human", "agent"}, run : 0..MaxRuns])
      BY <1>0, <3>3 DEF ConvType
    <3>5. \A i \in DOMAIN conv[run.state] :
            i \in DOMAIN conv'[run.state] /\ conv'[run.state][i] = conv[run.state][i]
      <4> DEFINE c == conv[run.state]
                 x == [actor |-> actor, run |-> run.n]
      <4>1. c \in Seq([actor : {"human", "agent"}, run : 0..MaxRuns])
        BY <3>4
      <4> HIDE DEF c, x
      <4>2. \A i \in DOMAIN c : i \in DOMAIN Append(c, x) /\ Append(c, x)[i] = c[i]
        BY <4>1
      <4> QED
        BY <3>3, <4>2 DEF c, x
    <3> QED
      BY <3>3, <3>5
  <2>2. CASE \/ (\E s \in States : Begin(s)) \/ Emit \/ WriteFile \/ WriteSummary
             \/ (\E d \in DecisionId : RecordDecision(d)) \/ Quiet \/ Elsewhere
    BY <2>2, QuietCases, ElsewhereCases DEF Begin, Emit, WriteFile, WriteSummary, RecordDecision
  <2> QED
    BY <2>1, <2>2, NextCases
<1> QED
  BY <1>1, <1>2, <1>3, <1>4, <1>5

\* What LogHasEvidence asks for an event, and for a response.
Backed(e) ==
  CASE e.type = "built" -> HasFile(e, "prompt") /\ HasFile(e, "manifest")
    [] e.type = "completed" ->
         /\ HasFile(e, "response")
         /\ \E i \in DOMAIN conv[e.state] :
              conv[e.state][i] = [actor |-> "agent", run |-> e.run]
    [] e.type = "decided" -> decisions[e.id] >= e.run
    [] e.type = "summary" -> e.run \in summary[e.state]
    [] e.type = "artifact" -> art.committed > 0
    [] OTHER -> TRUE

Prompted(f) ==
  \E e \in log : /\ e.type = "built"
                 /\ e.state = f.state /\ e.turn = f.turn /\ e.run = f.run

\* The property, one event and one file at a time.
LEMMA EvidenceParts ==
  LogHasEvidence <=> /\ \A e \in log : Backed(e)
                     /\ \A f \in files : f.name = "response" => Prompted(f)
  BY DEF LogHasEvidence, Backed, Prompted

\* An event that is backed stays so.
LEMMA BackedStays ==
  ASSUME TypeOK, Dated, Next, NEW e \in log, Backed(e)
  PROVE  Backed(e)'
<1>1. /\ e.state \in States /\ e.run \in Nat /\ e.type \in EventType
      /\ e.type = "decided" => e.id \in DecisionId
      /\ decisions \in [DecisionId -> 0..MaxRuns] /\ decisions' \in [DecisionId -> 0..MaxRuns]
      /\ art.committed \in Nat /\ art'.committed \in Nat
  <2>1. e \in LogType
    BY DEF TypeOK
  <2>2. e.state \in States /\ e.run \in Nat /\ e.type \in EventType
    BY <2>1 DEF LogType, RunId
  <2>3. decisions \in [DecisionId -> 0..MaxRuns] /\ art.committed \in Nat
    BY DEF TypeOK, ArtType
  <2>4. decisions' \in [DecisionId -> 0..MaxRuns] /\ art'.committed \in Nat
    BY FilesKeepType, ArtifactsKeepType DEF ArtType
  <2> QED
    BY <2>2, <2>3, <2>4 DEF Dated
<1>2. CASE e.type = "built"
  BY <1>2, EvidenceStays DEF Backed, HasFile
<1>3. CASE e.type = "completed"
  BY <1>1, <1>3, EvidenceStays DEF Backed, HasFile
<1>4. CASE e.type = "decided"
  <2>1. decisions[e.id] >= e.run
    BY <1>4 DEF Backed
  <2>2. decisions'[e.id] >= decisions[e.id]
    BY <1>1, <1>4, EvidenceStays
  <2>3. decisions[e.id] \in Nat /\ decisions'[e.id] \in Nat
    BY <1>1, <1>4
  <2> QED
    BY <1>1, <1>4, <2>1, <2>2, <2>3 DEF Backed
<1>5. CASE e.type = "summary"
  BY <1>1, <1>5, EvidenceStays DEF Backed
<1>6. CASE e.type = "artifact"
  BY <1>1, <1>6, EvidenceStays DEF Backed
<1>7. CASE e.type \in {"started", "failed", "source"}
  BY <1>7 DEF Backed
<1> QED
  BY <1>1, <1>2, <1>3, <1>4, <1>5, <1>6, <1>7 DEF EventType

\* An event is emitted after what it reports is on disk.
LEMMA EvidenceKeeps ==
  ASSUME TypeOK, Evident, Dated, LogHasEvidence, Next
  PROVE  LogHasEvidence'
<1>0. run \in RunType /\ decisions \in [DecisionId -> 0..MaxRuns]
  BY DEF TypeOK
<1>1. \A e \in log : Backed(e)'
  BY BackedStays, EvidenceParts
<1>2. \A f \in files : f.name = "response" => Prompted(f)'
  <2> SUFFICES ASSUME NEW f \in files, f.name = "response"
               PROVE  Prompted(f)'
    OBVIOUS
  <2>1. Prompted(f) /\ log \subseteq log'
    BY EvidenceParts, EvidenceStays
  <2> QED
    BY <2>1 DEF Prompted
<1>3. \A e \in log' : e \notin log => Backed(e)'
  <2>1. ASSUME Emit, NEW e \in log', e \notin log
        PROVE  Backed(e)'
    <3>1. /\ UNCHANGED <<conv, files, decisions, summary, art>>
          /\ run.pc \in {"started", "built", "completed", "decided", "failed", "summarized",
                         "versioned", "sourced"}
          /\ e = Event(EventOf[run.pc]) /\ run.pc # "idle"
      BY <1>0, <2>1, EmitCases
    <3>2. /\ e.type = EventOf[run.pc] /\ e.run = run.n /\ e.state = run.state /\ e.turn = run.turn
          /\ e.type = "decided" => e.id = run.decision
      BY <3>1 DEF Event
    <3>3. run.n \in Nat
      BY <3>1, RunFacts DEF RunId
    <3>4. Backed(e)
      <4>1. CASE run.pc = "built"
        BY <3>2, <4>1, Tables DEF Backed, HasFile, Evident, Has, File
      <4>2. CASE run.pc = "completed"
        BY <3>2, <4>2, Tables DEF Backed, HasFile, Evident, Has, File
      <4>3. CASE run.pc = "decided"
        <5>1. decisions[run.decision] = run.n
          BY <4>3 DEF Evident
        <5> QED
          BY <3>2, <3>3, <4>3, <5>1, Tables DEF Backed
      <4>4. CASE run.pc \in {"summarized", "versioned"}
        BY <3>2, <4>4, Tables DEF Backed, Evident
      <4>5. CASE run.pc \in {"started", "failed", "sourced"}
        BY <3>2, <4>5, Tables DEF Backed
      <4> QED
        BY <3>1, <4>1, <4>2, <4>3, <4>4, <4>5
    <3> QED
      BY <3>1, <3>4 DEF Backed, HasFile
  <2>2. CASE UNCHANGED log
    BY <2>2
  <2>3. CASE \/ (\E s \in States : Begin(s)) \/ AppendHuman \/ WriteFile \/ AppendReply
             \/ WriteSummary \/ (\E d \in DecisionId : RecordDecision(d)) \/ Quiet \/ Elsewhere
    BY <2>2, <2>3, QuietCases, ElsewhereCases
       DEF Begin, AppendHuman, WriteFile, AppendReply, WriteSummary, RecordDecision
  <2> QED
    BY <2>1, <2>3, NextCases
<1>4. \A f \in files' : f \notin files /\ f.name = "response" => Prompted(f)'
  <2>1. CASE WriteFile
    <3>1. UNCHANGED log /\ files' = files \cup {File(run.pc)}
      BY <1>0, <2>1, WriteCases
    <3>2. ASSUME File(run.pc).name = "response"
          PROVE  Prompted(File(run.pc))
      <4>1. run.pc = "response"
        BY <3>2 DEF File
      <4>2. Event("built") \in log
        BY <4>1 DEF Evident
      <4> QED
        BY <4>2 DEF Event, File, Prompted
    <3>3. ASSUME NEW f \in files', f \notin files, f.name = "response"
          PROVE  Prompted(f)'
      <4>1. f = File(run.pc)
        BY <3>1, <3>3
      <4>2. Prompted(f)
        BY <3>2, <3>3, <4>1
      <4> QED
        BY <3>1, <4>2 DEF Prompted
    <3> QED
      BY <3>3
  <2>2. CASE UNCHANGED files
    BY <2>2
  <2>3. CASE \/ (\E s \in States : Begin(s)) \/ Emit \/ AppendHuman \/ AppendReply
             \/ WriteSummary \/ (\E d \in DecisionId : RecordDecision(d)) \/ Quiet \/ Elsewhere
    BY <2>2, <2>3, QuietCases, ElsewhereCases
       DEF Begin, Emit, AppendHuman, AppendReply, WriteSummary, RecordDecision
  <2> QED
    BY <2>1, <2>3, NextCases
<1>5. (\A e \in log : Backed(e))' /\ (\A f \in files : f.name = "response" => Prompted(f))'
  BY <1>1, <1>2, <1>3, <1>4
<1> QED
  BY <1>5 DEF LogHasEvidence, Backed, Prompted

\* At every place, what the turn is about to report is on disk.
LEMMA EvidentKeeps ==
  ASSUME TypeOK, Dated, Evident, Next
  PROVE  Evident'
<1>0. /\ run \in RunType
      /\ summary \in [States -> SUBSET RunId] /\ decisions \in [DecisionId -> 0..MaxRuns]
      /\ conv \in ConvType
      /\ art \in ArtType
      /\ art.committed <= art.staged
      /\ art'.committed \in Nat /\ art'.committed >= art.committed
  BY ArtifactsKeepType DEF TypeOK, ConvType, ArtType
<1> DEFINE Owing == {"manifest", "built", "invoke", "invoked", "response", "reply", "completed",
                     "decided", "summarized", "versioned"}
<1>1. ASSUME run'.pc \notin Owing
      PROVE  Evident'
  BY <1>1 DEF Evident
<1>2. ASSUME NEW s \in States, Begin(s)
      PROVE  Evident'
  <2>1. run'.pc = "started"
    BY <1>2 DEF Begin, NoRun
  <2> QED
    BY <1>1, <2>1
<1>3. CASE Emit
  <2>1. CASE run.pc = "built"
    <3>1. /\ run'.pc = "invoke" /\ log' = log \cup {Event("built")}
          /\ run'.n = run.n /\ run'.state = run.state /\ run'.turn = run.turn
      BY <1>0, <1>3, <2>1, EmitCases, Tables DEF Goes
    <3>2. Event("built")' = Event("built")
      BY <3>1 DEF Event
    <3> QED
      BY <3>1, <3>2 DEF Evident
  <2>2. CASE run.pc # "built"
    BY <1>0, <1>1, <1>3, <2>2, EmitCases, Tables DEF Goes
  <2> QED
    BY <2>1, <2>2
<1>4. CASE WriteFile
  <2>1. /\ run.pc \in {"prompt", "manifest", "response"} /\ run'.pc = After[run.pc]
        /\ files' = files \cup {File(run.pc)}
        /\ run'.n = run.n /\ run'.state = run.state /\ run'.turn = run.turn
    BY <1>0, <1>4, WriteCases DEF Goes
  <2>2. \A name : File(name)' = File(name)
    BY <2>1 DEF File
  <2> QED
    BY <2>1, <2>2, Tables DEF Evident, Has
<1>5. CASE AppendHuman
  BY <1>0, <1>1, <1>5, GotoGoes, PcSet DEF AppendHuman, Goes
<1>6. CASE AppendReply
  <2>1. /\ run.pc = "reply" /\ files' = files /\ AppendConversationTurn("agent")
        /\ run'.pc = "completed"
        /\ run'.n = run.n /\ run'.state = run.state /\ run'.turn = run.turn
    BY <1>0, <1>6, GotoGoes, PcSet, Tables DEF AppendReply, Goes
  <2>2. Has("response")'
    BY <2>1 DEF Evident, Has, File
  <2>3. /\ run.state \in States
        /\ conv'[run.state] = Append(conv[run.state], [actor |-> "agent", run |-> run.n])
    BY <2>1, AppendKeepsType
  <2>4. conv[run.state] \in Seq([actor : {"human", "agent"}, run : 0..MaxRuns])
    BY <1>0, <2>3 DEF ConvType
  <2>5. /\ Len(conv[run.state]) + 1 \in DOMAIN conv'[run.state]
        /\ conv'[run.state][Len(conv[run.state]) + 1] = [actor |-> "agent", run |-> run.n]
    BY <2>3, <2>4
  <2> QED
    BY <2>1, <2>2, <2>5 DEF Evident
<1>7. CASE WriteSummary
  <2>1. /\ run.pc = "summary" /\ summary' = [summary EXCEPT ![run.state] = @ \cup {run.n}]
        /\ run'.pc = "summarized" /\ run'.n = run.n /\ run'.state = run.state
    BY <1>0, <1>7, GotoGoes, PcSet DEF WriteSummary, Goes
  <2>2. run.n \in summary'[run.state]
    BY <1>0, <2>1, RunFacts
  <2> QED
    BY <2>1, <2>2 DEF Evident
<1>8. ASSUME NEW d \in DecisionId, RecordDecision(d)
      PROVE  Evident'
  <2>1. /\ run' = [run EXCEPT !.pc = "decided", !.decision = d]
        /\ decisions' = [decisions EXCEPT ![d] = run.n]
    BY <1>8 DEF RecordDecision
  <2>2. run'.pc = "decided" /\ run'.decision = d /\ run'.n = run.n
    BY <1>0, <2>1 DEF RunType
  <2>3. decisions'[d] = run.n
    BY <1>0, <2>1
  <2> QED
    BY <2>2, <2>3 DEF Evident
<1>9. ASSUME UNCHANGED fileVars, run'.n = run.n, run'.state = run.state, run'.turn = run.turn,
             run'.decision = run.decision,
             \/ run'.pc = run.pc
             \/ run'.pc \notin Owing
             \/ run.pc \in {"invoke", "invoked"} /\ run'.pc \in {"invoked", "response"}
             \/ run'.pc = "versioned" /\ art'.committed > 0
      PROVE  Evident'
  <2>1. Event("built")' = Event("built") /\ \A name : File(name)' = File(name)
    BY <1>9 DEF Event, File
  <2> QED
    BY <1>0, <1>1, <1>9, <2>1 DEF Evident, Has, ArtType
<1>10. CASE Quiet
  <2>1. CASE run'.pc = "versioned" /\ run.pc = "commit"
    <3>1. GitCommit
      BY <1>0, <1>10, <2>1
         DEF Quiet, Index, Indexing, Indexed, BuildContext, ContextRaises, Invoke, Answered,
             CallRaised, CallProceeds, Calling, NoDecision, Outcome, Summarize, Summarized,
             SummaryRaised, EnsureRepo, GitAdd, GitStatus, CommitSource, NoCommit
    <3>2. ~ Goto("raised")
      BY <1>0, <2>1, GotoGoes, PcSet DEF Goes
    <3>3. art'.committed = art.staged /\ art.staged # art.committed
      BY <1>0, <3>1, <3>2 DEF GitCommit, Git, GitFails, ArtType
    <3> QED
      BY <1>0, <1>9, <1>10, <2>1, <3>3, QuietCases DEF ArtType
  <2>2. CASE ~ (run'.pc = "versioned" /\ run.pc = "commit")
    <3>1. \/ run'.pc = run.pc
          \/ run'.pc \notin Owing
          \/ run.pc \in {"invoke", "invoked"} /\ run'.pc \in {"invoked", "response"}
      BY <1>10, <2>2, QuietCases DEF Leads
    <3> QED
      BY <1>9, <1>10, <3>1, QuietCases
  <2> QED
    BY <2>1, <2>2
<1>11. CASE Elsewhere
  <2>1. CASE run' = run
    BY <1>9, <1>11, <2>1, ElsewhereCases
  <2>2. CASE run' = NoRun
    BY <1>1, <2>2, NoRunType
  <2> QED
    BY <1>11, <2>1, <2>2, ElsewhereCases
<1> QED
  BY <1>2, <1>3, <1>4, <1>5, <1>6, <1>7, <1>8, <1>10, <1>11, NextCases

-----------------------------------------------------------------------------
(* Versions of artifacts/ *)

\* A turn reaches its success only through the commit of artifacts/.
LEMMA VersionedKeeps ==
  ASSUME TypeOK, Versioned, Next
  PROVE  Versioned'
<1>0. /\ run \in RunType /\ run.made \in Nat
      /\ art \in ArtType
      /\ art.committed <= art.staged /\ art.staged <= art.work
  BY DEF TypeOK, RunType
<1>1. /\ art' \in ArtType
      /\ art'.committed <= art'.staged /\ art'.staged <= art'.work
      /\ art'.work >= art.work /\ art'.staged >= art.staged /\ art'.committed >= art.committed
  BY ArtifactsKeepType
<1> DEFINE Checked == {"failed", "status", "commit", "versioned", "source", "sourced", "done"}
<1>2. ASSUME run'.made = run.made, run'.failed = run.failed,
             run'.pc \in {run.pc} \/ run'.pc \notin Checked
      PROVE  Versioned'
  BY <1>0, <1>1, <1>2 DEF Versioned, ArtType
<1>3. ASSUME NEW s \in States, Begin(s)
      PROVE  Versioned'
  <2>1. run'.pc = "started" /\ run'.made = 0
    BY <1>3 DEF Begin, NoRun
  <2> QED
    BY <1>1, <2>1 DEF Versioned, ArtType
<1>4. CASE Emit
  <2>1. /\ run'.made = run.made /\ run'.failed = run.failed /\ run'.pc = After[run.pc]
        /\ art' = art
        /\ run.pc \in {"started", "built", "completed", "decided", "failed", "summarized",
                       "versioned", "sourced"}
    BY <1>0, <1>4, EmitCases DEF Goes
  <2> QED
    BY <1>0, <2>1, Tables DEF Versioned
<1>5. CASE WriteFile
  BY <1>0, <1>2, <1>5, WriteCases, Tables DEF Goes
<1>6. CASE AppendHuman \/ AppendReply \/ WriteSummary
  BY <1>0, <1>2, <1>6, GotoGoes, PcSet, Tables DEF AppendHuman, AppendReply, WriteSummary, Goes
<1>7. ASSUME NEW d \in DecisionId, RecordDecision(d)
      PROVE  Versioned'
  BY <1>0, <1>2, <1>7 DEF RecordDecision, RunType
<1>8. ASSUME NEW failed \in BOOLEAN, Answered(failed)
      PROVE  Versioned'
  <2>1. run'.pc = "response" /\ run'.made = art.work /\ art' = art
    BY <1>0, <1>8 DEF Answered, RunType
  <2> QED
    BY <1>0, <2>1 DEF Versioned, ArtType
<1>9. ASSUME NEW summarizer \in BOOLEAN, Outcome(summarizer)
      PROVE  Versioned'
  <2>1. CASE run.failed
    <3>1. Goes("failed") /\ art' = art
      BY <1>0, <1>9, <2>1, GotoGoes, PcSet DEF Outcome
    <3> QED
      BY <1>0, <2>1, <3>1 DEF Versioned, Goes
  <2>2. CASE ~ run.failed
    <3>1. Goes("summarize") \/ Goes("add")
      BY <1>0, <1>9, <2>2, GotoGoes, PcSet DEF Outcome
    <3> QED
      BY <1>2, <3>1 DEF Goes
  <2> QED
    BY <2>1, <2>2
<1>10. CASE EnsureRepo \/ GitAdd
  <2>1. CASE Goes("raised") \/ Goes("identity") \/ Goes("add")
    BY <1>2, <2>1 DEF Goes
  <2>2. CASE Goes("status") /\ art' = [art EXCEPT !.staged = art.work]
    BY <1>0, <2>2 DEF Versioned, Goes, ArtType
  <2> QED
    BY <1>0, <1>10, <2>1, <2>2, GotoGoes, PcSet DEF EnsureRepo, GitAdd, Git, GitFails
<1>11. CASE GitStatus
  <2>1. CASE Goes("raised")
    BY <1>2, <2>1 DEF Goes
  <2>2. CASE Goes("source") /\ art' = art /\ art.work = art.staged /\ art.staged = art.committed
    BY <1>0, <2>2 DEF Versioned, Goes
  <2>3. CASE Goes("commit") /\ art' = art /\ run.pc = "status"
    BY <1>0, <2>3 DEF Versioned, Goes
  <2> QED
    BY <1>0, <1>11, <2>1, <2>2, <2>3, GotoGoes, PcSet DEF GitStatus, Git, GitFails
<1>12. CASE GitCommit
  <2>1. CASE Goes("raised")
    BY <1>2, <2>1 DEF Goes
  <2>2. CASE /\ Goes("versioned") /\ art' = [art EXCEPT !.committed = art.staged]
             /\ run.pc = "commit"
    BY <1>0, <2>2 DEF Versioned, Goes, ArtType
  <2> QED
    BY <1>0, <1>12, <2>1, <2>2, GotoGoes, PcSet DEF GitCommit, Git, GitFails
<1>13. CASE CommitSource \/ NoCommit
  <2>1. (Goes("sourced") \/ Goes("done")) /\ art' = art /\ run.pc = "source"
    BY <1>0, <1>13, GotoGoes, PcSet DEF CommitSource, NoCommit
  <2> QED
    BY <1>0, <2>1 DEF Versioned, Goes
<1>14. CASE \/ \E supported \in BOOLEAN : Index(supported)
            \/ Indexing \/ Indexed \/ BuildContext \/ ContextRaises \/ Invoke
            \/ CallRaised \/ CallProceeds \/ NoDecision \/ Summarize
            \/ \E failed \in BOOLEAN : Summarized(failed)
            \/ \E swallowed \in BOOLEAN : SummaryRaised(swallowed)
  <2>1. run'.made = run.made /\ run'.failed = run.failed
    BY <1>0, <1>14 DEF Index, Indexing, Indexed, BuildContext, ContextRaises, Invoke, CallRaised,
                       CallProceeds, NoDecision, Summarize, Summarized, SummaryRaised, Goto, RunType
  <2>2. run.pc \in {"index", "indexing", "context", "invoke", "invoked", "decisions",
                    "summarize", "summarizing"}
    BY <1>14 DEF Index, Indexing, Indexed, BuildContext, ContextRaises, Invoke, CallRaised,
                 CallProceeds, Calling, NoDecision, Summarize, Summarized, SummaryRaised
  <2>3. run'.pc \in {run.pc} \/ run'.pc \notin Checked
    BY <1>14, <2>2, QuietCases DEF Quiet, Leads
  <2> QED
    BY <1>2, <2>1, <2>3
<1>15. CASE Elsewhere
  <2>1. CASE run' = run
    BY <1>2, <2>1
  <2>2. CASE run' = NoRun
    BY <1>1, <2>2, NoRunType DEF Versioned, ArtType
  <2> QED
    BY <1>15, <2>1, <2>2, ElsewhereCases
<1> QED
  BY <1>3, <1>4, <1>5, <1>6, <1>7, <1>8, <1>9, <1>10, <1>11, <1>12, <1>13, <1>14, <1>15, NextCases
     DEF Quiet

-----------------------------------------------------------------------------
(* Names *)

\* A number that fits the format has the digits of the format.
LEMMA SameDigits ==
  ASSUME NEW n \in Nat, n < Base^Width
  PROVE  Digits(n) = Width
<1> DEFINE P(w) == n < Base^w /\ \A v \in Width..(w - 1) : n >= Base^v
<1>1. Width \in Width..(Width + n) /\ P(Width)
  OBVIOUS
<1>2. ASSUME NEW w \in Width..(Width + n), P(w)
      PROVE  w = Width
  <2>1. w # Width => Width \in Width..(w - 1)
    OBVIOUS
  <2>2. w # Width => n >= Base^Width
    BY <1>2, <2>1
  <2> QED
    BY <2>2
<1>3. Digits(n) = CHOOSE w \in Width..(Width + n) : P(w)
  BY DEF Digits
<1> HIDE DEF P
<1>4. Digits(n) \in Width..(Width + n) /\ P(Digits(n))
  BY <1>1, <1>3
<1> QED
  BY <1>2, <1>4

\* As long as all do, the last names are those of the last numbers.
LEMMA RecentIsLast ==
  ASSUME NEW s \in States, NEW L \in Nat, DOMAIN conv[s] = 1..L, L < Base^Width
  PROVE  Recent(s) = {n \in 1..L : n > L - Window}
<1>1. \A m, n \in 1..L : NameBefore(m, n) <=> m < n
  <2> SUFFICES ASSUME NEW m \in 1..L, NEW n \in 1..L
               PROVE  NameBefore(m, n) <=> m < n
    OBVIOUS
  <2>1. Digits(m) = Width
    <3>1. m \in Nat /\ m < Base^Width
      OBVIOUS
    <3> QED
      BY <3>1, SameDigits
  <2>2. Digits(n) = Width
    <3>1. n \in Nat /\ n < Base^Width
      OBVIOUS
    <3> QED
      BY <3>1, SameDigits
  <2> QED
    BY <2>1, <2>2 DEF NameBefore
<1>2. ASSUME NEW n \in 1..L
      PROVE  Cardinality({m \in 1..L : NameBefore(n, m)}) = L - n
  <2>1. {m \in 1..L : NameBefore(n, m)} = (n + 1)..L
    BY <1>1
  <2>2. Cardinality((n + 1)..L) = IF n + 1 > L THEN 0 ELSE L - (n + 1) + 1
    <3>1. n + 1 \in Int /\ L \in Int
      OBVIOUS
    <3> QED
      BY <3>1, FS_Interval
  <2>3. n \in Nat /\ n <= L
    OBVIOUS
  <2>4. (IF n + 1 > L THEN 0 ELSE L - (n + 1) + 1) = L - n
    BY <2>3
  <2> QED
    BY <2>1, <2>2, <2>4
<1>3. Recent(s) = {n \in 1..L : L - n < Window}
  BY <1>2 DEF Recent
<1> QED
  BY <1>3

\* A number that does not fit the format breaks the property's own condition;
\* until then the window holds the last ones.
LEMMA RecentKeeps ==
  ASSUME TypeOK, RecentAreLatest, Next
  PROVE  RecentAreLatest'
<1>0. run \in RunType /\ conv \in ConvType
  BY DEF TypeOK, ConvType
<1>1. ASSUME run'.pc # "prompt"
      PROVE  RecentAreLatest'
  BY <1>1 DEF RecentAreLatest
<1>2. CASE BuildContext
  <2>1. run'.recent = Recent(run.state) /\ run'.state = run.state /\ conv' = conv
    BY <1>0, <1>2 DEF BuildContext, RunType
  <2>2. run.state \in States /\ conv[run.state] \in Seq([actor : {"human", "agent"}, run : 0..MaxRuns])
    BY <1>0 DEF RunType, ConvType
  <2>3. Len(conv[run.state]) \in Nat /\ DOMAIN conv[run.state] = 1..Len(conv[run.state])
    BY <2>2
  <2> QED
    BY <2>1, <2>2, <2>3, RecentIsLast DEF RecentAreLatest
<1>3. CASE run' = run /\ conv' = conv
  BY <1>3 DEF RecentAreLatest
<1>4. ASSUME NEW s \in States, Begin(s)
      PROVE  RecentAreLatest'
  BY <1>1, <1>4 DEF Begin, NoRun
<1>5. CASE Emit
  BY <1>0, <1>1, <1>5, EmitCases, Tables DEF Goes
<1>6. CASE WriteFile
  BY <1>0, <1>1, <1>6, WriteCases, Tables DEF Goes
<1>7. CASE AppendHuman \/ AppendReply \/ WriteSummary
  BY <1>0, <1>1, <1>7, GotoGoes, PcSet, Tables DEF AppendHuman, AppendReply, WriteSummary, Goes
<1>8. ASSUME NEW d \in DecisionId, RecordDecision(d)
      PROVE  RecentAreLatest'
  BY <1>0, <1>1, <1>8 DEF RecordDecision, RunType
<1>9. CASE Quiet
  <2>1. CASE run.pc = "context" /\ run'.pc = "prompt"
    <3>1. BuildContext
      <4>1. run'.pc # "raised"
        BY <2>1
      <4> QED
        BY <1>0, <1>9, <2>1, <4>1
           DEF Quiet, Index, Indexing, Indexed, ContextRaises, Invoke, Answered, CallRaised,
               CallProceeds, Calling, NoDecision, Outcome, Summarize, Summarized, SummaryRaised,
               EnsureRepo, GitAdd, GitStatus, GitCommit, CommitSource, NoCommit, Goto, RunType
    <3> QED
      BY <1>2, <3>1
  <2>2. CASE ~ (run.pc = "context" /\ run'.pc = "prompt")
    <3>1. run' = run \/ run'.pc # "prompt"
      BY <1>9, <2>2, QuietCases DEF Leads
    <3> QED
      BY <1>1, <1>3, <1>9, <3>1, QuietCases
  <2> QED
    BY <2>1, <2>2
<1>10. CASE Elsewhere
  BY <1>1, <1>3, <1>10, ElsewhereCases, NoRunType
<1> QED
  BY <1>4, <1>5, <1>6, <1>7, <1>8, <1>9, <1>10, NextCases

-----------------------------------------------------------------------------
(* The theorems *)

\* A project without turns.
LEMMA InitIInv == Init => IInv
<1> SUFFICES ASSUME Init PROVE IInv
  OBVIOUS
<1>1. CodeInv
  BY CodeInitInv DEF Init
<1>2. TypeOK
  <2>1. conv \in ConvType
    <3>1. PastFile \in [actor : {"human", "agent"}, run : 0..MaxRuns]
      BY DEF PastFile
    <3>2. [i \in 1..Past |-> PastFile] \in Seq([actor : {"human", "agent"}, run : 0..MaxRuns])
      <4>1. [i \in 1..Past |-> PastFile] \in [1..Past -> [actor : {"human", "agent"}, run : 0..MaxRuns]]
        BY <3>1
      <4>2. Past \in Nat
        OBVIOUS
      <4> QED
        BY <4>1, <4>2, SeqDef
    <3> QED
      BY <3>2 DEF Init, ConvType
  <2>2. CodeTypeOK /\ fresh.pc = "off"
    BY <1>1, NotBuilding DEF CodeInv, Init, CodeInit
  <2>3. CallTypeOK /\ ~ Calling /\ call = "idle"
    BY NoRunType DEF Init, CallInit, CallTypeOK, Calling, Pending
  <2>4. /\ run \in RunType /\ run.pc = "idle" /\ runs \in 0..MaxRuns
        /\ files \subseteq FileType /\ log \subseteq LogType
        /\ decisions \in [DecisionId -> 0..MaxRuns]
        /\ summary \in [States -> SUBSET RunId]
    BY NoRunType DEF Init
  <2>5. /\ art \in ArtType
        /\ art.committed <= art.staged /\ art.staged <= art.work
    BY DEF Init, ArtType
  <2> QED
    BY <2>1, <2>2, <2>3, <2>4, <2>5 DEF TypeOK, ConvType
<1>3. Numbered /\ TurnWrittenOnce
  BY NoRunType DEF Init, Numbered, TurnWrittenOnce
<1>4. Evident /\ LogHasEvidence
  BY NoRunType DEF Init, Evident, LogHasEvidence
<1>5. Dated
  BY DEF Init, Dated
<1>6. Versioned
  BY NoRunType DEF Init, Versioned
<1>7. RecentAreLatest
  BY NoRunType DEF Init, RecentAreLatest
<1> QED
  BY <1>1, <1>2, <1>3, <1>4, <1>5, <1>6, <1>7 DEF IInv

\* Every step keeps the invariant: each part from its own lemma.
LEMMA StepKeeps == IInv /\ [Next]_vars => IInv'
<1> SUFFICES ASSUME IInv, [Next]_vars PROVE IInv'
  OBVIOUS
<1>1. CASE Next
  BY <1>1, TypeKeeps, NumberedKeeps, EvidentKeeps, DatedKeeps, EvidenceKeeps, VersionedKeeps,
     RecentKeeps
     DEF IInv
<1>2. CASE UNCHANGED vars
  <2>1. CodeInv'
    BY <1>2, CodeStepKeeps DEF IInv, vars, CodeStep
  <2>2. CallTypeOK' /\ (Calling <=> call # "idle")'
    BY <1>2 DEF IInv, vars, TypeOK, CallTypeOK, Calling
  <2>3. TypeOK'
    BY <1>2, <2>1, <2>2 DEF IInv, vars, TypeOK, CodeInv
  <2>4. Numbered' /\ TurnWrittenOnce'
    BY <1>2 DEF IInv, vars, Numbered, TurnWrittenOnce
  <2>5. Evident'
    BY <1>2 DEF IInv, vars, Evident, Has, File, Event
  <2>6. Dated' /\ Versioned'
    BY <1>2 DEF IInv, vars, Dated, Versioned
  <2>7. LogHasEvidence'
    BY <1>2 DEF IInv, vars, LogHasEvidence, HasFile
  <2>8. RecentAreLatest'
    BY <1>2 DEF IInv, vars, RecentAreLatest
  <2> QED
    BY <2>1, <2>3, <2>4, <2>5, <2>6, <2>7, <2>8 DEF IInv
<1> QED
  BY <1>1, <1>2

\* The inductive invariant: numbers are used up before they are written under,
\* events are owed only what is on disk, and work is staged before it is
\* committed.
THEOREM Invariance == Spec => []IInv
BY InitIInv, StepKeeps, PTL DEF Spec

\* Every variable keeps its type; a call, or an ensure_fresh, is only ever
\* open for the turn that waits for it.
THEOREM TypeCorrect == Spec => []TypeOK
<1>1. IInv => TypeOK
  BY DEF IInv
<1> QED
  BY <1>1, Invariance, PTL

\* No two runs write under the same number of a state, whatever was killed
\* when (next_turn_sequence, write_turn_artifact).
THEOREM TurnWrittenOnceHolds == Spec => []TurnWrittenOnce
<1>1. IInv => TurnWrittenOnce
  BY DEF IInv
<1> QED
  BY <1>1, Invariance, PTL

\* events.jsonl never reports what is not on disk.
THEOREM LogHasEvidenceHolds == Spec => []LogHasEvidence
<1>1. IInv => LogHasEvidence
  BY DEF IInv
<1> QED
  BY <1>1, Invariance, PTL

\* A turn that succeeded has its work in artifacts/ committed.
THEOREM SuccessIsVersionedHolds == Spec => []SuccessIsVersioned
<1>1. IInv => SuccessIsVersioned
  BY DEF IInv, TypeOK, RunType, Versioned, SuccessIsVersioned
<1> QED
  BY <1>1, Invariance, PTL

\* As long as all numbers of a state fit the format of the names, an agent is
\* shown the latest conversations (RecentTurnsProvider).
THEOREM RecentAreLatestHolds == Spec => []RecentAreLatest
<1>1. IInv => RecentAreLatest
  BY DEF IInv
<1> QED
  BY <1>1, Invariance, PTL

\* An index of a clean tree that a turn is given is that of its revision.
THEOREM IndexFitsHolds == Spec => []IndexFits
<1>1. IInv => IndexFits
  BY DEF IInv, CodeInv
<1> QED
  BY <1>1, Invariance, PTL
=============================================================================
