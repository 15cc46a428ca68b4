# Verification of agentic-dev

TLA+ models, TLC runs and TLAPS proofs of the orchestrator in
`src/src/agentic_dev`: a program that drives a project through a declared
workflow, one agent turn at a time, from a command line or a Telegram chat, and
lets only a human's typed approval move the project on. All state is files:
`state.yaml` and `events.jsonl` per project, `config/projects.yaml` for all.

Paths below are relative to `src/src/agentic_dev` unless they start with `src/`.
`PROJECT.json` maps each definition to its lines.

## 1. Inventory

| Component | State it keeps | Operations | What is hard | What makes it correct |
|---|---|---|---|---|
| Workflow definition (`domain/workflow.py`) | none after loading | `load`, `advance` | cycles, branching approvals, states nobody reaches | a definition loads iff it is well formed and connected; a state that waits for an approval can be given one |
| Approvals (`domain/approvals.py`, `app/approval_flow.py`) | none; writes `state.yaml`, then the event log | `resolve_command`, `resolve_callback`, `apply_approval` | free text against typed approvals, stale buttons, a kill between the two writes | a project only moves by an approval its state asks for; log and state agree |
| Sessions (`domain/sessions.py`) | the `session` entry of `state.yaml` | `decide`, `open`, `record_turn` | many boundary triggers, some read before they change | no turn resumes a conversation of another state, role or revision |
| Turn runner (`app/turn_runner.py`) | `state.yaml` through the store | `run_turn`: up to five read-modify-writes around a Hermes call of minutes | reads before the call used after it; every step may raise | the retry budget bounds failures; the diff base is captured once; nothing but an approval advances |
| Project store (`adapters/storage/store.py`) | `state.yaml`; `conversations/`, `turns/`, `summaries/` | `read_state`, `update_state`, atomic write; append, number and write files | no lock: one writer at a time is a discipline, not a mechanism; kills between two files | what is read is still true when it is written back; no file of a turn is written twice |
| Command line (`entrypoints/cli.py`) | none | `turn`, `approve`, `project new`, `status` | kills | every command ends; see the engine |
| Telegram bot (`entrypoints/telegram/`) | inbox, callback table, pending questions: all in memory | message, click, `/create`, `/import`, `/link`; one worker task, one thread | the loop applies approvals while the thread runs a turn; calls that raise; restarts | a button grants once; every queued turn is run or answered |
| Registry, creation, import (`adapters/registry.py`, `app/project_creation.py`, `adapters/git/project.py`, `adapters/telegram/topics.py`) | `config/projects.yaml`, the first `state.yaml`, the clone | register, link, clone, create a topic | unlocked read-modify-write by two processes; kills half way | nothing registered is lost; no project starts over |
| Context assembly (`domain/context/`, `adapters/context/providers.py`) | none | `build`: policy, dedupe, budget, rendering; ten providers | priorities and volatilities spread over all providers; blinding spread over three files | blinding, a complete manifest, a bounded package, a stable prefix |
| Project source git (`adapters/git/project.py`) | the source tree | head, commit, diff, clone | the tree moves under the turn | the diff base and the index name what they mean |
| Hermes invocation (`adapters/hermes/invocation.py`, `runtime.py`) | a child process; Hermes's own conversations | run, resume, export of usage | failure, timeout, a kill that leaves the child, an id that is not recovered | a call returns; it leaves no Hermes behind without a fault |
| HTTP runtime (`adapters/hermes/http_client.py`, `entrypoints/http/server.py`, `adapters/indexing/remote.py`) | a server process with its child | `/run`, `/index` | two timeouts counted apart; lost connections; either side killed | the same contract as the in-process runtime |
| Codebase index (`adapters/indexing/`, `src/tools/dart_indexer`) | `indexes/metadata.json`, `indexes/graph.json` | `ensure_fresh` | the tree moves while it is indexed; two files, written in place | an index handed on is that of its revision |
| Artifact versioning (`adapters/git/artifacts.py`) | the git repository in `artifacts/` | `ensure_repo`, `commit` | git fails, is killed, finds others' edits | a turn that succeeds is under version control |
| Event log (`adapters/storage/events.py`) | `events.jsonl` | append | kills between an event and what it reports | no event without its evidence |
| Summarizer (`app/summarizer.py`) | `summaries/<state>.md` | a second Hermes call, a rewrite | a best-effort step that fails | it fails no finished turn (it can: section 5) |
| Roles, models, settings (`domain/roles.py`, `settings.py`, `adapters/workspace.py`), rtk wrapper, benchmark, deployment | configuration | parse | none of the system's state depends on them | not modelled |

How they meet: the two entry points call the turn runner and the approval flow,
which share `state.yaml` through the store; the turn runner asks the session
manager, then the index, then the context builder, then Hermes through one of two
runtimes, then perhaps the summarizer, then git; the bot adds a queue, a thread
and a table of buttons; the registry decides which project a chat drives. The
hazards in `PROJECT.json` name the lines where this can go wrong.

## 2. Modules

| Module | Models | Extends |
|---|---|---|
| `Workflow` | a definition's states, `_validate`, `advance` as operators | |
| `WorkflowLoad` | `load()` as a process: parse, validate, the reachability walk | `Approvals` |
| `Approvals`, `Sessions` | resolution of approvals; sessions and their boundaries, as operators | `Workflow` |
| `TurnEngine` | `state.yaml` with `run_turn` and `apply_approval`, read by read and write by write | both |
| `CliProject` | one project and commands that run one at a time and may be killed | `TurnEngine` |
| `TelegramBot` | one project and the bot: event loop, worker, thread, buttons, restarts | `TurnEngine` |
| `ApprovalGate` | abstract: a project moves along one approved edge at a time, or to `blocked` | `Workflow` |
| `AgentCall` | abstract: what a caller of `AgentRuntime.run` may rely on | |
| `AgentRuntime` | the in-process and the HTTP runtime with their timers and faults | |
| `CodeIndex` | `ensure_fresh` and its two files beside a source tree that moves | |
| `TurnFiles` | everything `run_turn` writes besides `state.yaml`, write by write | `AgentCall`, `CodeIndex` |
| `Onboarding` | how projects are created, imported, linked, by the bot and a command beside it | `Workflow` |
| `ContextBuilder`, `ContextProviders` | `ContextBuilder.build()` loop by loop; what each provider proposes for each role | |
| `DocumentedClaims`, `BotClaims` | sentences of the documentation that the code refutes | `CliProject`, `TelegramBot` |
| `CliProjectProofs`, `TelegramBotProofs`, `WorkflowLoadProofs`, `ContextProofs`, `AgentRuntimeProofs`, `CodeIndexProofs`, `TurnFilesProofs`, `OnboardingProofs` | proofs | the module of their name; `ContextProofs`: `ContextProviders` |
| `MCGraphs`, `MCProject`, `MCClaims`, `MCBot`, `MCLoad`, `MCOnboarding`, `MCContext` | constants of the runs | |

How state and actions correspond to the code:

* `disk` is `state.yaml`, absent keys at their defaults. `update_state` is two
  steps, `ReadState` into a buffer and a write of that buffer, because it holds
  no lock. `turn.snap` is the `state_data` that `run_turn` reads first and goes
  on using; `turn.pc` is where `run_turn` stands. Each `raise` that leaves
  `run_turn` is an action (`TurnRaises`, `FinishRaises`).
* `granted` and `decided` are the events the properties compare with
  `state.yaml`; `hermes` is what Hermes itself remembers. `failures` is history:
  the failed turns of the present stay in a state.
* In `TelegramBot` an action is what runs between two awaits: of
  `handle_approve_callback`, of `inbox_worker`, of the dispatcher. The thread
  that `run_turn` works in takes `TurnStep`s in between. `apply_approval` awaits
  nothing, so no other coroutine runs until it returns, but the thread does.
* `AgentRuntime` has one `job` per call made, with the phase it is in (on its way,
  Hermes, export, reply) and the time left to that phase. The client's timer is
  another one. A `Tick` takes one unit from every timer that runs and is not
  allowed past one that is due. In-process, there is no client timer and nothing
  is ever on its way. A `job` that nobody awaits and that still has, or will
  have, a Hermes is a stray.
* `TurnFiles` is `run_turn` a second time, cut where it writes: `run.pc` is the next
  thing to be written or called. `AgentCall` stands for the runtime, so a call cut
  off may leave a stray that edits `artifacts/` and the tree during the next turn;
  `AgentRuntime` is proved to be such an `AgentCall`. A turn runs in any state:
  which one `state.yaml` holds is `TurnEngine`'s matter. `files`, `log` and
  `summary` say which run wrote what; conversation files are a sequence.
* In `CodeIndex` a content of the tree is a number, a commit remembers one, and a
  built graph remembers which content it was made from. Writing either JSON file
  is two steps, the first of which leaves it torn.
* In `Onboarding` both the bot and the command have a program counter; reading
  and writing `projects.yaml` are separate steps.
* In `ContextBuilder` one action looks at one candidate; `todo` is the rest of
  the loop's input, `kept` its output so far. Contents and keys are compared,
  never read.
* Definitions marked `BROKEN` are never used by a specification. Each is a
  plausible bug that the properties are tested against.

## 3. Runs

| Run | Bounds | Shows |
|---|---|---|
| `cli_project` | 3 turns, 1 commit by others, 1 kill | the whole engine with commands one at a time: refinement of `ApprovalGate`, the audit trail, the retry budget, when a project is blocked, the diff base, and that commands end |
| `bot_safety` | 2 messages, 2 clicks, 4 turns, 1 restart | under every interleaving of loop and thread the project stays in approved states, a button grants once, a resumed conversation fits, the budget holds |
| `bot_liveness` | 2 messages, 1 click, 3 turns, 1 commit by others, no restart | every update is handled and every job taken, whatever raises |
| `workflow_load` | 3 states from 18 specifications, and `blocked`; the shipped `workflow.yaml` | the walk ends, its verdict is right, and in what loads a state that waits for an approval is left by exactly the types it asks for |
| `onboarding_safety` | 2 names, 1 chat, 3 updates, 1 command, 1 crash | what survives failures, kills and an overlapping command |
| `context_build` | 97 worlds, 5 roles, 2 budgets, two consecutive turns, full or continued; 689 requests no provider makes | the manifest is complete, blinding holds, dedupe and budget do what they say, the prefix is stable |
| `agent_runtime` | timeouts 3 (configured) and 7 (default), buffer 3, lag 1, 3 calls, 2 faults | both runtimes are an `AgentCall`; exceptions have causes; every call returns |
| `turn_files` | 2 turns after 5 earlier ones, 1 fault, 1 edit of the tree, 1 of `artifacts/`; numbers of 3 binary digits, a window of 2 | turn numbers, evidence, versions, the index and the recent turns hold wherever a kill strikes |
| `claim_typed`, `claim_failed`, `bot_claim_approval`, `context_claim_criteria` | as small as shows it | four sentences of the documentation that do not hold (section 5) |

Why the bounds are enough. The engine's workflow (`MCGraph`) is the shipped one
with states of equal kind cut out: it keeps a branching collaborative state, a
plain one, an autonomous one with its retry budget, a gate and terminal states;
the file as shipped (`ShippedGraph`) is among those `workflow_load` loads.
Three turns exhaust a budget of two and see it refused. `MaxSessionTurns` is 2 or 3 so
that a session also ages out by count. Two clicks are one button clicked twice,
or two buttons; one restart separates a button from the process that drew it.
Lost updates need one approval inside one turn; two of each give a lost update
on top of another. In `context_build` a limit of 7 leaves out something in every
role with a full world and 12 leaves out little.

In `agent_runtime` the default timeout is longer than the configured one plus the
buffer, so that a side that used the wrong one would show. An export that hangs has a
timer of its own that starts when Hermes is done, here up to 1 + 3 units after the call,
and runs to 7; the client's runs out at 6, as at 630 s against 1200 s in the shipped
configuration, so the client's timeout comes first. Three calls are
one running, one left behind and one older still; the shipped 600 s and 30 s
differ only in scale, and the theorems do not depend on them. In `turn_files`
five earlier conversations and two turns reach the eighth file, the first whose
number does not fit three binary digits (as `{seq:03d}` is outgrown at 1000). The
repository in `artifacts/` does not exist yet, so both turns meet `ensure_repo`;
one fault kills a turn, or cuts off its call, and the second turn meets what it
left; checkouts are not bounded.

Deadlock is checked in the project runs. The bot, the loader, the chats, the
builder, the runtime and the turns on disk do stop: at the bounds on messages,
calls and turns, or because `load()` and `build()` return.

Fairness. `CliProject!FairSpec` asks that a process that runs goes on running:
weak fairness of its next step, none of the kill or of the human. The bot's asks
it of the loop, the worker and the thread, and that Telegram and Hermes calls return
or raise: Hermes runs under a timeout and the library sets one for its
calls. No human ever has to do anything. `WorkflowLoad` is a loop in one process.
`AgentRuntime!FairSpec` asks that time passes, that a timeout that is due strikes
(`HermesTimesOut`, `ExportTimesOut` and, for httpx, `ClientTimesOut`), that the server
takes up a request and that an answer that is there is delivered. Without the fairness
of `ClientTimesOut` the run fails: a hanging export then outlasts the client for ever. It asks nothing of Hermes or of the
export, which may never end.

## 4. Properties worth a comment

* `GateSpec`: the detailed specification implements `ApprovalGate` under the
  mapping of `workflow_state` and `artifact_revision` to `state.yaml`'s. It holds
  only because commands run one at a time; the bot has `OnlyApprovedStates`
  instead, as a lost update may undo an approval (section 5).
* `RetryBudget` compares `state.yaml`'s arithmetic with the history of failures.
  It is exact up to one failure per killed process: the count is written after
  Hermes has failed.
* `AuditTrail`: the log never has an approval that `state.yaml` lacks, and
  lacks at most one per killed command.
* `ResumeFits` is about Hermes's own conversation, not about the session entry.
* `NothingLost` (onboarding) is claimed while bot and command did not overlap.
  When they do, one of the two entries written to `projects.yaml` is lost.
* `GatesOpen` relates what `approvals.py` asks for in a state to where `advance()` goes
  for it. It does not speak of autonomous states: those wait for no approval, and
  section 5 tells what becomes of them.
* `CacheablePrefix`: comparing two consecutive full packages of a role, each text that
  is steadier than everything that changed stands where it stood. It depends
  on all the providers' numbers together: that whatever is steadier is also
  selected earlier.
* `CallSpec`: under the mapping that looks only at the awaited job and counts the
  others, both runtimes implement `AgentCall`. The hard part is that a client
  timeout is never a `CutOff`: when it strikes, Hermes is over. It is false
  with one timeout for both sides, or with another default on the server.
* `RaisesForCause` counts as a cause an error answer, a fault, and output of Hermes that
  cannot be read. It states the one exception: a continuation's export may outlast the
  buffer (section 5).
* `CallReturns` holds for a Hermes that never ends, in both runtimes, for the
  export as well, whichever side's timeout comes first, and whatever is killed.
* `TurnWrittenOnce` depends on the order of writes in `run_turn`: the number is
  used up by the human's file, before anything is written under it.
* `LogHasEvidence` looks both ways at every moment: an event's files are there, and
  a response has a prompt the log knows. A file without its event is the normal
  trace of a kill.
* `SuccessIsVersioned` is about the work there was when Hermes answered, whatever
  was staged or locked before; what is edited later is the next turn's.
* `IndexFits` is claimed for indexes built from a clean tree, unless a save was cut in
  two *and* somebody then checked out an older commit (section 5).
* `RecentAreLatest` is claimed while all numbers of a state have the digits of
  the format.
* `NeverBarred` is the bug told in `FoundationalDocsProvider`'s docstring;
  `Blinded` is the guarantee behind it.

## 5. Where the code and its documents disagree

* **Free text approves.** `agentic approve p "looks good"` becomes
  `/approve looks good`. No pattern matches it, `resolve_command` returns
  feedback instead of raising, and `apply_approval` does not look at what it
  returns. In a state that asks for no approval (`implementation`, a chain
  state) `advance()` follows `next`. (`claim_typed`)
* **A failed first turn is resumed.** `SessionManager.open` does not record the
  outcome, so the turn after a failed first turn resumes the failed
  conversation. (`claim_failed`)
* **An approval can be lost.** A button is applied while a turn is running; the
  turn's later `update_state` had read before it, and writes the old state back.
  The chat was told "Approved" and the log has it. (`bot_claim_approval`)
* **QA never sees the acceptance criteria.** Its allowlist names a section; the
  provider proposes the whole file, which does not match; the role's soul and
  `context.md` are not allowed either. The prompt has the diff and the task.
  (`context_claim_criteria`)

Seen on the way, not run as claims.

Workflow and approvals:

* Autonomous states do not advance. `src/docs/plan.md:230` ("dispatch, run to
  completion, advance") and the comment at line 6 of `workflow.yaml` say that they do; a
  successful turn resets `attempts` and leaves `workflow_state` alone
  (`app/turn_runner.py:252`), and no typed approval or button is accepted there
  (`domain/approvals.py:114`, `:146`). Only the free text of the first disagreement
  above moves a project on from one.
* A gate has no button: the keyboard is made after a turn, and a gate runs none,
  so only the command line moves a project on from it. `project new` without
  an import leaves the leading gate shut, and the next line of the quick start
  (`src/README.md:54`) is refused.
* A turn that raises counts as no attempt, so a state whose runtime is
  unreachable is never blocked. An exhausted state is moved to `blocked` by
  name, although a definition need not declare it (`app/turn_runner.py:171`).
* `load()` counts `next` beside `next_by_approval`, `on_failure` and `on_reject` as ways to
  reach a state; `advance()` takes none of them (`domain/workflow.py:173`).
* `/link` in a chat that already drives a project leaves the chat with the first
  one (`adapters/registry.py:105`). Tokens of buttons nobody clicks stay in
  `callback_table`. A long clone holds up every chat (`handlers.py:329`).

Calls of Hermes:

* A continuation runs Hermes and then the export of its usage, each with the whole
  timeout (`adapters/hermes/invocation.py:258`), while the client waits for one
  timeout and 30 seconds: a slow export has the client give up on a turn that
  finished. An export that fails marks a good continuation as failed.
* A usage file that is no text, or a usage report that is JSON but no object, raises
  after Hermes has ended (`adapters/hermes/invocation.py:140`, `:157`, `:178`), although
  the parsers mean to answer with a failed usage. Over HTTP that is a 500, and the turn
  raises instead of counting as failed. A body of the server that does not parse
  (`adapters/hermes/http_client.py:77`) raises what is no `RuntimeClientError`.
* `RemoteIndexer`'s client timeout equals its server's, with no buffer.
* Killed in-process, the orchestrator may leave a Hermes behind that nothing times.
* The in-process runtime's `HermesInvocationError` is no `RuntimeError`: from a
  summary it leaves a turn that has succeeded, with its attempts not reset and its
  work not versioned (`app/summarizer.py:100`). The summary's call is in no event,
  although `events.py:4` means the log to be complete.
* A full turn whose session id is not recovered opens a session called `unknown`.

Files:

* `metadata.json` torn by a kill makes every later `ensure_fresh` raise, which
  `turn_runner.py:470` swallows: no index is ever made again. A torn `graph.json`
  makes `IndexProvider` raise out of guided turns (`providers.py:394`) instead of
  going without an index (`turn_runner.py:453`).
* A kill between the two saves leaves a new graph with the old metadata. It does no
  harm until the old commit is checked out. An index of a dirty tree, or one that
  moved, is labelled with the revision read before.
* A kill in `git` leaves `index.lock` in `artifacts/`, and each turn that succeeds then
  raises (`adapters/git/artifacts.py:46`). A kill between `git init` and the identity
  (`:28`) leaves a repository that `ensure_repo` takes for finished: its commits then need
  an identity of the machine's own, or raise. An `index.lock` in the source
  tree silently stops the builder's commits. `commit_all` commits what others had
  edited, too.
* A kill between AGENT_TURN_STARTED and the human's file gives two runs the same turn
  id in the log. A decision block with an id that was used, or none, overwrites
  the earlier file. Past `999`, names no longer sort by number.

Context:

* A continuation resends the whole package. `src/docs/plan.md:264` ("delta packages run
  providers in `changed_since` mode", also 116, 397 and 417) and `src/docs/progress.md:72`
  ("Delta packages contain only what changed since the session opened", ticked) promise
  less, and a continuation's manifest says of itself that it "lists the delta only"
  (`domain/context/manifest.py:57`). `TurnRunner._build_context` passes the kind
  `delta` (`app/turn_runner.py:307`), and nothing looks at it or at `since_turn`
  (`domain/context/builder.py:46`). The model's requests carry the kind and no action
  reads it, as in the code. `CacheablePrefix` is for that reason about consecutive full
  packages, where nobody promised less.

References (volatility 3 and 4) are rendered after the most volatile turns;
an item dropped as "identical content already included as K" stays dropped when K
itself is then left out for the budget; the estimate counts neither the task nor
the headings.

## 6. Proofs

All for every value of the constants that the modules' assumptions admit:
any well-formed workflow that declares `blocked` as a terminal state, any number
of turns, kills and commits, any request, policy and limit.

* `CliProjectProofs`. `IInv` says what each property needs of the moments in
  between: one operation runs at a time; the first read of a running turn or
  approval, and the buffer of its update, are still what `state.yaml` holds; a
  turn past its start had attempts left; the stored count is the history's, up to
  the failure in flight and one per kill. None of the properties is inductive
  without the "still current" part, which is what one writer at a time buys. There is one
  lemma per action. `TypeCorrect`, `RetryBudgetHolds`, `BlockedIsEarned` and
  `BaseHolds` follow, and `Refinement`, which maps the only two moving writes to the
  two actions of `ApprovalGate` and all else to stuttering. `AuditTrailHolds`
  has an invariant of its own on top, about the approval that is written and not
  logged yet.
* `TelegramBotProofs`, for any number of messages, clicks, turns and restarts and
  any finite set of approval types. Here a buffer may be stale while it waits to be
  written, so "still current" is false and the argument is another one: whatever
  a later write may put into `state.yaml` is sound by itself. `IInv` says it part by
  part, of `state.yaml` and of every first read and buffer that can be written
  back: `StatesApproved` (each names the initial state, one a button was granted for,
  or `blocked`), `SessionsFit` (each session was opened in the state and revision
  it is stored under), `Budgeted` (each count covers the failures of its stay, up to
  those a restart lost), with `TurnBegan` for what a running turn's first read passed.
  `TokensUsedUp` makes `GrantedOnce` inductive: a token the handler holds is in
  neither the table nor the history, and new ones are larger than all before.
* `WorkflowLoadProofs`. `WalkInv`: what was seen or waits is reachable, and every
  edge of what was seen ends in seen or waiting. With nothing waiting, seen is
  closed, and `Reachable` is the smallest closed set. `VerdictCorrect` and
  `LoadedGatesOpen` follow, for every order of the walk; the second needs of a loaded
  file only what `_validate` has checked.
* `ContextProofs`, for the builder under any request, policy, limit, cost and order of
  keys. `TypeCorrect` (the limit), `AccountedHolds`,
  `BlindedHolds`, `NothingMoreFitsHolds`, `UnrepeatedHolds` have each a small
  invariant that says what the loops so far have established. For dedupe that is:
  all it has looked at comes before all it has not, so what it drops repeats an
  item of better priority.
  * `GreedyByPriorityHolds`: `GreedyInv` says during the loop what `GreedyByPriority`
    says after it, and that whatever is still to come comes after everything
    selected, so a new item changes nobody's sum. The lemmas on sums (`SumAdds`,
    `SumImage`) are about finite sets of any size. They are proved by the
    least size at which they would fail (`NatLeast`), which needs no induction rule.
  * `DoneAsDefinedHolds`: where keys are distinct, a finished build is `Built`, a
    definition in terms of the *set* of items: `Deduped`, `Selected`, `Laid`. The
    four loops are forgotten from there on. `OnePromptOfItems` follows: that
    definition determines the prompt, so the order in which providers propose the
    items does not matter ("the same inputs must produce a byte-identical prompt").
  * `CacheablePrefixHolds` compares two `Built` prompts of full requests. `ChoicesAgree`: items that
    come before all that changed are deduped and selected alike, because the first
    one that was not would have had the same items before it. `PromptsAgree`: prompts
    are equal up to the first item that one of them lacks. What joins them is
    about the providers: `SteadierComesFirst`, of a turn's items a steadier text
    has the better priority. `PreviousInv` remembers that the last build was `Built`.
  * `NeverBarredHolds`, for any number of files, turns and texts on disk.
    `TurnIsPart` goes through the providers: each proposes only items of its own
    drawer of keys, with the layer, priority and volatility of that drawer, none
    denied; drawers do not overlap, so keys are distinct, which the two theorems
    above need.

  Three assumptions on constants go beyond types. `WorldsAssumption`: an index lists
  finitely many files, and a turn file is named by its number, different numbers
  differently (`f"{seq:03d}"`). `FollowsAssumption`: what is called a later turn is a
  turn of the same role under the same limit; across a change of either nothing is
  promised, in the code or here. `BuilderAssumption`: no two keys rank alike, as
  different strings do not.

* `AgentRuntimeProofs`, for every timeout, buffer, number of calls and faults, with
  one assumption: a request and an answer together take less than the buffer
  (`2 * MaxLag < Buffer`). `IInv` adds to the types `ClientIsLater`: the client's timer
  is ahead of whatever the awaited job may still need, up to the lag already spent,
  in each phase but the export's. Neither `RaisesForCause` nor the refinement is
  inductive without it: it is what tells a late client from an early one.
  `RaisesForCauseHolds` follows, and `Refinement`: each action is shown to map to a step
  of `AgentCall` or a stutter, with the strays counted as a cardinality.
* `CodeIndexProofs`. `CodeInv` is kept by every step of `ensure_fresh`, of a kill and of
  the tree (`CodeStepKeeps`). Its heart is `StoredFits`: the two files agree, unless a
  save is or was cut in two; and then (`IndexesLater`) the metadata names a commit
  before the one checked out, as long as nobody went back.
* `TurnFilesProofs`, for any number of turns, states, kills, edits and strays. `IInv`
  adds `Numbered` (a number is used up before anything is written under it, and what
  has the running turn's number is of this run), `Evident` (what the next event will
  say is already on disk), `Dated`, `Versioned` (how far the turn's work has got: on
  disk, staged, committed) and `CodeInv`. All six invariants of the run follow.
  `Base^Width \in Nat` is assumed because the provers know nothing of `^`.

* `OnboardingProofs`, for any finite set of project names and any number of chats,
  updates, commands and kills. Two arguments side by side. While nothing has overlapped
  (`Alone`, `Current`) one process is at work, its copy of `projects.yaml` is the file, and
  the project it is creating had no `state.yaml`: hence `NothingLostHolds` and
  `NoRestartHolds`. And whatever overlaps, `Orphans`, the projects without a
  `state.yaml` that are registered *or that some stale copy still holds*, only grow by
  a kill in the middle of `create_project`. `StateExists` is not inductive without the
  copies: a write that loses such an entry and one that brings it back leave no trace in
  the file. `ImportHasSourceHolds` needs only that no step spoils a finished clone.

Only model-checked: liveness (`CommandEnds`, `QueueDrains`, `LoadEnds`, `CallReturns`), which is
beyond the prover. Every other property of the passing runs is a theorem. The sentences of
the documentation that do not hold (section 5) are refuted by TLC.

## 7. Not modelled, and why

Texts (prompts, answers, manifests, diffs) are compared and not read. Parsing of
commands, YAML and decision blocks is a choice of outcomes. Wall-clock age of a
session is nondeterministic. A collision of two random button tokens, and a
write of `projects.yaml` cut in the middle, are left out. Globs in context
policies are left out: no shipped policy has one. `manifest_from_tool_log`,
`can_transition` and `fail` have no caller. The bot and a command working on the
same project at once is not modelled; nothing in the code prevents it. Nor are
several projects in one inbox, the splitting of long answers, the server's `/exec`
(no caller), the parsing of roles, models and settings, the rtk wrapper, and the
Dart extractor, of which only the outcome matters. Of the log's events,
SESSION_OPENED, SESSION_INVALIDATED and PROJECT_BLOCKED are left out: they repeat what
`state.yaml` says. `state.yaml` and the other files of a turn are two models of
`run_turn` (`TurnEngine` and `TurnFiles`), not composed: together they are beyond
TLC, and neither reads what the other writes, except the workflow state, which
`TurnFiles` leaves open.

## 8. Plan

Done, in this order: workflow and its loader; approvals, sessions, turn engine,
command line and their proofs; the bot; onboarding; context assembly; the
runtimes, the index and the files of a turn, with their proofs; the shipped
providers' numbers and denylists, the greedy budget and the prompt as a function of
the items.

Next, extending the model: bot and command on one project, two projects in one
inbox; splitting of long answers as a pure function.

Then, proving: that with the assumption of distinct keys dropped, `Built` still
describes the prompt (keys repeat only in requests no provider makes).

## 9. Running

`tlc -config <run>.cfg <module>` with the pairs of `PROJECT.json`; `tlapm
<module>.tla` for each of the eight proof modules. The longest run, `agent_runtime`,
takes about three minutes on two cores; `turn_files`, `bot_liveness`, `context_build` and
`cli_project` one to two;
`TelegramBotProofs` and `TurnFilesProofs` take a few minutes.
