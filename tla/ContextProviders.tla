-------------------------- MODULE ContextProviders --------------------------
(***************************************************************************)
(* What the providers propose for a turn and the policies of the shipped   *)
(* roles.  A world is what a turn finds on disk: texts, or Nothing where a *)
(* file is absent.  TurnRequest is the request that _build_context makes   *)
(* of a role and a world; ContextBuilder does the rest.                    *)
(***************************************************************************)
EXTENDS ContextBuilder, SequencesExt

CONSTANTS
  TurnFile,  \* the names of a state's turn files, by number
  Worlds     \* what turns find on disk

World ==
  [soul : Content \cup {Nothing}, identity : Content \cup {Nothing},
   artifact : Content \cup {Nothing}, prd : Content \cup {Nothing},
   architecture : Content \cup {Nothing}, report : Content \cup {Nothing},
   decisions : [{"D1", "D2"} -> Content \cup {Nothing}],
   summary : Content \cup {Nothing}, turns : Seq(Content),
   files : SUBSET STRING, named : SUBSET STRING, imports : SUBSET (STRING \X STRING),
   diff : Content \cup {Nothing}]

\* None names no file; an index lists the files it has, finitely many; a turn
\* file is named by its number.
ASSUME WorldsAssumption ==
  /\ Nothing \notin {"tech-plan.md", "architecture.md", "task-log.md"}
  /\ Worlds \subseteq World
  /\ \A w \in Worlds : IsFiniteSet(w.files) /\ DOMAIN w.turns \subseteq DOMAIN TurnFile
  /\ \A m, n \in DOMAIN TurnFile : TurnFile[m] = TurnFile[n] => m = n

-----------------------------------------------------------------------------
(* Roles: the state they work in and their context policy *)

Path(dir, file) == [dir |-> dir, file |-> file, section |-> Nothing]

Directory(dir) == Path(dir, Nothing)

\* agents.yaml and workflow.yaml, for the roles that differ in their context.
RoleConfig ==
  [auditor  |-> [state |-> "onboarding", artifact |-> "onboarding-report.md", guided |-> TRUE,
                 allow |-> {}, deny |-> {}],
   planner  |-> [state |-> "planning", artifact |-> "prd.md", guided |-> FALSE,
                 allow |-> {}, deny |-> {}],
   builder  |-> [state |-> "implementation", artifact |-> Nothing, guided |-> TRUE,
                 allow |-> {}, deny |-> {}],
   reviewer |-> [state |-> "review", artifact |-> Nothing, guided |-> TRUE,
                 allow |-> {}, deny |-> {Directory(<<"conversations", "implementation">>)}],
   qa       |-> [state |-> "qa", artifact |-> Nothing, guided |-> TRUE,
                 allow |-> {[Path(<<"artifacts">>, "prd.md") EXCEPT !.section = "acceptance-criteria"],
                            Path(<<>>, "git-diff"), Path(<<>>, "test-output")},
                 deny |-> {Path(<<"artifacts">>, "tech-plan.md"),
                           Path(<<"artifacts">>, "architecture.md"),
                           Path(<<>>, "task-log.md"),
                           Directory(<<"conversations", "implementation">>)}]]

Policy(role) == [allow |-> RoleConfig[role].allow, deny |-> RoleConfig[role].deny]

-----------------------------------------------------------------------------
(* Providers: each maps a role and a world to the items it proposes *)

Text(key, layer, priority, volatility, content) ==
  [key |-> key, layer |-> layer, priority |-> priority, volatility |-> volatility,
   content |-> content]

Reference(key, layer, priority, volatility) == Text(key, layer, priority, volatility, Nothing)

\* One item if there is a text, else none.
IfAny(key, layer, priority, volatility, content) ==
  IF content = Nothing THEN <<>> ELSE <<Text(key, layer, priority, volatility, content)>>

\* A missing soul or context.md is replaced by a line that says so.
OrSubstitute(content, substitute) == IF content = Nothing THEN substitute ELSE content

RoleSoul(role, world) ==
  <<Text(Path(<<"souls">>, role), 1, 1, 0, OrSubstitute(world.soul, "no soul"))>>

ProjectIdentity(world) ==
  <<Text(Path(<<>>, "context.md"), 1, 1, 0, OrSubstitute(world.identity, "no context"))>>

\* The state's artifact, or the path to write it to.
ArtifactSection(role, world) ==
  LET name == RoleConfig[role].artifact IN
  IF name = Nothing THEN <<>>
  ELSE <<Text(Path(<<"artifacts">>, name), 2, 4, 3, world.artifact)>>

Decisions(world) ==
  IfAny(Path(<<"decisions">>, "D1"), 2, 3, 2, world.decisions["D1"])
    \o IfAny(Path(<<"decisions">>, "D2"), 2, 3, 2, world.decisions["D2"])

Summary(role, world) ==
  IfAny(Path(<<"summaries">>, RoleConfig[role].state), 4, 6, 5, world.summary)

\* BROKEN: the conversation comes before what the project has decided.
RecentTurnsFirst(role, world) ==
  LET n == Len(world.turns)
      shown == IF n < 3 THEN n ELSE 3
  IN  [k \in 1..shown |->
         Text(Path(<<"conversations", RoleConfig[role].state>>, TurnFile[n - shown + k]), 4, 2, 6,
              world.turns[n - shown + k])]

\* The last three turns of the role's state.
RecentTurns(role, world) ==
  LET n == Len(world.turns)
      shown == IF n < 3 THEN n ELSE 3
  IN  [k \in 1..shown |->
         Text(Path(<<"conversations", RoleConfig[role].state>>, TurnFile[n - shown + k]), 4, 7, 6,
              world.turns[n - shown + k])]

\* Files named by the caller; no turn of the program names any.
ReferencedFiles(paths) ==
  SetToSeq({Reference(Path(<<"lib">>, f), 3, 5, 4) : f \in paths})

\* One hop: what a referenced file imports, once, if the index has it.
Imported(world, paths) == {f \in world.files \ paths : \E p \in paths : <<p, f>> \in world.imports}

\* The inventory of the index, in three tiers; build() sorts it.
Index(world, paths) ==
  LET imported == Imported(world, paths)
      Tier(f) == IF f \in imported THEN 7 ELSE IF f \in world.named THEN 8 ELSE 9
  IN  SetToSeq({Reference(Path(<<"lib">>, f), 3, Tier(f), 4) : f \in world.files \ paths})

FoundationalDoc(role, name, content) ==
  LET key == Path(<<"artifacts">>, name) IN
  IF name = RoleConfig[role].artifact \/ Denied(Policy(role), key)
  THEN <<>>
  ELSE IfAny(key, 1, 2, 1, content)

\* BROKEN: proposes what the role must never see, which fails its turns.
FoundationalDocsUnfiltered(role, world) ==
  IfAny(Path(<<"artifacts">>, "prd.md"), 1, 2, 1, world.prd)
    \o IfAny(Path(<<"artifacts">>, "architecture.md"), 1, 2, 1, world.architecture)
    \o IfAny(Path(<<"artifacts">>, "onboarding-report.md"), 1, 2, 1, world.report)

FoundationalDocs(role, world) ==
  FoundationalDoc(role, "prd.md", world.prd)
    \o FoundationalDoc(role, "architecture.md", world.architecture)
    \o FoundationalDoc(role, "onboarding-report.md", world.report)

Diff(world) == IfAny(Path(<<>>, "git-diff"), 3, 4, 4, world.diff)

\* The providers of a turn, in their order.
TurnCandidates(role, world) ==
  RoleSoul(role, world) \o ProjectIdentity(world) \o ArtifactSection(role, world)
    \o Decisions(world) \o Summary(role, world) \o RecentTurns(role, world)
    \o (IF RoleConfig[role].guided
        THEN Index(world, {}) \o FoundationalDocs(role, world)
        ELSE <<>>)
    \o (IF role \in {"reviewer", "qa"} THEN Diff(world) ELSE <<>>)

\* The providers are not told of the kind: since_turn stays None.
TurnRequest(role, world, kind, limit) ==
  [kind |-> kind, candidates |-> TurnCandidates(role, world), policy |-> Policy(role),
   limit |-> limit]

TurnSequences == [role \in DOMAIN RoleConfig |-> {TurnCandidates(role, w) : w \in Worlds}]

IsTurnOf(role, r) == r.candidates \in TurnSequences[role] /\ r.policy = Policy(role)

\* What follows a turn is a turn of the same role under the same limit.
ASSUME FollowsAssumption ==
  \A r, s \in Requests :
    Follows(r, s) => /\ r.limit = s.limit
                     /\ \E role \in DOMAIN RoleConfig : IsTurnOf(role, r) /\ IsTurnOf(role, s)

-----------------------------------------------------------------------------
(* Properties *)

\* No turn of a shipped role fails on its own denylist: the providers of the
\* program propose nothing that the role they propose it to must never see.
NeverBarred ==
  phase = "violation" => ~ \E role \in DOMAIN RoleConfig, w \in Worlds :
                             request = TurnRequest(role, w, request.kind, request.limit)

\* "QA must verify against acceptance criteria": when the PRD is on disk and the
\* budget cuts nothing, the prompt of a qa turn has something of it.
QaSeesCriteria ==
  phase = "done" /\ OmittedFor("budget") = {} =>
    \A w \in Worlds :
      request = TurnRequest("qa", w, "full", request.limit) /\ w.prd # Nothing =>
        \E k \in DOMAIN prompt : prompt[k].key.file = "prd.md"
=============================================================================
