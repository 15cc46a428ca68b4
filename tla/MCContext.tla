------------------------------ MODULE MCContext ------------------------------
(***************************************************************************)
(* The context of the turns of five shipped roles over small worlds, under *)
(* a tight and an ample limit; two consecutive turns of a role differ in   *)
(* one or two items.  Beside them are requests no provider of the program  *)
(* makes: referenced files, forbidden and repeated items, sections.        *)
(***************************************************************************)
EXTENDS ContextProviders, TLC

MCContent == {"soul", "identity", "a", "b", "c", "d", "no soul", "no context"}

MCCost == [t \in MCContent |-> CASE t = "a" -> 3 [] t \in {"b", "d"} -> 2 [] OTHER -> 1]

FullWorlds ==
  {[soul |-> "soul", identity |-> "identity", artifact |-> p, prd |-> p, architecture |-> "b",
    report |-> "a", decisions |-> ("D1" :> d @@ "D2" :> Nothing), summary |-> y, turns |-> t,
    files |-> f, named |-> f \cap {"gate"}, imports |-> {}, diff |-> x] :
     p \in {"a", Nothing}, d \in {"a", "c"}, y \in {"c", Nothing},
     t \in {<<>>, <<"d">>, <<"d", "b", "a", "c">>},
     f \in {{}, {"app", "gate"}}, x \in {"b", Nothing}}

SomeWorld == CHOOSE w \in FullWorlds : TRUE

MCWorlds == FullWorlds \cup {[SomeWorld EXCEPT !.soul = Nothing, !.identity = Nothing]}

TurnRequests ==
  {TurnRequest(role, w, "full", limit) :
     role \in DOMAIN RoleConfig, w \in MCWorlds, limit \in {7, 12}}
  \cup {TurnRequest(role, w, "delta", limit) :
          role \in {"auditor", "planner"}, w \in MCWorlds, limit \in {7, 12}}

\* app imports gate and util, which imports app.
ImportWorld ==
  [SomeWorld EXCEPT
     !.files = {"app", "gate", "util"}, !.named = {"util"},
     !.imports = {<<"app", "gate">>, <<"util", "app">>}]

PrdSection == [Path(<<"artifacts">>, "prd.md") EXCEPT !.section = "acceptance-criteria"]

PlanSection == [Path(<<"artifacts">>, "tech-plan.md") EXCEPT !.section = "risks"]

OddItems ==
  {Text(PrdSection, 2, 4, 3, "a"), Text(Path(<<>>, "test-output"), 3, 4, 4, "a"),
   Text(Path(<<>>, "git-diff"), 3, 4, 4, "b"), Text(Path(<<>>, "git-diff"), 3, 3, 4, "c"),
   Reference(PlanSection, 3, 5, 4), Text(Path(<<>>, "task-log.md"), 1, 2, 1, "c"),
   Text(Path(<<"conversations", "implementation">>, "0001"), 4, 7, 6, "b")}

OddRequests ==
  {[kind |-> "full", candidates |-> <<i, j, k>>, policy |-> Policy(role), limit |-> 4] :
     i, j, k \in OddItems, role \in {"reviewer", "qa"}}
  \cup {[kind |-> "full", candidates |-> ReferencedFiles({"app"}) \o Index(ImportWorld, {"app"}),
         policy |-> Policy("builder"), limit |-> l] : l \in 1..3}

MCRequests == TurnRequests \cup OddRequests

\* Two turns of one role, one text or file apart; the auditor and the planner
\* may go on with a session or open one, the others always open one.
MCFollows(r, s) ==
  /\ r.limit = s.limit
  /\ r.candidates[1].key.dir = <<"souls">>
  /\ r.candidates[1].key = s.candidates[1].key
  /\ Cardinality(Changed(r, s)) \in 1..2

MCTurnFile == <<"0001", "0002", "0003", "0004", "0005">>

Files(dir, names) == [k \in 1..Len(names) |-> Path(dir, names[k])]

Turns(state) == [k \in 1..5 |-> Path(<<"conversations", state>>, TurnFile[k])]

\* Every key of the requests, as sorted() has them.
KeyOrder ==
  Files(<<"artifacts">>, <<"architecture.md", "onboarding-report.md", "prd.md">>)
    \o <<PrdSection, PlanSection, Path(<<>>, "context.md")>>
    \o Turns("implementation") \o Turns("onboarding") \o Turns("planning") \o Turns("qa")
    \o Turns("review")
    \o Files(<<"decisions">>, <<"D1", "D2">>)
    \o <<Path(<<>>, "git-diff")>>
    \o Files(<<"lib">>, <<"app", "gate", "util">>)
    \o Files(<<"souls">>, <<"auditor", "builder", "planner", "qa", "reviewer">>)
    \o Files(<<"summaries">>, <<"implementation", "onboarding", "planning", "qa", "review">>)
    \o Files(<<>>, <<"task-log.md", "test-output">>)

MCKey == ToSet(KeyOrder)

MCRank == [k \in MCKey |-> CHOOSE n \in DOMAIN KeyOrder : KeyOrder[n] = k]

MCPathCost == [k \in MCKey |-> 1]
=============================================================================
