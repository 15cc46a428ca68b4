--------------------------- MODULE ContextBuilder ---------------------------
(***************************************************************************)
(* ContextBuilder.build(): the candidates of the providers go through four *)
(* loops - the role's policy, dedupe, the token budget and rendering.  A   *)
(* loop takes the items of `todo` in its own order and keeps or omits      *)
(* each; what it kept is the next loop's input.  Candidates are referred   *)
(* to by their place in the request.  A key is a path: directories, file   *)
(* and section; texts are compared after strip().  Globs, which no shipped *)
(* policy has, are left out, as are the task and the headings.  A request  *)
(* says whether it is a full package or a delta for a resumed session;     *)
(* no loop looks at it, here as in the code.                               *)
(***************************************************************************)
EXTENDS Naturals, Sequences, FiniteSetsExt

CONSTANTS
  Nothing,       \* None
  Key,           \* keys of items: [dir, file, section]
  Rank,          \* the order of keys as strings
  Content,       \* texts
  Cost,          \* tokens of a text
  PathCost,      \* tokens of a reference: its path and 8 more
  Requests,      \* what build() is called with: kind, candidates, policy and limit
  Follows(_, _)  \* the second request is that of a later turn

Item == [key : Key, layer : Nat, priority : Nat, volatility : Nat, content : Content \cup {Nothing}]

Pattern == [dir : Seq(STRING), file : STRING \cup {Nothing}, section : STRING \cup {Nothing}]

Request == [kind : {"full", "delta"},
            candidates : Seq(Item),
            policy : [allow : SUBSET Pattern, deny : SUBSET Pattern],
            limit : Nat]

ASSUME BuilderAssumption ==
  /\ Nothing \notin Content
  /\ Rank \in [Key -> Nat]
  /\ \A k, l \in Key : Rank[k] = Rank[l] => k = l
  /\ Cost \in [Content -> Nat]
  /\ PathCost \in [Key -> Nat]
  /\ Requests \subseteq Request

VARIABLES
  request,   \* the request and what the providers proposed
  phase,     \* the loop build() is in, or how it ended
  todo,      \* candidates the loop has still to look at
  kept,      \* candidates it kept
  omitted,   \* the manifest's omissions: [item, why]
  used,      \* tokens of the items selected
  prompt,    \* items in the order of the rendered prompt
  previous   \* the build before this one: [request, prompt]

vars == <<request, phase, todo, kept, omitted, used, prompt, previous>>

-----------------------------------------------------------------------------
(* The policy of a role and the two orders *)

\* _matches(): a directory covers all below it, a path also its sections.
Matches(key, pattern) ==
  IF pattern.file = Nothing
  THEN /\ Len(pattern.dir) <= Len(key.dir)
       /\ SubSeq(key.dir, 1, Len(pattern.dir)) = pattern.dir
  ELSE /\ key.dir = pattern.dir
       /\ key.file = pattern.file
       /\ pattern.section \in {Nothing, key.section}

Denied(policy, key) == \E p \in policy.deny : Matches(key, p)

Permitted(policy, key) ==
  /\ ~ Denied(policy, key)
  /\ policy.allow = {} \/ \E p \in policy.allow : Matches(key, p)

Candidate(i) == request.candidates[i]

Embedded(i) == Candidate(i).content # Nothing

Tokens(i) == IF Embedded(i) THEN Cost[Candidate(i).content] ELSE PathCost[Candidate(i).key]

\* BROKEN: in the order the providers proposed them.
BeforeAsProposed(i, j) == i < j

\* BROKEN: the cheapest first.
BeforeByCost(i, j) == Tokens(i) < Tokens(j) \/ (Tokens(i) = Tokens(j) /\ i < j)

\* The stable sorts by (priority, key) of dedupe and select_within_budget.
Before(i, j) ==
  LET a == Candidate(i)
      b == Candidate(j)
  IN  \/ a.priority < b.priority
      \/ /\ a.priority = b.priority
         /\ \/ Rank[a.key] < Rank[b.key]
            \/ a.key = b.key /\ i < j

Steadier(a, b) ==
  \/ a.volatility < b.volatility
  \/ /\ a.volatility = b.volatility
     /\ \/ a.layer < b.layer
        \/ /\ a.layer = b.layer
           /\ \/ a.priority < b.priority
              \/ a.priority = b.priority /\ Rank[a.key] < Rank[b.key]

\* order_for_render(), and render() which lists the references at the end.
RendersBefore(i, j) ==
  \/ Embedded(i) /\ ~ Embedded(j)
  \/ (Embedded(i) <=> Embedded(j)) /\ Steadier(Candidate(i), Candidate(j))

-----------------------------------------------------------------------------
(* The loops *)

Start(r) ==
  /\ request' = r
  /\ phase' = "enforce"
  /\ todo' = DOMAIN r.candidates
  /\ kept' = {}
  /\ omitted' = {}
  /\ used' = 0
  /\ prompt' = <<>>

Init ==
  /\ request \in Requests
  /\ phase = "enforce"
  /\ todo = DOMAIN request.candidates
  /\ kept = {}
  /\ omitted = {}
  /\ used = 0
  /\ prompt = <<>>
  /\ previous = Nothing

Keep(i) == kept' = kept \cup {i} /\ UNCHANGED omitted

Omit(i, why) == omitted' = omitted \cup {[item |-> i, why |-> why]} /\ UNCHANGED kept

OmittedFor(why) == {o.item : o \in {x \in omitted : x.why = why}}

\* BROKEN: a path that is only handed over is not checked.
EnforceOnTexts(i) ==
  /\ phase = "enforce"
  /\ \A j \in todo : i <= j
  /\ todo' = todo \ {i}
  /\ IF Embedded(i) /\ Denied(request.policy, Candidate(i).key)
     THEN phase' = "violation" /\ UNCHANGED <<kept, omitted>>
     ELSE /\ IF Embedded(i) => Permitted(request.policy, Candidate(i).key)
             THEN Keep(i)
             ELSE Omit(i, "policy")
          /\ UNCHANGED phase
  /\ UNCHANGED <<request, used, prompt, previous>>

\* A forbidden item fails the turn; one that is not allowed is left out.
Enforce(i) ==
  /\ phase = "enforce"
  /\ \A j \in todo : i <= j
  /\ IF Denied(request.policy, Candidate(i).key)
     THEN phase' = "violation" /\ UNCHANGED <<todo, kept, omitted>>
     ELSE /\ IF Permitted(request.policy, Candidate(i).key)
             THEN Keep(i)
             ELSE Omit(i, "policy")
          /\ todo' = todo \ {i}
          /\ UNCHANGED phase
  /\ UNCHANGED <<request, used, prompt, previous>>

FirstOfTodo(i) == \A j \in todo \ {i} : Before(i, j)

\* dedupe(): the key of an item dropped for its content stays seen.
SeenKeys == {Candidate(j).key : j \in kept \cup OmittedFor("content")}

SeenContents == {Candidate(j).content : j \in kept}

\* BROKEN: a repeated text disappears without an entry in the manifest.
DedupeSilently(i) ==
  /\ phase = "dedupe"
  /\ FirstOfTodo(i)
  /\ todo' = todo \ {i}
  /\ IF Candidate(i).key \in SeenKeys THEN Omit(i, "key")
     ELSE IF Embedded(i) /\ Candidate(i).content \in SeenContents THEN UNCHANGED <<kept, omitted>>
     ELSE Keep(i)
  /\ UNCHANGED <<request, phase, used, prompt, previous>>

\* BROKEN: the first one proposed wins.
DedupeAsProposed(i) ==
  /\ phase = "dedupe"
  /\ \A j \in todo : i <= j
  /\ todo' = todo \ {i}
  /\ IF Candidate(i).key \in SeenKeys THEN Omit(i, "key")
     ELSE IF Embedded(i) /\ Candidate(i).content \in SeenContents THEN Omit(i, "content")
     ELSE Keep(i)
  /\ UNCHANGED <<request, phase, used, prompt, previous>>

Dedupe(i) ==
  /\ phase = "dedupe"
  /\ FirstOfTodo(i)
  /\ todo' = todo \ {i}
  /\ IF Candidate(i).key \in SeenKeys THEN Omit(i, "key")
     ELSE IF Embedded(i) /\ Candidate(i).content \in SeenContents THEN Omit(i, "content")
     ELSE Keep(i)
  /\ UNCHANGED <<request, phase, used, prompt, previous>>

Fits(i) == used + Tokens(i) <= request.limit

\* BROKEN: the first item that does not fit ends the selection.
SelectUntilFull(i) ==
  /\ phase = "select"
  /\ FirstOfTodo(i)
  /\ todo' = todo \ {i}
  /\ IF Fits(i) /\ OmittedFor("budget") = {}
     THEN Keep(i) /\ used' = used + Tokens(i)
     ELSE Omit(i, "budget") /\ UNCHANGED used
  /\ UNCHANGED <<request, phase, prompt, previous>>

\* BROKEN: the cheapest first.
SelectCheapest(i) ==
  /\ phase = "select"
  /\ \A j \in todo \ {i} : BeforeByCost(i, j)
  /\ todo' = todo \ {i}
  /\ IF Fits(i)
     THEN Keep(i) /\ used' = used + Tokens(i)
     ELSE Omit(i, "budget") /\ UNCHANGED used
  /\ UNCHANGED <<request, phase, prompt, previous>>

\* BROKEN: looks at what is spent before the item is counted.
SelectThenCount(i) ==
  /\ phase = "select"
  /\ FirstOfTodo(i)
  /\ todo' = todo \ {i}
  /\ IF used < request.limit
     THEN Keep(i) /\ used' = used + Tokens(i)
     ELSE Omit(i, "budget") /\ UNCHANGED used
  /\ UNCHANGED <<request, phase, prompt, previous>>

\* select_within_budget(): a later item may still fit where one did not.
Select(i) ==
  /\ phase = "select"
  /\ FirstOfTodo(i)
  /\ todo' = todo \ {i}
  /\ IF Fits(i)
     THEN Keep(i) /\ used' = used + Tokens(i)
     ELSE Omit(i, "budget") /\ UNCHANGED used
  /\ UNCHANGED <<request, phase, prompt, previous>>

Render(i) ==
  /\ phase = "render"
  /\ \A j \in todo \ {i} : RendersBefore(i, j)
  /\ todo' = todo \ {i}
  /\ kept' = kept \cup {i}
  /\ prompt' = Append(prompt, Candidate(i))
  /\ UNCHANGED <<request, phase, omitted, used, previous>>

After == [enforce |-> "dedupe", dedupe |-> "select", select |-> "render", render |-> "done"]

NextLoop ==
  /\ todo = {}
  /\ phase \in DOMAIN After
  /\ phase' = After[phase]
  /\ IF phase = "render"
     THEN UNCHANGED <<todo, kept>>
     ELSE todo' = kept /\ kept' = {}
  /\ UNCHANGED <<request, omitted, used, prompt, previous>>

LaterTurn(r) ==
  /\ phase = "done"
  /\ Follows(request, r)
  /\ previous' = [request |-> request, prompt |-> prompt]
  /\ Start(r)

Next ==
  \/ \E i \in todo : Enforce(i) \/ Dedupe(i) \/ Select(i) \/ Render(i)
  \/ NextLoop
  \/ \E r \in Requests : LaterTurn(r)

Spec == Init /\ [][Next]_vars
-----------------------------------------------------------------------------
(* Properties *)

\* The variables keep their types, and what is selected stays in the limit.
TypeOK ==
  /\ request \in Requests
  /\ phase \in DOMAIN After \cup {"done", "violation"}
  /\ todo \subseteq DOMAIN request.candidates
  /\ kept \subseteq DOMAIN request.candidates
  /\ omitted \subseteq [item : DOMAIN request.candidates, why : {"policy", "key", "content", "budget"}]
  /\ used \in 0..request.limit
  /\ prompt \in Seq(Item)
  /\ previous \in [request : Requests, prompt : Seq(Item)] \cup {Nothing}

OmittedItems == {o.item : o \in omitted}

\* "Why was this omitted" has an answer: whatever is proposed is in the prompt
\* or in the manifest's omissions, and never in both.
Accounted ==
  phase # "violation" =>
    /\ todo \cup kept \cup OmittedItems = DOMAIN request.candidates
    /\ todo \cap kept = {}
    /\ OmittedItems \cap (todo \cup kept) = {}
    /\ phase \in {"render", "done"} =>
         {prompt[k] : k \in DOMAIN prompt} = {Candidate(i) : i \in kept}

\* The blinding of a role: no build comes past the first loop with a forbidden
\* candidate, text or path, and the prompt has only items the role is allowed.
Blinded ==
  /\ phase \notin {"enforce", "violation"} =>
       \A i \in DOMAIN request.candidates : ~ Denied(request.policy, Candidate(i).key)
  /\ phase # "violation" =>
       \A k \in DOMAIN prompt : Permitted(request.policy, prompt[k].key)

\* What dedupe() leaves has neither a key nor a text twice, and what it drops
\* repeats a key or a text of an item that comes before it by priority.
Unrepeated ==
  /\ phase \in {"select", "render", "done"} =>
       \A i, j \in kept : i # j =>
         /\ Candidate(i).key # Candidate(j).key
         /\ Embedded(i) => Candidate(i).content # Candidate(j).content
  /\ \A i \in OmittedFor("key") :
       \E j \in DOMAIN request.candidates : Before(j, i) /\ Candidate(j).key = Candidate(i).key
  /\ \A i \in OmittedFor("content") :
       \E j \in DOMAIN request.candidates \ OmittedFor("content") :
         Before(j, i) /\ Candidate(j).content = Candidate(i).content

\* No budget is wasted: nothing that was left out for the budget would still
\* fit beside what was selected, a cheap item after a dear one included.
NothingMoreFits == \A i \in OmittedFor("budget") : ~ Fits(i)

Spent(S) == MapThenSumSet(Tokens, S)

\* Priority decides who is in: an item is selected exactly when it fits beside
\* the selected items before it, whatever comes after it.
GreedyByPriority ==
  phase = "done" =>
    LET Ahead(i) == Spent({j \in kept : Before(j, i)}) IN
      /\ \A i \in kept : Ahead(i) + Tokens(i) <= request.limit
      /\ \A i \in OmittedFor("budget") : Ahead(i) + Tokens(i) > request.limit

Items(r) == {r.candidates[i] : i \in DOMAIN r.candidates}

Changed(r, s) == (Items(r) \ Items(s)) \cup (Items(s) \ Items(r))

\* The provider's prefix cache can hit from one full package to the next: the
\* texts that are steadier than all that changed since the last turn are where
\* they were in the last prompt, for no change of a volatile item pushes out, or
\* moves, a steadier one.  A delta is not promised to repeat them.
CacheablePrefix ==
  /\ phase = "done"
  /\ previous # Nothing
  /\ previous.request.kind = "full"
  /\ request.kind = "full"
  =>
    \A k \in DOMAIN previous.prompt :
      LET item == previous.prompt[k] IN
        (/\ item.content # Nothing
         /\ \A c \in Changed(previous.request, request) : item.volatility < c.volatility)
        => k \in DOMAIN prompt /\ prompt[k] = item
=============================================================================
