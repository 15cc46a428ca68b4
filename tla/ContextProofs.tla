---------------------------- MODULE ContextProofs ----------------------------
(***************************************************************************)
(* Proofs about ContextBuilder and ContextProviders, for every policy,     *)
(* limit, world and request the providers make of it.                      *)
(***************************************************************************)
EXTENDS ContextProviders, FiniteSetTheorems, SequenceTheorems, WellFoundedInduction, TLAPS

Reasons == {"policy", "key", "content", "budget"}

\* What a request gives: items whose tokens can be counted, and a limit.
LEMMA RequestFacts ==
  ASSUME request \in Requests
  PROVE  /\ request.candidates \in Seq(Item)
         /\ request.limit \in Nat
         /\ \A i \in DOMAIN request.candidates : Candidate(i) \in Item /\ Tokens(i) \in Nat
<1>1. request \in Request
  BY BuilderAssumption
<1>2. request.candidates \in Seq(Item) /\ request.limit \in Nat
  BY <1>1 DEF Request
<1>3. ASSUME NEW i \in DOMAIN request.candidates
      PROVE  Candidate(i) \in Item /\ Tokens(i) \in Nat
  <2>1. Candidate(i) \in Item
    BY <1>2 DEF Candidate
  <2>2. CASE Embedded(i)
    BY <2>1, <2>2, BuilderAssumption DEF Item, Embedded, Tokens
  <2>3. CASE ~ Embedded(i)
    BY <2>1, <2>3, BuilderAssumption DEF Item, Tokens
  <2> QED BY <2>1, <2>2, <2>3
<1> QED BY <1>2, <1>3

\* A loop that keeps or omits one of its candidates keeps the types.
LEMMA LoopKeepsTypes ==
  ASSUME TypeOK, NEW i \in todo, NEW why \in Reasons,
         Keep(i) \/ Omit(i, why)
  PROVE  /\ kept' \subseteq DOMAIN request.candidates
         /\ omitted' \subseteq [item : DOMAIN request.candidates, why : Reasons]
BY DEF TypeOK, Keep, Omit, Reasons

\* A later build starts as the first one did.
LEMMA StartKeepsTypes ==
  ASSUME NEW r \in Requests, Start(r), previous' \in [request : Requests, prompt : Seq(Item)]
  PROVE  TypeOK'
<1>1. r.limit \in Nat
  BY BuilderAssumption DEF Request
<1>2. <<>> \in Seq(Item)
  OBVIOUS
<1> QED BY <1>1, <1>2 DEF Start, TypeOK, After

\* Every step keeps the types and stays in the limit.
LEMMA TypeStep == TypeOK /\ [Next]_vars => TypeOK'
<1> SUFFICES ASSUME TypeOK, [Next]_vars PROVE TypeOK'
  OBVIOUS
<1> USE DEF Reasons
<1>1. ASSUME NEW i \in todo, Enforce(i) PROVE TypeOK'
  <2>1. kept' \subseteq DOMAIN request.candidates /\ omitted' \subseteq [item : DOMAIN request.candidates, why : Reasons]
    BY <1>1, LoopKeepsTypes DEF Enforce, TypeOK
  <2> QED BY <1>1, <2>1 DEF Enforce, TypeOK, After
<1>2. ASSUME NEW i \in todo, Dedupe(i) PROVE TypeOK'
  <2>1. kept' \subseteq DOMAIN request.candidates /\ omitted' \subseteq [item : DOMAIN request.candidates, why : Reasons]
    BY <1>2, LoopKeepsTypes DEF Dedupe
  <2> QED BY <1>2, <2>1 DEF Dedupe, TypeOK
<1>3. ASSUME NEW i \in todo, Select(i) PROVE TypeOK'
  <2>1. kept' \subseteq DOMAIN request.candidates /\ omitted' \subseteq [item : DOMAIN request.candidates, why : Reasons]
    BY <1>3, LoopKeepsTypes DEF Select
  <2>2. Tokens(i) \in Nat /\ request.limit \in Nat
    BY RequestFacts DEF TypeOK
  <2>3. used' \in 0..request.limit
    BY <1>3, <2>2 DEF Select, Fits, TypeOK
  <2> QED BY <1>3, <2>1, <2>3 DEF Select, TypeOK
<1>4. ASSUME NEW i \in todo, Render(i) PROVE TypeOK'
  <2>1. Candidate(i) \in Item
    BY RequestFacts DEF TypeOK
  <2>2. prompt' \in Seq(Item)
    BY <1>4, <2>1 DEF Render, TypeOK
  <2> QED BY <1>4, <2>2 DEF Render, TypeOK
<1>5. CASE NextLoop
  BY <1>5 DEF NextLoop, TypeOK, After
<1>6. ASSUME NEW r \in Requests, LaterTurn(r) PROVE TypeOK'
  BY <1>6, StartKeepsTypes DEF LaterTurn, TypeOK
<1>7. CASE UNCHANGED vars
  BY <1>7 DEF vars, TypeOK
<1> QED BY <1>1, <1>2, <1>3, <1>4, <1>5, <1>6, <1>7 DEF Next

\* The first request is built from types that fit.
LEMMA InitTyped == Init => TypeOK
<1> SUFFICES ASSUME Init PROVE TypeOK
  OBVIOUS
<1>1. request.limit \in Nat
  BY RequestFacts DEF Init
<1>2. <<>> \in Seq(Item)
  OBVIOUS
<1> QED BY <1>1, <1>2 DEF Init, TypeOK, After

\* Every variable keeps its type and the selection its limit, whatever the
\* providers propose (select_within_budget).
THEOREM TypeCorrect == Spec => []TypeOK
BY InitTyped, TypeStep, PTL DEF Spec

-----------------------------------------------------------------------------
(* What each step does to the omissions *)

\* An omission adds its item to the items omitted for that reason only.
LEMMA OmitSplits ==
  ASSUME NEW i, NEW why \in Reasons, Omit(i, why)
  PROVE  /\ OmittedItems' = OmittedItems \cup {i}
         /\ OmittedFor(why)' = OmittedFor(why) \cup {i}
         /\ \A other \in Reasons \ {why} : OmittedFor(other)' = OmittedFor(other)
<1> DEFINE new == [item |-> i, why |-> why]
<1>1. new.item = i /\ new.why = why
  OBVIOUS
<1>2. omitted' = omitted \cup {new}
  BY DEF Omit
<1> HIDE DEF new
<1>3. OmittedItems' = OmittedItems \cup {i}
  BY <1>1, <1>2 DEF OmittedItems
<1>4. ASSUME NEW other \in Reasons, NEW x
      PROVE  x \in OmittedFor(other)' <=> x \in OmittedFor(other) \/ (other = why /\ x = i)
  BY <1>1, <1>2 DEF OmittedFor
<1> QED BY <1>3, <1>4

\* Nothing omitted anew, nothing changes in what was omitted.
LEMMA SameOmissions ==
  ASSUME UNCHANGED omitted
  PROVE  OmittedItems' = OmittedItems /\ \A why : OmittedFor(why)' = OmittedFor(why)
BY DEF OmittedItems, OmittedFor

-----------------------------------------------------------------------------
(* Every candidate is accounted for *)

\* Nothing is rendered before the last loop.
AccountInv ==
  /\ Accounted
  /\ phase \in {"enforce", "dedupe", "select", "violation"} => prompt = <<>>

\* No loop loses an item or has it twice.
LEMMA AccountStep == TypeOK /\ AccountInv /\ [Next]_vars => AccountInv'
<1> SUFFICES ASSUME TypeOK, AccountInv, [Next]_vars PROVE AccountInv'
  OBVIOUS
<1> USE DEF Reasons
<1>1. ASSUME NEW i \in todo, NEW why \in Reasons, phase \in {"enforce", "dedupe", "select"},
             Keep(i) \/ Omit(i, why), todo' = todo \ {i}, UNCHANGED <<request, phase, prompt>>
      PROVE  AccountInv'
  <2>1. CASE Keep(i)
    BY <1>1, <2>1, SameOmissions DEF AccountInv, Accounted, Keep, TypeOK
  <2>2. CASE Omit(i, why)
    <3>1. kept' = kept /\ OmittedItems' = OmittedItems \cup {i}
      BY <2>2, OmitSplits DEF Omit
    <3>2. i \in DOMAIN request.candidates
      BY DEF TypeOK
    <3> QED BY <1>1, <3>1, <3>2 DEF AccountInv, Accounted
  <2> QED BY <1>1, <2>1, <2>2
<1>2. ASSUME NEW i \in todo, Enforce(i) PROVE AccountInv'
  <2>1. CASE Denied(request.policy, Candidate(i).key)
    BY <1>2, <2>1 DEF Enforce, AccountInv, Accounted
  <2>2. CASE ~ Denied(request.policy, Candidate(i).key)
    BY <1>1, <1>2, <2>2 DEF Enforce
  <2> QED BY <2>1, <2>2
<1>3. ASSUME NEW i \in todo, Dedupe(i) PROVE AccountInv'
  BY <1>1, <1>3 DEF Dedupe
<1>4. ASSUME NEW i \in todo, Select(i) PROVE AccountInv'
  BY <1>1, <1>4 DEF Select
<1>5. ASSUME NEW i \in todo, Render(i) PROVE AccountInv'
  <2>1. OmittedItems' = OmittedItems
    BY <1>5, SameOmissions DEF Render
  <2>2. /\ DOMAIN prompt' = DOMAIN prompt \cup {Len(prompt) + 1}
        /\ prompt'[Len(prompt) + 1] = Candidate(i)
        /\ \A k \in DOMAIN prompt : prompt'[k] = prompt[k]
    BY <1>5, RequestFacts DEF Render, TypeOK
  <2>3. {prompt'[k] : k \in DOMAIN prompt'} = {prompt[k] : k \in DOMAIN prompt} \cup {Candidate(i)}
    BY <2>2
  <2>4. {prompt[k] : k \in DOMAIN prompt} = {Candidate(j) : j \in kept}
    BY <1>5 DEF Render, AccountInv, Accounted
  <2>5. {prompt'[k] : k \in DOMAIN prompt'} = {Candidate(j)' : j \in kept'}
    BY <1>5, <2>3, <2>4 DEF Render, Candidate
  <2> QED BY <1>5, <2>1, <2>5 DEF Render, AccountInv, Accounted, TypeOK
<1>6. CASE NextLoop
  <2>1. OmittedItems' = OmittedItems
    BY <1>6, SameOmissions DEF NextLoop
  <2>2. CASE phase = "render"
    BY <1>6, <2>1, <2>2 DEF NextLoop, AccountInv, Accounted, After, Candidate
  <2>3. CASE phase \in {"enforce", "dedupe", "select"}
    BY <1>6, <2>1, <2>3 DEF NextLoop, AccountInv, Accounted, After, Candidate
  <2> QED BY <1>6, <2>2, <2>3 DEF NextLoop, After
<1>7. ASSUME NEW r \in Requests, LaterTurn(r) PROVE AccountInv'
  BY <1>7 DEF LaterTurn, Start, AccountInv, Accounted, OmittedItems
<1>8. CASE UNCHANGED vars
  BY <1>8 DEF vars, AccountInv, Accounted, OmittedItems, Candidate
<1> QED BY <1>2, <1>3, <1>4, <1>5, <1>6, <1>7, <1>8 DEF Next

\* All candidates are still to be looked at.
LEMMA AccountInit == Init => AccountInv
BY DEF Init, AccountInv, Accounted, OmittedItems

\* The manifest answers for every candidate of every build: it is in the
\* prompt or among the omissions and never in both (ContextBuilder.build).
THEOREM AccountedHolds == Spec => []Accounted
<1>1. Spec => []AccountInv
  BY AccountInit, AccountStep, TypeCorrect, PTL DEF Spec
<1>2. AccountInv => Accounted
  BY DEF AccountInv
<1> QED BY <1>1, <1>2, PTL

-----------------------------------------------------------------------------
(* A blinded role stays blinded *)

Barred(i) == Denied(request.policy, Candidate(i).key)

Allowed(i) == Permitted(request.policy, Candidate(i).key)

\* What the first loop has passed is not forbidden, what it kept is allowed.
BlindInv ==
  /\ phase = "enforce" =>
       /\ \A i \in DOMAIN request.candidates \ todo : ~ Barred(i)
       /\ \A i \in kept : Allowed(i)
  /\ phase \in {"dedupe", "select", "render", "done"} =>
       /\ \A i \in DOMAIN request.candidates : ~ Barred(i)
       /\ \A i \in kept \cup todo : Allowed(i)

\* What a role may not see is stopped by the first loop and never comes back.
LEMMA BlindStep == TypeOK /\ BlindInv /\ [Next]_vars => BlindInv'
<1> SUFFICES ASSUME TypeOK, BlindInv, [Next]_vars PROVE BlindInv'
  OBVIOUS
<1>1. ASSUME UNCHANGED request
      PROVE  \A i : Barred(i)' = Barred(i) /\ Allowed(i)' = Allowed(i)
  BY <1>1 DEF Barred, Allowed, Candidate
<1>2. ASSUME NEW i \in todo, Enforce(i) PROVE BlindInv'
  <2>1. CASE Barred(i)
    BY <1>2, <2>1 DEF Enforce, Barred, BlindInv
  <2>2. CASE ~ Barred(i) /\ Allowed(i)
    BY <1>1, <1>2, <2>2 DEF Enforce, Barred, Allowed, BlindInv, Keep
  <2>3. CASE ~ Barred(i) /\ ~ Allowed(i)
    BY <1>1, <1>2, <2>3 DEF Enforce, Barred, Allowed, BlindInv, Omit
  <2> QED BY <2>1, <2>2, <2>3
<1>3. ASSUME NEW i \in todo, UNCHANGED <<request, phase>>, phase # "enforce",
             todo' = todo \ {i}, kept' \subseteq kept \cup {i}
      PROVE  BlindInv'
  BY <1>1, <1>3 DEF BlindInv
<1>4. ASSUME NEW i \in todo, Dedupe(i) PROVE BlindInv'
  BY <1>3, <1>4 DEF Dedupe, Keep, Omit
<1>5. ASSUME NEW i \in todo, Select(i) PROVE BlindInv'
  BY <1>3, <1>5 DEF Select, Keep, Omit
<1>6. ASSUME NEW i \in todo, Render(i) PROVE BlindInv'
  BY <1>3, <1>6 DEF Render
<1>7. CASE NextLoop
  <2>1. CASE phase = "enforce"
    BY <1>1, <1>7, <2>1 DEF NextLoop, BlindInv, After
  <2>2. CASE phase # "enforce"
    BY <1>1, <1>7, <2>2 DEF NextLoop, BlindInv, After
  <2> QED BY <2>1, <2>2
<1>8. ASSUME NEW r \in Requests, LaterTurn(r) PROVE BlindInv'
  BY <1>8 DEF LaterTurn, Start, BlindInv
<1>9. CASE UNCHANGED vars
  BY <1>1, <1>9 DEF vars, BlindInv
<1> QED BY <1>2, <1>4, <1>5, <1>6, <1>7, <1>8, <1>9 DEF Next

\* Nothing has passed the first loop.
LEMMA BlindInit == Init => BlindInv
BY DEF Init, BlindInv

\* Whatever the providers propose, a forbidden candidate fails the build and
\* the prompt holds only what the role's policy lets it see (ContextPolicy).
THEOREM BlindedHolds == Spec => []Blinded
<1>1. Spec => [](TypeOK /\ AccountInv /\ BlindInv)
  BY TypeCorrect, AccountInit, AccountStep, BlindInit, BlindStep, PTL DEF Spec
<1>2. TypeOK /\ AccountInv /\ BlindInv => Blinded
  <2> SUFFICES ASSUME TypeOK, AccountInv, BlindInv PROVE Blinded
    OBVIOUS
  <2>1. phase \notin {"enforce", "violation"} => \A i \in DOMAIN request.candidates : ~ Barred(i)
    BY DEF BlindInv, TypeOK, After
  <2>2. ASSUME phase # "violation", NEW k \in DOMAIN prompt
        PROVE  Permitted(request.policy, prompt[k].key)
    <3>1. CASE phase \in {"render", "done"}
      <4>1. PICK i \in kept : prompt[k] = Candidate(i)
        BY <3>1, <2>2 DEF AccountInv, Accounted
      <4> QED BY <3>1, <4>1 DEF BlindInv, Allowed
    <3>2. CASE phase \in {"enforce", "dedupe", "select"}
      BY <2>2, <3>2 DEF AccountInv
    <3> QED BY <2>2, <3>1, <3>2 DEF TypeOK, After
  <2> QED BY <2>1, <2>2 DEF Blinded, Barred
<1> QED BY <1>1, <1>2, PTL

-----------------------------------------------------------------------------
(* No budget is wasted *)

\* The loops before the selection leave out nothing for the budget.
FitInv ==
  /\ phase \in {"enforce", "dedupe", "violation"} => OmittedFor("budget") = {}
  /\ NothingMoreFits

\* The room left only shrinks, so what did not fit never will.
LEMMA FitStep == TypeOK /\ FitInv /\ [Next]_vars => FitInv'
<1> SUFFICES ASSUME TypeOK, FitInv, [Next]_vars PROVE FitInv'
  OBVIOUS
<1> USE DEF Reasons
<1>1. ASSUME UNCHANGED request
      PROVE  \A i : Tokens(i)' = Tokens(i)
  BY <1>1 DEF Tokens, Embedded, Candidate
<1>2. ASSUME OmittedFor("budget")' = OmittedFor("budget"), UNCHANGED <<request, used>>,
             phase' \in {"enforce", "dedupe", "violation"} => phase \in {"enforce", "dedupe", "violation"}
      PROVE  FitInv'
  BY <1>1, <1>2 DEF FitInv, NothingMoreFits, Fits
<1>3. ASSUME NEW i \in todo, Enforce(i) PROVE FitInv'
  BY <1>2, <1>3, SameOmissions, OmitSplits DEF Enforce, Keep
<1>4. ASSUME NEW i \in todo, Dedupe(i) PROVE FitInv'
  BY <1>2, <1>4, SameOmissions, OmitSplits DEF Dedupe, Keep
<1>5. ASSUME NEW i \in todo, Select(i) PROVE FitInv'
  <2>1. /\ \A j \in DOMAIN request.candidates : Tokens(j) \in Nat
        /\ used \in Nat
        /\ request.limit \in Nat
        /\ OmittedFor("budget") \subseteq DOMAIN request.candidates
    BY RequestFacts DEF TypeOK, OmittedFor
  <2>2. CASE Fits(i)
    <3>1. OmittedFor("budget")' = OmittedFor("budget") /\ used' = used + Tokens(i)
      BY <1>5, <2>2, SameOmissions DEF Select, Keep
    <3>2. ASSUME NEW j \in OmittedFor("budget") PROVE ~ Fits(j)'
      BY <1>1, <1>5, <2>1, <3>1 DEF FitInv, NothingMoreFits, Fits, Select, TypeOK
    <3> QED BY <1>5, <3>1, <3>2 DEF FitInv, NothingMoreFits, Select
  <2>3. CASE ~ Fits(i)
    <3>1. OmittedFor("budget")' = OmittedFor("budget") \cup {i} /\ used' = used
      BY <1>5, <2>3, OmitSplits DEF Select
    <3>2. ASSUME NEW j \in OmittedFor("budget") \cup {i} PROVE ~ Fits(j)'
      BY <1>1, <1>5, <2>3, <3>1 DEF FitInv, NothingMoreFits, Fits, Select
    <3> QED BY <1>5, <3>1, <3>2 DEF FitInv, NothingMoreFits, Select
  <2> QED BY <2>2, <2>3
<1>6. ASSUME NEW i \in todo, Render(i) PROVE FitInv'
  BY <1>2, <1>6, SameOmissions DEF Render
<1>7. CASE NextLoop
  BY <1>2, <1>7, SameOmissions DEF NextLoop, After
<1>8. ASSUME NEW r \in Requests, LaterTurn(r) PROVE FitInv'
  BY <1>8 DEF LaterTurn, Start, FitInv, NothingMoreFits, OmittedFor
<1>9. CASE UNCHANGED vars
  BY <1>2, <1>9, SameOmissions DEF vars
<1> QED BY <1>3, <1>4, <1>5, <1>6, <1>7, <1>8, <1>9 DEF Next

\* Nothing that was left out for the budget fits beside what was selected
\* (select_within_budget goes on after an item that does not fit).
THEOREM NothingMoreFitsHolds == Spec => []NothingMoreFits
<1>1. Init => FitInv
  BY DEF Init, FitInv, NothingMoreFits, OmittedFor
<1>2. Spec => []FitInv
  BY <1>1, FitStep, TypeCorrect, PTL DEF Spec
<1>3. FitInv => NothingMoreFits
  BY DEF FitInv
<1> QED BY <1>2, <1>3, PTL

-----------------------------------------------------------------------------
(* No key and no text twice *)

Apart(i, j) ==
  /\ Candidate(i).key # Candidate(j).key
  /\ Embedded(i) => Candidate(i).content # Candidate(j).content

Distinct(S) == \A i, j \in S : i # j => Apart(i, j)

\* An item that was seen before i and has its key; one that has its text.
SameKey(i, j) == Before(j, i) /\ Candidate(j).key = Candidate(i).key

SameText(i, j) == Before(j, i) /\ Candidate(j).content = Candidate(i).content

\* While dedupe() runs, all it has seen comes before all it has not, and what
\* it drops for its text repeats an item it has kept.
UniqueInv ==
  /\ phase \in {"enforce", "violation"} => OmittedFor("key") = {} /\ OmittedFor("content") = {}
  /\ phase = "dedupe" =>
       /\ Distinct(kept)
       /\ \A i \in todo, j \in kept \cup OmittedFor("content") : Before(j, i)
       /\ \A i \in OmittedFor("content") : \E j \in kept : SameText(i, j)
  /\ phase \in {"select", "render", "done"} => Distinct(kept \cup todo)
  /\ \A i \in OmittedFor("key") : \E j \in DOMAIN request.candidates : SameKey(i, j)
  /\ \A i \in OmittedFor("content") :
       \E j \in DOMAIN request.candidates \ OmittedFor("content") : SameText(i, j)

\* A request that stays as it is keeps what is said of its candidates.
LEMMA SameRequest ==
  ASSUME UNCHANGED request
  PROVE  /\ \A i : Candidate(i)' = Candidate(i) /\ Embedded(i)' = Embedded(i)
         /\ \A i, j : /\ Before(i, j)' = Before(i, j)
                      /\ Apart(i, j)' = Apart(i, j)
                      /\ SameKey(i, j)' = SameKey(i, j)
                      /\ SameText(i, j)' = SameText(i, j)
BY DEF Candidate, Embedded, Before, Apart, SameKey, SameText

\* A step of dedupe() keeps one item of a key and of a text.
LEMMA DedupeKeepsUnique ==
  ASSUME TypeOK, AccountInv, UniqueInv, NEW i \in todo, Dedupe(i)
  PROVE  UniqueInv'
<1> USE DEF Reasons
<1>1. /\ phase = "dedupe" /\ phase' = "dedupe" /\ UNCHANGED request
      /\ todo' = todo \ {i}
      /\ \A k \in todo \ {i} : Before(i, k)
  BY DEF Dedupe, FirstOfTodo
<1>2. /\ kept \subseteq DOMAIN request.candidates
      /\ kept \cap OmittedFor("content") = {}
      /\ i \in DOMAIN request.candidates \ OmittedFor("content")
      /\ OmittedFor("content") \subseteq DOMAIN request.candidates
  BY <1>1 DEF TypeOK, AccountInv, Accounted, OmittedFor, OmittedItems
<1>3. /\ \A k \in todo, j \in kept \cup OmittedFor("content") : Before(j, k)
      /\ Distinct(kept)
      /\ \A k \in OmittedFor("content") : \E j \in kept : SameText(k, j)
      /\ \A k \in OmittedFor("key") : \E j \in DOMAIN request.candidates : SameKey(k, j)
  BY <1>1 DEF UniqueInv
<1>4. CASE Candidate(i).key \in SeenKeys
  <2>1. Omit(i, "key")
    BY <1>4 DEF Dedupe
  <2>2. /\ kept' = kept /\ OmittedFor("content")' = OmittedFor("content")
        /\ OmittedFor("key")' = OmittedFor("key") \cup {i}
    BY <2>1, OmitSplits DEF Omit
  <2>3. PICK j \in kept \cup OmittedFor("content") : Candidate(j).key = Candidate(i).key
    BY <1>4 DEF SeenKeys
  <2>4. j \in DOMAIN request.candidates /\ SameKey(i, j)
    BY <1>2, <1>3, <2>3 DEF SameKey
  <2>5. \A k \in OmittedFor("key")' : \E l \in DOMAIN request.candidates : SameKey(k, l)
    BY <1>3, <2>2, <2>4
  <2> QED BY <1>1, <1>2, <1>3, <2>2, <2>5, SameRequest DEF UniqueInv, Distinct
<1>5. CASE /\ Candidate(i).key \notin SeenKeys
           /\ Embedded(i) /\ Candidate(i).content \in SeenContents
  <2>1. Omit(i, "content")
    BY <1>5 DEF Dedupe
  <2>2. /\ kept' = kept /\ OmittedFor("key")' = OmittedFor("key")
        /\ OmittedFor("content")' = OmittedFor("content") \cup {i}
    BY <2>1, OmitSplits DEF Omit
  <2>3. PICK j \in kept : Candidate(j).content = Candidate(i).content
    BY <1>5 DEF SeenContents
  <2>4. SameText(i, j)
    BY <1>3, <2>3 DEF SameText
  <2>5. \A k \in OmittedFor("content")' : \E l \in kept : SameText(k, l)
    BY <1>3, <2>2, <2>4
  <2>6. kept \subseteq DOMAIN request.candidates \ OmittedFor("content")'
    BY <1>1, <1>2, <2>2 DEF AccountInv, Accounted
  <2> QED BY <1>1, <1>3, <2>2, <2>5, <2>6, SameRequest DEF UniqueInv, Distinct
<1>6. CASE /\ Candidate(i).key \notin SeenKeys
           /\ ~ (Embedded(i) /\ Candidate(i).content \in SeenContents)
  <2>1. Keep(i)
    BY <1>6 DEF Dedupe
  <2>2. /\ kept' = kept \cup {i}
        /\ OmittedFor("key")' = OmittedFor("key")
        /\ OmittedFor("content")' = OmittedFor("content")
    BY <2>1, SameOmissions DEF Keep
  <2>3. \A j \in kept : Apart(i, j) /\ Apart(j, i)
    BY <1>6 DEF SeenKeys, SeenContents, Apart, Embedded
  <2>4. Distinct(kept \cup {i})
    BY <1>3, <2>3 DEF Distinct
  <2> QED BY <1>1, <1>2, <1>3, <2>2, <2>4, SameRequest DEF UniqueInv, Distinct
<1> QED BY <1>4, <1>5, <1>6

\* No loop repeats a key or a text.
LEMMA UniqueStep == TypeOK /\ AccountInv /\ UniqueInv /\ [Next]_vars => UniqueInv'
<1> SUFFICES ASSUME TypeOK, AccountInv, UniqueInv, [Next]_vars PROVE UniqueInv'
  OBVIOUS
<1> USE DEF Reasons
<1>1. ASSUME UNCHANGED request, phase \in {"select", "render"},
             phase' \in {"select", "render", "done"},
             kept' \cup todo' \subseteq kept \cup todo,
             OmittedFor("key")' = OmittedFor("key"),
             OmittedFor("content")' = OmittedFor("content")
      PROVE  UniqueInv'
  BY <1>1, SameRequest DEF UniqueInv, Distinct
<1>2. ASSUME NEW i \in todo, Enforce(i) PROVE UniqueInv'
  <2>1. OmittedFor("key")' = {} /\ OmittedFor("content")' = {}
    BY <1>2, SameOmissions, OmitSplits DEF Enforce, Keep, UniqueInv
  <2> QED BY <1>2, <2>1 DEF Enforce, UniqueInv
<1>3. ASSUME NEW i \in todo, Dedupe(i) PROVE UniqueInv'
  BY <1>3, DedupeKeepsUnique
<1>4. ASSUME NEW i \in todo, Select(i) PROVE UniqueInv'
  BY <1>1, <1>4, SameOmissions, OmitSplits DEF Select, Keep, Omit
<1>5. ASSUME NEW i \in todo, Render(i) PROVE UniqueInv'
  BY <1>1, <1>5, SameOmissions DEF Render
<1>6. CASE NextLoop
  <2>1. /\ UNCHANGED request
        /\ OmittedFor("key")' = OmittedFor("key")
        /\ OmittedFor("content")' = OmittedFor("content")
    BY <1>6, SameOmissions DEF NextLoop
  <2>2. CASE phase = "enforce"
    BY <1>6, <2>1, <2>2, SameRequest DEF NextLoop, After, UniqueInv, Distinct
  <2>3. CASE phase = "dedupe"
    BY <1>6, <2>1, <2>3, SameRequest DEF NextLoop, After, UniqueInv, Distinct
  <2>4. CASE phase \in {"select", "render"}
    BY <1>1, <1>6, <2>1, <2>4 DEF NextLoop, After
  <2> QED BY <1>6, <2>2, <2>3, <2>4 DEF NextLoop, After
<1>7. ASSUME NEW r \in Requests, LaterTurn(r) PROVE UniqueInv'
  BY <1>7 DEF LaterTurn, Start, UniqueInv, OmittedFor
<1>8. CASE UNCHANGED vars
  BY <1>8, SameOmissions, SameRequest DEF vars, UniqueInv, Distinct
<1> QED BY <1>2, <1>3, <1>4, <1>5, <1>6, <1>7, <1>8 DEF Next

\* The prompt has no key and no text twice, and what dedupe() drops repeats an
\* item that comes before it by priority and was not dropped for its text.
THEOREM UnrepeatedHolds == Spec => []Unrepeated
<1>1. Init => UniqueInv
  BY DEF Init, UniqueInv, OmittedFor
<1>2. Spec => []UniqueInv
  BY <1>1, UniqueStep, TypeCorrect, AccountInit, AccountStep, PTL DEF Spec
<1>3. UniqueInv => Unrepeated
  BY DEF UniqueInv, Unrepeated, Distinct, Apart, SameKey, SameText
<1> QED BY <1>2, <1>3, PTL

-----------------------------------------------------------------------------
(* Induction, for sets: the provers cannot apply the library's induction to an
   operator, but they can look for the least member of a set. *)

\* A set of naturals that is not empty has a least member.
LEMMA NatLeast ==
  ASSUME NEW T \in SUBSET Nat, T # {}
  PROVE  \E n \in T : \A m \in T : n <= m
<1> DEFINE less == {p \in Nat \X Nat : p[1] < p[2]}
<1>1. IsWellFoundedOn(less, Nat)
  BY NatLessThanWellFounded, Zenon DEF OpToRel
<1>2. \E n \in T : \A m \in T : ~ (<<m, n>> \in less)
  BY <1>1, WFMin
<1>3. \A m, n \in T : ~ (<<m, n>> \in less) => n <= m
  OBVIOUS
<1> HIDE DEF less
<1> QED BY <1>2, <1>3

\* Induction over the naturals, for a set of them.
LEMMA NatSetInduction ==
  ASSUME NEW T \in SUBSET Nat, 0 \in T, \A n \in T : n + 1 \in T
  PROVE  T = Nat
<1> DEFINE rest == Nat \ T
<1>1. SUFFICES ASSUME rest # {} PROVE FALSE
  OBVIOUS
<1>2. PICK n \in rest : \A m \in rest : n <= m
  BY <1>1, NatLeast
<1>3. n - 1 \in Nat /\ (n - 1) + 1 = n
  OBVIOUS
<1>4. n - 1 \in rest
  BY <1>3
<1> QED BY <1>2, <1>3, <1>4

-----------------------------------------------------------------------------
(* Sums over finite sets *)

\* The sum of what w gives the members of S.
Total(w, S) == MapThenSumSet(LAMBDA x : w[x], S)

\* The member that the fold takes first.
Picked(s) == CHOOSE x \in s : TRUE

\* f sums over each set of the collection what w gives its members.
Sums(f, w, Sets) ==
  f = [s \in Sets |-> IF s = {} THEN 0 ELSE w[Picked(s)] + f[s \ {Picked(s)}]]

\* The sets are those of members of S.
SumsBelow(f, w, S) == Sums(f, w, SUBSET S)

\* What the fold of the community modules computes, unfolded.
LEMMA SumDef ==
  ASSUME NEW w, NEW S
  PROVE  Total(w, S) = (CHOOSE f : SumsBelow(f, w, S))[S]
BY Zenon DEF Total, MapThenSumSet, MapThenFoldSet, SumsBelow, Sums, Picked

\* A set that is not empty has a first member.
LEMMA PickedMember == \A s : s # {} => Picked(s) \in s
BY DEF Picked

\* Without its first member a set is one smaller.
LEMMA SmallerSet ==
  ASSUME NEW s, IsFiniteSet(s), s # {}
  PROVE  /\ IsFiniteSet(s \ {Picked(s)})
         /\ Cardinality(s) \in Nat /\ Cardinality(s \ {Picked(s)}) \in Nat
         /\ Cardinality(s) = Cardinality(s \ {Picked(s)}) + 1
BY PickedMember, FS_RemoveElement, FS_CardinalityType

\* The same, from the number of members.
LEMMA OneSmaller ==
  ASSUME NEW s, IsFiniteSet(s), NEW n \in Nat, Cardinality(s) = n + 1
  PROVE  /\ s # {} /\ Picked(s) \in s
         /\ IsFiniteSet(s \ {Picked(s)}) /\ Cardinality(s \ {Picked(s)}) = n
<1>1. s # {}
  BY FS_EmptySet
<1>2. /\ IsFiniteSet(s \ {Picked(s)})
      /\ Cardinality(s \ {Picked(s)}) \in Nat
      /\ Cardinality(s) = Cardinality(s \ {Picked(s)}) + 1
  BY <1>1, SmallerSet
<1>3. Cardinality(s \ {Picked(s)}) = n
  BY <1>2
<1> QED BY <1>1, <1>2, <1>3, PickedMember

\* The recursion has a solution: one set is summed from a smaller one.
LEMMA SumsExist ==
  ASSUME NEW w, NEW S, IsFiniteSet(S)
  PROVE  \E f : SumsBelow(f, w, S)
<1> DEFINE Small(n) == {s \in SUBSET S : Cardinality(s) <= n}
           Done == {n \in Nat : \E f : Sums(f, w, Small(n))}
<1>0. ASSUME NEW s \in SUBSET S PROVE IsFiniteSet(s) /\ Cardinality(s) \in Nat
  BY FS_Subset, FS_CardinalityType
<1>1. 0 \in Done
  <2> DEFINE f == [s \in Small(0) |-> 0]
  <2>1. \A s \in Small(0) : s = {}
    BY <1>0, FS_EmptySet
  <2>2. f = [s \in Small(0) |-> IF s = {} THEN 0 ELSE w[Picked(s)] + f[s \ {Picked(s)}]]
    BY <2>1
  <2>3. Sums(f, w, Small(0))
    BY <2>2 DEF Sums
  <2> QED BY <2>3
<1>2. ASSUME NEW n \in Done PROVE n + 1 \in Done
  <2>1. PICK f : Sums(f, w, Small(n))
    OBVIOUS
  <2> DEFINE g == [s \in Small(n + 1) |-> IF s = {} THEN 0 ELSE w[Picked(s)] + f[s \ {Picked(s)}]]
  <2>2. ASSUME NEW s \in Small(n + 1), s # {}
        PROVE  g[s \ {Picked(s)}] = f[s \ {Picked(s)}]
    <3> DEFINE t == s \ {Picked(s)}
    <3>1. t \in Small(n) /\ t \in Small(n + 1)
      BY <1>0, <2>2, SmallerSet
    <3> HIDE DEF t, Small
    <3>2. f[t] = IF t = {} THEN 0 ELSE w[Picked(t)] + f[t \ {Picked(t)}]
      BY <2>1, <3>1 DEF Sums
    <3> QED BY <3>1, <3>2 DEF t
  <2>3. g = [s \in Small(n + 1) |-> IF s = {} THEN 0 ELSE w[Picked(s)] + g[s \ {Picked(s)}]]
    <3> HIDE DEF Small
    <3> QED BY <2>2
  <2>4. Sums(g, w, Small(n + 1))
    BY <2>3 DEF Sums
  <2>5. n + 1 \in Nat
    OBVIOUS
  <2> HIDE DEF g, Small
  <2> QED BY <2>4, <2>5
<1>3. Done = Nat
  <2> HIDE DEF Done
  <2>1. Done \in SUBSET Nat
    BY DEF Done
  <2> QED BY <1>1, <1>2, <2>1, NatSetInduction
<1>4. Cardinality(S) \in Nat /\ Small(Cardinality(S)) = SUBSET S
  BY <1>0, FS_Subset, FS_CardinalityType
<1>5. Cardinality(S) \in Done
  BY <1>3, <1>4
<1>6. \E f : Sums(f, w, Small(Cardinality(S)))
  BY <1>5
<1> QED
  <2> HIDE DEF Small
  <2> QED BY <1>4, <1>6 DEF SumsBelow

\* Two sums agree on the sets that both of them cover.
LEMMA SumsAgree ==
  ASSUME NEW w, NEW f, NEW g, NEW S, NEW T, SumsBelow(f, w, S), SumsBelow(g, w, T),
         NEW s \in SUBSET (S \cap T), IsFiniteSet(s)
  PROVE  f[s] = g[s]
<1> DEFINE Agree == {n \in Nat : \A t \in SUBSET (S \cap T) :
                                   IsFiniteSet(t) /\ Cardinality(t) = n => f[t] = g[t]}
<1>0. ASSUME NEW t \in SUBSET (S \cap T)
      PROVE  /\ f[t] = IF t = {} THEN 0 ELSE w[Picked(t)] + f[t \ {Picked(t)}]
             /\ g[t] = IF t = {} THEN 0 ELSE w[Picked(t)] + g[t \ {Picked(t)}]
  BY DEF SumsBelow, Sums
<1>1. 0 \in Agree
  BY <1>0, FS_EmptySet
<1>2. ASSUME NEW n \in Agree PROVE n + 1 \in Agree
  <2>1. ASSUME NEW t \in SUBSET (S \cap T), IsFiniteSet(t), Cardinality(t) = n + 1
        PROVE  f[t] = g[t]
    <3>1. t # {} /\ IsFiniteSet(t \ {Picked(t)}) /\ Cardinality(t \ {Picked(t)}) = n
      BY <2>1, OneSmaller
    <3>2. f[t \ {Picked(t)}] = g[t \ {Picked(t)}]
      BY <2>1, <3>1
    <3> QED BY <1>0, <3>1, <3>2
  <2> QED BY <2>1
<1>3. Agree = Nat
  <2> HIDE DEF Agree
  <2>1. Agree \in SUBSET Nat
    BY DEF Agree
  <2> QED BY <1>1, <1>2, <2>1, NatSetInduction
<1>4. Cardinality(s) \in Agree
  BY <1>3, FS_CardinalityType
<1> QED BY <1>4

\* The sum of a set that has members, by the one the fold takes first.
LEMMA SumUnfolds ==
  ASSUME NEW w, NEW S, IsFiniteSet(S)
  PROVE  Total(w, S) = IF S = {} THEN 0 ELSE w[Picked(S)] + Total(w, S \ {Picked(S)})
<1> DEFINE f == CHOOSE h : SumsBelow(h, w, S)
           T == S \ {Picked(S)}
           g == CHOOSE h : SumsBelow(h, w, T)
<1>1. IsFiniteSet(T)
  BY FS_RemoveElement
<1>2. SumsBelow(f, w, S)
  BY SumsExist
<1>3. SumsBelow(g, w, T)
  BY <1>1, SumsExist
<1>4. Total(w, S) = f[S] /\ Total(w, T) = g[T]
  BY SumDef
<1> HIDE DEF f, g
<1>5. f[S] = IF S = {} THEN 0 ELSE w[Picked(S)] + f[T]
  BY <1>2 DEF SumsBelow, Sums
<1>6. f[T] = g[T]
  <2>1. T \in SUBSET (S \cap T)
    OBVIOUS
  <2> HIDE DEF T
  <2>2. \A s \in SUBSET (S \cap T) : IsFiniteSet(s) => f[s] = g[s]
    BY <1>2, <1>3, SumsAgree
  <2> QED BY <1>1, <2>1, <2>2
<1> QED BY <1>4, <1>5, <1>6

\* Nothing sums to nothing.
LEMMA SumEmpty == \A w : Total(w, {}) = 0
BY SumUnfolds, FS_EmptySet

\* Naturals sum to a natural.
LEMMA SumType ==
  ASSUME NEW w, NEW S, IsFiniteSet(S), \A x \in S : w[x] \in Nat
  PROVE  Total(w, S) \in Nat
<1> DEFINE Typed == {n \in Nat : \A t \in SUBSET S :
                                   IsFiniteSet(t) /\ Cardinality(t) = n => Total(w, t) \in Nat}
<1>1. 0 \in Typed
  BY FS_EmptySet, SumEmpty
<1>2. ASSUME NEW n \in Typed PROVE n + 1 \in Typed
  <2>1. ASSUME NEW t \in SUBSET S, IsFiniteSet(t), Cardinality(t) = n + 1
        PROVE  Total(w, t) \in Nat
    <3>1. /\ t # {} /\ Picked(t) \in t
          /\ IsFiniteSet(t \ {Picked(t)}) /\ Cardinality(t \ {Picked(t)}) = n
      BY <2>1, OneSmaller
    <3>2. Total(w, t \ {Picked(t)}) \in Nat
      BY <2>1, <3>1
    <3>3. w[Picked(t)] \in Nat
      BY <3>1
    <3> QED BY <2>1, <3>1, <3>2, <3>3, SumUnfolds
  <2> QED BY <2>1
<1>3. Typed = Nat
  <2> HIDE DEF Typed
  <2>1. Typed \in SUBSET Nat
    BY DEF Typed
  <2> QED BY <1>1, <1>2, <2>1, NatSetInduction
<1>4. Cardinality(S) \in Typed
  BY <1>3, FS_CardinalityType
<1> QED BY <1>4

\* One more member adds what it weighs, whatever order the fold takes.
LEMMA SumAdds ==
  ASSUME NEW w, NEW S, IsFiniteSet(S), NEW x, x \notin S,
         \A y \in S \cup {x} : w[y] \in Nat
  PROVE  Total(w, S \cup {x}) = Total(w, S) + w[x]
<1> DEFINE Adds == {n \in Nat :
             \A t \in SUBSET (S \cup {x}), y \in S \cup {x} :
               IsFiniteSet(t) /\ Cardinality(t) = n /\ y \in t
                 => Total(w, t) = Total(w, t \ {y}) + w[y]}
<1>1. 0 \in Adds
  BY FS_EmptySet
<1>2. ASSUME NEW n \in Adds PROVE n + 1 \in Adds
  <2>1. ASSUME NEW t \in SUBSET (S \cup {x}), NEW y \in S \cup {x},
               IsFiniteSet(t), Cardinality(t) = n + 1, y \in t
        PROVE  Total(w, t) = Total(w, t \ {y}) + w[y]
    <3> DEFINE p == Picked(t)
               rest == t \ {p}
    <3>1. p \in t
      BY <2>1, PickedMember
    <3>2. IsFiniteSet(rest) /\ Cardinality(rest) = n
      BY <2>1, OneSmaller
    <3>3. Total(w, t) = w[p] + Total(w, rest)
      BY <2>1, SumUnfolds
    <3>4. /\ IsFiniteSet(rest \ {y}) /\ IsFiniteSet(t \ {y})
          /\ Cardinality(t \ {y}) = n
      BY <2>1, <3>2, FS_RemoveElement
    <3>5. Total(w, rest) \in Nat /\ w[p] \in Nat /\ w[y] \in Nat /\ Total(w, rest \ {y}) \in Nat
      BY <3>1, <3>2, <3>4, SumType
    <3>6. CASE p = y
      BY <3>3, <3>5, <3>6
    <3>7. CASE p # y
      <4>1. Total(w, rest) = Total(w, rest \ {y}) + w[y]
        <5>1. rest \in SUBSET (S \cup {x}) /\ y \in rest
          BY <2>1, <3>7
        <5> HIDE DEF rest
        <5> QED BY <3>2, <5>1
      <4>2. Total(w, t \ {y}) = Total(w, (t \ {y}) \ {p}) + w[p]
        <5>1. t \ {y} \in SUBSET (S \cup {x}) /\ p \in t \ {y} /\ p \in S \cup {x}
          BY <3>1, <3>7
        <5> HIDE DEF p
        <5> QED BY <3>4, <5>1
      <4>3. (t \ {y}) \ {p} = rest \ {y}
        OBVIOUS
      <4> HIDE DEF p, rest
      <4> QED BY <3>3, <3>5, <4>1, <4>2, <4>3
    <3> QED BY <3>6, <3>7
  <2> QED BY <2>1
<1>3. Adds = Nat
  <2> HIDE DEF Adds
  <2>1. Adds \in SUBSET Nat
    BY DEF Adds
  <2> QED BY <1>1, <1>2, <2>1, NatSetInduction
<1>4. /\ IsFiniteSet(S \cup {x}) /\ Cardinality(S \cup {x}) \in Adds
      /\ (S \cup {x}) \ {x} = S
  <2>1. IsFiniteSet(S \cup {x}) /\ Cardinality(S \cup {x}) \in Nat
    BY FS_AddElement, FS_CardinalityType
  <2> HIDE DEF Adds
  <2> QED BY <1>3, <2>1
<1> QED BY <1>4

-----------------------------------------------------------------------------
(* Priority decides who is in *)

\* Before orders the candidates of a request, one way or the other.
LEMMA BeforeOrders ==
  ASSUME request \in Requests,
         NEW i \in DOMAIN request.candidates, NEW j \in DOMAIN request.candidates
  PROVE  /\ ~ (Before(i, j) /\ Before(j, i))
         /\ i # j => Before(i, j) \/ Before(j, i)
<1>1. Candidate(i) \in Item /\ Candidate(j) \in Item /\ i \in Nat /\ j \in Nat
  BY RequestFacts
<1>2. /\ Candidate(i).priority \in Nat /\ Candidate(j).priority \in Nat
      /\ Candidate(i).key \in Key /\ Candidate(j).key \in Key
  BY <1>1 DEF Item
<1>3. /\ Rank[Candidate(i).key] \in Nat /\ Rank[Candidate(j).key] \in Nat
      /\ Rank[Candidate(i).key] = Rank[Candidate(j).key] => Candidate(i).key = Candidate(j).key
  BY <1>2, BuilderAssumption
<1> QED BY <1>1, <1>2, <1>3 DEF Before

TokensOf == [i \in DOMAIN request.candidates |-> Tokens(i)]

\* What the selection has taken: the next loop takes it from todo again.
Chosen == IF phase = "render" THEN kept \cup todo ELSE kept

ChosenBefore(i) == {j \in Chosen : Before(j, i)}

Ahead(i) == Total(TokensOf, ChosenBefore(i))

\* While the selection runs, `used` is the sum of what it has taken, and all it
\* has looked at comes before all it has not: so what was ahead of an item when
\* it was looked at is ahead of it for good.
GreedyInv ==
  /\ phase \in {"enforce", "dedupe"} => used = 0
  /\ phase = "select" =>
       /\ used = Total(TokensOf, kept)
       /\ \A i \in kept \cup OmittedFor("budget"), j \in todo : Before(i, j)
  /\ phase \in {"select", "render", "done"} =>
       /\ \A i \in Chosen : Ahead(i) + Tokens(i) <= request.limit
       /\ \A i \in OmittedFor("budget") : Ahead(i) + Tokens(i) > request.limit

\* The tokens of candidates can be summed, set by set.
LEMMA TokenSums ==
  ASSUME request \in Requests, NEW S \in SUBSET DOMAIN request.candidates
  PROVE  /\ IsFiniteSet(S)
         /\ Total(TokensOf, S) \in Nat
         /\ \A i \in DOMAIN request.candidates \ S :
              Total(TokensOf, S \cup {i}) = Total(TokensOf, S) + Tokens(i)
<1>1. /\ request.candidates \in Seq(Item)
      /\ \A i \in DOMAIN request.candidates : TokensOf[i] = Tokens(i) /\ TokensOf[i] \in Nat
  BY RequestFacts DEF TokensOf
<1>2. DOMAIN request.candidates = 1..Len(request.candidates) /\ Len(request.candidates) \in Nat
  BY <1>1
<1>3. IsFiniteSet(DOMAIN request.candidates)
  BY <1>2, FS_Interval
<1>4. IsFiniteSet(S)
  BY <1>3, FS_Subset
<1>5. Total(TokensOf, S) \in Nat
  BY <1>1, <1>4, SumType
<1>6. ASSUME NEW i \in DOMAIN request.candidates \ S
      PROVE  Total(TokensOf, S \cup {i}) = Total(TokensOf, S) + Tokens(i)
  <2>1. \A j \in S \cup {i} : TokensOf[j] \in Nat
    BY <1>1
  <2>2. Total(TokensOf, S \cup {i}) = Total(TokensOf, S) + TokensOf[i]
    BY <1>4, <1>6, <2>1, SumAdds
  <2> QED BY <1>1, <2>2
<1> QED BY <1>4, <1>5, <1>6

\* A step of select_within_budget() spends ahead of every item what it must.
LEMMA SelectKeepsGreedy ==
  ASSUME TypeOK, AccountInv, GreedyInv, NEW i \in todo, Select(i)
  PROVE  GreedyInv'
<1> USE DEF Reasons
<1>1. /\ phase = "select" /\ phase' = "select" /\ UNCHANGED request
      /\ todo' = todo \ {i} /\ Chosen = kept /\ Chosen' = kept'
      /\ \A j \in todo \ {i} : Before(i, j)
  BY DEF Select, FirstOfTodo, Chosen
<1>2. /\ TokensOf' = TokensOf /\ \A j : Tokens(j)' = Tokens(j)
      /\ \A j, k : Before(j, k)' = Before(j, k)
  BY <1>1 DEF TokensOf, Tokens, Embedded, Candidate, Before
<1>3. /\ kept \subseteq DOMAIN request.candidates
      /\ OmittedFor("budget") \subseteq DOMAIN request.candidates
      /\ i \in DOMAIN request.candidates \ kept
      /\ request \in Requests
  BY <1>1 DEF TypeOK, AccountInv, Accounted, OmittedFor
<1>4. /\ used = Total(TokensOf, kept)
      /\ \A j \in kept \cup OmittedFor("budget"), k \in todo : Before(j, k)
      /\ \A j \in kept : Ahead(j) + Tokens(j) <= request.limit
      /\ \A j \in OmittedFor("budget") : Ahead(j) + Tokens(j) > request.limit
  BY <1>1 DEF GreedyInv
<1>5. \A j \in kept \cup OmittedFor("budget") \cup {i}: Before(j, i) \/ j = i
  BY <1>4
<1>6. ~ Before(i, i) /\ \A j \in kept \cup OmittedFor("budget") : ~ Before(i, j)
  BY <1>3, <1>4, BeforeOrders
<1>7. /\ used \in Nat /\ Tokens(i) \in Nat /\ request.limit \in Nat
      /\ Total(TokensOf, kept \cup {i}) = used + Tokens(i)
  BY <1>3, <1>4, TokenSums, RequestFacts
<1>8. CASE Fits(i)
  <2>1. /\ kept' = kept \cup {i} /\ used' = used + Tokens(i)
        /\ OmittedFor("budget")' = OmittedFor("budget")
    BY <1>8, SameOmissions DEF Select, Keep
  <2>2. \A j \in kept \cup OmittedFor("budget") : ChosenBefore(j)' = ChosenBefore(j)
    BY <1>1, <1>2, <1>6, <2>1 DEF ChosenBefore
  <2>3. ChosenBefore(i)' = kept
    BY <1>1, <1>2, <1>3, <1>5, <1>6, <2>1 DEF ChosenBefore
  <2>4. /\ \A j \in kept \cup OmittedFor("budget") : Ahead(j)' = Ahead(j)
        /\ Ahead(i)' = used
    BY <1>2, <1>4, <2>2, <2>3 DEF Ahead
  <2>5. used + Tokens(i) <= request.limit
    BY <1>8 DEF Fits
  <2>6. used' = Total(TokensOf, kept)'
    BY <1>2, <1>7, <2>1
  <2>7. \A j \in (kept \cup OmittedFor("budget"))', k \in todo' : Before(j, k)'
    BY <1>1, <1>2, <1>4, <2>1
  <2>8. /\ \A j \in Chosen' : Ahead(j)' + Tokens(j)' <= request'.limit
        /\ \A j \in OmittedFor("budget")' : Ahead(j)' + Tokens(j)' > request'.limit
    BY <1>1, <1>2, <1>4, <2>1, <2>4, <2>5
  <2> QED BY <1>1, <2>6, <2>7, <2>8 DEF GreedyInv
<1>9. CASE ~ Fits(i)
  <2>1. /\ kept' = kept /\ used' = used
        /\ OmittedFor("budget")' = OmittedFor("budget") \cup {i}
    BY <1>9, OmitSplits DEF Select, Omit
  <2>2. \A j : ChosenBefore(j)' = ChosenBefore(j)
    BY <1>1, <1>2, <2>1 DEF ChosenBefore
  <2>3. ChosenBefore(i) = kept
    BY <1>1, <1>5, <1>6, <1>3 DEF ChosenBefore
  <2>4. (\A j : Ahead(j)' = Ahead(j)) /\ Ahead(i) = used
    BY <1>2, <1>4, <2>2, <2>3 DEF Ahead
  <2>5. used + Tokens(i) > request.limit
    BY <1>7, <1>9 DEF Fits
  <2>6. used' = Total(TokensOf, kept)'
    BY <1>2, <1>4, <2>1
  <2>7. \A j \in (kept \cup OmittedFor("budget"))', k \in todo' : Before(j, k)'
    BY <1>1, <1>2, <1>4, <2>1
  <2>8. /\ \A j \in Chosen' : Ahead(j)' + Tokens(j)' <= request'.limit
        /\ \A j \in OmittedFor("budget")' : Ahead(j)' + Tokens(j)' > request'.limit
    BY <1>1, <1>2, <1>4, <2>1, <2>4, <2>5
  <2> QED BY <1>1, <2>6, <2>7, <2>8 DEF GreedyInv
<1> QED BY <1>8, <1>9

\* Every step keeps what is spent ahead of the items as it must be.
LEMMA GreedyStep == TypeOK /\ AccountInv /\ FitInv /\ GreedyInv /\ [Next]_vars => GreedyInv'
<1> SUFFICES ASSUME TypeOK, AccountInv, FitInv, GreedyInv, [Next]_vars PROVE GreedyInv'
  OBVIOUS
<1> USE DEF Reasons
<1>1. ASSUME UNCHANGED request
      PROVE  /\ TokensOf' = TokensOf /\ \A j : Tokens(j)' = Tokens(j)
             /\ \A j, k : Before(j, k)' = Before(j, k)
  BY <1>1 DEF TokensOf, Tokens, Embedded, Candidate, Before
<1>2. ASSUME UNCHANGED <<request, omitted>>, phase \in {"select", "render", "done"},
             phase' \in {"render", "done"}, Chosen' = Chosen
      PROVE  GreedyInv'
  <2>1. \A j : ChosenBefore(j)' = ChosenBefore(j)
    BY <1>1, <1>2 DEF ChosenBefore
  <2>2. \A j : Ahead(j)' = Ahead(j)
    BY <1>1, <1>2, <2>1 DEF Ahead
  <2>3. OmittedFor("budget")' = OmittedFor("budget")
    BY <1>2, SameOmissions
  <2> QED BY <1>1, <1>2, <2>2, <2>3 DEF GreedyInv
<1>3. ASSUME NEW i \in todo, Enforce(i) PROVE GreedyInv'
  BY <1>3 DEF Enforce, GreedyInv
<1>4. ASSUME NEW i \in todo, Dedupe(i) PROVE GreedyInv'
  BY <1>4 DEF Dedupe, GreedyInv
<1>5. ASSUME NEW i \in todo, Select(i) PROVE GreedyInv'
  BY <1>5, SelectKeepsGreedy
<1>6. ASSUME NEW i \in todo, Render(i) PROVE GreedyInv'
  <2>1. Chosen' = Chosen
    BY <1>6 DEF Render, Chosen
  <2> QED BY <1>2, <1>6, <2>1 DEF Render
<1>7. CASE NextLoop
  <2>1. CASE phase = "enforce"
    BY <1>7, <2>1 DEF NextLoop, After, GreedyInv
  <2>2. CASE phase = "dedupe"
    <3>1. phase' = "select" /\ kept' = {} /\ Chosen' = {} /\ used' = 0
      BY <1>7, <2>2 DEF NextLoop, After, Chosen, GreedyInv
    <3>2. OmittedFor("budget")' = {}
      BY <1>7, <2>2, SameOmissions DEF NextLoop, FitInv
    <3>3. Total(TokensOf, kept)' = 0
      BY <3>1, SumEmpty
    <3> QED BY <3>1, <3>2, <3>3 DEF GreedyInv
  <2>3. CASE phase \in {"select", "render"}
    <3>1. phase' \in {"render", "done"} /\ Chosen' = Chosen
      BY <1>7, <2>3 DEF NextLoop, After, Chosen
    <3> QED BY <1>2, <1>7, <2>3, <3>1 DEF NextLoop
  <2> QED BY <1>7, <2>1, <2>2, <2>3 DEF NextLoop, After
<1>8. ASSUME NEW r \in Requests, LaterTurn(r) PROVE GreedyInv'
  BY <1>8 DEF LaterTurn, Start, GreedyInv
<1>9. CASE UNCHANGED vars
  <2>1. OmittedFor("budget")' = OmittedFor("budget") /\ Chosen' = Chosen
    BY <1>9, SameOmissions DEF vars, Chosen
  <2>2. \A j : ChosenBefore(j)' = ChosenBefore(j)
    BY <1>1, <1>9, <2>1 DEF vars, ChosenBefore
  <2>3. \A j : Ahead(j)' = Ahead(j)
    BY <1>1, <1>9, <2>2 DEF vars, Ahead
  <2> QED BY <1>1, <1>9, <2>1, <2>3 DEF vars, GreedyInv
<1> QED BY <1>3, <1>4, <1>5, <1>6, <1>7, <1>8, <1>9 DEF Next

\* The same recursion, over the tokens of the request.
SpendsBelow(f, S) ==
  f = [s \in SUBSET S |-> IF s = {} THEN 0 ELSE Tokens(Picked(s)) + f[s \ {Picked(s)}]]

\* A fold of the tokens is their sum.
LEMMA SpentTotals ==
  ASSUME request \in Requests, NEW S \in SUBSET DOMAIN request.candidates
  PROVE  Spent(S) = Total(TokensOf, S)
<1> DEFINE f == CHOOSE h : SpendsBelow(h, S)
           g == CHOOSE h : SumsBelow(h, TokensOf, S)
<1>1. Spent(S) = f[S]
  BY Zenon DEF Spent, MapThenSumSet, MapThenFoldSet, SpendsBelow, Picked
<1>2. Total(TokensOf, S) = g[S]
  BY SumDef
<1>3. \A s \in SUBSET S : s # {} => TokensOf[Picked(s)] = Tokens(Picked(s))
  BY PickedMember DEF TokensOf
<1>4. \A h : SpendsBelow(h, S) <=> SumsBelow(h, TokensOf, S)
  BY <1>3 DEF SpendsBelow, SumsBelow, Sums
<1>5. IsFiniteSet(S)
  BY TokenSums
<1>6. \E h : SumsBelow(h, TokensOf, S)
  BY <1>5, SumsExist
<1>7. SumsBelow(f, TokensOf, S) /\ SumsBelow(g, TokensOf, S)
  BY <1>4, <1>6
<1> HIDE DEF f, g
<1>8. f[S] = g[S]
  <2>1. \A s \in SUBSET (S \cap S) : IsFiniteSet(s) => f[s] = g[s]
    BY <1>7, SumsAgree
  <2> QED BY <1>5, <2>1
<1> QED BY <1>1, <1>2, <1>8

\* An item is in the prompt exactly when it fits beside the chosen items before
\* it in priority, whatever comes after it (select_within_budget).
THEOREM GreedyByPriorityHolds == Spec => []GreedyByPriority
<1>1. Init => FitInv /\ GreedyInv
  BY DEF Init, FitInv, NothingMoreFits, OmittedFor, GreedyInv
<1>2. Spec => [](TypeOK /\ GreedyInv)
  BY <1>1, TypeCorrect, AccountInit, AccountStep, FitStep, GreedyStep, PTL DEF Spec
<1>3. TypeOK /\ GreedyInv => GreedyByPriority
  <2> SUFFICES ASSUME TypeOK, GreedyInv, phase = "done" PROVE GreedyByPriority
    BY DEF GreedyByPriority
  <2>1. ASSUME NEW i PROVE Ahead(i) = Spent({j \in kept : Before(j, i)})
    <3> DEFINE S == {j \in kept : Before(j, i)}
    <3>1. ChosenBefore(i) = S /\ S \in SUBSET DOMAIN request.candidates
      BY DEF ChosenBefore, Chosen, TypeOK
    <3> HIDE DEF S
    <3>2. Spent(S) = Total(TokensOf, S)
      BY <3>1, SpentTotals DEF TypeOK
    <3> QED BY <3>1, <3>2 DEF Ahead, S
  <2>2. Chosen = kept
    BY DEF Chosen
  <2> QED BY <2>1, <2>2 DEF GreedyInv, GreedyByPriority
<1> QED BY <1>2, <1>3, PTL

-----------------------------------------------------------------------------
(* What a finished build has done with its candidates *)

\* The candidates of a request have keys of their own.
Keyed(r) == \A i, j \in DOMAIN r.candidates : r.candidates[i].key = r.candidates[j].key => i = j

\* What dedupe() has left, wherever the later loops have put it.
Survivors == kept \cup todo \cup OmittedFor("budget")

\* Where candidates have keys of their own, dedupe() drops exactly the texts
\* that repeat one of a survivor before them.
SurvivorInv ==
  /\ \A i \in OmittedFor("policy") : ~ Allowed(i)
  /\ \A i \in OmittedFor("content") : Embedded(i)
  /\ Keyed(request) => OmittedFor("key") = {}
  /\ phase \in {"select", "render", "done"} =>
       /\ Distinct(Survivors)
       /\ \A i \in Survivors : Allowed(i)
       /\ \A i \in OmittedFor("content") : \E j \in Survivors : SameText(i, j)

\* The selection and the rendering lose no survivor.
LEMMA SurvivorsStay ==
  ASSUME SurvivorInv, UNCHANGED request, phase \in {"select", "render", "done"},
         phase' \in {"select", "render", "done"}, Survivors' = Survivors,
         \A why \in {"policy", "key", "content"} : OmittedFor(why)' = OmittedFor(why)
  PROVE  SurvivorInv'
<1>1. \A i : Allowed(i)' = Allowed(i)
  BY DEF Allowed, Candidate
<1>2. Keyed(request)' = Keyed(request)
  BY DEF Keyed
<1> QED BY <1>1, <1>2, SameRequest DEF SurvivorInv, Distinct

\* The loops keep exactly the survivors of the policy and of dedupe().
LEMMA SurvivorStep ==
  TypeOK /\ AccountInv /\ BlindInv /\ FitInv /\ UniqueInv /\ SurvivorInv /\ [Next]_vars
    => SurvivorInv'
<1> SUFFICES ASSUME TypeOK, AccountInv, BlindInv, FitInv, UniqueInv, SurvivorInv, [Next]_vars
             PROVE  SurvivorInv'
  OBVIOUS
<1> USE DEF Reasons
<1>1. ASSUME UNCHANGED request
      PROVE  /\ \A i : Allowed(i)' = Allowed(i) /\ Embedded(i)' = Embedded(i)
             /\ Keyed(request)' = Keyed(request)
  BY <1>1 DEF Allowed, Embedded, Candidate, Keyed
<1>2. ASSUME NEW i \in todo, Enforce(i) PROVE SurvivorInv'
  <2>1. CASE Barred(i)
    BY <1>1, <1>2, <2>1, SameOmissions DEF Enforce, Barred, SurvivorInv
  <2>2. CASE ~ Barred(i) /\ Allowed(i)
    BY <1>1, <1>2, <2>2, SameOmissions DEF Enforce, Barred, Allowed, Keep, SurvivorInv
  <2>3. CASE ~ Barred(i) /\ ~ Allowed(i)
    <3>1. /\ OmittedFor("policy")' = OmittedFor("policy") \cup {i}
          /\ \A why \in {"key", "content"} : OmittedFor(why)' = OmittedFor(why)
      BY <1>2, <2>3, OmitSplits DEF Enforce, Barred, Allowed
    <3> QED BY <1>1, <1>2, <2>3, <3>1 DEF Enforce, SurvivorInv
  <2> QED BY <2>1, <2>2, <2>3
<1>3. ASSUME NEW i \in todo, Dedupe(i) PROVE SurvivorInv'
  <2>1. phase = "dedupe" /\ phase' = "dedupe" /\ UNCHANGED request
    BY <1>3 DEF Dedupe
  <2>2. CASE Candidate(i).key \in SeenKeys
    <3>1. PICK j \in kept \cup OmittedFor("content") : Candidate(j).key = Candidate(i).key
      BY <2>2 DEF SeenKeys
    <3>2. i # j /\ i \in DOMAIN request.candidates /\ j \in DOMAIN request.candidates
      BY <2>1, <3>1 DEF TypeOK, AccountInv, Accounted, OmittedFor, OmittedItems
    <3>3. ~ Keyed(request)
      BY <3>1, <3>2 DEF Keyed, Candidate
    <3>4. \A why \in {"policy", "content"} : OmittedFor(why)' = OmittedFor(why)
      BY <1>3, <2>2, OmitSplits DEF Dedupe
    <3> QED BY <1>1, <2>1, <3>3, <3>4 DEF SurvivorInv
  <2>3. CASE Candidate(i).key \notin SeenKeys /\ Embedded(i) /\ Candidate(i).content \in SeenContents
    <3>1. /\ OmittedFor("content")' = OmittedFor("content") \cup {i}
          /\ \A why \in {"policy", "key"} : OmittedFor(why)' = OmittedFor(why)
      BY <1>3, <2>3, OmitSplits DEF Dedupe
    <3> QED BY <1>1, <2>1, <2>3, <3>1 DEF SurvivorInv
  <2>4. CASE Candidate(i).key \notin SeenKeys /\ ~ (Embedded(i) /\ Candidate(i).content \in SeenContents)
    <3>1. \A why : OmittedFor(why)' = OmittedFor(why)
      BY <1>3, <2>4, SameOmissions DEF Dedupe, Keep
    <3> QED BY <1>1, <2>1, <3>1 DEF SurvivorInv
  <2> QED BY <2>2, <2>3, <2>4
<1>4. ASSUME NEW i \in todo, Select(i) PROVE SurvivorInv'
  <2>1. \A why \in {"policy", "key", "content"} : OmittedFor(why)' = OmittedFor(why)
    BY <1>4, SameOmissions, OmitSplits DEF Select, Keep
  <2>2. Survivors' = Survivors
    <3>1. CASE Fits(i)
      BY <1>4, <3>1, SameOmissions DEF Select, Keep, Survivors
    <3>2. CASE ~ Fits(i)
      <4>1. OmittedFor("budget")' = OmittedFor("budget") \cup {i} /\ kept' = kept
        BY <1>4, <3>2, OmitSplits DEF Select, Omit
      <4> QED BY <1>4, <4>1 DEF Select, Survivors
    <3> QED BY <3>1, <3>2
  <2> QED BY <1>4, <2>1, <2>2, SurvivorsStay DEF Select
<1>5. ASSUME NEW i \in todo, Render(i) PROVE SurvivorInv'
  <2>1. \A why : OmittedFor(why)' = OmittedFor(why)
    BY <1>5, SameOmissions DEF Render
  <2>2. Survivors' = Survivors
    BY <1>5, <2>1 DEF Render, Survivors
  <2> QED BY <1>5, <2>1, <2>2, SurvivorsStay DEF Render
<1>6. CASE NextLoop
  <2>1. UNCHANGED request /\ \A why : OmittedFor(why)' = OmittedFor(why)
    BY <1>6, SameOmissions DEF NextLoop
  <2>2. CASE phase = "enforce"
    BY <1>1, <1>6, <2>1, <2>2 DEF NextLoop, After, SurvivorInv
  <2>3. CASE phase = "dedupe"
    <3>1. phase' = "select" /\ OmittedFor("budget")' = {} /\ Survivors' = kept /\ todo = {}
      BY <1>6, <2>1, <2>3 DEF NextLoop, After, FitInv, Survivors
    <3>2. /\ Distinct(kept) /\ \A i \in kept : Allowed(i)
          /\ \A i \in OmittedFor("content") : \E j \in kept : SameText(i, j)
      BY <2>3 DEF UniqueInv, BlindInv
    <3> QED BY <1>1, <2>1, <3>1, <3>2, SameRequest DEF SurvivorInv, Distinct
  <2>4. CASE phase \in {"select", "render"}
    <3>1. phase' \in {"render", "done"} /\ Survivors' = Survivors
      BY <1>6, <2>1, <2>4 DEF NextLoop, After, Survivors
    <3> QED BY <2>1, <2>4, <3>1, SurvivorsStay
  <2> QED BY <1>6, <2>2, <2>3, <2>4 DEF NextLoop, After
<1>7. ASSUME NEW r \in Requests, LaterTurn(r) PROVE SurvivorInv'
  BY <1>7 DEF LaterTurn, Start, SurvivorInv, OmittedFor
<1>8. CASE UNCHANGED vars
  <2>1. UNCHANGED request /\ \A why : OmittedFor(why)' = OmittedFor(why)
    BY <1>8, SameOmissions DEF vars
  <2>2. Survivors' = Survivors
    BY <1>8, <2>1 DEF vars, Survivors
  <2> QED BY <1>1, <1>8, <2>1, <2>2, SameRequest DEF vars, SurvivorInv, Distinct
<1> QED BY <1>2, <1>3, <1>4, <1>5, <1>6, <1>7, <1>8 DEF Next

\* The order of the prompt, of items.
ShownBefore(a, b) ==
  \/ a.content # Nothing /\ b.content = Nothing
  \/ (a.content # Nothing <=> b.content # Nothing) /\ Steadier(a, b)

\* The prompt is in the order, and what it has still to take comes after it.
RenderInv ==
  /\ \A k, l \in DOMAIN prompt : k < l => ShownBefore(prompt[k], prompt[l])
  /\ phase = "render" => \A k \in DOMAIN prompt, j \in todo : ShownBefore(prompt[k], Candidate(j))
  /\ phase = "done" => todo = {}

\* Rendering appends what comes after all that is in the prompt.
LEMMA RenderStep == TypeOK /\ AccountInv /\ RenderInv /\ [Next]_vars => RenderInv'
<1> SUFFICES ASSUME TypeOK, AccountInv, RenderInv, [Next]_vars PROVE RenderInv'
  OBVIOUS
<1>1. ASSUME UNCHANGED <<request, phase, prompt>>, todo' \subseteq todo PROVE RenderInv'
  BY <1>1 DEF RenderInv, Candidate
<1>2. ASSUME NEW i \in todo, Enforce(i) PROVE RenderInv'
  BY <1>2 DEF Enforce, RenderInv
<1>3. ASSUME NEW i \in todo, Dedupe(i) PROVE RenderInv'
  BY <1>1, <1>3 DEF Dedupe
<1>4. ASSUME NEW i \in todo, Select(i) PROVE RenderInv'
  BY <1>1, <1>4 DEF Select
<1>5. ASSUME NEW i \in todo, Render(i) PROVE RenderInv'
  <2>1. /\ DOMAIN prompt' = DOMAIN prompt \cup {Len(prompt) + 1}
        /\ prompt'[Len(prompt) + 1] = Candidate(i)
        /\ \A k \in DOMAIN prompt : prompt'[k] = prompt[k] /\ k < Len(prompt) + 1 /\ k \in Nat
        /\ Len(prompt) + 1 \in Nat
    BY <1>5, RequestFacts DEF Render, TypeOK
  <2>2. /\ phase = "render" /\ phase' = "render" /\ todo' = todo \ {i}
        /\ \A j : Candidate(j)' = Candidate(j)
    BY <1>5 DEF Render, Candidate
  <2>3. \A j \in todo' : ShownBefore(Candidate(i), Candidate(j))
    BY <1>5, <2>2 DEF Render, RendersBefore, ShownBefore, Embedded
  <2>4. \A k \in DOMAIN prompt, j \in todo : ShownBefore(prompt[k], Candidate(j))
    BY <2>2 DEF RenderInv
  <2>5. ASSUME NEW k \in DOMAIN prompt', NEW l \in DOMAIN prompt', k < l
        PROVE  ShownBefore(prompt'[k], prompt'[l])
    <3>1. CASE l \in DOMAIN prompt
      <4>1. k \in DOMAIN prompt
        BY <2>1, <2>5, <3>1
      <4> QED BY <2>1, <2>5, <3>1, <4>1 DEF RenderInv
    <3>2. CASE l = Len(prompt) + 1
      <4>1. k \in DOMAIN prompt
        BY <2>1, <2>5, <3>2
      <4> QED BY <2>1, <2>4, <3>2, <4>1
    <3> QED BY <2>1, <3>1, <3>2
  <2>6. ASSUME NEW k \in DOMAIN prompt', NEW j \in todo' PROVE ShownBefore(prompt'[k], Candidate(j)')
    BY <2>1, <2>2, <2>3, <2>4
  <2> QED BY <2>2, <2>5, <2>6 DEF RenderInv
<1>6. CASE NextLoop
  <2>1. UNCHANGED prompt
    BY <1>6 DEF NextLoop
  <2>2. CASE phase = "render"
    BY <1>6, <2>1, <2>2 DEF NextLoop, After, RenderInv
  <2>3. CASE phase \in {"enforce", "dedupe", "select"}
    <3>1. prompt = <<>>
      BY <2>3 DEF AccountInv
    <3> QED BY <1>6, <2>1, <2>3, <3>1 DEF NextLoop, After, RenderInv
  <2> QED BY <1>6, <2>2, <2>3 DEF NextLoop, After
<1>7. ASSUME NEW r \in Requests, LaterTurn(r) PROVE RenderInv'
  BY <1>7 DEF LaterTurn, Start, RenderInv
<1>8. CASE UNCHANGED vars
  BY <1>1, <1>8 DEF vars
<1> QED BY <1>2, <1>3, <1>4, <1>5, <1>6, <1>7, <1>8 DEF Next

-----------------------------------------------------------------------------
(* What a request makes of its prompt, said of items instead of places *)

\* A sum over places is the sum over what is in them.
LEMMA SumImage ==
  ASSUME NEW S, IsFiniteSet(S), NEW c, NEW w, NEW v,
         \A x \in S : w[x] \in Nat /\ v[c[x]] = w[x],
         \A x, y \in S : c[x] = c[y] => x = y
  PROVE  Total(w, S) = Total(v, {c[x] : x \in S})
<1> DEFINE Image(t) == {c[x] : x \in t}
           Same == {n \in Nat : \A t \in SUBSET S :
                      IsFiniteSet(t) /\ Cardinality(t) = n
                        => IsFiniteSet(Image(t)) /\ Total(w, t) = Total(v, Image(t))}
<1>1. 0 \in Same
  <2>1. Image({}) = {}
    OBVIOUS
  <2> HIDE DEF Image
  <2> QED BY <2>1, FS_EmptySet, SumEmpty
<1>2. ASSUME NEW n \in Same PROVE n + 1 \in Same
  <2>1. ASSUME NEW t \in SUBSET S, IsFiniteSet(t), Cardinality(t) = n + 1
        PROVE  IsFiniteSet(Image(t)) /\ Total(w, t) = Total(v, Image(t))
    <3> DEFINE p == Picked(t)
               rest == t \ {p}
    <3>1. t # {} /\ p \in t /\ IsFiniteSet(rest) /\ Cardinality(rest) = n
      BY <2>1, OneSmaller
    <3>2. IsFiniteSet(Image(rest)) /\ Total(w, rest) = Total(v, Image(rest))
      <4>1. rest \in SUBSET S
        OBVIOUS
      <4> HIDE DEF rest, Image
      <4> QED BY <3>1, <4>1
    <3>3. Total(w, t) = w[p] + Total(w, rest)
      BY <2>1, <3>1, SumUnfolds
    <3>4. Image(t) = Image(rest) \cup {c[p]} /\ c[p] \notin Image(rest)
      BY <3>1
    <3>5. \A y \in Image(rest) \cup {c[p]} : v[y] \in Nat
      BY <3>1
    <3>6. w[p] \in Nat /\ v[c[p]] = w[p]
      BY <3>1
    <3> HIDE DEF Image, p, rest
    <3>7. Total(v, Image(t)) = Total(v, Image(rest)) + v[c[p]]
      BY <3>2, <3>4, <3>5, SumAdds
    <3>8. IsFiniteSet(Image(t))
      BY <3>2, <3>4, FS_AddElement
    <3>9. Total(v, Image(rest)) \in Nat
      BY <3>2, <3>5, SumType
    <3> QED BY <3>2, <3>3, <3>6, <3>7, <3>8, <3>9
  <2> QED BY <2>1
<1>3. Same = Nat
  <2> HIDE DEF Same
  <2>1. Same \in SUBSET Nat
    BY DEF Same
  <2> QED BY <1>1, <1>2, <2>1, NatSetInduction
<1>4. Cardinality(S) \in Same
  BY <1>3, FS_CardinalityType
<1> QED BY <1>4

Weights == [x \in Item |-> IF x.content # Nothing THEN Cost[x.content] ELSE PathCost[x.key]]

ItemBefore(a, b) ==
  \/ a.priority < b.priority
  \/ a.priority = b.priority /\ Rank[a.key] < Rank[b.key]

EarlierIn(S, x) == {y \in S : ItemBefore(y, x)}

\* What enforcing and dedupe leave of a request whose keys are distinct.
Deduped(r, D) ==
  /\ D \subseteq Items(r)
  /\ \A x \in Items(r) :
       x \in D <=> /\ Permitted(r.policy, x.key)
                   /\ x.content # Nothing => \A y \in EarlierIn(D, x) : y.content # x.content

\* What the budget leaves of that.
Selected(r, D, E) ==
  /\ E \subseteq D
  /\ \A x \in D : x \in E <=> Total(Weights, EarlierIn(E, x)) + Weights[x] <= r.limit

\* The prompt: all of it, each once, in the order for rendering.
Laid(E, P) ==
  /\ {P[k] : k \in DOMAIN P} = E
  /\ \A k, l \in DOMAIN P : k < l => ShownBefore(P[k], P[l])

Built(r, P) == \E D, E : Deduped(r, D) /\ Selected(r, D, E) /\ Laid(E, P)

\* Where keys are distinct the order of places is the order of the items.
LEMMA PlacesAsItems ==
  ASSUME request \in Requests, Keyed(request),
         NEW i \in DOMAIN request.candidates, NEW j \in DOMAIN request.candidates
  PROVE  /\ Before(i, j) <=> ItemBefore(Candidate(i), Candidate(j))
         /\ Candidate(i) = Candidate(j) => i = j
         /\ Tokens(i) = Weights[Candidate(i)]
<1>1. Candidate(i) \in Item /\ Candidate(j) \in Item /\ i \in Nat /\ j \in Nat
  BY RequestFacts
<1>2. Candidate(i).key = Candidate(j).key => i = j
  BY DEF Keyed, Candidate
<1>3. Candidate(i).key \in Key /\ Candidate(j).key \in Key
  BY <1>1 DEF Item
<1>4. Rank[Candidate(i).key] \in Nat /\ Rank[Candidate(j).key] \in Nat
  BY <1>3, BuilderAssumption
<1>5. Before(i, j) <=> ItemBefore(Candidate(i), Candidate(j))
  BY <1>1, <1>2, <1>4 DEF Before, ItemBefore
<1>6. Tokens(i) = Weights[Candidate(i)]
  BY <1>1 DEF Tokens, Weights, Embedded
<1> QED BY <1>2, <1>5, <1>6

\* A finished build of a request whose keys are distinct is what it must be.
LEMMA DoneIsBuilt ==
  ASSUME TypeOK, AccountInv, GreedyInv, SurvivorInv, RenderInv, phase = "done", Keyed(request)
  PROVE  Built(request, prompt)
<1> DEFINE ItemsAt(S) == {Candidate(i) : i \in S}
           D == ItemsAt(Survivors)
           E == ItemsAt(kept)
<1>1. /\ request \in Requests /\ todo = {} /\ Chosen = kept
      /\ Survivors = kept \cup OmittedFor("budget")
      /\ Survivors \subseteq DOMAIN request.candidates
      /\ kept \subseteq DOMAIN request.candidates
      /\ kept \cap OmittedFor("budget") = {}
      /\ Items(request) = ItemsAt(DOMAIN request.candidates)
  BY DEF TypeOK, RenderInv, Chosen, Survivors, OmittedFor, AccountInv, Accounted, OmittedItems,
         Items, Candidate
<1>2. \A i \in DOMAIN request.candidates :
        i \in Survivors \/ i \in OmittedFor("policy") \/ i \in OmittedFor("content")
  <2>1. OmittedFor("key") = {}
    BY DEF SurvivorInv
  <2>2. OmittedItems = UNION {OmittedFor(why) : why \in Reasons}
    BY DEF OmittedItems, OmittedFor, TypeOK, Reasons
  <2>3. DOMAIN request.candidates = kept \cup OmittedItems
    BY <1>1 DEF AccountInv, Accounted
  <2> QED BY <1>1, <2>1, <2>2, <2>3 DEF Reasons
<1>3. ASSUME NEW S \in SUBSET DOMAIN request.candidates, NEW i \in DOMAIN request.candidates
      PROVE  /\ Candidate(i) \in ItemsAt(S) <=> i \in S
             /\ EarlierIn(ItemsAt(S), Candidate(i)) = ItemsAt({j \in S : Before(j, i)})
  BY <1>1, PlacesAsItems DEF EarlierIn
<1>4. Deduped(request, D)
  <2>1. ASSUME NEW i \in DOMAIN request.candidates
        PROVE  i \in Survivors <=>
                 /\ Permitted(request.policy, Candidate(i).key)
                 /\ Candidate(i).content # Nothing =>
                      \A j \in Survivors : Before(j, i) => Candidate(j).content # Candidate(i).content
    <3>1. CASE i \in Survivors
      <4>1. Distinct(Survivors) /\ Allowed(i)
        BY <3>1 DEF SurvivorInv
      <4>2. \A j \in Survivors : Before(j, i) => j # i
        BY <1>1, BeforeOrders
      <4> QED BY <3>1, <4>1, <4>2 DEF Distinct, Apart, Allowed, Embedded
    <3>2. CASE i \in OmittedFor("policy")
      BY <3>2 DEF SurvivorInv, Allowed, AccountInv, Accounted, Survivors, OmittedFor, OmittedItems
    <3>3. CASE i \in OmittedFor("content") /\ i \notin Survivors
      <4>1. Embedded(i) /\ \E j \in Survivors : SameText(i, j)
        BY <3>3 DEF SurvivorInv
      <4> QED BY <3>3, <4>1 DEF SameText, Embedded
    <3> QED BY <1>2, <3>1, <3>2, <3>3
  <2>2. ASSUME NEW x \in Items(request)
        PROVE  x \in D <=> /\ Permitted(request.policy, x.key)
                           /\ x.content # Nothing =>
                                \A y \in EarlierIn(D, x) : y.content # x.content
    <3>1. PICK i \in DOMAIN request.candidates : x = Candidate(i)
      BY <1>1
    <3>2. /\ x \in D <=> i \in Survivors
          /\ EarlierIn(D, x) = ItemsAt({j \in Survivors : Before(j, i)})
      <4>1. Survivors \in SUBSET DOMAIN request.candidates
        BY <1>1
      <4> HIDE DEF ItemsAt
      <4> QED BY <1>3, <3>1, <4>1
    <3> HIDE DEF D
    <3> QED BY <2>1, <3>1, <3>2
  <2>3. D \subseteq Items(request)
    BY <1>1
  <2> HIDE DEF D
  <2> QED BY <2>2, <2>3 DEF Deduped
<1>5. Selected(request, D, E)
  <2>1. ASSUME NEW i \in Survivors
        PROVE  Candidate(i) \in E <=>
                 Total(Weights, EarlierIn(E, Candidate(i))) + Weights[Candidate(i)] <= request.limit
    <3> DEFINE S == {j \in kept : Before(j, i)}
    <3>1. S \in SUBSET DOMAIN request.candidates /\ i \in DOMAIN request.candidates
      BY <1>1
    <3>2. Ahead(i) = Total(TokensOf, S)
      BY <1>1 DEF Ahead, ChosenBefore
    <3>3. EarlierIn(E, Candidate(i)) = ItemsAt(S)
      BY <1>1, <1>3, <3>1
    <3>4. /\ \A x \in S : TokensOf[x] \in Nat /\ Weights[request.candidates[x]] = TokensOf[x]
          /\ \A x, y \in S : request.candidates[x] = request.candidates[y] => x = y
      BY <1>1, <3>1, PlacesAsItems, RequestFacts DEF TokensOf, Candidate
    <3>5. IsFiniteSet(S) /\ Total(TokensOf, S) \in Nat
      BY <1>1, <3>1, TokenSums
    <3>6. Total(TokensOf, S) = Total(Weights, ItemsAt(S))
      <4> HIDE DEF S
      <4> QED BY <3>4, <3>5, SumImage DEF Candidate
    <3>7. Tokens(i) = Weights[Candidate(i)] /\ Tokens(i) \in Nat /\ request.limit \in Nat
      BY <1>1, <3>1, PlacesAsItems, RequestFacts
    <3>8. Candidate(i) \in E <=> i \in kept
      BY <1>1, <1>3, <3>1
    <3>9. i \in kept <=> Ahead(i) + Tokens(i) <= request.limit
      <4> HIDE DEF S
      <4> QED BY <1>1, <3>2, <3>5, <3>7 DEF GreedyInv
    <3> HIDE DEF S, E, ItemsAt
    <3> QED BY <3>2, <3>3, <3>6, <3>7, <3>8, <3>9
  <2> QED BY <1>1, <2>1 DEF Selected
<1>6. Laid(E, prompt)
  BY DEF Laid, RenderInv, AccountInv, Accounted
<1> HIDE DEF D, E
<1> QED BY <1>4, <1>5, <1>6 DEF Built

-----------------------------------------------------------------------------
(* What the providers propose for a turn *)

Roles == {"auditor", "planner", "builder", "reviewer", "qa"}

\* The configured roles, looked up once.
LEMMA RoleFacts ==
  /\ DOMAIN RoleConfig = Roles
  /\ \A role \in {"auditor", "planner", "builder"} : RoleConfig[role].deny = {}
  /\ \A role \in {"builder", "reviewer", "qa"} : RoleConfig[role].artifact = Nothing
  /\ RoleConfig["auditor"].artifact = "onboarding-report.md"
  /\ RoleConfig["planner"].artifact = "prd.md"
  /\ RoleConfig["reviewer"].state = "review" /\ RoleConfig["qa"].state = "qa"
  /\ RoleConfig["reviewer"].deny = {Directory(<<"conversations", "implementation">>)}
  /\ RoleConfig["qa"].deny = {Path(<<"artifacts">>, "tech-plan.md"),
                              Path(<<"artifacts">>, "architecture.md"),
                              Path(<<>>, "task-log.md"),
                              Directory(<<"conversations", "implementation">>)}
BY DEF RoleConfig, Roles

\* The denylists of the shipped roles cover two artifacts, the task log and
\* the conversations of the implementation.
LEMMA Undenied ==
  ASSUME NEW role \in Roles, NEW key, NEW S, key.dir \in Seq(S),
         role \in {"reviewer", "qa"} =>
           /\ key.dir # <<"artifacts">>
           /\ ~ (key.dir = <<>> /\ key.file = "task-log.md")
           /\ Len(key.dir) >= 2 => key.dir[2] # "implementation"
  PROVE  ~ Denied(Policy(role), key)
<1>1. CASE role \in {"auditor", "planner", "builder"}
  BY <1>1, RoleFacts DEF Denied, Policy
<1>2. CASE role \in {"reviewer", "qa"}
  <2>1. ~ Matches(key, Directory(<<"conversations", "implementation">>))
    <3>1. CASE Len(key.dir) >= 2
      <4> DEFINE head == SubSeq(key.dir, 1, 2)
      <4>1. head[2] = key.dir[2]
        BY <3>1
      <4>2. head[2] # "implementation"
        BY <1>2, <3>1, <4>1
      <4> HIDE DEF head
      <4>3. head # <<"conversations", "implementation">>
        BY <4>2
      <4>4. SubSeq(key.dir, 1, Len(<<"conversations", "implementation">>)) # <<"conversations", "implementation">>
        BY <4>3 DEF head
      <4> QED BY <4>4 DEF Matches, Directory, Path
    <3>2. CASE ~ (Len(key.dir) >= 2)
      BY <3>2 DEF Matches, Directory, Path
    <3> QED BY <3>1, <3>2
  <2>2. /\ ~ Matches(key, Path(<<"artifacts">>, "tech-plan.md"))
        /\ ~ Matches(key, Path(<<"artifacts">>, "architecture.md"))
        /\ ~ Matches(key, Path(<<>>, "task-log.md"))
    <3>1. \A dir, file : Path(dir, file).dir = dir /\ Path(dir, file).file = file
      BY DEF Path
    <3>2. "tech-plan.md" # Nothing /\ "architecture.md" # Nothing /\ "task-log.md" # Nothing
      BY WorldsAssumption
    <3>3. key.dir # <<"artifacts">> /\ ~ (key.dir = <<>> /\ key.file = "task-log.md")
      BY <1>2
    <3> QED BY <3>1, <3>2, <3>3 DEF Matches
  <2>3. \A p \in Policy(role).deny : ~ Matches(key, p)
    BY <1>2, <2>1, <2>2, RoleFacts DEF Policy
  <2> QED BY <2>3 DEF Denied
<1> QED BY <1>1, <1>2 DEF Roles

\* Where a key is filed: by its file at the top, else by its directory.
Drawer(key) ==
  IF key.dir \in {<<>>, <<"artifacts">>, <<"decisions">>} THEN key.file ELSE key.dir[1]

\* The priorities and volatilities that providers give to a role's items.
Standing(role, x) ==
  \/ <<x.priority, x.volatility>> \in {<<1, 0>>, <<2, 1>>, <<3, 2>>, <<6, 5>>, <<7, 6>>}
  \/ x.priority = 4 /\ x.volatility = 3 /\ role \in {"auditor", "planner"}
  \/ x.priority = 4 /\ x.volatility = 4 /\ role \in {"reviewer", "qa"}
  \/ x.priority \in 7..9 /\ x.volatility = 4 /\ x.content = Nothing

Proper(role, drawers, x) ==
  /\ Drawer(x.key) \in drawers
  /\ Standing(role, x)
  /\ ~ Denied(Policy(role), x.key)

\* Part of what is proposed to a role: items of some drawers, each key once.
Part(role, drawers, s) ==
  /\ \E S : s \in Seq(S)
  /\ \A i \in DOMAIN s : Proper(role, drawers, s[i])
  /\ \A i, j \in DOMAIN s : s[i].key = s[j].key => i = j

\* An empty list of items is a part of any request.
LEMMA NoPart == \A role, drawers : Part(role, drawers, <<>>)
<1>1. <<>> \in Seq({}) /\ DOMAIN <<>> = {}
  OBVIOUS
<1> QED BY <1>1 DEF Part

\* So is a single item that stands as the role wants it and is not denied.
LEMMA OnePart ==
  ASSUME NEW role, NEW drawers, NEW x, Proper(role, drawers, x)
  PROVE  Part(role, drawers, <<x>>)
<1>1. <<x>> \in Seq({x}) /\ DOMAIN <<x>> = {1} /\ <<x>>[1] = x
  OBVIOUS
<1> QED BY <1>1 DEF Part

\* Parts of different drawers are parts of both together.
LEMMA JoinedParts ==
  ASSUME NEW role, NEW A, NEW B, A \cap B = {}, NEW s, NEW t, Part(role, A, s), Part(role, B, t)
  PROVE  Part(role, A \cup B, s \o t)
<1>1. PICK S : s \in Seq(S)
  BY DEF Part
<1>2. PICK T : t \in Seq(T)
  BY DEF Part
<1> DEFINE st == s \o t
<1>3. s \in Seq(S \cup T) /\ t \in Seq(S \cup T)
  BY <1>1, <1>2
<1>4. /\ st \in Seq(S \cup T)
      /\ DOMAIN s = 1..Len(s) /\ DOMAIN t = 1..Len(t) /\ DOMAIN st = 1..(Len(s) + Len(t))
      /\ Len(s) \in Nat /\ Len(t) \in Nat
      /\ \A i \in 1..(Len(s) + Len(t)) : st[i] = IF i <= Len(s) THEN s[i] ELSE t[i - Len(s)]
  BY <1>3
<1> HIDE DEF st
<1>5. ASSUME NEW i \in DOMAIN st
      PROVE  \/ i \in DOMAIN s /\ st[i] = s[i]
             \/ i - Len(s) \in DOMAIN t /\ st[i] = t[i - Len(s)] /\ i > Len(s)
  BY <1>4
<1>6. \A i \in DOMAIN st : Proper(role, A \cup B, st[i])
  BY <1>5 DEF Part, Proper
<1>7. \A i \in DOMAIN s, j \in DOMAIN t : s[i].key # t[j].key
  BY DEF Part, Proper
<1>8. ASSUME NEW i \in DOMAIN st, NEW j \in DOMAIN st, st[i].key = st[j].key
      PROVE  i = j
  <2>1. CASE i \in DOMAIN s /\ st[i] = s[i] /\ j \in DOMAIN s /\ st[j] = s[j]
    BY <1>8, <2>1 DEF Part
  <2>2. CASE /\ i - Len(s) \in DOMAIN t /\ st[i] = t[i - Len(s)]
             /\ j - Len(s) \in DOMAIN t /\ st[j] = t[j - Len(s)]
    <3>1. i - Len(s) = j - Len(s)
      BY <1>8, <2>2 DEF Part
    <3> QED BY <1>4, <3>1
  <2> QED BY <1>5, <1>7, <1>8, <2>1, <2>2
<1>9. \E U : st \in Seq(U)
  BY <1>4
<1> QED BY <1>6, <1>8, <1>9 DEF Part, st

\* One item, or none if there is no text.
LEMMA IfAnyPart ==
  ASSUME NEW role, NEW drawers, NEW key, NEW layer, NEW priority, NEW volatility, NEW content,
         Proper(role, drawers, Text(key, layer, priority, volatility, content))
  PROVE  Part(role, drawers, IfAny(key, layer, priority, volatility, content))
BY NoPart, OnePart DEF IfAny

\* The same of a key made of a directory and a file.
LEMMA UndeniedPath ==
  ASSUME NEW role \in Roles, NEW S, NEW dir \in Seq(S), NEW file,
         role \in {"reviewer", "qa"} =>
           /\ dir # <<"artifacts">>
           /\ ~ (dir = <<>> /\ file = "task-log.md")
           /\ Len(dir) >= 2 => dir[2] # "implementation"
  PROVE  ~ Denied(Policy(role), Path(dir, file))
<1> DEFINE key == Path(dir, file)
<1>1. key.dir = dir /\ key.file = file
  BY DEF Path
<1> HIDE DEF key
<1>2. ~ Denied(Policy(role), key)
  BY <1>1, Undenied
<1> QED BY <1>2 DEF key

\* Where the keys of the providers are filed; no denylist covers them.
LEMMA Filed ==
  ASSUME NEW role \in Roles, NEW file
  PROVE  /\ \A name \in {"souls", "summaries", "lib"} :
              /\ Drawer(Path(<<name>>, file)) = name
              /\ ~ Denied(Policy(role), Path(<<name>>, file))
         /\ Drawer(Path(<<"decisions">>, file)) = file
         /\ ~ Denied(Policy(role), Path(<<"decisions">>, file))
         /\ Drawer(Path(<<>>, file)) = file
         /\ file # "task-log.md" => ~ Denied(Policy(role), Path(<<>>, file))
         /\ Drawer(Path(<<"conversations", RoleConfig[role].state>>, file)) = "conversations"
         /\ ~ Denied(Policy(role), Path(<<"conversations", RoleConfig[role].state>>, file))
<1>1. \A dir : Path(dir, file).dir = dir /\ Path(dir, file).file = file
  BY DEF Path
<1>2. ASSUME NEW name \in {"souls", "summaries", "lib", "decisions"}
      PROVE  ~ Denied(Policy(role), Path(<<name>>, file))
  <2> DEFINE dir == <<name>>
  <2>1. dir \in Seq({name}) /\ Len(dir) = 1 /\ dir[1] # "artifacts"
    BY <1>2
  <2> HIDE DEF dir
  <2>2. dir # <<"artifacts">> /\ dir # <<>> /\ ~ (Len(dir) >= 2)
    BY <2>1
  <2>3. ~ Denied(Policy(role), Path(dir, file))
    BY <2>1, <2>2, UndeniedPath
  <2> QED BY <2>3 DEF dir
<1>3. ASSUME file # "task-log.md" PROVE ~ Denied(Policy(role), Path(<<>>, file))
  <2> DEFINE dir == <<>>
  <2>1. dir \in Seq({}) /\ Len(dir) = 0
    OBVIOUS
  <2> HIDE DEF dir
  <2>2. dir # <<"artifacts">> /\ ~ (Len(dir) >= 2)
    BY <2>1
  <2>3. ~ Denied(Policy(role), Path(dir, file))
    BY <1>3, <2>1, <2>2, UndeniedPath
  <2> QED BY <2>3 DEF dir
<1>4. ~ Denied(Policy(role), Path(<<"conversations", RoleConfig[role].state>>, file))
  <2> DEFINE state == RoleConfig[role].state
             dir == <<"conversations", state>>
  <2>1. role \in {"reviewer", "qa"} => state # "implementation"
    BY RoleFacts
  <2> HIDE DEF state
  <2>2. dir \in Seq({"conversations", state}) /\ Len(dir) = 2 /\ dir[2] = state
    OBVIOUS
  <2> HIDE DEF dir
  <2>3. dir # <<"artifacts">> /\ dir # <<>>
    BY <2>2
  <2>4. ~ Denied(Policy(role), Path(dir, file))
    BY <2>1, <2>2, <2>3, UndeniedPath
  <2> QED BY <2>4 DEF dir, state
<1>5. \A name \in {"souls", "summaries", "lib"} : Drawer(Path(<<name>>, file)) = name
  BY <1>1 DEF Drawer
<1>6. /\ Drawer(Path(<<"decisions">>, file)) = file /\ Drawer(Path(<<>>, file)) = file
      /\ Drawer(Path(<<"conversations", RoleConfig[role].state>>, file)) = "conversations"
  BY <1>1 DEF Drawer
<1> QED BY <1>2, <1>3, <1>4, <1>5, <1>6

\* An item is proper by its drawer, its numbers and its place outside the
\* denylist.
LEMMA ProperText ==
  ASSUME NEW role, NEW key, NEW layer, NEW priority, NEW volatility, NEW content,
         ~ Denied(Policy(role), key),
         \/ <<priority, volatility>> \in {<<1, 0>>, <<2, 1>>, <<3, 2>>, <<6, 5>>, <<7, 6>>}
         \/ priority = 4 /\ volatility = 3 /\ role \in {"auditor", "planner"}
         \/ priority = 4 /\ volatility = 4 /\ role \in {"reviewer", "qa"}
         \/ priority \in 7..9 /\ volatility = 4 /\ content = Nothing
  PROVE  Proper(role, {Drawer(key)}, Text(key, layer, priority, volatility, content))
BY DEF Proper, Standing, Text

\* Single items: the soul, the project, the decisions, the summary, the diff.
LEMMA SingleParts ==
  ASSUME NEW role \in Roles, NEW w
  PROVE  /\ Part(role, {"souls"}, RoleSoul(role, w))
         /\ Part(role, {"context.md"}, ProjectIdentity(w))
         /\ Part(role, {"D1", "D2"}, Decisions(w))
         /\ Part(role, {"summaries"}, Summary(role, w))
         /\ role \in {"reviewer", "qa"} => Part(role, {"git-diff"}, Diff(w))
<1>1. ASSUME NEW key, NEW drawer, drawer = Drawer(key), ~ Denied(Policy(role), key)
      PROVE  \A layer, content :
               /\ Proper(role, {drawer}, Text(key, layer, 1, 0, content))
               /\ Proper(role, {drawer}, Text(key, layer, 3, 2, content))
               /\ Proper(role, {drawer}, Text(key, layer, 6, 5, content))
               /\ role \in {"reviewer", "qa"} => Proper(role, {drawer}, Text(key, layer, 4, 4, content))
  BY <1>1, ProperText
<1>2. Part(role, {"souls"}, RoleSoul(role, w))
  <2> DEFINE key == Path(<<"souls">>, role)
  <2>1. "souls" = Drawer(key) /\ ~ Denied(Policy(role), key)
    BY Filed
  <2> HIDE DEF key
  <2>2. Proper(role, {"souls"}, Text(key, 1, 1, 0, OrSubstitute(w.soul, "no soul")))
    BY <1>1, <2>1
  <2> QED BY <2>2, OnePart DEF RoleSoul, key
<1>3. Part(role, {"context.md"}, ProjectIdentity(w))
  <2> DEFINE key == Path(<<>>, "context.md")
  <2>1. "context.md" = Drawer(key) /\ ~ Denied(Policy(role), key)
    BY Filed
  <2> HIDE DEF key
  <2>2. Proper(role, {"context.md"}, Text(key, 1, 1, 0, OrSubstitute(w.identity, "no context")))
    BY <1>1, <2>1
  <2> QED BY <2>2, OnePart DEF ProjectIdentity, key
<1>4. Part(role, {"summaries"}, Summary(role, w))
  <2> DEFINE key == Path(<<"summaries">>, RoleConfig[role].state)
  <2>1. "summaries" = Drawer(key) /\ ~ Denied(Policy(role), key)
    BY Filed
  <2> HIDE DEF key
  <2>2. Proper(role, {"summaries"}, Text(key, 4, 6, 5, w.summary))
    BY <1>1, <2>1
  <2> QED BY <2>2, IfAnyPart DEF Summary, key
<1>5. Part(role, {"D1", "D2"}, Decisions(w))
  <2>1. ASSUME NEW id \in {"D1", "D2"}
        PROVE  Part(role, {id}, IfAny(Path(<<"decisions">>, id), 2, 3, 2, w.decisions[id]))
    <3> DEFINE key == Path(<<"decisions">>, id)
    <3>1. id = Drawer(key) /\ ~ Denied(Policy(role), key)
      BY Filed
    <3> HIDE DEF key
    <3>2. Proper(role, {id}, Text(key, 2, 3, 2, w.decisions[id]))
      BY <1>1, <3>1
    <3> QED BY <3>2, IfAnyPart DEF key
  <2>2. {"D1"} \cap {"D2"} = {} /\ {"D1"} \cup {"D2"} = {"D1", "D2"}
    OBVIOUS
  <2>3. Part(role, {"D1"} \cup {"D2"}, Decisions(w))
    BY <2>1, <2>2, JoinedParts DEF Decisions
  <2> QED BY <2>2, <2>3
<1>6. ASSUME role \in {"reviewer", "qa"} PROVE Part(role, {"git-diff"}, Diff(w))
  <2> DEFINE key == Path(<<>>, "git-diff")
  <2>1. "git-diff" = Drawer(key) /\ ~ Denied(Policy(role), key)
    BY Filed
  <2> HIDE DEF key
  <2>2. Proper(role, {"git-diff"}, Text(key, 3, 4, 4, w.diff))
    BY <1>1, <1>6, <2>1
  <2> QED BY <2>2, IfAnyPart DEF Diff, key
<1> QED BY <1>2, <1>3, <1>4, <1>5, <1>6

\* The artifact that a role works on.
Own(role) ==
  IF role = "auditor" THEN {"onboarding-report.md"} ELSE IF role = "planner" THEN {"prd.md"} ELSE {}

\* What ArtifactSection proposes to a role is a part of its request.
LEMMA ArtifactPart ==
  ASSUME NEW role \in Roles, NEW w
  PROVE  Part(role, Own(role), ArtifactSection(role, w))
<1>1. CASE RoleConfig[role].artifact = Nothing
  BY <1>1, NoPart DEF ArtifactSection
<1>2. CASE RoleConfig[role].artifact # Nothing
  <2> DEFINE name == RoleConfig[role].artifact
  <2>1. role \in {"auditor", "planner"} /\ Own(role) = {name}
    BY <1>2, RoleFacts DEF Own, Roles
  <2> DEFINE key == Path(<<"artifacts">>, name)
  <2>2. Drawer(key) = name /\ ~ Denied(Policy(role), key)
    <3>1. Policy(role).deny = {}
      BY <2>1, RoleFacts DEF Policy
    <3> QED BY <3>1 DEF Denied, Drawer, Path
  <2> HIDE DEF key
  <2>3. Proper(role, {Drawer(key)}, Text(key, 2, 4, 3, w.artifact))
    BY <2>1, <2>2, ProperText
  <2>4. Proper(role, Own(role), Text(Path(<<"artifacts">>, name), 2, 4, 3, w.artifact))
    BY <2>1, <2>2, <2>3 DEF key
  <2> QED BY <1>2, <2>4, OnePart DEF ArtifactSection
<1> QED BY <1>1, <1>2

\* The foundational documents, without the artifact of the role's own.
LEMMA DocsPart ==
  ASSUME NEW role \in Roles, NEW w
  PROVE  Part(role, {"prd.md", "architecture.md", "onboarding-report.md"} \ Own(role),
              FoundationalDocs(role, w))
<1>1. ASSUME NEW name \in {"prd.md", "architecture.md", "onboarding-report.md"}, NEW content
      PROVE  Part(role, {name} \ Own(role), FoundationalDoc(role, name, content))
  <2> DEFINE key == Path(<<"artifacts">>, name)
             x == Text(key, 1, 2, 1, content)
  <2>1. CASE name = RoleConfig[role].artifact \/ Denied(Policy(role), key)
    BY <2>1, NoPart DEF FoundationalDoc
  <2>2. CASE ~ (name = RoleConfig[role].artifact \/ Denied(Policy(role), key))
    <3>1. name \notin Own(role)
      BY <2>2, RoleFacts DEF Own
    <3>2. Drawer(key) = name
      BY DEF Drawer, Path
    <3>3. Standing(role, x) /\ x.key = key
      BY DEF Standing, Text
    <3>4. Proper(role, {name} \ Own(role), x)
      BY <2>2, <3>1, <3>2, <3>3 DEF Proper
    <3> QED BY <2>2, <3>4, IfAnyPart DEF FoundationalDoc
  <2> QED BY <2>1, <2>2
<1> DEFINE D(name) == {name} \ Own(role)
           prd == FoundationalDoc(role, "prd.md", w.prd)
           architecture == FoundationalDoc(role, "architecture.md", w.architecture)
           report == FoundationalDoc(role, "onboarding-report.md", w.report)
<1>2. /\ Part(role, D("prd.md"), prd) /\ Part(role, D("architecture.md"), architecture)
      /\ Part(role, D("onboarding-report.md"), report)
  BY <1>1
<1>3. /\ D("prd.md") \cap D("architecture.md") = {}
      /\ (D("prd.md") \cup D("architecture.md")) \cap D("onboarding-report.md") = {}
      /\ (D("prd.md") \cup D("architecture.md")) \cup D("onboarding-report.md") =
           {"prd.md", "architecture.md", "onboarding-report.md"} \ Own(role)
  OBVIOUS
<1> HIDE DEF D, prd, architecture, report
<1>4. Part(role, D("prd.md") \cup D("architecture.md"), prd \o architecture)
  BY <1>2, <1>3, JoinedParts
<1>5. Part(role, (D("prd.md") \cup D("architecture.md")) \cup D("onboarding-report.md"),
           (prd \o architecture) \o report)
  BY <1>2, <1>3, <1>4, JoinedParts
<1> QED BY <1>3, <1>5 DEF FoundationalDocs, prd, architecture, report

\* The last turns, each under a name of its own.
LEMMA TurnsPart ==
  ASSUME NEW role \in Roles, NEW w \in Worlds
  PROVE  Part(role, {"conversations"}, RecentTurns(role, w))
<1> DEFINE n == Len(w.turns)
           shown == IF n < 3 THEN n ELSE 3
           dir == <<"conversations", RoleConfig[role].state>>
           Turn(k) == Text(Path(dir, TurnFile[n - shown + k]), 4, 7, 6, w.turns[n - shown + k])
           s == [k \in 1..shown |-> Turn(k)]
<1>1. n \in Nat /\ shown \in Nat /\ shown <= n /\ 1..n \subseteq DOMAIN TurnFile
  <2>1. w.turns \in Seq(Content) /\ DOMAIN w.turns \subseteq DOMAIN TurnFile
    BY WorldsAssumption DEF World
  <2> QED BY <2>1
<1>2. \E S : s \in Seq(S)
  <2> HIDE DEF Turn, shown
  <2>1. s \in [1..shown -> {Turn(k) : k \in 1..shown}]
    OBVIOUS
  <2>2. s \in Seq({Turn(k) : k \in 1..shown})
    BY <1>1, <2>1, SeqDef
  <2> QED BY <2>2
<1>3. DOMAIN s = 1..shown /\ \A k \in 1..shown : s[k] = Turn(k)
  OBVIOUS
<1>4. ASSUME NEW k \in 1..shown PROVE Proper(role, {"conversations"}, Turn(k))
  <2> DEFINE file == TurnFile[n - shown + k]
             content == w.turns[n - shown + k]
  <2> HIDE DEF file
  <2> DEFINE key == Path(dir, file)
  <2>1. Drawer(key) = "conversations" /\ ~ Denied(Policy(role), key)
    BY Filed
  <2> HIDE DEF key, content
  <2>2. Proper(role, {Drawer(key)}, Text(key, 4, 7, 6, content))
    BY <2>1, ProperText
  <2> QED BY <2>1, <2>2 DEF key, content, file
<1>5. ASSUME NEW j \in 1..shown, NEW k \in 1..shown, Turn(j).key = Turn(k).key
      PROVE  j = k
  <2>1. TurnFile[n - shown + j] = TurnFile[n - shown + k]
    BY <1>5 DEF Text, Path
  <2>2. n - shown + j \in 1..n /\ n - shown + k \in 1..n
    <3> HIDE DEF n, shown
    <3> QED BY <1>1, <1>5
  <2>3. n - shown + j = n - shown + k
    BY <1>1, <2>1, <2>2, WorldsAssumption
  <2> QED BY <1>1, <2>3
<1>6. Part(role, {"conversations"}, s)
  <2> HIDE DEF s, Turn
  <2> QED BY <1>2, <1>3, <1>4, <1>5 DEF Part
<1> QED BY <1>6 DEF RecentTurns

\* A finite set as a sequence has each member once.
LEMMA SetAsSeq ==
  ASSUME NEW S, IsFiniteSet(S)
  PROVE  /\ SetToSeq(S) \in Seq(S)
         /\ \A i, j \in DOMAIN SetToSeq(S) : SetToSeq(S)[i] = SetToSeq(S)[j] => i = j
<1> DEFINE n == Cardinality(S)
<1>1. n \in Nat /\ ExistsBijection(1..n, S)
  BY FS_CardinalityType
<1>2. \E f \in [1..n -> S] : IsInjective(f)
  BY <1>1 DEF ExistsBijection, Bijection, Injection, IsInjective
<1>3. SetToSeq(S) \in [1..n -> S] /\ IsInjective(SetToSeq(S))
  BY <1>2 DEF SetToSeq
<1> HIDE DEF n
<1> QED BY <1>1, <1>3 DEF IsInjective

\* The inventory of the index: references, each to a file of its own.
LEMMA IndexPart ==
  ASSUME NEW role \in Roles, NEW w \in Worlds
  PROVE  Part(role, {"lib"}, Index(w, {}))
<1> DEFINE imported == Imported(w, {})
           Tier(f) == IF f \in imported THEN 7 ELSE IF f \in w.named THEN 8 ELSE 9
           Ref(f) == Reference(Path(<<"lib">>, f), 3, Tier(f), 4)
           files == w.files \ {}
           refs == {Ref(f) : f \in files}
           s == SetToSeq(refs)
<1>1. IsFiniteSet(files)
  BY WorldsAssumption
<1>2. IsFiniteSet(refs)
  <2> DEFINE g == [f \in files |-> Ref(f)]
  <2> HIDE DEF Ref, files
  <2>1. g \in Surjection(files, refs)
    BY DEF Surjection
  <2> QED BY <1>1, <2>1, FS_Surjection
<1>3. \A f, g : Ref(f).key = Ref(g).key => f = g
  BY DEF Reference, Text, Path
<1>4. ASSUME NEW f PROVE Proper(role, {"lib"}, Ref(f))
  <2> DEFINE key == Path(<<"lib">>, f)
  <2>1. Drawer(key) = "lib" /\ ~ Denied(Policy(role), key)
    BY Filed
  <2>2. Tier(f) \in 7..9
    OBVIOUS
  <2> HIDE DEF key, Tier
  <2>3. Proper(role, {Drawer(key)}, Text(key, 3, Tier(f), 4, Nothing))
    BY <2>1, <2>2, ProperText
  <2> QED BY <2>1, <2>3 DEF Reference, key
<1> HIDE DEF Ref, files
<1>5. \A x \in refs : Proper(role, {"lib"}, x)
  BY <1>4
<1>6. \A x, y \in refs : x.key = y.key => x = y
  BY <1>3
<1>7. /\ s \in Seq(refs) /\ \A i \in DOMAIN s : s[i] \in refs
      /\ \A i, j \in DOMAIN s : s[i] = s[j] => i = j
  <2>1. s \in Seq(refs) /\ \A i, j \in DOMAIN s : s[i] = s[j] => i = j
    BY <1>2, SetAsSeq
  <2> HIDE DEF s
  <2> QED BY <2>1
<1>8. Part(role, {"lib"}, s)
  <2> HIDE DEF s, refs
  <2> QED BY <1>5, <1>6, <1>7 DEF Part
<1> QED BY <1>8 DEF Index, Ref, files

\* What a turn proposes to a role: each key once, nothing the role must never
\* see, and the numbers of its standing.
LEMMA TurnIsPart ==
  ASSUME NEW role \in Roles, NEW w \in Worlds
  PROVE  \E drawers : Part(role, drawers, TurnCandidates(role, w))
<1> DEFINE docs == {"prd.md", "architecture.md", "onboarding-report.md"} \ Own(role)
           guided == IF RoleConfig[role].guided
                     THEN Index(w, {}) \o FoundationalDocs(role, w) ELSE <<>>
           diff == IF role \in {"reviewer", "qa"} THEN Diff(w) ELSE <<>>
           first == RoleSoul(role, w) \o ProjectIdentity(w)
           second == first \o ArtifactSection(role, w)
           third == second \o Decisions(w)
           fourth == third \o Summary(role, w)
           fifth == fourth \o RecentTurns(role, w)
           sixth == fifth \o guided
<1>0. Own(role) \subseteq {"prd.md", "onboarding-report.md"}
  BY DEF Own
<1>1. Part(role, {"lib"} \cup docs, guided)
  <2>1. Part(role, {"lib"} \cup docs, Index(w, {}) \o FoundationalDocs(role, w))
    <3>1. {"lib"} \cap docs = {}
      OBVIOUS
    <3>2. Part(role, {"lib"}, Index(w, {})) /\ Part(role, docs, FoundationalDocs(role, w))
      BY IndexPart, DocsPart
    <3> HIDE DEF docs
    <3> QED BY <3>1, <3>2, JoinedParts
  <2> QED BY <2>1, NoPart
<1>2. Part(role, {"git-diff"}, diff)
  BY SingleParts, NoPart
<1> HIDE DEF guided, diff
<1> DEFINE A1 == {"souls"} \cup {"context.md"}
           A2 == A1 \cup Own(role)
           A3 == A2 \cup {"D1", "D2"}
           A4 == A3 \cup {"summaries"}
           A5 == A4 \cup {"conversations"}
           A6 == A5 \cup ({"lib"} \cup docs)
<1>3. /\ {"souls"} \cap {"context.md"} = {} /\ A1 \cap Own(role) = {} /\ A2 \cap {"D1", "D2"} = {}
      /\ A3 \cap {"summaries"} = {} /\ A4 \cap {"conversations"} = {}
      /\ A5 \cap ({"lib"} \cup docs) = {} /\ A6 \cap {"git-diff"} = {}
  BY <1>0
<1>4. Part(role, A1, first)
  BY <1>3, SingleParts, JoinedParts
<1> HIDE DEF A1, first
<1>5. Part(role, A2, second)
  BY <1>3, <1>4, ArtifactPart, JoinedParts
<1> HIDE DEF A2, second
<1>6. Part(role, A3, third)
  BY <1>3, <1>5, SingleParts, JoinedParts
<1> HIDE DEF A3, third
<1>7. Part(role, A4, fourth)
  BY <1>3, <1>6, SingleParts, JoinedParts
<1> HIDE DEF A4, fourth
<1>8. Part(role, A5, fifth)
  BY <1>3, <1>7, TurnsPart, JoinedParts
<1> HIDE DEF A5, fifth, docs
<1>9. Part(role, A6, sixth)
  BY <1>1, <1>3, <1>8, JoinedParts
<1> HIDE DEF A6, sixth
<1>10. Part(role, A6 \cup {"git-diff"}, sixth \o diff)
  BY <1>2, <1>3, <1>9, JoinedParts
<1>11. TurnCandidates(role, w) = sixth \o diff
  BY DEF TurnCandidates, first, second, third, fourth, fifth, sixth, guided, diff
<1> QED BY <1>10, <1>11

-----------------------------------------------------------------------------
(* No shipped role is barred by what its own providers propose *)

\* What TurnIsPart says of the request of a turn.
LEMMA TurnFacts ==
  ASSUME NEW role \in Roles, NEW r, IsTurnOf(role, r)
  PROVE  /\ Keyed(r)
         /\ \A x \in Items(r) : Standing(role, x) /\ ~ Denied(r.policy, x.key)
<1>1. PICK w \in Worlds : r.candidates = TurnCandidates(role, w)
  BY RoleFacts DEF IsTurnOf, TurnSequences
<1>2. PICK drawers : Part(role, drawers, r.candidates)
  BY <1>1, TurnIsPart
<1>3. r.policy = Policy(role)
  BY DEF IsTurnOf
<1> QED BY <1>2, <1>3 DEF Part, Proper, Keyed, Items

\* A build fails on a candidate that is forbidden.
ViolationInv ==
  phase = "violation" => \E i \in DOMAIN request.candidates : Barred(i)

\* Only a forbidden candidate fails a build.
LEMMA ViolationStep == TypeOK /\ ViolationInv /\ [Next]_vars => ViolationInv'
<1> SUFFICES ASSUME TypeOK, ViolationInv, [Next]_vars PROVE ViolationInv'
  OBVIOUS
<1>1. ASSUME UNCHANGED <<request, phase>> PROVE ViolationInv'
  BY <1>1 DEF ViolationInv, Barred, Candidate
<1>2. ASSUME NEW i \in todo, Enforce(i) PROVE ViolationInv'
  <2>1. CASE Barred(i)
    <3>1. i \in DOMAIN request.candidates
      BY DEF TypeOK
    <3>2. request' = request
      BY <1>2 DEF Enforce
    <3>3. Barred(i)'
      BY <2>1, <3>2 DEF Barred, Candidate
    <3>4. i \in DOMAIN request'.candidates
      BY <3>1, <3>2
    <3> QED BY <3>3, <3>4 DEF ViolationInv, Barred, Candidate
  <2>2. CASE ~ Barred(i)
    BY <1>1, <1>2, <2>2 DEF Enforce, Barred
  <2> QED BY <2>1, <2>2
<1>3. ASSUME NEW i \in todo, Dedupe(i) \/ Select(i) \/ Render(i) PROVE ViolationInv'
  BY <1>1, <1>3 DEF Dedupe, Select, Render
<1>4. CASE NextLoop
  <2>1. phase' \in {"dedupe", "select", "render", "done"}
    BY <1>4 DEF NextLoop, After
  <2> QED BY <2>1 DEF ViolationInv
<1>5. ASSUME NEW r \in Requests, LaterTurn(r) PROVE ViolationInv'
  BY <1>5 DEF LaterTurn, Start, ViolationInv
<1>6. CASE UNCHANGED vars
  BY <1>1, <1>6 DEF vars
<1> QED BY <1>2, <1>3, <1>4, <1>5, <1>6 DEF Next

\* Whatever a turn finds on disk, no build of a shipped role fails on the
\* denylist of that role (FoundationalDocsProvider and the roles' policies).
THEOREM NeverBarredHolds == Spec => []NeverBarred
<1>1. Init => ViolationInv
  BY DEF Init, ViolationInv
<1>2. Spec => []ViolationInv
  BY <1>1, ViolationStep, TypeCorrect, PTL DEF Spec
<1>3. ViolationInv => NeverBarred
  <2> SUFFICES ASSUME ViolationInv, phase = "violation",
                      NEW role \in DOMAIN RoleConfig, NEW w \in Worlds,
                      request = TurnRequest(role, w, request.kind, request.limit)
               PROVE  FALSE
    BY DEF NeverBarred
  <2>1. role \in Roles /\ IsTurnOf(role, request)
    BY RoleFacts DEF TurnRequest, IsTurnOf, TurnSequences
  <2>2. PICK i \in DOMAIN request.candidates : Denied(request.policy, Candidate(i).key)
    BY DEF ViolationInv, Barred
  <2>3. Candidate(i) \in Items(request)
    BY DEF Candidate, Items
  <2> QED BY <2>1, <2>2, <2>3, TurnFacts
<1> QED BY <1>2, <1>3, PTL

-----------------------------------------------------------------------------
(* The prefix cache can hit *)

\* Of two things proposed to a role, a steadier text has the higher priority.
LEMMA SteadierComesFirst ==
  ASSUME NEW role \in Roles, NEW a, NEW c, Standing(role, a), Standing(role, c),
         a.content # Nothing, a.volatility < c.volatility
  PROVE  a.priority < c.priority
BY DEF Standing, Roles

\* A set of items has one that no other comes before.
LEMMA LeastItem ==
  ASSUME NEW B \in SUBSET Item, B # {}
  PROVE  \E x \in B : \A y \in B : ~ ItemBefore(y, x)
<1> DEFINE priorities == {x.priority : x \in B}
<1>1. \A x \in B : x.priority \in Nat /\ Rank[x.key] \in Nat
  BY BuilderAssumption DEF Item
<1>2. PICK p \in priorities : \A q \in priorities : p <= q
  <2>1. priorities \in SUBSET Nat /\ priorities # {}
    BY <1>1
  <2> HIDE DEF priorities
  <2> QED BY <2>1, NatLeast
<1> DEFINE top == {x \in B : x.priority = p}
           ranks == {Rank[x.key] : x \in top}
<1>3. PICK n \in ranks : \A m \in ranks : n <= m
  <2>1. ranks \in SUBSET Nat /\ ranks # {}
    BY <1>1, <1>2
  <2> HIDE DEF ranks
  <2> QED BY <2>1, NatLeast
<1>4. PICK x \in top : Rank[x.key] = n
  BY <1>3
<1>5. ASSUME NEW y \in B PROVE ~ ItemBefore(y, x)
  <2>1. p <= y.priority /\ x.priority = p /\ x \in B
    BY <1>2, <1>4
  <2>2. y.priority = p => Rank[x.key] <= Rank[y.key]
    BY <1>3, <1>4
  <2> QED BY <1>1, <2>1, <2>2 DEF ItemBefore
<1> QED BY <1>4, <1>5

\* The order of the prompt shows of two items one first, a text or a steadier
\* one.
LEMMA ShownOrders ==
  ASSUME NEW a \in Item, NEW b \in Item, ShownBefore(a, b)
  PROVE  /\ ~ ShownBefore(b, a)
         /\ b.content # Nothing => a.content # Nothing /\ a.volatility <= b.volatility
<1>1. /\ a.volatility \in Nat /\ a.layer \in Nat /\ a.priority \in Nat /\ Rank[a.key] \in Nat
      /\ b.volatility \in Nat /\ b.layer \in Nat /\ b.priority \in Nat /\ Rank[b.key] \in Nat
  BY BuilderAssumption DEF Item
<1> QED BY <1>1 DEF ShownBefore, Steadier

LEMMA ShownTransitively ==
  ASSUME NEW a \in Item, NEW b \in Item, NEW c \in Item, ShownBefore(a, b), ShownBefore(b, c)
  PROVE  ShownBefore(a, c)
<1>1. /\ a.volatility \in Nat /\ a.layer \in Nat /\ a.priority \in Nat /\ Rank[a.key] \in Nat
      /\ b.volatility \in Nat /\ b.layer \in Nat /\ b.priority \in Nat /\ Rank[b.key] \in Nat
      /\ c.volatility \in Nat /\ c.layer \in Nat /\ c.priority \in Nat /\ Rank[c.key] \in Nat
  BY BuilderAssumption DEF Item
<1> QED BY <1>1 DEF ShownBefore, Steadier

\* Two prompts agree up to an item when all that is shown up to it is in both
\* or in neither.
LEMMA PromptsAgree ==
  ASSUME NEW P \in Seq(Item), NEW Q \in Seq(Item), NEW E, NEW G, Laid(E, P), Laid(G, Q),
         NEW k \in DOMAIN P,
         \A x \in E \cup G : x = P[k] \/ ShownBefore(x, P[k]) => (x \in E <=> x \in G)
  PROVE  k \in DOMAIN Q /\ Q[k] = P[k]
<1> DEFINE a == P[k]
           Alike(j) == j \in DOMAIN Q /\ Q[j] = P[j]
           apart == {j \in 1..k : ~ Alike(j)}
<1>1. /\ DOMAIN P = 1..Len(P) /\ Len(P) \in Nat /\ DOMAIN Q = 1..Len(Q) /\ Len(Q) \in Nat
      /\ \A j \in DOMAIN P : P[j] \in Item /\ P[j] \in E
      /\ \A j \in DOMAIN Q : Q[j] \in Item /\ Q[j] \in G
      /\ \A x \in E : \E j \in DOMAIN P : P[j] = x
      /\ \A x \in G : \E j \in DOMAIN Q : Q[j] = x
      /\ k \in Nat /\ 1..k \subseteq DOMAIN P
  BY DEF Laid
<1>2. /\ \A i, j \in DOMAIN P : i < j => ShownBefore(P[i], P[j])
      /\ \A i, j \in DOMAIN Q : i < j => ShownBefore(Q[i], Q[j])
  BY DEF Laid
<1>3. /\ \A i, j \in DOMAIN P : P[i] = P[j] => i = j
      /\ \A i, j \in DOMAIN Q : Q[i] = Q[j] => i = j
  <2>1. \A x \in Item : ~ ShownBefore(x, x)
    BY ShownOrders
  <2>2. ASSUME NEW i \in DOMAIN P, NEW j \in DOMAIN P, P[i] = P[j] PROVE i = j
    <3>1. ~ ShownBefore(P[i], P[j]) /\ ~ ShownBefore(P[j], P[i])
      BY <1>1, <2>1, <2>2
    <3>2. ~ (i < j) /\ ~ (j < i)
      BY <1>2, <3>1
    <3> QED BY <1>1, <3>2
  <2>3. ASSUME NEW i \in DOMAIN Q, NEW j \in DOMAIN Q, Q[i] = Q[j] PROVE i = j
    <3>1. ~ ShownBefore(Q[i], Q[j]) /\ ~ ShownBefore(Q[j], Q[i])
      BY <1>1, <2>1, <2>3
    <3>2. ~ (i < j) /\ ~ (j < i)
      BY <1>2, <3>1
    <3> QED BY <1>1, <3>2
  <2> QED BY <2>2, <2>3
<1>5. \A j \in 1..k : P[j] = a \/ ShownBefore(P[j], a)
  BY <1>1, <1>2
<1>6. SUFFICES ASSUME apart # {} PROVE FALSE
  <2>1. k \in 1..k
    BY <1>1
  <2> QED BY <1>6, <2>1
<1>7. PICK j \in apart : \A i \in apart : j <= i
  <2>1. apart \in SUBSET Nat
    BY <1>1
  <2> HIDE DEF apart
  <2> QED BY <1>6, <2>1, NatLeast
<1>8. j \in 1..k /\ ~ Alike(j) /\ \A i \in 1..k : i < j => Alike(i)
  BY <1>1, <1>7
<1>9. PICK m \in DOMAIN Q : Q[m] = P[j]
  <2>1. P[j] \in G
    BY <1>1, <1>5, <1>8
  <2> QED BY <1>1, <2>1
<1>10. ~ (m < j)
  <2>1. SUFFICES ASSUME m < j PROVE FALSE
    OBVIOUS
  <2>2. m \in 1..k /\ Q[m] = P[m]
    BY <1>1, <1>8, <2>1
  <2> QED BY <1>1, <1>3, <1>8, <1>9, <2>1, <2>2
<1>11. j \in DOMAIN Q /\ j < m
  BY <1>1, <1>8, <1>9, <1>10
<1>12. /\ ShownBefore(Q[j], P[j]) /\ Q[j] \in Item /\ P[j] \in Item
       /\ ShownBefore(Q[j], a)
  <2>1. ShownBefore(Q[j], P[j]) /\ Q[j] \in Item /\ P[j] \in Item /\ a \in Item
    BY <1>1, <1>2, <1>8, <1>9, <1>11
  <2>2. P[j] = a \/ ShownBefore(P[j], a)
    BY <1>5, <1>8
  <2> HIDE DEF a
  <2> QED BY <2>1, <2>2, ShownTransitively
<1>13. PICK n \in DOMAIN P : P[n] = Q[j]
  <2>1. Q[j] \in E
    BY <1>1, <1>11, <1>12
  <2> QED BY <1>1, <2>1
<1>14. CASE n < j
  <2>1. n \in 1..k /\ Q[n] = P[n] /\ n \in DOMAIN Q
    BY <1>1, <1>8, <1>14
  <2> QED BY <1>1, <1>3, <1>8, <1>11, <1>13, <1>14, <2>1
<1>15. CASE n = j
  BY <1>8, <1>11, <1>13, <1>15
<1>16. CASE n > j
  <2>1. ShownBefore(P[j], Q[j])
    BY <1>1, <1>2, <1>8, <1>13, <1>16
  <2> QED BY <1>12, <2>1, ShownOrders
<1> QED BY <1>1, <1>8, <1>14, <1>15, <1>16

\* The items that no change comes before are chosen from one request exactly
\* when they are chosen from the other.
LEMMA ChoicesAgree ==
  ASSUME NEW r, NEW s, Items(r) \subseteq Item, Items(s) \subseteq Item,
         r.policy = s.policy, r.limit = s.limit,
         NEW D, NEW E, Deduped(r, D), Selected(r, D, E),
         NEW F, NEW G, Deduped(s, F), Selected(s, F, G),
         NEW x \in Item, \A c \in Changed(r, s) : x.priority < c.priority
  PROVE  x \in E <=> x \in G
<1> DEFINE Same == {y \in Item : \A c \in Changed(r, s) : y.priority < c.priority}
<1>1. \A y \in Same : y \in Items(r) <=> y \in Items(s)
  BY DEF Changed, Item
<1>2. \A z \in Same, y \in Item : ItemBefore(y, z) => y \in Same
  <2>1. \A y \in Item : y.priority \in Nat
    BY DEF Item
  <2>2. \A c \in Changed(r, s) : c.priority \in Nat
    BY <2>1 DEF Changed
  <2> QED BY <2>1, <2>2 DEF ItemBefore
<1>3. D \subseteq Item /\ F \subseteq Item /\ E \subseteq D /\ G \subseteq F
  BY DEF Deduped, Selected
<1>4. Same \in SUBSET Item
  OBVIOUS
<1>a. x \in Same
  OBVIOUS
<1> HIDE DEF Same
<1>5. \A y \in Same : y \in D <=> y \in F
  <2> DEFINE differ == {y \in Same : ~ (y \in D <=> y \in F)}
  <2>1. SUFFICES ASSUME differ # {} PROVE FALSE
    OBVIOUS
  <2>2. PICK y \in differ : \A z \in differ : ~ ItemBefore(z, y)
    <3>1. differ \in SUBSET Item
      BY <1>4
    <3> HIDE DEF differ
    <3> QED BY <2>1, <3>1, LeastItem
  <2>3. EarlierIn(D, y) = EarlierIn(F, y)
    BY <1>2, <1>3, <2>2 DEF EarlierIn
  <2>4. CASE y \in Items(r)
    <3>1. y \in Items(s)
      BY <1>1, <2>2, <2>4
    <3>2. /\ y \in D <=> /\ Permitted(r.policy, y.key)
                         /\ y.content # Nothing => \A z \in EarlierIn(D, y) : z.content # y.content
          /\ y \in F <=> /\ Permitted(s.policy, y.key)
                         /\ y.content # Nothing => \A z \in EarlierIn(F, y) : z.content # y.content
      BY <2>4, <3>1 DEF Deduped
    <3> QED BY <2>2, <2>3, <3>2
  <2>5. CASE y \notin Items(r)
    BY <1>1, <2>2, <2>5 DEF Deduped
  <2> QED BY <2>4, <2>5
<1>6. \A y \in Same : y \in E <=> y \in G
  <2> DEFINE differ == {y \in Same : ~ (y \in E <=> y \in G)}
  <2>1. SUFFICES ASSUME differ # {} PROVE FALSE
    OBVIOUS
  <2>2. PICK y \in differ : \A z \in differ : ~ ItemBefore(z, y)
    <3>1. differ \in SUBSET Item
      BY <1>4
    <3> HIDE DEF differ
    <3> QED BY <2>1, <3>1, LeastItem
  <2>3. EarlierIn(E, y) = EarlierIn(G, y)
    BY <1>2, <1>3, <2>2 DEF EarlierIn
  <2>4. y \in D /\ y \in F
    BY <1>3, <1>5, <2>2
  <2> QED BY <2>2, <2>3, <2>4 DEF Selected
<1> QED BY <1>6, <1>a

\* Of two turns of a role, one after the other.
LEMMA PrefixStays ==
  ASSUME NEW r \in Requests, NEW s \in Requests, Follows(r, s),
         NEW P \in Seq(Item), NEW Q \in Seq(Item), Built(r, P), Built(s, Q),
         NEW k \in DOMAIN P, P[k].content # Nothing,
         \A c \in Changed(r, s) : P[k].volatility < c.volatility
  PROVE  k \in DOMAIN Q /\ Q[k] = P[k]
<1>1. r.limit = s.limit /\ \E role \in DOMAIN RoleConfig : IsTurnOf(role, r) /\ IsTurnOf(role, s)
  BY FollowsAssumption
<1>2. PICK role \in Roles : IsTurnOf(role, r) /\ IsTurnOf(role, s)
  BY <1>1, RoleFacts
<1>3. r.policy = s.policy
  BY <1>2 DEF IsTurnOf
<1>4. Items(r) \subseteq Item /\ Items(s) \subseteq Item
  <2>1. r.candidates \in Seq(Item) /\ s.candidates \in Seq(Item)
    BY BuilderAssumption DEF Request
  <2> QED BY <2>1 DEF Items
<1>5. \A x \in Items(r) \cup Items(s) : Standing(role, x)
  BY <1>2, TurnFacts
<1>6. PICK D, E : Deduped(r, D) /\ Selected(r, D, E) /\ Laid(E, P)
  BY DEF Built
<1>7. PICK F, G : Deduped(s, F) /\ Selected(s, F, G) /\ Laid(G, Q)
  BY DEF Built
<1>8. E \subseteq Items(r) /\ G \subseteq Items(s)
  BY <1>6, <1>7 DEF Deduped, Selected
<1>9. ASSUME NEW x \in E \cup G, x.content # Nothing, x.volatility <= P[k].volatility
      PROVE  x \in E <=> x \in G
  <2>1. x \in Item /\ P[k] \in Item
    BY <1>4, <1>8
  <2>2. ASSUME NEW c \in Changed(r, s) PROVE x.priority < c.priority
    <3>1. c \in Items(r) \cup Items(s) /\ c \in Item
      BY <1>4 DEF Changed
    <3>2. x.volatility < c.volatility
      BY <1>9, <2>1, <3>1 DEF Item
    <3> QED BY <1>5, <1>8, <1>9, <3>1, <3>2, SteadierComesFirst
  <2> QED BY <1>1, <1>3, <1>4, <1>6, <1>7, <2>1, <2>2, ChoicesAgree
<1>10. ASSUME NEW x \in E \cup G, x = P[k] \/ ShownBefore(x, P[k]) PROVE x \in E <=> x \in G
  <2>1. x \in Item /\ P[k] \in Item
    BY <1>4, <1>8
  <2>2. x.content # Nothing /\ x.volatility <= P[k].volatility
    <3>1. CASE x = P[k]
      BY <2>1, <3>1 DEF Item
    <3>2. CASE ShownBefore(x, P[k])
      BY <2>1, <3>2, ShownOrders
    <3> QED BY <1>10, <3>1, <3>2
  <2> QED BY <1>9, <2>2
<1> QED BY <1>6, <1>7, <1>10, PromptsAgree

\* "The same inputs must produce a byte-identical prompt": two requests with the
\* same items, policy and limit, in whatever order their providers propose the
\* items, have one prompt (ContextBuilder.build).
THEOREM OnePromptOfItems ==
  ASSUME NEW r \in Requests, NEW s \in Requests,
         Items(r) = Items(s), r.policy = s.policy, r.limit = s.limit,
         NEW P \in Seq(Item), NEW Q \in Seq(Item), Built(r, P), Built(s, Q)
  PROVE  P = Q
<1>1. Items(r) \subseteq Item /\ Items(s) \subseteq Item /\ Changed(r, s) = {}
  <2>1. r.candidates \in Seq(Item) /\ s.candidates \in Seq(Item)
    BY BuilderAssumption DEF Request
  <2>2. Items(r) \subseteq Item /\ Items(s) \subseteq Item
    BY <2>1 DEF Items
  <2>3. Changed(r, s) = {}
    BY DEF Changed
  <2> QED BY <2>2, <2>3
<1>2. PICK D, E : Deduped(r, D) /\ Selected(r, D, E) /\ Laid(E, P)
  BY DEF Built
<1>3. PICK F, G : Deduped(s, F) /\ Selected(s, F, G) /\ Laid(G, Q)
  BY DEF Built
<1>4. E = G
  <2>1. \A x \in Item : x \in E <=> x \in G
    BY <1>1, <1>2, <1>3, ChoicesAgree
  <2>2. E \subseteq Item /\ G \subseteq Item
    BY <1>1, <1>2, <1>3 DEF Deduped, Selected
  <2> QED BY <2>1, <2>2
<1>5. \A k \in DOMAIN P : k \in DOMAIN Q /\ Q[k] = P[k]
  BY <1>2, <1>3, <1>4, PromptsAgree
<1>6. \A k \in DOMAIN Q : k \in DOMAIN P /\ P[k] = Q[k]
  BY <1>2, <1>3, <1>4, PromptsAgree
<1>7. DOMAIN P = DOMAIN Q
  BY <1>5, <1>6
<1>8. P = [k \in DOMAIN P |-> P[k]] /\ Q = [k \in DOMAIN Q |-> Q[k]]
  OBVIOUS
<1> QED BY <1>5, <1>7, <1>8

\* The build before this one is of the turn before, and was built as it must.
PreviousInv ==
  previous # Nothing =>
    /\ previous.request \in Requests /\ Follows(previous.request, request)
    /\ previous.prompt \in Seq(Item) /\ Built(previous.request, previous.prompt)

\* A build that is done becomes the one before the next.
LEMMA PreviousStep ==
  TypeOK /\ AccountInv /\ GreedyInv /\ SurvivorInv /\ RenderInv /\ PreviousInv /\ [Next]_vars
    => PreviousInv'
<1> SUFFICES ASSUME TypeOK, AccountInv, GreedyInv, SurvivorInv, RenderInv, PreviousInv, [Next]_vars
             PROVE  PreviousInv'
  OBVIOUS
<1>1. ASSUME NEW r \in Requests, LaterTurn(r) PROVE PreviousInv'
  <2>1. phase = "done" /\ Follows(request, r) /\ request' = r
    BY <1>1 DEF LaterTurn, Start
  <2>2. previous'.request = request /\ previous'.prompt = prompt
    BY <1>1 DEF LaterTurn
  <2>3. Keyed(request)
    BY <2>1, FollowsAssumption, RoleFacts, TurnFacts DEF TypeOK
  <2>4. Built(request, prompt)
    BY <2>1, <2>3, DoneIsBuilt
  <2> QED BY <2>1, <2>2, <2>4 DEF PreviousInv, TypeOK
<1>2. ASSUME UNCHANGED <<request, previous>> PROVE PreviousInv'
  BY <1>2 DEF PreviousInv
<1>3. (\E i \in todo : Enforce(i) \/ Dedupe(i) \/ Select(i) \/ Render(i)) \/ NextLoop \/ UNCHANGED vars
        => UNCHANGED <<request, previous>>
  BY DEF Enforce, Dedupe, Select, Render, NextLoop, vars
<1> QED BY <1>1, <1>2, <1>3 DEF Next

\* What is true between any two steps of a build, and of the build before it.
BuildInv ==
  /\ TypeOK /\ AccountInv /\ BlindInv /\ FitInv /\ UniqueInv
  /\ GreedyInv /\ SurvivorInv /\ RenderInv /\ PreviousInv

\* The inductive invariant of the builder with its providers.
THEOREM Invariance == Spec => []BuildInv
<1>1. Init => BuildInv
  <2> SUFFICES ASSUME Init PROVE BuildInv
    OBVIOUS
  <2>1. TypeOK
    BY InitTyped
  <2>2. AccountInv /\ BlindInv /\ FitInv /\ UniqueInv /\ GreedyInv
    BY AccountInit, BlindInit
       DEF Init, FitInv, NothingMoreFits, OmittedFor, UniqueInv, GreedyInv
  <2>3. SurvivorInv /\ RenderInv /\ PreviousInv
    BY DEF Init, SurvivorInv, RenderInv, PreviousInv, OmittedFor
  <2> QED BY <2>1, <2>2, <2>3 DEF BuildInv
<1>2. BuildInv /\ [Next]_vars => BuildInv'
  BY TypeStep, AccountStep, BlindStep, FitStep, UniqueStep, GreedyStep, SurvivorStep, RenderStep,
     PreviousStep
     DEF BuildInv
<1> QED BY <1>1, <1>2, PTL DEF Spec

\* Four loops over places come to what one definition says of the items: the
\* finished prompt of a request whose keys are distinct is Built from it.
DoneAsDefined == phase = "done" /\ Keyed(request) => Built(request, prompt)

\* build() implements that definition, for every such request.
THEOREM DoneAsDefinedHolds == Spec => []DoneAsDefined
<1>1. BuildInv => DoneAsDefined
  BY DoneIsBuilt DEF BuildInv, DoneAsDefined
<1> QED BY <1>1, Invariance, PTL

\* From one full package of a role to the next, the prompt keeps every text that is
\* steadier than all that changed, where it was: no change of a volatile item
\* pushes a steadier one out or moves it, whatever the texts cost, whichever
\* the limit is (order_for_render and the providers' priorities).
THEOREM CacheablePrefixHolds == Spec => []CacheablePrefix
<1>1. BuildInv => CacheablePrefix
  <2> SUFFICES ASSUME BuildInv, phase = "done", previous # Nothing,
                      previous.request.kind = "full", request.kind = "full",
                      NEW k \in DOMAIN previous.prompt,
                      previous.prompt[k].content # Nothing,
                      \A c \in Changed(previous.request, request) :
                        previous.prompt[k].volatility < c.volatility
               PROVE  k \in DOMAIN prompt /\ prompt[k] = previous.prompt[k]
    BY DEF CacheablePrefix
  <2>1. /\ previous.request \in Requests /\ Follows(previous.request, request)
        /\ previous.prompt \in Seq(Item) /\ Built(previous.request, previous.prompt)
    BY DEF BuildInv, PreviousInv
  <2>2. request \in Requests /\ prompt \in Seq(Item)
    BY DEF BuildInv, TypeOK
  <2>3. Keyed(request)
    BY <2>1, <2>2, FollowsAssumption, RoleFacts, TurnFacts
  <2>4. Built(request, prompt)
    BY <2>3, DoneIsBuilt DEF BuildInv
  <2> QED BY <2>1, <2>2, <2>4, PrefixStays
<1> QED BY <1>1, Invariance, PTL
=============================================================================
