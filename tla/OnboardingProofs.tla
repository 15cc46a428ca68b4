--------------------------- MODULE OnboardingProofs ---------------------------
(***************************************************************************)
(* What survives of projects that are being created, for any number of     *)
(* chats, updates, commands and killed processes.  While only one process  *)
(* is at work its copy of projects.yaml is current and the project it      *)
(* creates is new; when two are, a copy may put an entry back that another *)
(* write had lost, and the count of projects without a state.yaml is over  *)
(* the copies as well.                                                     *)
(***************************************************************************)
EXTENDS Onboarding, FiniteSetTheorems, WellFoundedInduction, TLAPS

Entry == [name : Project, at : Key \cup {Nothing}]

Doc == Seq(Entry)

Handler ==
  [pc : Pc, flow : Flow, project : Project \cup {Nothing}, at : Key \cup {Nothing},
   buf : Doc, next : DOMAIN Graph]

\* The variables without the processes.
DataOK ==
  /\ entries \in Doc /\ Map(entries)
  /\ state \in [Project -> DOMAIN Graph \cup {Nothing}]
  /\ source \in [Project -> {"absent", "partial", "cloned"}]
  /\ asked \in [create : SUBSET Key, import : SUBSET Key]
  /\ topics \in Seq(Project)
  /\ queued \in [project : Project, at : Key] \cup {Nothing}
  /\ sent \in [updates : Nat, commands : Nat]
  /\ crashes \in Nat
  /\ overlapped \in BOOLEAN

\* What a handler relies on while no other process is at work.
Current(h) ==
  /\ h.pc \in {"register_write", "link_write"} => h.buf = entries
  /\ h.pc = "init" => state[h.project] = Nothing /\ Registered(h.project)
  /\ h.pc = "gate" \/ (h.flow = "adopt" /\ h.pc \in {"topic", "link", "link_write"})
       => state[h.project] = Initial

\* A handler or command in the middle of its steps.
HandlerOK(h) ==
  /\ h \in Handler
  /\ Map(h.buf)
  /\ h.pc # "idle" => h.project \in Project
  /\ h.pc \in {"link", "link_write", "job"} => h.at \in Key
  /\ h.pc = "register_write" => ~ Listed(h.buf, h.project)
  /\ h.flow = "import" /\ h.pc \notin {"idle", "check", "clone"}
       => source[h.project] = "cloned"
  /\ ~ overlapped => Current(h)

Handlers == proc \in [Process -> Handler] /\ \A b \in Process : HandlerOK(proc[b])

\* While nothing has overlapped, one process is at work, and what has a
\* state.yaml is registered.
Alone ==
  ~ overlapped =>
    /\ \A b, c \in Process : b = c \/ proc[b].pc = "idle" \/ proc[c].pc = "idle"
    /\ \A p \in Project : state[p] # Nothing => Registered(p)

\* A project without a state.yaml that is registered, or may be again when a
\* copy of projects.yaml is written back.
Orphans ==
  {p \in Project :
     /\ state[p] = Nothing
     /\ ~ Registering(p)
     /\ Registered(p) \/ \E b \in Process : Listed(proc[b].buf, p)}

IInv ==
  /\ DataOK
  /\ Handlers
  /\ Alone
  /\ Cardinality(Orphans) <= crashes

-----------------------------------------------------------------------------
(* The registry *)

\* The elements of a sequence over a set.
LEMMA ElementType ==
  ASSUME NEW S, NEW s \in Seq(S), NEW i \in DOMAIN s
  PROVE  s[i] \in S
BY ONLY s \in Seq(S), i \in DOMAIN s

\* The first linked entry is an entry.
LEMMA FindFinds ==
  ASSUME NEW doc \in Doc, NEW key, Find(doc, key) # Nothing
  PROVE  Find(doc, key) \in Project
<1> DEFINE linked == {i \in DOMAIN doc : doc[i].at = key}
           first == CHOOSE i \in linked : \A j \in linked : i <= j
<1>1. linked # {} /\ Find(doc, key) = doc[first].name
  BY DEF Find
<1>2. linked \subseteq Nat
  BY DEF Doc
<1> DEFINE less == {ss \in Nat \X Nat : ss[1] < ss[2]}
<1>a. IsWellFoundedOn(less, Nat)
  BY NatLessThanWellFounded, Zenon DEF OpToRel
<1>3. \E i \in linked : \A j \in linked : ~ (<<j, i>> \in less)
  BY <1>1, <1>2, <1>a, WFMin
<1>4. \E i \in linked : \A j \in linked : i <= j
  <2>1. PICK i \in linked : \A j \in linked : ~ (<<j, i>> \in less)
    BY <1>3
  <2>2. ASSUME NEW j \in linked PROVE i <= j
    <3>1. i \in Nat /\ j \in Nat /\ <<j, i>> \in Nat \X Nat
      BY <1>2
    <3>2. ~ (<<j, i>>[1] < <<j, i>>[2])
      BY <2>1, <3>1
    <3> QED
      BY <3>1, <3>2
  <2> QED
    BY <2>2
<1>5. first \in linked
  BY <1>4
<1> HIDE DEF first
<1>6. first \in DOMAIN doc
  BY <1>5
<1> HIDE DEF linked
<1>7. doc[first] \in Entry
  BY <1>6, ElementType DEF Doc
<1> QED
  BY <1>1, <1>7 DEF Entry

\* register() adds one name that was not there.
LEMMA EnteredKeeps ==
  ASSUME NEW doc \in Doc, Map(doc), NEW p \in Project, ~ Listed(doc, p),
         NEW new, new = Entered(doc, p)
  PROVE  /\ new \in Doc /\ Map(new)
         /\ \A q : Listed(new, q) <=> Listed(doc, q) \/ q = p
<1> DEFINE n == Len(doc) + 1
<1>1. [name |-> p, at |-> Nothing] \in Entry /\ new = Append(doc, [name |-> p, at |-> Nothing])
  BY DEF Entry, Entered
<1>2. new \in Doc /\ Len(doc) \in Nat /\ DOMAIN doc = 1..Len(doc)
  BY <1>1 DEF Doc
<1>3. /\ DOMAIN new = 1..n /\ new[n].name = p
      /\ \A i \in DOMAIN doc : new[i] = doc[i]
  BY <1>1 DEF Doc
<1>4. \A i \in DOMAIN new : i \in DOMAIN doc \/ i = n
  BY <1>2, <1>3
<1>5. DOMAIN doc \subseteq DOMAIN new /\ n \in DOMAIN new
  BY <1>2, <1>3
<1> HIDE DEF n
<1>6. Map(new)
  BY <1>3, <1>4 DEF Map, Listed
<1>7. \A q : Listed(new, q) <=> Listed(doc, q) \/ q = p
  BY <1>3, <1>4, <1>5 DEF Listed
<1> QED
  BY <1>2, <1>6, <1>7

\* link_telegram() adds and removes no name.
LEMMA LinkedKeeps ==
  ASSUME NEW doc \in Doc, Map(doc), NEW p, NEW key \in Key,
         NEW new, new = Linked(doc, p, key)
  PROVE  /\ new \in Doc /\ Map(new)
         /\ \A q : Listed(new, q) <=> Listed(doc, q)
<1>1. DOMAIN doc = 1..Len(doc) /\ Len(doc) \in Nat
  BY DEF Doc
<1>2. \A i \in DOMAIN doc : doc[i] \in Entry
  BY ElementType DEF Doc
<1>3. DOMAIN new = DOMAIN doc
  BY DEF Linked
<1>4. ASSUME NEW i \in DOMAIN doc
      PROVE  new[i] \in Entry /\ new[i].name = doc[i].name
  BY <1>2 DEF Linked, Entry
<1>5. new = [i \in 1..Len(doc) |-> new[i]]
  BY <1>1 DEF Linked
<1>6. new \in Doc
  BY <1>1, <1>4, <1>5 DEF Doc
<1>7. Map(new) /\ \A q : Listed(new, q) <=> Listed(doc, q)
  BY <1>3, <1>4 DEF Map, Listed
<1> QED
  BY <1>6, <1>7

-----------------------------------------------------------------------------
(* The processes *)

\* None is no state.
LEMMA StateNames ==
  Initial \in DOMAIN Graph /\ Nothing \notin DOMAIN Graph /\ Nothing \notin Project
BY OnboardingAssumption, WorkflowAssumption DEF Validates

\* A process at rest relies on nothing.
LEMMA IdleOK ==
  ASSUME NEW b, proc'[b] = Idle
  PROVE  HandlerOK(proc[b])'
<1>1. <<>> \in Doc' /\ Map(<<>>)
  BY DEF Doc, Map
<1>2. proc'[b] \in Handler'
  BY <1>1, StateNames DEF Idle, Handler, Pc, Flow
<1>3. proc'[b].pc = "idle" /\ proc'[b].buf = <<>> /\ proc'[b].flow = "create"
  BY DEF Idle
<1> QED
  BY <1>1, <1>2, <1>3 DEF HandlerOK, Current

\* A step of one process leaves the others what they rely on.
LEMMA OthersKeep ==
  ASSUME IInv, NEW b \in Process, \E h : proc' = [proc EXCEPT ![b] = h],
         HandlerOK(proc[b])', Doc \subseteq Doc', Key \subseteq Key',
         \A p \in Project : source[p] = "cloned" => source'[p] = "cloned",
         ~ overlapped' => /\ ~ overlapped
                          /\ \A c \in Process \ {b} : proc[c].pc = "idle"
  PROVE  /\ Handlers'
         /\ ~ overlapped' => \A c, d \in Process :
                               c = d \/ proc'[c].pc = "idle" \/ proc'[d].pc = "idle"
<1>1. proc \in [Process -> Handler] /\ \A c \in Process : HandlerOK(proc[c])
  BY DEF IInv, Handlers
<1>2. DOMAIN proc' = Process /\ \A c \in Process \ {b} : proc'[c] = proc[c]
  BY <1>1
<1>3. \A h \in Handler : h \in Handler'
  BY DEF Handler
<1>4. ASSUME NEW c \in Process \ {b} PROVE HandlerOK(proc[c])'
  <2>1. HandlerOK(proc[c]) /\ proc'[c] = proc[c]
    BY <1>1, <1>2
  <2>2. proc'[c] \in Handler'
    BY <1>3, <2>1 DEF HandlerOK
  <2>3. ~ overlapped' => Current(proc[c])'
    BY <2>1 DEF Current
  <2> QED
    BY <2>1, <2>2, <2>3 DEF HandlerOK
<1>5. \A c \in Process : HandlerOK(proc[c])'
  BY <1>4
<1>6. proc' \in [Process -> Handler']
  <2>1. \A c \in Process : proc'[c] \in Handler'
    BY <1>5 DEF HandlerOK
  <2>2. proc' = [c \in Process |-> proc'[c]]
    BY <1>1
  <2> QED
    BY <2>1, <2>2
<1> QED
  BY <1>2, <1>5, <1>6 DEF Handlers

\* While nothing has overlapped, who is at work is alone.
LEMMA AtWork ==
  ASSUME IInv, NEW b \in Process, proc[b].pc # "idle", ~ overlapped
  PROVE  \A c \in Process \ {b} : proc[c].pc = "idle"
BY DEF IInv, Alone

\* What a handler in the middle of its steps has.
LEMMA AtStep ==
  ASSUME IInv, NEW b \in Process, proc[b].pc # "idle"
  PROVE  /\ proc[b] \in Handler /\ HandlerOK(proc[b])
         /\ proc[b].project \in Project /\ proc[b].buf \in Doc /\ Map(proc[b].buf)
         /\ proc[b].flow \in Flow /\ proc[b].pc \in Pc
         /\ entries \in Doc /\ Map(entries)
BY DEF IInv, DataOK, Handlers, HandlerOK, Handler

\* What Goto changes.
LEMMA GotoGives ==
  ASSUME IInv, NEW b \in Process, proc[b].pc # "idle", NEW k, k \in Pc, Goto(b, k)
  PROVE  /\ \E h : proc' = [proc EXCEPT ![b] = h]
         /\ proc'[b].pc = k
         /\ k = "idle" => proc'[b] = Idle
         /\ k # "idle" => /\ proc'[b] \in Handler
                          /\ proc'[b].flow = proc[b].flow
                          /\ proc'[b].project = proc[b].project
                          /\ proc'[b].at = proc[b].at
                          /\ proc'[b].buf = proc[b].buf
<1>1. proc \in [Process -> Handler] /\ proc[b] \in Handler
  BY DEF IInv, Handlers
<1>2. proc' = [proc EXCEPT ![b] = IF k = "idle" THEN Idle ELSE [proc[b] EXCEPT !.pc = k]]
  BY DEF Goto
<1>3. proc'[b] = IF k = "idle" THEN Idle ELSE [proc[b] EXCEPT !.pc = k]
  BY <1>1, <1>2
<1>4. CASE k = "idle"
  <2>1. proc'[b] = Idle /\ proc'[b].pc = k
    BY <1>3, <1>4 DEF Idle
  <2>2. \E h : proc' = [proc EXCEPT ![b] = h]
    BY <1>2
  <2> QED
    BY <1>4, <2>1, <2>2
<1>5. CASE k # "idle"
  <2>1. proc'[b] = [proc[b] EXCEPT !.pc = k]
    BY <1>3, <1>5
  <2>2. /\ proc'[b] \in Handler /\ proc'[b].pc = k
        /\ proc'[b].flow = proc[b].flow /\ proc'[b].project = proc[b].project
        /\ proc'[b].at = proc[b].at /\ proc'[b].buf = proc[b].buf
    BY <1>1, <2>1 DEF Handler
  <2>3. \E h : proc' = [proc EXCEPT ![b] = h]
    BY <1>2
  <2> QED
    BY <1>5, <2>2, <2>3
<1> QED
  BY <1>4, <1>5

\* A handler that goes on to another step has what it relies on there.
LEMMA MoveOK ==
  ASSUME IInv, NEW b \in Process, proc[b].pc # "idle", NEW k, k \in Pc, Goto(b, k),
         k # "register_write", topics' = topics,
         k \in {"link", "link_write", "job"} => proc[b].at \in Key,
         proc[b].flow = "import" /\ k \notin {"idle", "check", "clone"}
           => source'[proc[b].project] = "cloned",
         k # "idle" /\ ~ overlapped' => Current(proc[b])'
  PROVE  HandlerOK(proc[b])'
<1>1. CASE k = "idle"
  BY <1>1, GotoGives, IdleOK
<1>2. CASE k # "idle"
  <2>1. Key' = Key /\ Handler' = Handler
    BY DEF Key, Handler, Doc, Entry
  <2> QED
    BY <1>2, <2>1, GotoGives, AtStep DEF HandlerOK
<1> QED
  BY <1>1, <1>2

\* The topics stay as they are in all steps but one.
LEMMA TopicsStay ==
  ASSUME topics' = topics
  PROVE  Key' = Key /\ Doc' = Doc /\ Handler' = Handler
BY DEF Key, Handler, Doc, Entry

-----------------------------------------------------------------------------
(* The steps that are nobody's but one process's *)

\* What every step of a process has to keep.
ProcKept == DataOK' /\ Handlers' /\ Alone'

\* Check, and a clone: nothing is registered yet.
LEMMA BeforeRegistering ==
  ASSUME IInv, NEW b \in Process, Check(b) \/ Clone(b)
  PROVE  ProcKept
<1> DEFINE p == proc[b].project
<1>1. /\ proc[b].pc \in {"check", "clone"} /\ overlapped' = overlapped /\ topics' = topics
      /\ UNCHANGED <<entries, state, asked, queued, sent, crashes>>
  BY DEF Check, Clone
<1>2. PICK k \in {"idle", "clone", "register"} :
        /\ Goto(b, k)
        /\ k = "register" => proc[b].flow # "import" \/ source'[p] = "cloned"
        /\ source' = source \/ source' = [source EXCEPT ![p] = "cloned"]
  <2>1. CASE Check(b)
    BY <2>1, AtStep DEF Check, Flow
  <2>2. CASE Clone(b)
    <3>1. p \in Project
      BY <1>1, AtStep
    <3>2. source' = [source EXCEPT ![p] = "cloned"] => source'[p] = "cloned"
      BY <3>1 DEF IInv, DataOK
    <3> QED
      BY <2>2, <3>2 DEF Clone
  <2> QED
    BY <2>1, <2>2
<1>3. k \in Pc /\ proc[b].pc # "idle"
  BY <1>1 DEF Pc
<1>4. Current(proc[b])'
  BY <1>2, <1>3, GotoGives DEF Current
<1>5. HandlerOK(proc[b])'
  BY <1>1, <1>2, <1>3, <1>4, MoveOK
<1>6. \A q \in Project : source[q] = "cloned" => source'[q] = "cloned"
  BY <1>2 DEF IInv, DataOK
<1>7. /\ Handlers'
      /\ ~ overlapped' => \A c, d \in Process :
                            c = d \/ proc'[c].pc = "idle" \/ proc'[d].pc = "idle"
  BY <1>1, <1>2, <1>3, <1>5, <1>6, GotoGives, AtWork, OthersKeep, TopicsStay
<1>8. Alone'
  BY <1>1, <1>7 DEF IInv, Alone, Registered
<1>9. DataOK'
  BY <1>1, <1>2, TopicsStay DEF IInv, DataOK
<1> QED
  BY <1>7, <1>8, <1>9 DEF ProcKept

\* The reading half of register() and link_telegram().
LEMMA ReadKeeps ==
  ASSUME IInv, NEW b \in Process, ReadRegistry(b)
  PROVE  ProcKept
<1> DEFINE p == proc[b].project
<1>1. /\ proc[b].pc \in {"register", "link"}
      /\ UNCHANGED <<entries, state, source, asked, topics, queued, sent, crashes, overlapped>>
  BY DEF ReadRegistry
<1>2. /\ proc[b] \in Handler /\ HandlerOK(proc[b]) /\ p \in Project
      /\ entries \in Doc /\ Map(entries) /\ proc \in [Process -> Handler]
  BY <1>1, AtStep DEF IInv, Handlers
<1>3. /\ HandlerOK(proc[b])'
      /\ \E h : proc' = [proc EXCEPT ![b] = h]
  <2>1. CASE Goto(b, "idle")
    BY <1>1, <2>1, GotoGives, MoveOK DEF Pc
  <2>2. ASSUME NEW k \in {"register_write", "link_write"},
               proc' = [proc EXCEPT ![b].pc = k, ![b].buf = entries],
               k = "register_write" => ~ Registered(p),
               k = "link_write" => proc[b].pc = "link"
        PROVE  /\ HandlerOK(proc[b])'
               /\ \E h : proc' = [proc EXCEPT ![b] = h]
    <3>1. proc'[b] = [proc[b] EXCEPT !.pc = k, !.buf = entries]
      BY <1>2, <2>2
    <3>2. /\ proc'[b].pc = k /\ proc'[b].buf = entries /\ proc'[b].flow = proc[b].flow
          /\ proc'[b].project = p /\ proc'[b].at = proc[b].at
      BY <1>2, <3>1 DEF Handler
    <3>3. proc'[b] \in Handler
      BY <1>2, <3>1 DEF Handler, Pc
    <3>4. ~ overlapped' => Current(proc[b])'
      BY <1>1, <1>2, <2>2, <3>2 DEF HandlerOK, Current
    <3>5. HandlerOK(proc[b])'
      BY <1>1, <1>2, <2>2, <3>2, <3>3, <3>4, TopicsStay DEF HandlerOK, Registered
    <3>6. \E h : proc' = [proc EXCEPT ![b] = h]
      BY <2>2, <3>1, <1>2
    <3> QED
      BY <3>5, <3>6
  <2>3. \/ Goto(b, "idle")
        \/ \E k \in {"register_write", "link_write"} :
             /\ proc' = [proc EXCEPT ![b].pc = k, ![b].buf = entries]
             /\ k = "register_write" => ~ Registered(p)
             /\ k = "link_write" => proc[b].pc = "link"
    BY DEF ReadRegistry
  <2> QED
    BY <2>1, <2>2, <2>3
<1>4. /\ Handlers'
      /\ ~ overlapped' => \A c, d \in Process :
                            c = d \/ proc'[c].pc = "idle" \/ proc'[d].pc = "idle"
  BY <1>1, <1>3, AtWork, OthersKeep, TopicsStay
<1>5. Alone'
  BY <1>1, <1>4 DEF IInv, Alone, Registered
<1>6. DataOK'
  BY <1>1, TopicsStay DEF IInv, DataOK
<1> QED
  BY <1>4, <1>5, <1>6 DEF ProcKept

\* The writing half: the file is the copy and this project.
LEMMA WriteGives ==
  ASSUME IInv, NEW b \in Process, WriteRegistry(b)
  PROVE  /\ proc[b].pc \in {"register_write", "link_write"} /\ proc[b].project \in Project
         /\ entries' \in Doc /\ Map(entries')
         /\ \A q : Listed(entries', q) <=>
                     \/ Listed(proc[b].buf, q)
                     \/ proc[b].pc = "register_write" /\ q = proc[b].project
         /\ UNCHANGED <<state, source, asked, topics, queued, sent, crashes, overlapped>>
         /\ Goto(b, Then(proc[b].flow, proc[b].pc))
         /\ Then(proc[b].flow, proc[b].pc) =
              IF proc[b].pc = "register_write" THEN "init"
              ELSE IF proc[b].flow = "import" THEN "job"
              ELSE IF proc[b].flow = "adopt" THEN "gate" ELSE "idle"
<1> DEFINE p == proc[b].project
<1>1. /\ proc[b].pc \in {"register_write", "link_write"}
      /\ proc[b].pc = "register_write"
           => entries' = Entered(proc[b].buf, p)
      /\ proc[b].pc = "link_write" => entries' = Linked(proc[b].buf, p, proc[b].at)
      /\ UNCHANGED <<state, source, asked, topics, queued, sent, crashes, overlapped>>
      /\ Goto(b, Then(proc[b].flow, proc[b].pc))
  BY DEF WriteRegistry
<1>2. /\ HandlerOK(proc[b]) /\ p \in Project /\ proc[b].buf \in Doc /\ Map(proc[b].buf)
      /\ proc[b].flow \in Flow
  BY <1>1, AtStep
<1>3. Then(proc[b].flow, proc[b].pc) =
        IF proc[b].pc = "register_write" THEN "init"
        ELSE IF proc[b].flow = "import" THEN "job"
        ELSE IF proc[b].flow = "adopt" THEN "gate" ELSE "idle"
  BY <1>1, <1>2 DEF Then, Flow
<1>4. CASE proc[b].pc = "register_write"
  <2>1. ~ Listed(proc[b].buf, p)
    BY <1>2, <1>4 DEF HandlerOK
  <2> QED
    BY <1>1, <1>2, <1>3, <1>4, <2>1, EnteredKeeps
<1>5. CASE proc[b].pc = "link_write"
  <2>1. proc[b].at \in Key
    BY <1>2, <1>5 DEF HandlerOK
  <2> QED
    BY <1>1, <1>2, <1>3, <1>5, <2>1, LinkedKeeps
<1> QED
  BY <1>1, <1>4, <1>5

\* A copy that is written back while nothing overlaps is the file itself.
LEMMA WriteKeeps ==
  ASSUME IInv, NEW b \in Process, WriteRegistry(b)
  PROVE  ProcKept
<1> DEFINE p == proc[b].project
           k == Then(proc[b].flow, proc[b].pc)
<1>1. /\ proc[b].pc \in {"register_write", "link_write"} /\ p \in Project
      /\ entries' \in Doc /\ Map(entries')
      /\ \A q : Listed(entries', q) <=>
                  Listed(proc[b].buf, q) \/ (proc[b].pc = "register_write" /\ q = p)
      /\ UNCHANGED <<state, source, asked, topics, queued, sent, crashes, overlapped>>
      /\ Goto(b, k)
      /\ k = IF proc[b].pc = "register_write" THEN "init"
             ELSE IF proc[b].flow = "import" THEN "job"
             ELSE IF proc[b].flow = "adopt" THEN "gate" ELSE "idle"
  BY WriteGives
<1> HIDE DEF k
<1>2. k \in Pc /\ HandlerOK(proc[b]) /\ proc[b].pc # "idle"
  BY <1>1, AtStep DEF Pc
<1>3. ~ overlapped => Current(proc[b]) /\ proc[b].buf = entries
  BY <1>1, <1>2 DEF HandlerOK, Current
<1>4. /\ \E h : proc' = [proc EXCEPT ![b] = h]
      /\ proc'[b].pc = k
      /\ k # "idle" => proc'[b].flow = proc[b].flow /\ proc'[b].project = p
  BY <1>1, <1>2, GotoGives
<1>5. ASSUME k # "idle", ~ overlapped' PROVE Current(proc[b])'
  <2>1. ~ overlapped /\ Current(proc[b]) /\ proc[b].buf = entries
    BY <1>1, <1>3, <1>5
  <2>2. CASE proc[b].pc = "register_write"
    <3>1. ~ Registered(p)
      BY <1>2, <2>1, <2>2 DEF HandlerOK, Registered
    <3>2. state[p] = Nothing
      BY <1>1, <2>1, <3>1 DEF IInv, Alone
    <3>3. Registered(p)'
      BY <1>1, <1>4, <2>2 DEF Registered
    <3>4. /\ proc'[b].pc = "init" /\ proc'[b].project = p /\ state' = state
          /\ Listed(entries', p)
      BY <1>1, <1>4, <1>5, <2>2, <3>3 DEF Registered
    <3> QED
      BY <3>2, <3>4 DEF Current, Registered
  <2>3. CASE proc[b].pc = "link_write"
    BY <1>1, <1>4, <1>5, <2>1, <2>3 DEF Current
  <2> QED
    BY <1>1, <2>2, <2>3
<1>6. HandlerOK(proc[b])'
  <2>1. /\ k = "job" => proc[b].at \in Key
        /\ proc[b].flow = "import" => source'[p] = "cloned"
        /\ k \notin {"register_write", "link", "link_write"}
    BY <1>1, <1>2 DEF HandlerOK
  <2> QED
    BY <1>1, <1>2, <1>5, <2>1, MoveOK
<1>7. /\ Handlers'
      /\ ~ overlapped' => \A c, d \in Process :
                            c = d \/ proc'[c].pc = "idle" \/ proc'[d].pc = "idle"
  BY <1>1, <1>2, <1>4, <1>6, AtWork, OthersKeep, TopicsStay
<1>8. Alone'
  <2>1. ~ overlapped' => \A q \in Project : state'[q] # Nothing => Registered(q)'
    BY <1>1, <1>3 DEF IInv, Alone, Registered
  <2> QED
    BY <1>7, <2>1 DEF Alone
<1>9. DataOK'
  BY <1>1, TopicsStay DEF IInv, DataOK
<1> QED
  BY <1>7, <1>8, <1>9 DEF ProcKept

\* create_project() and apply_approval write state.yaml.
LEMMA StateWritten ==
  ASSUME IInv, NEW b \in Process, WriteFirstState(b) \/ PassGate(b)
  PROVE  /\ proc[b].pc \in {"init", "gate"} /\ proc[b].project \in Project
         /\ UNCHANGED <<entries, source, asked, topics, queued, sent, crashes, overlapped>>
         /\ proc[b].pc = "init" => state' = [state EXCEPT ![proc[b].project] = Initial]
         /\ proc[b].pc = "gate" =>
              \/ state' = state
              \/ \E n \in DOMAIN Graph : state' = [state EXCEPT ![proc[b].project] = n]
<1>1. /\ proc[b].pc \in {"init", "gate"}
      /\ UNCHANGED <<entries, source, asked, topics, queued, sent, crashes, overlapped>>
      /\ proc[b].pc = "init" => state' = [state EXCEPT ![proc[b].project] = Initial]
  BY DEF WriteFirstState, PassGate
<1>2. proc[b].project \in Project
  BY <1>1, AtStep
<1>3. ASSUME proc[b].pc = "gate"
      PROVE  \/ state' = state
             \/ \E n \in DOMAIN Graph : state' = [state EXCEPT ![proc[b].project] = n]
  <2> DEFINE now == IF state[proc[b].project] = Nothing THEN Initial
                    ELSE state[proc[b].project]
             type == Given(proc[b].flow)
             next == IF type # Nothing /\ RequiresApproval(Graph[now])
                     THEN Advance(Graph, now, type) ELSE Nothing
  <2>1. \/ state' = state
        \/ next # Nothing /\ state' = [state EXCEPT ![proc[b].project] = next]
    BY <1>3 DEF PassGate, WriteFirstState
  <2>2. now \in DOMAIN Graph
    BY <1>2, StateNames DEF IInv, DataOK
  <2> HIDE DEF now, type
  <2>3. next \in DOMAIN Graph \cup {Nothing}
    <3>1. WellFormed(Graph, now) /\ Graph[now] \in StateSpec
      BY <2>2, OnboardingAssumption DEF Validates
    <3>2. Targets(Graph[now]) \subseteq DOMAIN Graph
      BY <3>1 DEF WellFormed
    <3>3. /\ Graph[now].next \in DOMAIN Graph \cup {Nothing}
          /\ \A t \in Branches(Graph[now]) : Graph[now].next_by_approval[t] \in DOMAIN Graph
      BY <3>2 DEF Targets, PlainTargets
    <3>4. Advance(Graph, now, type) \in DOMAIN Graph \cup {Nothing}
      BY <3>3 DEF Advance
    <3> QED
      BY <3>4
  <2> HIDE DEF next
  <2> QED
    BY <2>1, <2>3
<1> QED
  BY <1>1, <1>2, <1>3

\* Where the handler goes after it.
LEMMA StateWriterGoes ==
  ASSUME IInv, NEW b \in Process, WriteFirstState(b) \/ PassGate(b)
  PROVE  /\ HandlerOK(proc[b])'
         /\ \E h : proc' = [proc EXCEPT ![b] = h]
         /\ proc'[b].pc \in {"idle", "gate", "topic"}
         /\ proc'[b].buf \in {<<>>, proc[b].buf}
<1> DEFINE p == proc[b].project
<1>1. /\ proc[b].pc \in {"init", "gate"} /\ p \in Project
      /\ UNCHANGED <<entries, source, asked, topics, queued, sent, crashes, overlapped>>
      /\ proc[b].pc = "init" => state' = [state EXCEPT ![p] = Initial]
  BY StateWritten
<1>2. /\ proc[b] \in Handler /\ HandlerOK(proc[b]) /\ proc[b].flow \in Flow
      /\ proc \in [Process -> Handler]
  BY <1>1, AtStep DEF IInv, Handlers
<1>3. ASSUME NEW k \in {"idle", "gate", "topic"}, Goto(b, k),
             k = "gate" => proc[b].pc = "init",
             k = "topic" => proc[b].pc = "init" \/ proc[b].flow # "adopt"
      PROVE  /\ HandlerOK(proc[b])'
             /\ \E h : proc' = [proc EXCEPT ![b] = h]
             /\ proc'[b].pc \in {"idle", "gate", "topic"}
             /\ proc'[b].buf \in {<<>>, proc[b].buf}
  <2>1. k \in Pc /\ proc[b].pc # "idle"
    BY <1>1, <1>3 DEF Pc
  <2>2. /\ \E h : proc' = [proc EXCEPT ![b] = h] /\ proc'[b].pc = k
        /\ k = "idle" => proc'[b] = Idle
        /\ k # "idle" => /\ proc'[b].flow = proc[b].flow /\ proc'[b].project = p
                         /\ proc'[b].buf = proc[b].buf
    BY <1>3, <2>1, GotoGives
  <2>3. k # "idle" => Current(proc[b])'
    <3>1. proc[b].pc = "init" => state'[p] = Initial
      BY <1>1 DEF IInv, DataOK
    <3> QED
      BY <1>3, <2>2, <3>1 DEF Current
  <2>4. proc[b].flow = "import" => source'[p] = "cloned"
    BY <1>1, <1>2 DEF HandlerOK
  <2>5. HandlerOK(proc[b])'
    BY <1>1, <1>3, <2>1, <2>3, <2>4, MoveOK
  <2>6. proc'[b].buf \in {<<>>, proc[b].buf}
    BY <2>2 DEF Idle
  <2> QED
    BY <1>3, <2>2, <2>5, <2>6
<1>4. CASE WriteFirstState(b)
  <2>1. Then(proc[b].flow, "init") \in {"gate", "topic"} /\ proc[b].pc = "init"
    BY <1>4 DEF WriteFirstState, Then
  <2> QED
    BY <1>3, <1>4, <2>1 DEF WriteFirstState
<1>5. CASE PassGate(b)
  <2>1. \/ Goto(b, "idle")
        \/ Goto(b, "topic") /\ proc[b].flow = "create"
        \/ \E n \in DOMAIN Graph :
             proc' = [proc EXCEPT ![b] = IF Then(@.flow, "gate") = "idle" THEN Idle
                                         ELSE [@ EXCEPT !.pc = "topic", !.next = n]]
    <3> DEFINE now == IF state[p] = Nothing THEN Initial ELSE state[p]
               type == Given(proc[b].flow)
               next == IF type # Nothing /\ RequiresApproval(Graph[now])
                       THEN Advance(Graph, now, type) ELSE Nothing
    <3>1. \/ type = Nothing /\ Goto(b, "topic")
          \/ Goto(b, "idle")
          \/ /\ next # Nothing /\ state' = [state EXCEPT ![p] = next]
             /\ proc' = [proc EXCEPT ![b] = IF Then(@.flow, "gate") = "idle" THEN Idle
                                            ELSE [@ EXCEPT !.pc = "topic", !.next = next]]
      BY <1>5 DEF PassGate
    <3>2. type = Nothing => proc[b].flow = "create"
      BY OnboardingAssumption, WorkflowAssumption DEF Given
    <3>3. next # Nothing /\ state' = [state EXCEPT ![p] = next] => next \in DOMAIN Graph
      <4>1. state' \in [Project -> DOMAIN Graph \cup {Nothing}]
        BY StateWritten, StateNames DEF IInv, DataOK
      <4> HIDE DEF next
      <4>2. state' = [state EXCEPT ![p] = next] => state'[p] = next
        BY <1>1 DEF IInv, DataOK
      <4> QED
        BY <1>1, <4>1, <4>2
    <3> HIDE DEF next, type
    <3> QED
      BY <3>1, <3>2, <3>3
  <2>2. ASSUME NEW n \in DOMAIN Graph,
               proc' = [proc EXCEPT ![b] = IF Then(@.flow, "gate") = "idle" THEN Idle
                                           ELSE [@ EXCEPT !.pc = "topic", !.next = n]]
        PROVE  /\ HandlerOK(proc[b])'
               /\ \E h : proc' = [proc EXCEPT ![b] = h]
               /\ proc'[b].pc \in {"idle", "gate", "topic"}
               /\ proc'[b].buf \in {<<>>, proc[b].buf}
    <3>1. \E h : proc' = [proc EXCEPT ![b] = h]
      BY <2>2
    <3>2. CASE Then(proc[b].flow, "gate") = "idle"
      <4>1. proc'[b] = Idle
        BY <1>2, <2>2, <3>2
      <4>2. HandlerOK(proc[b])'
        BY <4>1, IdleOK
      <4>3. proc'[b].pc = "idle" /\ proc'[b].buf = <<>>
        BY <4>1 DEF Idle
      <4> QED
        BY <3>1, <4>2, <4>3
    <3>3. CASE Then(proc[b].flow, "gate") # "idle"
      <4>1. proc'[b] = [proc[b] EXCEPT !.pc = "topic", !.next = n]
        BY <1>2, <2>2, <3>3
      <4>2. /\ proc'[b] \in Handler /\ proc'[b].pc = "topic" /\ proc'[b].flow = proc[b].flow
            /\ proc'[b].project = p /\ proc'[b].buf = proc[b].buf
        BY <1>2, <4>1 DEF Handler, Pc
      <4>3. proc[b].flow \in {"create", "import"}
        BY <3>3 DEF Then
      <4>4. Current(proc[b])'
        BY <4>2, <4>3 DEF Current
      <4>5. HandlerOK(proc[b])'
        BY <1>1, <1>2, <4>2, <4>4, TopicsStay DEF HandlerOK
      <4> QED
        BY <3>1, <4>2, <4>5
    <3> QED
      BY <3>2, <3>3
  <2>3. proc[b].pc = "gate"
    BY <1>5 DEF PassGate
  <2>4. CASE Goto(b, "idle")
    BY <1>3, <2>4
  <2>5. CASE Goto(b, "topic") /\ proc[b].flow = "create"
    BY <1>3, <2>5
  <2> QED
    BY <2>1, <2>2, <2>4, <2>5
<1> QED
  BY <1>4, <1>5

\* A project that has a state.yaml while nothing overlaps is registered.
LEMMA StateKeeps ==
  ASSUME IInv, NEW b \in Process, WriteFirstState(b) \/ PassGate(b)
  PROVE  ProcKept
<1> DEFINE p == proc[b].project
<1>1. /\ proc[b].pc \in {"init", "gate"} /\ p \in Project
      /\ UNCHANGED <<entries, source, asked, topics, queued, sent, crashes, overlapped>>
      /\ \/ state' = state
         \/ \E n \in DOMAIN Graph : state' = [state EXCEPT ![p] = n]
  BY StateWritten, StateNames
<1>2. /\ Handlers'
      /\ ~ overlapped' => \A c, d \in Process :
                            c = d \/ proc'[c].pc = "idle" \/ proc'[d].pc = "idle"
  BY <1>1, StateWriterGoes, AtWork, OthersKeep, TopicsStay
<1>3. ~ overlapped => Registered(p)
  <2>1. ~ overlapped => Current(proc[b])
    BY <1>1, AtStep DEF HandlerOK
  <2> QED
    BY <1>1, <2>1, StateNames DEF Current, IInv, Alone
<1>4. Alone'
  <2>1. ASSUME ~ overlapped', NEW q \in Project, state'[q] # Nothing PROVE Registered(q)'
    <3>1. q # p => state'[q] = state[q]
      BY <1>1 DEF IInv, DataOK
    <3>2. Registered(q)
      BY <1>1, <1>3, <2>1, <3>1 DEF IInv, Alone
    <3> QED
      BY <1>1, <3>2 DEF Registered
  <2> QED
    BY <1>2, <2>1 DEF Alone
<1>5. DataOK'
  <2>1. state' \in [Project -> DOMAIN Graph \cup {Nothing}]
    BY <1>1 DEF IInv, DataOK
  <2> QED
    BY <1>1, <2>1, TopicsStay DEF IInv, DataOK
<1> QED
  BY <1>2, <1>4, <1>5 DEF ProcKept

\* A larger set has the sequences of a smaller one.
LEMMA SequencesGrow ==
  ASSUME NEW S, NEW T, S \subseteq T
  PROVE  Seq(S) \subseteq Seq(T)
<1> SUFFICES ASSUME NEW s \in Seq(S) PROVE s \in Seq(T)
  OBVIOUS
<1>1. Len(s) \in Nat /\ DOMAIN s = 1..Len(s) /\ s = [i \in 1..Len(s) |-> s[i]]
  OBVIOUS
<1>2. \A i \in 1..Len(s) : s[i] \in T
  BY <1>1, ElementType
<1> QED
  BY <1>1, <1>2

\* A new topic is one more place to link.
LEMMA TopicKeeps ==
  ASSUME IInv, NEW b \in Process, CreateTopic(b)
  PROVE  ProcKept
<1> DEFINE p == proc[b].project
<1>1. /\ proc[b].pc = "topic"
      /\ UNCHANGED <<entries, state, source, asked, queued, sent, crashes, overlapped>>
  BY DEF CreateTopic
<1>2. /\ proc[b] \in Handler /\ HandlerOK(proc[b]) /\ p \in Project
      /\ proc \in [Process -> Handler] /\ topics \in Seq(Project) /\ Chats \in Nat
  BY <1>1, AtStep, OnboardingAssumption DEF IInv, Handlers, DataOK
<1>3. topics' \in Seq(Project) /\ Len(topics') >= Len(topics) /\ Len(topics') \in Nat
  <2>1. topics' \in {topics, Append(topics, p)}
    BY DEF CreateTopic
  <2> QED
    BY <1>2, <2>1
<1>4. Key \subseteq Key'
  BY <1>2, <1>3 DEF Key
<1>5. Doc \subseteq Doc'
  <2>1. Entry \subseteq Entry'
    BY <1>4 DEF Entry
  <2> QED
    BY <2>1, SequencesGrow DEF Doc
<1>6. /\ HandlerOK(proc[b])'
      /\ \E h : proc' = [proc EXCEPT ![b] = h]
  <2>1. CASE /\ topics' = topics
             /\ Goto(b, IF proc[b].flow = "adopt" THEN "gate" ELSE "idle")
    <3> DEFINE k == IF proc[b].flow = "adopt" THEN "gate" ELSE "idle"
    <3>1. /\ k \in Pc /\ k \in {"gate", "idle"} /\ proc[b].pc # "idle"
          /\ k = "gate" => proc[b].flow = "adopt"
      BY <1>1 DEF Pc
    <3>2. Goto(b, k) /\ topics' = topics
      BY <2>1
    <3> HIDE DEF k
    <3>3. /\ \E h : proc' = [proc EXCEPT ![b] = h]
          /\ proc'[b].pc = k
          /\ k # "idle" => proc'[b].flow = proc[b].flow /\ proc'[b].project = p
      BY <3>1, <3>2, GotoGives
    <3>4. k # "idle" /\ ~ overlapped' => Current(proc[b])'
      BY <1>1, <1>2, <3>1, <3>3 DEF HandlerOK, Current
    <3>5. HandlerOK(proc[b])'
      BY <1>1, <3>1, <3>2, <3>4, MoveOK
    <3> QED
      BY <3>3, <3>5
  <2>2. CASE /\ topics' = Append(topics, p)
             /\ proc' = [proc EXCEPT ![b].pc = "link",
                                     ![b].at = TopicKey(Len(topics) + 1)]
    <3> DEFINE key == TopicKey(Len(topics) + 1)
    <3>1. key \in Key'
      BY <1>2, <2>2 DEF Key, TopicKey
    <3>2. proc'[b] = [proc[b] EXCEPT !.pc = "link", !.at = key]
      BY <1>2, <2>2
    <3> HIDE DEF key
    <3>3. /\ proc'[b].pc = "link" /\ proc'[b].at = key /\ proc'[b].flow = proc[b].flow
          /\ proc'[b].project = p /\ proc'[b].buf = proc[b].buf
      BY <1>2, <3>2 DEF Handler
    <3>4. proc'[b] \in Handler'
      BY <1>2, <1>4, <1>5, <3>1, <3>2 DEF Handler, Pc
    <3>5. ~ overlapped' => Current(proc[b])'
      BY <1>1, <1>2, <3>3 DEF HandlerOK, Current
    <3>6. HandlerOK(proc[b])'
      BY <1>1, <1>2, <3>1, <3>3, <3>4, <3>5 DEF HandlerOK
    <3>7. \E h : proc' = [proc EXCEPT ![b] = h]
      BY <1>2, <2>2, <3>2
    <3> QED
      BY <3>6, <3>7
  <2> QED
    BY <2>1, <2>2 DEF CreateTopic
<1>7. /\ Handlers'
      /\ ~ overlapped' => \A c, d \in Process :
                            c = d \/ proc'[c].pc = "idle" \/ proc'[d].pc = "idle"
  BY <1>1, <1>4, <1>5, <1>6, AtWork, OthersKeep
<1>8. Alone'
  BY <1>1, <1>7 DEF IInv, Alone, Registered
<1>9. DataOK'
  <2>1. entries' \in Doc' /\ Map(entries')
    BY <1>1, <1>5 DEF IInv, DataOK
  <2>2. asked' \in [create : SUBSET Key', import : SUBSET Key']
    BY <1>1, <1>4 DEF IInv, DataOK
  <2>3. queued' \in [project : Project, at : Key'] \cup {Nothing}
    BY <1>1, <1>4 DEF IInv, DataOK
  <2> QED
    BY <1>1, <1>3, <2>1, <2>2, <2>3 DEF IInv, DataOK
<1> QED
  BY <1>7, <1>8, <1>9 DEF ProcKept

\* A handler or command that ends, as it should or not.
LEMMA EndKeeps ==
  ASSUME IInv, NEW b \in Process, proc[b].pc # "idle", Goto(b, "idle"),
         UNCHANGED <<entries, state, topics, sent, overlapped>>,
         source' \in [Project -> {"absent", "partial", "cloned"}],
         \A q \in Project : source[q] = "cloned" => source'[q] = "cloned",
         asked' \in [create : SUBSET Key, import : SUBSET Key],
         queued' \in [project : Project, at : Key] \cup {Nothing},
         crashes' \in Nat
  PROVE  ProcKept
<1>1. "idle" \in Pc
  BY DEF Pc
<1>2. HandlerOK(proc[b])' /\ \E h : proc' = [proc EXCEPT ![b] = h]
  BY <1>1, GotoGives, IdleOK
<1>3. /\ Handlers'
      /\ ~ overlapped' => \A c, d \in Process :
                            c = d \/ proc'[c].pc = "idle" \/ proc'[d].pc = "idle"
  BY <1>2, AtWork, OthersKeep, TopicsStay
<1>4. Alone'
  BY <1>3 DEF IInv, Alone, Registered
<1>5. DataOK'
  BY TopicsStay DEF IInv, DataOK
<1> QED
  BY <1>3, <1>4, <1>5 DEF ProcKept

\* The first turn, a reply that raises, a kill.
LEMMA EndsKeep ==
  ASSUME IInv, NEW b \in Process, QueueFirstTurn(b) \/ (ReplyRaises /\ b = "bot") \/ Crash(b)
  PROVE  /\ ProcKept
         /\ proc[b].pc # "idle" /\ Goto(b, "idle") /\ UNCHANGED <<entries, state>>
<1> USE DEF IInv, DataOK
<1>1. /\ proc[b].pc # "idle" /\ Goto(b, "idle")
      /\ UNCHANGED <<entries, state, topics, sent, overlapped>>
  BY DEF QueueFirstTurn, ReplyRaises, Crash
<1>2. /\ source' \in [Project -> {"absent", "partial", "cloned"}]
      /\ \A q \in Project : source[q] = "cloned" => source'[q] = "cloned"
  <2>1. \/ source' = source
        \/ /\ source[proc[b].project] = "absent"
           /\ source' = [source EXCEPT ![proc[b].project] = "partial"]
    BY DEF QueueFirstTurn, ReplyRaises, Crash
  <2> QED
    BY <2>1
<1>3. asked' \in [create : SUBSET Key, import : SUBSET Key]
  BY DEF QueueFirstTurn, ReplyRaises, Crash
<1>4. queued' \in [project : Project, at : Key] \cup {Nothing}
  <2>1. CASE QueueFirstTurn(b)
    <3>1. proc[b].project \in Project /\ proc[b].at \in Key
      BY <2>1, AtStep DEF QueueFirstTurn, HandlerOK
    <3> QED
      BY <2>1, <3>1 DEF QueueFirstTurn
  <2>2. CASE ReplyRaises \/ Crash(b)
    BY <2>2 DEF ReplyRaises, Crash
  <2> QED
    BY <2>1, <2>2
<1>5. crashes' \in Nat
  BY DEF QueueFirstTurn, ReplyRaises, Crash
<1> QED
  BY <1>1, <1>2, <1>3, <1>4, <1>5, EndKeeps

-----------------------------------------------------------------------------
(* The human *)

\* A handler or command that begins: the other process may be at work.
LEMMA BeginKeeps ==
  ASSUME IInv, NEW b \in Process, NEW flow \in Flow, NEW first \in {"check", "link", "register"},
         NEW p \in Project, NEW key \in Key \cup {Nothing},
         Begin(b, flow, first, p, key), proc[b].pc = "idle",
         first = "link" => flow = "link" /\ key \in Key,
         flow = "import" => first = "check",
         UNCHANGED <<entries, state, source, topics>>
  PROVE  Handlers' /\ Alone' /\ overlapped' \in BOOLEAN
<1>1. proc \in [Process -> Handler] /\ overlapped \in BOOLEAN
  BY DEF IInv, Handlers, DataOK
<1>2. /\ proc' = [proc EXCEPT ![b] = [Idle EXCEPT !.pc = first, !.flow = flow,
                                        !.project = p, !.at = key]]
      /\ overlapped' = (overlapped \/ \E c \in Process \ {b} : proc[c].pc # "idle")
  BY DEF Begin
<1>3. /\ \E h : proc' = [proc EXCEPT ![b] = h]
      /\ proc'[b] = [Idle EXCEPT !.pc = first, !.flow = flow, !.project = p, !.at = key]
  BY <1>1, <1>2
<1>4. /\ proc'[b].pc = first /\ proc'[b].flow = flow /\ proc'[b].project = p
      /\ proc'[b].at = key /\ proc'[b].buf = <<>>
  BY <1>3 DEF Idle
<1>5. proc'[b] \in Handler
  <2>1. <<>> \in Doc /\ first \in Pc
    BY DEF Doc, Pc
  <2> QED
    BY <1>3, <2>1, StateNames DEF Idle, Handler
<1>6. Current(proc[b])'
  BY <1>4 DEF Current
<1>7. Map(<<>>)
  BY DEF Map
<1>8. HandlerOK(proc[b])'
  BY <1>4, <1>5, <1>6, <1>7, TopicsStay DEF HandlerOK
<1>9. ~ overlapped' => ~ overlapped /\ \A c \in Process \ {b} : proc[c].pc = "idle"
  BY <1>1, <1>2
<1>10. /\ Handlers'
       /\ ~ overlapped' => \A c, d \in Process :
                             c = d \/ proc'[c].pc = "idle" \/ proc'[d].pc = "idle"
  BY <1>3, <1>8, <1>9, OthersKeep, TopicsStay
<1>11. Alone'
  BY <1>9, <1>10 DEF IInv, Alone, Registered
<1>12. overlapped' \in BOOLEAN
  BY <1>1, <1>2
<1> QED
  BY <1>10, <1>11, <1>12

\* What a human's step leaves alone, and that it begins one handler at most.
LEMMA HumanGives ==
  ASSUME IInv, Human
  PROVE  /\ UNCHANGED <<entries, state, source, topics, crashes>>
         /\ sent' \in [updates : Nat, commands : Nat]
         /\ asked' \in [create : SUBSET Key, import : SUBSET Key]
         /\ queued' \in [project : Project, at : Key] \cup {Nothing}
         /\ \/ UNCHANGED <<proc, overlapped>>
            \/ \E b \in Process, flow \in Flow, first \in {"check", "link", "register"},
                  p \in Project, key \in Key \cup {Nothing} :
                 /\ Begin(b, flow, first, p, key) /\ proc[b].pc = "idle"
                 /\ first = "link" => flow = "link" /\ key \in Key
                 /\ flow = "import" => first = "check"
<1> USE DEF IInv, DataOK
<1>1. ASSUME NEW key \in Key, NEW what \in {"create", "import"}, Ask(key, what)
      PROVE  asked' \in [create : SUBSET Key, import : SUBSET Key]
  BY <1>1 DEF Ask
<1>2. CASE \E key \in Key, what \in {"create", "import"} : Ask(key, what)
  BY <1>1, <1>2 DEF Ask, Update
<1>3. ASSUME NEW key \in Key, NEW p \in Project, ImportCommand(key, p)
      PROVE  Begin("bot", "import", "check", p, key) /\ proc["bot"].pc = "idle"
  BY <1>3 DEF ImportCommand, Update
<1>4. CASE \E key \in Key, p \in Project : ImportCommand(key, p)
  <2>1. "bot" \in Process /\ "import" \in Flow
    BY DEF Process, Flow
  <2> QED
    BY <1>3, <1>4, <2>1 DEF ImportCommand, Update
<1>5. ASSUME NEW key \in Key, NEW p \in Project, LinkCommand(key, p)
      PROVE  Begin("bot", "link", "link", p, key) /\ proc["bot"].pc = "idle"
  BY <1>5 DEF LinkCommand, Update
<1>6. CASE \E key \in Key, p \in Project : LinkCommand(key, p)
  <2>1. "bot" \in Process /\ "link" \in Flow
    BY DEF Process, Flow
  <2> QED
    BY <1>5, <1>6, <2>1 DEF LinkCommand, Update
<1>7. CASE \E p \in Project, flow \in {"new", "adopt"} : NewCommand(p, flow)
  <2>1. "cli" \in Process /\ {"new", "adopt"} \subseteq Flow
    BY DEF Process, Flow
  <2>2. PICK p \in Project, flow \in {"new", "adopt"} : NewCommand(p, flow)
    BY <1>7
  <2>3. Begin("cli", flow, "register", p, Nothing) /\ proc["cli"].pc = "idle"
    BY <2>2 DEF NewCommand
  <2> QED
    BY <2>1, <2>2, <2>3 DEF NewCommand
<1>8. CASE \E key \in Key, text \in Said : Message(key, text)
  <2>1. PICK key \in Key, text \in Said : Message(key, text)
    BY <1>8
  <2>2. "bot" \in Process /\ {"import", "create"} \subseteq Flow
    BY DEF Process, Flow
  <2>3. /\ UNCHANGED <<entries, state, source, topics, crashes>> /\ proc["bot"].pc = "idle"
        /\ sent' = [sent EXCEPT !.updates = @ + 1]
    BY <2>1 DEF Message, Update
  <2>4. asked' \in [create : SUBSET Key, import : SUBSET Key]
    BY <2>1 DEF Message
  <2>5. queued' \in [project : Project, at : Key] \cup {Nothing}
    <3>1. \/ queued' = queued
          \/ Find(entries, key) # Nothing /\ queued' = [project |-> Find(entries, key), at |-> key]
      BY <2>1 DEF Message
    <3> QED
      BY <2>1, <3>1, FindFinds
  <2>6. \/ UNCHANGED <<proc, overlapped>>
        \/ text.name \in Project /\ Begin("bot", "import", "check", text.name, key)
        \/ text.name \in Project /\ Begin("bot", "create", "check", text.name, key)
    BY <2>1, StateNames DEF Message, Said
  <2>7. sent' \in [updates : Nat, commands : Nat]
    BY <2>3
  <2> QED
    BY <2>1, <2>2, <2>3, <2>4, <2>5, <2>6, <2>7
<1> QED
  BY <1>2, <1>4, <1>6, <1>7, <1>8 DEF Human

\* The human's steps.
LEMMA HumanKeeps ==
  ASSUME IInv, Human
  PROVE  ProcKept
<1>1. /\ UNCHANGED <<entries, state, source, topics, crashes>>
      /\ sent' \in [updates : Nat, commands : Nat]
      /\ asked' \in [create : SUBSET Key, import : SUBSET Key]
      /\ queued' \in [project : Project, at : Key] \cup {Nothing}
  BY HumanGives
<1>2. CASE UNCHANGED <<proc, overlapped>>
  <2>1. Handlers'
    BY <1>1, <1>2, TopicsStay DEF IInv, Handlers, HandlerOK, Current, Registered
  <2>2. Alone' /\ overlapped' \in BOOLEAN
    BY <1>1, <1>2 DEF IInv, Alone, Registered, DataOK
  <2> QED
    BY <1>1, <2>1, <2>2, TopicsStay DEF IInv, DataOK, ProcKept
<1>3. CASE ~ UNCHANGED <<proc, overlapped>>
  <2>1. Handlers' /\ Alone' /\ overlapped' \in BOOLEAN
    BY <1>1, <1>3, HumanGives, BeginKeeps
  <2> QED
    BY <1>1, <2>1, TopicsStay DEF IInv, DataOK, ProcKept
<1> QED
  BY <1>2, <1>3

-----------------------------------------------------------------------------
(* Projects without a state.yaml *)

\* The only way to become one is to be left in the middle of create_project.
LEMMA OrphansFrom ==
  ASSUME IInv, NEW b \in Process, \E h : proc' = [proc EXCEPT ![b] = h],
         \A q \in Project : state'[q] = Nothing => state[q] = Nothing,
         \A q \in Project : Registered(q)' =>
           \/ Registered(q) \/ Listed(proc[b].buf, q)
           \/ proc'[b].pc = "init" /\ proc'[b].project = q,
         \A q \in Project : Listed(proc'[b].buf, q) =>
           Registered(q) \/ Listed(proc[b].buf, q)
  PROVE  \A q \in Orphans' :
           \/ q \in Orphans
           \/ proc[b].pc = "init" /\ q = proc[b].project /\ state'[q] = Nothing
<1> SUFFICES ASSUME NEW q \in Orphans',
                    ~ (proc[b].pc = "init" /\ q = proc[b].project /\ state'[q] = Nothing)
             PROVE  q \in Orphans
  OBVIOUS
<1>1. /\ q \in Project /\ state'[q] = Nothing /\ state[q] = Nothing
      /\ \A c \in Process : ~ (proc'[c].pc = "init" /\ proc'[c].project = q)
      /\ Registered(q)' \/ \E c \in Process : Listed(proc'[c].buf, q)
  BY DEF Orphans, Registering
<1>2. \A c \in Process \ {b} : proc'[c] = proc[c]
  BY DEF IInv, Handlers
<1>3. ~ Registering(q)
  BY <1>1, <1>2 DEF Registering
<1>4. Registered(q) \/ \E c \in Process : Listed(proc[c].buf, q)
  <2>1. CASE Registered(q)'
    BY <1>1, <2>1
  <2>2. ASSUME NEW c \in Process, Listed(proc'[c].buf, q)
        PROVE  Registered(q) \/ \E d \in Process : Listed(proc[d].buf, q)
    <3>1. CASE c = b
      BY <1>1, <2>2, <3>1
    <3>2. CASE c # b
      BY <1>2, <2>2, <3>2
    <3> QED
      BY <3>1, <3>2
  <2> QED
    BY <1>1, <2>1, <2>2
<1> QED
  BY <1>1, <1>3, <1>4 DEF Orphans

\* There are finitely many.
LEMMA OrphansFinite ==
  /\ IsFiniteSet(Orphans) /\ Cardinality(Orphans) \in Nat
  /\ IsFiniteSet(Orphans') /\ Cardinality(Orphans') \in Nat
<1>1. Orphans \in SUBSET Project /\ Orphans' \in SUBSET Project /\ IsFiniteSet(Project)
  BY OnboardingAssumption DEF Orphans
<1>2. IsFiniteSet(Orphans) /\ IsFiniteSet(Orphans')
  BY <1>1, FS_Subset
<1> QED
  BY <1>2, FS_CardinalityType

\* Nothing is listed in no entries.
LEMMA NothingListed == \A q : ~ Listed(<<>>, q)
BY DEF Listed

\* A step that ends or begins no create_project, or that writes state.yaml.
LEMMA StepOrphans ==
  ASSUME IInv, NEW b \in Process, Step(b)
  PROVE  Orphans' \subseteq Orphans
<1>1. proc[b].pc \in Pc \ {"idle"}
  BY AtStep, StateNames DEF Step, Check, Clone, ReadRegistry, WriteRegistry, WriteFirstState, PassGate,
                CreateTopic, QueueFirstTurn, Pc, IInv, Handlers, Handler
<1>2. \A q \in Project : state[q] # Nothing => state'[q] # Nothing
  <2>1. CASE WriteFirstState(b) \/ PassGate(b)
    BY <2>1, StateWritten, StateNames DEF IInv, DataOK
  <2>2. CASE ~ (WriteFirstState(b) \/ PassGate(b))
    BY <2>2 DEF Step, Check, Clone, ReadRegistry, WriteRegistry, CreateTopic, QueueFirstTurn
  <2> QED
    BY <2>1, <2>2
<1>3. proc[b].pc = "init" => state'[proc[b].project] # Nothing
  <2>1. proc[b].pc = "init" => WriteFirstState(b)
    BY DEF Step, Check, Clone, ReadRegistry, WriteRegistry, PassGate, CreateTopic, QueueFirstTurn
  <2> QED
    BY <2>1, StateWritten, StateNames DEF IInv, DataOK
<1>4. /\ \E h : proc' = [proc EXCEPT ![b] = h]
      /\ proc'[b].buf \in {<<>>, proc[b].buf, entries}
      /\ \A q \in Project : Registered(q)' =>
           \/ Registered(q) \/ Listed(proc[b].buf, q)
           \/ proc'[b].pc = "init" /\ proc'[b].project = q
  <2>1. ASSUME NEW k \in Pc, Goto(b, k)
        PROVE  /\ \E h : proc' = [proc EXCEPT ![b] = h]
               /\ proc'[b].buf \in {<<>>, proc[b].buf, entries}
    <3>1. \E h : proc' = [proc EXCEPT ![b] = h]
      BY <1>1, <2>1, GotoGives
    <3>2. proc'[b].buf \in {<<>>, proc[b].buf}
      BY <1>1, <2>1, GotoGives DEF Idle
    <3> QED
      BY <3>1, <3>2
  <2>2. CASE Check(b)
    <3>1. \E k \in Pc : Goto(b, k)
      BY <2>2 DEF Check, Pc
    <3>2. entries' = entries
      BY <2>2 DEF Check
    <3> QED
      BY <2>1, <3>1, <3>2 DEF Registered
  <2>3. CASE Clone(b)
    <3>1. \E k \in Pc : Goto(b, k)
      BY <2>3 DEF Clone, Pc
    <3>2. entries' = entries
      BY <2>3 DEF Clone
    <3> QED
      BY <2>1, <3>1, <3>2 DEF Registered
  <2>4. CASE ReadRegistry(b)
    <3>1. entries' = entries
      BY <2>4 DEF ReadRegistry
    <3>2. CASE Goto(b, "idle")
      <4>1. "idle" \in Pc
        BY DEF Pc
      <4> QED
        BY <2>1, <3>1, <3>2, <4>1 DEF Registered
    <3>3. ASSUME NEW k, proc' = [proc EXCEPT ![b].pc = k, ![b].buf = entries]
          PROVE  /\ \E h : proc' = [proc EXCEPT ![b] = h]
                 /\ proc'[b].buf = entries
      <4>1. proc \in [Process -> Handler] /\ proc[b] \in Handler
        BY DEF IInv, Handlers
      <4>2. proc'[b] = [proc[b] EXCEPT !.pc = k, !.buf = entries]
        BY <3>3, <4>1
      <4>3. proc'[b].buf = entries
        BY <4>1, <4>2 DEF Handler
      <4>4. proc' = [proc EXCEPT ![b] = [proc[b] EXCEPT !.pc = k, !.buf = entries]]
        BY <3>3
      <4> QED
        BY <4>3, <4>4
    <3> QED
      BY <2>4, <3>1, <3>2, <3>3 DEF ReadRegistry, Registered
  <2>5. CASE WriteRegistry(b)
    <3> DEFINE k == Then(proc[b].flow, proc[b].pc)
    <3>1. /\ Goto(b, k) /\ k \in Pc
          /\ k = "init" <=> proc[b].pc = "register_write"
          /\ \A q : Listed(entries', q) <=>
                      \/ Listed(proc[b].buf, q)
                      \/ proc[b].pc = "register_write" /\ q = proc[b].project
      BY <2>5, WriteGives DEF Pc
    <3> HIDE DEF k
    <3>2. proc'[b].pc = k /\ (k # "idle" => proc'[b].project = proc[b].project)
      BY <1>1, <3>1, GotoGives
    <3>3. \A q \in Project : Registered(q)' =>
            Listed(proc[b].buf, q) \/ (proc'[b].pc = "init" /\ proc'[b].project = q)
      BY <3>1, <3>2 DEF Registered
    <3> QED
      BY <2>1, <3>1, <3>3
  <2>6. CASE WriteFirstState(b) \/ PassGate(b)
    <3>1. entries' = entries
      BY <2>6, StateWritten
    <3> QED
      BY <2>6, <3>1, StateWriterGoes DEF Registered
  <2>7. CASE CreateTopic(b)
    <3>1. entries' = entries
      BY <2>7 DEF CreateTopic
    <3>2. CASE Goto(b, IF proc[b].flow = "adopt" THEN "gate" ELSE "idle")
      <4>1. (IF proc[b].flow = "adopt" THEN "gate" ELSE "idle") \in Pc
        BY DEF Pc
      <4> QED
        BY <2>1, <3>1, <3>2, <4>1 DEF Registered
    <3>3. ASSUME NEW key, proc' = [proc EXCEPT ![b].pc = "link", ![b].at = key]
          PROVE  /\ \E h : proc' = [proc EXCEPT ![b] = h]
                 /\ proc'[b].buf = proc[b].buf
      <4>1. proc \in [Process -> Handler] /\ proc[b] \in Handler
        BY DEF IInv, Handlers
      <4>2. proc'[b] = [proc[b] EXCEPT !.pc = "link", !.at = key]
        BY <3>3, <4>1
      <4>3. proc'[b].buf = proc[b].buf
        BY <4>1, <4>2 DEF Handler
      <4>4. proc' = [proc EXCEPT ![b] = [proc[b] EXCEPT !.pc = "link", !.at = key]]
        BY <3>3
      <4> QED
        BY <4>3, <4>4
    <3> QED
      BY <2>7, <3>1, <3>2, <3>3 DEF CreateTopic, Registered
  <2>8. CASE QueueFirstTurn(b)
    <3>1. entries' = entries /\ Goto(b, "idle") /\ "idle" \in Pc
      BY <2>8 DEF QueueFirstTurn, Pc
    <3> QED
      BY <2>1, <3>1 DEF Registered
  <2> QED
    BY <2>2, <2>3, <2>4, <2>5, <2>6, <2>7, <2>8 DEF Step
<1>5. \A q \in Project : Listed(proc'[b].buf, q) => Registered(q) \/ Listed(proc[b].buf, q)
  BY <1>4, NothingListed DEF Registered
<1>6. \A q \in Orphans' :
        \/ q \in Orphans
        \/ proc[b].pc = "init" /\ q = proc[b].project /\ state'[q] = Nothing
  <2>1. \A q \in Project : state'[q] = Nothing => state[q] = Nothing
    BY <1>2
  <2> QED
    BY <1>4, <1>5, <2>1, OrphansFrom
<1> QED
  BY <1>3, <1>6

\* Who begins has registered nothing yet.
LEMMA HumanOrphans ==
  ASSUME IInv, Human
  PROVE  Orphans' \subseteq Orphans
<1>1. UNCHANGED <<entries, state>>
  BY HumanGives
<1>2. CASE UNCHANGED proc
  BY <1>1, <1>2 DEF Orphans, Registering, Registered
<1>3. ASSUME NEW b \in Process, NEW flow, NEW first, NEW p, NEW key,
             Begin(b, flow, first, p, key), proc[b].pc = "idle"
      PROVE  Orphans' \subseteq Orphans
  <2>1. proc' = [proc EXCEPT ![b] = [Idle EXCEPT !.pc = first, !.flow = flow,
                                       !.project = p, !.at = key]]
    BY <1>3 DEF Begin
  <2>2. \E h : proc' = [proc EXCEPT ![b] = h]
    BY <2>1
  <2>3. proc'[b].buf = <<>>
    BY <2>1 DEF IInv, Handlers, Idle
  <2>4. \A q \in Orphans' : q \in Orphans \/ proc[b].pc = "init"
    BY <1>1, <2>2, <2>3, NothingListed, OrphansFrom DEF Registered
  <2> QED
    BY <1>3, <2>4
<1> QED
  BY <1>2, <1>3, HumanGives

\* The bound: one more for a killed process.
LEMMA OrphansKeep ==
  ASSUME IInv, Next
  PROVE  Cardinality(Orphans') <= crashes'
<1>1. Cardinality(Orphans) <= crashes /\ crashes \in Nat
  BY DEF IInv, DataOK
<1>2. ASSUME Orphans' \subseteq Orphans, crashes' = crashes
      PROVE  Cardinality(Orphans') <= crashes'
  <2>1. Cardinality(Orphans') <= Cardinality(Orphans)
    BY <1>2, OrphansFinite, FS_Subset
  <2> QED
    BY <1>1, <1>2, <2>1, OrphansFinite
<1>3. ASSUME NEW b \in Process, (ReplyRaises /\ b = "bot") \/ Crash(b)
      PROVE  \A q \in Orphans' : q \in Orphans \/ (proc[b].pc = "init" /\ q = proc[b].project)
  <2>1. /\ proc[b].pc # "idle" /\ Goto(b, "idle") /\ UNCHANGED <<entries, state>>
        /\ "idle" \in Pc
    BY <1>3, EndsKeep DEF Pc
  <2>2. /\ \E h : proc' = [proc EXCEPT ![b] = h]
        /\ proc'[b].buf = <<>>
    BY <2>1, GotoGives DEF Idle
  <2> QED
    BY <2>1, <2>2, NothingListed, OrphansFrom DEF Registered
<1>4. CASE Human
  BY <1>2, <1>4, HumanGives, HumanOrphans
<1>5. ASSUME NEW b \in Process, Step(b)
      PROVE  Cardinality(Orphans') <= crashes'
  <2>1. crashes' = crashes
    BY <1>5, StateWritten, WriteGives DEF Step, Check, Clone, ReadRegistry, CreateTopic, QueueFirstTurn
  <2> QED
    BY <1>2, <1>5, <2>1, StepOrphans
<1>6. CASE ReplyRaises
  <2>1. "bot" \in Process /\ proc["bot"].pc # "init" /\ crashes' = crashes
    BY <1>6 DEF ReplyRaises, Process
  <2> QED
    BY <1>2, <1>3, <1>6, <2>1
<1>7. ASSUME NEW b \in Process, Crash(b)
      PROVE  Cardinality(Orphans') <= crashes'
  <2> DEFINE more == Orphans \cup {proc[b].project}
  <2>1. Orphans' \subseteq more
    BY <1>3, <1>7
  <2>2. IsFiniteSet(more) /\ Cardinality(more) <= Cardinality(Orphans) + 1
    <3>1. IsFiniteSet(more)
      BY OrphansFinite, FS_AddElement
    <3>2. Cardinality(more) = IF proc[b].project \in Orphans THEN Cardinality(Orphans)
                              ELSE Cardinality(Orphans) + 1
      BY OrphansFinite, FS_AddElement
    <3> QED
      BY <3>1, <3>2, OrphansFinite
  <2>3. Cardinality(more) \in Nat
    BY <2>2, FS_CardinalityType
  <2> HIDE DEF more
  <2>4. Cardinality(Orphans') <= Cardinality(more)
    BY <2>1, <2>2, FS_Subset
  <2>5. crashes' = crashes + 1
    BY <1>7 DEF Crash
  <2> QED
    BY <1>1, <2>2, <2>3, <2>4, <2>5, OrphansFinite
<1> QED
  BY <1>4, <1>5, <1>6, <1>7 DEF Next

-----------------------------------------------------------------------------
(* Theorems *)

\* An empty workspace.
LEMMA InitIInv == Init => IInv
<1> SUFFICES ASSUME Init PROVE IInv
  OBVIOUS
<1>1. <<>> \in Doc /\ Map(<<>>) /\ <<>> \in Seq(Project)
  BY DEF Doc, Map
<1>2. DataOK
  BY <1>1 DEF Init, DataOK
<1>3. Idle \in Handler /\ HandlerOK(Idle)
  <2>1. Idle \in Handler
    BY <1>1, StateNames DEF Idle, Handler, Pc, Flow
  <2>2. Idle.pc = "idle" /\ Idle.buf = <<>> /\ Idle.flow = "create"
    BY DEF Idle
  <2> QED
    BY <1>1, <2>1, <2>2 DEF HandlerOK, Current
<1>4. Handlers
  BY <1>3 DEF Init, Handlers
<1>5. Alone
  <2>1. \A b \in Process : proc[b].pc = "idle"
    BY DEF Init, Idle
  <2> QED
    BY <2>1 DEF Init, Alone
<1>6. Orphans = {}
  BY NothingListed DEF Init, Orphans, Registered, Idle
<1>7. Cardinality(Orphans) = 0
  BY <1>6, FS_EmptySet
<1> QED
  BY <1>2, <1>4, <1>5, <1>7 DEF IInv, Init

\* Every step keeps the invariant.
LEMMA StepKeeps == IInv /\ [Next]_vars => IInv'
<1> SUFFICES ASSUME IInv, [Next]_vars PROVE IInv'
  OBVIOUS
<1>1. CASE Next
  <2>1. ASSUME NEW b \in Process, Step(b) PROVE ProcKept
    BY <2>1, BeforeRegistering, ReadKeeps, WriteKeeps, StateKeeps, TopicKeeps, EndsKeep DEF Step
  <2>2. ProcKept
    <3>1. "bot" \in Process
      BY DEF Process
    <3> QED
      BY <1>1, <2>1, <3>1, HumanKeeps, EndsKeep DEF Next
  <2> QED
    BY <1>1, <2>2, OrphansKeep DEF IInv, ProcKept
<1>2. CASE UNCHANGED vars
  <2> USE <1>2 DEF vars
  <2>1. DataOK'
    BY TopicsStay DEF IInv, DataOK
  <2>2. Handlers'
    BY TopicsStay DEF IInv, Handlers, HandlerOK, Current, Registered
  <2>3. Alone'
    BY DEF IInv, Alone, Registered
  <2>4. Orphans' = Orphans
    BY DEF Orphans, Registering, Registered
  <2> QED
    BY <2>1, <2>2, <2>3, <2>4 DEF IInv
<1> QED
  BY <1>1, <1>2

\* The inductive invariant: a lone process's copy of projects.yaml is current
\* and its project new; the projects without a state.yaml are counted with
\* those only a copy still holds.
THEOREM Invariance == Spec => []IInv
  BY InitIInv, StepKeeps, PTL DEF Spec

\* Every variable keeps its type, and no name is in projects.yaml twice,
\* whichever write of it is lost.
THEOREM TypeCorrect == Spec => []TypeOK
<1>1. IInv => TypeOK
  BY DEF IInv, DataOK, Handlers, HandlerOK, Handler, TypeOK, Doc, Entry
<1> QED
  BY <1>1, Invariance, PTL

\* /create, /import and `project new` leave no registered project without its
\* state.yaml but for a killed process each, however their writes interleave.
THEOREM StateExistsHolds == Spec => []StateExists
<1>1. IInv => StateExists
  <2> SUFFICES ASSUME IInv PROVE StateExists
    OBVIOUS
  <2> DEFINE bare == {p \in Project : Registered(p) /\ state[p] = Nothing /\ ~ Registering(p)}
  <2>1. bare \in SUBSET Orphans
    BY DEF Orphans
  <2>2. Cardinality(bare) <= Cardinality(Orphans) /\ IsFiniteSet(bare)
    BY <2>1, OrphansFinite, FS_Subset
  <2>3. Cardinality(bare) \in Nat
    BY <2>2, FS_CardinalityType
  <2>4. Cardinality(Orphans) <= crashes /\ crashes \in Nat
    BY DEF IInv, DataOK
  <2>5. Cardinality(bare) <= crashes
    BY <2>2, <2>3, <2>4, OrphansFinite
  <2> QED
    BY <2>5 DEF StateExists
<1> QED
  BY <1>1, Invariance, PTL

\* What is onboarded as an import was cloned to the end (handle_import).
THEOREM ImportHasSourceHolds == Spec => []ImportHasSource
<1>1. IInv => ImportHasSource
  BY DEF IInv, Handlers, HandlerOK, ImportHasSource
<1> QED
  BY <1>1, Invariance, PTL

\* No registration is lost while the bot or a command works alone.
THEOREM NothingLostHolds == Spec => NothingLost
<1>1. ASSUME IInv, [Next]_vars
      PROVE  ~ overlapped' => \A p \in Project : Registered(p) => Registered(p)'
  <2> SUFFICES ASSUME ~ overlapped', NEW p \in Project, Registered(p)
               PROVE  Registered(p)'
    OBVIOUS
  <2>1. CASE entries' = entries
    BY <2>1 DEF Registered
  <2>2. ASSUME NEW b \in Process, WriteRegistry(b) PROVE Registered(p)'
    <3>1. /\ proc[b].pc \in {"register_write", "link_write"} /\ ~ overlapped
          /\ \A q : Listed(proc[b].buf, q) => Listed(entries', q)
      BY <1>1, <2>2, WriteGives
    <3>2. proc[b].buf = entries
      BY <1>1, <3>1, AtStep DEF HandlerOK, Current
    <3> QED
      BY <3>1, <3>2 DEF Registered
  <2>3. entries' = entries \/ \E b \in Process : WriteRegistry(b)
    <3>1. CASE UNCHANGED vars
      BY <3>1 DEF vars
    <3>2. CASE Human
      BY <1>1, <3>2, HumanGives
    <3>3. CASE ReplyRaises \/ \E b \in Process : Crash(b)
      BY <3>3 DEF ReplyRaises, Crash
    <3>4. ASSUME NEW b \in Process, Step(b)
          PROVE  entries' = entries \/ WriteRegistry(b)
      BY <1>1, <3>4, StateWritten DEF Step, Check, Clone, ReadRegistry, CreateTopic, QueueFirstTurn
    <3> QED
      BY <1>1, <3>1, <3>2, <3>3, <3>4 DEF Next
  <2> QED
    BY <2>1, <2>2, <2>3
<1> QED
  BY <1>1, Invariance, PTL DEF Spec, NothingLost

\* No project under way is put back to its start while the bot or a command
\* works alone, after whatever was killed.
THEOREM NoRestartHolds == Spec => NoRestart
<1>1. ASSUME IInv, [Next]_vars
      PROVE  ~ overlapped' => \A p \in Project :
               state[p] \notin {Nothing, Initial} => state'[p] # Initial
  <2> SUFFICES ASSUME ~ overlapped', NEW p \in Project, state[p] \notin {Nothing, Initial}
               PROVE  state'[p] # Initial
    OBVIOUS
  <2>1. CASE state' = state
    BY <2>1
  <2>2. ASSUME NEW b \in Process, WriteFirstState(b) \/ PassGate(b)
        PROVE  state'[p] # Initial
    <3>1. /\ proc[b].pc \in {"init", "gate"} /\ ~ overlapped
          /\ \A q \in Project : q # proc[b].project => state'[q] = state[q]
      BY <1>1, <2>2, StateWritten, StateNames DEF IInv, DataOK
    <3>2. state[proc[b].project] \in {Nothing, Initial}
      BY <1>1, <3>1, AtStep DEF HandlerOK, Current
    <3> QED
      BY <3>1, <3>2
  <2>3. state' = state \/ \E b \in Process : WriteFirstState(b) \/ PassGate(b)
    <3>1. CASE UNCHANGED vars
      BY <3>1 DEF vars
    <3>2. CASE Human
      BY <1>1, <3>2, HumanGives
    <3>3. CASE ReplyRaises \/ \E b \in Process : Crash(b)
      BY <3>3 DEF ReplyRaises, Crash
    <3>4. ASSUME NEW b \in Process, Step(b)
          PROVE  state' = state \/ WriteFirstState(b) \/ PassGate(b)
      BY <3>4 DEF Step, Check, Clone, ReadRegistry, WriteRegistry, CreateTopic, QueueFirstTurn
    <3> QED
      BY <1>1, <3>1, <3>2, <3>3, <3>4 DEF Next
  <2> QED
    BY <2>1, <2>2, <2>3
<1> QED
  BY <1>1, Invariance, PTL DEF Spec, NoRestart
=============================================================================
