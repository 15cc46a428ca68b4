------------------------------ MODULE Onboarding ------------------------------
(***************************************************************************)
(* How projects come to exist and chats come to drive them: /create,       *)
(* /import and /link of the Telegram bot, `agentic project new` of the     *)
(* command line, and config/projects.yaml, which the bot and a command in  *)
(* a process of its own both read, change and write back without a lock.   *)
(*                                                                         *)
(* The bot handles one update at a time; each process is a program counter *)
(* and the locals of the handler or command it is in.  A chat or topic is  *)
(* a number: the chats the human starts with, then the topics the bot      *)
(* creates.  Turns, and what becomes of a queued job, are in TelegramBot.  *)
(***************************************************************************)
EXTENDS Workflow, Sequences, FiniteSets

CONSTANTS
  Graph,         \* the loaded workflow definition
  Initial,       \* its initial state
  Start, Import, \* START_PROJECT and IMPORT_PROJECT
  Project,       \* project names
  Chats,         \* number of chats the human writes in
  MaxUpdates,    \* bound: messages and commands sent to the bot
  MaxCommands,   \* bound: `project new` commands
  MaxCrashes     \* bound: killed processes

ASSUME OnboardingAssumption ==
  /\ Graph \in [DOMAIN Graph -> StateSpec]
  /\ DOMAIN Graph \subseteq Name
  /\ Validates(Graph, Initial)
  /\ {Start, Import} \subseteq ApprovalType
  /\ Nothing \notin Project
  /\ IsFiniteSet(Project)
  /\ {Chats, MaxUpdates, MaxCommands, MaxCrashes} \subseteq Nat

VARIABLES
  entries,     \* projects.yaml, in file order: [name, at]
  state,       \* per project, workflow_state of its state.yaml
  source,      \* per project, its source tree on the host
  asked,       \* pending_create and pending_import: the chats asked in
  topics,      \* the forum topics created, by the project each is for
  queued,      \* the latest TurnJob put in the inbox: [project, at]
  proc,        \* per process, the handler or command it is in
  sent,        \* updates and commands so far
  crashes,     \* history: killed processes
  overlapped   \* history: the bot and a command were at work together

vars == <<entries, state, source, asked, topics, queued, proc, sent, crashes, overlapped>>

Process == {"bot", "cli"}
Flow == {"create", "import", "link", "new", "adopt"}

Key == 1 .. (Chats + Len(topics))
TopicKey(i) == Chats + i

Idle == [pc |-> "idle", flow |-> "create", project |-> Nothing, at |-> Nothing,
         buf |-> <<>>, next |-> Initial]

Init ==
  /\ entries = <<>>
  /\ state = [p \in Project |-> Nothing]
  /\ source = [p \in Project |-> "absent"]
  /\ asked = [create |-> {}, import |-> {}]
  /\ topics = <<>>
  /\ queued = Nothing
  /\ proc = [b \in Process |-> Idle]
  /\ sent = [updates |-> 0, commands |-> 0]
  /\ crashes = 0
  /\ overlapped = FALSE

-----------------------------------------------------------------------------
(* ProjectRegistry *)

Listed(doc, p) == \E i \in DOMAIN doc : doc[i].name = p

Registered(p) == Listed(entries, p)

\* find_by_telegram(): the first entry linked to this chat or topic.
Find(doc, key) ==
  LET linked == {i \in DOMAIN doc : doc[i].at = key}
  IN  IF linked = {} THEN Nothing
      ELSE doc[CHOOSE i \in linked : \A j \in linked : i <= j].name

\* BROKEN: takes the chat away from its old project by dropping that entry.
LinkedAlone(doc, p, key) ==
  SelectSeq([i \in DOMAIN doc |-> IF doc[i].name = p THEN [doc[i] EXCEPT !.at = key] ELSE doc[i]],
            LAMBDA e : e.name = p \/ e.at # key)

\* doc["projects"][p] = entry: a name that is there gets a new entry in its place.
Entered(doc, p) ==
  LET entry == [name |-> p, at |-> Nothing]
  IN  IF Listed(doc, p) THEN [i \in DOMAIN doc |-> IF doc[i].name = p THEN entry ELSE doc[i]]
      ELSE Append(doc, entry)

\* link_telegram()
Linked(doc, p, key) ==
  [i \in DOMAIN doc |-> IF doc[i].name = p THEN [doc[i] EXCEPT !.at = key] ELSE doc[i]]

-----------------------------------------------------------------------------
(* What the human does *)

Begin(b, flow, first, p, key) ==
  /\ proc' = [proc EXCEPT ![b] = [Idle EXCEPT !.pc = first, !.flow = flow,
                                    !.project = p, !.at = key]]
  /\ overlapped' = (overlapped \/ \E other \in Process \ {b} : proc[other].pc # "idle")

\* An update the bot handles.
Update ==
  /\ proc["bot"].pc = "idle"
  /\ sent.updates < MaxUpdates
  /\ sent' = [sent EXCEPT !.updates = @ + 1]

\* /create, or /import without a URL: the next message is the answer.
Ask(key, what) ==
  /\ Update
  /\ asked' = [asked EXCEPT ![what] = @ \cup {key}]
  /\ UNCHANGED <<entries, state, source, topics, queued, proc, crashes, overlapped>>

\* /import with a URL
ImportCommand(key, p) ==
  /\ Update
  /\ Begin("bot", "import", "check", p, key)
  /\ UNCHANGED <<entries, state, source, asked, topics, queued, crashes>>

LinkCommand(key, p) ==
  /\ Update
  /\ Begin("bot", "link", "link", p, key)
  /\ UNCHANGED <<entries, state, source, asked, topics, queued, crashes>>

\* handle_message: a name, a repository URL that ends in one, or any other
\* text.  The answer to /create is looked for before the one to /import, and
\* a project is imported unasked only where no project is linked.
Message(key, text) ==
  LET p == text.name
      imports == /\ text.url
                 /\ Begin("bot", "import", "check", p, key)
                 /\ UNCHANGED queued
      ignored == ~ text.url /\ UNCHANGED <<proc, overlapped, queued>>
  IN  /\ Update
      /\ UNCHANGED <<entries, state, source, topics, crashes>>
      /\ \/ /\ key \in asked.create
            /\ asked' = [asked EXCEPT !.create = @ \ {key}]
            /\ UNCHANGED queued
            /\ IF text.url \/ p = Nothing
               THEN UNCHANGED <<proc, overlapped>>
               ELSE Begin("bot", "create", "check", p, key)
         \/ /\ key \in asked.import \ asked.create
            /\ asked' = [asked EXCEPT !.import = @ \ {key}]
            /\ imports \/ ignored
         \/ /\ key \notin asked.create \cup asked.import
            /\ Find(entries, key) # Nothing
            /\ queued' = [project |-> Find(entries, key), at |-> key]
            /\ UNCHANGED <<asked, proc, overlapped>>
         \/ /\ key \notin asked.create \cup asked.import
            /\ Find(entries, key) = Nothing
            /\ UNCHANGED asked
            /\ imports \/ ignored

\* agentic project new, with or without --import
NewCommand(p, flow) ==
  /\ proc["cli"].pc = "idle"
  /\ sent.commands < MaxCommands
  /\ sent' = [sent EXCEPT !.commands = @ + 1]
  /\ Begin("cli", flow, "register", p, Nothing)
  /\ UNCHANGED <<entries, state, source, asked, topics, queued, crashes>>

-----------------------------------------------------------------------------
(* The steps of a handler or command *)

\* BROKEN: forgets write_state.
ThenStateless(flow, pc) ==
  CASE pc = "register_write" -> IF flow \in {"create", "import"} THEN "gate" ELSE "topic"
    [] pc = "gate" -> IF flow \in {"create", "import"} THEN "topic" ELSE "idle"
    [] OTHER -> "idle"

\* The order of the steps.  The bot passes the leading gate before it creates
\* the topic, the command after; a plain `project new` leaves it shut.
Then(flow, pc) ==
  CASE pc = "register_write" -> "init"
    [] pc = "init" -> IF flow \in {"create", "import"} THEN "gate" ELSE "topic"
    [] pc = "gate" -> IF flow \in {"create", "import"} THEN "topic" ELSE "idle"
    [] pc = "link_write" -> CASE flow = "import" -> "job"
                              [] flow = "adopt"  -> "gate"
                              [] OTHER           -> "idle"

Goto(b, pc) == proc' = [proc EXCEPT ![b] = IF pc = "idle" THEN Idle ELSE [@ EXCEPT !.pc = pc]]

\* registry.get(), before anything is done
Check(b) ==
  /\ proc[b].pc = "check"
  /\ Goto(b, IF Registered(proc[b].project) THEN "idle"
             ELSE IF proc[b].flow = "import" THEN "clone" ELSE "register")
  /\ UNCHANGED <<entries, state, source, asked, topics, queued, sent, crashes, overlapped>>

\* BROKEN: makes do with a directory that is there.
CloneAnyway(b) ==
  /\ proc[b].pc = "clone"
  /\ source' = [source EXCEPT ![proc[b].project] = IF @ = "absent" THEN "cloned" ELSE @]
  /\ Goto(b, "register")
  /\ UNCHANGED <<entries, state, asked, topics, queued, sent, crashes, overlapped>>

\* clone() refuses a directory that is there, whatever is in it.
Clone(b) ==
  /\ proc[b].pc = "clone"
  /\ \/ /\ source[proc[b].project] = "absent"
        /\ source' = [source EXCEPT ![proc[b].project] = "cloned"]
        /\ Goto(b, "register")
     \/ UNCHANGED source /\ Goto(b, "idle")
  /\ UNCHANGED <<entries, state, asked, topics, queued, sent, crashes, overlapped>>

\* BROKEN: takes a name that is there already.
ReadUnchecked(b) ==
  /\ proc[b].pc \in {"register", "link"}
  /\ proc' = [proc EXCEPT ![b].pc = IF @ = "link" THEN "link_write" ELSE "register_write",
                          ![b].buf = entries]
  /\ UNCHANGED <<entries, state, source, asked, topics, queued, sent, crashes, overlapped>>

\* The reading half of register() and link_telegram(), which raise when the
\* name is there, or is not.
ReadRegistry(b) ==
  /\ \/ /\ proc[b].pc = "register"
        /\ ~ Registered(proc[b].project)
        /\ proc' = [proc EXCEPT ![b].pc = "register_write", ![b].buf = entries]
     \/ /\ proc[b].pc = "link"
        /\ Registered(proc[b].project)
        /\ proc' = [proc EXCEPT ![b].pc = "link_write", ![b].buf = entries]
     \/ /\ \/ proc[b].pc = "register" /\ Registered(proc[b].project)
           \/ proc[b].pc = "link" /\ ~ Registered(proc[b].project)
        /\ Goto(b, "idle")
  /\ UNCHANGED <<entries, state, source, asked, topics, queued, sent, crashes, overlapped>>

\* BROKEN: keeps the projects in a list and adds to it as it is by now.
WriteAppended(b) ==
  LET p == proc[b].project
  IN  /\ \/ /\ proc[b].pc = "register_write"
            /\ entries' = Append(entries, [name |-> p, at |-> Nothing])
         \/ /\ proc[b].pc = "link_write"
            /\ entries' = Linked(entries, p, proc[b].at)
      /\ Goto(b, Then(proc[b].flow, proc[b].pc))
      /\ UNCHANGED <<state, source, asked, topics, queued, sent, crashes, overlapped>>

\* The writing half: the whole file as it was read, changed.
WriteRegistry(b) ==
  LET p == proc[b].project
  IN  /\ \/ /\ proc[b].pc = "register_write"
            /\ entries' = Entered(proc[b].buf, p)
         \/ /\ proc[b].pc = "link_write"
            /\ entries' = Linked(proc[b].buf, p, proc[b].at)
      /\ Goto(b, Then(proc[b].flow, proc[b].pc))
      /\ UNCHANGED <<state, source, asked, topics, queued, sent, crashes, overlapped>>

\* create_project() writes the first state.yaml, over any that is there.
WriteFirstState(b) ==
  /\ proc[b].pc = "init"
  /\ state' = [state EXCEPT ![proc[b].project] = Initial]
  /\ Goto(b, Then(proc[b].flow, "init"))
  /\ UNCHANGED <<entries, source, asked, topics, queued, sent, crashes, overlapped>>

\* leading_gate_approval_type()
LeadingType(st) ==
  IF st.approval_type # Nothing THEN st.approval_type
  ELSE IF Start \in Branches(st) THEN Start ELSE Nothing

\* The approval given on the human's behalf: /create picks one for a leading
\* gate and none elsewhere, the imports always give IMPORT_PROJECT.
Given(flow) ==
  IF flow # "create" THEN Import
  ELSE IF Graph[Initial].kind = "gate" THEN LeadingType(Graph[Initial]) ELSE Nothing

\* apply_approval, on state.yaml as it is now: without one, in the initial
\* state.  A refusal ends the handler or command.
PassGate(b) ==
  LET p == proc[b].project
      now == IF state[p] = Nothing THEN Initial ELSE state[p]
      type == Given(proc[b].flow)
      accepted == type # Nothing /\ RequiresApproval(Graph[now])
      next == IF accepted THEN Advance(Graph, now, type) ELSE Nothing
  IN  /\ proc[b].pc = "gate"
      /\ \/ /\ type = Nothing
            /\ Goto(b, "topic")
            /\ UNCHANGED state
         \/ /\ type # Nothing /\ next = Nothing
            /\ Goto(b, "idle")
            /\ UNCHANGED state
         \/ /\ next # Nothing
            /\ state' = [state EXCEPT ![p] = next]
            /\ proc' = [proc EXCEPT ![b] = IF Then(@.flow, "gate") = "idle" THEN Idle
                                           ELSE [@ EXCEPT !.pc = "topic", !.next = next]]
      /\ UNCHANGED <<entries, source, asked, topics, queued, sent, crashes, overlapped>>

\* create_forum_topic, which may fail or, for a command, not be configured: the
\* bot then stops and says so, the command goes on unlinked.
CreateTopic(b) ==
  /\ proc[b].pc = "topic"
  /\ \/ /\ topics' = Append(topics, proc[b].project)
        /\ proc' = [proc EXCEPT ![b].pc = "link", ![b].at = TopicKey(Len(topics) + 1)]
     \/ UNCHANGED topics /\ Goto(b, IF proc[b].flow = "adopt" THEN "gate" ELSE "idle")
  /\ UNCHANGED <<entries, state, source, asked, queued, sent, crashes, overlapped>>

\* An import's first turn needs no message from the human.
QueueFirstTurn(b) ==
  /\ proc[b].pc = "job"
  /\ queued' = IF RunsAgent(Graph[proc[b].next])
               THEN [project |-> proc[b].project, at |-> proc[b].at] ELSE queued
  /\ Goto(b, "idle")
  /\ UNCHANGED <<entries, state, source, asked, topics, sent, crashes, overlapped>>

\* A reply of the bot raises: before the clone, the topic or the first turn.
ReplyRaises ==
  /\ proc["bot"].pc \in {"clone", "topic", "job"}
  /\ Goto("bot", "idle")
  /\ UNCHANGED <<entries, state, source, asked, topics, queued, sent, crashes, overlapped>>

\* A killed process; a clone it was in the middle of leaves its directory.
Crash(b) ==
  /\ proc[b].pc # "idle"
  /\ crashes < MaxCrashes
  /\ crashes' = crashes + 1
  /\ Goto(b, "idle")
  /\ source' = IF proc[b].pc = "clone" /\ source[proc[b].project] = "absent"
               THEN [source EXCEPT ![proc[b].project] = "partial"] ELSE source
  /\ asked' = IF b = "bot" THEN [create |-> {}, import |-> {}] ELSE asked
  /\ UNCHANGED <<entries, state, topics, queued, sent, overlapped>>

\* A message's text: a repository URL, a valid name, or anything else.
Said == [url : BOOLEAN, name : Project] \cup {[url |-> FALSE, name |-> Nothing]}

Human ==
  \/ \E key \in Key, what \in {"create", "import"} : Ask(key, what)
  \/ \E key \in Key, p \in Project : ImportCommand(key, p)
  \/ \E key \in Key, p \in Project : LinkCommand(key, p)
  \/ \E key \in Key, text \in Said : Message(key, text)
  \/ \E p \in Project, flow \in {"new", "adopt"} : NewCommand(p, flow)

Step(b) ==
  \/ Check(b)
  \/ Clone(b)
  \/ ReadRegistry(b)
  \/ WriteRegistry(b)
  \/ WriteFirstState(b)
  \/ PassGate(b)
  \/ CreateTopic(b)
  \/ QueueFirstTurn(b)

Next ==
  \/ Human
  \/ \E b \in Process : Step(b)
  \/ ReplyRaises
  \/ \E b \in Process : Crash(b)

Spec == Init /\ [][Next]_vars

-----------------------------------------------------------------------------
(* Properties *)

Pc == {"idle", "check", "clone", "register", "register_write", "init", "gate", "topic",
       "link", "link_write", "job"}

\* projects.yaml is a map: a name is in it at most once.
Map(doc) == \A i, j \in DOMAIN doc : doc[i].name = doc[j].name => i = j

TypeOK ==
  /\ entries \in Seq([name : Project, at : Key \cup {Nothing}]) /\ Map(entries)
  /\ state \in [Project -> DOMAIN Graph \cup {Nothing}]
  /\ source \in [Project -> {"absent", "partial", "cloned"}]
  /\ asked \in [create : SUBSET Key, import : SUBSET Key]
  /\ topics \in Seq(Project)
  /\ queued \in [project : Project, at : Key] \cup {Nothing}
  /\ \A b \in Process : proc[b].pc \in Pc /\ proc[b].flow \in Flow /\ Map(proc[b].buf)

Registering(p) == \E b \in Process : proc[b].pc = "init" /\ proc[b].project = p

\* Every registered project has its state.yaml, or is about to get it: only a
\* process killed in between can leave one without, however two of them race.
StateExists ==
  Cardinality({p \in Project : Registered(p) /\ state[p] = Nothing /\ ~ Registering(p)})
    <= crashes

\* While no command runs beside the bot, a registered project stays registered.
NothingLost ==
  [][~ overlapped' => \A p \in Project : Registered(p) => Registered(p)']_vars

\* Nor does creating a project put one that is under way back to its start,
\* after whatever failed or killed attempts to create it.
NoRestart ==
  [][~ overlapped' => \A p \in Project :
       state[p] \notin {Nothing, Initial} => state'[p] # Initial]_vars

\* The project of a chat's turns has a source tree if it was imported there:
\* no half-made clone is ever onboarded.
ImportHasSource ==
  \A b \in Process : proc[b].flow = "import" /\ proc[b].pc \in {"gate", "topic", "job"} =>
    source[proc[b].project] = "cloned"
=============================================================================
