----------------------------- MODULE TelegramBot -----------------------------
(***************************************************************************)
(* One linked project driven from entrypoints/telegram: the event loop,    *)
(* which handles updates one at a time and runs the inbox worker between   *)
(* their awaits, and the thread run_turn works in.  A button's approval is *)
(* applied on the event loop, so its steps interleave with a turn's.       *)
(*                                                                         *)
(* inbox, callback_table and updates live in memory; a restart loses them  *)
(* (Telegram may deliver an update again), the messages in the chat stay.  *)
(* A token is a number, drawn once: a collision of two secrets.token_hex   *)
(* draws is left out.  A text message is Nothing, a click is its token.    *)
(***************************************************************************)
EXTENDS TurnEngine, SequencesExt

CONSTANTS
  MaxMessages,  \* bound: text messages
  MaxClicks,    \* bound: clicks
  MaxRestarts   \* bound: restarts of the bot

ASSUME BotAssumption ==
  /\ MaxMessages \in Nat /\ MaxClicks \in Nat /\ MaxRestarts \in Nat
  /\ IsFiniteSet(ApprovalType)
  /\ MaxTurns >= MaxMessages + MaxClicks  \* every job gets its turn

VARIABLES
  updates,   \* fetched from Telegram, not handled yet
  inbox,     \* number of TurnJobs in the queue
  worker,    \* inbox_worker
  handler,   \* the handle_approve_callback under way
  table,     \* callback_table: [token, type, revision]
  minted,    \* tokens drawn so far
  chat,      \* keyboards still shown: the tokens, and the state answered in
  accepted,  \* history: tokens whose approval was validated, and to what
  sent,      \* messages and clicks so far
  restarts   \* history: restarts

botVars == <<updates, inbox, worker, handler, table, minted, chat, accepted, sent, restarts>>
vars == <<engineVars, botVars>>

Token == Nat \ {0}

\* What a button's token stands for.
ButtonPayload == [token : Token, type : ApprovalType, revision : Nat]

IdleWorker == [pc |-> "waiting", tokens |-> {}, state |-> Initial]
IdleHandler == [pc |-> "idle", token |-> 0, payload |-> Nothing]

Init ==
  /\ EngineInit
  /\ updates = <<>>
  /\ inbox = 0
  /\ worker = IdleWorker
  /\ handler = IdleHandler
  /\ table = {}
  /\ minted = 0
  /\ chat = {}
  /\ accepted = <<>>
  /\ sent = [messages |-> 0, clicks |-> 0]
  /\ restarts = 0

\* apply_approval never awaits: nothing else runs on the loop until it returns.
LoopFree == appr.pc \notin {"save", "save_write", "log"}

-----------------------------------------------------------------------------
(* The human *)

SendMessage ==
  /\ sent.messages < MaxMessages
  /\ sent' = [sent EXCEPT !.messages = @ + 1]
  /\ updates' = Append(updates, Nothing)
  /\ UNCHANGED <<engineVars, inbox, worker, handler, table, minted, chat, accepted, restarts>>

Click(token) ==
  /\ sent.clicks < MaxClicks
  /\ \E m \in chat : token \in m.tokens
  /\ sent' = [sent EXCEPT !.clicks = @ + 1]
  /\ updates' = Append(updates, token)
  /\ UNCHANGED <<engineVars, inbox, worker, handler, table, minted, chat, accepted, restarts>>

-----------------------------------------------------------------------------
(* handle_message and handle_approve_callback *)

NextUpdate ==
  /\ LoopFree
  /\ handler.pc = "idle"
  /\ updates # <<>>
  /\ updates' = Tail(updates)

HandleMessage ==
  /\ NextUpdate
  /\ Head(updates) = Nothing
  /\ inbox' = inbox + 1
  /\ UNCHANGED <<engineVars, worker, handler, table, minted, chat, accepted, sent, restarts>>

\* query.answer() is awaited before anything is looked up.
HandleClick ==
  /\ NextUpdate
  /\ Head(updates) # Nothing
  /\ handler' = [IdleHandler EXCEPT !.pc = "answer", !.token = Head(updates)]
  /\ UNCHANGED <<engineVars, inbox, worker, table, minted, chat, accepted, sent, restarts>>

Payload(token) ==
  IF \E p \in table : p.token = token THEN CHOOSE p \in table : p.token = token ELSE Nothing

\* BROKEN: looks the token up and leaves it in the table.
LookUpToken ==
  /\ LoopFree
  /\ handler.pc = "answer"
  /\ handler' = [handler EXCEPT !.pc = "edit", !.payload = Payload(handler.token)]
  /\ UNCHANGED <<engineVars, updates, inbox, worker, table, minted, chat, accepted, sent, restarts>>

PopToken ==
  /\ LoopFree
  /\ handler.pc = "answer"
  /\ handler' = [handler EXCEPT !.pc = "edit", !.payload = Payload(handler.token)]
  /\ table' = table \ {Payload(handler.token)}
  /\ UNCHANGED <<engineVars, updates, inbox, worker, minted, chat, accepted, sent, restarts>>

\* edit_message_reply_markup(None) takes the whole keyboard away.
EditKeyboard ==
  /\ LoopFree
  /\ handler.pc = "edit"
  /\ chat' = {m \in chat : handler.token \notin m.tokens}
  /\ handler' = [handler EXCEPT !.pc = IF handler.payload = Nothing THEN "expired" ELSE "apply"]
  /\ UNCHANGED <<engineVars, updates, inbox, worker, table, minted, accepted, sent, restarts>>

ReplyExpired ==
  /\ LoopFree
  /\ handler.pc = "expired"
  /\ handler' = IdleHandler
  /\ UNCHANGED <<engineVars, updates, inbox, worker, table, minted, chat, accepted, sent, restarts>>

ApplyApproval ==
  /\ handler.pc = "apply"
  /\ BeginApproval(handler.payload.type, handler.payload.revision)
  /\ handler' = [handler EXCEPT !.pc = "applied"]
  /\ accepted' = IF appr'.pc = "rejected" THEN accepted
                 ELSE Append(accepted, [token |-> handler.token, to |-> appr'.next])
  /\ UNCHANGED <<updates, inbox, worker, table, minted, chat, sent, restarts>>

ReplyRejected ==
  /\ handler.pc = "applied"
  /\ appr.pc = "rejected"
  /\ appr' = IdleApproval
  /\ handler' = IdleHandler
  /\ UNCHANGED <<disk, decisions, head, turn, turns, granted, decided, hermes, failures>>
  /\ UNCHANGED <<updates, inbox, worker, table, minted, chat, accepted, sent, restarts>>

\* The reply is awaited, then the first turn of the new state is queued.
ReplyApproved ==
  /\ handler.pc = "applied"
  /\ appr.pc = "granted"
  /\ inbox' = IF RunsAgent(Graph[appr.next]) THEN inbox + 1 ELSE inbox
  /\ appr' = IdleApproval
  /\ handler' = IdleHandler
  /\ UNCHANGED <<disk, decisions, head, turn, turns, granted, decided, hermes, failures>>
  /\ UNCHANGED <<updates, worker, table, minted, chat, accepted, sent, restarts>>

\* A Telegram call raises, or loading the workflow does: the rest of the handler does not happen.
HandlerRaises ==
  /\ LoopFree
  /\ handler.pc \in {"answer", "edit", "expired", "apply", "applied"}
  /\ handler' = IdleHandler
  /\ appr' = IdleApproval
  /\ UNCHANGED <<disk, decisions, head, turn, turns, granted, decided, hermes, failures>>
  /\ UNCHANGED <<updates, inbox, worker, table, minted, chat, accepted, sent, restarts>>

-----------------------------------------------------------------------------
(* inbox_worker and _process_turn_job *)

TakeJob ==
  /\ LoopFree
  /\ worker.pc = "waiting"
  /\ inbox > 0
  /\ inbox' = inbox - 1
  /\ BeginTurn
  /\ worker' = [worker EXCEPT !.pc = "running"]
  /\ UNCHANGED <<updates, handler, table, minted, chat, accepted, sent, restarts>>

\* The runner could not be built: a configuration file does not load.
JobRaises ==
  /\ LoopFree
  /\ worker.pc = "waiting"
  /\ inbox > 0
  /\ inbox' = inbox - 1
  /\ worker' = [worker EXCEPT !.pc = "apologise"]
  /\ UNCHANGED <<engineVars, updates, handler, table, minted, chat, accepted, sent, restarts>>

\* The types offered under an answer: those state.yaml waits for now, which
\* need not be the state the turn ran in.
Offered(data) ==
  LET st == Graph[data.workflow_state]
  IN  IF ~ turn.failed /\ RequiresApproval(st) /\ RunsAgent(st) THEN Valid(st) ELSE {}

\* run_turn came back with an outcome; the tokens are in the table before the
\* answer is sent.
TurnDone ==
  /\ LoopFree
  /\ worker.pc = "running"
  /\ turn.pc = "done"
  /\ LET types == SetToSeq(Offered(disk))
         drawn == {minted + i : i \in DOMAIN types}
     IN  /\ table' = table \cup {[token |-> t, type |-> types[t - minted],
                                  revision |-> disk.artifact_revision] : t \in drawn}
         /\ worker' = [pc |-> "send", tokens |-> drawn, state |-> turn.snap.workflow_state]
  /\ minted' = minted + Cardinality(Offered(disk))
  /\ turn' = IdleTurn
  /\ UNCHANGED <<disk, decisions, head, appr, turns, granted, decided, hermes, failures>>
  /\ UNCHANGED <<updates, inbox, handler, chat, accepted, sent, restarts>>

\* TurnBlocked is reported like an answer; any other exception by the outer
\* handler of inbox_worker.
TurnEndedOtherwise ==
  /\ LoopFree
  /\ worker.pc = "running"
  /\ turn.pc \in {"refused", "raised"}
  /\ worker' = [worker EXCEPT !.pc = IF turn.pc = "refused" THEN "send" ELSE "apologise",
                  !.state = turn.snap.workflow_state]
  /\ turn' = IdleTurn
  /\ UNCHANGED <<disk, decisions, head, appr, turns, granted, decided, hermes, failures>>
  /\ UNCHANGED <<updates, inbox, handler, table, minted, chat, accepted, sent, restarts>>

\* The keyboard comes with the last chunk.
SendAnswer ==
  /\ LoopFree
  /\ worker.pc = "send"
  /\ chat' = IF worker.tokens = {} THEN chat
             ELSE chat \cup {[tokens |-> worker.tokens, state |-> worker.state]}
  /\ worker' = IdleWorker
  /\ UNCHANGED <<engineVars, updates, inbox, handler, table, minted, accepted, sent, restarts>>

SendFails ==
  /\ LoopFree
  /\ worker.pc = "send"
  /\ worker' = [IdleWorker EXCEPT !.pc = "apologise"]
  /\ UNCHANGED <<engineVars, updates, inbox, handler, table, minted, chat, accepted, sent, restarts>>

\* BROKEN: a failure to report the failure ends the task.
ApologiseOrDie ==
  /\ LoopFree
  /\ worker.pc = "apologise"
  /\ worker' \in {IdleWorker, [IdleWorker EXCEPT !.pc = "dead"]}
  /\ UNCHANGED <<engineVars, updates, inbox, handler, table, minted, chat, accepted, sent, restarts>>

\* Sent or not, the worker goes on to the next job.
Apologise ==
  /\ LoopFree
  /\ worker.pc = "apologise"
  /\ worker' = IdleWorker
  /\ UNCHANGED <<engineVars, updates, inbox, handler, table, minted, chat, accepted, sent, restarts>>

-----------------------------------------------------------------------------

BotRestarts ==
  /\ restarts < MaxRestarts
  /\ restarts' = restarts + 1
  /\ updates' \in {updates, <<>>}
  /\ inbox' = 0
  /\ worker' = IdleWorker
  /\ handler' = IdleHandler
  /\ table' = {}
  /\ turn' = IdleTurn
  /\ appr' = IdleApproval
  /\ UNCHANGED <<disk, decisions, head, turns, granted, decided, hermes, failures>>
  /\ UNCHANGED <<minted, chat, accepted, sent>>

Loop ==
  \/ HandleMessage
  \/ HandleClick
  \/ PopToken
  \/ EditKeyboard
  \/ ReplyExpired
  \/ ApplyApproval
  \/ ReplyRejected
  \/ ReplyApproved
  \/ HandlerRaises
  \/ ApprovalStep /\ UNCHANGED botVars

Worker ==
  \/ TakeJob
  \/ JobRaises
  \/ TurnDone
  \/ TurnEndedOtherwise
  \/ SendAnswer
  \/ SendFails
  \/ Apologise

Human == SendMessage \/ \E token \in 1..minted : Click(token)

Next ==
  \/ Loop
  \/ Worker
  \/ Human
  \/ TurnStep /\ UNCHANGED botVars
  \/ EditSource /\ UNCHANGED botVars
  \/ BotRestarts

Spec == Init /\ [][Next]_vars

-----------------------------------------------------------------------------
(* Properties *)

\* Every variable keeps its type although thread and loop interleave and lose
\* each other's updates.  (A record they leave may well be made of two halves: a
\* turn's session and attempts beside an approval's state.)
TypeOK ==
  /\ EngineTypeOK
  /\ updates \in Seq(Token \cup {Nothing})
  /\ inbox \in Nat
  /\ worker \in [pc : {"waiting", "running", "send", "apologise"},
                  tokens : SUBSET Token, state : States]
  /\ handler \in [pc : {"idle", "answer", "edit", "expired", "apply", "applied"},
                   token : Nat, payload : ButtonPayload \cup {Nothing}]
  /\ table \subseteq ButtonPayload
  /\ minted \in Nat
  /\ chat \subseteq [tokens : SUBSET Token, state : States]
  /\ accepted \in Seq([token : Token, to : States])
  /\ restarts \in 0..MaxRestarts

\* However turns and approvals interleave and lose each other's updates, the
\* project is only ever in a state a human approved, its initial one or blocked.
OnlyApprovedStates ==
  disk.workflow_state \in {Initial, "blocked"} \cup {accepted[i].to : i \in DOMAIN accepted}

\* A button grants at most one approval, also when it was clicked twice before
\* its keyboard went away and its first grant was lost.
GrantedOnce ==
  \A i, j \in DOMAIN accepted : i # j => accepted[i].token # accepted[j].token

\* No turn resumes a conversation of another state or of another artifact
\* revision, whichever update of the session was lost.
ResumeFits ==
  turn.pc = "invoke" /\ turn.resume /\ turn.snap.session.id # Unknown =>
    LET c == hermes[turn.snap.session.id]
    IN  c.state = turn.snap.workflow_state /\ c.revision = turn.snap.artifact_revision

\* max_attempts bounds the failed turns of one stay here as well; a restart
\* may lose the count of one.
RetryBudget ==
  LET st == Graph[disk.workflow_state]
  IN  st.kind = "autonomous" /\ failures > 0 => failures <= st.max_attempts + restarts

\* The loop and the thread run; calls to Telegram and to Hermes return.
Fairness ==
  /\ WF_vars(Loop)
  /\ WF_vars(Worker)
  /\ WF_vars(TurnStep /\ UNCHANGED botVars)

FairSpec == Spec /\ Fairness

\* Every message and every click is handled and every queued turn is run or
\* refused: no failed call to Telegram stops the worker or the loop.
QueueDrains ==
  (updates # <<>> \/ inbox > 0) ~>
    (updates = <<>> /\ inbox = 0 /\ worker.pc = "waiting" /\ handler.pc = "idle")
=============================================================================
