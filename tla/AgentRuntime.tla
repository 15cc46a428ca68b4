---------------------------- MODULE AgentRuntime ----------------------------
(***************************************************************************)
(* The two implementations of AgentRuntime.run.  InProcessHermesRuntime    *)
(* runs Hermes as a child of the orchestrator.  HttpAgentRuntime posts the *)
(* request to a server, which runs Hermes and answers; both sides count    *)
(* their own timeout from the same request.  A continuation runs a second  *)
(* child afterwards, the export of its usage, under the same timeout as    *)
(* the first.                                                              *)
(*                                                                         *)
(* Time is a Tick of every timer that runs.  A Tick waits for what is due: *)
(* a timeout strikes when it has run out.  Hermes ends when it likes, or   *)
(* never.                                                                  *)
(***************************************************************************)
EXTENDS Naturals, FiniteSets

CONSTANTS
  Configured,      \* agents.yaml: timeouts.hermes_turn_seconds
  DefaultTimeout,  \* what both sides fall back to
  Unset,           \* a request without a timeout
  Buffer,          \* what the client adds to the server's timeout
  MaxLag,          \* the longest a request or an answer is on its way
  MaxCalls,        \* bound: calls
  MaxFaults        \* bound: lost connections, killed processes

ASSUME RuntimeAssumption ==
  /\ {Configured, DefaultTimeout, Buffer, MaxLag, MaxCalls, MaxFaults} \subseteq Nat
  /\ Configured > 0 /\ DefaultTimeout > 0
  /\ Unset \notin Nat
  /\ 2 * MaxLag < Buffer

VARIABLES
  mode,    \* which implementation the entry point picked
  client,  \* the caller's side
  job,     \* the other side of every call made so far
  calls,   \* calls made so far
  faults   \* history: lost connections, killed processes

vars == <<mode, client, job, calls, faults>>

\* request.timeout_seconds, or 600.
Effective(asked) == IF asked = Unset THEN DefaultTimeout ELSE asked

\* BROKEN: no buffer on top of the server's timeout.
ClientTimeoutBare(asked) == Effective(asked)

ClientTimeout(asked) == Effective(asked) + Buffer

\* BROKEN: the server falls back to the default, whatever the payload says.
ServerTimeoutFixed(asked) == DefaultTimeout

ServerTimeout(asked) == Effective(asked)

Jobs == 1..MaxCalls

\* the phases that have a timer
Timed == {"sent", "hermes", "export", "reply"}

NoJob == [pc |-> "none", left |-> 0, asked |-> Unset, resume |-> FALSE, answer |-> "none"]

Init ==
  /\ mode \in {"in_process", "http"}
  /\ client = [pc |-> "idle", left |-> 0]
  /\ job = [c \in Jobs |-> NoJob]
  /\ calls = 0
  /\ faults = 0

Awaited(c) == client.pc = "waiting" /\ c = calls

\* A phase of job c ends and another one begins, with a timer of its own.
Phase(c, from, to, left, answer) ==
  /\ job[c].pc = from
  /\ job' = [job EXCEPT ![c].pc = to, ![c].left = left, ![c].answer = answer]
  /\ UNCHANGED <<mode, client, calls, faults>>

-----------------------------------------------------------------------------
(* The call and what is run for it *)

\* TurnRunner._invoke_hermes asks for the configured timeout, full or
\* resumed; summarize() asks for none and never resumes.
Call(resume, asked) ==
  /\ client.pc = "idle"
  /\ calls < MaxCalls
  /\ resume => asked = Configured
  /\ calls' = calls + 1
  /\ client' = [pc |-> "waiting",
                left |-> IF mode = "http" THEN ClientTimeout(asked) ELSE 0]
  /\ job' = [job EXCEPT ![calls + 1] =
               [NoJob EXCEPT !.pc = "sent", !.asked = asked, !.resume = resume,
                  !.left = IF mode = "http" THEN MaxLag ELSE 0]]
  /\ UNCHANGED <<mode, faults>>

\* subprocess.run starts Hermes, or raises: HermesInvocationError, which the
\* server turns into a 502.
Launch(c) == Phase(c, "sent", "hermes", ServerTimeout(job[c].asked), "none")

\* Hermes gave no result, or one that could not be read.
Errors == {"error", "unread"}

\* An answer on its way back.
Reply(c, from, answer) ==
  Phase(c, from, "reply", IF mode = "http" THEN MaxLag ELSE 0, answer)

\* BROKEN: the exception is not turned into an error answer.
LaunchFailsUnmapped(c) == Reply(c, "sent", "none")

LaunchFails(c) == Reply(c, "sent", "error")

\* A full turn's result is read from its usage file; a resumed turn's usage
\* must be exported first.  What is no text, or a usage that is JSON but no
\* object, is unread: an exception nobody expects, over HTTP a 500.
HermesExits(c, result) ==
  IF job[c].resume /\ result # "unread"
  THEN Phase(c, "hermes", "export", ServerTimeout(job[c].asked), result)
  ELSE Reply(c, "hermes", result)

\* BROKEN: only the continuation's command is run with the timeout.
HermesTimesOutResumed(c) ==
  job[c].left = 0 /\ job[c].resume /\ Reply(c, "hermes", "error")

\* subprocess.run kills Hermes and raises TimeoutExpired.
HermesTimesOut(c) == job[c].left = 0 /\ Reply(c, "hermes", "error")

\* An export that fails, or is empty, fails the turn it belongs to.
ExportEnds(c, export) ==
  Reply(c, "export", IF export = "parsed" THEN job[c].answer ELSE export)

ExportTimesOut(c) == job[c].left = 0 /\ Reply(c, "export", "failed")

-----------------------------------------------------------------------------
(* How the call ends *)

Deliver ==
  /\ client.pc = "waiting"
  /\ job[calls].pc = "reply"
  /\ client' = [pc |-> IF job[calls].answer \in Errors THEN "raised" ELSE "answered",
                left |-> 0]
  /\ job' = [job EXCEPT ![calls] = NoJob]
  /\ UNCHANGED <<mode, calls, faults>>

\* httpx gives up: RuntimeClientError, which becomes a RuntimeError.  The
\* server is not told.
ClientTimesOut ==
  /\ mode = "http"
  /\ client.pc = "waiting"
  /\ client.left = 0
  /\ client' = [pc |-> "raised", left |-> 0]
  /\ UNCHANGED <<mode, job, calls, faults>>

\* A reply nobody waits for.
Discard(c) ==
  /\ job[c].pc = "reply"
  /\ ~ Awaited(c)
  /\ job' = [job EXCEPT ![c] = NoJob]
  /\ UNCHANGED <<mode, client, calls, faults>>

Return ==
  /\ client.pc \in {"answered", "raised"}
  /\ client' = [pc |-> "idle", left |-> 0]
  /\ UNCHANGED <<mode, job, calls, faults>>

-----------------------------------------------------------------------------
(* Faults *)

Fault ==
  /\ faults < MaxFaults
  /\ faults' = faults + 1
  /\ UNCHANGED <<mode, calls>>

ConnectionLost ==
  /\ Fault
  /\ mode = "http"
  /\ client.pc = "waiting"
  /\ client' = [pc |-> "raised", left |-> 0]
  /\ UNCHANGED job

\* The orchestrator is killed.  Its own child may die with it (Ctrl-C, the
\* container) or live on, and then nothing times it any more; a server is not
\* told.
CallerKilled ==
  /\ Fault
  /\ client.pc = "waiting"
  /\ client' = [pc |-> "idle", left |-> 0]
  /\ IF mode = "http" THEN UNCHANGED job
     ELSE \/ job' = [job EXCEPT ![calls] = NoJob]
          \/ /\ job[calls].pc = "hermes"
             /\ job' = [job EXCEPT ![calls] = [NoJob EXCEPT !.pc = "orphan"]]

OrphanEnds(c) ==
  /\ job[c].pc = "orphan"
  /\ job' = [job EXCEPT ![c] = NoJob]
  /\ UNCHANGED <<mode, client, calls, faults>>

\* The server's container is killed, with everything in it.
ServerKilled ==
  /\ Fault
  /\ mode = "http"
  /\ \E c \in Jobs : job[c].pc # "none"
  /\ job' = [c \in Jobs |-> NoJob]
  /\ client' = IF client.pc = "waiting" THEN [pc |-> "raised", left |-> 0] ELSE client

-----------------------------------------------------------------------------
(* Time *)

Running == {c \in Jobs : job[c].pc \in Timed}

ClientTimed == mode = "http" /\ client.pc = "waiting"

Tick ==
  /\ Running # {} \/ ClientTimed
  /\ \A c \in Running : job[c].left > 0
  /\ ClientTimed => client.left > 0
  /\ job' = [c \in Jobs |->
       IF c \in Running THEN [job[c] EXCEPT !.left = @ - 1] ELSE job[c]]
  /\ client' = IF ClientTimed THEN [client EXCEPT !.left = @ - 1] ELSE client
  /\ UNCHANGED <<mode, calls, faults>>

Next ==
  \/ \E resume \in BOOLEAN, asked \in {Configured, Unset} : Call(resume, asked)
  \/ \E c \in Jobs :
       \/ Launch(c)
       \/ LaunchFails(c)
       \/ \E result \in {"good", "failed", "unread"} : HermesExits(c, result)
       \/ HermesTimesOut(c)
       \/ \E export \in {"parsed", "failed", "unread"} : ExportEnds(c, export)
       \/ ExportTimesOut(c)
       \/ Discard(c)
       \/ OrphanEnds(c)
  \/ Deliver
  \/ ClientTimesOut
  \/ Return
  \/ ConnectionLost
  \/ CallerKilled
  \/ ServerKilled
  \/ Tick

Spec == Init /\ [][Next]_vars

-----------------------------------------------------------------------------
(* Properties *)

\* The type invariant.  No timer runs below zero: what is due happens on time.
\* No answer is on its way before there is one.
TypeOK ==
  /\ mode \in {"in_process", "http"}
  /\ client \in [pc : {"idle", "waiting", "answered", "raised"}, left : Nat]
  /\ job \in [Jobs -> [pc : Timed \cup {"none", "orphan"}, left : Nat,
                       asked : {Configured, Unset}, resume : BOOLEAN,
                       answer : {"none", "good", "failed"} \cup Errors]]
  /\ \A c \in Jobs : job[c].pc = "reply" => job[c].answer # "none"
  /\ calls \in 0..MaxCalls
  /\ faults \in 0..MaxFaults

Stray(c) == ~ Awaited(c) /\ job[c].pc \in {"sent", "hermes", "orphan"}

Seen ==
  IF client.pc # "waiting" THEN client.pc
  ELSE CASE job[calls].pc = "sent"   -> "waiting"
         [] job[calls].pc = "hermes" -> "working"
         [] job[calls].pc = "reply" /\ job[calls].answer = "error" -> "broken"
         [] OTHER -> "over"

Promise == INSTANCE AgentCall WITH
             call   <- Seen,
             strays <- Cardinality({c \in Jobs : Stray(c)})

\* Both implementations keep the contract: an answered call ran Hermes once
\* and to its end, and no timeout of the client ever leaves a Hermes working
\* behind a call that has raised; only a fault does.
CallSpec == Promise!CallSpec

\* An exception has a cause: Hermes could not be launched, was killed by its
\* own timeout or left what could not be read, or the connection or the server
\* was lost.  The one other case is a continuation whose export outlasts the
\* buffer: its Hermes has finished well and the client does not wait for it.
RaisesForCause ==
  [][client.pc = "waiting" /\ client'.pc = "raised" /\ faults' = faults
     => \/ job[calls].pc = "reply" /\ job[calls].answer \in Errors
        \/ job[calls].resume /\ job[calls].pc \in {"export", "reply"}]_vars

\* Time passes, and what is due happens: the timeouts of subprocess.run and of
\* httpx strike.  Nothing is asked of Hermes, of the export, or of the network
\* beyond MaxLag.
Fairness ==
  /\ WF_vars(Tick)
  /\ WF_vars(Deliver)
  /\ WF_vars(ClientTimesOut)
  /\ \A c \in Jobs : /\ WF_vars(Launch(c))
                     /\ WF_vars(HermesTimesOut(c))
                     /\ WF_vars(ExportTimesOut(c))
                     /\ WF_vars(Discard(c))

FairSpec == Spec /\ Fairness

\* No call waits for ever, for a Hermes that never ends or for an export that
\* never does, whichever side's timeout comes first.
CallReturns == client.pc = "waiting" ~> client.pc # "waiting"
=============================================================================
