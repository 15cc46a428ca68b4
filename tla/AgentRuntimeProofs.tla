------------------------ MODULE AgentRuntimeProofs -------------------------
(***************************************************************************)
(* Theorems of AgentRuntime, for every timeout, buffer and lag, any number *)
(* of calls and of faults.                                                 *)
(***************************************************************************)
EXTENDS AgentRuntime, FiniteSetTheorems, TLAPS

USE RuntimeAssumption

\* Jobs are numbered by the calls made, and the awaited one has not ended.
Counted == \A c \in Jobs : c > calls => job[c].pc = "none"

AwaitedRuns == client.pc = "waiting" => calls \in Jobs /\ job[calls].pc \in Timed

\* What is exported is the usage of a continuation that was not an error.
Exported ==
  \A c \in Jobs : job[c].pc = "export" => job[c].resume /\ job[c].answer \in {"good", "failed"}

\* The client has more time left than the server may still need: the lag of
\* the request came out of the buffer, that of the answer still will.
ClientIsLater ==
  mode = "http" /\ client.pc = "waiting" =>
    LET j == job[calls]
    IN  /\ j.pc = "sent" => client.left + MaxLag >= Effective(j.asked) + Buffer + j.left
        /\ j.pc = "hermes" => client.left + MaxLag >= Buffer + j.left
        /\ j.pc = "reply" /\ ~ j.resume => client.left + 2 * MaxLag >= Buffer + j.left

IInv == TypeOK /\ Counted /\ AwaitedRuns /\ Exported /\ ClientIsLater

Answers == {"none", "good", "failed"} \cup Errors

Job == [pc : Timed \cup {"none", "orphan"}, left : Nat, asked : {Configured, Unset},
        resume : BOOLEAN, answer : Answers]

-----------------------------------------------------------------------------
(* The invariant *)

\* Whatever a call asks for, the server waits a number of ticks.
LEMMA EffectiveType ==
  ASSUME NEW asked \in {Configured, Unset}
  PROVE  Effective(asked) \in Nat
  BY DEF Effective

\* What the type invariant says of a job and of its caller, in the form the
\* steps below cite.
LEMMA JobType ==
  ASSUME TypeOK
  PROVE  /\ job \in [Jobs -> Job] /\ calls \in Nat /\ Jobs \subseteq Nat
         /\ calls \in Jobs <=> calls > 0
         /\ client \in [pc : {"idle", "waiting", "answered", "raised"}, left : Nat]
  BY DEF TypeOK, Job, Jobs, Answers

\* No call is made yet.
LEMMA InitIInv == Init => IInv
<1> SUFFICES ASSUME Init PROVE IInv
  OBVIOUS
<1>1. TypeOK
  BY DEF Init, TypeOK, NoJob
<1>2. Counted /\ AwaitedRuns /\ Exported /\ ClientIsLater
  BY DEF Init, NoJob, Counted, AwaitedRuns, Exported, ClientIsLater
<1> QED
  BY <1>1, <1>2 DEF IInv

\* A phase that ends, and what the next one must be for the invariant.
LEMMA PhaseKeeps ==
  ASSUME IInv, NEW c \in Jobs,
         NEW from \in {"sent", "hermes", "export"}, NEW to \in {"hermes", "export", "reply"},
         NEW left \in Nat, NEW answer \in Answers,
         Phase(c, from, to, left, answer),
         to = "hermes" => from = "sent" /\ left = Effective(job[c].asked),
         to = "export" => job[c].resume /\ answer \in {"good", "failed"},
         to = "reply" => answer # "none" /\ (mode = "http" => left = MaxLag)
  PROVE  IInv'
<1> DEFINE j == [job[c] EXCEPT !.pc = to, !.left = left, !.answer = answer]
<1>1. /\ job \in [Jobs -> Job] /\ calls \in Nat /\ Jobs \subseteq Nat
      /\ client.left \in Nat
  BY JobType DEF IInv
<1>2. /\ job[c].pc = from
      /\ job' = [job EXCEPT ![c] = j]
      /\ UNCHANGED <<mode, client, calls, faults>>
  BY <1>1 DEF Phase, Job
<1>3. /\ j \in Job /\ j.pc = to /\ j.left = left /\ j.answer = answer
      /\ j.asked = job[c].asked /\ j.resume = job[c].resume
  BY <1>1 DEF Job, Timed
<1>4. /\ job'[c] = j
      /\ \A d \in Jobs : d # c => job'[d] = job[d]
      /\ job' \in [Jobs -> Job]
  BY <1>1, <1>2, <1>3
<1> HIDE DEF j
<1>5. TypeOK'
  <2>1. \A d \in Jobs : job'[d].pc = "reply" => job'[d].answer # "none"
    BY <1>3, <1>4 DEF IInv, TypeOK
  <2> QED
    BY <1>2, <1>4, <2>1 DEF IInv, TypeOK, Job, Answers
<1>6. Counted'
  BY <1>1, <1>2, <1>3, <1>4 DEF IInv, Counted, Timed
<1>7. AwaitedRuns'
  BY <1>2, <1>3, <1>4 DEF IInv, AwaitedRuns, Timed
<1>8. Exported'
  BY <1>3, <1>4 DEF IInv, Exported
<1>9. ClientIsLater'
  <2> SUFFICES ASSUME mode = "http", client.pc = "waiting", ClientIsLater, calls \in Jobs
               PROVE  ClientIsLater'
    BY <1>2 DEF IInv, ClientIsLater, AwaitedRuns
  <2>1. CASE c # calls
    BY <1>2, <1>4, <2>1 DEF ClientIsLater
  <2>2. CASE c = calls
    <3>1. /\ job[c].asked \in {Configured, Unset} /\ job[c].left \in Nat
          /\ Effective(job[c].asked) \in Nat
      BY <1>1, EffectiveType DEF Job
    <3>2. CASE to = "hermes"
      BY <1>1, <1>2, <1>3, <1>4, <2>2, <3>1, <3>2 DEF ClientIsLater
    <3>3. CASE to = "export"
      BY <1>2, <1>3, <1>4, <2>2, <3>3 DEF ClientIsLater
    <3>4. CASE to = "reply" /\ from \in {"sent", "hermes"}
      <4>1. left = MaxLag
        BY <3>4
      <4>2. client.left + MaxLag >= Buffer
        BY <1>1, <1>2, <2>2, <3>1, <3>4 DEF ClientIsLater
      <4> QED
        BY <1>1, <1>2, <1>3, <1>4, <2>2, <3>4, <4>1, <4>2 DEF ClientIsLater
    <3>5. CASE to = "reply" /\ from = "export"
      BY <1>2, <1>3, <1>4, <2>2, <3>5 DEF ClientIsLater, IInv, Exported
    <3> QED
      BY <3>2, <3>3, <3>4, <3>5
  <2> QED
    BY <2>1, <2>2
<1> QED
  BY <1>5, <1>6, <1>7, <1>8, <1>9 DEF IInv

\* Hermes is started with the timeout the call asked for or the server has.
LEMMA LaunchKeeps ==
  ASSUME IInv, NEW c \in Jobs, Launch(c)
  PROVE  IInv'
<1>1. ServerTimeout(job[c].asked) = Effective(job[c].asked)
      /\ Effective(job[c].asked) \in Nat
  BY JobType, EffectiveType DEF IInv, Job, ServerTimeout
<1> QED
  BY <1>1, PhaseKeeps DEF Launch, Answers

\* An answer on its way: what it may end and say.
LEMMA ReplyKeeps ==
  ASSUME IInv, NEW c \in Jobs, NEW from \in {"sent", "hermes", "export"},
         NEW answer \in Answers \ {"none"}, Reply(c, from, answer)
  PROVE  IInv'
<1> DEFINE left == IF mode = "http" THEN MaxLag ELSE 0
<1>1. left \in Nat /\ (mode = "http" => left = MaxLag)
  OBVIOUS
<1>2. Phase(c, from, "reply", left, answer)
  BY DEF Reply
<1> HIDE DEF left
<1> QED
  BY <1>1, <1>2, PhaseKeeps

\* Hermes exits in time: a resumed session goes on to the export of its
\* transcript, another is answered.
LEMMA ExitKeeps ==
  ASSUME IInv, NEW c \in Jobs, NEW result \in {"good", "failed", "unread"}, HermesExits(c, result)
  PROVE  IInv'
<1>1. CASE job[c].resume /\ result # "unread"
  <2>1. ServerTimeout(job[c].asked) \in Nat
    BY JobType, EffectiveType DEF IInv, Job, ServerTimeout
  <2> QED
    BY <1>1, <2>1, PhaseKeeps DEF HermesExits, Answers
<1>2. CASE ~ (job[c].resume /\ result # "unread")
  BY <1>2, ReplyKeeps DEF HermesExits, Answers, Errors
<1> QED
  BY <1>1, <1>2

\* The export ends in time.
LEMMA ExportKeeps ==
  ASSUME IInv, NEW c \in Jobs, NEW export \in {"parsed", "failed", "unread"}, ExportEnds(c, export)
  PROVE  IInv'
<1>1. job[c].pc = "export"
  BY DEF ExportEnds, Reply, Phase
<1>2. job[c].answer \in {"good", "failed"}
  BY <1>1 DEF IInv, Exported
<1> QED
  BY <1>2, ReplyKeeps DEF ExportEnds, Answers, Errors

\* Hermes does not start, or a subprocess outlives its timeout and is killed.
LEMMA ServerSideKeeps ==
  ASSUME IInv, NEW c \in Jobs,
         LaunchFails(c) \/ HermesTimesOut(c) \/ ExportTimesOut(c)
  PROVE  IInv'
  BY ReplyKeeps DEF LaunchFails, HermesTimesOut, ExportTimesOut, Answers, Errors

\* A job that is over is as if there had been none.
LEMMA GoneKeeps ==
  ASSUME IInv, NEW gone \in SUBSET Jobs,
         job' = [c \in Jobs |-> IF c \in gone THEN NoJob ELSE job[c]],
         client' = client \/ client' = [pc |-> "answered", left |-> 0]
           \/ client' = [pc |-> "raised", left |-> 0] \/ client' = [pc |-> "idle", left |-> 0],
         client'.pc = "waiting" => calls \notin gone,
         faults' \in 0..MaxFaults, UNCHANGED <<mode, calls>>
  PROVE  IInv'
<1>1. job \in [Jobs -> Job] /\ NoJob \in Job /\ calls \in Nat /\ Jobs \subseteq Nat
  BY JobType DEF IInv, NoJob, Job, Answers
<1>2. \A c \in Jobs : job'[c] = NoJob \/ job'[c] = job[c]
  OBVIOUS
<1>3. /\ client' \in [pc : {"idle", "waiting", "answered", "raised"}, left : Nat]
      /\ client'.pc = "waiting" => client' = client /\ (job'[calls] = job[calls] \/ calls \notin Jobs)
  BY JobType DEF IInv
<1>4. job' \in [Jobs -> Job]
  BY <1>1
<1>5. TypeOK'
  <2>1. \A c \in Jobs : job'[c].pc = "reply" => job'[c].answer # "none"
    BY <1>2 DEF IInv, TypeOK, NoJob
  <2> QED
    BY <1>3, <1>4, <2>1 DEF IInv, TypeOK, Job, Answers
<1>6. Counted' /\ Exported'
  BY <1>2 DEF IInv, Counted, Exported, NoJob
<1>7. AwaitedRuns' /\ ClientIsLater'
  BY <1>3 DEF IInv, AwaitedRuns, ClientIsLater
<1> QED
  BY <1>5, <1>6, <1>7 DEF IInv

\* What ends a call, or a job nobody waits for, without a job of its own going
\* on.
LEMMA OnesideKeeps ==
  ASSUME IInv,
         \/ Deliver \/ ClientTimesOut \/ Return \/ ConnectionLost \/ ServerKilled
         \/ \E c \in Jobs : Discard(c) \/ OrphanEnds(c)
  PROVE  IInv'
<1>1. /\ job \in [Jobs -> Job] /\ faults \in 0..MaxFaults
      /\ client.pc = "waiting" => calls \in Jobs /\ job[calls].pc \in Timed
  BY JobType DEF IInv, TypeOK, AwaitedRuns
<1>2. CASE Deliver
  <2>1. job' = [c \in Jobs |-> IF c \in {calls} THEN NoJob ELSE job[c]]
    BY <1>1, <1>2 DEF Deliver
  <2> QED
    BY <1>1, <1>2, <2>1, GoneKeeps DEF Deliver
<1>3. CASE ClientTimesOut \/ Return \/ ConnectionLost
  <2> DEFINE gone == {}
  <2>1. /\ job' = [c \in Jobs |-> IF c \in gone THEN NoJob ELSE job[c]]
        /\ gone \in SUBSET Jobs /\ calls \notin gone
    BY <1>1, <1>3 DEF ClientTimesOut, Return, ConnectionLost
  <2> HIDE DEF gone
  <2>2. faults' \in 0..MaxFaults
    BY <1>1, <1>3 DEF ClientTimesOut, Return, ConnectionLost, Fault
  <2> QED
    BY <1>3, <2>1, <2>2, GoneKeeps DEF ClientTimesOut, Return, ConnectionLost, Fault
<1>4. CASE ServerKilled
  <2>1. job' = [c \in Jobs |-> IF c \in Jobs THEN NoJob ELSE job[c]]
    BY <1>4 DEF ServerKilled
  <2>2. /\ client' = client \/ client' = [pc |-> "raised", left |-> 0]
        /\ client'.pc # "waiting" /\ faults' \in 0..MaxFaults /\ UNCHANGED <<mode, calls>>
    BY <1>1, <1>4 DEF ServerKilled, Fault
  <2> QED
    BY <2>1, <2>2, GoneKeeps
<1>5. ASSUME NEW c \in Jobs, Discard(c) \/ OrphanEnds(c)
      PROVE  IInv'
  <2>1. job' = [d \in Jobs |-> IF d \in {c} THEN NoJob ELSE job[d]]
    BY <1>1, <1>5 DEF Discard, OrphanEnds
  <2>2. client.pc = "waiting" => calls # c
    BY <1>1, <1>5 DEF Discard, OrphanEnds, Awaited, Timed
  <2>3. UNCHANGED <<mode, client, calls, faults>>
    BY <1>5 DEF Discard, OrphanEnds
  <2> QED
    BY <1>1, <2>1, <2>2, <2>3, GoneKeeps
<1> QED
  BY <1>2, <1>3, <1>4, <1>5

\* The process of the caller is killed, in-process with the job it runs.
LEMMA CallerKilledKeeps ==
  ASSUME IInv, CallerKilled
  PROVE  IInv'
<1>1. /\ job \in [Jobs -> Job] /\ calls \in Jobs /\ job[calls].pc \in Timed
      /\ faults' \in 0..MaxFaults
      /\ client' = [pc |-> "idle", left |-> 0] /\ UNCHANGED <<mode, calls>>
  BY JobType DEF IInv, TypeOK, AwaitedRuns, CallerKilled, Fault
<1>2. CASE job' = job
  <2> DEFINE gone == {}
  <2>1. /\ job' = [c \in Jobs |-> IF c \in gone THEN NoJob ELSE job[c]]
        /\ gone \in SUBSET Jobs /\ calls \notin gone
    BY <1>1, <1>2
  <2> HIDE DEF gone
  <2> QED
    BY <1>1, <2>1, GoneKeeps
<1>3. CASE job' = [job EXCEPT ![calls] = NoJob]
  <2>1. job' = [c \in Jobs |-> IF c \in {calls} THEN NoJob ELSE job[c]]
    BY <1>1, <1>3
  <2> QED
    BY <1>1, <2>1, GoneKeeps
<1>4. CASE job' = [job EXCEPT ![calls] = [NoJob EXCEPT !.pc = "orphan"]]
  <2> DEFINE orphan == [NoJob EXCEPT !.pc = "orphan"]
  <2>1. orphan \in Job /\ orphan.pc = "orphan"
    BY DEF NoJob, Job, Answers
  <2>2. job' \in [Jobs -> Job] /\ \A c \in Jobs : job'[c] = IF c = calls THEN orphan ELSE job[c]
    BY <1>1, <1>4, <2>1
  <2> HIDE DEF orphan
  <2>3. TypeOK'
    <3>1. \A c \in Jobs : job'[c].pc = "reply" => job'[c].answer # "none"
      BY <2>1, <2>2 DEF IInv, TypeOK
    <3> QED
      BY <1>1, <2>2, <3>1 DEF IInv, TypeOK, Job, Answers
  <2>4. Counted' /\ Exported'
    BY <1>1, <2>1, <2>2 DEF IInv, TypeOK, Counted, Exported, Jobs
  <2> QED
    BY <1>1, <2>3, <2>4 DEF IInv, AwaitedRuns, ClientIsLater
<1> QED
  BY <1>2, <1>3, <1>4 DEF CallerKilled

\* A call begins with the time the client will wait for it.
LEMMA CallKeeps ==
  ASSUME IInv, NEW resume \in BOOLEAN, NEW asked \in {Configured, Unset}, Call(resume, asked)
  PROVE  IInv'
<1> DEFINE new == [NoJob EXCEPT !.pc = "sent", !.asked = asked, !.resume = resume,
                     !.left = IF mode = "http" THEN MaxLag ELSE 0]
<1>1. /\ job \in [Jobs -> Job] /\ calls \in Nat /\ calls + 1 \in Jobs /\ Jobs \subseteq Nat
      /\ calls' = calls + 1 /\ UNCHANGED <<mode, faults>>
  BY JobType DEF IInv, Call, Jobs
<1>2. /\ new \in Job /\ new.pc = "sent" /\ new.asked = asked
      /\ new.left = IF mode = "http" THEN MaxLag ELSE 0
  BY DEF NoJob, Job, Answers, Timed
<1>3. job' = [job EXCEPT ![calls + 1] = new]
  BY DEF Call
<1>4. /\ Effective(asked) \in Nat
      /\ client' = [pc |-> "waiting",
                    left |-> IF mode = "http" THEN Effective(asked) + Buffer ELSE 0]
  BY EffectiveType DEF Call, ClientTimeout
<1> HIDE DEF new
<1>5. /\ job' \in [Jobs -> Job] /\ job'[calls + 1] = new
      /\ \A c \in Jobs : c # calls + 1 => job'[c] = job[c]
  BY <1>1, <1>2, <1>3
<1>6. TypeOK'
  <2>1. \A c \in Jobs : job'[c].pc = "reply" => job'[c].answer # "none"
    BY <1>2, <1>5 DEF IInv, TypeOK
  <2>2. client' \in [pc : {"idle", "waiting", "answered", "raised"}, left : Nat]
    BY <1>4
  <2>3. calls' \in 0..MaxCalls
    BY <1>1 DEF Call
  <2> QED
    BY <1>1, <1>5, <2>1, <2>2, <2>3 DEF IInv, TypeOK, Job, Answers
<1>7. Counted' /\ Exported'
  BY <1>1, <1>2, <1>5 DEF IInv, Counted, Exported
<1>8. AwaitedRuns'
  BY <1>1, <1>2, <1>5 DEF AwaitedRuns, Timed
<1>9. ClientIsLater'
  BY <1>1, <1>2, <1>4, <1>5 DEF ClientIsLater
<1> QED
  BY <1>6, <1>7, <1>8, <1>9 DEF IInv

\* A tick takes as much from the client as from every job with a timeout, and
\* happens only while all have time left.
LEMMA TickKeeps ==
  ASSUME IInv, Tick
  PROVE  IInv'
<1>1. /\ job \in [Jobs -> Job] /\ client.left \in Nat /\ calls \in Nat
      /\ UNCHANGED <<mode, calls, faults>>
  BY JobType DEF IInv, Tick
<1>2. \A c \in Jobs :
        /\ job[c].pc \in Timed => job[c].left > 0 /\ job'[c] = [job[c] EXCEPT !.left = job[c].left - 1]
        /\ job[c].pc \notin Timed => job'[c] = job[c]
  BY <1>1 DEF Tick, Running
<1>3. \A c \in Jobs :
        /\ job'[c] \in Job /\ job'[c].pc = job[c].pc /\ job'[c].resume = job[c].resume
        /\ job'[c].answer = job[c].answer /\ job'[c].asked = job[c].asked
        /\ job[c].pc \in Timed => job'[c].left = job[c].left - 1
  <2> SUFFICES ASSUME NEW c \in Jobs
               PROVE  /\ job'[c] \in Job /\ job'[c].pc = job[c].pc
                      /\ job'[c].resume = job[c].resume /\ job'[c].answer = job[c].answer
                      /\ job'[c].asked = job[c].asked
                      /\ job[c].pc \in Timed => job'[c].left = job[c].left - 1
    OBVIOUS
  <2>1. job[c] \in Job
    BY <1>1
  <2>2. CASE job[c].pc \in Timed
    <3>1. job[c].left \in Nat /\ job[c].left > 0
      BY <1>2, <2>1, <2>2 DEF Job
    <3>2. job[c].left - 1 \in Nat
      BY <3>1
    <3> QED
      BY <1>2, <2>1, <2>2, <3>2 DEF Job
  <2>3. CASE job[c].pc \notin Timed
    BY <1>2, <2>1, <2>3
  <2> QED
    BY <2>2, <2>3
<1>4. /\ client' \in [pc : {"idle", "waiting", "answered", "raised"}, left : Nat]
      /\ client'.pc = client.pc
      /\ ClientTimed => client'.left = client.left - 1
  BY JobType DEF IInv, Tick, ClientTimed
<1>5. TypeOK'
  <2>1. job' \in [Jobs -> Job]
    BY <1>3 DEF Tick
  <2>2. \A c \in Jobs : job'[c].pc = "reply" => job'[c].answer # "none"
    BY <1>3 DEF IInv, TypeOK
  <2> QED
    BY <1>1, <1>4, <2>1, <2>2 DEF IInv, TypeOK, Job, Answers
<1>6. Counted' /\ AwaitedRuns' /\ Exported'
  BY <1>1, <1>3, <1>4 DEF IInv, Counted, AwaitedRuns, Exported
<1>7. ClientIsLater'
  <2> SUFFICES ASSUME mode = "http", client.pc = "waiting"
               PROVE  ClientIsLater'
    BY <1>1, <1>4 DEF ClientIsLater
  <2>1. calls \in Jobs /\ job[calls].pc \in Timed
    BY DEF IInv, AwaitedRuns
  <2>2. job[calls].left \in Nat /\ Effective(job[calls].asked) \in Nat
    BY <1>1, <2>1, EffectiveType DEF Job
  <2>3. /\ job'[calls].left = job[calls].left - 1 /\ client'.left = client.left - 1
        /\ job'[calls].pc = job[calls].pc /\ job'[calls].resume = job[calls].resume
        /\ job'[calls].asked = job[calls].asked
    BY <1>3, <1>4, <2>1 DEF ClientTimed
  <2>4. ClientIsLater
    BY DEF IInv
  <2> QED
    BY <1>1, <1>4, <2>2, <2>3, <2>4 DEF ClientIsLater
<1> QED
  BY <1>5, <1>6, <1>7 DEF IInv

\* Every step of a run keeps the invariant.
LEMMA StepKeeps == IInv /\ [Next]_vars => IInv'
<1> SUFFICES ASSUME IInv, [Next]_vars PROVE IInv'
  OBVIOUS
<1>1. CASE UNCHANGED vars
  BY <1>1 DEF vars, IInv, TypeOK, Counted, AwaitedRuns, Exported, ClientIsLater
<1>2. ASSUME NEW resume \in BOOLEAN, NEW asked \in {Configured, Unset}, Call(resume, asked)
      PROVE  IInv'
  BY <1>2, CallKeeps
<1>3. ASSUME NEW c \in Jobs,
             \/ Launch(c) \/ LaunchFails(c) \/ HermesTimesOut(c) \/ ExportTimesOut(c)
             \/ \E result \in {"good", "failed", "unread"} : HermesExits(c, result)
             \/ \E export \in {"parsed", "failed", "unread"} : ExportEnds(c, export)
             \/ Discard(c) \/ OrphanEnds(c)
      PROVE  IInv'
  BY <1>3, LaunchKeeps, ServerSideKeeps, ExitKeeps, ExportKeeps, OnesideKeeps
<1>4. CASE \/ Deliver \/ ClientTimesOut \/ Return \/ ConnectionLost \/ ServerKilled
           \/ CallerKilled \/ Tick
  BY <1>4, OnesideKeeps, CallerKilledKeeps, TickKeeps
<1> QED
  BY <1>1, <1>2, <1>3, <1>4 DEF Next

\* The inductive invariant behind both results below.
THEOREM Invariance == Spec => []IInv
  BY InitIInv, StepKeeps, PTL DEF Spec

\* Every variable keeps its type: no timer ever runs below zero.
THEOREM TypeCorrect == Spec => []TypeOK
<1>1. IInv => TypeOK
  BY DEF IInv
<1> QED
  BY <1>1, Invariance, PTL

-----------------------------------------------------------------------------
(* Who gives up first *)

\* The client's timer runs out only on a continuation whose Hermes is over:
\* until then, and for a full turn until the answer is there, it has time left.
LEMMA ClientTimesOutLate ==
  ASSUME IInv, ClientTimesOut
  PROVE  calls \in Jobs /\ job[calls].resume /\ job[calls].pc \in {"export", "reply"}
<1>1. /\ mode = "http" /\ client.pc = "waiting" /\ client.left = 0
      /\ calls \in Jobs /\ job[calls].pc \in Timed
      /\ job[calls] \in Job
  BY JobType DEF ClientTimesOut, IInv, AwaitedRuns
<1>2. job[calls].left \in Nat /\ Effective(job[calls].asked) \in Nat /\ job[calls].resume \in BOOLEAN
  BY <1>1, EffectiveType DEF Job
<1>3. job[calls].pc # "sent" /\ job[calls].pc # "hermes"
      /\ (job[calls].pc = "reply" => job[calls].resume)
  BY <1>1, <1>2 DEF IInv, ClientIsLater
<1>4. job[calls].pc = "export" => job[calls].resume
  BY <1>1 DEF IInv, Exported
<1> QED
  BY <1>1, <1>3, <1>4 DEF Timed

\* A caller sees an exception only for a cause: an error or unread answer, a fault, or
\* the slow export of a continuation.
THEOREM RaisesForCauseHolds == Spec => RaisesForCause
<1> DEFINE A == client.pc = "waiting" /\ client'.pc = "raised" /\ faults' = faults
                => \/ job[calls].pc = "reply" /\ job[calls].answer \in Errors
                   \/ job[calls].resume /\ job[calls].pc \in {"export", "reply"}
<1>1. IInv /\ [Next]_vars => [A]_vars
  <2> SUFFICES ASSUME IInv, Next, client.pc = "waiting", client'.pc = "raised", faults' = faults
               PROVE  A
    BY DEF vars
  <2>1. faults \in Nat /\ client'.pc # client.pc
    BY DEF IInv, TypeOK
  <2>2. CASE Deliver
    BY <2>2 DEF Deliver
  <2>3. CASE ClientTimesOut
    BY <2>3, ClientTimesOutLate
  <2>4. ASSUME NEW c \in Jobs,
               \/ Launch(c) \/ LaunchFails(c) \/ HermesTimesOut(c) \/ ExportTimesOut(c)
               \/ \E result \in {"good", "failed", "unread"} : HermesExits(c, result)
               \/ \E export \in {"parsed", "failed", "unread"} : ExportEnds(c, export)
               \/ Discard(c) \/ OrphanEnds(c)
        PROVE  FALSE
    BY <2>1, <2>4 DEF Launch, LaunchFails, HermesTimesOut, ExportTimesOut, HermesExits,
                      ExportEnds, Reply, Phase, Discard, OrphanEnds
  <2>5. CASE ConnectionLost \/ CallerKilled \/ ServerKilled
    BY <2>1, <2>5 DEF ConnectionLost, CallerKilled, ServerKilled, Fault
  <2>6. CASE Return \/ \E resume \in BOOLEAN, asked \in {Configured, Unset} : Call(resume, asked)
    BY <2>6 DEF Return, Call
  <2>7. ~ Tick
    BY <2>1, JobType DEF Tick, IInv
  <2> QED
    BY <2>2, <2>3, <2>4, <2>5, <2>6, <2>7 DEF Next
<1> QED
  BY <1>1, Invariance, PTL DEF Spec, RaisesForCause

-----------------------------------------------------------------------------
(* Both implementations keep the contract *)

Strays == {c \in Jobs : Stray(c)}

\* The jobs left behind are finitely many, and losing one takes one away.
LEMMA StraysCount ==
  /\ IsFiniteSet(Strays)
  /\ Cardinality(Strays) \in Nat
  /\ \A c \in Strays : Cardinality(Strays \ {c}) = Cardinality(Strays) - 1
                      /\ Cardinality(Strays) > 0
<1>1. IsFiniteSet(Jobs)
  <2>1. 1 \in Int /\ MaxCalls \in Int
    OBVIOUS
  <2> QED
    BY <2>1, FS_Interval DEF Jobs
<1>2. IsFiniteSet(Strays)
  BY <1>1, FS_Subset DEF Strays
<1>3. Cardinality(Strays) \in Nat
  BY <1>2, FS_CardinalityType
<1>4. ASSUME NEW c \in Strays
      PROVE  Cardinality(Strays \ {c}) = Cardinality(Strays) - 1 /\ Cardinality(Strays) > 0
  <2>1. Cardinality(Strays \ {c}) = Cardinality(Strays) - 1
    BY <1>2, FS_RemoveElement
  <2>2. Cardinality(Strays) # 0
    BY <1>2, FS_EmptySet
  <2> QED
    BY <1>3, <2>1, <2>2
<1> QED
  BY <1>2, <1>3, <1>4

\* What a set that grew by at most one awaited job counts.
LEMMA StraysBound ==
  ASSUME NEW S \in SUBSET Jobs, NEW c
  PROVE  /\ S \subseteq Strays => Cardinality(S) \in 0..Cardinality(Strays)
         /\ S \subseteq Strays \cup {c} => Cardinality(S) \in 0..(Cardinality(Strays) + 1)
<1>1. IsFiniteSet(Strays) /\ Cardinality(Strays) \in Nat
  BY StraysCount
<1>2. /\ IsFiniteSet(Strays \cup {c})
      /\ Cardinality(Strays \cup {c}) \in {Cardinality(Strays), Cardinality(Strays) + 1}
  BY <1>1, FS_AddElement
<1>3. ASSUME S \subseteq Strays
      PROVE  Cardinality(S) \in 0..Cardinality(Strays)
  <2>1. IsFiniteSet(S) /\ Cardinality(S) <= Cardinality(Strays)
    BY <1>1, <1>3, FS_Subset
  <2>2. Cardinality(S) \in Nat
    BY <2>1, FS_CardinalityType
  <2> QED
    BY <1>1, <2>1, <2>2
<1>4. ASSUME S \subseteq Strays \cup {c}
      PROVE  Cardinality(S) \in 0..(Cardinality(Strays) + 1)
  <2>1. IsFiniteSet(S) /\ Cardinality(S) <= Cardinality(Strays \cup {c})
    BY <1>2, <1>4, FS_Subset
  <2>2. Cardinality(S) \in Nat
    BY <2>1, FS_CardinalityType
  <2> QED
    BY <1>1, <1>2, <2>1, <2>2
<1> QED
  BY <1>3, <1>4

\* A step of the contract, in terms of Seen and Strays.
ContractStep == [Promise!CallNext]_(Promise!callVars)

\* A step the contract does not see.
LEMMA Stutters ==
  ASSUME Seen' = Seen, Strays' = Strays, faults' = faults
  PROVE  ContractStep
<1>1. Cardinality(Strays)' = Cardinality(Strays)
  OBVIOUS
<1> QED
  BY <1>1 DEF ContractStep, Promise!callVars, Strays

\* A job left behind that ends is the contract's StrayEnds.
LEMMA StrayGone ==
  ASSUME Seen' = Seen, NEW c \in Strays, Strays' = Strays \ {c}, faults' = faults
  PROVE  ContractStep
<1>1. /\ Cardinality(Strays)' = Cardinality(Strays) - 1
      /\ Cardinality(Strays) > 0
  BY StraysCount
<1>2. Promise!StrayEnds
  BY <1>1 DEF Promise!StrayEnds, Strays
<1> QED
  BY <1>2 DEF ContractStep, Promise!CallNext

\* A step of the call that neither leaves a job behind nor is a fault.
LEMMA Moves ==
  ASSUME Strays' = Strays, faults' = faults,
         \/ Seen = "idle" /\ Seen' = "waiting"
         \/ Seen = "waiting" /\ Seen' \in {"working", "broken"}
         \/ Seen = "working" /\ Seen' \in {"over", "broken"}
         \/ Seen = "over" /\ Seen' \in {"answered", "raised"}
         \/ Seen = "broken" /\ Seen' = "raised"
         \/ Seen \in {"answered", "raised"} /\ Seen' = "idle"
  PROVE  ContractStep
<1>1. Cardinality(Strays)' = Cardinality(Strays)
  OBVIOUS
<1>2. \/ Promise!Start \/ Promise!Launch \/ Promise!End \/ Promise!Break
      \/ Promise!Answer \/ Promise!GiveUp \/ Promise!Return
  BY <1>1 DEF Promise!Start, Promise!Launch, Promise!End, Promise!Break, Promise!Answer,
              Promise!GiveUp, Promise!Return, Promise!Step, Strays
<1> QED
  BY <1>2 DEF ContractStep, Promise!CallNext

\* A fault ends the call, and leaves at most its own job behind.
LEMMA Cuts ==
  ASSUME Seen \in {"waiting", "working", "over", "broken"}, Seen' \in {"idle", "raised"},
         faults' = faults + 1, Strays' \in SUBSET Jobs, NEW c,
         Strays' \subseteq Strays \cup {c},
         Seen \in {"waiting", "working"} \/ Strays' \subseteq Strays
  PROVE  ContractStep
<1>1. Cardinality(Strays)' \in
        0..(IF Seen \in {"waiting", "working"} THEN Cardinality(Strays) + 1 ELSE Cardinality(Strays))
  <2> DEFINE S == Strays'
  <2>1. S \in SUBSET Jobs /\ S \subseteq Strays \cup {c}
        /\ (Seen \in {"waiting", "working"} \/ S \subseteq Strays)
    OBVIOUS
  <2> HIDE DEF S
  <2>2. Cardinality(S) \in
          0..(IF Seen \in {"waiting", "working"} THEN Cardinality(Strays) + 1 ELSE Cardinality(Strays))
    BY <2>1, StraysBound
  <2> QED
    BY <2>2 DEF S
<1>2. Promise!CutOff("idle") \/ Promise!CutOff("raised")
  BY <1>1 DEF Promise!CutOff, Promise!Pending, Strays
<1> QED
  BY <1>2 DEF ContractStep, Promise!CallNext

\* A phase that ends: what its caller sees of it, and whether a stray is gone.
LEMMA PhaseMaps ==
  ASSUME IInv, NEW c \in Jobs,
         NEW from \in {"sent", "hermes", "export"}, NEW to \in {"hermes", "export", "reply"},
         NEW left, NEW answer,
         Phase(c, from, to, left, answer),
         to = "hermes" => from = "sent",
         to = "export" => from = "hermes",
         from = "sent" /\ to = "reply" => answer = "error",
         from = "export" => answer # "error"
  PROVE  ContractStep
<1>1. /\ job \in [Jobs -> Job] /\ job[c].pc = from
      /\ UNCHANGED <<mode, client, calls, faults>>
      /\ job'[c].pc = to /\ job'[c].answer = answer
      /\ \A d \in Jobs : d # c => job'[d] = job[d]
  BY JobType DEF IInv, Phase, Job
<1>2. CASE Awaited(c)
  <2>1. c = calls /\ client.pc = "waiting"
    BY <1>2 DEF Awaited
  <2>2. Strays' = Strays
    BY <1>1, <2>1 DEF Strays, Stray, Awaited
  <2>3. Seen = IF from = "sent" THEN "waiting" ELSE IF from = "hermes" THEN "working" ELSE "over"
    BY <1>1, <2>1 DEF Seen
  <2>4. Seen' = IF to = "hermes" THEN "working"
                ELSE IF to = "reply" /\ answer = "error" THEN "broken" ELSE "over"
    BY <1>1, <2>1 DEF Seen
  <2>5. CASE from = "export"
    BY <1>1, <2>2, <2>3, <2>4, <2>5, Stutters
  <2>6. CASE from # "export"
    BY <1>1, <2>2, <2>3, <2>4, <2>6, Moves
  <2> QED
    BY <2>5, <2>6
<1>3. CASE ~ Awaited(c)
  <2>1. Seen' = Seen
    BY <1>1, <1>3 DEF Seen, Awaited, IInv, AwaitedRuns
  <2>2. \A d \in Jobs : Awaited(d)' <=> Awaited(d)
    BY <1>1 DEF Awaited
  <2>3. CASE from \in {"sent", "hermes"} /\ to # "hermes"
    <3>1. c \in Strays /\ Strays' = Strays \ {c}
      BY <1>1, <1>3, <2>2, <2>3 DEF Strays, Stray
    <3> QED
      BY <1>1, <2>1, <3>1, StrayGone
  <2>4. CASE from = "export" \/ to = "hermes"
    <3>1. Strays' = Strays
      BY <1>1, <1>3, <2>2, <2>4 DEF Strays, Stray
    <3> QED
      BY <1>1, <2>1, <3>1, Stutters
  <2> QED
    BY <2>3, <2>4
<1> QED
  BY <1>2, <1>3

\* What the server does with a job is a move of the contract, or the end of a
\* stray.
LEMMA ServerSideMaps ==
  ASSUME IInv, NEW c \in Jobs,
         \/ Launch(c) \/ LaunchFails(c) \/ HermesTimesOut(c) \/ ExportTimesOut(c)
         \/ \E result \in {"good", "failed", "unread"} : HermesExits(c, result)
         \/ \E export \in {"parsed", "failed", "unread"} : ExportEnds(c, export)
  PROVE  ContractStep
<1>1. CASE Launch(c)
  BY <1>1, PhaseMaps DEF Launch
<1>2. CASE LaunchFails(c) \/ HermesTimesOut(c) \/ ExportTimesOut(c)
  BY <1>2, PhaseMaps DEF LaunchFails, HermesTimesOut, ExportTimesOut, Reply
<1>3. ASSUME NEW result \in {"good", "failed", "unread"}, HermesExits(c, result)
      PROVE  ContractStep
  BY <1>3, PhaseMaps DEF HermesExits, Reply
<1>4. ASSUME NEW export \in {"parsed", "failed", "unread"}, ExportEnds(c, export)
      PROVE  ContractStep
  <2>1. job[c].pc = "export"
    BY <1>4 DEF ExportEnds, Reply, Phase
  <2>2. job[c].answer # "error"
    BY <2>1 DEF IInv, Exported
  <2> QED
    BY <1>4, <2>2, PhaseMaps DEF ExportEnds, Reply
<1> QED
  BY <1>1, <1>2, <1>3, <1>4

\* So is what the caller does: a client gives up only when its Hermes is over.
LEMMA CallerSideMaps ==
  ASSUME IInv,
         \/ \E resume \in BOOLEAN, asked \in {Configured, Unset} : Call(resume, asked)
         \/ Deliver \/ ClientTimesOut \/ Return
  PROVE  ContractStep
<1>1. /\ job \in [Jobs -> Job]
      /\ calls \in Nat
      /\ client.pc = "waiting" => calls \in Jobs /\ job[calls].pc \in Timed
  BY JobType DEF IInv, AwaitedRuns
<1>2. ASSUME NEW resume \in BOOLEAN, NEW asked \in {Configured, Unset}, Call(resume, asked)
      PROVE  ContractStep
  <2>1. /\ client.pc = "idle" /\ client'.pc = "waiting" /\ calls' = calls + 1
        /\ calls + 1 \in Jobs /\ faults' = faults
        /\ job[calls + 1].pc = "none" /\ job'[calls + 1].pc = "sent"
        /\ \A d \in Jobs : d # calls + 1 => job'[d] = job[d]
    <3>1. calls + 1 \in Jobs /\ calls + 1 > calls
      <4>1. calls \in Nat /\ MaxCalls \in Nat /\ calls < MaxCalls
        BY <1>1, <1>2, RuntimeAssumption DEF Call
      <4> QED
        BY <4>1 DEF Jobs
    <3>2. job[calls + 1].pc = "none"
      BY <3>1 DEF IInv, Counted
    <3>3. job'[calls + 1].pc = "sent" /\ \A d \in Jobs : d # calls + 1 => job'[d] = job[d]
      <4>1. job' = [job EXCEPT ![calls + 1] =
                      [NoJob EXCEPT !.pc = "sent", !.asked = asked, !.resume = resume,
                         !.left = IF mode = "http" THEN MaxLag ELSE 0]]
        BY <1>2 DEF Call
      <4>2. job'[calls + 1] = [NoJob EXCEPT !.pc = "sent", !.asked = asked, !.resume = resume,
                                 !.left = IF mode = "http" THEN MaxLag ELSE 0]
        BY <1>1, <3>1, <4>1
      <4>3. job'[calls + 1].pc = "sent"
        BY <4>2 DEF NoJob
      <4> QED
        BY <1>1, <4>1, <4>3
    <3> QED
      BY <1>2, <3>1, <3>2, <3>3 DEF Call
  <2>2. Strays' = Strays
    BY <1>1, <2>1 DEF Strays, Stray, Awaited
  <2>3. Seen = "idle" /\ Seen' = "waiting"
    BY <2>1 DEF Seen
  <2> QED
    BY <2>1, <2>2, <2>3, Moves
<1>3. CASE Deliver
  <2>1. /\ client.pc = "waiting" /\ job[calls].pc = "reply" /\ faults' = faults /\ calls' = calls
        /\ client'.pc = IF job[calls].answer \in Errors THEN "raised" ELSE "answered"
        /\ job'[calls].pc = "none" /\ \A d \in Jobs : d # calls => job'[d] = job[d]
    <3>1. /\ client.pc = "waiting" /\ job[calls].pc = "reply" /\ faults' = faults /\ calls' = calls
          /\ client'.pc = IF job[calls].answer \in Errors THEN "raised" ELSE "answered"
      BY <1>3 DEF Deliver
    <3>2. calls \in Jobs /\ job' = [job EXCEPT ![calls] = NoJob]
      BY <1>1, <1>3, <3>1 DEF Deliver
    <3>3. job'[calls] = NoJob /\ \A d \in Jobs : d # calls => job'[d] = job[d]
      BY <1>1, <3>2
    <3> QED
      BY <3>1, <3>3 DEF NoJob
  <2>2. Strays' = Strays
    BY <1>1, <2>1 DEF Strays, Stray, Awaited
  <2>3. /\ Seen = IF job[calls].answer = "error" THEN "broken" ELSE "over"
        /\ Seen' = client'.pc
    BY <2>1 DEF Seen
  <2>4. client'.pc \in {"answered", "raised"}
        /\ (job[calls].answer = "error" => client'.pc = "raised")
    BY <2>1 DEF Errors
  <2> QED
    BY <2>1, <2>2, <2>3, <2>4, Moves
<1>4. CASE ClientTimesOut
  <2>1. /\ client.pc = "waiting" /\ faults' = faults /\ calls' = calls /\ job' = job
        /\ client'.pc = "raised" /\ job[calls].pc \in {"export", "reply"}
    BY <1>4, ClientTimesOutLate DEF ClientTimesOut
  <2>2. Strays' = Strays
    BY <2>1 DEF Strays, Stray, Awaited
  <2>3. Seen \in {"over", "broken"} /\ Seen' = "raised"
    BY <2>1 DEF Seen
  <2> QED
    BY <2>1, <2>2, <2>3, Moves
<1>5. CASE Return
  <2>1. /\ client.pc \in {"answered", "raised"} /\ client'.pc = "idle"
        /\ faults' = faults /\ calls' = calls /\ job' = job
    BY <1>5 DEF Return
  <2>2. Strays' = Strays
    BY <2>1 DEF Strays, Stray, Awaited
  <2>3. Seen = client.pc /\ Seen' = "idle"
    BY <2>1 DEF Seen
  <2> QED
    BY <2>1, <2>2, <2>3, Moves
<1> QED
  BY <1>2, <1>3, <1>4, <1>5

\* A fault during a call is a fault of the contract.
LEMMA FaultMaps ==
  ASSUME IInv, ConnectionLost \/ CallerKilled \/ (ServerKilled /\ client.pc = "waiting")
  PROVE  ContractStep
<1>1. /\ job \in [Jobs -> Job] /\ client.pc = "waiting"
      /\ calls \in Jobs /\ job[calls].pc \in Timed
      /\ faults' = faults + 1 /\ calls' = calls
      /\ client'.pc \in {"idle", "raised"}
  BY JobType DEF IInv, AwaitedRuns, ConnectionLost, CallerKilled, ServerKilled, Fault
<1>2. /\ Seen \in {"waiting", "working", "over", "broken"} /\ Seen' \in {"idle", "raised"}
      /\ Seen \in {"waiting", "working"} <=> job[calls].pc \in {"sent", "hermes"}
  BY <1>1 DEF Seen, Timed
<1>3. \A c \in Jobs : \/ job'[c] = job[c]
                      \/ job'[c].pc = "none"
                      \/ c = calls /\ job[c].pc = "hermes" /\ job'[c].pc = "orphan"
  BY <1>1 DEF ConnectionLost, CallerKilled, ServerKilled, NoJob
<1>4. /\ Strays' \in SUBSET Jobs /\ Strays' \subseteq Strays \cup {calls}
      /\ job[calls].pc \in {"sent", "hermes"} \/ Strays' \subseteq Strays
  BY <1>1, <1>3 DEF Strays, Stray, Awaited, Timed
<1> QED
  BY <1>1, <1>2, <1>4, Cuts

\* What ends unseen: a reply nobody waits for, an orphan, a server between
\* calls; and time.
LEMMA UnseenMaps ==
  ASSUME IInv,
         \/ \E c \in Jobs : Discard(c) \/ OrphanEnds(c)
         \/ ServerKilled /\ client.pc # "waiting"
         \/ Tick
  PROVE  ContractStep
<1>1. /\ job \in [Jobs -> Job]
      /\ calls' = calls
      /\ client.pc = "waiting" => calls \in Jobs /\ job[calls].pc \in Timed
  BY JobType DEF IInv, AwaitedRuns, Discard, OrphanEnds, ServerKilled, Fault, Tick
<1>2. ASSUME NEW c \in Jobs, Discard(c) \/ OrphanEnds(c)
      PROVE  ContractStep
  <2>1. /\ ~ Awaited(c) /\ UNCHANGED <<client, calls, faults>>
        /\ job'[c].pc = "none" /\ \A d \in Jobs : d # c => job'[d] = job[d]
    <3>1. job' = [job EXCEPT ![c] = NoJob] /\ UNCHANGED <<client, calls, faults>>
      BY <1>2 DEF Discard, OrphanEnds
    <3>2. job'[c] = NoJob /\ \A d \in Jobs : d # c => job'[d] = job[d]
      BY <1>1, <3>1
    <3>3. ~ Awaited(c)
      BY <1>1, <1>2 DEF Discard, OrphanEnds, Awaited, Timed
    <3> QED
      BY <3>1, <3>2, <3>3 DEF NoJob
  <2>2. Seen' = Seen
    <3>1. CASE client.pc = "waiting"
      <4>1. calls \in Jobs /\ calls # c
        BY <1>1, <2>1, <3>1 DEF Awaited
      <4>2. job'[calls] = job[calls]
        BY <2>1, <4>1
      <4> QED
        BY <2>1, <4>2 DEF Seen
    <3>2. CASE client.pc # "waiting"
      BY <2>1, <3>2 DEF Seen
    <3> QED
      BY <3>1, <3>2
  <2>3. CASE Discard(c)
    <3>1. Strays' = Strays
      BY <1>1, <2>1, <2>3 DEF Discard, Strays, Stray, Awaited
    <3> QED
      BY <2>1, <2>2, <3>1, Stutters
  <2>4. CASE OrphanEnds(c)
    <3>1. c \in Strays /\ Strays' = Strays \ {c}
      BY <1>1, <2>1, <2>4 DEF OrphanEnds, Strays, Stray, Awaited
    <3> QED
      BY <2>1, <2>2, <3>1, StrayGone
  <2> QED
    BY <1>2, <2>3, <2>4
<1>3. CASE ServerKilled /\ client.pc # "waiting"
  <2>1. /\ client' = client /\ faults' = faults + 1
        /\ \A c \in Jobs : job'[c].pc = "none"
    BY <1>3 DEF ServerKilled, Fault, NoJob
  <2>2. Strays' = {} /\ Seen' = Seen
    BY <1>3, <2>1 DEF Strays, Stray, Seen
  <2>3. Cardinality(Strays)' = 0
    BY <2>2, FS_EmptySet
  <2>4. Cardinality(Strays)' \in 0..Cardinality(Strays)
    BY <2>3, StraysCount
  <2>5. Promise!HostDies
    BY <2>1, <2>2, <2>4 DEF Promise!HostDies, Strays
  <2> QED
    BY <2>5 DEF ContractStep, Promise!CallNext
<1>4. CASE Tick
  <2>1. /\ client'.pc = client.pc /\ UNCHANGED <<calls, faults>>
        /\ \A c \in Jobs : job'[c].pc = job[c].pc /\ job'[c].answer = job[c].answer
    <3>1. client'.pc = client.pc
      BY <1>4, JobType DEF Tick, IInv
    <3>2. \A c \in Jobs : job'[c].pc = job[c].pc /\ job'[c].answer = job[c].answer
      BY <1>1, <1>4 DEF Tick, Job
    <3> QED
      BY <1>4, <3>1, <3>2 DEF Tick
  <2>2. Strays' = Strays
    BY <2>1 DEF Strays, Stray, Awaited
  <2>3. Seen' = Seen
    <3>1. CASE client.pc = "waiting"
      <4>1. job'[calls].pc = job[calls].pc /\ job'[calls].answer = job[calls].answer
        BY <1>1, <2>1, <3>1
      <4> QED
        BY <2>1, <4>1 DEF Seen
    <3>2. CASE client.pc # "waiting"
      BY <2>1, <3>2 DEF Seen
    <3> QED
      BY <3>1, <3>2
  <2> QED
    BY <2>1, <2>2, <2>3, Stutters
<1> QED
  BY <1>2, <1>3, <1>4

\* Whatever the timeouts, both implementations of AgentRuntime.run are one
\* call at a time that leaves a Hermes behind only after a fault.
THEOREM Refinement == Spec => CallSpec
<1>1. Init => Promise!CallInit
  <2> SUFFICES ASSUME Init PROVE Promise!CallInit
    OBVIOUS
  <2>1. Seen = "idle" /\ faults = 0 /\ Strays = {}
    BY DEF Init, Seen, NoJob, Strays, Stray
  <2>2. Cardinality(Strays) = 0
    BY <2>1, FS_EmptySet
  <2> QED
    BY <2>1, <2>2 DEF Promise!CallInit, Strays
<1>2. IInv /\ [Next]_vars => [Promise!CallNext]_(Promise!callVars)
  <2> SUFFICES ASSUME IInv, [Next]_vars PROVE ContractStep
    BY DEF ContractStep
  <2>1. CASE UNCHANGED vars
    <3>1. Seen' = Seen /\ Strays' = Strays /\ faults' = faults
      BY <2>1 DEF vars, Seen, Strays, Stray, Awaited
    <3> QED
      BY <3>1, Stutters
  <2>2. CASE Next
    BY <2>2, ServerSideMaps, CallerSideMaps, FaultMaps, UnseenMaps DEF Next
  <2> QED
    BY <2>1, <2>2
<1> QED
  BY <1>1, <1>2, Invariance, PTL DEF Spec, CallSpec, Promise!CallSpec
=============================================================================
