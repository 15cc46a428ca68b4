----------------------------- MODULE AgentCall ------------------------------
(***************************************************************************)
(* What a caller of AgentRuntime.run (ports/agent_runtime.py) may rely on, *)
(* with no subprocess, connection or clock in it.  One call at a time runs *)
(* Hermes at most once.  It is answered only when that Hermes is over.  It *)
(* leaves a Hermes working behind it only when a fault cut it off: a lost  *)
(* connection, a killed caller or a killed server.  AgentRuntime is shown  *)
(* to implement this; TurnFiles is built on it.                            *)
(***************************************************************************)
EXTENDS Naturals

VARIABLES
  call,    \* the call of the moment, as its caller sees it
  strays,  \* Hermes processes at work, or on their way, for no caller
  faults   \* calls and servers cut off so far

callVars == <<call, strays, faults>>

Pending == {"waiting", "working", "over", "broken"}

CallInit ==
  /\ call = "idle"
  /\ strays = 0
  /\ faults = 0

Step(from, to) ==
  /\ call \in from
  /\ call' = to
  /\ UNCHANGED <<strays, faults>>

Start == Step({"idle"}, "waiting")

\* Hermes is launched, and ends.
Launch == Step({"waiting"}, "working")
End    == Step({"working"}, "over")

\* It cannot be launched, or is killed by its timeout.
Break == Step({"waiting", "working"}, "broken")

\* A HermesResult, failed or not.
Answer == Step({"over"}, "answered")

\* An exception.
GiveUp == Step({"over", "broken"}, "raised")

\* The caller has dealt with the outcome.
Return == Step({"answered", "raised"}, "idle")

\* A fault: the call is an exception, or its caller is gone.
CutOff(to) ==
  /\ call \in Pending
  /\ call' = to
  /\ strays' \in 0..(IF call \in {"waiting", "working"} THEN strays + 1 ELSE strays)
  /\ faults' = faults + 1

\* A stray ends by itself, late, or with the host it runs on.
StrayEnds ==
  /\ strays > 0
  /\ strays' = strays - 1
  /\ UNCHANGED <<call, faults>>

HostDies ==
  /\ strays' \in 0..strays
  /\ faults' = faults + 1
  /\ UNCHANGED call

CallNext ==
  \/ Start \/ Launch \/ End \/ Break \/ Answer \/ GiveUp \/ Return
  \/ \E to \in {"idle", "raised"} : CutOff(to)
  \/ StrayEnds \/ HostDies

CallSpec == CallInit /\ [][CallNext]_callVars

CallTypeOK ==
  /\ call \in Pending \cup {"idle", "answered", "raised"}
  /\ strays \in Nat
  /\ faults \in Nat
=============================================================================
