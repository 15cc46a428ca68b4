----------------------------- MODULE Approvals ------------------------------
(***************************************************************************)
(* domain/approvals.py and the validating half of app/approval_flow.py:    *)
(* which human inputs the pending action of a state accepts, and which     *)
(* state apply_approval() then moves to.                                   *)
(*                                                                         *)
(* A human's text is compared after upper(), given here by the constant    *)
(* Upper, so that a type typed in another case is a Text that is not an    *)
(* ApprovalType but has the same Upper.  Phrase is the texts of more than  *)
(* one word, which the /approve regular expression does not match.         *)
(***************************************************************************)
EXTENDS Workflow

CONSTANTS
  Upper,    \* [Text -> Text], str.upper()
  Phrase,   \* the texts APPROVE_COMMAND does not match
  Blank     \* the empty text: /approve with no type

ASSUME ApprovalsAssumption ==
  /\ Upper \in [Text -> Text]
  /\ \A t \in ApprovalType : Upper[t] = t
  /\ Phrase \subseteq Text \ ApprovalType
  /\ Blank \in Text \ (ApprovalType \cup Phrase)

\* The types a state's pending action accepts: the branches when there are
\* some, else the single declared type.
Valid(st) ==
  IF Branches(st) # {} THEN Branches(st) ELSE {st.approval_type} \ {Nothing}

\* _resolve_requested_type() returns: one type left to default to, or a
\* declared type that equals the requested one up to case.
Resolves(st, requested) ==
  IF requested = Blank
  THEN \E t \in ApprovalType : Valid(st) = {t}
  ELSE \E t \in Valid(st) : Upper[t] = Upper[requested]

\* resolve_command() returns instead of raising.  Text that is not a command
\* comes back as feedback, which the caller does not tell from an approval.
CommandReturns(st, text) ==
  \/ text \in Phrase
  \/ RequiresApproval(st) /\ Resolves(st, text)

\* resolve_callback() returns: the button's revision is still the current one.
CallbackReturns(st, type, seen, revision) ==
  /\ RequiresApproval(st)
  /\ Resolves(st, type)
  /\ seen = revision

\* Where apply_approval() moves a project in state n at this revision, or
\* Nothing when it raises.  `seen` is the revision a button carries, Nothing
\* for a typed command.
Applied(def, n, revision, text, seen) ==
  LET returns == IF seen = Nothing
                 THEN CommandReturns(def[n], text)
                 ELSE CallbackReturns(def[n], text, seen, revision)
  IN  IF returns THEN Advance(def, n, text) ELSE Nothing
=============================================================================
