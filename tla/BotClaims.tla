------------------------------ MODULE BotClaims ------------------------------
(***************************************************************************)
(* A sentence of the repository's own comments, stated over TelegramBot    *)
(* and refuted by what the code does; README.md tells the counterexample.  *)
(***************************************************************************)
EXTENDS TelegramBot

\* app/approval_flow.py:3 and the reply of entrypoints/telegram/handlers.py:583:
\* a granted approval is persisted, so state.yaml counts every one the event
\* log has, whatever turn runs meanwhile.
ApprovalKept == Len(granted) <= disk.artifact_revision
==============================================================================
