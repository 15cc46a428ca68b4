------------------------------- MODULE MCBot --------------------------------
(***************************************************************************)
(* TelegramBot and BotClaims over MCGraph, with the default max_attempts   *)
(* of 1 so that a short history exhausts it.                               *)
(***************************************************************************)
EXTENDS BotClaims, MCGraphs

BotGraph == [MCGraph EXCEPT !["implementation"].max_attempts = 1]
=============================================================================
