----------------------------- MODULE MCBotClient -----------------------------
(* A running bot with two further tasks that call the server.               *)
EXTENDS BotClient

TwoCallers == {"caller1", "caller2"}
=============================================================================
