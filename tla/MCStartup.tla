----------------------------- MODULE MCStartup -----------------------------
(* Every device of the model, with and without a second profile.            *)
EXTENDS Startup
=============================================================================
