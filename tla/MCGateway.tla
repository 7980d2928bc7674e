----------------------------- MODULE MCGateway -----------------------------
(* An instance of Gateway for TLC; the configuration gives the bounds.     *)
EXTENDS Gateway
=============================================================================
