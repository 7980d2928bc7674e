----------------------------- MODULE MCWaiting -----------------------------
(* An instance of Waiting for TLC; the configuration gives the bounds.     *)
EXTENDS Waiting
=============================================================================
