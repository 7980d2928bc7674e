------------------------------ MODULE MCIngest ------------------------------
(* An instance of Ingest for TLC; the configuration gives the bounds.      *)
EXTENDS Ingest
=============================================================================
