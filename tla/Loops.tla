-------------------------------- MODULE Loops --------------------------------
(***************************************************************************)
(* The loops over a batch of records, frames or messages: what a variable  *)
(* holds after the body has been run on every element, first to last.      *)
(***************************************************************************)
EXTENDS Integers, Sequences

ForEach(Body(_, _), start, batch) ==
    LET after[k \in 0 .. Len(batch)] ==
            IF k = 0 THEN start ELSE Body(after[k - 1], batch[k])
    IN  after[Len(batch)]

=============================================================================
