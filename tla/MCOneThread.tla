---------------------------- MODULE MCOneThread ----------------------------
(* An instance of OneThread for TLC: a byte of eight values, with layout   *)
(* constants scaled to it.                                                 *)
EXTENDS OneThread

MCMagic == <<1, 0, 1, 1>>

\* The smallest, the largest, and one with a carry out of the first byte.
MCNumbers == {0, Radix + 1, Radix^8 - 1}
=============================================================================
