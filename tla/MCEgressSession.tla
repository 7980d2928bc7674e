--------------------------- MODULE MCEgressSession ---------------------------
(* Instances of EgressSession for TLC; the configurations give the bounds.  *)
EXTENDS EgressSession

Plain == [pieces |-> 1, echo |-> FALSE]
Lingering == [pieces |-> 2, echo |-> FALSE]
Echoing == [pieces |-> 1, echo |-> TRUE]

AllTunings == {Plain, Lingering, Echoing}
PlainOnly == {Plain}
LingeringOnly == {Lingering}
=============================================================================
