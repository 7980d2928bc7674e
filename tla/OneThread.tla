----------------------------- MODULE OneThread -----------------------------
(***************************************************************************)
(* The parts that involve a single thread and no other part: the wire      *)
(* codec, run once on every test input; the sample buffer, filled with     *)
(* every sequence of values; a Source, which open_source of                *)
(* src/src/main.cpp makes a CanSource or a SyntheticSource; the load       *)
(* generator; and the opening of every object that owns descriptors.       *)
(* A behaviour exercises one of them.                                      *)
(***************************************************************************)
EXTENDS Wire, Percentiles, CanSource, SyntheticSource, Generator, Opening

VARIABLE part

vars == <<part, wireVars, samplesVars, canVars, synthVars, genVars, openingVars>>

\* The codec's state, and the opened object, while another part is exercised.
WireUnused ==
    /\ input = "none" /\ out = NotYet
    /\ sent = make_echo(0, 0) /\ bytes = <<>>

OpeningUnused ==
    /\ object = "Ingest" /\ step = 1
    /\ held = {} /\ opened = "not yet" /\ bad_close = FALSE

Init ==
    /\ part \in {"codec", "samples", "can", "synth", "gen", "opening"}
    /\ IF part = "codec" THEN HeaderInit \/ FrameInit ELSE WireUnused
    /\ IF part = "opening" THEN OpeningInit ELSE OpeningUnused
    /\ SamplesInit /\ CanInit /\ SynthInit /\ GenInit

Codec ==
    /\ part = "codec" /\ Decode
    /\ UNCHANGED <<part, samplesVars, canVars, synthVars, genVars, openingVars>>

Buffer ==
    /\ part = "samples" /\ SamplesNext
    /\ UNCHANGED <<part, wireVars, canVars, synthVars, genVars, openingVars>>

RunCan ==
    /\ part = "can" /\ CanNext
    /\ UNCHANGED <<part, wireVars, samplesVars, synthVars, genVars, openingVars>>

RunTimer ==
    /\ part = "synth" /\ Tick
    /\ UNCHANGED <<part, wireVars, samplesVars, canVars, genVars, openingVars>>

RunSynth ==
    /\ part = "synth" /\ SynthDrain
    /\ UNCHANGED <<part, wireVars, samplesVars, canVars, genVars, openingVars>>

RunGen ==
    /\ part = "gen" /\ GenNext
    /\ UNCHANGED <<part, wireVars, samplesVars, canVars, synthVars, openingVars>>

RunOpening ==
    /\ part = "opening" /\ OpeningNext
    /\ UNCHANGED <<part, wireVars, samplesVars, canVars, synthVars, genVars>>

\* The codec is run on one input, the buffer filled to the bound, the object
\* opened and destroyed, the generator finished when the clock is at its bound.
Done ==
    /\ \/ part = "codec" /\ out # NotYet
       \/ part = "samples" /\ total = MaxSamples
       \/ part = "opening" /\ OpeningDone
       \/ part = "gen" /\ gpc = "done" /\ now = MaxTime
    /\ UNCHANGED vars

Next ==
    \/ Codec \/ Buffer \/ RunCan \/ RunTimer \/ RunSynth \/ RunGen \/ RunOpening
    \/ Done

Spec == Init /\ [][Next]_vars

\* The timer keeps running and the system schedules the ingest thread.
FairSpec == Spec /\ WF_vars(RunTimer) /\ WF_vars(RunSynth)

=============================================================================
