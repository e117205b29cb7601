-------------------------------- MODULE MCRtc --------------------------------
(* Instances of Rtc for TLC.                                                *)
EXTENDS Rtc

\* The handler as it is, and as if it kept interrupts off from the selection of
\* register C to its reading.
CodePoints == HandlerPoints
ShieldedPoints == HandlerPoints \ {"readC"}

EveryFreq == 0 .. 1025

=============================================================================
