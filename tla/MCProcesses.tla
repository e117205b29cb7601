----------------------------- MODULE MCProcesses -----------------------------
(* Instances of Processes for TLC.                                          *)
EXTENDS Processes

\* Where the proved design lets interrupts land: the timer anywhere but in
\* halt, Ctrl-C anywhere but in halt and in the second half of execute.
ShieldedTicks == Labels \ HaltLabels
ShieldedCtrlC == {"user", "io", "return", "exec"}

=============================================================================
