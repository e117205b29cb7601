----------------------------- MODULE MCTerminal -----------------------------
(* Instances of Terminal for TLC.                                           *)
EXTENDS Terminal

\* Interrupts anywhere the code leaves them on, and the same without the start
\* and the end of terminal_read, as if those ran under cli.
CodePoints == Points
ShieldedPoints == {"user", "wait"}

Newlines == {<<"nl">>}
Prompts == {<<"nl", "c">>}
Characters == {<<"c">>}
Refusal == <<"c", "nl">>

=============================================================================
