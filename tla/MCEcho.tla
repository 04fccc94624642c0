------------------------------- MODULE MCEcho -------------------------------
(* One client that runs the program, beside one peer that does as it likes, *)
(* and a limit small enough to be met and exceeded.                        *)
EXTENDS Echo

CONSTANTS c1, o1

=============================================================================
