------------------------------- MODULE Shared -------------------------------
(***************************************************************************)
(* What the modules of the host have in common: the commands that run on   *)
(* one machine and the value of a thing that is not there.                 *)
(***************************************************************************)
CONSTANTS
    Procs,   \* running commands
    None

ASSUME SharedAssumption == None \notin Procs

=============================================================================
