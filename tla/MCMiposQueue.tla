---------------------------- MODULE MCMiposQueue ----------------------------
(***************************************************************************)
(* Instances of MiposQueue for TLC.                                        *)
(***************************************************************************)
EXTENDS MiposQueue

CONSTANTS a, b, none

MCItem == {a, b}
=============================================================================
