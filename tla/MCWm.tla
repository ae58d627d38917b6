-------------------------------- MODULE MCWm --------------------------------
(* TLC instances of Wm. *)
EXTENDS Wm

MCScreens == {2, 4}
MCFonts == {1, 2}
=============================================================================
