------------------------------ MODULE MCWayland ------------------------------
(* TLC instances of Wayland. *)
EXTENDS Wayland

MCShmIds == 0..2
MCEndpoints == 0..4
MCBlocks == 1..3
\* waiting for the globals, about to pass the pool, about to commit
MCStrayPoints == {7, 9, 14}
==============================================================================
