----------------------------- MODULE MCTerminal -----------------------------
(* TLC instance of Terminal. *)
EXTENDS Terminal

MCCommands == {<<"s", "o">>, <<"o", "o">>, <<"o", "s">>}
=============================================================================
