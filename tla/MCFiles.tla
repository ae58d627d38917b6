------------------------------ MODULE MCFiles ------------------------------
(* TLC instance of Files. *)
EXTENDS Files

MCNameOrder == <<"d", "m", "n">>
MCNewFiles == <<"m", "n">>
MCNewFolders == <<"d">>
MCNamed == {<<"d">>, <<"m">>, <<"d", "m">>}
MCFirstFs == [p \in Paths |-> CASE p = <<"d">> -> Folder
                               [] p = <<"m">> -> File(<<"x">>)
                               [] OTHER -> Nothing]
=============================================================================
