------------------------ MODULE MCRewindTransaction ------------------------
(* Small instances of RewindTransaction. *)
EXTENDS RewindTransaction

\* One file the turns changed and one they created or deleted.
TwoFiles == {<<"modified", "created">>, <<"deleted", "modified">>}
=============================================================================
