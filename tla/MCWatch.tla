------------------------------- MODULE MCWatch ------------------------------
EXTENDS Watch, TLC

Directory == <<"directory", 1>>

\* One watch of the whole directory, and changes of both kinds.
OneWatch == {Directory, <<"watch", 1>>}
OneTarget == 1 :> "directory"
BothChanges == {<<"db", "name">>, <<"note", "written">>}

\* A second watch, of one database in the directory.
TwoWatches == {Directory, <<"watch", 1>>, <<"watch", 2>>}
TwoTargets == 1 :> "directory" @@ 2 :> "database"
DatabaseChange == {<<"db", "name">>}
=============================================================================
