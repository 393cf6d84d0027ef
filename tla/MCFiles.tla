------------------------------ MODULE MCFiles ------------------------------
(* An instance of Files for TLC: an area with two folders whose names      *)
(* differ in case only.                                                    *)
EXTENDS Files, TLC

MCFilePaths == {<<"home", "dcim", "x">>, <<"home", "DCIM", "x">>, <<"home", "x">>, <<"app", "dcim">>}

MCTickRows == {<<"home", "dcim">>}

MCFolded(path) == [i \in DOMAIN path |-> IF path[i] = "DCIM" THEN "dcim" ELSE path[i]]

Symmetry == Permutations(Tabs)
=============================================================================
