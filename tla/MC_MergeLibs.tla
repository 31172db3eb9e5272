--------------------------- MODULE MC_MergeLibs ----------------------------
(* Three submodules and the project itself, any of which may list the others. *)
EXTENDS MergeLibs

CONSTANTS libA, libB, libC, optim, jemalloc

MC_Module == {libA, libB, libC, optim}
MC_ThirdParty == {jemalloc}
=============================================================================
