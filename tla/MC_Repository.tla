--------------------------- MODULE MC_Repository ---------------------------
(***************************************************************************)
(* The parts of the repository that share nothing with another: the test   *)
(* framework, the script that merges the libraries and the stateless       *)
(* bindings.  One run goes through the states of each, while the others    *)
(* stay as one of those they begin with.                                   *)
(***************************************************************************)
EXTENDS MC_TestFramework, MC_MergeLibs, MC_BindingArgs

VARIABLE part  \* the one that runs

repositoryVars == <<part, vars, mergeVars, bindingVars>>

\* Any lists without a cycle are, up to the names of the modules, such that a module
\* lists none after it.
Ordered ==
    {d \in [Module -> SUBSET Module] :
        /\ d[optim] = {}             /\ d[libA] \subseteq {optim}
        /\ d[libB] \subseteq {optim, libA}
        /\ d[libC] \subseteq {optim, libA, libB}}

\* What a part that does not run begins with does not matter.
RepositoryInit ==
    /\ part \in {"framework", "merge", "binding"}
    /\ IF part = "framework" THEN TRUE ELSE filter = None
    /\ IF part = "merge" THEN deps \in Ordered
       ELSE /\ deps = [m \in Module |-> {}] /\ listing = {} /\ root = {} /\ found = {}
            /\ pc = "collect" /\ merge_order = ThirdParty
    /\ IF part = "binding" THEN TRUE ELSE call = [fn |-> "VarParametric"]
    /\ Init /\ MergeInit /\ BindingInit

RepositoryNext ==
    /\ UNCHANGED part
    /\ IF part = "framework" THEN Next        ELSE UNCHANGED vars
    /\ IF part = "merge"     THEN MergeNext   ELSE UNCHANGED mergeVars
    /\ IF part = "binding"   THEN BindingNext ELSE UNCHANGED bindingVars

RepositorySpec == RepositoryInit /\ [][RepositoryNext]_repositoryVars
=============================================================================
