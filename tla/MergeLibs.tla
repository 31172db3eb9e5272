----------------------------- MODULE MergeLibs -----------------------------
(***************************************************************************)
(* scripts/merge_libs.sh: which of the archives of the submodules go into  *)
(* the merged library.  An archive bundles those of the modules its own    *)
(* .gitmodules lists, so the script drops a module that another one        *)
(* bundles.  It reads the .gitmodules of one module after the other into   *)
(* an array, sub_deps, that is never emptied: a module is credited with    *)
(* the dependencies of all those read before it.                           *)
(*                                                                         *)
(* The order in which .gitmodules lists the modules is arbitrary, so the   *)
(* loops take the next module from a set.                                  *)
(***************************************************************************)

CONSTANTS
    Module,      \* the modules of the family
    Current,     \* the project's own
    ThirdParty,  \* the archives under third_party
    Tool         \* "ar", "lib", "libtool": what merges archives

ASSUME ModuleAssumption == Current \in Module /\ ThirdParty \cap Module = {}

VARIABLES
    root,         \* the modules of the root .gitmodules
    found,        \* the modules whose archive exists
    listing,      \* the modules that have a .gitmodules
    deps,         \* what it lists
    pc,           \* the loop the script is in
    todo,         \* the modules the loop has not reached
    sub_deps, module_deps, candidates, merge_order,
    outcome       \* how the script ended

world == <<root, found, listing, deps>>
mergeVars  == <<world, pc, todo, sub_deps, module_deps, candidates, merge_order, outcome>>

\* Every set of modules has one that no other of the set depends on.
Acyclic(d) ==
    \A S \in SUBSET Module : S # {} => \E m \in S : \A o \in S : m \notin d[o]

MergeTypeOK ==
    /\ root \subseteq Module /\ found \subseteq Module /\ listing \subseteq Module
    /\ deps \in [Module -> SUBSET Module]
    /\ pc \in {"collect", "filter", "merge", "done"}
    /\ todo \subseteq Module
    /\ sub_deps \subseteq Module
    /\ module_deps \in [Module -> SUBSET Module]
    /\ candidates \subseteq Module \ {Current}
    /\ merge_order \subseteq candidates \cup ThirdParty
    /\ outcome \in {"none", "merged", "failed", "failed, reported as success"}

\* Without a root .gitmodules only the base library is merged.
MergeInit ==
    /\ deps \in {d \in [Module -> SUBSET Module] : Acyclic(d)}
    /\ deps[Current] = {}   \* root stands for it
    /\ listing \in {L \in SUBSET Module : \A m \in Module \ L : deps[m] = {}}
    /\ root \in SUBSET Module /\ found \in SUBSET Module
    /\ \/ pc = "collect" /\ merge_order = ThirdParty
       \/ pc = "merge" /\ merge_order = {} /\ root = {}
    /\ todo = root
    /\ sub_deps = {} /\ module_deps = [m \in Module |-> {}]
    /\ candidates = {} /\ outcome = "none"

----------------------------------------------------------------------------

OwnNotSkipped(m) == m \notin found   \* mutant: the project is not left out

Skipped(m) == m = Current \/ m \notin found

ReadMissing(m) == m # Current /\ m \in listing   \* mutant: read before the archive is looked for

\* Whose .gitmodules is read.
Read(m) == ~Skipped(m) /\ m \in listing

\* The first loop; parse_gitmodules appends to sub_deps.
Collect(m) ==
    /\ pc = "collect"
    /\ m \in todo
    /\ todo' = todo \ {m}
    /\ candidates' = IF Skipped(m) THEN candidates ELSE candidates \cup {m}
    /\ sub_deps' = IF Read(m) THEN sub_deps \cup deps[m] ELSE sub_deps
    /\ module_deps' = IF Read(m) /\ sub_deps' # {}
                      THEN [module_deps EXCEPT ![m] = sub_deps'] ELSE module_deps
    /\ UNCHANGED <<world, pc, merge_order, outcome>>

Collected ==
    /\ pc = "collect" /\ todo = {}
    /\ pc' = "filter" /\ todo' = candidates
    /\ UNCHANGED <<world, sub_deps, module_deps, candidates, merge_order, outcome>>

BundledInMerged(m) ==   \* mutant: the modules not reached yet are not asked
    \E o \in merge_order \cap Module : o # m /\ m \in module_deps[o]

is_bundled(m) == \E o \in candidates : o # m /\ m \in module_deps[o]

\* The second loop.
Select(m) ==
    /\ pc = "filter"
    /\ m \in todo
    /\ todo' = todo \ {m}
    /\ merge_order' = IF is_bundled(m) THEN merge_order ELSE merge_order \cup {m}
    /\ UNCHANGED <<world, pc, sub_deps, module_deps, candidates, outcome>>

Filtered ==
    /\ pc = "filter" /\ todo = {}
    /\ pc' = "merge"
    /\ UNCHANGED <<world, todo, sub_deps, module_deps, candidates, merge_order, outcome>>

\* set -e stops at a tool that fails, unless its status is that of a pipeline
\* that ends in "|| true".
Merge ==
    /\ pc = "merge"
    /\ pc' = "done"
    /\ \E tool \in Tool, ok \in BOOLEAN :
          outcome' = IF ok THEN "merged"
                     ELSE IF tool = "libtool" THEN "failed, reported as success" ELSE "failed"
    /\ UNCHANGED <<world, todo, sub_deps, module_deps, candidates, merge_order>>

MergeNext ==
    \/ \E m \in Module : Collect(m) \/ Select(m)
    \/ Collected \/ Filtered \/ Merge

MergeSpec == MergeInit /\ [][MergeNext]_mergeVars

----------------------------------------------------------------------------
(* Properties.                                                              *)

Chosen == pc \in {"merge", "done"}

\* That sub_deps is never emptied changes no decision: the modules merged are
\* exactly the candidates that no other candidate's own .gitmodules lists, and never
\* the project itself.
ExactlyUnbundled ==
    /\ MergeTypeOK
    /\ Chosen => merge_order \cap Module =
            {m \in candidates : \A o \in candidates \ {m} : m \notin deps[o]}

\* The modules in the archives of S: those of S and whatever they bundle.
Provided(S) ==
    {m \in Module : \A T \in SUBSET Module :
        S \subseteq T /\ (\A o \in T : deps[o] \subseteq T) => m \in T}

\* No module whose archive exists is lost by the deduplication: it is merged, or
\* bundled, perhaps through others, in one that is.
NothingLost == Chosen => (root \cap found) \ {Current} \subseteq Provided(merge_order \cap Module)

\* "Merges base library with all its dependencies into a single library file".
\* Violated when a module has no archive: it is left out without a word.
AllDependencies == outcome = "merged" => root \ {Current} \subseteq Provided(merge_order \cap Module)
=============================================================================
