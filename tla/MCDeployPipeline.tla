-------------------------- MODULE MCDeployPipeline --------------------------
(***************************************************************************)
(* Instances of DeployPipeline for TLC: a healthy commit and one that adds *)
(* a name and fails the second smoke.  Any job may fail at any step beside.*)
(***************************************************************************)
EXTENDS DeployInvariant

TwoNames == {"FBT_PROLOG_URL", "DIV7A_ENGINE_URL"}

Commit(declared, fails) == [declared |-> declared, fails |-> fails]

TwoTrees == {Commit({"FBT_PROLOG_URL"}, {}), Commit(TwoNames, {"smoke_fbt"})}
=============================================================================
