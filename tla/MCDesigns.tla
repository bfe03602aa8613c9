------------------------------- MODULE MCDesigns -------------------------------
(***************************************************************************)
(* Instances of Designs for TLC.                                           *)
(***************************************************************************)
EXTENDS Designs, TLC

\* Two contents, each with a name of its own.
Carries == "leave form" :> "leave" @@ "travel form" :> "travel"

\* The handlers of definitions, those of designs, and a design published while
\* definitions come and go.
Handlers == {
  {"deploy", "redeploy", "removeDefine", "upAndDown", "startAndExecute"},
  {"designSave", "designUpdate", "designUpdateDefine", "designDeploy", "designRemove"},
  {"designSave", "designDeploy", "designRedeploy", "removeDefine", "upAndDown"} }

Symmetric == Permutations(Client)
=============================================================================
