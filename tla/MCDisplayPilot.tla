---------------------------- MODULE MCDisplayPilot ----------------------------
EXTENDS DisplayPilot, TLC

(* A report of each kind the parent tells apart.                           *)
Claim(status, codex, posted, flags) ==
  [valid |-> TRUE, status |-> status, codex |-> codex, posted |-> posted,
   flags |-> flags, tree |-> "edited"]
Honest == {"runner_invoked", "codex_side_action_executed"}
SomeReports ==
  {Claim("success", "passed", FALSE, Honest),
   Claim("success", "passed", TRUE, Honest)}
SomeTrees == {"base", "edited"}
=============================================================================
