-------------------------- MODULE MCWorkflowPanel -----------------------------
EXTENDS WorkflowPanel, TLC
SomeVerdicts == {"accepted"}
SomeAnswers == {"eligible", "failure"}
SomeRoutings == {[root |-> Home, pinned |-> FALSE, head |-> 0]}
=============================================================================
