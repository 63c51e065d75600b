--------------------------- MODULE MCReviewState ------------------------------
EXTENDS ReviewState, TLC
SomeVerdicts == {"accepted"}
SomeAnswers == {"eligible", "ineligible"}
SomeRoutings == {[root |-> Home, pinned |-> FALSE, head |-> 0]}
=============================================================================
