--------------------------- MODULE MCCompanionWork ---------------------------
(***************************************************************************)
(* TLC instance of CompanionWork: two proposals over files that have been  *)
(* edited once or broken, and two deciders.                                *)
(***************************************************************************)
EXTENDS CompanionWork, TLC

CONSTANTS p1, p2, good, bad, plain, protocol, d1, d2

(* The review store may refuse the goal of the second proposal.            *)
OneMayBeRefused == (p1 :> {plain}) @@ (p2 :> {plain, protocol})

(* One of the two accepts, the other wants a revision.                     *)
OneAccepts == (d1 :> {"accept"}) @@ (d2 :> {"revise"})
=============================================================================
