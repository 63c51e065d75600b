------------------------- MODULE MCResultNotifications -------------------------
EXTENDS ResultNotifications, TLC

RequestSymmetry == Permutations(Requests)
ScannerSymmetry == Permutations(Scanners)

(* A scanner that is not in a call remembers nothing; only runs without    *)
(* liveness use this view.                                                 *)
Snapshot(p) == IF pc[p] = "idle" THEN <<>> ELSE <<raw[p], mem[p]>>
NotificationView ==
  <<source, state, pc, [p \in Scanners |-> Snapshot(p)], shown, faults>>
=============================================================================
