--------------------------- MODULE MCBridgeOperator ---------------------------
EXTENDS BridgeOperator, TLC

(* Sessions differ only in their ids.                                      *)
SessionSymmetry == Permutations(Sessions)

(* What a process kept in memory is gone when it ends: two states that     *)
(* differ only in the memory of ended sessions are the same state.         *)
Memory(s) == IF Dead(s) THEN <<>>
             ELSE <<target[s], held[s], job[s], verdict[s], code[s], cycle[s], suppressed[s]>>
SharedView ==
  <<files, pc, [s \in Sessions |-> Memory(s)], execution, thread, relay, faults>>
=============================================================================
