---------------------------- MODULE DurableOrdering ----------------------------
(***************************************************************************)
(* What the Bridge Operator promises about one relay request: the durable  *)
(* ordering states of its in_flight record and of its processed record     *)
(* (bridge_operator_lifecycle_state.py, bridge_operator_b3.py), seen from  *)
(* outside, without sessions, files, locks or failures.  BridgeOperator    *)
(* implements this specification.                                          *)
(***************************************************************************)
EXTENDS Naturals

CONSTANT Requests

VARIABLES
  stage,  \* the durable ordering state of each request
  runs    \* how often the runner was started for it

vars == <<stage, runs>>

DurableStages == {"NOT_ADMITTED", "PREPARED", "DISPATCHED", "REJECTED", "PROCESSED"}
Unresolved == {"PREPARED", "DISPATCHED", "REJECTED"}

Init ==
  /\ stage = [r \in Requests |-> "NOT_ADMITTED"]
  /\ runs = [r \in Requests |-> 0]

Move(r, from, to) ==
  /\ stage[r] \in from
  /\ stage' = [stage EXCEPT ![r] = to]

(* Durable admission: there is one in_flight record for all requests.      *)
Admit(r) ==
  /\ \A q \in Requests : stage[q] \notin Unresolved
  /\ Move(r, {"NOT_ADMITTED"}, "PREPARED")
  /\ UNCHANGED runs

(* The dispatcher may be created from here on, never again afterwards.     *)
Dispatch(r) == Move(r, {"PREPARED"}, "DISPATCHED") /\ UNCHANGED runs

StartRunner(r) ==
  /\ stage[r] = "DISPATCHED" /\ runs[r] = 0
  /\ runs' = [runs EXCEPT ![r] = 1]
  /\ UNCHANGED stage

(* The dispatcher says that it stopped before the runner: for good ...     *)
Reject(r) ==
  /\ runs[r] = 0
  /\ Move(r, {"DISPATCHED"}, "REJECTED")
  /\ UNCHANGED runs

(* ... or for a reason that may pass, so that a later run may try again.   *)
Withdraw(r) ==
  /\ runs[r] = 0
  /\ Move(r, {"DISPATCHED"}, "NOT_ADMITTED")
  /\ UNCHANGED runs

(* The processed record is durable: after a dispatch, after a rejection,   *)
(* or because the result was found before any dispatch.                    *)
Settle(r) ==
  /\ Move(r, {"NOT_ADMITTED", "DISPATCHED", "REJECTED"}, "PROCESSED")
  /\ UNCHANGED runs

Next ==
  \E r \in Requests :
    \/ Admit(r) \/ Dispatch(r) \/ StartRunner(r)
    \/ Reject(r) \/ Withdraw(r) \/ Settle(r)

Spec == Init /\ [][Next]_vars
-----------------------------------------------------------------------------
TypeOK == stage \in [Requests -> DurableStages] /\ runs \in [Requests -> Nat]

(* A request runs at most once, and what was rejected or not yet dispatched*)
(* has never run unless it is settled.                                     *)
RunOnceThenSettle ==
  \A r \in Requests :
    /\ runs[r] <= 1
    /\ stage[r] \in {"NOT_ADMITTED", "PREPARED", "REJECTED"} => runs[r] = 0

(* At most one request of all is in flight.                                *)
OneInFlight ==
  \A q, r \in Requests : stage[q] \in Unresolved /\ stage[r] \in Unresolved => q = r

(* What is settled stays settled and is never run again.                   *)
SettlementIsFinal ==
  [][\A r \in Requests : stage[r] = "PROCESSED" =>
       stage'[r] = "PROCESSED" /\ runs'[r] = runs[r]]_vars
=============================================================================
