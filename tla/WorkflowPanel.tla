---------------------------- MODULE WorkflowPanel -----------------------------
(***************************************************************************)
(* The workflow panel (workflow_panel.py): a read-only process that reads  *)
(* the files of the operator's state directory one after the other, while  *)
(* the operator goes on writing them, and shows one task and its stage.    *)
(***************************************************************************)
EXTENDS ReviewState

(* The stages the panel gives a task of its own accord; the rest are the   *)
(* verdicts of the reviewers (lifecycle_state.py, 42).                     *)
PanelStages == {"REQUEST_DETECTED", "DISPATCHING", "RUNNING", "WAITING_FOR_CHATGPT_REVIEW",
                "BLOCKED_OR_FAILED", "NO_REQUEST_DETECTED", "UNKNOWN"}
ASSUME StageAssumption == Verdicts \cap (PanelStages \cup {"none"}) = {}

VARIABLES
  view,     \* what the read under way has found so far
  watch,    \* the request in flight since the read began, Nobody otherwise
  shown     \* the snapshot just completed, until somebody writes again

panel == <<view, watch, shown>>

(* The order in which build_workflow_snapshot reads.                       *)
Sources == <<"report", "processed", "verdicts", "failure", "candidate", "inFlight">>
NoView == [next |-> 1, newest |-> 0, report |-> NoReport, processed |-> <<>>,
           verdicts |-> [r \in Requests |-> "none"], failure |-> NoReport,
           candidate |-> Nobody, inFlight |-> NoFlight]
NothingShown == [request |-> Nobody, stage |-> "UNKNOWN", pose |-> "uncertain",
                 newest |-> 0, watched |-> Nobody]

Newest(records) == IF records = <<>> THEN Nobody ELSE Last(records)

PanelInit == Init /\ view = NoView /\ watch = Nobody /\ shown = NothingShown

-----------------------------------------------------------------------------
(* What the panel makes of its view.                                       *)

(* A failure is current when it is the in-flight request's, or when the    *)
(* operator is blocked on that request and it was not recorded since.      *)
FailureIsCurrent(v) ==
  LET f == v.failure IN
  /\ f.failed
  /\ IF v.inFlight # NoFlight THEN f.failure = v.inFlight.request
     ELSE /\ "blocked" \in {v.report.status, v.report.beat}
          /\ f.failure \in {Nobody, v.report.last}
          /\ f.failure \in ToSet(v.processed) => f.failure \in f.after

(* An eligible scan of another request counts when it is not older than    *)
(* the newest record and the operator still seems to be there.             *)
ScanIsCurrent(v, online) ==
  /\ online /\ v.report.scan # Nobody
  /\ v.processed = <<>> \/ ( /\ v.report.scan # Last(v.processed)
                             /\ v.report.scanned >= Len(v.processed))

(* Mutant: a result that was posted counts as recorded.                    *)
InFlightStageByResult(f) ==
  IF answer[f.request] \in Success THEN "WAITING_FOR_CHATGPT_REVIEW" ELSE "RUNNING"

InFlightStage(f) ==
  CASE f.stage = "REJECTED_BEFORE_RUNNER" -> "BLOCKED_OR_FAILED"
    [] f.stage = "PROCESSED" ->
         IF answer[f.request] \in Success THEN "WAITING_FOR_CHATGPT_REVIEW" ELSE "BLOCKED_OR_FAILED"
    [] f.stage = "PREPARED" -> "DISPATCHING"
    [] f.stage = "DISPATCHED_NOT_LOCALLY_SETTLED" -> "RUNNING"

RecordStage(r) ==
  IF answer[r] \in Success THEN "WAITING_FOR_CHATGPT_REVIEW" ELSE "BLOCKED_OR_FAILED"

IdleStage(v, online) ==
  IF online /\ v.report.beat = "waiting" THEN "NO_REQUEST_DETECTED"
  ELSE IF "blocked" \in {v.report.status, v.report.beat} THEN "BLOCKED_OR_FAILED"
  ELSE "UNKNOWN"

(* Mutant: the records are looked at before the request in flight.         *)
TaskByRecords(v, online) ==
  IF v.processed # <<>> THEN Last(v.processed) ELSE v.inFlight.request

TaskOf(v, online) ==
  IF v.inFlight # NoFlight THEN v.inFlight.request
  ELSE IF ScanIsCurrent(v, online) THEN v.report.scan ELSE Newest(v.processed)

(* The verdict replaces the wait for it when it is that task's own and the *)
(* candidate file agrees with the binding it was given for.                *)
VerdictApplies(v, r) ==
  /\ r \in ToSet(v.processed) /\ answer[r] \in Bound /\ v.verdicts[r] # "none"
  /\ answer[r] = "eligible" <=> v.candidate = r

Lifecycle(v, online) ==
  LET r == TaskOf(v, online)
      stage == IF FailureIsCurrent(v) THEN "BLOCKED_OR_FAILED"
               ELSE IF v.inFlight # NoFlight THEN InFlightStage(v.inFlight)
               ELSE IF ScanIsCurrent(v, online) THEN "REQUEST_DETECTED"
               ELSE IF r # Nobody THEN RecordStage(r) ELSE IdleStage(v, online)
      task == IF FailureIsCurrent(v) /\ v.failure.failure # Nobody THEN v.failure.failure ELSE r
  IN [request |-> task,
      stage |-> IF stage = "WAITING_FOR_CHATGPT_REVIEW" /\ VerdictApplies(v, task)
                THEN v.verdicts[task] ELSE stage]

(* The pose of the sanctuary page.  Durable review facts outlive the       *)
(* operator; a task that is on its way is shown only while one is there.   *)
(* What it looks like while running is ObservationStream's.                *)
Pose(stage, online) ==
  CASE stage = "accepted" -> "accepted"
    [] stage \in Verdicts \ {"accepted"} -> "attention"
    [] stage = "WAITING_FOR_CHATGPT_REVIEW" -> "review"
    [] stage = "BLOCKED_OR_FAILED" -> "blocked"
    [] stage = "NO_REQUEST_DETECTED" /\ online -> "idle"
    [] stage \in {"REQUEST_DETECTED", "DISPATCHING"} /\ online -> "arriving"
    [] stage = "RUNNING" /\ online -> "running"
    [] OTHER -> "uncertain"

-----------------------------------------------------------------------------
(* One file is read per step; the last one completes the snapshot.  The    *)
(* heartbeat of a session that is gone turns stale sooner or later, that   *)
(* of one that stopped is offline at once.                                 *)

Found(source) ==
  CASE source = "report"    -> [view EXCEPT !.report = report, !.newest = Newest(processed)]
    [] source = "processed" -> [view EXCEPT !.processed = processed]
    [] source = "verdicts"  -> [view EXCEPT !.verdicts = verdicts]
    [] source = "failure"   -> [view EXCEPT !.failure = report]
    [] source = "candidate" -> [view EXCEPT !.candidate = candidate]
    [] source = "inFlight"  -> [view EXCEPT !.inFlight = inFlight]

Online(v) ==
  IF v.report.beat \in {"stopped", "none"} THEN {FALSE}
  ELSE IF op.pc = "down" THEN BOOLEAN ELSE {TRUE}

ReadSource ==
  LET first == view.next = 1
      seen == [Found(Sources[view.next]) EXCEPT !.next = @ + 1]
      watched == IF first THEN inFlight.request ELSE watch
  IN IF view.next < Len(Sources)
     THEN view' = seen /\ watch' = watched /\ shown' = NothingShown
     ELSE /\ \E online \in Online(seen) :
               LET life == Lifecycle(seen, online) IN
               shown' = [request |-> life.request, stage |-> life.stage,
                         pose |-> Pose(life.stage, online),
                         newest |-> seen.newest, watched |-> watched]
          /\ view' = NoView /\ watch' = Nobody

PanelReads == ReadSource /\ UNCHANGED vars

(* Everybody else takes no notice of the panel.                            *)
OthersStep ==
  /\ Next /\ UNCHANGED view /\ shown' = NothingShown
  /\ watch' = IF inFlight'.request = watch THEN watch ELSE Nobody

PanelNext == OthersStep \/ PanelReads
PanelSpec == PanelInit /\ [][PanelNext]_<<vars, panel>>

-----------------------------------------------------------------------------
(* However the files change under the panel's reading (711-1119), it names *)
(* a verdict only where that verdict was ingested for the task it shows,   *)
(* and a task that waits for review only when it is recorded as a success. *)
(* The sanctuary is at rest only when nothing was in flight all along.     *)
PanelIsTrue ==
  LET r == shown.request IN
  /\ shown.stage \in Verdicts => verdicts[r] = shown.stage
  /\ shown.pose = "idle" => shown.watched = Nobody
  /\ shown.stage = "WAITING_FOR_CHATGPT_REVIEW" =>
       r \in ToSet(processed) /\ answer[r] \in Success

(* It never goes back to a task older than the newest record there was     *)
(* when the read began, and a request that was in flight all through the   *)
(* read is the task it shows.                                              *)
NothingOlderIsShown ==
  /\ shown.request >= shown.newest
  /\ shown.watched # Nobody => shown.request = shown.watched
=============================================================================
