# Verification of Local AI Workbench

TLA+ models of the parts of Local AI Workbench that have a protocol of their own,
the TLC runs that check them on small instances, and the theorems TLAPS proves about
them. Paths are relative to the root of the repository; `B3` is
`src/local_runner_bridge/bridge_operator_b3.py`, `LS` is
`bridge_operator_lifecycle_state.py` and `PO` `display_pilot_operator.py` beside it.

## 1. The system

The repository holds a local workbench for AI-assisted development: a bridge that turns
relay requests posted on a GitHub control issue into bounded local runs, the
PowerShell dispatcher and runners it starts, a second operator for display pilots, a
read-only panel, a desktop companion, and a small FastAPI/React workbench. The program's
own logic, and nearly all of its state kept across crashes, is in the bridge.

| Component | Code | State it keeps | Operations | What makes it correct |
| --- | --- | --- | --- | --- |
| Bridge Operator B3: loop and recovery | `B3` | `operator.lock`, `in_flight.json`, `processed_requests.jsonl`, `*.quarantine.*` in the state directory; per process: the lock payload, the record it holds, cycles, suppressed probes | start-up, recovery of an interrupted request, lock, bounded polling, delegation, settlement, release | one loop at a time; no request run or recorded twice; an interrupted dispatch is neither lost nor repeated; every session ends |
| B3: review candidates and verdicts | `B3` 840-1234, 1699-2110 | `review_candidate.json`, the launcher's routing file, `final_review_verdicts.jsonl` | persist the candidate, prepare and route to the next checkout, ingest final verdicts | work is never recorded or left behind without its pointer; a verdict is ingested once, exactly, and in the end |
| Lifecycle evidence | `LS` | the same files, process identities | durable JSON write, exclusive create, JSONL append, exact removal, lock inspection, quarantine | a crash between any two steps leaves evidence that a restart reads correctly |
| Local Dispatcher v1 | `scripts/local_dispatcher_v1.ps1` | its own process, the result comment | validate, run the local runner, post the result, exit code | the exit code never understates what ran |
| Durable evidence reconciliation | `durable_evidence_reconciliation.py`, `durable_evidence_provider.py` | none (reads the target issue) | resolve one request | settles only on one trusted exact match, never contradicts itself |
| B1 selection | `bridge_operator_b1.py` | none (reads the control issue and the processed records) | classify every marker, select one request | at most one request; no replay; noise is harmless |
| Result notifications | `workflow_result_notifications.py` | `workflow_result_notifications.json` | activate, scan, submit, record the outcome | nobody is notified twice, no result is passed over |
| B2 one-shot delegation | `bridge_operator_b2.py`, `bridge_operator_b2_cli.py` | none of its own | one delegation, the dispatcher invoker | the time-out leaves the process alone |
| Display Pilot operator | `PO`, its CLI, transport and adapter | `operator.lock`, `in_flight.json`, processed records, process and machine evidence, six result files, three recovery records | run one selected request, judge, verify, record; close an interrupted one | a request runs once and has one end; a success is witnessed; a recovery can be finished |
| Workflow panel, sanctuary projection | `workflow_panel.py`, `sanctuary_projection.py` | none durable | read the operator's files, derive one task and its stage | a mixture of moments is never shown as a fact that never held |
| Workflow observability | `workflow_observability.py` | one append-only event store; a sink process per run; connections | append, replay, follow, find the current run | no gap, no repetition, the newest run |
| Local Runner v1, v2 | `scripts/local_runner_v1.ps1`, `local_runner_v2.ps1` | working tree, evidence bundles | run one approved task | seen from outside only |
| Companion core | `src/companion_core/core.py`, `review.py`, `work.py`, `surface.py`, `runtime.py`, `domain.py` | tasks, receipts, decisions and proposals in one data directory | propose, confirm, run, cancel, review, decide | one decision for a receipt, an approval is used once |
| Companion conversations, sign-in, Codex adapter | `chat.py`, `siwc.py`, `codex.py`, `native_codex.py` | turns, tokens, a Codex subprocess | send, interrupt, recover | an interrupted turn is accounted for |
| Launcher, start-up task | `scripts/start_bridge_operator_b3c.ps1`, `configure_bridge_operator_b3c_startup.ps1`, ... | a launcher mutex and logs | start an operator | |
| Contracts, task packet and surface, host check, preflight, diagnostics, Windows helper | `writeback_*.py`, `task_*.py`, `host_check.py`, ... | none | validate one document, report once | |
| Workbench API and web client | `api/app`, `web/src` | one SQLite database, exported notes | CRUD, export | a row and its exported file agree |

### How the bridge works

    control issue --B1 poll--> Bridge Operator --creates--> Local Dispatcher --> runner --> sink
                                |   ^                             |                          |
      operator.lock, in_flight, |   | resolve                     | result comment           |
      processed_requests.jsonl <+   +-- target issue <------------+                    event store
      candidate, routing,       |          ^                                                 |
      verdicts               <--+          +-- reviewers' final verdicts                     |
                                |                                                            |
                                +--> result notifications --> desktop        panel <---------+

* Operator processes share nothing but the files of the state directory. There is no
  lock server: a session owns the loop when it has created `operator.lock`
  exclusively, and a starting session may move a lock aside ("quarantine") when the
  process identity recorded in it, and every descendant, is provably gone.
* The operator and the dispatcher share the exit code and the comment thread. The
  operator may give up waiting and leave the dispatcher running.
* The dispatcher and a later operator share only the comment thread: what a crashed
  session's dispatcher has done is learnt from GitHub through the resolver.
* The settlement of a reviewable result writes the candidate pointer, then the routing of the
  next checkout, then the processed record. Reviewers answer on the target issue.
* The notification scanner and the panel read files that an operator is writing; the panel
  also reads the event store that the sinks of successive runs append to.
* The Display Pilot operator has a state directory and a lock of its own.

### How conversation work runs

    page --preview, confirm--> ProjectWork --start--> Surface --thread--> Companion.run
      |                          | proposal row          | active task        | grant, once
      +--status, cancel, decide--+-----------------------+--- ReviewStore <---+ receipt

HTTP handlers are threads of one host process (`Vault` keeps a second host away with
`host.lock`). `work.lock` covers a preview, a whole confirmation, and the moment in which the
worker takes its grant; the proposal rows and the review records survive the host.

Hard behaviours, each with its line in the `hazards` list of `PROJECT.json`: a crash
between any two durable steps; writes that fail, that fail although they are done, or
that leave a temporary file or part of a line; processes that outlive the one that gave up on
them; several operators started at the same time; state read before the lock is taken and
used afterwards; comments that anybody may post at any time; records that are appended while
they are scanned, and files that change one after the other while they are read; connections
that break.

## 2. Modules

| Module | Models | Extends / uses |
| --- | --- | --- |
| `DurableOrdering` | abstract: the durable ordering states promised for one request | |
| `Reconciliation` | `durable_evidence_reconciliation.py` as operators | |
| `EvidenceThread` | the target issue over time, seen by the resolver | `Reconciliation` |
| `BridgeOperator` | `B3`'s loop, `LS`, the B2 invoker and the dispatcher | instances of `Reconciliation` and `DurableOrdering` |
| `ReviewState` | `B3`'s review candidate, next checkout and verdicts | |
| `WorkflowPanel` | the panel reading the files of `ReviewState` | `ReviewState` |
| `ObservationStream` | sinks, store, replay, current run | |
| `RelaySelection` | B1 classification and selection | |
| `ResultNotifications` | the notification scanner | |
| `DisplayPilot` | the Display Pilot operator and its recovery | |
| `CompanionWork` | the companion's proposals, worker, receipts, decisions and status requests | |
| `BridgeOperatorProofs`, `EvidenceProofs`, `RelaySelectionProofs`, `NotificationProofs`, `DisplayPilotProofs`, `CompanionProofs` | theorems | the module they are about |
| `StreamProofs` | theorems about the observation store | `ObservationStream` |
| `ReviewProofs` | theorems about the review state and the panel that reads it | `WorkflowPanel` |
| `MC...` | constants, views and symmetry for TLC | the module they are about |

`PROJECT.json` maps every definition that stands for code to its lines.

### BridgeOperator

One element of `Sessions` is one run of the operator process, with its own
`operator_session_id`. The shared variables are the files: `lock` (owner and whether the
content is complete: `write_exclusive_json` creates the file before it fills it),
`inFlight` (owner, request, durable ordering state), `processed` (the lines, one of
which may be torn), `quarantined` (the owners named by the quarantine files) and `tmp`
(sessions in whose name a temporary file of a durable write was left behind). `held`,
`target`, `job`, `verdict`, `code`, `cycle` and `suppressed` are the local variables of
the process that live across steps; `chain[s]` is the dispatcher process session s
created and `runs[r]` counts how often a runner was started for request r. `thread`
holds the comments of the target issue, in the form `Reconciliation` reads.

Every file operation, process call and read of GitHub that another process can observe
or that can fail is a step of its own; the code between two such operations belongs to
the step before or after it. The labels of `pc` follow the code:

| Labels | Code |
| --- | --- |
| `startup`, `inspect` | `run_bridge_operator_b3_dry_run_loop` up to the recovery (`B3` 206-377) |
| `recover`, `recReconcile`, `recAppend`, `recMark`, `recRemove` | `_recover_existing_in_flight` (`B3` 2206-2443) |
| `quarantine`, `rename` | `quarantine_lock` (`LS` 1101-1129) |
| `acquire`, `writeLock`, `begin` | lock creation and the stop after a recovered non-success |
| `loop`, `delegate` ... `remove` | the cycle and `_delegate_b3_request` (`B3` 2527-3019) |
| `finally`, `release` | the `finally` block (`B3` 723-749) |

`WriteInFlight`, `AppendRecord` and `RemoveInFlight` are the durable primitives of `LS`
with their failures. A write that raises may have been done (the read-back comes after
the replace); an append may leave part of a line. `write_durable_json` creates its
temporary file exclusively under a name made from the session id in the record, and
nothing ever removes one that a crash left behind; recovery writes under the dead
owner's id, so such a file fails it too. That is in the model.

Recovery is entered, as in the code, **before** the session owns `operator.lock`, and
the in_flight record it acts on was read **before** the lock was inspected. Section 6
says what comes of this order.

The dispatcher is `Admit` (exit 20, exit 22 or the action), `RunnerReturns` and
`PostResult`. Posting may fail, or succeed and be reported as a failure; the exit code
then is 22 for a health probe, which has no runner, and "runner reach uncertain" for the
rest. `KillDispatcher` ends the dispatcher and leaves a runner as an orphan, which the
descendant check of a later start cannot see.

### ReviewState and WorkflowPanel

`ReviewState` takes up where `BridgeOperator` has a settlement as one step. Requests are
numbered in the order they are admitted. `answer[r]` is how the run of r ended: without
success, or with one of four bindings of its result to a review candidate. The steps of a
settlement are `Persist` (the pointer is written, replaced or found present, or an objection
ends the session with the request still in flight), `Route` and `Select` (a successor checkout
is prepared and the routing turned to it, or the next task is merely unavailable),
`AppendRecord`, `Mark` and `Release`; `Recover` enters the same steps after a restart, and may
do so for another checkout, because the target is an argument of the operator. `tree` is each
checkout: whose work lies in it, whether something is staged, and its head. `Publish`,
`RunEnds`, `Review` and `Tidy` are people, reviewers and the runner. One cycle is `Scan`,
`Delegate`, `Dispatch`, `Await`; the verdict synchronisation is `ReadVerdicts` (the pending
records and the comments, read once) and `Ingest` (one record after the other, in the order of
`processed`), or `SkipVerdicts`. `report` holds what the state, heartbeat and last_failure files say.

`WorkflowPanel` extends it with a reader that takes the files one per step, in the order of
`build_workflow_snapshot`, while every action of `ReviewState` may happen in between. `Lifecycle`
is what it makes of its view, `Pose` what the sanctuary page shows. `watch` and `newest` are
history: what was in flight, and what was recorded last, when the read began.

### ObservationStream

One sink per run appends to `file`. A line is a whole record with or without its newline, a
fragment, or junk: `Mend` (an append gives the last line its newline) and `Write` are two
steps, as in `EventStore.append`, and either may be the last one of a sink. A sink finds its
next sequence once, when it opens. `Visible` is what every reader makes of the file (`Read`, of any
lines), `Among` the filter of `EventStore.read`;
`Serve`, `Receive` and `Reconnect` are one follower; `Step` folds the records of a task into the
window of its current run.

### DisplayPilot

A session is one run of `run_foreground` or of `recover_incident`. The labels of `pc` are the
places between two file operations; `mem` is what a live session remembers. The runner is a
process of its own (`runner`): the time-out kills it, but what it started may live on as an
`orphan` and still write its machine evidence. `record` and `pending` are the three recovery
records (original snapshot, incident, replay tombstone) and the files they are promoted from.
Documents are abstracted to whether they validate and to what the parent compares: a machine
evidence is a record of status, what Codex did, whether a comment was posted, the flags the
runner raised and the repository it left. `GuardHolds` is the guard on the machine evidence
that the parent keeps from reading it until the lock is released. `operator.lock` is a bare
exclusive file here: a crash leaves it until a person removes it (`RemoveLock`).

### The other modules

`Reconciliation` keeps the precedence of the checks as a sequence of (reason, comments it
objects to) pairs; the decision is the first that objects. `EvidenceThread` lets anybody
post any comment of a space and asks the resolver again after each.

`RelaySelection` classifies each marker (`ClassOf`) exactly in the order of the code:
a marker that does not parse or has no expiry is objected to before its author or
lifetime is looked at. `Poll` is the selection over the whole inbox; `Delegate`,
`Settle` and `GiveUp` let the inbox, the clock and the records move on while a
request is being delegated.

`ResultNotifications` has one step per durable write of the state file and one for the
call of the helper. The state file is created and filled in two steps. The receipt is
abstracted to the two outcomes the scanner can record; a time-out, an exit code, an
exception and a malformed receipt are one case because the code treats them as one.

`CompanionWork` has the durable rows (`rows`), receipts and decisions, and what dies with the
host: the confirmation that holds `work.lock` (`confirming`), the single `grant`, the task
on the page (`active`, `execution`) and where its thread is (`worker`). `Confirm` is the
part of `confirm` up to the call of `start`, `StartRefused` and `Start` the rest; the
worker goes through `Companion.run` and `ProjectWork.run` with a step for the grant, for
the second reading of the files, for each look at the cancellation and for each parsed file.
A decision is opened (the receipt is read) and published (linked) in two steps, a status
request reads the row, the active task and the store in three. `consent`, `executions`,
`shown` and `told` are history: what the human saw when confirming, how often a worker
began the proposal, and the final states status requests answered. The source files are one
value, so a change of any of them is a change of that value; a report that is too long or
unsafe is a version in `Broken`. A preview sets the goal of its row. `Unfit` are the goals, and
the versions whose report, that `_text` of `review.py` (36-41) refuses although preview, `start` and
`run` let them through; `PublishReceipt` is `ReviewStore.publish`, which refuses them, links the receipt,
or fails before or after linking, and `Publish` is `_execute`, which turns all of that into a
notice and goes on. The text of a revision may be refused in the same way (`PublishDecision`). `Wordings` and
`Asks` say which goals a proposal may be previewed with and which decisions a decider may ask for.

### Abstractions

* The payload validators are complete/incomplete, or valid/invalid. A lock whose content is
  incomplete is never quarantined, as in the code.
* A process identity is the session: process ids are not reused for another process
  with the same creation time.
* In `BridgeOperator` the settlement of a reviewable result is one step, and where the candidate
  can fail it, it is one of the failures of that step. `ReviewState` has those steps and one
  session at a time, which is what `MutualExclusion` of `BridgeOperator` gives it once a
  session owns the loop; recovery, which does not own it, is taken as undisturbed there.
* B1's checks of the request it already selected (issue state, comment identity) are not
  modelled: they end the loop, which `Poll` may do at any time by a fault.
* GitHub never removes or edits a comment. Editing by hand is outside the promises, except for
  the repairs of `processed_requests.jsonl` in `ResultNotifications`.
* `pause.flag` and `stop.flag` are a free choice in every cycle.
* Verdict comments nobody trusts, or that do not parse, are passed over and left out.
* Times are orders: runs and requests are numbered in the order of their start; a heartbeat of
  a session that is gone is stale or not yet, as the panel's clock may have it.
* `state.json` and `heartbeat.json` are one of the panel's reads in the model (the code reads seven files),
  and a torn verdict file counts there as its verdicts, where the code shows nothing; the model shows more.
* The probe that `Admit` of `BridgeOperator` answers always succeeds (the dispatcher may also post its
  failure). `ReviewState` has failing writes of a verdict only as crashes.
* In `ObservationStream` the age of an activity, item identities, oversized records and the blank lines
  of two readers that both mend a store are left out.

## 3. Runs

The states are distinct states. The longest runs (`ordering`, `review`, `companion_work`,
`observation`) take two to three minutes on two workers.

| Run | Instance | States | Question |
| --- | --- | --- | --- |
| `restart` | 3 sessions one after another, 1 request, 2 cycles, 3 faults | 185,012 | Do restarts, whatever crashed or failed, keep a request from running or being recorded twice? |
| `overlap` | 3 sessions, 2 at a time, 1 request, 1 fault, rename that does not replace | 114,324 | Is the lock exclusive when operators start while others run or die? |
| `ordering` | 2 sessions one after another, a request and a health probe, 1 cycle, 1 fault | 146,300 | Do the files go through the promised ordering states (`BridgeOperator` implements `DurableOrdering`), does every session end, and does a restart record what an interrupted one left? |
| `evidence` | every thread of up to 3 of the comments that differ from a trusted match in at most one attribute | 13,824 | Is a settlement always backed by one trusted match, and is it never contradicted later? |
| `selection` | every inbox of up to 3 markers, 3 instants | 17,743 | Is the selection unique, stable, free of replays and unaffected by noise? |
| `notifications` | 1 scanner, 2 requests, 4 chunks, 2 faults | 291,930 | Is nobody notified twice, none passed over, and after the last fault every record noticed? |
| `review` | 2 requests, eligible or ineligible, 2 sessions, 2 comments, 1 crash or failed write, 1 change by people | 837,703 | Is the candidate pointer ahead of records and routing, and is every verdict ingested once, exactly and in the end? |
| `panel` | 2 requests, eligible or failed, 2 sessions, 1 comment, 1 fault, one reader | 1,967,675 | Is what the panel shows true of the task it names, and never older than what was there when it began to read? |
| `observation` | 2 runs of one task, 1 frame each, 2 deaths or failures, 1 broken connection, a follower of the second run, reads of 2 records | 1,122,780 | Is the replay exact, has an "ok" sink lost nothing, and is the current run the youngest known? |
| `display_pilot` | 3 sessions of either kind, 1 request, 2 kinds of report, 2 faults | 300,321 | Does a request run once and have one end, is a success witnessed, and can a recovery be finished? |
| `companion_work` | 2 proposals, one of which may get a goal that is refused, 2 previews and 2 tasks in all, 2 contents of the files, 2 deciders, one accepts and one wants a revision, 1 crash or failure | 578,920 | Is only what was shown and approved run, once, with its outcome kept and its decision final? |
| `redispatch` | 3 sessions, 2 at a time, 1 request, 1 fault | | the finding of section 6 |

What the properties say is in the comment above each of them; in short:

* `RunAtMostOnce`, `RecordedOnce`, `OneRunnerAtATime`: no restart repeats a run or a
  record, and no runner works beside another, not even a leftover one.
* `InFlightUnderLock`: an unsettled record always has its owner's complete lock next to
  it, which is what a restart needs to tell whether the owner is gone.
* `RecordsAreBacked`: a record is backed by a trusted comment of the same outcome, and
  a rejection by the absence of any run.
* `InFlightEndsSettled`: a committed dispatch disappears only when it is recorded
  or provably nothing ran.
* `MutualExclusion`; `ImplementsOrdering`: the refinement, with `Stage` as the mapping. What a
  restart sees of a request is its record, else the in_flight record, else nothing.
* `SessionEnds`, `RecoveryCompletes`.
* `SettlesOnlyOnOneTrustedMatch`, `AnswerOnlyDegrades`; `ConsumedOnce`,
  `SelectionNeverJumps`, `NoiseIsIrrelevant`; `NeverShownTwice`, `EntriesAreTrue`,
  `NoneIsSkipped`, `EveryRecordIsNoticed`.
* `CandidateFirst`: when a reviewable success is recorded, and when the routing leaves its checkout,
  the pointer names that work or later work. `VerdictsAreExact`: a verdict is given once, by the one
  exact comment there was, to a recorded success whose binding agreed with the pointer at that moment.
  `VerdictArrives`: if that stays so, the verdict is ingested.
* `PanelIsTrue`, `NothingOlderIsShown`: a snapshot made of several moments still tells the truth about
  the task it names, and that task is not older than what was there at the first of them.
* `ReplayIsExact`, `OkIsReplayed`, `CurrentIsNewest`; `TypeOK` of `ObservationStream` includes that
  sequences stay where the store's own validation accepts them and that only the last line may lack
  its newline.
* Of the pilot: `RunAtMostOnce`, `OneEnd` (never both recorded and closed by a recovery),
  `TombstoneIsBacked` (the three recovery records agree, whoever completed them),
  `SuccessIsWitnessed`, `RecoveryFinishes`. `RunIsAccounted`, the reason for the first, is proved.
* `ApprovedOnly`, `ExecutedOnce`: consent is for what the preview showed, and is used once.
  `OutcomeIsKept`: without a fault the end of a run leaves a receipt or a stop in the row, unless the
  review store refuses its goal or report (section 6); a receipt is only there for what the store accepts,
  and never next to a stop.
  `AnswersStand`, `NeverToldOtherwise`: a saved decision stands, and status requests, each
  made of three reads, never report two different ends of the same work.
  `StartedWorkEnds`: `work.lock`, the worker and a second confirmation do not wait in a circle.

The type invariants of the modules with proofs are theorems and are not run as well, except the one of
`BridgeOperator`.

### Bounds

`MaxFaults` counts crashes, failed operations, killed processes and changes from outside
together. Three in `restart` are enough for a crash during the recovery of a crash with
one more failure in either; three sessions are the crashed one, the one that dies
recovering it and the one that finishes. Two cycles are needed for a session to see a
request again after it dealt with it. One request is enough for the properties of
`restart`, which are about each request alone; `ordering` has two because the ordering
relates requests (one in flight). `overlap` needs a third session: one dies, two race.
Three comments are enough for the resolver because every check objects to single
comments or to pairs; three markers because `Poll` compares pairs and its noise property
needs one more. Four chunks allow a duplicate record and a torn line around a fresh one.
In `companion_work` two previews are a stale and a fresh one of a proposal, or one of each
proposal; one fault is one crash, failing read, failing write or write done but reported as failed.
The refused goal exercises both outcomes of `PublishReceipt`; a refused report has the same effect, and only the
theorems cover it. Two deciders who want different things are what it takes to replace a decision.
`MaxCycles` and the bounded wait are the code's own bounds; `MaxTime` covers "not yet",
"now" and "long" expired.

Two requests in `review` and `panel` are the work under review and the one that replaces it; two
comments are two verdicts about one request, an exact and an inexact one, or one each; two sessions
are the one that dies and the one that settles what it left, possibly for the successor. `panel`
leaves out the changes by people, which no file it reads shows. `Routings` is the launcher's file
before any selection. In `observation` two runs are the killed one whose sink still drains and the next one;
two faults are the kill and one death or failed write; the follower asks for one of the two runs, so that
records it does not want lie between those it does; reads of two records leave a third for the next read. In
`display_pilot` three sessions are the operator that dies, the recovery that dies and the one that
finishes, or two operators and a recovery; the two reports are a clean success and one whose facts
contradict its flags; one request is enough because all its properties are about each request alone, and
two faults are a crash and a second one, a failed write or a change from outside.

`SharedView` hides the local variables of ended sessions, which no action reads, and the
symmetry permutes sessions, which differ only in name. Both are used in the safety runs of
`BridgeOperator` only; the liveness runs use neither.

`PosixRename` says whether `os.rename` replaces an existing destination. The code refuses
to quarantine onto an existing file, but in a separate step. `restart` sets it to `TRUE`
(one process at a time, so it makes no difference to the properties), `overlap` to `FALSE`,
which is Windows, the platform the launcher targets. With `TRUE` and overlapping starts
`MutualExclusion` does not hold: with `MaxAlive = 3`, four sessions and no request, a
second starter renames the fresh lock of the first onto the existing quarantine file.

### Fairness

`FairSpec` of `BridgeOperator` has weak fairness on `Start`, `Operator` and `Dispatcher` of
every session. An operator process has no waits of its own except bounded ones (the
cycle count, the poll interval, the dispatcher time-out), so a live one takes its next
step; the dispatcher and the runner run under time-outs of their own; and the launcher
starts an operator again. Nothing is assumed about crashes, relays, expiry or other
people's comments. `ResultNotifications` assumes that the operator keeps calling the
scanner and that a call goes on. Liveness is checked only for operators one after another (`MaxAlive =
1`) and after the last fault.

`FairSpec` of `ReviewState` has weak fairness on the session's steps and strong fairness on
`ReadVerdicts`: the comments cannot be read in every cycle (`SkipVerdicts`), but again and again. The
session may still be stopped, or die, at any time; `VerdictArrives` speaks of one that stays up.

`FairSpec` of `DisplayPilot` has weak fairness on the steps of a session: the runner call has a time-out
and the polling a last cycle. Nothing is assumed about the runner or about people. `RecoveryFinishes`
begins after the last fault, with no runner left and no fragment of a pending file.

`FairSpec` of `CompanionWork` has weak fairness on the thread's steps and on a confirmation
that holds the lock, and strong fairness on taking the grant, which needs `work.lock`: people do
not confirm without a pause, so the lock is free again and again and the worker gets
it. Nothing is assumed about the human's actions or about crashes.

`RecoveryCompletes` has the antecedent `Settleable`, in which the owner of the record is
dead and the result is on the thread. It deliberately says nothing of a record that is
withdrawn while its session lives: a health probe whose comment was posted although
`gh` reported a failure exits with 22, its in_flight record is removed, and if the
probe then expires its trusted result is never recorded. This follows the code's rule that
exit 22 does not consume a request, and a probe runs nothing.

## 4. Proofs

TLAPS proves, for every value of the constants (any number of sessions, requests, cycles, faults,
comments, markers and reports), from the assumptions stated in the modules, which TLC evaluates in
every run:

* `BridgeOperatorProofs!TypeCorrect`: `Spec => []TypeOK`. The primitives have a type lemma
  each (`WriteType`, `AppendType`, `RemoveType`), `OutcomeType` covers the `CHOOSE` in
  `OutcomeOf`, and the steps are grouped as in `Next`.
* `LockInvariant` and `LockIsExclusive`, under the assumption `~PosixRename`. Mutual
  exclusion is not inductive. `LockInv` adds what the check-then-act of the start-up
  relies on: whoever owns has its own complete lock in the file, whoever is filling
  a lock has its own empty one there, whoever is about to move a lock aside has a *dead*
  target, and at the moment of the rename either that target's lock is still there or
  its quarantine file exists, so that the rename fails. A dead session never lives again,
  so `Dead(target)` is stable; the quarantine file is never removed, so the second
  alternative is stable too. Steps that do not touch the lock are one lemma
  (`QuietKeepsLockInv`), the six that do are proved one by one in `LockStep`.
* The second part of `BridgeOperatorProofs`: for operators one after another (`MaxAlive <= 1`, a hypothesis of each theorem and
  the setting of `restart` and `ordering`; with two live operators the first of them is false, see section 6).
  `OperatorInv` has a part about the files and a part about each session. `FlightInv` ties the stage
  of the in_flight record to the runs, the thread and the records. `WorkInv` says that a dispatcher, or the
  runner it left behind, only ever works under the dispatched record of its own session, which is why
  `finally` must leave record and lock behind after a time-out. `HoldsFiles` says at which places the
  session's copy is the file, `KnowsRequest` what it has established about its request there: above all
  that from `prepare` to `spawn` nothing ran and no trusted result exists. From it follow
  `RunsAtMostOnce`, `RunnersTakeTurns`, `FlightIsLocked`, `RecordsAreUnique`, `RecordsAreTrue`, and the
  action property `FlightEndsSettled`. The invariant needs the recovery's reads before the lock to be
  undisturbed, so it is exactly where a second operator breaks it.
* `OrderingImplemented`: under the same hypothesis `BridgeOperator` implements `DurableOrdering`. Each step
  that changes a file maps to one step of the ordering (with all the invariant says of its place), every
  other one to a stutter. `OrderingInv` (types and the two safety properties together) is inductive in the
  abstract specification; `RunsUnderDispatch`, `OneInFlightAtATime` and `SettledForGood` state it for the
  ordering and, through the refinement, for the operator.
* `EvidenceProofs`: `SettlementHasOneSource` and `AnswerDegrades`. The resolver's sequences of
  checks are first reduced to two predicates, `Tainted` and `Suspect`
  (`TaintedFails`, `SuspectFails`), which only grow with the thread (`Monotone`).
* `RelaySelectionProofs`: `TypeCorrect`, `NoSecondConsumption` (inductive with `PendingIsNew`:
  what is being delegated has no record under its id), `SelectionStays` and `NoiseDoesNotCount`. The inbox
  without its noise is `Quiet`, which takes the markers that are heard by their rank; `Ranks` and
  `HeardInOrder` say that the ranks go over the list in order and leave none out, so that the first
  marker of a class is the same in both (`SameFirst`).
* `NotificationProofs`: `TypeCorrect`, and for one scanner `NotShownTwice` and
  `FileTellsTheTruth`. Neither is inductive: the invariant `Noted` says what the scanner's copy and the
  file know at each of its places, above all that from the moment the helper is asked until the outcome
  is written the file has an entry that is not tried again. It needs that there is one scanner: with two,
  each acts on its own copy. `NothingIsSkipped` holds for any number: each copy, wherever its scanner
  is and whenever it was read, has exactly the entries of the records between activation and its own
  position (`FaithfulInv`), and that goes for the file whichever copy is written last.
* `ReviewProofs`: `TypeCorrect`, `CandidateLeads`, `VerdictsExact`. The invariant adds that records are
  appended in the order of the requests and never twice, that a session at work has the next one to
  be recorded, and has it in flight, that a session past `Persist` has the pointer on it if its work was
  eligible, and that the pointer is never ahead of the next record. `VerdictsExact`, an
  action property, follows because what a session still has to ingest was pending when it read the
  comments and nothing but `Ingest` writes verdicts.
  `PanelShowsTheTruth` and `PanelNeverGoesBack` are about the panel beside it. `PanelInv` says of a view
  that is read up to a certain file what it can be trusted for although everything read may have changed
  since (`Agrees`): records and verdicts only grow, a scan it read was not ahead of the records, a block it
  read was about nothing older than the newest of them; the rest is a case distinction over `Lifecycle`. It rests on
  `StageAssumption`: the reviewers' verdicts (`FINAL_REVIEW_VERDICTS`, `LS` 42) are none of the stages the panel
  itself gives.
* `DisplayPilotProofs`: `TypeCorrect`, `RunsOnce`, `RunsAreAccounted`, `OneEndEach`, `SuccessesAreWitnessed`,
  `TombstonesAreBacked`. A live session owns the
  lock, so the others are at rest (`Alone`); `SessionInv` says of each place what the session has found or
  written: from `WriteInFlight` to `Release` its request is in flight and has no tombstone, from
  `WriteEvidence` on it has process evidence, at `Launch` it either never ran or has such evidence, and
  from `Inspect` on a recovery's request is not recorded. An ended or crashed session needs nothing
  (`Idle`), which is why a crash keeps the invariant. On top of it, `WitnessInv` follows what the parent
  knows of a runner that exited up to the record, and `BackedInv` says that a recovery
  only gets to a later record when the earlier ones are those it wants, whoever promoted them.
* `CompanionProofs`: `TypeCorrect`, `ApprovalIsUsedOnce`, `DecisionsStand`, `OnlyWhatWasApproved`,
  `EndsAreOnRecord`, `NeverContradicted`. That a proposal runs once is not
  inductive: `UsedOnce` adds that without a task nothing of it has run and no grant is for it,
  that whatever is being confirmed has no task yet (previews and confirmations exclude each
  other under `work.lock`), and that whatever is granted has not run.
  Five steps need an argument (`Confirm`, `Start`, `StartRefused`, `TakeGrant`, `HostExit`); the
  others leave the tasks of the rows, the grant and the runs alone (`QuietKeepsUsedOnce`).
  `DecisionsStand` is inductive with the types: a publication links to a name that must be free.
  `OnlyWhatWasApproved` needs `ConsentInv`, which follows the version from the preview over the confirmation,
  the row and the grant to the worker and its receipt. `EndsAreOnRecord` (`OutcomeInv`) adds where the
  outcome is kept while the worker still lives, as long as nothing failed; that the row of a task is unique and
  its goal final once it has the task, so that what the store refuses is a fact of the row; and that a worker that
  stopped has no receipt. `NeverContradicted` is about
  two requests of three reads each: `TellInv` says that what any of them has read so far is compatible
  with the durable facts of the proposal, of which only one end can come.

* `StreamProofs`: `TypeCorrect`, `ReplayExact`, `OkReplayed`, `CurrentNewest`. The readers are folds, written
  as recursive functions. `FoldExists` shows that such a function exists (a position-by-position definition
  determines it; `LeastOf` takes the least position at which it would fail), and `UpToTheLast` carries a
  property from each position to the next. With them `ReadIsOrdered` says without a fold what a reader sees:
  the increasing sequence of the complete records whose sequence exceeds that of every complete record
  before them (`Shown`). `SameRecordsSameOrder` says that there is only one such sequence, so everything else is about
  sets of records. The invariant has five parts. `FileOK`: only the last line lacks its newline. `SinkInv`:
  what a sink was given, and what of it the file may hold: nothing before its first write, nothing above the sequence that
  is next, no start behind other events of its run. `BoundInv`: a run uses up `MaxFrames + 3` sequences at
  most, counted over the runs that have begun, however often sinks overlap. `ReplayInv`: what was received
  and what is on the wire are the wanted records up to the cursor, which never is above what a later
  append will be given (`GrowingKeepsReplay`: what becomes visible later comes behind all that is visible). `OkInv`: the
  visible records of a sink that is well are those it was given and has written, numbered without a gap.
  `CurrentNewest` then goes over the visible records once more: `SoFar` is what a window says of the records it was
  made of, kept by every `Step` (`WindowStep`), whose seven cases are three to it (`StepMakes`).

So every safety property a passing run checks is also a theorem: without further hypothesis, except that
those of `BridgeOperator` other than its types assume `MaxAlive <= 1` or `~PosixRename`, and two of
`ResultNotifications` one scanner. Only model-checked are the liveness properties (`SessionEnds`, `RecoveryCompletes`,
`EveryRecordIsNoticed`, `VerdictArrives`, `RecoveryFinishes`, `StartedWorkEnds`): they rest on
fairness, which is out of this prover's reach.

## 5. Reading the mutants

Next to some definitions stands a "mutant": the same operation with a plausible mistake (a guard
dropped, two steps swapped, a value not reset). No module uses it. For every property of
a passing run one mutant, put in the place of the definition it follows, makes that property fail.

## 6. Findings and observations

`redispatch` (`RunAtMostOnce` with two operators at a time) is a finding. `B3` line 325 reads
`in_flight.json` before line 340 inspects `operator.lock`, and does not read it again.
Operator A starts and reads no record; B, which owns the lock, dispatches a request,
gives up waiting and ends, leaving lock and record as it should; its dispatcher runs the
runner but does not get to post the result. A now inspects the lock, finds owner and
descendants gone, moves the lock aside without reconciling anything (it read no record),
becomes the owner, finds no result on GitHub and dispatches the same request over B's
record: the runner starts a second time. The comment at `B3` 2737-2739 and the runbook say a
restart reconciles and never redispatches; `docs/BRIDGE_OPERATOR_V0_SPEC.md` 277 says
a processed request must not execute again. It needs two operators that start at nearly the same
time; the launcher makes that unlikely, but the operator's own protocol is what the documents rely on.

The following came up while modelling and is in the models, but no run is about it:

* Recovery runs before the lock is owned, so two operators started after one crash can both append
  the settlement; from then on every reader refuses the file (`B3` 3159) until it is repaired by
  hand. `RecordedOnce` does not hold with `MaxAlive = 2`.
* The start-up path scans for notifications before the lock is owned (`B3` 378), and the scanner has no
  lock: two operators in recovery submit the same notification. `NeverShownTwice` does not hold with
  two scanners.
* A marker that cannot be parsed blocks B1's selection whoever posted it and however old it is; the
  model has no action that ends this.
* When the candidate pointer has moved on to later work, an eligible result without a verdict stays
  pending for ever: every synchronisation reads its comments and reports
  `candidate_binding_mismatch`, although the docstring at `B3` 848 says that every unresolved verdict is
  ingested. `VerdictArrives` speaks of requests whose binding still agrees.
* A request recovered after the routing was turned to its successor is recovered for the new checkout,
  which does not hold its work; the settlement then stops with an objection until the operator is started for
  the old checkout. Nothing is lost (`CandidateFirst`), but the launcher alone does not get past it.
* While a request is in flight the panel takes any failure recorded for that request as current,
  also one of an earlier attempt (`workflow_panel.py` 443).
* A record that was written whole but without its newline becomes readable when the next sink appends, and
  then has the sequence which that sink gives to its first event; readers pass the latter over. `OkIsReplayed`
  excludes it (`clean`). If the start of a younger run is lost this way, or in a failed write, a late start of an
  older run makes that one current; the comment at `workflow_observability.py` 733 promises the order
  only among starts that were recorded, which is what `CurrentIsNewest` states.
* A crash in the write of a `.pending` file of the pilot (`PO` 1624) leaves a fragment that every later
  recovery calls a conflict; `RecoveryFinishes` excludes it.
* A pilot that dies between the processed record and the release of `in_flight.json` leaves a state that no
  operator and no recovery gets past; `OneEnd` says that it is at least not closed twice.
* When a second confirmation of conversation work gets `work.lock` before the worker of the first took
  its grant, it is refused and `work.py` 145 clears the grant, which is the first one's; the approved work then
  fails with a policy mismatch and its approval is used up. The outcome is kept and nothing runs unapproved.
* A goal like "audit how turn/completed is handled" passes preview, confirmation and `start` (`work.py` 86-90,
  `surface.py` 81), but `ReviewStore.publish` refuses it after the run (`review.py` 36-41 and 126-129), and a report
  that names such text as well. `_execute` keeps a notice only (`surface.py` 99-104), and `_finished` stores
  no stop for a completed run (`work.py` 152): the approval is used up, the result is gone, and the status is UNKNOWN
  once another task is shown or the host has ended. It needs no failure. `OutcomeIsKept` names it as the only way in
  which, without a fault, an outcome is lost.

## 7. Not modelled

* The inside of Local Runner v1 and v2 and the dispatcher's own validation: commands on a working
  tree, and field checks.
* The launcher's own checks: an operator may be started at any time, which includes whatever they let through.
* The one-shot flow of B2, which B3 supersedes; only its invoker is modelled.
* Companion conversations, sign-in and the Codex adapter (the interrupt hazard at `codex.py` 329 is open), creating
  a proposal, account checks, the event list of the page, and `Companion.review`, which the surface
  does not use.
* B1's checks of a selected request; the composition of `RelaySelection` with `BridgeOperator`.
* The numbering of the panel's snapshots for viewers, its HTTP surface and its wording.
* The workbench API's rows and exported notes.
* The Windows notification helper, the web front end, contract validators, diagnostics and one-shot checks: no
  protocol; field checks are better covered by their unit tests.
