----------------------------- MODULE CompanionWork -----------------------------
(***************************************************************************)
(* Conversation work of the Companion (work.py, surface.py, core.py,       *)
(* review.py): a proposal is previewed, the human confirms exactly what    *)
(* the preview showed, a worker thread runs it once over the approved      *)
(* sources, and the result waits for one human decision.                   *)
(*                                                                         *)
(* HTTP handlers are threads, so confirmations, previews, cancellations,   *)
(* decisions and status reads interleave with the worker.  work.lock covers*)
(* a whole confirmation and the moment in which the worker takes its grant.*)
(* The proposals (SQLite) and the review records (one file each, linked    *)
(* into place) are durable; the rest is gone when the host process dies.   *)
(* Vault's host.lock keeps a second host away from the same data.          *)
(***************************************************************************)
EXTENDS Naturals, Sequences, FiniteSets

CONSTANTS
  Proposals,
  Versions,     \* contents the selected source files can have
  Broken,       \* the versions that do not parse
  Goals,        \* wordings of a goal
  Wordings,     \* those that each proposal may be previewed with
  Unfit,        \* goals, and versions whose report, that the review store refuses
  Deciders,     \* handlers and review command lines that may decide
  Actions,      \* the decisions there are: accept, reject, revise
  Asks,         \* what each decider may ask for
  MaxTasks,     \* tasks that can be started
  MaxPreviews,  \* previews, of all proposals
  MaxFaults,    \* host exits and failing reads and writes
  None

Tasks == 1 .. MaxTasks
ASSUME WorkAssumption ==
  /\ MaxTasks \in Nat /\ MaxPreviews \in Nat /\ MaxFaults \in Nat
  /\ Broken \subseteq Versions /\ Unfit \subseteq Goals \cup Versions
  /\ Actions \subseteq {"accept", "reject", "revise"}
  /\ None \notin Proposals \cup Versions \cup Goals \cup Nat
ASSUME InputAssumption ==
  /\ \A p \in Proposals : Wordings[p] \subseteq Goals
  /\ \A d \in Deciders : Asks[d] \subseteq Actions

VARIABLES
  source,      \* what the selected files contain
  rows,        \* work_proposals: goal, preview, approval, task_id, stopped
  receipt,     \* <task>.result.json: the version the report is about
  decision,    \* <task>.decision.json
  confirming,  \* the confirmation that holds work.lock
  grant,       \* ProjectWork.grant
  active,      \* Surface.active: the task of the current Companion
  execution,   \* its execution state
  worker,      \* where Surface.worker is
  captured,    \* what the worker works on: the granted manifest, then its capture
  deciding,    \* what each decider asks for, or was told is saved
  reader,      \* a status request in progress
  shown,       \* what each preview showed, in their order
  consent,     \* what the human had been shown when confirming a task
  executions,  \* how often a worker started on a proposal
  told,        \* final states a status request has reported
  faults

durable == <<rows, receipt, decision>>
thread == <<active, execution, worker, captured>>
history == <<shown, consent, executions>>
vars == <<source, durable, confirming, grant, thread, deciding, reader, history,
          told, faults>>
-----------------------------------------------------------------------------
Stops == {"FAILED", "CANCELLED"}
(* The acceptance state each decision stands for.                          *)
Acceptance == [accept |-> "ACCEPTED", reject |-> "REJECTED",
               revise |-> "REVISION_REQUESTED"]
Final == Stops \cup {Acceptance[a] : a \in Actions}

Executions == {"none", "CREATED", "RUNNING", "CANCEL_REQUESTED", "COMPLETED"} \cup Stops

NoConfirm == [proposal |-> None, manifest |-> None, shown |-> None]
NoGrant == [proposal |-> None, manifest |-> None, task |-> None]
Quiet == [task |-> None, action |-> "none", answer |-> "none"]
Idle == [proposal |-> None, task |-> None, at |-> "none", state |-> "none"]
Unbound == [goal |-> None, preview |-> None, approval |-> None, task |-> None, stopped |-> "none"]

WorkerAlive == worker \notin {"none", "dead"}
Used == {t \in Tasks : consent[t] # None}

Init ==
  /\ source \in Versions
  /\ rows = [p \in Proposals |-> Unbound]
  /\ receipt = [t \in Tasks |-> None] /\ decision = [t \in Tasks |-> "none"]
  /\ confirming = NoConfirm /\ grant = NoGrant
  /\ active = None /\ execution = "none" /\ worker = "none" /\ captured = None
  /\ deciding = [d \in Deciders |-> Quiet] /\ reader = Idle
  /\ shown = <<>> /\ consent = [t \in Tasks |-> None]
  /\ executions = [p \in Proposals |-> 0] /\ told = [p \in Proposals |-> {}]
  /\ faults = 0

Fault == faults < MaxFaults /\ faults' = faults + 1
NoFault == UNCHANGED faults
-----------------------------------------------------------------------------
(* Preview and confirmation, both under work.lock.                         *)

(* Every preview sets the goal and brings a new approval; the n-th of all  *)
(* is called n here.  The goal a proposal is created with is never run.    *)
Preview(p, goal) ==
  /\ confirming = NoConfirm
  /\ rows[p].task = None /\ Len(shown) < MaxPreviews
  /\ shown' = Append(shown, [proposal |-> p, version |-> source])
  /\ rows' = [rows EXCEPT ![p].goal = goal, ![p].preview = source,
                           ![p].approval = Len(shown')]
  /\ UNCHANGED <<source, receipt, decision, confirming, grant, thread, deciding,
                 reader, consent, executions, told, faults>>

(* Mutant: any preview of the proposal will do.                            *)
ConfirmableByAny(p, approval) == rows[p].preview # None

Confirmable(p, approval) == rows[p].task = None /\ rows[p].approval = approval

(* The approval that came with some preview is sent back; the sources must *)
(* be what the row says was previewed.                                     *)
Confirm(p, approval) ==
  /\ confirming = NoConfirm
  /\ shown[approval].proposal = p /\ Cardinality(Used) < MaxTasks
  /\ Confirmable(p, approval)
  /\ source = rows[p].preview
  /\ confirming' = [proposal |-> p, manifest |-> source, shown |-> shown[approval].version]
  /\ UNCHANGED <<source, durable, grant, thread, deciding, reader, history, told, faults>>

(* bind: the row gets its task, which uses the approval up.                *)
Bind(p, task) ==
  rows' = [rows EXCEPT ![p] = IF @.task = None
                              THEN [@ EXCEPT !.task = task, !.approval = None]
                              ELSE @]

(* Surface.start with bind, and the answer of confirm.  Whatever start     *)
(* raises, confirm takes the grant back and releases work.lock.            *)
Refused == confirming' = NoConfirm /\ grant' = NoGrant

(* Mutant: instead of refusing, start waits for the previous worker, which *)
(* may be waiting for work.lock.                                           *)
StartQueued ==
  /\ confirming # NoConfirm /\ ~WorkerAlive /\ Fault
  /\ Refused
  /\ UNCHANGED <<source, durable, thread, deciding, reader, history, told>>

StartRefused ==
  /\ confirming # NoConfirm
  /\ \/ WorkerAlive /\ NoFault
     \/ ~WorkerAlive /\ Fault
  /\ Refused
  /\ UNCHANGED <<source, durable, thread, deciding, reader, history, told>>

Start(task) ==
  /\ confirming # NoConfirm /\ ~WorkerAlive /\ task = 1 + Cardinality(Used)
  /\ Bind(confirming.proposal, task)
  /\ consent' = [consent EXCEPT ![task] = confirming.shown]
  /\ active' = task /\ execution' = "CREATED" /\ captured' = None
  /\ \/ /\ grant' = [proposal |-> confirming.proposal, manifest |-> confirming.manifest,
                     task |-> task]
        /\ confirming' = NoConfirm
        /\ worker' = "started" /\ NoFault
     \/ Refused /\ worker' = "none" /\ Fault   \* the thread does not start
  /\ UNCHANGED <<source, receipt, decision, deciding, reader, shown, executions, told>>
-----------------------------------------------------------------------------
(* The worker thread: Surface._execute around Companion.run around run.    *)

Goes(from, to) == worker = from /\ worker' = to
Elsewhere == UNCHANGED <<source, confirming, deciding, reader, shown, consent, told>>

Begin ==
  /\ Goes("started", "granting") /\ execution' = "RUNNING"
  /\ Elsewhere
  /\ UNCHANGED <<durable, grant, active, captured, executions, faults>>

(* Needs work.lock.  A confirmation refused in between has taken the grant *)
(* away: the approved work then fails, by policy, without having run.      *)
TakeGrant ==
  /\ worker = "granting" /\ confirming = NoConfirm
  /\ grant' = NoGrant
  /\ IF grant = NoGrant
     THEN /\ worker' = "finishing" /\ execution' = "FAILED"
          /\ UNCHANGED <<captured, executions>>
     ELSE /\ worker' = "inspecting" /\ captured' = grant.manifest
          /\ executions' = [executions EXCEPT ![grant.proposal] = @ + 1]
          /\ UNCHANGED execution
  /\ Elsewhere
  /\ UNCHANGED <<durable, active, faults>>

(* Mutant: the worker trusts the check made by confirm and reports about   *)
(* what it reads now.                                                      *)
InspectAnything ==
  /\ Goes("inspecting", "auditing") /\ captured' = source
  /\ Elsewhere
  /\ UNCHANGED <<durable, grant, active, execution, executions, faults>>

(* The sources must still be the approved ones.                            *)
Inspect ==
  /\ worker = "inspecting"
  /\ \/ source = captured /\ NoFault /\ worker' = "auditing" /\ UNCHANGED execution
     \/ source # captured /\ NoFault /\ worker' = "finishing" /\ execution' = "FAILED"
     \/ Fault /\ worker' = "finishing" /\ execution' = "FAILED"
  /\ Elsewhere
  /\ UNCHANGED <<durable, grant, active, captured, executions>>

(* Mutant: what a cancelled run has so far is published all the same.      *)
AuditAnyway ==
  /\ worker = "auditing"
  /\ IF execution = "CANCEL_REQUESTED"
     THEN worker' = "publishing" /\ execution' = "CANCELLED"
     ELSE worker' = "parsing" /\ UNCHANGED execution
  /\ Elsewhere
  /\ UNCHANGED <<durable, grant, active, captured, executions, faults>>

(* Cancellation is looked at before each file is parsed, never after.      *)
Audit ==
  /\ worker = "auditing"
  /\ IF execution = "CANCEL_REQUESTED"
     THEN worker' = "finishing" /\ execution' = "CANCELLED"
     ELSE worker' = "parsing" /\ UNCHANGED execution
  /\ Elsewhere
  /\ UNCHANGED <<durable, grant, active, captured, executions, faults>>

(* The next file, or the end: a late cancellation does not undo a result.  *)
Parse ==
  /\ worker = "parsing"
  /\ IF captured \in Broken
     THEN worker' = "finishing" /\ execution' = "FAILED"
     ELSE \/ worker' = "auditing" /\ UNCHANGED execution
          \/ worker' = "publishing" /\ execution' = "COMPLETED"
  /\ Elsewhere
  /\ UNCHANGED <<durable, grant, active, captured, executions, faults>>

(* ReviewStore._text refuses what reads like a protocol message, in the    *)
(* goal and in the report (which names what the sources define), although  *)
(* preview, start and run let it through.                                  *)
Refusable ==
  captured \in Unfit \/ \E p \in Proposals : rows[p].task = active /\ rows[p].goal \in Unfit

(* ReviewStore.publish: refused, linked, or failed before or after linking.*)
PublishReceipt ==
  \/ ~Refusable /\ receipt' = [receipt EXCEPT ![active] = captured] /\ (NoFault \/ Fault)
  \/ Refusable /\ UNCHANGED receipt /\ NoFault
  \/ UNCHANGED receipt /\ Fault

(* Whatever publish raises becomes a notice on the page, and the run goes  *)
(* on to its end as completed.                                             *)
Publish ==
  /\ Goes("publishing", "finishing") /\ PublishReceipt
  /\ Elsewhere
  /\ UNCHANGED <<rows, decision, grant, active, execution, captured, executions>>

(* Mutant: _execute tells nobody about a run that left no result.          *)
FinishSilently ==
  /\ Goes("finishing", "dead")
  /\ Elsewhere
  /\ UNCHANGED <<durable, grant, active, execution, captured, executions, faults>>

(* _finished: only FAILED and CANCELLED are kept with the proposal.        *)
Finish ==
  /\ Goes("finishing", "dead")
  /\ \/ /\ rows' = [p \in Proposals |->
              IF rows[p].task # active THEN rows[p]
              ELSE [rows[p] EXCEPT !.stopped = IF execution \in Stops THEN execution
                                               ELSE "none"]]
        /\ NoFault
     \/ UNCHANGED rows /\ Fault
  /\ Elsewhere
  /\ UNCHANGED <<receipt, decision, grant, active, execution, captured, executions>>
-----------------------------------------------------------------------------
(* Everybody else.                                                         *)

Edit(version) ==
  /\ source' = version /\ source # version
  /\ UNCHANGED <<durable, confirming, grant, thread, deciding, reader, history,
                 told, faults>>

(* Surface.cancel of the task shown as active.                             *)
Cancel ==
  /\ execution = "RUNNING" /\ execution' = "CANCEL_REQUESTED"
  /\ UNCHANGED <<source, durable, confirming, grant, active, worker, captured,
                 deciding, reader, history, told, faults>>

(* ReviewStore.decide: the receipt is read, then the decision is linked.   *)
OpenDecision(d, task, action) ==
  /\ deciding[d] = Quiet
  /\ receipt[task] # None /\ decision[task] = "none"
  /\ deciding' = [deciding EXCEPT ![d] = [task |-> task, action |-> action,
                                          answer |-> "pending"]]
  /\ UNCHANGED <<source, durable, confirming, grant, thread, reader, history,
                 told, faults>>

Linked(d) ==
  decision' = IF decision[deciding[d].task] # "none" THEN decision
              ELSE [decision EXCEPT ![deciding[d].task] = deciding[d].action]
Saved(d) == deciding' = [deciding EXCEPT ![d].answer = "saved"]
(* An error says nothing about what was linked; the human may try again.   *)
Failed(d) == deciding' = [deciding EXCEPT ![d] = Quiet]

(* Mutant: the record is moved into place, over one that may be there.     *)
PublishOver(d) ==
  /\ deciding[d].answer = "pending"
  /\ decision' = [decision EXCEPT ![deciding[d].task] = deciding[d].action]
  /\ Saved(d)
  /\ UNCHANGED <<source, rows, receipt, confirming, grant, thread, reader, history,
                 told, faults>>

PublishDecision(d) ==
  /\ deciding[d].answer = "pending"
  /\ \/ /\ Linked(d) /\ NoFault
        /\ IF decision[deciding[d].task] = "none" THEN Saved(d) ELSE Failed(d)
     \/ (Linked(d) \/ UNCHANGED decision) /\ Fault /\ Failed(d)
     \/ /\ deciding[d].action = "revise" /\ Failed(d)      \* its text is refused
        /\ UNCHANGED decision /\ NoFault
  /\ UNCHANGED <<source, rows, receipt, confirming, grant, thread, reader, history, told>>

(* ProjectWork.describe reads the row, then Surface.active, then the store,*)
(* without a lock around them.                                             *)
ReadRow(p) ==
  /\ reader = Idle /\ rows[p].task # None
  /\ reader' = [proposal |-> p, task |-> rows[p].task, at |-> "active",
                state |-> IF rows[p].stopped \in Stops THEN rows[p].stopped ELSE "UNKNOWN"]
  /\ UNCHANGED <<source, durable, confirming, grant, thread, deciding, history,
                 told, faults>>

(* Task.state of the current Companion: COMPLETED waits for its review.    *)
Shown == IF execution = "COMPLETED" THEN "RESULT_PENDING_REVIEW" ELSE execution
ReadActive ==
  /\ reader.at = "active"
  /\ reader' = [reader EXCEPT !.at = "store",
                              !.state = IF active = reader.task THEN Shown ELSE @]
  /\ UNCHANGED <<source, durable, confirming, grant, thread, deciding, history,
                 told, faults>>

Reviewed(task) == IF decision[task] = "none" THEN "RESULT_PENDING_REVIEW"
                  ELSE Acceptance[decision[task]]
Tell(state) ==
  told' = [told EXCEPT ![reader.proposal] = @ \cup ({state} \cap Final)]
ReadStore ==
  /\ reader.at = "store" /\ reader' = Idle
  /\ \/ Tell(IF receipt[reader.task] = None THEN reader.state ELSE Reviewed(reader.task))
        /\ NoFault
     \/ Tell(reader.state) /\ Fault
  /\ UNCHANGED <<source, durable, confirming, grant, thread, deciding, history>>

(* The host process ends, with its threads and everything in memory.       *)
HostExit ==
  /\ Fault
  /\ confirming' = NoConfirm /\ grant' = NoGrant /\ active' = None
  /\ execution' = "none" /\ worker' = "none" /\ captured' = None /\ reader' = Idle
  /\ UNCHANGED <<source, durable, deciding, history, told>>
-----------------------------------------------------------------------------
Worker == \/ Begin \/ TakeGrant \/ Inspect \/ Audit \/ Parse \/ Publish \/ Finish
Starting == StartRefused \/ \E task \in Tasks : Start(task)

Next ==
  \/ \E p \in Proposals :
       \/ ReadRow(p)
       \/ \E goal \in Wordings[p] : Preview(p, goal)
       \/ \E approval \in DOMAIN shown : Confirm(p, approval)
  \/ Starting
  \/ Worker
  \/ \E version \in Versions : Edit(version)
  \/ Cancel
  \/ \E d \in Deciders :
       \/ PublishDecision(d)
       \/ \E task \in Tasks, action \in Asks[d] : OpenDecision(d, task, action)
  \/ ReadActive \/ ReadStore
  \/ HostExit

Spec == Init /\ [][Next]_vars

(* Threads run and a confirmation that holds the lock gets on with it.  A  *)
(* worker that wants work.lock gets it in the end: people do not confirm   *)
(* without a pause.  No selection is endless.                              *)
FairSpec ==
  /\ Spec
  /\ WF_vars(Starting)
  /\ WF_vars(Begin) /\ SF_vars(TakeGrant) /\ WF_vars(Inspect)
  /\ WF_vars(Audit) /\ SF_vars(Parse /\ worker' # "auditing")
  /\ WF_vars(Publish) /\ WF_vars(Finish)
-----------------------------------------------------------------------------

(* Types.                                                                  *)
TypeOK ==
  /\ source \in Versions
  /\ rows \in [Proposals ->
       [goal : Goals \cup {None}, preview : Versions \cup {None},
        approval : (1 .. MaxPreviews) \cup {None}, task : Tasks \cup {None},
        stopped : Stops \cup {"none"}]]
  /\ receipt \in [Tasks -> Versions \cup {None}]
  /\ decision \in [Tasks -> Actions \cup {"none"}]
  /\ confirming \in {NoConfirm} \cup
       [proposal : Proposals, manifest : Versions, shown : Versions]
  /\ grant \in {NoGrant} \cup [proposal : Proposals, manifest : Versions, task : Tasks]
  /\ active \in Tasks \cup {None}
  /\ execution \in Executions
  /\ worker \in {"none", "started", "granting", "inspecting", "auditing", "parsing",
                 "publishing", "finishing", "dead"}
  /\ captured \in Versions \cup {None}
  /\ deciding \in [Deciders -> {Quiet} \cup
       [task : Tasks, action : Actions, answer : {"pending", "saved"}]]
  /\ reader \in {Idle} \cup
       [proposal : Proposals, task : Tasks, at : {"active", "store"},
        state : Executions \cup {"UNKNOWN", "RESULT_PENDING_REVIEW"}]
  /\ shown \in Seq([proposal : Proposals, version : Versions])
  /\ Len(shown) <= MaxPreviews
  /\ consent \in [Tasks -> Versions \cup {None}]
  /\ executions \in [Proposals -> Nat]
  /\ told \in [Proposals -> SUBSET Final]
  /\ faults \in 0 .. MaxFaults

(* A report is only ever about the very versions that the preview behind   *)
(* the human's approval showed, although the files change, older approvals *)
(* are sent back late and other proposals are confirmed meanwhile          *)
(* (confirm's approval and hash checks, and run's second hash check).      *)
ApprovedOnly == \A t \in Tasks : receipt[t] \in {None, consent[t]}

(* A proposal is run once at the most: its approval is used up when it gets*)
(* its task, whatever becomes of the thread, of the host or of a second    *)
(* confirmation (confirm, bind and the single grant).                      *)
ExecutedOnce == \A p \in Proposals : executions[p] <= 1

(* The review store refuses the goal of the proposal or what it reports.   *)
Unpublishable(p) == rows[p].goal \in Unfit \/ consent[rows[p].task] \in Unfit

(* Without a fault the end of an approved run is accounted for: once its   *)
(* worker is gone there is a receipt, or the row says how it stopped       *)
(* (_execute, _finished), and there is a receipt only for what the review  *)
(* store accepts.  Only a run whose goal or report the store refuses       *)
(* (review.py 36-41) may have neither: its status is UNKNOWN once another  *)
(* task is shown or the host is gone.                                      *)
OutcomeIsKept ==
  \A p \in Proposals :
    LET task == rows[p].task IN
    task # None =>
      /\ receipt[task] # None => ~Unpublishable(p) /\ rows[p].stopped = "none"
      /\ faults = 0 /\ ~(task = active /\ WorkerAlive)
           => receipt[task] # None \/ rows[p].stopped \in Stops \/ Unpublishable(p)

(* A decision answered as saved stays the decision of its task, whoever    *)
(* else was deciding at that time (review.py _publish: link, no replace).  *)
AnswersStand ==
  \A d \in Deciders :
    deciding[d].answer = "saved" => decision[deciding[d].task] = deciding[d].action

(* Status requests never contradict each other about how the work ended,   *)
(* although each reads the row, the running task and the store at three    *)
(* different moments, and hosts come and go in between (describe).         *)
NeverToldOtherwise == \A p \in Proposals : Cardinality(told[p]) <= 1

(* A confirmed work ends, with whatever outcome: nobody waits for work.lock*)
(* and for the worker in a circle (confirm, start, run).                   *)
StartedWorkEnds == worker = "started" ~> worker \in {"dead", "none"}
=============================================================================
