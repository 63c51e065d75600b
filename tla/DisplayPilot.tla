----------------------------- MODULE DisplayPilot -----------------------------
(***************************************************************************)
(* The Display Pilot operator (display_pilot_operator.py): run_foreground  *)
(* takes one selected request through the runner, the parent's own         *)
(* verification and a processed record; recover_incident closes exactly    *)
(* one delegation that was interrupted, and prohibits its replay.  Both    *)
(* work on the files of one state directory under operator.lock, which is  *)
(* a bare exclusive file: a crash leaves it until a person removes it.     *)
(* A session is one run of either program.  The runner is a process of     *)
(* its own: it may outlive the session that started it, and write its      *)
(* machine evidence late.  Every session may die between any two steps,    *)
(* and every file operation may fail; MaxFaults bounds how often.          *)
(***************************************************************************)
EXTENDS Naturals, FiniteSets

CONSTANTS
  MaxSessions,  \* runs of the operator or of the recovery, in the order they start
  Requests,     \* request ids the fixed selector may name
  Reports,      \* machine evidence the runner may write
  Trees,        \* states of the target repository; Base is the first
  Base,
  MaxFaults,    \* crashes, failed operations, changes from outside
  NoRequest, NoReport

Sessions == 1..MaxSessions
NoSession == 0

(* What the parent reads in a machine evidence: whether it passes the      *)
(* field checks, the result the runner claims, what Codex did, whether a   *)
(* comment was posted, the flags the runner raised, and the repository it  *)
(* says it left behind.                                                    *)
Flags == {"runner_invoked", "codex_side_action_executed", "github_write_performed",
          "commit_performed"}
ReportShape == [valid : BOOLEAN, status : {"success", "blocked"},
                codex : {"passed", "failed", "not_run"}, posted : BOOLEAN,
                flags : SUBSET Flags, tree : Trees]

ASSUME PilotAssumption ==
  /\ MaxSessions \in Nat /\ NoRequest \notin Requests
  /\ Reports \subseteq ReportShape /\ NoReport \notin Reports
  /\ Base \in Trees /\ MaxFaults \in Nat

VARIABLES
  lock,       \* operator.lock: the session that created it
  inFlight,   \* in_flight.json: the request and the session that wrote it
  processed,  \* processed_requests.jsonl
  torn,       \* the last line of processed_requests.jsonl is a fragment
  evidence,   \* runner_process_evidence.json of each request
  machine,    \* runner_machine_evidence.json of each request
  artifacts,  \* how many of the six result files of a request are there
  litter,     \* requests whose directory holds a leftover temporary file
  record,     \* original snapshot, incident and replay tombstone
  pending,    \* the .pending files these are promoted from
  pc,         \* where each session is
  mem,        \* what else a live session remembers
  end,        \* how a session ended
  runner,     \* the runner process each session started
  tree,       \* the target repository
  runs,       \* how often a runner was started for a request
  faults

requestFiles == <<evidence, machine, artifacts, litter>>
recovery == <<record, pending>>
records == <<inFlight, processed, torn>>
files == <<lock, records, requestFiles, recovery>>
local == <<mem, end>>
world == <<runner, tree, runs>>
vars == <<files, pc, local, world, faults>>
-----------------------------------------------------------------------------
NoFlight == [req |-> NoRequest, by |-> NoSession]
Flight(r, s) == [req |-> r, by |-> s]
Flights == [req : Requests, by : Sessions]
Line(r, outcome) == [req |-> r, result |-> outcome]
ProcessedIds == {line.req : line \in processed}

(* The process evidence: how the call ended, and the machine evidence      *)
(* whose size and digest it names (NoReport: none was observed).           *)
NoEvidence == [result |-> "none", report |-> NoReport]
Evidence(outcome, report) == [result |-> outcome, report |-> report]

Kinds == {"original", "incident", "tombstone"}
NoContent == [flight |-> NoFlight, seen |-> {}, at |-> NoSession]
Content(flight, entries, at) == [flight |-> flight, seen |-> entries, at |-> at]
(* A pending file is not written atomically; a fragment equals no record.  *)
Fragment == [flight |-> NoFlight, seen |-> {"fragment"}, at |-> NoSession]

(* The delegation a session makes or recovers; the processed ids it read   *)
(* when it started; the machine evidence it took its snapshot of; how the  *)
(* runner call ended; the result about to be recorded; the record a        *)
(* recovery is promoting, the evidence entries it observed and the         *)
(* recorded_at of its incident.                                            *)
Blank == [job |-> NoFlight, known |-> {}, seen |-> NoReport, result |-> "none",
          verdict |-> "none", stage |-> "original", inventory |-> {}, stamp |-> NoSession]

NoRunner == [req |-> NoRequest, phase |-> "none", exit |-> "none"]
Runner(r, phase, code) == [req |-> r, phase |-> phase, exit |-> code]
RunnerActive(s) == runner[s].phase \in {"working", "reported", "orphan"}

Dead(s) == pc[s] \in {"done", "crashed"}
Live(s) == pc[s] # "off" /\ ~Dead(s)

Init ==
  /\ lock = NoSession /\ inFlight = NoFlight
  /\ processed = {} /\ torn = FALSE
  /\ evidence = [r \in Requests |-> NoEvidence]
  /\ machine = [r \in Requests |-> NoReport]
  /\ artifacts = [r \in Requests |-> 0]
  /\ litter = {}
  /\ record = [r \in Requests |-> [k \in Kinds |-> NoContent]]
  /\ pending = [r \in Requests |-> [k \in Kinds |-> NoContent]]
  /\ pc = [s \in Sessions |-> "off"]
  /\ mem = [s \in Sessions |-> Blank]
  /\ end = [s \in Sessions |-> "none"]
  /\ runner = [s \in Sessions |-> NoRunner]
  /\ tree = Base
  /\ runs = [r \in Requests |-> 0]
  /\ faults = 0
-----------------------------------------------------------------------------
Goto(s, label) == pc' = [pc EXCEPT ![s] = label]
Fault == faults < MaxFaults /\ faults' = faults + 1
NoFault == UNCHANGED faults

(* Every way out of both programs goes through their finally block, which  *)
(* removes the lock.                                                       *)
Forget(s) == mem' = [mem EXCEPT ![s] = Blank]
Leave(s, why) ==
  /\ Goto(s, "done") /\ end' = [end EXCEPT ![s] = why]
  /\ lock' = NoSession /\ Forget(s)
Stop(s) == Leave(s, "stopped")
GoOn(s, label) == Goto(s, label) /\ UNCHANGED <<lock, end>>
Remember(s, new) == mem' = [mem EXCEPT ![s] = new]

(* A session is started when all the earlier ones were; it ends at once    *)
(* when the lock is there.                                                 *)
IsNext(s) == pc[s] = "off" /\ \A t \in Sessions : t < s => pc[t] # "off"
AcquireLock(s, label) ==
  IF lock = NoSession
  THEN lock' = s /\ Goto(s, label) /\ UNCHANGED end
  ELSE Goto(s, "done") /\ end' = [end EXCEPT ![s] = "stopped"] /\ UNCHANGED lock

(* The guard kept on the machine evidence from the moment it was read.     *)
GuardHolds(s) == machine[mem[s].job.req] = mem[s].seen
-----------------------------------------------------------------------------
(* run_foreground.                                                         *)

(* What capture_git_observation tells apart of the target repository:      *)
(* Base is a clean checkout.                                               *)
Observed == tree

(* The prerequisites are verified before there is a lock.                  *)
Prerequisites == Observed = Base
StartOperator(s) ==
  /\ IsNext(s) /\ NoFault
  /\ IF Prerequisites
     THEN AcquireLock(s, "check")
     ELSE Goto(s, "done") /\ end' = [end EXCEPT ![s] = "stopped"] /\ UNCHANGED lock
  /\ UNCHANGED <<records, requestFiles, recovery, mem, world>>

(* An unresolved delegation of anybody, or a processed file that cannot be *)
(* read to its end, stops the operator before it looks at any request.     *)
Check(s) ==
  /\ pc[s] = "check"
  /\ IF inFlight # NoFlight \/ torn
     THEN Stop(s)
     ELSE GoOn(s, "poll") /\ Remember(s, [mem[s] EXCEPT !.known = ProcessedIds])
  /\ NoFault
  /\ UNCHANGED <<records, requestFiles, recovery, world>>

(* What one reading of the selector issue comes to: nothing to do,         *)
(* something that does not validate, or a request; and what a reading of   *)
(* the target issue it names.                                              *)
Selections == {"idle", "blocked"} \cup Requests
Targets == {"valid", "blocked"}

(* Mutant: the tombstone is not looked at.                                 *)
EligibleUnlessProcessed(s, r) == r \notin mem[s].known
Eligible(s, r) == r \notin mem[s].known /\ record[r]["tombstone"] = NoContent

(* A cycle with nothing to do sleeps, and the session ends after the last  *)
(* one; so do the flags and whatever does not validate end it.             *)
Poll(s) ==
  /\ pc[s] = "poll"
  /\ \E selected \in Selections, target \in Targets :
       IF selected \in Requests /\ Eligible(s, selected) /\ target = "valid"
       THEN Remember(s, [mem[s] EXCEPT !.job = Flight(selected, s)]) /\ GoOn(s, "flight")
       ELSE Stop(s)
  /\ NoFault
  /\ UNCHANGED <<records, requestFiles, recovery, world>>

WriteInFlight(s) ==
  /\ pc[s] = "flight"
  /\ \/ inFlight' = mem[s].job /\ GoOn(s, "launch") /\ UNCHANGED mem /\ NoFault
     \/ Stop(s) /\ UNCHANGED inFlight /\ Fault
  /\ UNCHANGED <<processed, torn, requestFiles, recovery, world>>

StartRunner(s) ==
  LET r == mem[s].job.req IN
  /\ runner' = [runner EXCEPT ![s] = Runner(r, "working", "none")]
  /\ runs' = [runs EXCEPT ![r] = @ + 1]
  /\ GoOn(s, "wait") /\ UNCHANGED mem /\ NoFault
NotStarted(s) ==
  /\ GoOn(s, "observe") /\ Remember(s, [mem[s] EXCEPT !.result = "not_started"]) /\ Fault
  /\ UNCHANGED <<runner, runs>>
(* Nothing is started when the request already has process evidence.       *)
(* Mutant: an older process evidence does not stop the delegation.         *)
LaunchAgain(s) ==
  /\ pc[s] = "launch"
  /\ StartRunner(s) \/ NotStarted(s)
  /\ UNCHANGED <<records, requestFiles, recovery, tree>>
Launch(s) ==
  /\ pc[s] = "launch"
  /\ IF evidence[mem[s].job.req] # NoEvidence
     THEN Stop(s) /\ NoFault /\ UNCHANGED <<runner, runs>>
     ELSE StartRunner(s) \/ NotStarted(s)
  /\ UNCHANGED <<records, requestFiles, recovery, tree>>

(* The time-out kills the runner, and so does a call that breaks while it  *)
(* waits, which is reported as "not started"; what the runner started may  *)
(* live on, and a write it was at leaves a temporary file.                 *)
Kill(s) ==
  /\ runner' \in {[runner EXCEPT ![s] = NoRunner], [runner EXCEPT ![s].phase = "orphan"]}
  /\ litter' \in {litter, IF runner[s].phase = "working"
                           THEN litter \cup {runner[s].req} ELSE litter}
Await(s) ==
  /\ pc[s] = "wait" /\ GoOn(s, "observe")
  /\ \/ /\ runner[s].phase = "exited"
        /\ Remember(s, [mem[s] EXCEPT !.result = runner[s].exit]) /\ NoFault
        /\ runner' = [runner EXCEPT ![s] = NoRunner] /\ UNCHANGED litter
     \/ /\ RunnerActive(s) /\ Kill(s)
        /\ \/ Remember(s, [mem[s] EXCEPT !.result = "timed_out"]) /\ NoFault
           \/ Remember(s, [mem[s] EXCEPT !.result = "not_started"]) /\ Fault
  /\ UNCHANGED <<records, evidence, machine, artifacts, recovery, tree, runs>>

(* The machine evidence is opened and kept open; one that cannot be read   *)
(* counts as not observed and ends the session after the next write.       *)
Observe(s) ==
  /\ pc[s] = "observe" /\ GoOn(s, "evidence")
  /\ \/ Remember(s, [mem[s] EXCEPT !.seen = machine[mem[s].job.req]]) /\ NoFault
     \/ UNCHANGED mem /\ Fault
  /\ UNCHANGED <<records, requestFiles, recovery, world>>

WriteEvidence(s) ==
  LET r == mem[s].job.req
      linked == [evidence EXCEPT ![r] = Evidence(mem[s].result, mem[s].seen)] IN
  /\ pc[s] = "evidence"
  /\ \/ /\ evidence[r] = NoEvidence /\ evidence' = linked
        /\ GoOn(s, "judge") /\ UNCHANGED mem /\ NoFault
     \/ evidence[r] # NoEvidence /\ Stop(s) /\ UNCHANGED evidence /\ NoFault
     \/ /\ evidence[r] = NoEvidence /\ evidence' \in {evidence, linked}
        /\ Stop(s) /\ Fault
  /\ UNCHANGED <<records, machine, artifacts, litter, recovery, world>>
-----------------------------------------------------------------------------
(* What the parent makes of a valid machine evidence.                      *)

Forbidden == {"github_write_performed", "commit_performed"}
Expected == {"runner_invoked", "codex_side_action_executed"}
Valid(e) == e.valid /\ (e.status = "success" => e.codex = "passed")
Truth(e) ==
  e.flags \cup {"runner_invoked"}
          \cup (IF e.codex = "not_run" THEN {} ELSE {"codex_side_action_executed"})
          \cup (IF e.posted THEN {"github_write_performed"} ELSE {})
(* Mutant: the flags of the runner are believed.                           *)
ObjectionableFlags(e) == e.flags \cap Forbidden # {}
Objectionable(e) ==
  \/ Truth(e) # e.flags
  \/ Truth(e) \cap Forbidden # {}
  \/ e.status = "success" /\ Truth(e) # Expected
ClaimsSuccess(s) ==
  /\ mem[s].result = "zero"
  /\ mem[s].seen.status = "success" /\ ~Objectionable(mem[s].seen)
Usable(s) ==
  /\ mem[s].result \in {"zero", "nonzero"}
  /\ mem[s].seen # NoReport /\ GuardHolds(s) /\ Valid(mem[s].seen)

(* Only a clean success is handed to the parent's own verification, and    *)
(* only when the repository is as the runner says it left it; a git call   *)
(* that fails blocks the result, one that hangs ends the session.          *)
Handoff(s) == ClaimsSuccess(s) /\ Observed = mem[s].seen.tree
Blocked(s) == Remember(s, [mem[s] EXCEPT !.verdict = "blocked"]) /\ GoOn(s, "render")
Judge(s) ==
  /\ pc[s] = "judge"
  /\ \/ ~Usable(s) /\ Stop(s) /\ NoFault
     \/ Usable(s) /\ Handoff(s) /\ GoOn(s, "verify") /\ UNCHANGED mem /\ NoFault
     \/ Usable(s) /\ ~Handoff(s) /\ Blocked(s) /\ NoFault
     \/ Usable(s) /\ ClaimsSuccess(s) /\ (Blocked(s) \/ Stop(s)) /\ Fault
  /\ UNCHANGED <<records, requestFiles, recovery, world>>

(* The verification commands may fail, and may change the repository.      *)
Verify(s) ==
  LET left == mem[s].seen.tree IN
  /\ pc[s] = "verify"
  /\ tree' \in Trees
  /\ \/ /\ Observed = left /\ Observed' = left
        /\ Remember(s, [mem[s] EXCEPT !.verdict = "success"]) /\ GoOn(s, "render") /\ NoFault
     \/ Blocked(s) /\ NoFault
     \/ Stop(s) /\ Fault
  /\ UNCHANGED <<records, requestFiles, recovery, runner, runs>>
-----------------------------------------------------------------------------
(* Recording the result.                                                   *)

(* An isolated child renders the result; one that fails leaves nothing     *)
(* that could be written.                                                  *)
Render(s) ==
  /\ pc[s] = "render"
  /\ \/ GuardHolds(s) /\ GoOn(s, "artifacts") /\ UNCHANGED mem /\ NoFault
     \/ ~GuardHolds(s) /\ Stop(s) /\ NoFault
     \/ Stop(s) /\ Fault
  /\ UNCHANGED <<records, requestFiles, recovery, world>>

(* The six files are written one by one, each after a look at the guard.   *)
ArtifactCount == 6
WriteArtifact(s) ==
  LET r == mem[s].job.req IN
  /\ pc[s] = "artifacts"
  /\ \/ /\ GuardHolds(s)
        /\ artifacts' = [artifacts EXCEPT ![r] = @ + 1]
        /\ GoOn(s, IF artifacts[r] + 1 = ArtifactCount THEN "append" ELSE "artifacts")
        /\ UNCHANGED mem /\ NoFault
     \/ ~GuardHolds(s) /\ Stop(s) /\ UNCHANGED artifacts /\ NoFault
     \/ Fault /\ Stop(s) /\ UNCHANGED artifacts
  /\ UNCHANGED <<records, evidence, machine, litter, recovery, world>>

(* A complete line is taken back when the guard or the flush fails; the    *)
(* first part of a line is not.                                            *)
OwnLine(s) == Line(mem[s].job.req, mem[s].verdict)
AppendProcessed(s) ==
  /\ pc[s] = "append"
  /\ \/ /\ GuardHolds(s)
        /\ processed' = processed \cup {OwnLine(s)} /\ UNCHANGED torn
        /\ GoOn(s, "release") /\ UNCHANGED mem /\ NoFault
     \/ ~GuardHolds(s) /\ Stop(s) /\ UNCHANGED <<processed, torn>> /\ NoFault
     \/ torn' \in BOOLEAN /\ Stop(s) /\ UNCHANGED processed /\ Fault
  /\ UNCHANGED <<inFlight, requestFiles, recovery, world>>

(* The line just appended is taken back; that may fail as well.            *)
Rollback(s) ==
  /\ Stop(s)
  /\ \/ processed' = processed \ {OwnLine(s)} /\ NoFault
     \/ UNCHANGED processed /\ Fault

Release(s) ==
  /\ pc[s] = "release"
  /\ \/ /\ GuardHolds(s) /\ inFlight' = NoFlight
        /\ GoOn(s, "confirm") /\ UNCHANGED <<processed, mem>> /\ NoFault
     \/ ~GuardHolds(s) /\ Rollback(s) /\ UNCHANGED inFlight
     \/ /\ Fault /\ Stop(s)
        /\ processed' = processed \ {OwnLine(s)} /\ UNCHANGED inFlight
  /\ UNCHANGED <<torn, requestFiles, recovery, world>>

(* The guard is read once more when in_flight.json is gone already.        *)
ConfirmRelease(s) ==
  /\ pc[s] = "confirm"
  /\ \/ GuardHolds(s) /\ Leave(s, "processed") /\ UNCHANGED processed /\ NoFault
     \/ ~GuardHolds(s) /\ Rollback(s)
  /\ UNCHANGED <<inFlight, torn, requestFiles, recovery, world>>
-----------------------------------------------------------------------------
(* recover_incident.                                                       *)

(* The request id, the target issue and the digest of in_flight.json are   *)
(* arguments: any delegation may be named.                                 *)
StartRecovery(s) ==
  /\ IsNext(s) /\ AcquireLock(s, "inspect") /\ NoFault
  /\ \E f \in Flights : Remember(s, [mem[s] EXCEPT !.job = f])
  /\ UNCHANGED <<records, requestFiles, recovery, world>>

(* _validate_runner_process_evidence against the machine evidence that is  *)
(* there now.                                                              *)
EvidenceConsistent(r) ==
  IF evidence[r] = NoEvidence THEN machine[r] = NoReport
                              ELSE evidence[r].report = machine[r]
Entries(r) ==
  (IF evidence[r] = NoEvidence THEN {} ELSE {"runner_process_evidence"})
    \cup (IF machine[r] = NoReport THEN {} ELSE {"runner_machine_evidence"})

(* Mutant: the processed records are not consulted.                        *)
RecoverableAnyway(f) ==
  f.req \notin litter /\ EvidenceConsistent(f.req) /\ ~torn /\ inFlight = f
Recoverable(f) ==
  LET r == f.req IN
  /\ r \notin litter /\ artifacts[r] = 0
  /\ EvidenceConsistent(r)
  /\ ~torn /\ r \notin ProcessedIds
  /\ IF inFlight # NoFlight
     THEN inFlight = f
     ELSE /\ \A k \in Kinds : record[r][k] # NoContent
          /\ record[r]["original"].flight = f
  /\ record[r]["incident"] # NoContent => record[r]["original"] # NoContent
  /\ record[r]["tombstone"] # NoContent => record[r]["incident"] # NoContent

Inspect(s) ==
  LET r == mem[s].job.req IN
  /\ pc[s] = "inspect"
  /\ IF Recoverable(mem[s].job)
     THEN /\ Remember(s, [mem[s] EXCEPT !.seen = machine[r], !.inventory = Entries(r)])
          /\ GoOn(s, "pending")
     ELSE Stop(s)
  /\ NoFault
  /\ UNCHANGED <<records, requestFiles, recovery, world>>

(* What a recovery wants in each record.  recorded_at is taken from an     *)
(* incident, or a pending one, that is there already.                      *)
(* Mutant: the tombstone gets a time of its own.                           *)
WantedAfresh(s, kind, at) ==
  [flight |-> mem[s].job,
   seen |-> IF kind = "incident" THEN mem[s].inventory ELSE {},
   at |-> CASE kind = "original" -> NoSession [] kind = "incident" -> at [] OTHER -> s]
Wanted(s, kind, at) ==
  [flight |-> mem[s].job,
   seen |-> IF kind = "incident" THEN mem[s].inventory ELSE {},
   at |-> IF kind = "original" THEN NoSession ELSE at]
(* Mutant: every recovery stamps its own time.                             *)
StampAfresh(s) == IF mem[s].stage = "incident" THEN s ELSE mem[s].stamp
StampFor(s) ==
  LET incident(files_) == files_[mem[s].job.req]["incident"] IN
  IF mem[s].stage # "incident" THEN mem[s].stamp
  ELSE IF incident(record) # NoContent THEN incident(record).at
  ELSE IF incident(pending) # NoContent THEN incident(pending).at
  ELSE s

Advance(s, at) ==
  /\ GoOn(s, IF mem[s].stage = "tombstone" THEN "settle" ELSE "pending")
  /\ Remember(s, [mem[s] EXCEPT !.stamp = at,
                 !.stage = IF mem[s].stage = "original" THEN "incident" ELSE "tombstone"])
ToReplace(s, at) == GoOn(s, "replace") /\ Remember(s, [mem[s] EXCEPT !.stamp = at])

(* _promote_recovery_pending, up to the pending file.  A record, or a      *)
(* pending file, that is not what this recovery wants is a conflict.       *)
WritePending(s) ==
  LET r == mem[s].job.req
      k == mem[s].stage
      at == StampFor(s)
      wanted == Wanted(s, k, at)
      Pending(content) == [pending EXCEPT ![r][k] = content] IN
  /\ pc[s] = "pending"
  /\ \/ /\ record[r][k] # NoContent
        /\ IF record[r][k] = wanted /\ pending[r][k] \in {NoContent, wanted}
           THEN Advance(s, at) /\ pending' = Pending(NoContent)
           ELSE Stop(s) /\ UNCHANGED pending
        /\ NoFault
     \/ /\ record[r][k] = NoContent /\ pending[r][k] # NoContent
        /\ IF pending[r][k] = wanted THEN ToReplace(s, at) ELSE Stop(s)
        /\ UNCHANGED pending /\ NoFault
     \/ /\ record[r][k] = NoContent /\ pending[r][k] = NoContent
        /\ \/ pending' = Pending(wanted) /\ ToReplace(s, at) /\ NoFault
           \/ /\ pending' \in {pending, Pending(wanted), Pending(Fragment)}
              /\ Stop(s) /\ Fault
  /\ UNCHANGED <<records, requestFiles, record, world>>

Promote(s) ==
  LET r == mem[s].job.req
      k == mem[s].stage IN
  /\ pc[s] = "replace"
  /\ \/ /\ record' = [record EXCEPT ![r][k] = pending[r][k]]
        /\ pending' = [pending EXCEPT ![r][k] = NoContent]
        /\ Advance(s, mem[s].stamp) /\ NoFault
     \/ Stop(s) /\ UNCHANGED <<record, pending>> /\ Fault
  /\ UNCHANGED <<records, requestFiles, world>>

(* The three records and the evidence are read again before the release.   *)
Intact(s) ==
  LET r == mem[s].job.req IN
  /\ \A k \in Kinds : record[r][k] = Wanted(s, k, mem[s].stamp)
  /\ "runner_machine_evidence" \in mem[s].inventory => GuardHolds(s)
Settle(s) ==
  /\ pc[s] = "settle"
  /\ IF Intact(s) THEN GoOn(s, "clear") /\ UNCHANGED mem ELSE Stop(s)
  /\ NoFault
  /\ UNCHANGED <<records, requestFiles, recovery, world>>

Clear(s) ==
  /\ pc[s] = "clear"
  /\ \/ inFlight' = NoFlight /\ Leave(s, "recovered") /\ NoFault
     \/ inFlight # NoFlight /\ Stop(s) /\ UNCHANGED inFlight /\ Fault
  /\ UNCHANGED <<processed, torn, requestFiles, recovery, world>>
-----------------------------------------------------------------------------
(* The runner (local_runner_v1.ps1) and what the operator cannot control.  *)

(* The machine evidence is moved into place in one piece, once.            *)
RunnerReports(s) ==
  /\ runner[s].phase \in {"working", "orphan"}
  /\ \E e \in Reports :
       /\ machine' = [machine EXCEPT ![runner[s].req] = e]
       /\ tree' = e.tree
  /\ runner' = [runner EXCEPT ![s] = IF @.phase = "working" THEN Runner(@.req, "reported", "none")
                                                           ELSE NoRunner]
  /\ UNCHANGED <<lock, records, evidence, artifacts, litter, recovery, pc, local, runs,
                 faults>>

RunnerExits(s) ==
  /\ \/ /\ runner[s].phase \in {"working", "reported"}
        /\ \E code \in {"zero", "nonzero"} :
             runner' = [runner EXCEPT ![s] = Runner(@.req, "exited", code)]
     \/ /\ runner[s].phase = "orphan"
        /\ runner' = [runner EXCEPT ![s] = NoRunner]
  /\ UNCHANGED <<files, pc, local, tree, runs, faults>>

Outside ==
  /\ Fault
  /\ \/ tree' \in Trees \ {tree} /\ UNCHANGED machine
     \/ \E r \in Requests, e \in Reports \cup {NoReport} :
          /\ machine[r] \notin {NoReport, e}
          /\ machine' = [machine EXCEPT ![r] = e] /\ UNCHANGED tree
  /\ UNCHANGED <<lock, records, evidence, artifacts, litter, recovery, pc, local, runner,
                 runs>>

(* A session dies anywhere; in the middle of a write it leaves a temporary *)
(* file, a fragment of a line, or a fragment of a pending file.            *)
Crash(s) ==
  LET r == mem[s].job.req
      k == mem[s].stage IN
  /\ Live(s) /\ Fault /\ Goto(s, "crashed") /\ Forget(s)
  /\ \/ UNCHANGED <<torn, litter, pending>>
     \/ /\ pc[s] \in {"evidence", "artifacts"}
        /\ litter' = litter \cup {r} /\ UNCHANGED <<torn, pending>>
     \/ /\ pc[s] = "append"
        /\ torn' = TRUE /\ UNCHANGED <<litter, pending>>
     \/ /\ pc[s] = "pending" /\ record[r][k] = NoContent /\ pending[r][k] = NoContent
        /\ pending' = [pending EXCEPT ![r][k] = Fragment]
        /\ UNCHANGED <<torn, litter>>
  /\ UNCHANGED <<lock, inFlight, processed, evidence, machine, artifacts, record, end, world>>

(* A person brings the checkout back to a clean state ...                  *)
CleanCheckout ==
  /\ tree' = Base /\ tree # Base
  /\ UNCHANGED <<files, pc, local, runner, runs, faults>>

(* ... and removes the lock of a session that died.                       *)
RemoveLock ==
  /\ lock \in Sessions /\ Dead(lock)
  /\ lock' = NoSession
  /\ UNCHANGED <<records, requestFiles, recovery, pc, local, world, faults>>
-----------------------------------------------------------------------------
Foreground(s) ==
  \/ Check(s) \/ Poll(s) \/ WriteInFlight(s) \/ Launch(s) \/ Await(s) \/ Observe(s)
  \/ WriteEvidence(s) \/ Judge(s) \/ Verify(s) \/ Render(s)
  \/ WriteArtifact(s) \/ AppendProcessed(s) \/ Release(s) \/ ConfirmRelease(s)
Recovery(s) ==
  Inspect(s) \/ WritePending(s) \/ Promote(s) \/ Settle(s) \/ Clear(s)
RunnerStep(s) == RunnerReports(s) \/ RunnerExits(s)

Next ==
  \/ \E s \in Sessions : \/ StartOperator(s) \/ StartRecovery(s)
                         \/ Foreground(s) \/ Recovery(s) \/ RunnerStep(s) \/ Crash(s)
  \/ Outside
  \/ CleanCheckout \/ RemoveLock

Spec == Init /\ [][Next]_vars

(* A live program takes its next step: the runner call has a time-out, the *)
(* polling a last cycle.  Nothing is assumed about people or the runner.   *)
FairSpec ==
  Spec /\ \A s \in Sessions : WF_vars(Foreground(s)) /\ WF_vars(Recovery(s))
-----------------------------------------------------------------------------
(* Properties.                                                             *)

(* The files and the local variables keep their shapes.                    *)
Results == {"none", "zero", "nonzero", "timed_out", "not_started"}
Inventory == {"runner_process_evidence", "runner_machine_evidence"}
Labels == {"off", "check", "poll", "flight", "launch", "wait", "observe", "evidence",
           "judge", "verify", "render", "artifacts", "append", "release", "confirm",
           "inspect", "pending", "replace", "settle", "clear", "done", "crashed"}
Lines == [req : Requests, result : {"none", "success", "blocked"}]
Evidences == [result : Results, report : Reports \cup {NoReport}]
Contents == [flight : Flights \cup {NoFlight}, seen : SUBSET (Inventory \cup {"fragment"}),
             at : Sessions \cup {NoSession}]
Memory == [job : Flights \cup {NoFlight}, known : SUBSET Requests,
           seen : Reports \cup {NoReport}, result : Results,
           verdict : {"none", "success", "blocked"}, stage : Kinds,
           inventory : SUBSET Inventory, stamp : Sessions \cup {NoSession}]
Runners == {NoRunner} \cup
           [req : Requests, phase : {"working", "reported", "orphan"}, exit : {"none"}] \cup
           [req : Requests, phase : {"exited"}, exit : {"zero", "nonzero"}]
TypeOK ==
  /\ lock \in Sessions \cup {NoSession} /\ inFlight \in Flights \cup {NoFlight}
  /\ processed \subseteq Lines /\ torn \in BOOLEAN
  /\ evidence \in [Requests -> Evidences]
  /\ machine \in [Requests -> Reports \cup {NoReport}]
  /\ artifacts \in [Requests -> Nat] /\ litter \subseteq Requests
  /\ record \in [Requests -> [Kinds -> Contents]]
  /\ pending \in [Requests -> [Kinds -> Contents]]
  /\ pc \in [Sessions -> Labels] /\ mem \in [Sessions -> Memory]
  /\ end \in [Sessions -> {"none", "stopped", "processed", "recovered"}]
  /\ runner \in [Sessions -> Runners] /\ tree \in Trees
  /\ runs \in [Requests -> Nat] /\ faults \in Nat

(* Whatever crashes, fails or is taken back, no request reaches the runner *)
(* twice (display_pilot_operator.py 3016-3019, 2952-2955 and 3064-3068).   *)
RunAtMostOnce == \A r \in Requests : runs[r] <= 1

(* The reason: a request that ran is held by one of in_flight.json, its    *)
(* process evidence, the processed records and the replay tombstone, also  *)
(* after a rollback has taken the first and the third back.                *)
RunIsAccounted ==
  \A r \in Requests :
    runs[r] > 0 => \/ inFlight.req = r
                   \/ evidence[r] # NoEvidence
                   \/ record[r]["tombstone"] # NoContent

(* A request has one end: it is never both in the processed records and    *)
(* closed by a recovery, although a crash can leave it in_flight with its  *)
(* record appended (1946-1948).                                            *)
OneEnd ==
  \A r \in Requests : r \in ProcessedIds => record[r]["tombstone"] = NoContent

(* A replay tombstone stands on an incident of the same time and an exact  *)
(* snapshot of the same delegation, however often the recovery had to be   *)
(* run again to write the three (1526-1573, 1631-1660).                    *)
TombstoneIsBacked ==
  \A r \in Requests :
    LET of(k) == record[r][k] IN
    of("tombstone") # NoContent =>
      /\ of("incident").flight = of("tombstone").flight
      /\ of("incident").at = of("tombstone").at
      /\ of("original").flight = of("tombstone").flight
      /\ inFlight.req = r => inFlight = of("tombstone").flight

(* A recorded success is what an exited runner reported, and neither its   *)
(* report nor the facts the parent knows contradict it (2656-2716); the    *)
(* process evidence names the same report and every result file is there.  *)
SuccessIsWitnessed ==
  \A r \in Requests :
    Line(r, "success") \in processed =>
      /\ evidence[r].result = "zero"
      /\ evidence[r].report # NoReport
      /\ evidence[r].report.status = "success" /\ ~evidence[r].report.posted
      /\ evidence[r].report.codex = "passed"
      /\ evidence[r].report.flags = {"runner_invoked", "codex_side_action_executed"}
      /\ artifacts[r] = ArtifactCount

(* From every state in which interrupted recoveries can leave the files,   *)
(* except a fragment of a pending file, a recovery that gets past its      *)
(* first checks finishes, once nothing fails any more and no runner writes *)
(* (test_recovery_interruption_keeps_in_flight_and_is_safely_rerunnable).  *)
Undisturbed(s) ==
  /\ faults = MaxFaults
  /\ \A k \in Kinds : pending[mem[s].job.req][k] # Fragment
  /\ \A t \in Sessions : ~RunnerActive(t)
  /\ GuardHolds(s)
RecoveryFinishes ==
  \A s \in Sessions, r \in Requests :
    pc[s] = "pending" /\ mem[s].job.req = r /\ Undisturbed(s)
      ~> end[s] = "recovered" /\ record[r]["tombstone"] # NoContent
=============================================================================
