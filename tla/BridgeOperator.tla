---------------------------- MODULE BridgeOperator ----------------------------
(***************************************************************************)
(* Bridge Operator B3 (bridge_operator_b3.py): the bounded loop that picks *)
(* the one current relay request, hands it to the Local Dispatcher exactly *)
(* when no trusted result exists, and settles it in processed_requests     *)
(* .jsonl.  A session is one run of the operator process; sessions share   *)
(* the state directory (operator.lock, in_flight.json, processed records,  *)
(* quarantined locks, leftover temporary files), the target issue on       *)
(* GitHub and the dispatcher processes their predecessors left behind.     *)
(* A session may crash between any two steps, and every file write, read   *)
(* of GitHub and process call may fail; MaxFaults bounds how often.        *)
(***************************************************************************)
EXTENDS Naturals, Sequences, FiniteSets

CONSTANTS
  Sessions,      \* operator runs; each has its own operator_session_id
  Requests,      \* request identities relayed on the control issue
  HealthProbes,  \* the requests whose action is maybe-status-check
  MaxAlive,      \* how many operator processes may run at the same time
  MaxCycles,     \* max_cycles of the loop
  MaxFaults,     \* crashes, I/O errors, killed processes, foreign comments
  PosixRename,   \* os.rename replaces an existing file (not so on Windows)
  NoSession, NoRequest

ASSUME SessionAssumption == NoSession \notin Sessions
ASSUME RequestAssumption == NoRequest \notin Requests /\ HealthProbes \subseteq Requests
ASSUME BoundAssumption == /\ MaxAlive \in Nat /\ MaxCycles \in Nat /\ MaxFaults \in Nat
                          /\ PosixRename \in BOOLEAN

VARIABLES
  lock,         \* operator.lock: its owner and whether the content is complete
  inFlight,     \* in_flight.json
  processed,    \* processed_requests.jsonl, line by line
  quarantined,  \* owners of the operator.lock.quarantine.* files
  tmp,          \* sessions whose in_flight temporary file was left behind
  pc,           \* where each session is
  target,       \* the dead owner whose lock a starting session assessed
  held,         \* the in_flight record a session read or wrote last
  job,          \* the request a session is delegating
  verdict,      \* the terminal outcome a session is settling
  code,         \* how the dispatcher call of a session ended
  cycle,        \* cycles a session has started
  suppressed,   \* session_rejected_requests
  chain,        \* the dispatcher process each session started
  runs,         \* how often the runner was started for a request
  thread,       \* comments on the target issue
  relayed,      \* requests posted on the control issue
  expired,      \* relayed requests whose lifetime is over
  faults

files == <<lock, inFlight, processed, quarantined, tmp>>
local == <<target, held, job, verdict, code, cycle, suppressed>>
execution == <<chain, runs>>
relay == <<relayed, expired>>
vars == <<files, pc, local, execution, thread, relay, faults>>
-----------------------------------------------------------------------------
R == INSTANCE Reconciliation

NoLock == [owner |-> NoSession, content |-> "none"]
Lock(s, content) == [owner |-> s, content |-> content]
Stages == {"PREPARED", "DISPATCHED", "REJECTED", "PROCESSED"}
NoFlight == [owner |-> NoSession, req |-> NoRequest, stage |-> "NONE"]
Flight(s, r, stage) == [owner |-> s, req |-> r, stage |-> stage]
Outcomes == {"success", "non_success", "rejected"}
Record(r, outcome) == [req |-> r, outcome |-> outcome]
TornRecord == Record(NoRequest, "torn")
Chain(r, phase) == [req |-> r, phase |-> phase, code |-> "none", result |-> "none"]
NoChain == Chain(NoRequest, "none")

Dead(s) == pc[s] \in {"exited", "crashed"}
Alive(s) == pc[s] # "off" /\ ~Dead(s)
LiveSessions == {s \in Sessions : Alive(s)}

(* The dispatcher process a session started is still there: it is what the *)
(* descendant snapshot of that session shows.  A runner whose dispatcher   *)
(* was killed ("orphan") is not a descendant of the session any more.      *)
ChainVisible(s) == chain[s].phase \in {"admit", "run", "post"}
RunnerAtWork(s) == chain[s].phase \in {"run", "orphan"}

(* What the reads of processed_requests.jsonl see; a line that is no       *)
(* record, or a second record of one request, raises in every reader.      *)
RecordsOf(r) == {i \in DOMAIN processed : processed[i].req = r}
Recorded(r) == RecordsOf(r) # {}
OutcomeOf(r) == processed[CHOOSE i \in RecordsOf(r) : TRUE].outcome
CorruptedState ==
  \E i \in DOMAIN processed :
    \/ processed[i] = TornRecord
    \/ \E j \in DOMAIN processed : i # j /\ processed[i].req = processed[j].req

(* Every request targets the same issue, so its thread holds the results   *)
(* of all of them; a result names the session that posted it by its id.    *)
Identity == [f \in R!IdentityFields |-> "same"]
ResultComment(id, author, body, r, result) ==
  [id |-> id, author |-> author, outer |-> "match", body |-> body,
   request |-> r, identity |-> Identity, result |-> result]
Evidence(r) == R!Resolve([id |-> r, identity |-> Identity], "COMPLETE",
                         thread, {"owner"}).decision
(* Mutant: every settlement is taken for a success.                        *)
VerdictAlwaysSuccess(decision) == "success"
VerdictOf(decision) == IF decision = R!Completed THEN "success" ELSE "non_success"
-----------------------------------------------------------------------------
Init ==
  /\ lock = NoLock /\ inFlight = NoFlight /\ processed = <<>>
  /\ quarantined = {} /\ tmp = {}
  /\ pc = [s \in Sessions |-> "off"]
  /\ target = [s \in Sessions |-> NoSession]
  /\ held = [s \in Sessions |-> NoFlight]
  /\ job = [s \in Sessions |-> NoRequest]
  /\ verdict = [s \in Sessions |-> "none"]
  /\ code = [s \in Sessions |-> "none"]
  /\ cycle = [s \in Sessions |-> 0]
  /\ suppressed = [s \in Sessions |-> {}]
  /\ chain = [s \in Sessions |-> NoChain]
  /\ runs = [r \in Requests |-> 0]
  /\ thread = {} /\ relayed = {} /\ expired = {} /\ faults = 0

Goto(s, label) == pc' = [pc EXCEPT ![s] = label]
Step(s, from, to) == pc[s] = from /\ Goto(s, to)
Fault == faults < MaxFaults /\ faults' = faults + 1
NoFault == UNCHANGED faults

(* An operation that should succeed when "ok" fails only by a fault.       *)
FailsUnless(ok) == IF ok THEN Fault ELSE NoFault
-----------------------------------------------------------------------------
(* The two primitives every durable step is made of.                       *)

(* write_durable_json on in_flight.json: exclusive creation of a temporary *)
(* file named after "owner", then an atomic replace and a read-back.  A    *)
(* temporary file left by a crash makes every later write in that owner's  *)
(* name fail.                                                              *)
WriteInFlight(s, owner, flight, done, failed) ==
  /\ UNCHANGED tmp
  /\ \/ /\ owner \notin tmp
        /\ inFlight' = flight
        /\ held' = [held EXCEPT ![s] = flight]
        /\ Goto(s, done)
        /\ NoFault
     \/ /\ owner \in tmp
        /\ UNCHANGED <<inFlight, held>>
        /\ Goto(s, failed)
        /\ NoFault
     \/ /\ owner \notin tmp /\ Fault
        /\ inFlight' \in {inFlight, flight}
        /\ UNCHANGED held
        /\ Goto(s, failed)

(* append_jsonl_durable on processed_requests.jsonl: nothing is written,   *)
(* part of the line, or the line whose read-back then fails.               *)
AppendRecord(s, r, outcome, done, failed) ==
  \/ /\ processed' = Append(processed, Record(r, outcome))
     /\ Goto(s, done)
     /\ NoFault
  \/ /\ Fault
     /\ processed' \in {processed, Append(processed, TornRecord),
                        Append(processed, Record(r, outcome))}
     /\ Goto(s, failed)

(* remove_exact_json on in_flight.json: only the record this session holds.*)
RemoveInFlight(s, done, failed) ==
  \/ /\ inFlight = held[s]
     /\ inFlight' = NoFlight
     /\ held' = [held EXCEPT ![s] = NoFlight]
     /\ Goto(s, done)
     /\ NoFault
  \/ /\ FailsUnless(inFlight = held[s])
     /\ UNCHANGED <<inFlight, held>>
     /\ Goto(s, failed)
-----------------------------------------------------------------------------
(* Start of a session: nothing is locked until Acquire.                    *)

Start(s) ==
  /\ Step(s, "off", "startup")
  /\ Cardinality(LiveSessions) < MaxAlive
  /\ UNCHANGED <<files, local, execution, thread, relay, faults>>

(* Mutant: it waits until the records can be read.                         *)
ReadStateAgain(s) ==
  /\ Step(s, "startup", "inspect") /\ ~CorruptedState
  /\ held' = [held EXCEPT ![s] = inFlight]
  /\ UNCHANGED <<files, target, job, verdict, code, cycle, suppressed,
                 execution, thread, relay, faults>>
(* _validate_state_files, then load_in_flight.                             *)
ReadState(s) ==
  /\ \/ Step(s, "startup", "exited") /\ CorruptedState /\ UNCHANGED held
     \/ /\ Step(s, "startup", "inspect") /\ ~CorruptedState
        /\ held' = [held EXCEPT ![s] = inFlight]
  /\ UNCHANGED <<files, target, job, verdict, code, cycle, suppressed,
                 execution, thread, relay, faults>>

QuarantineSafe(owner) == Dead(owner) /\ ~ChainVisible(owner)

(* inspect_lock_file against the in_flight record read one step earlier.   *)
InspectLock(s) ==
  LET readOwner == held[s].owner
      settleable == /\ lock.content = "complete"
                    /\ QuarantineSafe(lock.owner)
                    /\ readOwner \in {NoSession, lock.owner}
      next(whenIdle, whenInFlight) ==
        Step(s, "inspect", IF held[s] = NoFlight THEN whenIdle ELSE whenInFlight)
  IN /\ \/ /\ lock = NoLock
           /\ next("acquire", "exited")
           /\ UNCHANGED target
           /\ NoFault
        \/ /\ lock # NoLock /\ settleable
           /\ next("quarantine", "recover")
           /\ target' = [target EXCEPT ![s] = lock.owner]
           /\ NoFault
        \/ /\ lock # NoLock
           /\ FailsUnless(settleable)  \* the process probe may be uncertain
           /\ next("exited", "exited")
           /\ UNCHANGED target
     /\ UNCHANGED <<files, held, job, verdict, code, cycle, suppressed,
                    execution, thread, relay>>

(* Mutant: the processed records are not consulted first.                  *)
RecoverUnchecked(s) ==
  LET settle(outcome, label) == /\ verdict' = [verdict EXCEPT ![s] = outcome]
                                /\ Goto(s, label)
  IN /\ pc[s] = "recover"
     /\ \/ held[s].stage = "REJECTED" /\ settle("rejected", "recAppend")
        \/ held[s].stage = "DISPATCHED" /\ settle(verdict[s], "recReconcile")
        \/ held[s].stage = "PREPARED" /\ settle(verdict[s], "exited")
     /\ UNCHANGED <<files, target, held, job, code, cycle, suppressed,
                    execution, thread, relay, faults>>
(* Mutant: an interrupted dispatch is left alone.                          *)
RecoverOnlyRecorded(s) ==
  /\ Step(s, "recover", IF ~CorruptedState /\ Recorded(held[s].req)
                        THEN "recRemove" ELSE "exited")
  /\ UNCHANGED <<files, local, execution, thread, relay, faults>>

(* _recover_existing_in_flight up to its first effect.  It runs before the *)
(* session owns the lock.                                                  *)
Recover(s) ==
  LET r == held[s].req
      stage == held[s].stage
      settle(outcome, label) == /\ verdict' = [verdict EXCEPT ![s] = outcome]
                                /\ Goto(s, label)
      stop == Goto(s, "exited") /\ UNCHANGED verdict
  IN /\ pc[s] = "recover"
     /\ \/ CorruptedState /\ stop
        \/ /\ ~CorruptedState /\ Recorded(r)
           /\ \/ stage = "PREPARED" /\ stop
              \/ stage # "PREPARED" /\ settle(OutcomeOf(r), "recRemove")
        \/ /\ ~CorruptedState /\ ~Recorded(r)
           /\ \/ stage = "REJECTED" /\ settle("rejected", "recAppend")
              \/ stage = "DISPATCHED" /\ Goto(s, "recReconcile") /\ UNCHANGED verdict
              \/ stage \notin {"REJECTED", "DISPATCHED"} /\ stop
     /\ UNCHANGED <<files, target, held, job, code, cycle, suppressed,
                    execution, thread, relay, faults>>

(* Reconcile the interrupted dispatch; the read, or the review candidate   *)
(* that goes with a success, may fail.                                     *)
RecReconcile(s) ==
  LET decision == Evidence(held[s].req)
  IN /\ \/ /\ Step(s, "recReconcile", "recAppend")
           /\ decision \in R!Settling
           /\ verdict' = [verdict EXCEPT ![s] = VerdictOf(decision)]
           /\ NoFault
        \/ /\ Step(s, "recReconcile", "exited")
           /\ FailsUnless(decision \in R!Settling)
           /\ UNCHANGED verdict
     /\ UNCHANGED <<files, target, held, job, code, cycle, suppressed,
                    execution, thread, relay>>

RecAppend(s) ==
  /\ pc[s] = "recAppend"
  /\ AppendRecord(s, held[s].req, verdict[s], "recMark", "exited")
  /\ UNCHANGED <<lock, inFlight, quarantined, tmp, local, execution, thread, relay>>

(* The temporary file carries the dead owner's session id.                 *)
RecMark(s) ==
  /\ pc[s] = "recMark"
  /\ WriteInFlight(s, held[s].owner, [held[s] EXCEPT !.stage = "PROCESSED"],
                   "recRemove", "exited")
  /\ UNCHANGED <<lock, processed, quarantined, target, job, verdict, code, cycle,
                 suppressed, execution, thread, relay>>

RecRemove(s) ==
  /\ pc[s] = "recRemove"
  /\ RemoveInFlight(s, "quarantine", "exited")
  /\ UNCHANGED <<lock, processed, quarantined, tmp, target, job, verdict, code, cycle,
                 suppressed, execution, thread, relay>>

(* quarantine_lock checks the content of the lock and that no file is in   *)
(* the way at the destination ...                                          *)
CheckQuarantine(s) ==
  /\ Step(s, "quarantine",
          IF lock = Lock(target[s], "complete") /\ target[s] \notin quarantined
          THEN "rename" ELSE "exited")
  /\ UNCHANGED <<files, local, execution, thread, relay, faults>>

(* ... and then renames whatever the lock file is by now.  Where rename    *)
(* replaces, the read-back tells afterwards that it was another lock.      *)
RenameLock(s) ==
  /\ \/ /\ lock = NoLock \/ (target[s] \in quarantined /\ ~PosixRename)
        /\ Step(s, "rename", "exited")
        /\ UNCHANGED <<lock, quarantined>>
     \/ /\ lock # NoLock
        /\ target[s] \notin quarantined \/ PosixRename
        /\ quarantined' = quarantined \cup {target[s]}
        /\ lock' = NoLock
        /\ Step(s, "rename", IF lock = Lock(target[s], "complete") THEN "acquire" ELSE "exited")
  /\ UNCHANGED <<inFlight, processed, tmp, local, execution, thread, relay, faults>>

(* Mutant: the lock is created without O_EXCL.                             *)
AcquireAnyway(s) ==
  /\ Step(s, "acquire", "writeLock") /\ lock' = Lock(s, "empty")
  /\ UNCHANGED <<inFlight, processed, quarantined, tmp, local, execution, thread,
                 relay, faults>>
(* write_exclusive_json: O_CREAT | O_EXCL, then the content.               *)
AcquireLock(s) ==
  /\ \/ lock = NoLock /\ Step(s, "acquire", "writeLock") /\ lock' = Lock(s, "empty")
     \/ lock # NoLock /\ Step(s, "acquire", "exited") /\ UNCHANGED lock
  /\ UNCHANGED <<inFlight, processed, quarantined, tmp, local, execution, thread,
                 relay, faults>>

WriteLock(s) ==
  /\ \/ /\ lock = Lock(s, "empty")
        /\ lock' = Lock(s, "complete")
        /\ Step(s, "writeLock", "begin")
        /\ NoFault
     \/ /\ FailsUnless(lock = Lock(s, "empty"))
        /\ UNCHANGED lock
        /\ Step(s, "writeLock", "exited")
  /\ UNCHANGED <<inFlight, processed, quarantined, tmp, local, execution, thread, relay>>

(* A restart that settled a non-success stops here instead of polling.     *)
Begin(s) ==
  /\ Step(s, "begin", IF verdict[s] \in {"non_success", "rejected"}
                      THEN "finally" ELSE "loop")
  /\ UNCHANGED <<files, local, execution, thread, relay, faults>>
-----------------------------------------------------------------------------
(* The loop of a session that owns the lock.                               *)

(* stop.flag is present or all cycles are done.                            *)
LeaveLoop(s) ==
  /\ Step(s, "loop", "finally")
  /\ UNCHANGED <<files, local, execution, thread, relay, faults>>

(* Mutant: one cycle too many.                                             *)
OneMoreCycle(s) == cycle[s] <= MaxCycles /\ cycle' = [cycle EXCEPT ![s] = @ + 1]
NextCycle(s) == cycle[s] < MaxCycles /\ cycle' = [cycle EXCEPT ![s] = @ + 1]

(* pause.flag is present.                                                  *)
PausedCycle(s) ==
  /\ Step(s, "loop", "loop")
  /\ NextCycle(s)
  /\ UNCHANGED <<files, target, held, job, verdict, code, suppressed, execution,
                 thread, relay, faults>>

Current == {r \in relayed \ expired : ~Recorded(r)}

(* One B1 read of the control issue: exactly one current request is taken, *)
(* none is waited for, several (or a failed read, corrupted records or any *)
(* other B1 reason) end the loop.                                          *)
Poll(s) ==
  /\ pc[s] = "loop" /\ NextCycle(s)
  /\ \/ /\ ~CorruptedState /\ Current = {} /\ NoFault
        /\ Goto(s, "loop") /\ UNCHANGED job
     \/ /\ FailsUnless(~CorruptedState /\ Cardinality(Current) <= 1)
        /\ Goto(s, "finally") /\ UNCHANGED job
     \/ /\ ~CorruptedState /\ Cardinality(Current) = 1 /\ NoFault
        /\ \E r \in Current :
             /\ job' = [job EXCEPT ![s] = r]
             /\ Goto(s, IF r \in suppressed[s] THEN "loop" ELSE "delegate")
  /\ UNCHANGED <<files, target, held, verdict, code, suppressed, execution, thread,
                 relay>>

(* _delegate_b3_request: a health probe whose lifetime is over or too long *)
(* is refused for the rest of the session only.                            *)
RefuseProbe(s) ==
  /\ Step(s, "delegate", "loop")
  /\ job[s] \in HealthProbes
  /\ suppressed' = [suppressed EXCEPT ![s] = @ \cup {job[s]}]
  /\ UNCHANGED <<files, target, held, job, verdict, code, cycle, execution, thread,
                 relay, faults>>

(* Any other request the mode does not support, and any request while the  *)
(* checkout is dirty or has staged files, ends the loop.                   *)
RefuseRequest(s) ==
  /\ Step(s, "delegate", "finally")
  /\ UNCHANGED <<files, local, execution, thread, relay, faults>>

(* The local processed gate.                                               *)
CheckProcessed(s) ==
  /\ \/ Step(s, "delegate", "finally") /\ CorruptedState
     \/ Step(s, "delegate", "loop") /\ ~CorruptedState /\ Recorded(job[s])
     \/ Step(s, "delegate", "reconcile") /\ ~CorruptedState /\ ~Recorded(job[s])
  /\ UNCHANGED <<files, local, execution, thread, relay, faults>>

(* The durable gate: only NOT_FOUND lets the dispatch go on, a settled     *)
(* request is recorded without one, everything else ends the loop.         *)
Reconcile(s) ==
  LET decision == Evidence(job[s])
  IN /\ \/ /\ Step(s, "reconcile", "prepare")
           /\ decision = R!NotFound
           /\ UNCHANGED verdict /\ NoFault
        \/ /\ Step(s, "reconcile", "settle")
           /\ decision \in R!Settling
           /\ verdict' = [verdict EXCEPT ![s] = VerdictOf(decision)]
           /\ NoFault
        \/ /\ Step(s, "reconcile", "finally")
           /\ FailsUnless(decision \in R!Settling \cup {R!NotFound})
           /\ UNCHANGED verdict
     /\ UNCHANGED <<files, target, held, job, code, cycle, suppressed, execution,
                    thread, relay>>

AfterSettlement(s) == IF verdict[s] = "success" THEN "loop" ELSE "finally"

Settle(s) ==
  /\ pc[s] = "settle"
  /\ AppendRecord(s, job[s], verdict[s], AfterSettlement(s), "finally")
  /\ UNCHANGED <<lock, inFlight, quarantined, tmp, local, execution, thread, relay>>

Prepare(s) ==
  /\ pc[s] = "prepare"
  /\ WriteInFlight(s, s, Flight(s, job[s], "PREPARED"), "commit", "finally")
  /\ UNCHANGED <<lock, processed, quarantined, target, job, verdict, code, cycle,
                 suppressed, execution, thread, relay>>

(* Dispatch ownership is committed before the process is created.          *)
Commit(s) ==
  /\ pc[s] = "commit"
  /\ WriteInFlight(s, s, Flight(s, job[s], "DISPATCHED"), "spawn", "finally")
  /\ UNCHANGED <<lock, processed, quarantined, target, job, verdict, code, cycle,
                 suppressed, execution, thread, relay>>

(* Create the dispatcher process; a missing executable is told apart from  *)
(* any other failure to start it.                                          *)
Spawn(s) ==
  /\ \/ /\ Step(s, "spawn", "wait") /\ NoFault
        /\ chain' = [chain EXCEPT ![s] = Chain(job[s], "admit")]
        /\ UNCHANGED code
     \/ /\ Fault
        /\ \/ Step(s, "spawn", "cleanup") /\ code' = [code EXCEPT ![s] = "missing"]
           \/ Step(s, "spawn", "finally") /\ code' = [code EXCEPT ![s] = "other"]
        /\ UNCHANGED chain
  /\ UNCHANGED <<files, target, held, job, verdict, cycle, suppressed, runs, thread, relay>>

(* process.wait returns the exit code, or gives up after the timeout and   *)
(* leaves the dispatcher running.                                          *)
Wait(s) ==
  /\ Step(s, "wait", "identify")
  /\ code' = [code EXCEPT ![s] = IF ChainVisible(s) THEN "timeout" ELSE chain[s].code]
  /\ UNCHANGED <<files, target, held, job, verdict, cycle, suppressed, execution,
                 thread, relay, faults>>

(* Mutants: what happens to an exit code that does not prove that nothing  *)
(* ran: "unproven" is taken for such a proof.                              *)
IdentifyThen(s, unproven, next) ==
  /\ pc[s] = "identify"
  /\ WriteInFlight(s, s, held[s],
                   CASE code[s] \in unproven -> next
                     [] code[s] = "zero" -> "confirm"
                     [] OTHER -> "finally",
                   "finally")
  /\ UNCHANGED <<lock, processed, quarantined, target, job, verdict, code, cycle,
                 suppressed, execution, thread, relay>>
CleanupAfterTimeout(s) == IdentifyThen(s, {"timeout", "failed_before_runner"}, "cleanup")
CleanupAfterRunner(s) == IdentifyThen(s, {"runner_reach_uncertain"}, "cleanup")

(* The in_flight record is rewritten with the dispatcher's process         *)
(* identity; then the exit code decides.                                   *)
RecordDispatcher(s) ==
  /\ pc[s] = "identify"
  /\ WriteInFlight(s, s, held[s],
                   CASE code[s] = "rejected" -> "reject"
                     [] code[s] = "failed_before_runner" -> "cleanup"
                     [] code[s] = "zero" -> "confirm"
                     [] OTHER -> "finally",
                   "finally")
  /\ UNCHANGED <<lock, processed, quarantined, target, job, verdict, code, cycle,
                 suppressed, execution, thread, relay>>

(* Exit 20: a deterministic rejection before the runner is a settlement.   *)
Reject(s) ==
  /\ pc[s] = "reject"
  /\ WriteInFlight(s, s, [held[s] EXCEPT !.stage = "REJECTED"], "append", "finally")
  /\ verdict' = [verdict EXCEPT ![s] = "rejected"]
  /\ UNCHANGED <<lock, processed, quarantined, target, job, code, cycle, suppressed,
                 execution, thread, relay>>

(* Exit 22 or no executable: nothing ran, the request is not consumed.     *)
Cleanup(s) ==
  /\ pc[s] = "cleanup"
  /\ RemoveInFlight(s, "finally", "finally")
  /\ UNCHANGED <<lock, processed, quarantined, tmp, target, job, verdict, code, cycle,
                 suppressed, execution, thread, relay>>

(* Exit 0: the result must be on the issue, exactly once.                  *)
Confirm(s) ==
  LET decision == Evidence(job[s])
  IN /\ \/ /\ Step(s, "confirm", "append")
           /\ decision \in R!Settling
           /\ verdict' = [verdict EXCEPT ![s] = VerdictOf(decision)]
           /\ NoFault
        \/ /\ Step(s, "confirm", "finally")
           /\ FailsUnless(decision \in R!Settling)
           /\ UNCHANGED verdict
     /\ UNCHANGED <<files, target, held, job, code, cycle, suppressed, execution,
                    thread, relay>>

(* Mutant: a failed append is not noticed.                                 *)
AppendAndGoOn(s) ==
  /\ pc[s] = "append"
  /\ AppendRecord(s, job[s], verdict[s], "mark", "mark")
  /\ UNCHANGED <<lock, inFlight, quarantined, tmp, local, execution, thread, relay>>
(* Settlement of the dispatched request: record, PROCESSED stage, removal. *)
AppendSettled(s) ==
  /\ pc[s] = "append"
  /\ AppendRecord(s, job[s], verdict[s], "mark", "finally")
  /\ UNCHANGED <<lock, inFlight, quarantined, tmp, local, execution, thread, relay>>

Mark(s) ==
  /\ pc[s] = "mark"
  /\ WriteInFlight(s, s, [held[s] EXCEPT !.stage = "PROCESSED"], "remove", "finally")
  /\ UNCHANGED <<lock, processed, quarantined, target, job, verdict, code, cycle,
                 suppressed, execution, thread, relay>>

Remove(s) ==
  /\ pc[s] = "remove"
  /\ RemoveInFlight(s, AfterSettlement(s), "finally")
  /\ UNCHANGED <<lock, processed, quarantined, tmp, target, job, verdict, code, cycle,
                 suppressed, execution, thread, relay>>

(* Mutant: the lock is removed in any case.                                *)
FinallyRelease(s) ==
  /\ Step(s, "finally", "release")
  /\ UNCHANGED <<files, local, execution, thread, relay, faults>>
(* The finally block: the lock outlives an unresolved in_flight record ... *)
Finally(s) ==
  /\ Step(s, "finally", IF inFlight = NoFlight THEN "release" ELSE "exited")
  /\ UNCHANGED <<files, local, execution, thread, relay, faults>>

(* ... and is otherwise removed, if it is still exactly this session's.    *)
ReleaseLock(s) ==
  /\ Step(s, "release", "exited")
  /\ \/ lock = Lock(s, "complete") /\ lock' = NoLock /\ NoFault
     \/ FailsUnless(lock = Lock(s, "complete")) /\ UNCHANGED lock
  /\ UNCHANGED <<inFlight, processed, quarantined, tmp, local, execution, thread, relay>>

(* The process dies.  In the middle of a write it may leave its temporary  *)
(* file behind; the dispatcher it started lives on.                        *)
Writing == {"recMark", "prepare", "commit", "identify", "reject", "mark"}
Crash(s) ==
  /\ Alive(s) /\ Fault
  /\ Goto(s, "crashed")
  /\ tmp' \in {tmp, IF pc[s] \notin Writing THEN tmp
                    ELSE tmp \cup {IF pc[s] = "recMark" THEN held[s].owner ELSE s}}
  /\ UNCHANGED <<lock, inFlight, processed, quarantined, local, execution, thread, relay>>
-----------------------------------------------------------------------------
(* The dispatcher a session started (local_dispatcher_v1.ps1 -PollOnce).   *)

Ended(s, exit) == chain' = [chain EXCEPT ![s].phase = "ended", ![s].code = exit]

(* Admission: a deterministic rejection (exit 20), a failure proven before *)
(* the runner (22), or the action: a probe has no runner.                  *)
Admit(s) ==
  /\ chain[s].phase = "admit"
  /\ \/ Ended(s, "rejected") /\ UNCHANGED runs
     \/ Ended(s, "failed_before_runner") /\ UNCHANGED runs
     \/ /\ chain[s].req \in HealthProbes
        /\ chain' = [chain EXCEPT ![s].phase = "post", ![s].result = "success"]
        /\ UNCHANGED runs
     \/ /\ chain[s].req \notin HealthProbes
        /\ chain' = [chain EXCEPT ![s].phase = "run"]
        /\ runs' = [runs EXCEPT ![chain[s].req] = @ + 1]
  /\ UNCHANGED <<files, pc, local, thread, relay, faults>>

RunnerReturns(s) ==
  /\ chain[s].phase = "run"
  /\ \E result \in {"success", "failure"} :
       chain' = [chain EXCEPT ![s].phase = "post", ![s].result = result]
  /\ UNCHANGED <<files, pc, local, runs, thread, relay, faults>>

Posted(s) == thread \cup {ResultComment(s, "owner", R!ResultBody,
                                        chain[s].req, chain[s].result)}

(* gh issue comment: when it reports a failure the comment may exist all   *)
(* the same, and the exit code then depends on whether a runner started.   *)
PostResult(s) ==
  /\ chain[s].phase = "post"
  /\ \/ Ended(s, "zero") /\ thread' = Posted(s) /\ NoFault
     \/ /\ Fault
        /\ Ended(s, IF chain[s].req \in HealthProbes
                    THEN "failed_before_runner" ELSE "runner_reach_uncertain")
        /\ thread' \in {thread, Posted(s)}
  /\ UNCHANGED <<files, pc, local, runs, relay>>

(* The dispatcher is killed; a runner it started is left without a parent  *)
(* and without anybody to post its result.                                 *)
Killed(c) ==
  [c EXCEPT !.phase = IF c.phase = "run" THEN "orphan" ELSE "ended", !.code = "other"]
KillDispatcher(s) ==
  /\ ChainVisible(s) /\ Fault
  /\ chain' = [chain EXCEPT ![s] = Killed(@)]
  /\ UNCHANGED <<files, pc, local, runs, thread, relay>>

OrphanEnds(s) ==
  /\ chain[s].phase = "orphan"
  /\ chain' = [chain EXCEPT ![s].phase = "ended"]
  /\ UNCHANGED <<files, pc, local, runs, thread, relay, faults>>

(* The control issue and the target issue.                                 *)
Relay(r) ==
  /\ r \notin relayed /\ relayed' = relayed \cup {r}
  /\ UNCHANGED <<files, pc, local, execution, thread, expired, faults>>

Expire(r) ==
  /\ r \in relayed \ expired /\ expired' = expired \cup {r}
  /\ UNCHANGED <<files, pc, local, execution, thread, relayed, faults>>

(* Somebody else posts what looks like a result of the request.            *)
ForeignComment(r) ==
  /\ Fault
  /\ \A c \in thread : c.id # NoSession
  /\ thread' = thread \cup
       {ResultComment(NoSession, "stranger", R!ResultBody, r, "success")}
  /\ UNCHANGED <<files, pc, local, execution, relay>>
-----------------------------------------------------------------------------
StartUp(s) ==
  \/ ReadState(s) \/ InspectLock(s) \/ Recover(s) \/ RecReconcile(s)
  \/ RecAppend(s) \/ RecMark(s) \/ RecRemove(s) \/ CheckQuarantine(s)
  \/ RenameLock(s) \/ AcquireLock(s) \/ WriteLock(s) \/ Begin(s)
Loop(s) ==
  \/ LeaveLoop(s) \/ PausedCycle(s) \/ Poll(s) \/ RefuseProbe(s)
  \/ RefuseRequest(s) \/ CheckProcessed(s) \/ Reconcile(s) \/ Settle(s) \/ Prepare(s) \/ Commit(s)
  \/ Spawn(s) \/ Wait(s) \/ RecordDispatcher(s) \/ Reject(s) \/ Cleanup(s)
  \/ Confirm(s) \/ AppendSettled(s) \/ Mark(s) \/ Remove(s)
  \/ Finally(s) \/ ReleaseLock(s)
Operator(s) == StartUp(s) \/ Loop(s)
Dispatcher(s) == Admit(s) \/ RunnerReturns(s) \/ PostResult(s) \/ OrphanEnds(s)
Hazard(s) == Crash(s) \/ KillDispatcher(s)

Next ==
  \/ \E s \in Sessions : Start(s) \/ Operator(s) \/ Dispatcher(s) \/ Hazard(s)
  \/ \E r \in Requests : Relay(r) \/ Expire(r) \/ ForeignComment(r)

Spec == Init /\ [][Next]_vars

(* A process that is not dead runs on, a dispatcher ends (its own waits    *)
(* are bounded), and an operator is started again whenever one may be.     *)
Fairness ==
  \A s \in Sessions : WF_vars(Start(s)) /\ WF_vars(Operator(s)) /\ WF_vars(Dispatcher(s))
FairSpec == Spec /\ Fairness
-----------------------------------------------------------------------------
Labels ==
  {"off", "startup", "inspect", "recover", "recReconcile", "recAppend", "recMark",
   "recRemove", "quarantine", "rename", "acquire", "writeLock", "begin", "loop",
   "delegate", "reconcile", "settle", "prepare", "commit", "spawn", "wait",
   "identify", "reject", "cleanup", "confirm", "append", "mark", "remove",
   "finally", "release", "exited", "crashed"}
Owning ==
  {"begin", "loop", "delegate", "reconcile", "settle", "prepare", "commit", "spawn",
   "wait", "identify", "reject", "cleanup", "confirm", "append", "mark", "remove",
   "finally", "release"}
Codes == {"none", "timeout", "missing", "zero", "rejected", "failed_before_runner",
          "runner_reach_uncertain", "other"}
Locks == [owner : Sessions \cup {NoSession}, content : {"none", "empty", "complete"}]
Flights == [owner : Sessions \cup {NoSession}, req : Requests \cup {NoRequest},
            stage : Stages \cup {"NONE"}]
Chains == [req : Requests \cup {NoRequest},
           phase : {"none", "admit", "run", "post", "ended", "orphan"},
           code : Codes, result : {"none", "success", "failure"}]
Lines == [req : Requests \cup {NoRequest}, outcome : Outcomes \cup {"torn", "none"}]

TypeOK ==
  /\ lock \in Locks /\ inFlight \in Flights
  /\ processed \in Seq(Lines)
  /\ quarantined \subseteq Sessions \cup {NoSession}
  /\ tmp \subseteq Sessions \cup {NoSession}
  /\ pc \in [Sessions -> Labels]
  /\ target \in [Sessions -> Sessions \cup {NoSession}]
  /\ held \in [Sessions -> Flights]
  /\ job \in [Sessions -> Requests \cup {NoRequest}]
  /\ verdict \in [Sessions -> Outcomes \cup {"none", "torn"}]
  /\ code \in [Sessions -> Codes]
  /\ cycle \in [Sessions -> 0 .. MaxCycles]
  /\ suppressed \in [Sessions -> SUBSET Requests]
  /\ chain \in [Sessions -> Chains]
  /\ runs \in [Requests -> Nat]
  /\ relayed \subseteq Requests /\ expired \subseteq Requests
  /\ faults \in 0 .. MaxFaults
-----------------------------------------------------------------------------
(* Safety.                                                                 *)

(* The loop is never run by two sessions at once ("an in-progress lock     *)
(* must prevent concurrent execution"): operator.lock is checked, moved    *)
(* aside and created in separate steps of separate processes.              *)
MutualExclusion ==
  \A s, t \in Sessions : pc[s] \in Owning /\ pc[t] \in Owning => s = t

(* Why MutualExclusion holds where rename does not replace a file: the     *)
(* lock file always names who may hold it, what a starting session is about*)
(* to move aside belongs to a session that is dead, and it is either still *)
(* there or has been moved aside by somebody else already.                 *)
Assessing == {"recover", "recReconcile", "recAppend", "recMark", "recRemove",
              "quarantine", "rename"}
LockInv ==
  /\ lock # NoLock => lock.owner \in Sessions
  /\ \A s \in Sessions :
       /\ pc[s] \in Owning => lock = Lock(s, "complete")
       /\ pc[s] = "writeLock" => lock = Lock(s, "empty")
       /\ pc[s] \in Assessing => target[s] \in Sessions /\ Dead(target[s])
       /\ pc[s] = "rename" =>
            lock = Lock(target[s], "complete") \/ target[s] \in quarantined

(* The runner is started at most once for a request, whatever crashes and  *)
(* fails: neither a restart nor a lost result makes it run again.          *)
RunAtMostOnce == \A r \in Requests : runs[r] <= 1

(* Two runners never work on the checkout at the same time, not even one   *)
(* left over from a session that timed out or died.                        *)
OneRunnerAtATime ==
  \A s, t \in Sessions : RunnerAtWork(s) /\ RunnerAtWork(t) => s = t

(* An in_flight record is always covered by the complete lock of the       *)
(* session that wrote it: no later session can mistake it for its own or   *)
(* find it without the lock that tells whether its writer is gone.         *)
InFlightUnderLock ==
  inFlight # NoFlight => lock = Lock(inFlight.owner, "complete")

(* A request is recorded once.  (A second record makes every later start   *)
(* and every poll fail with corrupted_state.)                              *)
RecordedOnce == \A r \in Requests : \A i, j \in RecordsOf(r) : i = j

TrustedResults(r) == {c \in thread : c.author = "owner" /\ c.request = r}

(* A record says what happened: a success or a non-success is backed by a  *)
(* trusted result comment of that kind, and a rejected request was neither *)
(* run nor answered on GitHub.                                             *)
RecordsAreBacked ==
  \A i \in DOMAIN processed :
    LET r == processed[i].req
    IN CASE processed[i].outcome = "success" ->
              \E c \in TrustedResults(r) : c.result = "success"
         [] processed[i].outcome = "non_success" ->
              \E c \in TrustedResults(r) : c.result = "failure"
         [] processed[i].outcome = "rejected" ->
              runs[r] = 0 /\ TrustedResults(r) = {}
         [] OTHER -> TRUE

(* The in_flight record of a dispatch disappears only when the request is  *)
(* recorded, or when no runner was ever started for it and no dispatcher   *)
(* is still at work on it.                                                 *)
InFlightEndsSettled ==
  [][inFlight.stage \in Stages \ {"PREPARED"} /\ inFlight' = NoFlight =>
       LET r == inFlight.req
       IN \/ Recorded(r)
          \/ /\ runs[r] = 0
             /\ \A s \in Sessions : chain[s].req = r => ~ChainVisible(s)]_vars
(* The durable ordering state of a request as restarts see it: its record, *)
(* or else the in_flight record, or else nothing.                          *)
Stage ==
  [r \in Requests |-> IF Recorded(r) THEN "PROCESSED"
                      ELSE IF inFlight.req = r THEN inFlight.stage
                      ELSE "NOT_ADMITTED"]
Ordering == INSTANCE DurableOrdering WITH stage <- Stage

(* Whatever crashes and fails, the files and the runner go through the     *)
(* durable ordering states of every request in the promised order.         *)
ImplementsOrdering == Ordering!Spec
-----------------------------------------------------------------------------
(* Liveness.                                                               *)

(* Every session comes to an end: the loop is bounded, the dispatcher wait *)
(* has a timeout, and start-up never waits for another session.            *)
SessionEnds == \A s \in Sessions : pc[s] = "startup" ~> Dead(s)

Settleable(r) ==
  /\ inFlight.req = r /\ Dead(inFlight.owner)
  /\ \/ inFlight.stage \in {"REJECTED", "PROCESSED"}
     \/ inFlight.stage = "DISPATCHED" /\ Evidence(r) \in R!Settling

(* Once nothing fails any more and a session is left to be started, an     *)
(* interrupted request that has exactly one trusted result, or was         *)
(* rejected, is recorded - unless an earlier torn write corrupted the      *)
(* record file, which only an operator can repair.                         *)
RecoveryCompletes ==
  \A r \in Requests :
    Settleable(r) /\ faults = MaxFaults /\ (\E s \in Sessions : pc[s] = "off")
      ~> Recorded(r) \/ CorruptedState
=============================================================================
