-------------------------- MODULE DisplayPilotProofs ---------------------------
(***************************************************************************)
(* Proofs about DisplayPilot, for any number of sessions, requests, kinds  *)
(* of report and faults.                                                   *)
(***************************************************************************)
EXTENDS DisplayPilot, TLAPS

USE PilotAssumption

-----------------------------------------------------------------------------
(* Types.                                                                  *)

LEMMA Nothing ==
  /\ NoSession \notin Sessions /\ NoFlight \notin Flights
  /\ NoFlight.req = NoRequest /\ NoRequest \notin Requests
  /\ \A f \in Flights : f.req \in Requests /\ f.by \in Sessions
  /\ \A r \in Requests, s \in Sessions : Flight(r, s) \in Flights
BY DEF NoSession, Sessions, NoFlight, Flights, Flight

LEMMA NoTypes ==
  /\ NoEvidence \in Evidences /\ NoContent \in Contents /\ Fragment \in Contents
  /\ Blank \in Memory /\ NoRunner \in Runners
BY DEF NoEvidence, Evidences, NoContent, Fragment, Contents, Blank, Memory, NoRunner,
       Runners, Results, Kinds

LEMMA InitType == Init => TypeOK
<1> SUFFICES ASSUME Init PROVE TypeOK
  OBVIOUS
<1>1. /\ record \in [Requests -> [Kinds -> Contents]] /\ pending \in [Requests -> [Kinds -> Contents]]
      /\ evidence \in [Requests -> Evidences] /\ mem \in [Sessions -> Memory]
      /\ runner \in [Sessions -> Runners]
  BY NoTypes DEF Init
<1>2. tree \in Trees
  BY DEF Init
<1> QED BY <1>1, <1>2 DEF Init, TypeOK, Labels

(* Each thing a session remembers leaves its memory in shape.              *)
LEMMA MemoryType ==
  ASSUME NEW m \in Memory
  PROVE  /\ \A v \in SUBSET Requests : [m EXCEPT !.known = v] \in Memory
         /\ \A v \in Flights : [m EXCEPT !.job = v] \in Memory
         /\ \A v \in Results : [m EXCEPT !.result = v] \in Memory
         /\ \A v \in Reports \cup {NoReport} : [m EXCEPT !.seen = v] \in Memory
         /\ \A v \in {"success", "blocked"} : [m EXCEPT !.verdict = v] \in Memory
         /\ \A v \in Sessions \cup {NoSession} : [m EXCEPT !.stamp = v] \in Memory
<1>1. \A v \in SUBSET Requests : [m EXCEPT !.known = v] \in Memory
  BY DEF Memory
<1>2. \A v \in Flights : [m EXCEPT !.job = v] \in Memory
  BY DEF Memory
<1>3. \A v \in Results : [m EXCEPT !.result = v] \in Memory
  BY DEF Memory
<1>4. \A v \in Reports \cup {NoReport} : [m EXCEPT !.seen = v] \in Memory
  BY DEF Memory
<1>5. \A v \in {"success", "blocked"} : [m EXCEPT !.verdict = v] \in Memory
  BY DEF Memory
<1>6. \A v \in Sessions \cup {NoSession} : [m EXCEPT !.stamp = v] \in Memory
  BY DEF Memory
<1> QED BY <1>1, <1>2, <1>3, <1>4, <1>5, <1>6

LEMMA MemoryFields ==
  ASSUME TypeOK, NEW s \in Sessions
  PROVE  /\ mem[s] \in Memory /\ mem[s].job \in Flights \cup {NoFlight}
         /\ mem[s].seen \in Reports \cup {NoReport} /\ mem[s].stage \in Kinds
         /\ mem[s].stamp \in Sessions \cup {NoSession}
         /\ mem[s].verdict \in {"none", "success", "blocked"} /\ mem[s].result \in Results
         /\ mem[s].inventory \subseteq Inventory /\ mem[s].known \subseteq Requests
BY DEF TypeOK, Memory

LEMMA RememberType ==
  ASSUME TypeOK, NEW s \in Sessions, NEW m \in Memory, Remember(s, m)
  PROVE  mem' \in [Sessions -> Memory]
BY DEF TypeOK, Remember

LEMMA RunnerShape ==
  ASSUME TypeOK, NEW s \in Sessions
  PROVE  /\ runner[s].phase # "none" => runner[s].req \in Requests
         /\ RunnerActive(s) =>
              runner[s] \in [req : Requests, phase : {"working", "reported", "orphan"}, exit : {"none"}]
         /\ runner[s].exit \in {"none", "zero", "nonzero"}
         /\ runner[s].phase = "exited" => runner[s].exit # "none"
BY DEF TypeOK, Runners, NoRunner, RunnerActive

(* The ways to go on and to stop.                                          *)
LEMMA GoOnType ==
  ASSUME TypeOK, NEW s \in Sessions, NEW label \in Labels, GoOn(s, label)
  PROVE  /\ lock' \in Sessions \cup {NoSession} /\ pc' \in [Sessions -> Labels]
         /\ end' \in [Sessions -> {"none", "stopped", "processed", "recovered"}]
BY DEF TypeOK, GoOn, Goto

LEMMA LeaveType ==
  ASSUME TypeOK, NEW s \in Sessions, NEW why \in {"stopped", "processed", "recovered"},
         Leave(s, why)
  PROVE  /\ lock' \in Sessions \cup {NoSession} /\ pc' \in [Sessions -> Labels]
         /\ end' \in [Sessions -> {"none", "stopped", "processed", "recovered"}]
         /\ mem' \in [Sessions -> Memory]
BY NoTypes DEF TypeOK, Leave, Goto, Forget, Labels

(* Types are kept by what a session does up to the runner ...              *)
LEMMA StartType ==
  ASSUME TypeOK, NEW s \in Sessions,
         StartOperator(s) \/ StartRecovery(s) \/ Check(s) \/ Poll(s) \/ WriteInFlight(s)
  PROVE  TypeOK'
<1> USE MemoryFields, GoOnType, RememberType DEF records, requestFiles, recovery, world, NoFault
<1>1. CASE StartOperator(s)
  <2>1. /\ lock' \in Sessions \cup {NoSession} /\ pc' \in [Sessions -> Labels]
        /\ end' \in [Sessions -> {"none", "stopped", "processed", "recovered"}]
    BY <1>1 DEF StartOperator, AcquireLock, Goto, TypeOK, Labels
  <2> QED BY <1>1, <2>1 DEF StartOperator, TypeOK
<1>2. CASE StartRecovery(s)
  <2>1. /\ lock' \in Sessions \cup {NoSession} /\ pc' \in [Sessions -> Labels]
        /\ end' \in [Sessions -> {"none", "stopped", "processed", "recovered"}]
    BY <1>2 DEF StartRecovery, AcquireLock, Goto, TypeOK, Labels
  <2>2. mem' \in [Sessions -> Memory]
    BY <1>2, MemoryType DEF StartRecovery
  <2> QED BY <1>2, <2>1, <2>2 DEF StartRecovery, TypeOK
<1>3. CASE Check(s)
  <2>1. ProcessedIds \subseteq Requests
    BY DEF ProcessedIds, TypeOK, Lines
  <2>2. CASE Stop(s)
    BY <1>3, <2>2, LeaveType DEF Check, Stop, TypeOK
  <2>3. CASE GoOn(s, "poll") /\ Remember(s, [mem[s] EXCEPT !.known = ProcessedIds])
    BY <1>3, <2>1, <2>3, MemoryType DEF Check, TypeOK, Labels
  <2> QED BY <1>3, <2>2, <2>3 DEF Check
<1>4. CASE Poll(s)
  <2>1. CASE Stop(s)
    BY <1>4, <2>1, LeaveType DEF Poll, Stop, TypeOK
  <2>2. CASE /\ GoOn(s, "flight")
             /\ \E r \in Requests : Remember(s, [mem[s] EXCEPT !.job = Flight(r, s)])
    BY <1>4, <2>2, MemoryType, Nothing DEF Poll, TypeOK, Labels
  <2> QED BY <1>4, <2>1, <2>2 DEF Poll
<1>5. CASE WriteInFlight(s)
  <2>1. CASE Stop(s) /\ UNCHANGED inFlight /\ Fault
    BY <1>5, <2>1, LeaveType DEF WriteInFlight, Stop, TypeOK, Fault
  <2>2. CASE inFlight' = mem[s].job /\ GoOn(s, "launch") /\ UNCHANGED mem /\ NoFault
    BY <1>5, <2>2 DEF WriteInFlight, TypeOK, Labels
  <2> QED BY <1>5, <2>1, <2>2 DEF WriteInFlight
<1> QED BY <1>1, <1>2, <1>3, <1>4, <1>5

(* ... and after it; a delegation has a request.                           *)
LEMMA RunnerType ==
  ASSUME TypeOK, NEW s \in Sessions, mem[s].job.req \in Requests,
         Launch(s) \/ Await(s) \/ Observe(s) \/ WriteEvidence(s) \/ Judge(s) \/ Verify(s)
  PROVE  TypeOK'
<1> USE MemoryFields, GoOnType, RememberType DEF records, requestFiles, recovery, world,
       NoFault, Fault
<1>0. /\ \A v \in {"success", "blocked"} : [mem[s] EXCEPT !.verdict = v] \in Memory
      /\ \A v \in Results : [mem[s] EXCEPT !.result = v] \in Memory
      /\ [mem[s] EXCEPT !.result = "not_started"] \in Memory
      /\ [mem[s] EXCEPT !.result = "timed_out"] \in Memory
  BY MemoryType DEF Results
<1>1. CASE Launch(s)
  <2>1. CASE Stop(s) /\ NoFault /\ UNCHANGED <<runner, runs>>
    BY <1>1, <2>1, LeaveType DEF Launch, Stop, TypeOK
  <2>2. CASE StartRunner(s)
    <3>1. Runner(mem[s].job.req, "working", "none") \in Runners
      BY DEF Runner, Runners
    <3>2. runner' \in [Sessions -> Runners] /\ runs' \in [Requests -> Nat]
      BY <2>2, <3>1 DEF StartRunner, TypeOK
    <3> QED BY <1>1, <2>2, <3>2 DEF Launch, StartRunner, TypeOK, Labels
  <2>3. CASE NotStarted(s)
    BY <1>0, <1>1, <2>3 DEF Launch, NotStarted, TypeOK, Labels
  <2> QED BY <1>1, <2>1, <2>2, <2>3 DEF Launch
<1>2. CASE Await(s)
  <2>1. runner[s].exit \in Results /\ runner[s].req \in Requests \cup {NoRequest}
    BY DEF TypeOK, Runners, NoRunner, Results
  <2>2. mem' \in [Sessions -> Memory]
    BY <1>0, <1>2, <2>1 DEF Await
  <2>3. runner' \in [Sessions -> Runners]
    <3>0. RunnerActive(s) => [runner[s] EXCEPT !.phase = "orphan"] \in Runners
      BY RunnerShape DEF RunnerActive, Runners
    <3>1. RunnerActive(s) => [runner EXCEPT ![s].phase = "orphan"] \in [Sessions -> Runners]
      BY <3>0 DEF TypeOK
    <3>2. [runner EXCEPT ![s] = NoRunner] \in [Sessions -> Runners]
      BY NoTypes DEF TypeOK
    <3> QED BY <1>2, <3>1, <3>2 DEF Await, Kill
  <2>4. litter' \subseteq Requests
    <3>1. runner[s].phase = "working" => runner[s].req \in Requests
      BY RunnerShape
    <3> QED BY <1>2, <3>1 DEF Await, Kill, TypeOK
  <2> QED BY <1>2, <2>2, <2>3, <2>4 DEF Await, TypeOK, Labels
<1>3. CASE Observe(s)
  <2>1. machine[mem[s].job.req] \in Reports \cup {NoReport}
    BY DEF TypeOK
  <2>2. mem' \in [Sessions -> Memory]
    BY <1>3, <2>1, MemoryType DEF Observe, TypeOK
  <2> QED BY <1>3, <2>2 DEF Observe, TypeOK, Labels
<1>4. CASE WriteEvidence(s)
  <2>1. Evidence(mem[s].result, mem[s].seen) \in Evidences
    BY DEF Evidence, Evidences
  <2>2. evidence' \in [Requests -> Evidences]
    BY <1>4, <2>1 DEF WriteEvidence, TypeOK
  <2>3. CASE Stop(s)
    BY <1>4, <2>2, <2>3, LeaveType DEF WriteEvidence, Stop, TypeOK
  <2>4. CASE GoOn(s, "judge") /\ UNCHANGED mem
    BY <1>4, <2>2, <2>4 DEF WriteEvidence, TypeOK, Labels
  <2> QED BY <1>4, <2>3, <2>4 DEF WriteEvidence
<1>5. CASE Judge(s)
  <2>1. CASE Stop(s)
    BY <1>5, <2>1, LeaveType DEF Judge, Stop, TypeOK
  <2>2. CASE GoOn(s, "verify") /\ UNCHANGED mem
    BY <1>5, <2>2 DEF Judge, TypeOK, Labels
  <2>3. CASE Blocked(s)
    BY <1>0, <1>5, <2>3 DEF Judge, Blocked, TypeOK, Labels
  <2> QED BY <1>5, <2>1, <2>2, <2>3 DEF Judge
<1>6. CASE Verify(s)
  <2>1. CASE Stop(s)
    BY <1>6, <2>1, LeaveType DEF Verify, Stop, TypeOK
  <2>2. CASE Blocked(s)
    BY <1>0, <1>6, <2>2 DEF Verify, Blocked, TypeOK, Labels
  <2>3. CASE Remember(s, [mem[s] EXCEPT !.verdict = "success"]) /\ GoOn(s, "render")
    BY <1>0, <1>6, <2>3 DEF Verify, TypeOK, Labels
  <2> QED BY <1>6, <2>1, <2>2, <2>3 DEF Verify
<1> QED BY <1>1, <1>2, <1>3, <1>4, <1>5, <1>6

(* ... by the recording of the result ...                                  *)
LEMMA RecordType ==
  ASSUME TypeOK, NEW s \in Sessions, mem[s].job.req \in Requests,
         Render(s) \/ WriteArtifact(s) \/ AppendProcessed(s) \/ Release(s) \/ ConfirmRelease(s)
  PROVE  TypeOK'
<1> USE MemoryFields, GoOnType DEF records, requestFiles, recovery, world, NoFault, Fault
<1>1. CASE Render(s)
  <2>1. CASE Stop(s)
    BY <1>1, <2>1, LeaveType DEF Render, Stop, TypeOK
  <2>2. CASE GoOn(s, "artifacts") /\ UNCHANGED mem
    BY <1>1, <2>2 DEF Render, TypeOK, Labels
  <2> QED BY <1>1, <2>1, <2>2 DEF Render
<1>2. CASE WriteArtifact(s)
  <2>1. CASE Stop(s) /\ UNCHANGED artifacts
    BY <1>2, <2>1, LeaveType DEF WriteArtifact, Stop, TypeOK
  <2>2. CASE /\ artifacts' = [artifacts EXCEPT ![mem[s].job.req] = @ + 1]
             /\ GoOn(s, IF artifacts[mem[s].job.req] + 1 = ArtifactCount THEN "append" ELSE "artifacts")
             /\ UNCHANGED mem
    <3>1. artifacts' \in [Requests -> Nat]
      BY <2>2 DEF TypeOK
    <3> QED BY <1>2, <2>2, <3>1 DEF WriteArtifact, TypeOK, Labels
  <2> QED BY <1>2, <2>1, <2>2 DEF WriteArtifact
<1>3. OwnLine(s) \in Lines
  BY DEF OwnLine, Line, Lines
<1>4. CASE AppendProcessed(s)
  <2>1. processed' \subseteq Lines /\ torn' \in BOOLEAN
    BY <1>3, <1>4 DEF AppendProcessed, TypeOK
  <2>2. CASE Stop(s)
    BY <1>4, <2>1, <2>2, LeaveType DEF AppendProcessed, Stop, TypeOK
  <2>3. CASE GoOn(s, "release") /\ UNCHANGED mem
    BY <1>4, <2>1, <2>3 DEF AppendProcessed, TypeOK, Labels
  <2> QED BY <1>4, <2>2, <2>3 DEF AppendProcessed
<1>5. CASE Release(s)
  <2>1. /\ processed' \subseteq Lines /\ inFlight' \in Flights \cup {NoFlight}
        /\ faults' \in Nat
    BY <1>5 DEF Release, Rollback, TypeOK
  <2>2. CASE Stop(s)
    BY <1>5, <2>1, <2>2, LeaveType DEF Release, Stop, TypeOK
  <2>3. CASE GoOn(s, "confirm") /\ UNCHANGED mem
    BY <1>5, <2>1, <2>3 DEF Release, TypeOK, Labels
  <2> QED BY <1>5, <2>2, <2>3 DEF Release, Rollback
<1>6. CASE ConfirmRelease(s)
  <2>1. processed' \subseteq Lines
    BY <1>6 DEF ConfirmRelease, Rollback, TypeOK
  <2>2. \E why \in {"stopped", "processed"} : Leave(s, why)
    BY <1>6 DEF ConfirmRelease, Rollback, Stop
  <2>3. /\ lock' \in Sessions \cup {NoSession} /\ pc' \in [Sessions -> Labels]
        /\ end' \in [Sessions -> {"none", "stopped", "processed", "recovered"}]
        /\ mem' \in [Sessions -> Memory]
    BY <2>2, LeaveType
  <2>4. faults' \in Nat
    BY <1>6 DEF ConfirmRelease, Rollback, TypeOK
  <2> QED BY <1>6, <2>1, <2>3, <2>4 DEF ConfirmRelease, TypeOK
<1> QED BY <1>1, <1>2, <1>4, <1>5, <1>6

(* ... by the recovery ...                                                 *)
LEMMA WantedType ==
  ASSUME TypeOK, NEW s \in Sessions, mem[s].job \in Flights
  PROVE  /\ StampFor(s) \in Sessions \cup {NoSession}
         /\ \A k \in Kinds, at \in Sessions \cup {NoSession} : Wanted(s, k, at) \in Contents
<1>1. mem[s].job.req \in Requests /\ "incident" \in Kinds
  BY Nothing DEF Kinds
<1>2. /\ record[mem[s].job.req]["incident"] \in Contents
      /\ pending[mem[s].job.req]["incident"] \in Contents
  BY <1>1 DEF TypeOK
<1>3. /\ record[mem[s].job.req]["incident"].at \in Sessions \cup {NoSession}
      /\ pending[mem[s].job.req]["incident"].at \in Sessions \cup {NoSession}
  BY <1>2 DEF Contents
<1>4. StampFor(s) \in Sessions \cup {NoSession}
  BY <1>3, MemoryFields DEF StampFor
<1>5. ASSUME NEW k \in Kinds, NEW at \in Sessions \cup {NoSession}
      PROVE  Wanted(s, k, at) \in Contents
  BY MemoryFields DEF Wanted, Contents
<1> QED BY <1>4, <1>5

LEMMA AdvanceType ==
  ASSUME TypeOK, NEW s \in Sessions, NEW at \in Sessions \cup {NoSession}, Advance(s, at)
  PROVE  /\ lock' \in Sessions \cup {NoSession} /\ pc' \in [Sessions -> Labels]
         /\ end' \in [Sessions -> {"none", "stopped", "processed", "recovered"}]
         /\ mem' \in [Sessions -> Memory]
<1>1. \E label \in {"settle", "pending"} : GoOn(s, label)
  BY DEF Advance
<1>2. \E k \in Kinds : Remember(s, [mem[s] EXCEPT !.stamp = at, !.stage = k])
  BY DEF Advance, Kinds
<1>3. \A k \in Kinds : [mem[s] EXCEPT !.stamp = at, !.stage = k] \in Memory
  BY MemoryFields DEF Memory
<1>4. mem' \in [Sessions -> Memory]
  BY <1>2, <1>3, RememberType
<1> QED BY <1>1, <1>4, GoOnType DEF Labels

LEMMA RecoveryType ==
  ASSUME TypeOK, NEW s \in Sessions, mem[s].job \in Flights, Recovery(s)
  PROVE  TypeOK'
<1> DEFINE r == mem[s].job.req
           k == mem[s].stage
<1> USE MemoryFields, GoOnType, RememberType DEF records, requestFiles, recovery, world,
       NoFault, Fault
<1>0. r \in Requests /\ k \in Kinds
  BY Nothing
<1>1. CASE Inspect(s)
  <2>1. machine[r] \in Reports \cup {NoReport} /\ Entries(r) \subseteq Inventory
    BY <1>0 DEF TypeOK, Entries, Inventory
  <2>2. [mem[s] EXCEPT !.seen = machine[r], !.inventory = Entries(r)] \in Memory
    BY <2>1 DEF Memory
  <2>3. CASE Stop(s)
    BY <1>1, <2>3, LeaveType DEF Inspect, Stop, TypeOK
  <2>4. CASE /\ Remember(s, [mem[s] EXCEPT !.seen = machine[r], !.inventory = Entries(r)])
             /\ GoOn(s, "pending")
    BY <1>1, <2>2, <2>4 DEF Inspect, TypeOK, Labels
  <2> QED BY <1>1, <2>3, <2>4 DEF Inspect
<1>2. CASE WritePending(s)
  <2> DEFINE at == StampFor(s)
  <2>1. at \in Sessions \cup {NoSession} /\ Wanted(s, k, at) \in Contents
    BY <1>0, WantedType
  <2>2. \A c \in Contents : [pending EXCEPT ![r][k] = c] \in [Requests -> [Kinds -> Contents]]
    BY <1>0 DEF TypeOK
  <2>3. pending' \in [Requests -> [Kinds -> Contents]]
    <3>1. \/ pending' = pending
          \/ pending' = [pending EXCEPT ![r][k] = NoContent]
          \/ pending' = [pending EXCEPT ![r][k] = Wanted(s, k, at)]
          \/ pending' = [pending EXCEPT ![r][k] = Fragment]
      BY <1>2 DEF WritePending
    <3>2. pending \in [Requests -> [Kinds -> Contents]]
      BY DEF TypeOK
    <3> QED BY <2>1, <2>2, <3>1, <3>2, NoTypes
  <2>4. \/ Stop(s)
        \/ Advance(s, at)
        \/ ToReplace(s, at)
    BY <1>2 DEF WritePending
  <2>5. [mem[s] EXCEPT !.stamp = at] \in Memory
    BY <2>1, MemoryType
  <2>6. /\ lock' \in Sessions \cup {NoSession} /\ pc' \in [Sessions -> Labels]
        /\ end' \in [Sessions -> {"none", "stopped", "processed", "recovered"}]
        /\ mem' \in [Sessions -> Memory]
    BY <2>1, <2>4, <2>5, LeaveType, AdvanceType DEF Stop, ToReplace, Labels
  <2>7. faults' \in Nat
    BY <1>2 DEF WritePending, TypeOK
  <2> QED BY <1>2, <2>3, <2>6, <2>7 DEF WritePending, TypeOK
<1>3. CASE Promote(s)
  <2>1. pending[r][k] \in Contents
    BY <1>0 DEF TypeOK
  <2>2. /\ [record EXCEPT ![r][k] = pending[r][k]] \in [Requests -> [Kinds -> Contents]]
        /\ [pending EXCEPT ![r][k] = NoContent] \in [Requests -> [Kinds -> Contents]]
    BY <1>0, <2>1, NoTypes DEF TypeOK
  <2>3. Stop(s) \/ Advance(s, mem[s].stamp)
    BY <1>3 DEF Promote
  <2>4. /\ lock' \in Sessions \cup {NoSession} /\ pc' \in [Sessions -> Labels]
        /\ end' \in [Sessions -> {"none", "stopped", "processed", "recovered"}]
        /\ mem' \in [Sessions -> Memory]
    BY <2>3, LeaveType, AdvanceType DEF Stop
  <2>5. /\ record' \in [Requests -> [Kinds -> Contents]] /\ faults' \in Nat
        /\ pending' \in [Requests -> [Kinds -> Contents]]
    <3>1. \/ UNCHANGED <<record, pending>>
          \/ /\ record' = [record EXCEPT ![r][k] = pending[r][k]]
             /\ pending' = [pending EXCEPT ![r][k] = NoContent]
      BY <1>3 DEF Promote
    <3>2. faults' \in Nat
      BY <1>3 DEF Promote, TypeOK
    <3> QED BY <2>2, <3>1, <3>2 DEF TypeOK
  <2> QED BY <1>3, <2>4, <2>5 DEF Promote, TypeOK
<1>4. CASE Settle(s)
  <2>1. CASE Stop(s)
    BY <1>4, <2>1, LeaveType DEF Settle, Stop, TypeOK
  <2>2. CASE GoOn(s, "clear") /\ UNCHANGED mem
    BY <1>4, <2>2 DEF Settle, TypeOK, Labels
  <2> QED BY <1>4, <2>1, <2>2 DEF Settle
<1>5. CASE Clear(s)
  <2>1. \E why \in {"stopped", "recovered"} : Leave(s, why)
    BY <1>5 DEF Clear, Stop
  <2>2. inFlight' \in Flights \cup {NoFlight} /\ faults' \in Nat
    BY <1>5 DEF Clear, TypeOK
  <2> QED BY <1>5, <2>1, <2>2, LeaveType DEF Clear, TypeOK
<1> QED BY <1>1, <1>2, <1>3, <1>4, <1>5 DEF Recovery

(* ... and by the runners, crashes and people.                             *)
LEMMA OtherType ==
  ASSUME TypeOK,
         \/ \E s \in Sessions : RunnerStep(s)
         \/ Outside \/ CleanCheckout \/ RemoveLock
  PROVE  TypeOK'
<1> USE DEF records, requestFiles, recovery, world, local, files, NoFault, Fault
<1>1. ASSUME NEW s \in Sessions, RunnerReports(s) PROVE TypeOK'
  <2>1. /\ runner[s].req \in Requests
        /\ Runner(runner[s].req, "reported", "none") \in Runners
    BY <1>1, RunnerShape DEF RunnerReports, Runner, Runners
  <2>2. machine' \in [Requests -> Reports \cup {NoReport}] /\ tree' \in Trees
    BY <1>1, <2>1 DEF RunnerReports, TypeOK, ReportShape
  <2>3. runner' \in [Sessions -> Runners]
    BY <1>1, <2>1, NoTypes DEF RunnerReports, TypeOK
  <2> QED BY <1>1, <2>2, <2>3 DEF RunnerReports, TypeOK
<1>2. ASSUME NEW s \in Sessions, RunnerExits(s) PROVE TypeOK'
  <2>1. runner[s].req \in Requests
    BY <1>2, RunnerShape DEF RunnerExits
  <2>2. \A code \in {"zero", "nonzero"} : Runner(runner[s].req, "exited", code) \in Runners
    BY <2>1 DEF Runner, Runners
  <2>3. runner' \in [Sessions -> Runners]
    BY <1>2, <2>2, NoTypes DEF RunnerExits, TypeOK
  <2> QED BY <1>2, <2>3 DEF RunnerExits, TypeOK
<1>3. CASE Outside
  <2>1. tree' \in Trees /\ machine' \in [Requests -> Reports \cup {NoReport}]
    BY <1>3 DEF Outside, TypeOK
  <2> QED BY <1>3, <2>1 DEF Outside, TypeOK
<1>4. CASE CleanCheckout
  BY <1>4 DEF CleanCheckout, TypeOK
<1>5. CASE RemoveLock
  BY <1>5 DEF RemoveLock, TypeOK
<1> QED BY <1>1, <1>2, <1>3, <1>4, <1>5 DEF RunnerStep

LEMMA CrashType ==
  ASSUME TypeOK, NEW s \in Sessions, Crash(s),
         pc[s] \in {"evidence", "artifacts", "pending"} => mem[s].job.req \in Requests
  PROVE  TypeOK'
<1> DEFINE r == mem[s].job.req
           k == mem[s].stage
<1>1. pc' \in [Sessions -> Labels]
  BY DEF Crash, Goto, TypeOK, Labels
<1>2. mem' \in [Sessions -> Memory]
  BY NoTypes DEF Crash, Forget, TypeOK
<1>3. faults' \in Nat
  BY DEF Crash, Fault, TypeOK
<1>4. litter' \subseteq Requests /\ torn' \in BOOLEAN
  BY DEF Crash, TypeOK
<1>5. pending' \in [Requests -> [Kinds -> Contents]]
  <2>1. UNCHANGED pending \/ (pc[s] = "pending" /\ pending' = [pending EXCEPT ![r][k] = Fragment])
    BY DEF Crash
  <2>2. pc[s] = "pending" =>
          [pending EXCEPT ![r][k] = Fragment] \in [Requests -> [Kinds -> Contents]]
    BY NoTypes, MemoryFields DEF TypeOK
  <2> QED BY <2>1, <2>2 DEF TypeOK
<1> QED BY <1>1, <1>2, <1>3, <1>4, <1>5 DEF Crash, TypeOK, world

-----------------------------------------------------------------------------
(* The invariant.  A live session owns the lock, so there is one at a      *)
(* time.  What it is doing says what it has found or written: the one that *)
(* delegates has a request without a tombstone, which is in flight until   *)
(* it is released and has process evidence from the end of the run on; one *)
(* that is about to launch holds a request that either never ran or has    *)
(* that evidence; one that recovers has a request that is not recorded.    *)

Resting == {"off", "done", "crashed"}
Evidenced == {"judge", "verify", "render", "artifacts", "append", "release", "confirm"}
Delegating == {"flight", "launch", "wait", "observe", "evidence"} \cup Evidenced
Flying == Delegating \ {"flight", "confirm"}
Recovering == {"pending", "replace", "settle", "clear"}

Job(s) == mem[s].job.req
Tombstone(r) == record[r]["tombstone"]

SessionInv(s) ==
  /\ pc[s] \notin Resting => lock = s
  /\ pc[s] \in {"poll", "flight"} => inFlight = NoFlight
  /\ pc[s] \in Delegating => mem[s].job \in Flights /\ Tombstone(Job(s)) = NoContent
  /\ pc[s] \in Flying => inFlight = mem[s].job
  /\ pc[s] \in {"observe", "evidence"} => mem[s].result # "none"
  /\ pc[s] \in Evidenced => evidence[Job(s)] # NoEvidence
  /\ pc[s] \in {"flight", "launch"} => runs[Job(s)] = 0 \/ evidence[Job(s)] # NoEvidence
  /\ pc[s] \in Recovering \cup {"inspect"} => mem[s].job \in Flights
  /\ pc[s] \in Recovering => inFlight \in {mem[s].job, NoFlight} /\ Job(s) \notin ProcessedIds
  /\ pc[s] = "replace" => pending[Job(s)][mem[s].stage] # NoContent
  /\ pc[s] = "clear" => Tombstone(Job(s)) # NoContent

GlobalInv == RunAtMostOnce /\ RunIsAccounted /\ OneEnd
Inv == TypeOK /\ GlobalInv /\ \A s \in Sessions : SessionInv(s)

IdleInv == \A s \in Sessions : pc[s] \in Resting => SessionInv(s)
LEMMA Idle == IdleInv
BY DEF IdleInv, SessionInv, Resting, Delegating, Evidenced, Flying, Recovering

LEMMA Alone ==
  ASSUME Inv, NEW s \in Sessions, pc[s] \notin Resting
  PROVE  /\ lock = s
         /\ \A t \in Sessions : t # s => pc[t] \in Resting
<1>1. lock = s
  BY DEF Inv, SessionInv
<1>2. \A t \in Sessions : pc[t] \notin Resting => lock = t
  BY DEF Inv, SessionInv
<1> QED BY <1>1, <1>2

LEMMA InitInv == Init => Inv
<1> SUFFICES ASSUME Init PROVE Inv
  OBVIOUS
<1>1. \A s \in Sessions : pc[s] \in Resting
  BY DEF Init, Resting
<1>2. GlobalInv
  BY DEF Init, GlobalInv, RunAtMostOnce, RunIsAccounted, OneEnd, ProcessedIds
<1> QED BY <1>1, <1>2, Idle, InitType DEF Inv, IdleInv

(* A step of one session: the others are at rest and stay so.              *)
LEMMA StepOf ==
  ASSUME Inv, TypeOK', NEW s \in Sessions, GlobalInv', SessionInv(s)',
         \A t \in Sessions : t # s => pc[t] \in Resting /\ pc'[t] = pc[t]
  PROVE  Inv'
<1>1. IdleInv'
  BY Idle, PTL
<1>2. \A t \in Sessions : SessionInv(t)'
  BY <1>1 DEF IdleInv
<1> QED BY <1>2 DEF Inv

(* A session that moves on without touching the files of the invariant,    *)
(* or ends.                                                                *)
Kept == <<inFlight, processed, evidence, record, runs>>

LEMMA KeptGlobal == ASSUME Inv, UNCHANGED Kept PROVE GlobalInv'
BY DEF Kept, Inv, GlobalInv, RunAtMostOnce, RunIsAccounted, OneEnd, ProcessedIds

LEMMA Ends ==
  ASSUME Inv, TypeOK', NEW s \in Sessions, pc[s] \notin Resting, GlobalInv',
         NEW label \in {"done", "crashed"}, Goto(s, label)
  PROVE  Inv'
<1>1. pc'[s] \in Resting /\ \A t \in Sessions : t # s => pc[t] \in Resting /\ pc'[t] = pc[t]
  BY Alone DEF Goto, Inv, TypeOK, Resting
<1>2. IdleInv'
  BY Idle, PTL
<1>3. SessionInv(s)'
  BY <1>1, <1>2 DEF IdleInv
<1> QED BY <1>1, <1>3, StepOf

LEMMA MovesOn ==
  ASSUME Inv, TypeOK', NEW s \in Sessions, pc[s] \notin Resting, GlobalInv',
         NEW label \in Labels \ Resting, GoOn(s, label), pc'[s] = label => SessionInv(s)'
  PROVE  Inv'
<1>1. pc'[s] = label /\ \A t \in Sessions : t # s => pc[t] \in Resting /\ pc'[t] = pc[t]
  BY Alone DEF GoOn, Goto, Inv, TypeOK
<1> QED BY <1>1, StepOf

LEMMA Stops ==
  ASSUME Inv, TypeOK', NEW s \in Sessions, pc[s] \notin Resting, UNCHANGED Kept, Stop(s)
  PROVE  Inv'
BY KeptGlobal, Ends DEF Stop, Leave

(* A session that a step does not touch.                                   *)
LEMMA Untouched ==
  ASSUME Inv, NEW t \in Sessions, UNCHANGED Kept, UNCHANGED <<lock, pending>>,
         pc'[t] = pc[t], mem'[t] = mem[t]
  PROVE  SessionInv(t)'
<1>1. SessionInv(t)
  BY DEF Inv
<1> QED BY <1>1 DEF Kept, SessionInv, Job, Tombstone, ProcessedIds

(* A session that owns the lock and has not chosen anything.               *)
LEMMA StartInv ==
  ASSUME Inv, TypeOK', NEW s \in Sessions, StartOperator(s) \/ StartRecovery(s)
  PROVE  Inv'
<1> USE DEF records, requestFiles, recovery, world
<1>1. UNCHANGED Kept /\ UNCHANGED pending
  BY DEF StartOperator, StartRecovery, Kept
<1>2. GlobalInv'
  BY <1>1, KeptGlobal
<1>3. pc[s] = "off" /\ pc[s] \in Resting
  BY DEF StartOperator, StartRecovery, IsNext, Resting
<1>4. /\ \A t \in Sessions : t # s => pc'[t] = pc[t] /\ mem'[t] = mem[t]
      /\ \/ pc'[s] = "done" /\ UNCHANGED lock
         \/ /\ lock = NoSession /\ lock' = s /\ pc'[s] \in {"check", "inspect"}
            /\ pc'[s] = "inspect" => mem'[s].job \in Flights
  BY DEF StartOperator, StartRecovery, AcquireLock, Goto, Remember, Inv, TypeOK, Memory
<1>5. CASE pc'[s] = "done" /\ UNCHANGED lock
  <2>1. IdleInv'
    BY Idle, PTL
  <2>2. SessionInv(s)'
    BY <1>5, <2>1 DEF IdleInv, Resting
  <2>3. \A t \in Sessions : t # s => SessionInv(t)'
    BY <1>1, <1>4, <1>5, Untouched
  <2> QED BY <1>2, <2>2, <2>3 DEF Inv
<1>6. CASE /\ lock = NoSession /\ lock' = s /\ pc'[s] \in {"check", "inspect"}
           /\ pc'[s] = "inspect" => mem'[s].job \in Flights
  <2>1. \A t \in Sessions : pc[t] \in Resting
    BY <1>6, Nothing DEF Inv, SessionInv
  <2>2. SessionInv(s)'
    BY <1>6 DEF SessionInv, Delegating, Evidenced, Flying, Recovering
  <2> QED BY <1>2, <1>4, <2>1, <2>2, StepOf
<1> QED BY <1>4, <1>5, <1>6

(* An eligible request has no tombstone, so if it ran it has evidence.     *)
LEMMA SelectInv ==
  ASSUME Inv, TypeOK', NEW s \in Sessions, Check(s) \/ Poll(s)
  PROVE  Inv'
<1> USE DEF records, requestFiles, recovery, world
<1>1. UNCHANGED Kept /\ pc[s] \notin Resting /\ GlobalInv'
  BY KeptGlobal DEF Check, Poll, Kept, Resting
<1>2. CASE Stop(s)
  BY <1>1, <1>2, Stops
<1>3. CASE pc[s] = "check" /\ inFlight = NoFlight /\ GoOn(s, "poll")
  <2>1. pc'[s] = "poll" => SessionInv(s)'
    BY <1>1, <1>3, Alone DEF GoOn, Kept, SessionInv, Resting, Delegating, Evidenced, Flying, Recovering
  <2> QED BY <1>1, <1>3, <2>1, MovesOn DEF Labels, Resting
<1>4. ASSUME NEW r \in Requests, Eligible(s, r), pc[s] = "poll", GoOn(s, "flight"),
             Remember(s, [mem[s] EXCEPT !.job = Flight(r, s)])
      PROVE  Inv'
  <2>1. inFlight = NoFlight /\ lock = s
    BY <1>1, <1>4, Alone DEF Inv, SessionInv
  <2>2. mem'[s].job = Flight(r, s) /\ Flight(r, s) \in Flights /\ Flight(r, s).req = r
    BY <1>4, Nothing DEF Remember, Flight, Inv, TypeOK, Memory
  <2>3. Tombstone(r) = NoContent
    BY <1>4 DEF Eligible, Tombstone
  <2>4. runs[r] = 0 \/ evidence[r] # NoEvidence
    <3>1. runs[r] \in Nat
      BY DEF Inv, TypeOK
    <3>2. inFlight.req # r
      BY <2>1, Nothing
    <3> QED BY <2>3, <3>1, <3>2 DEF Inv, GlobalInv, RunIsAccounted, Tombstone
  <2>5. pc'[s] = "flight" => SessionInv(s)'
    BY <1>1, <1>4, <2>1, <2>2, <2>3, <2>4
       DEF GoOn, Kept, SessionInv, Job, Tombstone, Resting, Delegating, Evidenced, Flying, Recovering
  <2> QED BY <1>1, <1>4, <2>5, MovesOn DEF Labels, Resting
<1>5. Check(s) => Stop(s) \/ (pc[s] = "check" /\ inFlight = NoFlight /\ GoOn(s, "poll"))
  BY DEF Check
<1>6. Poll(s) => \/ Stop(s)
                 \/ \E r \in Requests : /\ Eligible(s, r) /\ pc[s] = "poll" /\ GoOn(s, "flight")
                                        /\ Remember(s, [mem[s] EXCEPT !.job = Flight(r, s)])
  BY DEF Poll
<1> QED BY <1>2, <1>3, <1>4, <1>5, <1>6

LEMMA WriteInFlightInv ==
  ASSUME Inv, TypeOK', NEW s \in Sessions, WriteInFlight(s)
  PROVE  Inv'
<1> USE DEF requestFiles, recovery, world
<1>1. pc[s] = "flight" /\ pc[s] \notin Resting /\ UNCHANGED <<processed, evidence, record, runs>>
  BY DEF WriteInFlight, Resting
<1>2. /\ lock = s /\ inFlight = NoFlight /\ mem[s].job \in Flights
      /\ Tombstone(Job(s)) = NoContent /\ (runs[Job(s)] = 0 \/ evidence[Job(s)] # NoEvidence)
  BY <1>1, Alone DEF Inv, SessionInv, Delegating
<1>3. CASE Stop(s) /\ UNCHANGED inFlight
  BY <1>1, <1>3, Stops DEF Kept
<1>4. CASE inFlight' = mem[s].job /\ GoOn(s, "launch") /\ UNCHANGED mem
  <2>1. GlobalInv'
    <3>1. \A r \in Requests : inFlight.req # r
      BY <1>2, Nothing
    <3> QED BY <1>1, <3>1 DEF Inv, GlobalInv, RunAtMostOnce, RunIsAccounted, OneEnd, ProcessedIds
  <2>2. pc'[s] = "launch" => SessionInv(s)'
    BY <1>1, <1>2, <1>4
       DEF GoOn, SessionInv, Job, Tombstone, Resting, Delegating, Evidenced, Flying, Recovering
  <2> QED BY <1>1, <1>4, <2>1, <2>2, MovesOn DEF Labels, Resting
<1> QED BY <1>3, <1>4 DEF WriteInFlight

(* What a flying delegation has.                                           *)
LEMMA InFlight ==
  ASSUME Inv, NEW s \in Sessions, pc[s] \in Flying
  PROVE  /\ pc[s] \notin Resting /\ lock = s /\ inFlight = mem[s].job /\ mem[s].job \in Flights
         /\ Job(s) \in Requests /\ Tombstone(Job(s)) = NoContent
<1>1. pc[s] \notin Resting /\ pc[s] \in Delegating
  BY DEF Flying, Delegating, Evidenced, Resting
<1> QED BY <1>1, Alone, Nothing DEF Inv, SessionInv, Job

(* One that goes on with the same delegation.                              *)
LEMMA GoesOn ==
  ASSUME Inv, TypeOK', NEW s \in Sessions, pc[s] \in Flying, NEW label \in Flying,
         GoOn(s, label), UNCHANGED Kept, mem'[s].job = mem[s].job,
         label \in Evidenced => evidence[Job(s)] # NoEvidence, label # "launch",
         label \in {"observe", "evidence"} => mem'[s].result # "none"
  PROVE  Inv'
<1>1. GlobalInv' /\ label \in Labels \ Resting /\ pc[s] \notin Resting
  BY KeptGlobal, InFlight DEF Flying, Delegating, Evidenced, Labels, Resting
<1>2. pc'[s] = label => SessionInv(s)'
  BY InFlight DEF GoOn, Kept, SessionInv, Job, Tombstone, Resting, Delegating, Evidenced, Flying,
     Recovering
<1> QED BY <1>1, <1>2, MovesOn

LEMMA LaunchInv ==
  ASSUME Inv, TypeOK', NEW s \in Sessions, Launch(s)
  PROVE  Inv'
<1> USE DEF records, requestFiles, recovery
<1>1. /\ pc[s] = "launch" /\ pc[s] \in Flying /\ pc[s] \notin Resting
      /\ UNCHANGED <<inFlight, processed, evidence, record, pending>>
  BY DEF Launch, Flying, Delegating, Resting
<1>2. CASE Stop(s) /\ UNCHANGED runs
  BY <1>1, <1>2, Stops DEF Kept
<1>3. CASE NotStarted(s)
  <2>1. mem'[s].job = mem[s].job /\ mem'[s].result # "none"
    BY <1>3 DEF NotStarted, Remember, Inv, TypeOK, Memory
  <2> QED BY <1>1, <1>3, <2>1, GoesOn DEF NotStarted, Kept, Flying, Delegating, Evidenced
<1>4. CASE StartRunner(s) /\ evidence[Job(s)] = NoEvidence
  <2>1. runs[Job(s)] = 0 /\ runs' = [runs EXCEPT ![Job(s)] = 1] /\ Job(s) \in Requests
    <3>1. runs[Job(s)] = 0 /\ Job(s) \in Requests
      BY <1>1, <1>4, InFlight DEF Inv, SessionInv
    <3>2. runs' = [runs EXCEPT ![Job(s)] = runs[Job(s)] + 1]
      BY <1>4 DEF StartRunner, Job
    <3>3. runs[Job(s)] + 1 = 1
      BY <3>1
    <3> QED BY <3>1, <3>2, <3>3
  <2>2. inFlight.req = Job(s)
    BY <1>1, InFlight DEF Job
  <2>3. GlobalInv'
    BY <1>1, <2>1, <2>2 DEF Inv, GlobalInv, RunAtMostOnce, RunIsAccounted, OneEnd, ProcessedIds, TypeOK
  <2>4. pc'[s] = "wait" => SessionInv(s)'
    BY <1>1, <1>4, InFlight
       DEF StartRunner, GoOn, SessionInv, Job, Tombstone, Resting, Delegating, Evidenced, Flying, Recovering
  <2> QED BY <1>1, <1>4, <2>3, <2>4, MovesOn DEF StartRunner, Labels, Resting
<1> QED BY <1>2, <1>3, <1>4 DEF Launch, Job

LEMMA RunInv ==
  ASSUME Inv, TypeOK', NEW s \in Sessions,
         \/ Await(s) \/ Observe(s) \/ Judge(s) \/ Verify(s) \/ Render(s) \/ WriteArtifact(s)
  PROVE  Inv'
<1> USE DEF records, requestFiles, recovery, world
<1>1. /\ UNCHANGED Kept /\ pc[s] \in Flying /\ pc[s] \notin Resting
      /\ pc[s] \in {"wait", "observe", "judge", "verify", "render", "artifacts"}
  BY DEF Await, Observe, Judge, Verify, Render, WriteArtifact, Kept, Flying, Delegating, Evidenced,
     Resting
<1>2. CASE Stop(s)
  BY <1>1, <1>2, Stops
<1>3. pc[s] \in {"judge", "verify", "render", "artifacts"} => evidence[Job(s)] # NoEvidence
  BY DEF Inv, SessionInv, Evidenced
<1>4. \/ Stop(s)
      \/ pc[s] \in {"wait", "observe"} /\ \E l \in {"observe", "evidence"} : GoOn(s, l)
      \/ /\ pc[s] \in {"judge", "verify", "render", "artifacts"}
         /\ \E l \in {"verify", "render", "artifacts", "append"} : GoOn(s, l)
  BY DEF Await, Observe, Judge, Blocked, Verify, Render, WriteArtifact
<1>5. Stop(s) \/ mem'[s].job = mem[s].job
  BY DEF Await, Observe, Judge, Blocked, Verify, Render, WriteArtifact, Remember, Inv, TypeOK, Memory
<1>6. pc[s] \in {"wait", "observe"} => mem'[s].result # "none"
  <2>1. CASE Await(s)
    <3>1. mem' = [mem EXCEPT ![s] = [mem[s] EXCEPT !.result = mem'[s].result]]
          /\ mem'[s].result # "none"
      BY <2>1, RunnerShape DEF Await, Remember, Inv, TypeOK, Memory
    <3> QED BY <3>1
  <2>2. CASE Observe(s)
    BY <2>2 DEF Observe, Remember, Inv, TypeOK, Memory, SessionInv
  <2> QED BY <2>1, <2>2 DEF Judge, Verify, Render, WriteArtifact
<1> QED BY <1>1, <1>2, <1>3, <1>4, <1>5, <1>6, GoesOn DEF Flying, Delegating, Evidenced

LEMMA WriteEvidenceInv ==
  ASSUME Inv, TypeOK', NEW s \in Sessions, WriteEvidence(s)
  PROVE  Inv'
<1> USE DEF records, recovery, world
<1>1. /\ pc[s] = "evidence" /\ pc[s] \in Flying /\ pc[s] \notin Resting
      /\ UNCHANGED <<inFlight, processed, record, runs, pending>>
  BY DEF WriteEvidence, Flying, Delegating, Resting
<1>2. Evidence(mem[s].result, mem[s].seen) # NoEvidence /\ Job(s) \in Requests
  BY <1>1, InFlight DEF Evidence, NoEvidence, Inv, SessionInv
<1>3. \/ UNCHANGED evidence
      \/ evidence' = [evidence EXCEPT ![Job(s)] = Evidence(mem[s].result, mem[s].seen)]
  BY DEF WriteEvidence, Job
<1>4. \A r \in Requests : evidence[r] # NoEvidence => evidence'[r] # NoEvidence
  BY <1>2, <1>3 DEF Inv, TypeOK
<1>5. GlobalInv'
  BY <1>1, <1>4 DEF Inv, GlobalInv, RunAtMostOnce, RunIsAccounted, OneEnd, ProcessedIds
<1>6. CASE Stop(s)
  BY <1>1, <1>5, <1>6, Ends DEF Stop, Leave
<1>7. CASE /\ GoOn(s, "judge") /\ UNCHANGED mem
           /\ evidence' = [evidence EXCEPT ![Job(s)] = Evidence(mem[s].result, mem[s].seen)]
  <2>1. evidence'[Job(s)] # NoEvidence
    BY <1>2, <1>7 DEF Inv, TypeOK
  <2>2. pc'[s] = "judge" => SessionInv(s)'
    BY <1>1, <1>7, <2>1, InFlight
       DEF GoOn, SessionInv, Job, Tombstone, Resting, Delegating, Evidenced, Flying, Recovering
  <2> QED BY <1>1, <1>5, <1>7, <2>2, MovesOn DEF Labels, Resting
<1> QED BY <1>6, <1>7 DEF WriteEvidence, Job

(* Recording: the request has no tombstone and keeps its evidence.         *)
LEMMA AppendInv ==
  ASSUME Inv, TypeOK', NEW s \in Sessions, AppendProcessed(s)
  PROVE  Inv'
<1> USE DEF requestFiles, recovery, world
<1>1. /\ pc[s] = "append" /\ pc[s] \in Flying /\ pc[s] \notin Resting
      /\ UNCHANGED <<inFlight, evidence, record, runs, pending>>
  BY DEF AppendProcessed, Flying, Delegating, Evidenced, Resting
<1>2. evidence[Job(s)] # NoEvidence
  BY <1>1 DEF Inv, SessionInv, Evidenced
<1>3. CASE Stop(s) /\ UNCHANGED processed
  BY <1>1, <1>3, Stops DEF Kept
<1>4. CASE processed' = processed \cup {OwnLine(s)} /\ GoOn(s, "release") /\ UNCHANGED mem
  <2>1. ProcessedIds' = ProcessedIds \cup {Job(s)}
    <3>1. OwnLine(s).req = Job(s)
      BY DEF OwnLine, Line, Job
    <3> QED BY <1>4, <3>1 DEF ProcessedIds
  <2>2. GlobalInv'
    BY <1>1, <2>1, InFlight DEF Inv, GlobalInv, RunAtMostOnce, RunIsAccounted, OneEnd, Tombstone
  <2>3. pc'[s] = "release" => SessionInv(s)'
    BY <1>1, <1>2, <1>4, InFlight
       DEF GoOn, SessionInv, Job, Tombstone, Resting, Delegating, Evidenced, Flying, Recovering
  <2> QED BY <1>1, <1>4, <2>2, <2>3, MovesOn DEF Labels, Resting
<1> QED BY <1>3, <1>4 DEF AppendProcessed

(* Releasing, and taking the record back: the process evidence stays.      *)
LEMMA ReleaseInv ==
  ASSUME Inv, TypeOK', NEW s \in Sessions, Release(s) \/ ConfirmRelease(s)
  PROVE  Inv'
<1> USE DEF requestFiles, recovery, world
<1>1. /\ pc[s] \in {"release", "confirm"} /\ pc[s] \notin Resting
      /\ UNCHANGED <<evidence, record, runs, pending>>
  BY DEF Release, ConfirmRelease, Resting
<1>2. /\ mem[s].job \in Flights /\ Job(s) \in Requests /\ Tombstone(Job(s)) = NoContent
      /\ evidence[Job(s)] # NoEvidence /\ lock = s
  BY <1>1, Alone, Nothing DEF Inv, SessionInv, Delegating, Evidenced, Job
<1>3. processed' \subseteq processed
  BY DEF Release, ConfirmRelease, Rollback
<1>4. UNCHANGED inFlight \/ (pc[s] = "release" /\ inFlight' = NoFlight)
  BY DEF Release, ConfirmRelease
<1>5. GlobalInv'
  <2>1. \A r \in Requests : inFlight.req = r => inFlight'.req = r \/ evidence[r] # NoEvidence
    <3>1. pc[s] = "release" => inFlight.req = Job(s)
      BY <1>1, InFlight DEF Flying, Delegating, Evidenced, Job
    <3> QED BY <1>2, <1>4, <3>1
  <2>2. ProcessedIds' \subseteq ProcessedIds
    BY <1>3 DEF ProcessedIds
  <2> QED BY <1>1, <2>1, <2>2 DEF Inv, GlobalInv, RunAtMostOnce, RunIsAccounted, OneEnd
<1>6. CASE \E why \in {"stopped", "processed"} : Leave(s, why)
  BY <1>1, <1>5, <1>6, Ends DEF Leave
<1>7. CASE GoOn(s, "confirm") /\ UNCHANGED mem
  <2>1. pc'[s] = "confirm" => SessionInv(s)'
    BY <1>1, <1>2, <1>7
       DEF GoOn, SessionInv, Job, Tombstone, Resting, Delegating, Evidenced, Flying, Recovering
  <2> QED BY <1>1, <1>5, <1>7, <2>1, MovesOn DEF Labels, Resting
<1> QED BY <1>6, <1>7 DEF Release, ConfirmRelease, Rollback, Stop

-----------------------------------------------------------------------------
(* The recovery.  It works on one delegation from its inspection on.       *)

LEMMA RecoversOn ==
  ASSUME Inv, TypeOK', NEW s \in Sessions, pc[s] \in Recovering \cup {"inspect"}, GlobalInv',
         NEW label \in Recovering, GoOn(s, label), UNCHANGED <<inFlight, processed>>,
         mem'[s].job = mem[s].job,
         inFlight \in {mem[s].job, NoFlight}, Job(s) \notin ProcessedIds,
         label = "replace" => pending'[Job(s)][mem'[s].stage] # NoContent,
         label = "clear" => record'[Job(s)]["tombstone"] # NoContent
  PROVE  Inv'
<1>1. pc[s] \notin Resting /\ label \in Labels \ Resting
  BY DEF Recovering, Resting, Labels
<1>2. lock = s /\ mem[s].job \in Flights
  BY <1>1, Alone DEF Inv, SessionInv
<1>3. ProcessedIds' = ProcessedIds
  BY DEF ProcessedIds
<1>4. pc'[s] = label => SessionInv(s)'
  BY <1>2, <1>3 DEF GoOn, SessionInv, Job, Tombstone, Resting, Delegating, Evidenced, Flying,
     Recovering
<1> QED BY <1>1, <1>4, MovesOn

LEMMA InspectInv ==
  ASSUME Inv, TypeOK', NEW s \in Sessions, Inspect(s)
  PROVE  Inv'
<1> USE DEF records, requestFiles, recovery, world
<1>1. pc[s] = "inspect" /\ pc[s] \notin Resting /\ UNCHANGED Kept /\ GlobalInv'
  BY KeptGlobal DEF Inspect, Kept, Resting
<1>2. CASE Stop(s)
  BY <1>1, <1>2, Stops
<1>3. CASE Recoverable(mem[s].job) /\ GoOn(s, "pending") /\ mem'[s].job = mem[s].job
  <2>1. inFlight \in {mem[s].job, NoFlight} /\ Job(s) \notin ProcessedIds
    BY <1>3 DEF Recoverable, Job
  <2> QED BY <1>1, <1>3, <2>1, RecoversOn DEF Recovering, Kept
<1>4. ASSUME NEW found, NEW entries,
             Remember(s, [mem[s] EXCEPT !.seen = found, !.inventory = entries])
      PROVE  mem'[s].job = mem[s].job
  BY <1>4 DEF Remember, Inv, TypeOK, Memory
<1>5. Stop(s) \/ (Recoverable(mem[s].job) /\ GoOn(s, "pending") /\ mem'[s].job = mem[s].job)
  BY <1>4 DEF Inspect
<1> QED BY <1>2, <1>3, <1>5

(* What a recovery has from its inspection on.                             *)
LEMMA InRecovery ==
  ASSUME Inv, NEW s \in Sessions, pc[s] \in Recovering
  PROVE  /\ pc[s] \notin Resting /\ inFlight \in {mem[s].job, NoFlight}
         /\ mem[s].job \in Flights /\ Job(s) \in Requests /\ Job(s) \notin ProcessedIds
         /\ \A k \in Kinds, at \in Sessions \cup {NoSession} : Wanted(s, k, at) # NoContent
<1>1. pc[s] \notin Resting /\ inFlight \in {mem[s].job, NoFlight}
  BY DEF Recovering, Resting, Inv, SessionInv
<1>2. mem[s].job \in Flights /\ Job(s) \in Requests /\ Job(s) \notin ProcessedIds
  BY Nothing DEF Inv, SessionInv, Job
<1>3. mem[s].job # NoFlight
  BY <1>2, Nothing
<1> QED BY <1>1, <1>2, <1>3 DEF Wanted, NoContent

LEMMA AdvanceFields ==
  ASSUME Inv, NEW s \in Sessions, NEW at, Advance(s, at)
  PROVE  mem'[s].job = mem[s].job /\ \E label \in {"settle", "pending"} : GoOn(s, label)
BY DEF Advance, Remember, Inv, TypeOK, Memory

LEMMA WritePendingInv ==
  ASSUME Inv, TypeOK', NEW s \in Sessions, WritePending(s)
  PROVE  Inv'
<1> DEFINE k == mem[s].stage
           at == StampFor(s)
<1> USE DEF records, requestFiles, world
<1>1. pc[s] = "pending" /\ pc[s] \in Recovering /\ UNCHANGED Kept /\ GlobalInv'
  BY KeptGlobal DEF WritePending, Kept, Recovering
<1>2. k \in Kinds /\ at \in Sessions \cup {NoSession} /\ Wanted(s, k, at) # NoContent
  BY <1>1, InRecovery, WantedType, MemoryFields DEF Inv
<1>3. CASE Stop(s)
  BY <1>1, <1>3, InRecovery, Stops
<1>4. CASE Advance(s, at)
  BY <1>1, <1>4, AdvanceFields, InRecovery, RecoversOn DEF Recovering, Kept
<1>5. CASE ToReplace(s, at) /\ pending'[Job(s)][k] # NoContent
  <2>1. mem'[s].job = mem[s].job /\ mem'[s].stage = k
    BY <1>5 DEF ToReplace, Remember, Inv, TypeOK, Memory
  <2>2. pending'[Job(s)][mem'[s].stage] # NoContent
    BY <1>5, <2>1
  <2> QED BY <1>1, <1>5, <2>1, <2>2, InRecovery, RecoversOn DEF ToReplace, Recovering, Kept
<1>6. Stop(s) \/ Advance(s, at) \/ (ToReplace(s, at) /\ pending'[Job(s)][k] # NoContent)
  <2>1. Job(s) \in Requests /\ pending \in [Requests -> [Kinds -> Contents]]
    BY <1>1, InRecovery DEF Inv, TypeOK
  <2>2. \A c : [pending EXCEPT ![Job(s)][k] = c][Job(s)][k] = c
    BY <1>2, <2>1
  <2> QED BY <1>2, <2>2 DEF WritePending, Job
<1> QED BY <1>3, <1>4, <1>5, <1>6

(* A tombstone is given only to a request that is not recorded, and is     *)
(* never taken away.                                                       *)
LEMMA PromoteInv ==
  ASSUME Inv, TypeOK', NEW s \in Sessions, Promote(s)
  PROVE  Inv'
<1> DEFINE r == mem[s].job.req
           k == mem[s].stage
<1> USE DEF records, requestFiles, world
<1>1. /\ pc[s] = "replace" /\ pc[s] \in Recovering
      /\ UNCHANGED <<inFlight, processed, evidence, runs>>
  BY DEF Promote, Recovering
<1>2. pending[r][k] # NoContent /\ r \in Requests /\ k \in Kinds /\ r \notin ProcessedIds
  BY <1>1, InRecovery, MemoryFields DEF Inv, SessionInv, Job
<1>3. \A q \in Requests : Tombstone(q)' = Tombstone(q) \/ (q = r /\ Tombstone(q)' # NoContent)
  <2>1. UNCHANGED record \/ record' = [record EXCEPT ![r][k] = pending[r][k]]
    BY DEF Promote
  <2>2. record \in [Requests -> [Kinds -> Contents]] /\ "tombstone" \in Kinds
    BY DEF Inv, TypeOK, Kinds
  <2> QED BY <1>2, <2>1, <2>2 DEF Tombstone
<1>4. GlobalInv'
  BY <1>1, <1>2, <1>3
     DEF Inv, GlobalInv, RunAtMostOnce, RunIsAccounted, OneEnd, ProcessedIds, Tombstone
<1>5. CASE Stop(s)
  BY <1>1, <1>4, <1>5, InRecovery, Ends DEF Stop, Leave
<1>6. CASE Advance(s, mem[s].stamp)
  BY <1>1, <1>4, <1>6, AdvanceFields, InRecovery, RecoversOn DEF Recovering
<1> QED BY <1>5, <1>6 DEF Promote

LEMMA SettleInv ==
  ASSUME Inv, TypeOK', NEW s \in Sessions, Settle(s)
  PROVE  Inv'
<1> USE DEF records, requestFiles, recovery, world
<1>1. pc[s] = "settle" /\ pc[s] \in Recovering /\ UNCHANGED Kept /\ GlobalInv'
  BY KeptGlobal DEF Settle, Kept, Recovering
<1>2. CASE Stop(s)
  BY <1>1, <1>2, InRecovery, Stops
<1>3. CASE Intact(s) /\ GoOn(s, "clear") /\ UNCHANGED mem
  <2>1. record[Job(s)]["tombstone"] # NoContent
    <3>1. "tombstone" \in Kinds /\ mem[s].stamp \in Sessions \cup {NoSession}
      BY MemoryFields DEF Kinds, Inv
    <3> QED BY <1>1, <1>3, <3>1, InRecovery DEF Intact, Job
  <2> QED BY <1>1, <1>3, <2>1, InRecovery, RecoversOn DEF Recovering, Kept
<1> QED BY <1>2, <1>3 DEF Settle

(* What is no longer in flight has its tombstone.                          *)
LEMMA ClearInv ==
  ASSUME Inv, TypeOK', NEW s \in Sessions, Clear(s)
  PROVE  Inv'
<1> USE DEF requestFiles, recovery, world
<1>1. /\ pc[s] = "clear" /\ pc[s] \in Recovering
      /\ UNCHANGED <<processed, evidence, record, runs>>
  BY DEF Clear, Recovering
<1>2. Tombstone(Job(s)) # NoContent /\ inFlight \in {mem[s].job, NoFlight}
  BY <1>1, InRecovery DEF Inv, SessionInv
<1>3. UNCHANGED inFlight \/ inFlight' = NoFlight
  BY DEF Clear
<1>4. \A r \in Requests : inFlight.req = r => inFlight'.req = r \/ Tombstone(r) # NoContent
  BY <1>2, <1>3, Nothing DEF Job
<1>5. GlobalInv'
  BY <1>1, <1>4 DEF Inv, GlobalInv, RunAtMostOnce, RunIsAccounted, OneEnd, ProcessedIds, Tombstone
<1>6. Goto(s, "done")
  BY DEF Clear, Stop, Leave
<1> QED BY <1>1, <1>5, <1>6, InRecovery, Ends

-----------------------------------------------------------------------------
(* Crashes, runners and people.                                            *)

LEMMA CrashInv ==
  ASSUME Inv, TypeOK', NEW s \in Sessions, Crash(s)
  PROVE  Inv'
<1>1. pc[s] \notin Resting /\ Goto(s, "crashed") /\ UNCHANGED Kept
  BY DEF Crash, Live, Dead, Resting, Kept, world
<1> QED BY <1>1, KeptGlobal, Ends

LEMMA OtherInv ==
  ASSUME Inv, TypeOK', (\E s \in Sessions : RunnerStep(s)) \/ Outside \/ CleanCheckout
  PROVE  Inv'
<1>1. UNCHANGED Kept /\ UNCHANGED <<lock, pending>> /\ UNCHANGED <<pc, mem>>
  BY DEF RunnerStep, RunnerReports, RunnerExits, Outside, CleanCheckout, Kept, files, records,
         recovery, requestFiles, local
<1>2. GlobalInv'
  BY <1>1, KeptGlobal
<1>3. \A s \in Sessions : SessionInv(s)'
  BY <1>1, Untouched
<1> QED BY <1>2, <1>3 DEF Inv

LEMMA RemoveLockInv ==
  ASSUME Inv, TypeOK', RemoveLock
  PROVE  Inv'
<1>1. UNCHANGED Kept /\ UNCHANGED pc
  BY DEF RemoveLock, Kept, records, recovery, requestFiles, world
<1>2. \A s \in Sessions : pc[s] \in Resting
  BY DEF RemoveLock, Dead, Resting, Inv, SessionInv
<1>3. IdleInv'
  BY Idle, PTL
<1>4. \A s \in Sessions : SessionInv(s)'
  BY <1>1, <1>2, <1>3 DEF IdleInv
<1> QED BY <1>1, <1>4, KeptGlobal DEF Inv

(* A session has a delegation whenever it acts on one.                     *)
LEMMA TypeStep == Inv /\ [Next]_vars => TypeOK'
<1> SUFFICES ASSUME Inv, [Next]_vars PROVE TypeOK'
  OBVIOUS
<1>0. TypeOK
  BY DEF Inv
<1>1. ASSUME NEW s \in Sessions, pc[s] \in Delegating \cup Recovering \cup {"inspect"}
      PROVE  mem[s].job \in Flights /\ mem[s].job.req \in Requests
  BY <1>1, Nothing DEF Inv, SessionInv
<1>2. ASSUME NEW s \in Sessions, StartOperator(s) \/ StartRecovery(s) PROVE TypeOK'
  BY <1>0, <1>2, StartType
<1>3. ASSUME NEW s \in Sessions, Foreground(s) PROVE TypeOK'
  <2>1. CASE Check(s) \/ Poll(s) \/ WriteInFlight(s)
    BY <1>0, <2>1, StartType
  <2>2. CASE \/ Launch(s) \/ Await(s) \/ Observe(s) \/ WriteEvidence(s) \/ Judge(s) \/ Verify(s)
    <3>1. pc[s] \in Delegating
      BY <2>2 DEF Launch, Await, Observe, WriteEvidence, Judge, Verify, Delegating, Evidenced
    <3> QED BY <1>0, <1>1, <2>2, <3>1, RunnerType
  <2>3. CASE \/ Render(s) \/ WriteArtifact(s) \/ AppendProcessed(s) \/ Release(s)
             \/ ConfirmRelease(s)
    <3>1. pc[s] \in Delegating
      BY <2>3 DEF Render, WriteArtifact, AppendProcessed, Release, ConfirmRelease, Delegating,
                  Evidenced
    <3> QED BY <1>0, <1>1, <2>3, <3>1, RecordType
  <2> QED BY <1>3, <2>1, <2>2, <2>3 DEF Foreground
<1>4. ASSUME NEW s \in Sessions, Recovery(s) PROVE TypeOK'
  <2>1. pc[s] \in Recovering \cup {"inspect"}
    BY <1>4 DEF Recovery, Inspect, WritePending, Promote, Settle, Clear, Recovering
  <2> QED BY <1>0, <1>1, <1>4, <2>1, RecoveryType
<1>5. ASSUME NEW s \in Sessions, Crash(s) PROVE TypeOK'
  <2>1. pc[s] \in {"evidence", "artifacts", "pending"} => mem[s].job.req \in Requests
    BY <1>1 DEF Delegating, Evidenced, Recovering
  <2> QED BY <1>0, <1>5, <2>1, CrashType
<1>6. CASE (\E s \in Sessions : RunnerStep(s)) \/ Outside \/ CleanCheckout \/ RemoveLock
  BY <1>0, <1>6, OtherType
<1>7. CASE UNCHANGED vars
  BY <1>0, <1>7 DEF TypeOK, vars, files, records, requestFiles, recovery, local, world
<1> QED BY <1>2, <1>3, <1>4, <1>5, <1>6, <1>7 DEF Next

LEMMA StepInv == Inv /\ [Next]_vars => Inv'
<1> SUFFICES ASSUME Inv, [Next]_vars PROVE Inv'
  OBVIOUS
<1>0. TypeOK'
  BY TypeStep
<1>1. ASSUME NEW s \in Sessions, StartOperator(s) \/ StartRecovery(s) PROVE Inv'
  BY <1>0, <1>1, StartInv
<1>2. ASSUME NEW s \in Sessions, Foreground(s) PROVE Inv'
  BY <1>0, <1>2, SelectInv, WriteInFlightInv, LaunchInv, RunInv, WriteEvidenceInv, AppendInv,
     ReleaseInv DEF Foreground
<1>3. ASSUME NEW s \in Sessions, Recovery(s) PROVE Inv'
  BY <1>0, <1>3, InspectInv, WritePendingInv, PromoteInv, SettleInv, ClearInv DEF Recovery
<1>4. ASSUME NEW s \in Sessions, Crash(s) PROVE Inv'
  BY <1>0, <1>4, CrashInv
<1>5. CASE (\E s \in Sessions : RunnerStep(s)) \/ Outside \/ CleanCheckout
  BY <1>0, <1>5, OtherInv
<1>6. CASE RemoveLock
  BY <1>0, <1>6, RemoveLockInv
<1>7. CASE UNCHANGED vars
  <2>1. UNCHANGED Kept /\ UNCHANGED <<lock, pending>> /\ UNCHANGED <<pc, mem>>
    BY <1>7 DEF vars, files, records, recovery, requestFiles, local, world, Kept
  <2> QED BY <1>0, <2>1, KeptGlobal, Untouched DEF Inv
<1> QED BY <1>1, <1>2, <1>3, <1>4, <1>5, <1>6, <1>7 DEF Next


-----------------------------------------------------------------------------
(* Recorded successes.  Nobody else records anything while a session holds *)
(* the lock, so the one that delegates has a request that is not recorded; *)
(* its process evidence says what it remembers of the runner, and when it  *)
(* is going to call the result a success it has been convinced by that.    *)

Judging == {"judge", "verify", "render", "artifacts", "append"}
Unrecorded == {"flight", "launch", "wait", "observe", "evidence"} \cup Judging

Convinced(m) ==
  /\ m.result = "zero" /\ m.seen # NoReport /\ m.seen.status = "success"
  /\ Valid(m.seen) /\ ~Objectionable(m.seen)

WitnessSession(s) ==
  /\ pc[s] = "poll" => mem[s].known = ProcessedIds
  /\ pc[s] \in Unrecorded => Job(s) \notin ProcessedIds
  /\ pc[s] \in Judging => evidence[Job(s)] = Evidence(mem[s].result, mem[s].seen)
  /\ pc[s] = "verify" => Convinced(mem[s])
  /\ pc[s] \in {"render", "artifacts", "append"} /\ mem[s].verdict = "success"
       => Convinced(mem[s])
  /\ pc[s] = "append" => artifacts[Job(s)] = ArtifactCount
WitnessInv == SuccessIsWitnessed /\ \A s \in Sessions : WitnessSession(s)

(* The states of a session that say nothing about what is recorded.        *)
Indifferent(s) == pc[s] \notin Unrecorded \cup {"poll"}

LEMMA WitnessFrame ==
  ASSUME WitnessInv, UNCHANGED <<processed, evidence, artifacts>>,
         \A t \in Sessions : Indifferent(t)' \/ UNCHANGED <<pc[t], mem[t]>>
  PROVE  WitnessInv'
<1>1. SuccessIsWitnessed'
  BY DEF WitnessInv, SuccessIsWitnessed
<1>2. ASSUME NEW t \in Sessions PROVE WitnessSession(t)'
  <2>1. CASE Indifferent(t)'
    BY <2>1 DEF Indifferent, Unrecorded, Judging, WitnessSession
  <2>2. CASE UNCHANGED <<pc[t], mem[t]>>
    BY <1>2, <2>2 DEF WitnessInv, WitnessSession, ProcessedIds, Job
  <2> QED BY <1>2, <2>1, <2>2
<1> QED BY <1>1, <1>2 DEF WitnessInv

(* A step of the session that holds the lock.                              *)
LEMMA WitnessStepOf ==
  ASSUME Inv, NEW s \in Sessions, pc[s] \notin Resting, SuccessIsWitnessed',
         WitnessSession(s)', NEW label, Goto(s, label)
  PROVE  WitnessInv'
<1>1. ASSUME NEW t \in Sessions, t # s PROVE WitnessSession(t)'
  <2>1. pc'[t] \in Resting
    BY <1>1, Alone DEF Goto, Inv, TypeOK
  <2> QED BY <2>1 DEF Resting, WitnessSession, Unrecorded, Judging
<1> QED BY <1>1 DEF WitnessInv

(* It goes on without recording anything, or ends.                         *)
LEMMA WitnessMoves ==
  ASSUME Inv, WitnessInv, NEW s \in Sessions, pc[s] \notin Resting,
         UNCHANGED <<processed, evidence, artifacts>>, NEW label, Goto(s, label),
         pc'[s] = label => WitnessSession(s)'
  PROVE  WitnessInv'
<1>1. SuccessIsWitnessed'
  BY DEF WitnessInv, SuccessIsWitnessed
<1>2. pc'[s] = label
  BY DEF Goto, Inv, TypeOK
<1> QED BY <1>1, <1>2, WitnessStepOf

LEMMA WitnessEnds ==
  ASSUME Inv, NEW s \in Sessions, pc[s] \notin Resting, SuccessIsWitnessed',
         NEW label \in {"done", "crashed"}, Goto(s, label)
  PROVE  WitnessInv'
<1>1. pc'[s] = label
  BY DEF Goto, Inv, TypeOK
<1>2. WitnessSession(s)'
  BY <1>1 DEF WitnessSession, Unrecorded, Judging
<1> QED BY <1>2, WitnessStepOf

LEMMA WitnessStops ==
  ASSUME Inv, WitnessInv, NEW s \in Sessions, pc[s] \notin Resting,
         UNCHANGED <<processed, evidence, artifacts>>, Stop(s)
  PROVE  WitnessInv'
<1>1. SuccessIsWitnessed'
  BY DEF WitnessInv, SuccessIsWitnessed
<1> QED BY <1>1, WitnessEnds DEF Stop, Leave

(* What a session remembers besides stays.                                 *)
LEMMA Remembered ==
  ASSUME Inv, NEW s \in Sessions
  PROVE  /\ UNCHANGED mem => mem'[s] = mem[s]
         /\ \A v : Remember(s, [mem[s] EXCEPT !.known = v]) => mem'[s].known = v
         /\ \A v : Remember(s, [mem[s] EXCEPT !.job = v]) =>
              mem'[s].job = v /\ mem'[s].known = mem[s].known
         /\ \A v : Remember(s, [mem[s] EXCEPT !.result = v]) =>
              mem'[s].job = mem[s].job
         /\ \A v : Remember(s, [mem[s] EXCEPT !.seen = v]) =>
              mem'[s].job = mem[s].job
         /\ \A v : Remember(s, [mem[s] EXCEPT !.verdict = v]) =>
              /\ mem'[s].job = mem[s].job /\ mem'[s].verdict = v
              /\ mem'[s].result = mem[s].result /\ mem'[s].seen = mem[s].seen
<1>1. mem[s] \in Memory /\ mem \in [Sessions -> Memory]
  BY DEF Inv, TypeOK
<1>2. \A m : Remember(s, m) => mem'[s] = m
  BY <1>1 DEF Remember
<1>3. UNCHANGED mem => mem'[s] = mem[s]
  OBVIOUS
<1>4. ASSUME NEW v, Remember(s, [mem[s] EXCEPT !.known = v])
      PROVE  mem'[s].known = v
  <2>1. mem'[s] = [mem[s] EXCEPT !.known = v]
    BY <1>2, <1>4
  <2> QED BY <1>1, <2>1 DEF Memory
<1>5. ASSUME NEW v, Remember(s, [mem[s] EXCEPT !.job = v])
      PROVE  mem'[s].job = v /\ mem'[s].known = mem[s].known
  <2>1. mem'[s] = [mem[s] EXCEPT !.job = v]
    BY <1>2, <1>5
  <2> QED BY <1>1, <2>1 DEF Memory
<1>6. ASSUME NEW v, Remember(s, [mem[s] EXCEPT !.result = v])
      PROVE  mem'[s].job = mem[s].job
  <2>1. mem'[s] = [mem[s] EXCEPT !.result = v]
    BY <1>2, <1>6
  <2> QED BY <1>1, <2>1 DEF Memory
<1>7. ASSUME NEW v, Remember(s, [mem[s] EXCEPT !.seen = v])
      PROVE  mem'[s].job = mem[s].job
  <2>1. mem'[s] = [mem[s] EXCEPT !.seen = v]
    BY <1>2, <1>7
  <2> QED BY <1>1, <2>1 DEF Memory
<1>8. ASSUME NEW v, Remember(s, [mem[s] EXCEPT !.verdict = v])
      PROVE  /\ mem'[s].job = mem[s].job /\ mem'[s].verdict = v
             /\ mem'[s].result = mem[s].result /\ mem'[s].seen = mem[s].seen
  <2>1. mem'[s] = [mem[s] EXCEPT !.verdict = v]
    BY <1>2, <1>8
  <2> QED BY <1>1, <2>1 DEF Memory
<1> QED BY <1>3, <1>4, <1>5, <1>6, <1>7, <1>8

(* Selecting a request, up to the end of the run.                          *)
LEMMA SelectWitness ==
  ASSUME Inv, WitnessInv, NEW s \in Sessions,
         \/ Check(s) \/ Poll(s) \/ WriteInFlight(s) \/ Launch(s) \/ Await(s) \/ Observe(s)
  PROVE  WitnessInv'
<1> USE DEF records, requestFiles
<1>1. /\ UNCHANGED <<processed, evidence, artifacts>>
      /\ pc[s] \in {"check", "poll", "flight", "launch", "wait", "observe"}
      /\ pc[s] \notin Resting
  BY DEF Check, Poll, WriteInFlight, Launch, StartRunner, NotStarted, Await, Kill, Observe, Resting
<1>2. CASE Stop(s)
  BY <1>1, <1>2, WitnessStops
<1>3. CASE GoOn(s, "poll") /\ Remember(s, [mem[s] EXCEPT !.known = ProcessedIds])
  <2>1. mem'[s].known = ProcessedIds /\ ProcessedIds' = ProcessedIds
    BY <1>1, <1>3, Remembered DEF ProcessedIds
  <2>2. pc'[s] = "poll" => WitnessSession(s)'
    BY <2>1 DEF WitnessSession, Unrecorded, Judging
  <2> QED BY <1>1, <1>3, <2>2, WitnessMoves DEF GoOn
<1>4. ASSUME NEW r \in Requests, Eligible(s, r), pc[s] = "poll", GoOn(s, "flight"),
             Remember(s, [mem[s] EXCEPT !.job = Flight(r, s)])
      PROVE  WitnessInv'
  <2>1. mem'[s].job = Flight(r, s) /\ ProcessedIds' = ProcessedIds
    BY <1>1, <1>4, Remembered DEF ProcessedIds
  <2>2. r \notin ProcessedIds
    BY <1>4 DEF Eligible, WitnessInv, WitnessSession
  <2>3. pc'[s] = "flight" => WitnessSession(s)'
    BY <2>1, <2>2 DEF WitnessSession, Judging, Job, Flight
  <2> QED BY <1>1, <1>4, <2>3, WitnessMoves DEF GoOn
<1>5. ASSUME pc[s] \in {"flight", "launch", "wait", "observe"}, mem'[s].job = mem[s].job,
             NEW label \in {"launch", "wait", "observe", "evidence"}, GoOn(s, label)
      PROVE  WitnessInv'
  <2>1. Job(s) \notin ProcessedIds /\ ProcessedIds' = ProcessedIds
    BY <1>1, <1>5 DEF WitnessInv, WitnessSession, Unrecorded, ProcessedIds
  <2>2. pc'[s] = label => WitnessSession(s)'
    BY <1>5, <2>1 DEF WitnessSession, Judging, Job
  <2> QED BY <1>1, <1>5, <2>2, WitnessMoves DEF GoOn
<1>6. Poll(s) => \/ Stop(s)
                 \/ \E r \in Requests : /\ Eligible(s, r) /\ pc[s] = "poll" /\ GoOn(s, "flight")
                                        /\ Remember(s, [mem[s] EXCEPT !.job = Flight(r, s)])
  BY DEF Poll
<1>7. CASE Check(s)
  BY <1>2, <1>3, <1>7 DEF Check
<1>8. CASE WriteInFlight(s) \/ Launch(s)
  <2>1. \/ Stop(s)
        \/ /\ mem'[s].job = mem[s].job
           /\ \E label \in {"launch", "wait", "observe"} : GoOn(s, label)
    BY <1>8, Remembered DEF WriteInFlight, Launch, StartRunner, NotStarted
  <2>2. pc[s] \in {"flight", "launch"}
    BY <1>8 DEF WriteInFlight, Launch
  <2> QED BY <1>2, <1>5, <2>1, <2>2
<1>9. CASE Await(s) \/ Observe(s)
  <2>1. /\ mem'[s].job = mem[s].job
        /\ \E label \in {"observe", "evidence"} : GoOn(s, label)
    BY <1>9, Remembered DEF Await, Observe
  <2>2. pc[s] \in {"wait", "observe"}
    BY <1>9 DEF Await, Observe
  <2> QED BY <1>5, <2>1, <2>2
<1> QED BY <1>2, <1>4, <1>6, <1>7, <1>8, <1>9

(* The process evidence names what was observed; once it is there, the     *)
(* parent makes up its mind about just that.                               *)
LEMMA EvidenceWitness ==
  ASSUME Inv, WitnessInv, NEW s \in Sessions, WriteEvidence(s)
  PROVE  WitnessInv'
<1> USE DEF records
<1>1. /\ pc[s] = "evidence" /\ pc[s] \notin Resting /\ UNCHANGED <<processed, artifacts>>
      /\ Job(s) \in Requests /\ Job(s) \notin ProcessedIds
  BY InFlight DEF WriteEvidence, Resting, Flying, Delegating, WitnessInv, WitnessSession, Unrecorded
<1>2. UNCHANGED evidence
        \/ evidence' = [evidence EXCEPT ![Job(s)] = Evidence(mem[s].result, mem[s].seen)]
  BY DEF WriteEvidence, Job
<1>3. ASSUME NEW r \in Requests, Line(r, "success") \in processed'
      PROVE  evidence'[r] = evidence[r]
  <2>1. r # Job(s)
    BY <1>1, <1>3 DEF ProcessedIds, Line
  <2> QED BY <1>2, <2>1 DEF Inv, TypeOK
<1>4. SuccessIsWitnessed'
  BY <1>1, <1>3 DEF WitnessInv, SuccessIsWitnessed
<1>5. CASE Stop(s)
  BY <1>1, <1>4, <1>5, WitnessEnds DEF Stop, Leave
<1>6. CASE /\ GoOn(s, "judge") /\ UNCHANGED mem
           /\ evidence' = [evidence EXCEPT ![Job(s)] = Evidence(mem[s].result, mem[s].seen)]
  <2>1. evidence'[Job(s)] = Evidence(mem[s].result, mem[s].seen)
    BY <1>1, <1>6 DEF Inv, TypeOK
  <2>2. pc'[s] = "judge"
    BY <1>6 DEF GoOn, Goto, Inv, TypeOK
  <2>3. WitnessSession(s)'
    BY <1>1, <1>6, <2>1, <2>2 DEF WitnessSession, Job, ProcessedIds
  <2> QED BY <1>1, <1>4, <1>6, <2>3, WitnessStepOf DEF GoOn
<1> QED BY <1>5, <1>6 DEF WriteEvidence, Job

LEMMA JudgeWitness ==
  ASSUME Inv, WitnessInv, NEW s \in Sessions, Judge(s) \/ Verify(s) \/ Render(s)
  PROVE  WitnessInv'
<1> USE DEF records, requestFiles
<1>1. /\ UNCHANGED <<processed, evidence, artifacts>>
      /\ pc[s] \in {"judge", "verify", "render"} /\ pc[s] \notin Resting
  BY DEF Judge, Verify, Render, Resting
<1>2. /\ Job(s) \notin ProcessedIds /\ ProcessedIds' = ProcessedIds
      /\ evidence'[Job(s)] = Evidence(mem[s].result, mem[s].seen)
  BY <1>1 DEF WitnessInv, WitnessSession, Unrecorded, Judging, ProcessedIds
<1>3. CASE Stop(s)
  BY <1>1, <1>3, WitnessStops
<1>4. CASE Judge(s) /\ Handoff(s) /\ Usable(s) /\ GoOn(s, "verify") /\ UNCHANGED mem
  <2>1. Convinced(mem[s])
    BY <1>4 DEF Handoff, ClaimsSuccess, Usable, Convinced
  <2>2. pc'[s] = "verify" => WitnessSession(s)'
    BY <1>2, <1>4, <2>1 DEF WitnessSession, Job
  <2> QED BY <1>1, <1>4, <2>2, WitnessMoves DEF GoOn
<1>5. CASE Blocked(s)
  <2>1. /\ mem'[s].job = mem[s].job /\ mem'[s].verdict = "blocked"
        /\ mem'[s].result = mem[s].result /\ mem'[s].seen = mem[s].seen
    BY <1>5, Remembered DEF Blocked
  <2>2. pc'[s] = "render" => WitnessSession(s)'
    BY <1>2, <2>1 DEF WitnessSession, Job
  <2> QED BY <1>1, <1>5, <2>2, WitnessMoves DEF Blocked, GoOn
<1>6. CASE /\ Verify(s) /\ Remember(s, [mem[s] EXCEPT !.verdict = "success"])
           /\ GoOn(s, "render")
  <2>1. /\ mem'[s].job = mem[s].job
        /\ mem'[s].result = mem[s].result /\ mem'[s].seen = mem[s].seen
    BY <1>6, Remembered
  <2>2. Convinced(mem[s])
    BY <1>6 DEF Verify, WitnessInv, WitnessSession
  <2>3. Convinced(mem'[s])
    BY <2>1, <2>2 DEF Convinced
  <2>4. pc'[s] = "render" => WitnessSession(s)'
    BY <1>2, <2>1, <2>3 DEF WitnessSession, Job
  <2> QED BY <1>1, <1>6, <2>4, WitnessMoves DEF GoOn
<1>7. CASE Render(s) /\ GoOn(s, "artifacts") /\ UNCHANGED mem
  <2>1. mem[s].verdict = "success" => Convinced(mem[s])
    BY <1>7 DEF Render, WitnessInv, WitnessSession
  <2>2. pc'[s] = "artifacts" => WitnessSession(s)'
    BY <1>2, <1>7, <2>1 DEF WitnessSession, Job
  <2> QED BY <1>1, <1>7, <2>2, WitnessMoves DEF GoOn
<1>8. CASE Judge(s)
  BY <1>3, <1>4, <1>5, <1>8 DEF Judge
<1>9. CASE Verify(s)
  BY <1>3, <1>5, <1>6, <1>9 DEF Verify
<1>10. CASE Render(s)
  BY <1>3, <1>7, <1>10 DEF Render
<1> QED BY <1>8, <1>9, <1>10

(* The files of a recorded request are not touched any more.               *)
LEMMA ArtifactWitness ==
  ASSUME Inv, WitnessInv, NEW s \in Sessions, WriteArtifact(s)
  PROVE  WitnessInv'
<1> USE DEF records
<1>1. /\ pc[s] = "artifacts" /\ pc[s] \notin Resting /\ UNCHANGED <<processed, evidence>>
      /\ Job(s) \in Requests /\ Job(s) \notin ProcessedIds
      /\ evidence[Job(s)] = Evidence(mem[s].result, mem[s].seen)
      /\ mem[s].verdict = "success" => Convinced(mem[s])
  BY InFlight DEF WriteArtifact, Resting, Flying, Delegating, Evidenced, WitnessInv,
                  WitnessSession, Unrecorded, Judging
<1>2. CASE Stop(s) /\ UNCHANGED artifacts
  BY <1>1, <1>2, WitnessStops
<1>3. CASE /\ artifacts' = [artifacts EXCEPT ![Job(s)] = @ + 1] /\ UNCHANGED mem
           /\ GoOn(s, IF artifacts[Job(s)] + 1 = ArtifactCount THEN "append" ELSE "artifacts")
  <2>1. ASSUME NEW r \in Requests, Line(r, "success") \in processed'
        PROVE  artifacts'[r] = artifacts[r]
    <3>1. r # Job(s)
      BY <1>1, <2>1 DEF ProcessedIds, Line
    <3> QED BY <1>3, <3>1 DEF Inv, TypeOK
  <2>2. SuccessIsWitnessed'
    BY <1>1, <2>1 DEF WitnessInv, SuccessIsWitnessed
  <2>3. artifacts'[Job(s)] = artifacts[Job(s)] + 1
    BY <1>1, <1>3 DEF Inv, TypeOK
  <2>4. /\ pc'[s] \in {"append", "artifacts"}
        /\ pc'[s] = "append" => artifacts'[Job(s)] = ArtifactCount
    BY <1>3, <2>3 DEF GoOn, Goto, Inv, TypeOK
  <2>5. WitnessSession(s)'
    BY <1>1, <1>3, <2>4 DEF WitnessSession, Job, ProcessedIds
  <2> QED BY <1>1, <1>3, <2>2, <2>5, WitnessStepOf DEF GoOn
<1> QED BY <1>2, <1>3 DEF WriteArtifact, Job

(* What convinces the parent is what the property asks for.                *)
LEMMA ConvincedMeans ==
  ASSUME NEW m, Convinced(m)
  PROVE  /\ m.seen.codex = "passed" /\ ~m.seen.posted
         /\ m.seen.flags = {"runner_invoked", "codex_side_action_executed"}
<1>1. m.seen.codex = "passed"
  BY DEF Convinced, Valid
<1>2. Truth(m.seen) = m.seen.flags /\ Truth(m.seen) = Expected
  BY DEF Convinced, Objectionable
<1>3. ~m.seen.posted
  <2>1. "github_write_performed" \notin Truth(m.seen)
    BY <1>2 DEF Expected
  <2> QED BY <2>1 DEF Truth
<1> QED BY <1>1, <1>2, <1>3 DEF Expected

LEMMA AppendWitness ==
  ASSUME Inv, WitnessInv, NEW s \in Sessions, AppendProcessed(s)
  PROVE  WitnessInv'
<1> USE DEF requestFiles
<1>1. /\ pc[s] = "append" /\ pc[s] \notin Resting /\ UNCHANGED <<evidence, artifacts>>
      /\ Job(s) \in Requests /\ artifacts[Job(s)] = ArtifactCount
      /\ evidence[Job(s)] = Evidence(mem[s].result, mem[s].seen)
      /\ mem[s].verdict = "success" => Convinced(mem[s])
  BY InFlight DEF AppendProcessed, Resting, Flying, Delegating, Evidenced, WitnessInv,
                  WitnessSession, Judging
<1>2. CASE Stop(s) /\ UNCHANGED processed
  BY <1>1, <1>2, WitnessStops
<1>3. CASE processed' = processed \cup {OwnLine(s)} /\ GoOn(s, "release")
  <2>1. ASSUME NEW r \in Requests, Line(r, "success") = OwnLine(s)
        PROVE  r = Job(s) /\ mem[s].verdict = "success"
    BY <2>1 DEF OwnLine, Line, Job
  <2>2. ASSUME mem[s].verdict = "success"
        PROVE  /\ evidence[Job(s)].result = "zero"
               /\ evidence[Job(s)].report # NoReport
               /\ evidence[Job(s)].report.status = "success" /\ ~evidence[Job(s)].report.posted
               /\ evidence[Job(s)].report.codex = "passed"
               /\ evidence[Job(s)].report.flags = {"runner_invoked", "codex_side_action_executed"}
    <3>1. evidence[Job(s)].result = mem[s].result /\ evidence[Job(s)].report = mem[s].seen
      BY <1>1 DEF Evidence
    <3> QED BY <1>1, <2>2, <3>1, ConvincedMeans DEF Convinced
  <2>3. SuccessIsWitnessed'
    <3> SUFFICES ASSUME NEW r \in Requests, Line(r, "success") \in processed'
                 PROVE  /\ evidence[r].result = "zero"
                        /\ evidence[r].report # NoReport
                        /\ evidence[r].report.status = "success" /\ ~evidence[r].report.posted
                        /\ evidence[r].report.codex = "passed"
                        /\ evidence[r].report.flags = {"runner_invoked", "codex_side_action_executed"}
                        /\ artifacts[r] = ArtifactCount
      BY <1>1 DEF SuccessIsWitnessed
    <3>1. CASE Line(r, "success") \in processed
      BY <3>1 DEF WitnessInv, SuccessIsWitnessed
    <3>2. CASE Line(r, "success") = OwnLine(s)
      BY <1>1, <2>1, <2>2, <3>2
    <3> QED BY <1>3, <3>1, <3>2
  <2>4. pc'[s] = "release"
    BY <1>3 DEF GoOn, Goto, Inv, TypeOK
  <2>5. WitnessSession(s)'
    BY <2>4 DEF WitnessSession, Unrecorded, Judging
  <2> QED BY <1>1, <1>3, <2>3, <2>5, WitnessStepOf DEF GoOn
<1> QED BY <1>2, <1>3 DEF AppendProcessed

LEMMA ReleaseWitness ==
  ASSUME Inv, WitnessInv, NEW s \in Sessions, Release(s) \/ ConfirmRelease(s)
  PROVE  WitnessInv'
<1>1. /\ pc[s] \notin Resting /\ UNCHANGED <<evidence, artifacts>> /\ processed' \subseteq processed
  BY DEF Release, ConfirmRelease, Rollback, Resting, requestFiles
<1>2. SuccessIsWitnessed'
  BY <1>1 DEF WitnessInv, SuccessIsWitnessed
<1>3. \E label \in {"confirm", "done"} : Goto(s, label)
  BY DEF Release, ConfirmRelease, Rollback, Stop, Leave, GoOn
<1>4. pc'[s] \in {"confirm", "done"}
  BY <1>3 DEF Goto, Inv, TypeOK
<1>5. WitnessSession(s)'
  BY <1>4 DEF WitnessSession, Unrecorded, Judging
<1> QED BY <1>1, <1>2, <1>3, <1>5, WitnessStepOf

(* Everybody else leaves the recorded requests alone.                      *)
LEMMA OthersWitness ==
  ASSUME Inv, WitnessInv,
         \/ \E s \in Sessions : \/ StartOperator(s) \/ StartRecovery(s) \/ Recovery(s)
                                \/ RunnerStep(s) \/ Crash(s)
         \/ Outside \/ CleanCheckout \/ RemoveLock \/ UNCHANGED vars
  PROVE  WitnessInv'
<1> USE DEF files, records, requestFiles, local
<1>1. ASSUME NEW s \in Sessions, StartOperator(s) \/ StartRecovery(s) PROVE WitnessInv'
  <2>1. UNCHANGED <<processed, evidence, artifacts>>
    BY <1>1 DEF StartOperator, StartRecovery
  <2>2. pc'[s] \in {"check", "inspect", "done"}
    BY <1>1 DEF StartOperator, StartRecovery, AcquireLock, Goto, Inv, TypeOK
  <2>3. \A t \in Sessions : t # s => UNCHANGED <<pc[t], mem[t]>>
    BY <1>1 DEF StartOperator, StartRecovery, AcquireLock, Goto, Remember, Inv, TypeOK
  <2>4. Indifferent(s)'
    BY <2>2 DEF Indifferent, Unrecorded, Judging
  <2> QED BY <2>1, <2>3, <2>4, WitnessFrame
<1>2. ASSUME NEW s \in Sessions, Recovery(s) \/ Crash(s) PROVE WitnessInv'
  <2>1. UNCHANGED <<processed, evidence, artifacts>> /\ pc[s] \notin Resting
    BY <1>2 DEF Recovery, Inspect, WritePending, Promote, Settle, Clear, Crash, Live, Dead, Resting
  <2>2. PICK label : Goto(s, label) /\ label \in Recovering \cup Resting
    BY <1>2 DEF Recovery, Inspect, WritePending, Promote, Settle, Clear, Crash, GoOn, Advance,
                ToReplace, Stop, Leave, Recovering, Resting
  <2>3. pc'[s] = label => WitnessSession(s)'
    BY <2>2 DEF WitnessSession, Unrecorded, Judging, Recovering, Resting
  <2> QED BY <2>1, <2>2, <2>3, WitnessMoves
<1>3. CASE \/ \E s \in Sessions : RunnerStep(s)
           \/ Outside \/ CleanCheckout \/ RemoveLock \/ UNCHANGED vars
  <2>1. UNCHANGED <<processed, evidence, artifacts, pc, mem>>
    BY <1>3 DEF RunnerStep, RunnerReports, RunnerExits, Outside, CleanCheckout, RemoveLock, vars
  <2> QED BY <2>1, WitnessFrame
<1> QED BY <1>1, <1>2, <1>3

LEMMA WitnessInit == Init => WitnessInv
BY DEF Init, WitnessInv, SuccessIsWitnessed, WitnessSession, Unrecorded, Judging

LEMMA WitnessStep == Inv /\ WitnessInv /\ [Next]_vars => WitnessInv'
<1> SUFFICES ASSUME Inv, WitnessInv, [Next]_vars PROVE WitnessInv'
  OBVIOUS
<1>1. ASSUME NEW s \in Sessions, Foreground(s) PROVE WitnessInv'
  BY <1>1, SelectWitness, EvidenceWitness, JudgeWitness, ArtifactWitness, AppendWitness,
     ReleaseWitness DEF Foreground
<1> QED BY <1>1, OthersWitness DEF Next

-----------------------------------------------------------------------------
(* Replay tombstones.  A recovery promotes the three records in their      *)
(* order, each when the record is not there and its pending file is what   *)
(* the recovery wants; so those before the one it is at are its own.       *)

Backed(r) ==
  LET of(k) == record[r][k] IN
  of("tombstone") # NoContent =>
    /\ of("tombstone").flight \in Flights
    /\ of("incident").flight = of("tombstone").flight
    /\ of("incident").at = of("tombstone").at
    /\ of("original").flight = of("tombstone").flight
    /\ inFlight.req = r => inFlight = of("tombstone").flight
(* What a record, or the pending file of one, must be.                     *)
Suits(content, m, kind) ==
  content.flight = m.job /\ (kind # "original" => content.at = m.stamp)
PromotedSoFar(m, r) ==
  /\ m.stage \in {"incident", "tombstone"} => Suits(record[r]["original"], m, "original")
  /\ m.stage = "tombstone" => Suits(record[r]["incident"], m, "incident")
BackedSession(s) ==
  /\ pc[s] \in {"off", "inspect"} => mem[s].stage = "original"
  /\ pc[s] \in {"pending", "replace"} => PromotedSoFar(mem[s], Job(s))
  /\ pc[s] = "replace" => /\ record[Job(s)][mem[s].stage] = NoContent
                          /\ Suits(pending[Job(s)][mem[s].stage], mem[s], mem[s].stage)
BackedInv ==
  (\A r \in Requests : Backed(r)) /\ \A s \in Sessions : BackedSession(s)

(* Where a session is that has nothing to do with the three records.       *)
Detached == Labels \ {"off", "inspect", "pending", "replace"}

LEMMA BackedFrame ==
  ASSUME BackedInv, UNCHANGED record, inFlight' \in {inFlight, NoFlight},
         UNCHANGED pending \/ \A t \in Sessions : pc'[t] # "replace",
         \A t \in Sessions : pc'[t] \in Detached \/ UNCHANGED <<pc[t], mem[t]>>
  PROVE  BackedInv'
<1>1. ASSUME NEW r \in Requests PROVE Backed(r)'
  <2>1. inFlight' = inFlight \/ inFlight'.req # r
    BY Nothing
  <2> QED BY <1>1, <2>1 DEF BackedInv, Backed
<1>2. ASSUME NEW t \in Sessions PROVE BackedSession(t)'
  <2>1. CASE pc'[t] \in Detached
    BY <2>1 DEF Detached, BackedSession
  <2>2. CASE UNCHANGED <<pc[t], mem[t]>>
    BY <1>2, <2>2 DEF BackedInv, BackedSession, PromotedSoFar, Suits, Job
  <2> QED BY <1>2, <2>1, <2>2
<1> QED BY <1>1, <1>2 DEF BackedInv

(* A step of the session that holds the lock; the others may not have been *)
(* started, or are over.                                                   *)
LEMMA BackedStepOf ==
  ASSUME Inv, BackedInv, NEW s \in Sessions, pc[s] \notin Resting,
         \A r \in Requests : Backed(r)', BackedSession(s)',
         NEW label, Goto(s, label), NEW m, Remember(s, m) \/ UNCHANGED mem
  PROVE  BackedInv'
<1>1. ASSUME NEW t \in Sessions, t # s PROVE BackedSession(t)'
  <2>1. pc[t] \in Resting /\ UNCHANGED <<pc[t], mem[t]>>
    BY <1>1, Alone DEF Goto, Remember, Inv, TypeOK
  <2> QED BY <2>1 DEF Resting, BackedInv, BackedSession
<1> QED BY <1>1 DEF BackedInv

(* It ends, and forgets, or goes on without touching the records.          *)
LEMMA BackedMoves ==
  ASSUME Inv, BackedInv, NEW s \in Sessions, pc[s] \notin Resting, UNCHANGED record,
         inFlight' \in {inFlight, NoFlight}, NEW label \in Detached, Goto(s, label),
         NEW m, Remember(s, m) \/ UNCHANGED mem,
         UNCHANGED pending \/ pc[s] \in Recovering
  PROVE  BackedInv'
<1>1. pc'[s] = label
  BY DEF Goto, Inv, TypeOK
<1>2. ASSUME NEW t \in Sessions, t # s
      PROVE  pc[t] \in Resting /\ UNCHANGED <<pc[t], mem[t]>>
  BY <1>2, Alone DEF Goto, Remember, Inv, TypeOK
<1>3. \A t \in Sessions : pc'[t] # "replace"
  BY <1>1, <1>2 DEF Detached, Resting
<1> QED BY <1>1, <1>2, <1>3, BackedFrame

LEMMA BackedStops ==
  ASSUME Inv, BackedInv, NEW s \in Sessions, pc[s] \notin Resting, UNCHANGED record,
         inFlight' \in {inFlight, NoFlight}, NEW why, Leave(s, why),
         UNCHANGED pending \/ pc[s] \in Recovering
  PROVE  BackedInv'
BY BackedMoves DEF Leave, Forget, Remember, Detached, Labels

(* A delegation is made only of a request without a tombstone.             *)
LEMMA ForegroundBacked ==
  ASSUME Inv, BackedInv, NEW s \in Sessions, Foreground(s)
  PROVE  BackedInv'
<1> USE DEF records, requestFiles, recovery
<1>1. UNCHANGED <<record, pending>> /\ pc[s] \notin Resting
  BY DEF Foreground, Check, Poll, WriteInFlight, Launch, Await, Observe, WriteEvidence, Judge,
         Verify, Render, WriteArtifact, AppendProcessed, Release, ConfirmRelease, Resting
<1>2. PICK label \in Detached : Goto(s, label)
  <2>1. \/ \E why \in {"stopped", "processed"} : Leave(s, why)
        \/ \E l \in {"poll", "flight", "launch", "wait", "observe", "evidence", "judge",
                         "verify", "render", "artifacts", "append", "release", "confirm"} :
             GoOn(s, l)
    BY DEF Foreground, Check, Poll, WriteInFlight, Launch, StartRunner, NotStarted, Await, Observe,
           WriteEvidence, Judge, Verify, Blocked, Render, WriteArtifact, AppendProcessed, Release,
           Rollback, ConfirmRelease, Stop
  <2> QED BY <2>1 DEF Leave, GoOn, Detached, Labels
<1>3. PICK m : Remember(s, m) \/ UNCHANGED mem
  <2>1. mem' = [mem EXCEPT ![s] = mem'[s]] \/ UNCHANGED mem
    <3>1. (\E m : Remember(s, m)) \/ UNCHANGED mem
      BY DEF Foreground, Check, Poll, WriteInFlight, Launch, StartRunner, NotStarted, Await, Observe,
             WriteEvidence, Judge, Verify, Blocked, Render, WriteArtifact, AppendProcessed, Release,
             Rollback, ConfirmRelease, Stop, Leave, Forget, Remember
    <3> QED BY <3>1 DEF Remember, Inv, TypeOK
  <2> QED BY <2>1 DEF Remember
<1>4. CASE WriteInFlight(s) /\ inFlight' = mem[s].job
  <2>1. record[Job(s)]["tombstone"] = NoContent
    BY <1>4 DEF WriteInFlight, Inv, SessionInv, Delegating, Tombstone
  <2>2. ASSUME NEW r \in Requests PROVE Backed(r)'
    <3>1. r = Job(s) => Backed(r)'
      BY <1>1, <2>1 DEF Backed
    <3>2. r # Job(s) => inFlight'.req # r
      BY <1>4 DEF Job
    <3>3. Backed(r)
      BY <2>2 DEF BackedInv
    <3> QED BY <1>1, <3>1, <3>2, <3>3 DEF Backed
  <2>3. pc'[s] = label
    BY <1>2 DEF Goto, Inv, TypeOK
  <2>4. BackedSession(s)'
    BY <2>3 DEF BackedSession, Detached
  <2> QED BY <1>1, <1>2, <1>3, <2>2, <2>4, BackedStepOf
<1>5. CASE inFlight' \in {inFlight, NoFlight}
  BY <1>1, <1>2, <1>3, <1>5, BackedMoves
<1>6. inFlight' \in {inFlight, NoFlight} \/ (WriteInFlight(s) /\ inFlight' = mem[s].job)
  BY DEF Foreground, Check, Poll, WriteInFlight, Launch, Await, Observe, WriteEvidence, Judge,
         Verify, Render, WriteArtifact, AppendProcessed, Release, ConfirmRelease
<1> QED BY <1>4, <1>5, <1>6

(* What a recovery wants suits it.                                         *)
LEMMA WantedSuits ==
  ASSUME NEW s \in Sessions, NEW kind \in Kinds, NEW at
  PROVE  /\ Wanted(s, kind, at).flight = mem[s].job
         /\ kind # "original" => Wanted(s, kind, at).at = at
BY DEF Wanted, Kinds

LEMMA AdvanceMemory ==
  ASSUME Inv, NEW s \in Sessions, NEW at, Advance(s, at)
  PROVE  /\ mem'[s].job = mem[s].job /\ mem'[s].stamp = at
         /\ mem'[s].stage = IF mem[s].stage = "original" THEN "incident" ELSE "tombstone"
         /\ pc'[s] = IF mem[s].stage = "tombstone" THEN "settle" ELSE "pending"
<1>1. mem[s] \in Memory
  BY DEF Inv, TypeOK
<1>2. mem'[s] = [mem[s] EXCEPT !.stamp = at,
                   !.stage = IF mem[s].stage = "original" THEN "incident" ELSE "tombstone"]
  BY DEF Advance, Remember, Inv, TypeOK
<1>3. pc'[s] = IF mem[s].stage = "tombstone" THEN "settle" ELSE "pending"
  BY DEF Advance, GoOn, Goto, Inv, TypeOK
<1> QED BY <1>1, <1>2, <1>3 DEF Memory

(* A record that is there suits the recovery, which goes on to the next.   *)
LEMMA AdvanceBacked ==
  ASSUME Inv, BackedInv, NEW s \in Sessions, pc[s] \in {"pending", "replace"},
         NEW at, Advance(s, at), \A r \in Requests : Backed(r)',
         mem[s].stage # "incident" => at = mem[s].stamp,
         record'[Job(s)][mem[s].stage].flight = mem[s].job,
         mem[s].stage # "original" => record'[Job(s)][mem[s].stage].at = at,
         \A k \in Kinds \ {mem[s].stage} : record'[Job(s)][k] = record[Job(s)][k]
  PROVE  BackedInv'
<1>1. /\ mem'[s].job = mem[s].job /\ mem'[s].stamp = at
      /\ mem'[s].stage = IF mem[s].stage = "original" THEN "incident" ELSE "tombstone"
      /\ pc'[s] = IF mem[s].stage = "tombstone" THEN "settle" ELSE "pending"
  BY AdvanceMemory
<1>2. mem[s].stage \in Kinds /\ PromotedSoFar(mem[s], Job(s))
  BY MemoryFields DEF Inv, BackedInv, BackedSession
<1>3. BackedSession(s)'
  <2>1. CASE mem[s].stage = "tombstone"
    BY <1>1, <2>1 DEF BackedSession
  <2>2. CASE mem[s].stage = "incident"
    <3>1. record'[Job(s)]["original"].flight = mem[s].job
      BY <1>2, <2>2 DEF PromotedSoFar, Suits, Kinds
    <3> QED BY <1>1, <2>2, <3>1 DEF BackedSession, PromotedSoFar, Suits, Job
  <2>3. CASE mem[s].stage = "original"
    BY <1>1, <2>3 DEF BackedSession, PromotedSoFar, Suits, Job
  <2> QED BY <1>2, <2>1, <2>2, <2>3 DEF Kinds
<1>4. \E label : Goto(s, label)
  BY DEF Advance, GoOn
<1>5. \E m : Remember(s, m)
  BY DEF Advance
<1>6. pc[s] \notin Resting
  BY DEF Resting
<1> QED BY <1>3, <1>4, <1>5, <1>6, BackedStepOf

LEMMA WritePendingBacked ==
  ASSUME Inv, BackedInv, NEW s \in Sessions, WritePending(s)
  PROVE  BackedInv'
<1>0. PICK k, at : k = mem[s].stage /\ at = StampFor(s)
  OBVIOUS
<1> USE DEF records
<1>1. /\ pc[s] = "pending" /\ pc[s] \in Recovering /\ pc[s] \notin Resting
      /\ UNCHANGED <<inFlight, record>>
      /\ Job(s) \in Requests /\ k \in Kinds
  BY <1>0, InRecovery, MemoryFields DEF WritePending, Recovering, Inv
<1>2. \A r \in Requests : Backed(r)'
  BY <1>1 DEF BackedInv, Backed
<1>3. CASE Stop(s)
  BY <1>1, <1>3, BackedStops DEF Stop
<1>4. k # "incident" => at = mem[s].stamp
  BY <1>0 DEF StampFor
<1>5. /\ Wanted(s, k, at).flight = mem[s].job
      /\ k # "original" => Wanted(s, k, at).at = at
  BY <1>1, WantedSuits
<1>6. CASE Advance(s, at) /\ record[Job(s)][k] = Wanted(s, k, at)
  BY <1>0, <1>1, <1>2, <1>4, <1>5, <1>6, AdvanceBacked
<1>7. CASE /\ ToReplace(s, at) /\ record[Job(s)][k] = NoContent
           /\ pending'[Job(s)][k] = Wanted(s, k, at)
  <2>1. mem'[s] = [mem[s] EXCEPT !.stamp = at] /\ mem[s] \in Memory
    BY <1>7 DEF ToReplace, Remember, Inv, TypeOK
  <2>2. mem'[s].job = mem[s].job /\ mem'[s].stage = k /\ mem'[s].stamp = at
    BY <1>0, <2>1 DEF Memory
  <2>3. PromotedSoFar(mem[s], Job(s))
    BY <1>1 DEF BackedInv, BackedSession
  <2>4. PromotedSoFar(mem[s], Job(s))'
    BY <1>0, <1>1, <1>4, <2>2, <2>3 DEF PromotedSoFar, Suits, Job
  <2>5. Suits(pending'[Job(s)][k], mem'[s], k)
    BY <1>5, <1>7, <2>2 DEF Suits
  <2>6. pc'[s] = "replace"
    BY <1>7 DEF ToReplace, GoOn, Goto, Inv, TypeOK
  <2>7. BackedSession(s)'
    BY <1>1, <1>7, <2>2, <2>4, <2>5, <2>6 DEF BackedSession, Job
  <2> QED BY <1>1, <1>2, <1>7, <2>7, BackedStepOf DEF ToReplace, GoOn
<1>8. \/ Stop(s)
      \/ Advance(s, at) /\ record[Job(s)][k] = Wanted(s, k, at)
      \/ /\ ToReplace(s, at) /\ record[Job(s)][k] = NoContent
         /\ \/ UNCHANGED pending /\ pending[Job(s)][k] = Wanted(s, k, at)
            \/ pending' = [pending EXCEPT ![Job(s)][k] = Wanted(s, k, at)]
  BY <1>0 DEF WritePending, Job
<1>9. pending' = [pending EXCEPT ![Job(s)][k] = Wanted(s, k, at)]
        => pending'[Job(s)][k] = Wanted(s, k, at)
  <2>1. pending \in [Requests -> [Kinds -> Contents]]
    BY DEF Inv, TypeOK
  <2> QED BY <1>1, <2>1
<1> QED BY <1>3, <1>6, <1>7, <1>8, <1>9

(* A record is promoted where there was none: an incident or an original   *)
(* is not replaced under a tombstone.                                      *)
LEMMA PromoteBacked ==
  ASSUME Inv, BackedInv, NEW s \in Sessions, Promote(s)
  PROVE  BackedInv'
<1>0. PICK q, k : q = Job(s) /\ k = mem[s].stage
  OBVIOUS
<1> USE DEF records
<1>1. /\ pc[s] = "replace" /\ pc[s] \in Recovering /\ pc[s] \notin Resting
      /\ UNCHANGED inFlight
      /\ q \in Requests /\ k \in Kinds /\ mem[s].job \in Flights
      /\ inFlight \in {mem[s].job, NoFlight}
  BY <1>0, InRecovery, MemoryFields DEF Promote, Recovering, Inv
<1>2. /\ record[q][k] = NoContent /\ PromotedSoFar(mem[s], q)
      /\ Suits(pending[q][k], mem[s], k)
  BY <1>0, <1>1 DEF BackedInv, BackedSession
<1>3. CASE Stop(s) /\ UNCHANGED <<record, pending>>
  BY <1>1, <1>3, BackedStops DEF Stop
<1>4. CASE record' = [record EXCEPT ![q][k] = pending[q][k]] /\ Advance(s, mem[s].stamp)
  <2>1. record \in [Requests -> [Kinds -> Contents]]
    BY DEF Inv, TypeOK
  <2>2. /\ record'[q][k] = pending[q][k]
        /\ \A j \in Kinds \ {k} : record'[q][j] = record[q][j]
        /\ \A r \in Requests \ {q} : record'[r] = record[r]
    BY <1>1, <1>4, <2>1
  <2>3. ASSUME NEW r \in Requests PROVE Backed(r)'
    <3>1. CASE r # q
      BY <1>1, <2>2, <2>3, <3>1 DEF BackedInv, Backed
    <3>2. CASE r = q /\ k = "tombstone"
      <4>1. /\ record'[r]["tombstone"].flight = mem[s].job
            /\ record'[r]["tombstone"].at = mem[s].stamp
        BY <1>2, <2>2, <3>2 DEF Suits
      <4>2. /\ record'[r]["incident"].flight = mem[s].job
            /\ record'[r]["incident"].at = mem[s].stamp
            /\ record'[r]["original"].flight = mem[s].job
        BY <1>2, <2>2, <3>2, <1>0 DEF PromotedSoFar, Suits, Kinds
      <4>3. inFlight'.req = r => inFlight' = mem[s].job
        BY <1>1, Nothing
      <4> QED BY <1>1, <4>1, <4>2, <4>3 DEF Backed
    <3>3. CASE r = q /\ k # "tombstone"
      <4>1. record[q]["tombstone"] = NoContent
        <5>1. Backed(q) /\ NoContent.flight = NoFlight /\ NoFlight \notin Flights
          BY <1>1, Nothing DEF BackedInv, NoContent
        <5>2. k \in {"original", "incident"}
          BY <1>1, <3>3 DEF Kinds
        <5> QED BY <1>2, <5>1, <5>2 DEF Backed
      <4>2. record'[r]["tombstone"] = NoContent
        BY <2>2, <3>3, <4>1 DEF Kinds
      <4> QED BY <4>2 DEF Backed
    <3> QED BY <3>1, <3>2, <3>3
  <2>4. /\ record'[q][k].flight = mem[s].job
        /\ k # "original" => record'[q][k].at = mem[s].stamp
    BY <1>2, <2>2 DEF Suits
  <2> QED BY <1>0, <1>1, <1>4, <2>2, <2>3, <2>4, AdvanceBacked
<1> QED BY <1>0, <1>3, <1>4 DEF Promote, Job

LEMMA RecoveryBacked ==
  ASSUME Inv, BackedInv, NEW s \in Sessions, Recovery(s) \/ Crash(s)
  PROVE  BackedInv'
<1> USE DEF records, requestFiles, recovery
<1>1. CASE Inspect(s)
  <2>1. UNCHANGED <<record, pending, inFlight>> /\ pc[s] = "inspect" /\ pc[s] \notin Resting
    BY <1>1 DEF Inspect, Resting
  <2>2. CASE Stop(s)
    BY <2>1, <2>2, BackedStops DEF Stop
  <2>3. ASSUME NEW found, NEW entries, GoOn(s, "pending"),
               Remember(s, [mem[s] EXCEPT !.seen = found, !.inventory = entries])
        PROVE  BackedInv'
    <3>1. mem[s] \in Memory /\ mem[s].stage = "original"
      BY <2>1 DEF Inv, TypeOK, BackedInv, BackedSession
    <3>2. mem'[s] = [mem[s] EXCEPT !.seen = found, !.inventory = entries]
      BY <2>3 DEF Remember, Inv, TypeOK
    <3>3. mem'[s].stage = "original"
      BY <3>1, <3>2 DEF Memory
    <3>4. pc'[s] = "pending"
      BY <2>3 DEF GoOn, Goto, Inv, TypeOK
    <3>5. BackedSession(s)'
      BY <3>3, <3>4 DEF BackedSession, PromotedSoFar
    <3>6. \A r \in Requests : Backed(r)'
      BY <2>1 DEF BackedInv, Backed
    <3> QED BY <2>1, <2>3, <3>5, <3>6, BackedStepOf DEF GoOn
  <2> QED BY <1>1, <2>2, <2>3 DEF Inspect
<1>2. CASE Settle(s)
  <2>1. /\ UNCHANGED <<record, pending, inFlight>> /\ pc[s] \notin Resting
    BY <1>2 DEF Settle, Resting
  <2>2. CASE Stop(s)
    BY <2>1, <2>2, BackedStops DEF Stop
  <2>3. CASE GoOn(s, "clear") /\ UNCHANGED mem
    BY <2>1, <2>3, BackedMoves DEF GoOn, Detached, Labels
  <2> QED BY <1>2, <2>2, <2>3 DEF Settle
<1>3. CASE Clear(s)
  <2>1. /\ UNCHANGED <<record, pending>> /\ inFlight' \in {inFlight, NoFlight}
        /\ pc[s] \notin Resting /\ \E why \in {"stopped", "recovered"} : Leave(s, why)
    BY <1>3 DEF Clear, Resting, Stop
  <2> QED BY <2>1, BackedStops
<1>4. CASE Crash(s)
  <2>1. UNCHANGED <<record, inFlight>> /\ Goto(s, "crashed") /\ Remember(s, Blank)
    BY <1>4 DEF Crash, Forget, Remember
  <2>2. pc[s] \notin Resting /\ (UNCHANGED pending \/ pc[s] \in Recovering)
    BY <1>4 DEF Crash, Live, Dead, Resting, Recovering
  <2>3. "crashed" \in Detached
    BY DEF Detached, Labels
  <2> QED BY <2>1, <2>2, <2>3, BackedMoves
<1> QED BY <1>1, <1>2, <1>3, <1>4, WritePendingBacked, PromoteBacked DEF Recovery

LEMMA OthersBacked ==
  ASSUME Inv, BackedInv,
         \/ \E s \in Sessions : StartOperator(s) \/ StartRecovery(s) \/ RunnerStep(s)
         \/ Outside \/ CleanCheckout \/ RemoveLock \/ UNCHANGED vars
  PROVE  BackedInv'
<1> USE DEF files, records, requestFiles, recovery, local
<1>1. ASSUME NEW s \in Sessions, StartOperator(s) PROVE BackedInv'
  <2>1. UNCHANGED <<record, pending, inFlight, mem>>
    BY <1>1 DEF StartOperator
  <2>2. pc'[s] \in Detached
    BY <1>1 DEF StartOperator, AcquireLock, Goto, Inv, TypeOK, Detached, Labels
  <2>3. \A t \in Sessions : t # s => pc'[t] = pc[t]
    BY <1>1 DEF StartOperator, AcquireLock, Goto, Inv, TypeOK
  <2> QED BY <2>1, <2>2, <2>3, BackedFrame
<1>2. ASSUME NEW s \in Sessions, StartRecovery(s) PROVE BackedInv'
  <2>1. UNCHANGED <<record, pending, inFlight>> /\ pc[s] = "off"
    BY <1>2 DEF StartRecovery, IsNext
  <2>2. /\ \A t \in Sessions : t # s => UNCHANGED <<pc[t], mem[t]>>
        /\ pc'[s] \in {"inspect", "done"}
    BY <1>2 DEF StartRecovery, AcquireLock, Goto, Remember, Inv, TypeOK
  <2>3. mem'[s].stage = "original"
    <3>1. mem[s] \in Memory /\ mem[s].stage = "original"
      BY <2>1 DEF Inv, TypeOK, BackedInv, BackedSession
    <3>2. PICK f : mem'[s] = [mem[s] EXCEPT !.job = f]
      BY <1>2 DEF StartRecovery, Remember, Inv, TypeOK
    <3> QED BY <3>1, <3>2 DEF Memory
  <2>4. BackedSession(s)'
    BY <2>2, <2>3 DEF BackedSession
  <2>5. \A t \in Sessions : t # s => BackedSession(t)'
    BY <2>1, <2>2 DEF BackedInv, BackedSession, PromotedSoFar, Suits, Job
  <2>6. \A r \in Requests : Backed(r)'
    BY <2>1 DEF BackedInv, Backed
  <2> QED BY <2>4, <2>5, <2>6 DEF BackedInv
<1>3. CASE \/ \E s \in Sessions : RunnerStep(s)
           \/ Outside \/ CleanCheckout \/ RemoveLock \/ UNCHANGED vars
  <2>1. UNCHANGED <<record, pending, inFlight, pc, mem>>
    BY <1>3 DEF RunnerStep, RunnerReports, RunnerExits, Outside, CleanCheckout, RemoveLock, vars
  <2> QED BY <2>1, BackedFrame
<1> QED BY <1>1, <1>2, <1>3

LEMMA BackedInit == Init => BackedInv
BY DEF Init, BackedInv, Backed, BackedSession, Blank, Kinds

LEMMA BackedStep == Inv /\ BackedInv /\ [Next]_vars => BackedInv'
BY ForegroundBacked, RecoveryBacked, OthersBacked DEF Next
-----------------------------------------------------------------------------
(* The theorems.                                                           *)

(* The invariant holds in every reachable state.                           *)
THEOREM PilotInvariant == Spec => []Inv
BY InitInv, StepInv, PTL DEF Spec

(* The files, the sessions' memories and the runners keep their shapes.    *)
THEOREM TypeCorrect == Spec => []TypeOK
<1>1. Inv => TypeOK
  BY DEF Inv
<1> QED BY <1>1, PilotInvariant, PTL

(* No request reaches the runner twice, for any number of operators,       *)
(* recoveries, crashes and failed operations.                              *)
THEOREM RunsOnce == Spec => []RunAtMostOnce
<1>1. Inv => RunAtMostOnce
  BY DEF Inv, GlobalInv
<1> QED BY <1>1, PilotInvariant, PTL

(* A request that ran is in flight, has process evidence or is closed by a *)
(* replay tombstone: one of the three keeps it from the runner.            *)
THEOREM RunsAreAccounted == Spec => []RunIsAccounted
<1>1. Inv => RunIsAccounted
  BY DEF Inv, GlobalInv
<1> QED BY <1>1, PilotInvariant, PTL

(* No request is both recorded as processed and closed by a recovery.      *)
THEOREM OneEndEach == Spec => []OneEnd
<1>1. Inv => OneEnd
  BY DEF Inv, GlobalInv
<1> QED BY <1>1, PilotInvariant, PTL

(* A recorded success is what an exited runner reported, and neither its   *)
(* report nor what the parent knows contradicts it (2656-2716); its        *)
(* process evidence and its six files are there.                           *)
THEOREM SuccessesAreWitnessed == Spec => []SuccessIsWitnessed
<1>1. WitnessInv => SuccessIsWitnessed
  BY DEF WitnessInv
<1> QED BY <1>1, PilotInvariant, WitnessInit, WitnessStep, PTL DEF Spec

(* A replay tombstone stands on an incident of the same time and on a      *)
(* snapshot of the same delegation, wherever recoveries were interrupted   *)
(* (1526-1573, 1631-1660).                                                 *)
THEOREM TombstonesAreBacked == Spec => []TombstoneIsBacked
<1>1. BackedInv => TombstoneIsBacked
  BY DEF BackedInv, Backed, TombstoneIsBacked
<1> QED BY <1>1, PilotInvariant, BackedInit, BackedStep, PTL DEF Spec
=============================================================================
