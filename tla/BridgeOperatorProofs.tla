------------------------- MODULE BridgeOperatorProofs -------------------------
(***************************************************************************)
(* Proofs about BridgeOperator, for any number of sessions and requests,   *)
(* any bounds, crashes and failures, and whether or not a rename replaces a*)
(* file.  The first part holds for any interleaving of the sessions; the   *)
(* second part, on runs and records, for one live operator at a time.      *)
(***************************************************************************)
EXTENDS BridgeOperator, TLAPS, FiniteSetTheorems

USE SessionAssumption, RequestAssumption, BoundAssumption

-----------------------------------------------------------------------------
(* Types.                                                                  *)

(* What a reader takes from a record line is a verdict.                    *)
LEMMA OutcomeType ==
  ASSUME TypeOK, NEW r, Recorded(r)
  PROVE  OutcomeOf(r) \in Outcomes \cup {"none", "torn"}
<1>1. PICK i \in RecordsOf(r) : OutcomeOf(r) = processed[i].outcome
  BY DEF Recorded, OutcomeOf
<1>2. i \in DOMAIN processed
  BY <1>1 DEF RecordsOf
<1>3. processed[i] \in Lines
  BY <1>2 DEF TypeOK
<1> QED BY <1>1, <1>3 DEF Lines

(* The three primitives every durable step is made of keep the types.      *)
LEMMA WriteType ==
  ASSUME TypeOK, NEW s \in Sessions, NEW owner, NEW flight \in Flights,
         NEW done \in Labels, NEW failed \in Labels,
         WriteInFlight(s, owner, flight, done, failed)
  PROVE  /\ pc' \in [Sessions -> Labels]
         /\ inFlight' \in Flights
         /\ held' \in [Sessions -> Flights]
         /\ tmp' \subseteq Sessions \cup {NoSession}
         /\ faults' \in 0 .. MaxFaults
<1>1. pc \in [Sessions -> Labels] /\ faults \in 0 .. MaxFaults
  BY DEF TypeOK
<1>2. pc' \in [Sessions -> Labels]
  BY <1>1 DEF WriteInFlight, Goto
<1>3. faults' \in 0 .. MaxFaults
  BY <1>1 DEF WriteInFlight, Fault, NoFault
<1>4. inFlight' \in Flights /\ held' \in [Sessions -> Flights]
  BY DEF TypeOK, WriteInFlight
<1>5. tmp' \subseteq Sessions \cup {NoSession}
  BY DEF TypeOK, WriteInFlight
<1> QED BY <1>2, <1>3, <1>4, <1>5

LEMMA AppendType ==
  ASSUME TypeOK, NEW s \in Sessions, NEW r \in Requests \cup {NoRequest},
         NEW outcome \in Outcomes \cup {"none", "torn"},
         NEW done \in Labels, NEW failed \in Labels,
         AppendRecord(s, r, outcome, done, failed)
  PROVE  /\ pc' \in [Sessions -> Labels]
         /\ processed' \in Seq(Lines)
         /\ faults' \in 0 .. MaxFaults
<1>1. Record(r, outcome) \in Lines /\ TornRecord \in Lines
  BY DEF Record, TornRecord, Lines
<1>2. processed' \in {processed, Append(processed, TornRecord),
                      Append(processed, Record(r, outcome))}
  BY DEF AppendRecord
<1>3. processed \in Seq(Lines) /\ pc \in [Sessions -> Labels] /\ faults \in 0 .. MaxFaults
  BY DEF TypeOK
<1>4. processed' \in Seq(Lines)
  BY <1>1, <1>2, <1>3
<1>5. pc' \in [Sessions -> Labels]
  BY <1>3 DEF AppendRecord, Goto
<1>6. faults' \in 0 .. MaxFaults
  BY <1>3 DEF AppendRecord, Fault, NoFault
<1> QED BY <1>4, <1>5, <1>6

LEMMA RemoveType ==
  ASSUME TypeOK, NEW s \in Sessions, NEW done \in Labels, NEW failed \in Labels,
         RemoveInFlight(s, done, failed)
  PROVE  /\ pc' \in [Sessions -> Labels]
         /\ inFlight' \in Flights
         /\ held' \in [Sessions -> Flights]
         /\ faults' \in 0 .. MaxFaults
<1>1. NoFlight \in Flights
  BY DEF NoFlight, Flights
<1>2. pc \in [Sessions -> Labels] /\ faults \in 0 .. MaxFaults
  BY DEF TypeOK
<1>3. pc' \in [Sessions -> Labels]
  BY <1>2 DEF RemoveInFlight, Goto
<1>4. faults' \in 0 .. MaxFaults
  BY <1>2 DEF RemoveInFlight, Fault, NoFault, FailsUnless
<1>5. inFlight \in Flights /\ held \in [Sessions -> Flights]
  BY DEF TypeOK
<1>6. inFlight' \in Flights
  BY <1>1, <1>5 DEF RemoveInFlight
<1>7. held' \in [Sessions -> Flights]
  BY <1>1, <1>5 DEF RemoveInFlight
<1> QED BY <1>3, <1>4, <1>6, <1>7


LEMMA StartUpType ==
  ASSUME TypeOK, NEW s \in Sessions,
         Start(s) \/ ReadState(s) \/ InspectLock(s) \/ Recover(s)
         \/ RecReconcile(s) \/ RecAppend(s) \/ RecMark(s) \/
         RecRemove(s) \/ CheckQuarantine(s) \/ RenameLock(s) \/
         AcquireLock(s) \/ WriteLock(s) \/ Begin(s)
  PROVE  TypeOK'
<1>lock. lock \in Locks  BY DEF TypeOK
<1>inFlight. inFlight \in Flights  BY DEF TypeOK
<1>quarantined. quarantined \subseteq Sessions \cup {NoSession}  BY DEF TypeOK
<1>pc. pc \in [Sessions -> Labels]  BY DEF TypeOK
<1>target. target \in [Sessions -> Sessions \cup {NoSession}]  BY DEF TypeOK
<1>held. held \in [Sessions -> Flights]  BY DEF TypeOK
<1>verdict. verdict \in [Sessions -> Outcomes \cup {"none", "torn"}]  BY DEF TypeOK
<1>faults. faults \in 0 .. MaxFaults  BY DEF TypeOK
<1>1. ASSUME Start(s) PROVE TypeOK'
  <2>1. pc' \in [Sessions -> Labels]
    BY <1>1, <1>pc DEF Start, Step, Goto, Labels
  <2>2. UNCHANGED <<files, local, execution, relay, faults>>
    BY <1>1 DEF Start, files, local, execution, relay
  <2> QED BY <2>1, <2>2 DEF TypeOK, files, local, execution, relay
<1>2. ASSUME ReadState(s) PROVE TypeOK'
  <2>1. pc' \in [Sessions -> Labels]
    BY <1>2, <1>pc DEF ReadState, Step, Goto, Labels
  <2>2. held' \in [Sessions -> Flights]
    BY <1>2, <1>held, <1>inFlight DEF ReadState
  <2>3. UNCHANGED <<files, target, job, verdict, code, cycle, suppressed, execution, relay, faults>>
    BY <1>2 DEF ReadState, files, local, execution, relay
  <2> QED BY <2>1, <2>2, <2>3 DEF TypeOK, files, execution, relay
<1>3. ASSUME InspectLock(s) PROVE TypeOK'
  <2>1. pc' \in [Sessions -> Labels]
    BY <1>3, <1>pc DEF InspectLock, Step, Goto, Labels
  <2>2. target' \in [Sessions -> Sessions \cup {NoSession}]
    BY <1>3, <1>target, <1>lock DEF InspectLock, Locks
  <2>3. faults' \in 0 .. MaxFaults
    BY <1>3, <1>faults DEF InspectLock, Fault, NoFault, FailsUnless
  <2>4. UNCHANGED <<files, held, job, verdict, code, cycle, suppressed, execution, relay>>
    BY <1>3 DEF InspectLock, files, local, execution, relay
  <2> QED BY <2>1, <2>2, <2>3, <2>4 DEF TypeOK, files, execution, relay
<1>4. ASSUME Recover(s) PROVE TypeOK'
  <2>1. pc' \in [Sessions -> Labels]
    BY <1>4, <1>pc DEF Recover, Goto, Labels
  <2>2. verdict' \in [Sessions -> Outcomes \cup {"none", "torn"}]
    BY <1>4, <1>verdict, OutcomeType DEF Recover, Outcomes
  <2>3. UNCHANGED <<files, target, held, job, code, cycle, suppressed, execution, relay, faults>>
    BY <1>4 DEF Recover, files, local, execution, relay
  <2> QED BY <2>1, <2>2, <2>3 DEF TypeOK, files, execution, relay
<1>5. ASSUME RecReconcile(s) PROVE TypeOK'
  <2>1. pc' \in [Sessions -> Labels]
    BY <1>5, <1>pc DEF RecReconcile, Step, Goto, Labels
  <2>2. verdict' \in [Sessions -> Outcomes \cup {"none", "torn"}]
    BY <1>5, <1>verdict DEF RecReconcile, VerdictOf, Outcomes
  <2>3. faults' \in 0 .. MaxFaults
    BY <1>5, <1>faults DEF RecReconcile, Fault, NoFault, FailsUnless
  <2>4. UNCHANGED <<files, target, held, job, code, cycle, suppressed, execution, relay>>
    BY <1>5 DEF RecReconcile, files, local, execution, relay
  <2> QED BY <2>1, <2>2, <2>3, <2>4 DEF TypeOK, files, execution, relay
<1>6. ASSUME RecAppend(s) PROVE TypeOK'
  <2>1. "recMark" \in Labels /\ "exited" \in Labels
    BY DEF Labels
  <2>2. held[s].req \in Requests \cup {NoRequest} /\ verdict[s] \in Outcomes \cup {"none", "torn"}
    BY <1>held, <1>verdict DEF Flights
  <2>3. /\ pc' \in [Sessions -> Labels]
         /\ processed' \in Seq(Lines)
         /\ faults' \in 0 .. MaxFaults
    BY <1>6, <2>1, <2>2, AppendType DEF RecAppend
  <2>4. UNCHANGED <<lock, inFlight, quarantined, tmp, local, execution, relay>>
    BY <1>6 DEF RecAppend, files, local, execution, relay
  <2> QED BY <2>1, <2>2, <2>3, <2>4 DEF TypeOK, local, execution, relay
<1>7. ASSUME RecMark(s) PROVE TypeOK'
  <2>1. "recRemove" \in Labels /\ "exited" \in Labels
    BY DEF Labels
  <2>2. [held[s] EXCEPT !.stage = "PROCESSED"] \in Flights
    BY <1>held DEF Flights, Stages
  <2>3. /\ pc' \in [Sessions -> Labels]
         /\ inFlight' \in Flights
         /\ held' \in [Sessions -> Flights]
         /\ tmp' \subseteq Sessions \cup {NoSession}
         /\ faults' \in 0 .. MaxFaults
    BY <1>7, <2>1, <2>2, WriteType DEF RecMark
  <2>4. UNCHANGED <<lock, processed, quarantined, target, job, verdict, code, cycle, suppressed, execution, relay>>
    BY <1>7 DEF RecMark, files, local, execution, relay
  <2> QED BY <2>1, <2>2, <2>3, <2>4 DEF TypeOK, execution, relay
<1>8. ASSUME RecRemove(s) PROVE TypeOK'
  <2>1. "quarantine" \in Labels /\ "exited" \in Labels
    BY DEF Labels
  <2>2. /\ pc' \in [Sessions -> Labels]
         /\ inFlight' \in Flights
         /\ held' \in [Sessions -> Flights]
         /\ faults' \in 0 .. MaxFaults
    BY <1>8, <2>1, RemoveType DEF RecRemove
  <2>3. UNCHANGED <<lock, processed, quarantined, tmp, target, job, verdict, code, cycle, suppressed, execution, relay>>
    BY <1>8 DEF RecRemove, files, local, execution, relay
  <2> QED BY <2>1, <2>2, <2>3 DEF TypeOK, execution, relay
<1>9. ASSUME CheckQuarantine(s) PROVE TypeOK'
  <2>1. pc' \in [Sessions -> Labels]
    BY <1>9, <1>pc DEF CheckQuarantine, Step, Goto, Labels
  <2>2. UNCHANGED <<files, local, execution, relay, faults>>
    BY <1>9 DEF CheckQuarantine, files, local, execution, relay
  <2> QED BY <2>1, <2>2 DEF TypeOK, files, local, execution, relay
<1>10. ASSUME RenameLock(s) PROVE TypeOK'
  <2>1. pc' \in [Sessions -> Labels]
    BY <1>10, <1>pc DEF RenameLock, Step, Goto, Labels
  <2>2. lock' \in Locks
    BY <1>10, <1>lock DEF RenameLock, Locks, NoLock
  <2>3. quarantined' \subseteq Sessions \cup {NoSession}
    BY <1>10, <1>quarantined, <1>target DEF RenameLock
  <2>4. UNCHANGED <<inFlight, processed, tmp, local, execution, relay, faults>>
    BY <1>10 DEF RenameLock, files, local, execution, relay
  <2> QED BY <2>1, <2>2, <2>3, <2>4 DEF TypeOK, local, execution, relay
<1>11. ASSUME AcquireLock(s) PROVE TypeOK'
  <2>1. pc' \in [Sessions -> Labels]
    BY <1>11, <1>pc DEF AcquireLock, Step, Goto, Labels
  <2>2. lock' \in Locks
    BY <1>11, <1>lock DEF AcquireLock, Locks, Lock
  <2>3. UNCHANGED <<inFlight, processed, quarantined, tmp, local, execution, relay, faults>>
    BY <1>11 DEF AcquireLock, files, local, execution, relay
  <2> QED BY <2>1, <2>2, <2>3 DEF TypeOK, local, execution, relay
<1>12. ASSUME WriteLock(s) PROVE TypeOK'
  <2>1. pc' \in [Sessions -> Labels]
    BY <1>12, <1>pc DEF WriteLock, Step, Goto, Labels
  <2>2. lock' \in Locks
    BY <1>12, <1>lock DEF WriteLock, Locks, Lock
  <2>3. faults' \in 0 .. MaxFaults
    BY <1>12, <1>faults DEF WriteLock, Fault, NoFault, FailsUnless
  <2>4. UNCHANGED <<inFlight, processed, quarantined, tmp, local, execution, relay>>
    BY <1>12 DEF WriteLock, files, local, execution, relay
  <2> QED BY <2>1, <2>2, <2>3, <2>4 DEF TypeOK, local, execution, relay
<1>13. ASSUME Begin(s) PROVE TypeOK'
  <2>1. pc' \in [Sessions -> Labels]
    BY <1>13, <1>pc DEF Begin, Step, Goto, Labels
  <2>2. UNCHANGED <<files, local, execution, relay, faults>>
    BY <1>13 DEF Begin, files, local, execution, relay
  <2> QED BY <2>1, <2>2 DEF TypeOK, files, local, execution, relay
<1> QED
  BY <1>1, <1>2, <1>3, <1>4, <1>5, <1>6, <1>7, <1>8, <1>9, <1>10, <1>11, <1>12, <1>13

LEMMA LoopType ==
  ASSUME TypeOK, NEW s \in Sessions,
         LeaveLoop(s) \/ PausedCycle(s) \/ Poll(s) \/
         RefuseProbe(s) \/ RefuseRequest(s) \/ CheckProcessed(s) \/ Reconcile(s) \/
         Settle(s) \/ Prepare(s) \/ Commit(s) \/ Spawn(s) \/
         Wait(s) \/ RecordDispatcher(s) \/ Reject(s) \/ Cleanup(s)
         \/ Confirm(s) \/ AppendSettled(s) \/ Mark(s) \/ Remove(s)
         \/ Finally(s) \/ ReleaseLock(s)
  PROVE  TypeOK'
<1>lock. lock \in Locks  BY DEF TypeOK
<1>pc. pc \in [Sessions -> Labels]  BY DEF TypeOK
<1>held. held \in [Sessions -> Flights]  BY DEF TypeOK
<1>job. job \in [Sessions -> Requests \cup {NoRequest}]  BY DEF TypeOK
<1>verdict. verdict \in [Sessions -> Outcomes \cup {"none", "torn"}]  BY DEF TypeOK
<1>code. code \in [Sessions -> Codes]  BY DEF TypeOK
<1>cycle. cycle \in [Sessions -> 0 .. MaxCycles]  BY DEF TypeOK
<1>suppressed. suppressed \in [Sessions -> SUBSET Requests]  BY DEF TypeOK
<1>chain. chain \in [Sessions -> Chains]  BY DEF TypeOK
<1>relayed. relayed \subseteq Requests  BY DEF TypeOK
<1>faults. faults \in 0 .. MaxFaults  BY DEF TypeOK
<1>1. ASSUME LeaveLoop(s) PROVE TypeOK'
  <2>1. pc' \in [Sessions -> Labels]
    BY <1>1, <1>pc DEF LeaveLoop, Step, Goto, Labels
  <2>2. UNCHANGED <<files, local, execution, relay, faults>>
    BY <1>1 DEF LeaveLoop, files, local, execution, relay
  <2> QED BY <2>1, <2>2 DEF TypeOK, files, local, execution, relay
<1>2. ASSUME PausedCycle(s) PROVE TypeOK'
  <2>1. pc' \in [Sessions -> Labels]
    BY <1>2, <1>pc DEF PausedCycle, Step, Goto, Labels
  <2>2. cycle' \in [Sessions -> 0 .. MaxCycles]
    BY <1>2, <1>cycle DEF PausedCycle, NextCycle
  <2>3. UNCHANGED <<files, target, held, job, verdict, code, suppressed, execution, relay, faults>>
    BY <1>2 DEF PausedCycle, files, local, execution, relay
  <2> QED BY <2>1, <2>2, <2>3 DEF TypeOK, files, execution, relay
<1>3. ASSUME Poll(s) PROVE TypeOK'
  <2>1. pc' \in [Sessions -> Labels]
    BY <1>3, <1>pc DEF Poll, Step, Goto, Labels
  <2>2. cycle' \in [Sessions -> 0 .. MaxCycles]
    BY <1>3, <1>cycle DEF Poll, NextCycle
  <2>3. job' \in [Sessions -> Requests \cup {NoRequest}]
    BY <1>3, <1>job, <1>relayed DEF Poll, Current
  <2>4. faults' \in 0 .. MaxFaults
    BY <1>3, <1>faults DEF Poll, Fault, NoFault, FailsUnless
  <2>5. UNCHANGED <<files, target, held, verdict, code, suppressed, execution, relay>>
    BY <1>3 DEF Poll, files, local, execution, relay
  <2> QED BY <2>1, <2>2, <2>3, <2>4, <2>5 DEF TypeOK, files, execution, relay
<1>4. ASSUME RefuseProbe(s) PROVE TypeOK'
  <2>1. pc' \in [Sessions -> Labels]
    BY <1>4, <1>pc DEF RefuseProbe, Step, Goto, Labels
  <2>2. suppressed' \in [Sessions -> SUBSET Requests]
    BY <1>4, <1>suppressed DEF RefuseProbe
  <2>3. UNCHANGED <<files, target, held, job, verdict, code, cycle, execution, relay, faults>>
    BY <1>4 DEF RefuseProbe, files, local, execution, relay
  <2> QED BY <2>1, <2>2, <2>3 DEF TypeOK, files, execution, relay
<1>5. ASSUME CheckProcessed(s) PROVE TypeOK'
  <2>1. pc' \in [Sessions -> Labels]
    BY <1>5, <1>pc DEF CheckProcessed, Step, Goto, Labels
  <2>2. UNCHANGED <<files, local, execution, relay, faults>>
    BY <1>5 DEF CheckProcessed, files, local, execution, relay
  <2> QED BY <2>1, <2>2 DEF TypeOK, files, local, execution, relay
<1>6. ASSUME Reconcile(s) PROVE TypeOK'
  <2>1. pc' \in [Sessions -> Labels]
    BY <1>6, <1>pc DEF Reconcile, Step, Goto, Labels
  <2>2. verdict' \in [Sessions -> Outcomes \cup {"none", "torn"}]
    BY <1>6, <1>verdict DEF Reconcile, VerdictOf, Outcomes
  <2>3. faults' \in 0 .. MaxFaults
    BY <1>6, <1>faults DEF Reconcile, Fault, NoFault, FailsUnless
  <2>4. UNCHANGED <<files, target, held, job, code, cycle, suppressed, execution, relay>>
    BY <1>6 DEF Reconcile, files, local, execution, relay
  <2> QED BY <2>1, <2>2, <2>3, <2>4 DEF TypeOK, files, execution, relay
<1>7. ASSUME Settle(s) PROVE TypeOK'
  <2>1. AfterSettlement(s) \in Labels /\ "finally" \in Labels
    BY DEF Labels, AfterSettlement
  <2>2. job[s] \in Requests \cup {NoRequest} /\ verdict[s] \in Outcomes \cup {"none", "torn"}
    BY <1>job, <1>verdict DEF Flights
  <2>3. /\ pc' \in [Sessions -> Labels]
         /\ processed' \in Seq(Lines)
         /\ faults' \in 0 .. MaxFaults
    BY <1>7, <2>1, <2>2, AppendType DEF Settle
  <2>4. UNCHANGED <<lock, inFlight, quarantined, tmp, local, execution, relay>>
    BY <1>7 DEF Settle, files, local, execution, relay
  <2> QED BY <2>1, <2>2, <2>3, <2>4 DEF TypeOK, local, execution, relay
<1>8. ASSUME Prepare(s) PROVE TypeOK'
  <2>1. "commit" \in Labels /\ "finally" \in Labels
    BY DEF Labels
  <2>2. Flight(s, job[s], "PREPARED") \in Flights
    BY <1>job DEF Flight, Flights, Stages
  <2>3. /\ pc' \in [Sessions -> Labels]
         /\ inFlight' \in Flights
         /\ held' \in [Sessions -> Flights]
         /\ tmp' \subseteq Sessions \cup {NoSession}
         /\ faults' \in 0 .. MaxFaults
    BY <1>8, <2>1, <2>2, WriteType DEF Prepare
  <2>4. UNCHANGED <<lock, processed, quarantined, target, job, verdict, code, cycle, suppressed, execution, relay>>
    BY <1>8 DEF Prepare, files, local, execution, relay
  <2> QED BY <2>1, <2>2, <2>3, <2>4 DEF TypeOK, execution, relay
<1>9. ASSUME Commit(s) PROVE TypeOK'
  <2>1. "spawn" \in Labels /\ "finally" \in Labels
    BY DEF Labels
  <2>2. Flight(s, job[s], "DISPATCHED") \in Flights
    BY <1>job DEF Flight, Flights, Stages
  <2>3. /\ pc' \in [Sessions -> Labels]
         /\ inFlight' \in Flights
         /\ held' \in [Sessions -> Flights]
         /\ tmp' \subseteq Sessions \cup {NoSession}
         /\ faults' \in 0 .. MaxFaults
    BY <1>9, <2>1, <2>2, WriteType DEF Commit
  <2>4. UNCHANGED <<lock, processed, quarantined, target, job, verdict, code, cycle, suppressed, execution, relay>>
    BY <1>9 DEF Commit, files, local, execution, relay
  <2> QED BY <2>1, <2>2, <2>3, <2>4 DEF TypeOK, execution, relay
<1>10. ASSUME Spawn(s) PROVE TypeOK'
  <2>1. pc' \in [Sessions -> Labels]
    BY <1>10, <1>pc DEF Spawn, Step, Goto, Labels
  <2>2. code' \in [Sessions -> Codes]
    BY <1>10, <1>code DEF Spawn, Codes
  <2>3. chain' \in [Sessions -> Chains]
    BY <1>10, <1>chain, <1>job DEF Spawn, Chains, Chain, Codes
  <2>4. faults' \in 0 .. MaxFaults
    BY <1>10, <1>faults DEF Spawn, Fault, NoFault, FailsUnless
  <2>5. UNCHANGED <<files, target, held, job, verdict, cycle, suppressed, runs, relay>>
    BY <1>10 DEF Spawn, files, local, execution, relay
  <2> QED BY <2>1, <2>2, <2>3, <2>4, <2>5 DEF TypeOK, files, relay
<1>11. ASSUME Wait(s) PROVE TypeOK'
  <2>1. pc' \in [Sessions -> Labels]
    BY <1>11, <1>pc DEF Wait, Step, Goto, Labels
  <2>2. code' \in [Sessions -> Codes]
    BY <1>11, <1>code, <1>chain DEF Wait, Chains, Codes
  <2>3. UNCHANGED <<files, target, held, job, verdict, cycle, suppressed, execution, relay, faults>>
    BY <1>11 DEF Wait, files, local, execution, relay
  <2> QED BY <2>1, <2>2, <2>3 DEF TypeOK, files, execution, relay
<1>12. ASSUME RecordDispatcher(s) PROVE TypeOK'
  <2> DEFINE next == CASE code[s] = "rejected" -> "reject"
                        [] code[s] = "failed_before_runner" -> "cleanup"
                        [] code[s] = "zero" -> "confirm"
                        [] OTHER -> "finally"
  <2>1. next \in Labels /\ "finally" \in Labels
    BY DEF Labels
  <2>2. held[s] \in Flights
    BY <1>held
  <2>3. /\ pc' \in [Sessions -> Labels]
         /\ inFlight' \in Flights
         /\ held' \in [Sessions -> Flights]
         /\ tmp' \subseteq Sessions \cup {NoSession}
         /\ faults' \in 0 .. MaxFaults
    BY <1>12, <2>1, <2>2, WriteType DEF RecordDispatcher
  <2>4. UNCHANGED <<lock, processed, quarantined, target, job, verdict, code, cycle, suppressed, execution, relay>>
    BY <1>12 DEF RecordDispatcher, files, local, execution, relay
  <2> QED BY <2>1, <2>2, <2>3, <2>4 DEF TypeOK, execution, relay
<1>13. ASSUME Reject(s) PROVE TypeOK'
  <2>1. "append" \in Labels /\ "finally" \in Labels
    BY DEF Labels
  <2>2. [held[s] EXCEPT !.stage = "REJECTED"] \in Flights
    BY <1>held DEF Flights, Stages
  <2>3. /\ pc' \in [Sessions -> Labels]
         /\ inFlight' \in Flights
         /\ held' \in [Sessions -> Flights]
         /\ tmp' \subseteq Sessions \cup {NoSession}
         /\ faults' \in 0 .. MaxFaults
    BY <1>13, <2>1, <2>2, WriteType DEF Reject
  <2>4. verdict' \in [Sessions -> Outcomes \cup {"none", "torn"}]
    BY <1>13, <1>verdict DEF Reject, Outcomes
  <2>5. UNCHANGED <<lock, processed, quarantined, target, job, code, cycle, suppressed, execution, relay>>
    BY <1>13 DEF Reject, files, local, execution, relay
  <2> QED BY <2>1, <2>2, <2>3, <2>4, <2>5 DEF TypeOK, execution, relay
<1>14. ASSUME Cleanup(s) PROVE TypeOK'
  <2>1. "finally" \in Labels
    BY DEF Labels
  <2>2. /\ pc' \in [Sessions -> Labels]
         /\ inFlight' \in Flights
         /\ held' \in [Sessions -> Flights]
         /\ faults' \in 0 .. MaxFaults
    BY <1>14, <2>1, RemoveType DEF Cleanup
  <2>3. UNCHANGED <<lock, processed, quarantined, tmp, target, job, verdict, code, cycle, suppressed, execution, relay>>
    BY <1>14 DEF Cleanup, files, local, execution, relay
  <2> QED BY <2>1, <2>2, <2>3 DEF TypeOK, execution, relay
<1>15. ASSUME Confirm(s) PROVE TypeOK'
  <2>1. pc' \in [Sessions -> Labels]
    BY <1>15, <1>pc DEF Confirm, Step, Goto, Labels
  <2>2. verdict' \in [Sessions -> Outcomes \cup {"none", "torn"}]
    BY <1>15, <1>verdict DEF Confirm, VerdictOf, Outcomes
  <2>3. faults' \in 0 .. MaxFaults
    BY <1>15, <1>faults DEF Confirm, Fault, NoFault, FailsUnless
  <2>4. UNCHANGED <<files, target, held, job, code, cycle, suppressed, execution, relay>>
    BY <1>15 DEF Confirm, files, local, execution, relay
  <2> QED BY <2>1, <2>2, <2>3, <2>4 DEF TypeOK, files, execution, relay
<1>16. ASSUME AppendSettled(s) PROVE TypeOK'
  <2>1. "mark" \in Labels /\ "finally" \in Labels
    BY DEF Labels
  <2>2. job[s] \in Requests \cup {NoRequest} /\ verdict[s] \in Outcomes \cup {"none", "torn"}
    BY <1>job, <1>verdict DEF Flights
  <2>3. /\ pc' \in [Sessions -> Labels]
         /\ processed' \in Seq(Lines)
         /\ faults' \in 0 .. MaxFaults
    BY <1>16, <2>1, <2>2, AppendType DEF AppendSettled
  <2>4. UNCHANGED <<lock, inFlight, quarantined, tmp, local, execution, relay>>
    BY <1>16 DEF AppendSettled, files, local, execution, relay
  <2> QED BY <2>1, <2>2, <2>3, <2>4 DEF TypeOK, local, execution, relay
<1>17. ASSUME Mark(s) PROVE TypeOK'
  <2>1. "remove" \in Labels /\ "finally" \in Labels
    BY DEF Labels
  <2>2. [held[s] EXCEPT !.stage = "PROCESSED"] \in Flights
    BY <1>held DEF Flights, Stages
  <2>3. /\ pc' \in [Sessions -> Labels]
         /\ inFlight' \in Flights
         /\ held' \in [Sessions -> Flights]
         /\ tmp' \subseteq Sessions \cup {NoSession}
         /\ faults' \in 0 .. MaxFaults
    BY <1>17, <2>1, <2>2, WriteType DEF Mark
  <2>4. UNCHANGED <<lock, processed, quarantined, target, job, verdict, code, cycle, suppressed, execution, relay>>
    BY <1>17 DEF Mark, files, local, execution, relay
  <2> QED BY <2>1, <2>2, <2>3, <2>4 DEF TypeOK, execution, relay
<1>18. ASSUME Remove(s) PROVE TypeOK'
  <2>1. AfterSettlement(s) \in Labels /\ "finally" \in Labels
    BY DEF Labels, AfterSettlement
  <2>2. /\ pc' \in [Sessions -> Labels]
         /\ inFlight' \in Flights
         /\ held' \in [Sessions -> Flights]
         /\ faults' \in 0 .. MaxFaults
    BY <1>18, <2>1, RemoveType DEF Remove
  <2>3. UNCHANGED <<lock, processed, quarantined, tmp, target, job, verdict, code, cycle, suppressed, execution, relay>>
    BY <1>18 DEF Remove, files, local, execution, relay
  <2> QED BY <2>1, <2>2, <2>3 DEF TypeOK, execution, relay
<1>19. ASSUME Finally(s) PROVE TypeOK'
  <2>1. pc' \in [Sessions -> Labels]
    BY <1>19, <1>pc DEF Finally, Step, Goto, Labels
  <2>2. UNCHANGED <<files, local, execution, relay, faults>>
    BY <1>19 DEF Finally, files, local, execution, relay
  <2> QED BY <2>1, <2>2 DEF TypeOK, files, local, execution, relay
<1>20. ASSUME RefuseRequest(s) PROVE TypeOK'
  <2>1. pc' \in [Sessions -> Labels]
    BY <1>20, <1>pc DEF RefuseRequest, Step, Goto, Labels
  <2>2. UNCHANGED <<files, local, execution, relay, faults>>
    BY <1>20 DEF RefuseRequest, files, local, execution, relay
  <2> QED BY <2>1, <2>2 DEF TypeOK, files, local, execution, relay
<1>21. ASSUME ReleaseLock(s) PROVE TypeOK'
  <2>1. pc' \in [Sessions -> Labels]
    BY <1>21, <1>pc DEF ReleaseLock, Step, Goto, Labels
  <2>2. lock' \in Locks
    BY <1>21, <1>lock DEF ReleaseLock, Locks, NoLock
  <2>3. faults' \in 0 .. MaxFaults
    BY <1>21, <1>faults DEF ReleaseLock, Fault, NoFault, FailsUnless
  <2>4. UNCHANGED <<inFlight, processed, quarantined, tmp, local, execution, relay>>
    BY <1>21 DEF ReleaseLock, files, local, execution, relay
  <2> QED BY <2>1, <2>2, <2>3, <2>4 DEF TypeOK, local, execution, relay
<1> QED
  BY <1>1, <1>2, <1>3, <1>4, <1>5, <1>6, <1>7, <1>8, <1>9, <1>10, <1>11, <1>12, <1>13, <1>14, <1>15, <1>16, <1>17, <1>18, <1>19, <1>20, <1>21

LEMMA ExecutionType ==
  ASSUME TypeOK, NEW s \in Sessions,
         Crash(s) \/ Admit(s) \/ RunnerReturns(s) \/ PostResult(s)
         \/ KillDispatcher(s) \/ OrphanEnds(s)
  PROVE  TypeOK'
<1>tmp. tmp \subseteq Sessions \cup {NoSession}  BY DEF TypeOK
<1>pc. pc \in [Sessions -> Labels]  BY DEF TypeOK
<1>held. held \in [Sessions -> Flights]  BY DEF TypeOK
<1>chain. chain \in [Sessions -> Chains]  BY DEF TypeOK
<1>runs. runs \in [Requests -> Nat]  BY DEF TypeOK
<1>faults. faults \in 0 .. MaxFaults  BY DEF TypeOK
<1>1. ASSUME Crash(s) PROVE TypeOK'
  <2>1. pc' \in [Sessions -> Labels]
    BY <1>1, <1>pc DEF Crash, Goto, Labels
  <2>2. tmp' \subseteq Sessions \cup {NoSession}
    BY <1>1, <1>tmp, <1>held DEF Crash, Flights
  <2>3. faults' \in 0 .. MaxFaults
    BY <1>1, <1>faults DEF Crash, Fault, NoFault, FailsUnless
  <2>4. UNCHANGED <<lock, inFlight, processed, quarantined, local, execution, relay>>
    BY <1>1 DEF Crash, files, local, execution, relay
  <2> QED BY <2>1, <2>2, <2>3, <2>4 DEF TypeOK, local, execution, relay
<1>2. ASSUME Admit(s) PROVE TypeOK'
  <2>1. chain' \in [Sessions -> Chains]
    BY <1>2, <1>chain DEF Admit, Ended, Chains, Codes
  <2>2. runs' \in [Requests -> Nat]
    BY <1>2, <1>runs, <1>chain DEF Admit, Chains
  <2>3. UNCHANGED <<files, local, relay, pc, faults>>
    BY <1>2 DEF Admit, files, local, execution, relay
  <2> QED BY <2>1, <2>2, <2>3 DEF TypeOK, files, local, relay
<1>3. ASSUME RunnerReturns(s) PROVE TypeOK'
  <2>1. chain' \in [Sessions -> Chains]
    BY <1>3, <1>chain DEF RunnerReturns, Chains
  <2>2. UNCHANGED <<files, local, runs, relay, pc, faults>>
    BY <1>3 DEF RunnerReturns, files, local, execution, relay
  <2> QED BY <2>1, <2>2 DEF TypeOK, files, local, relay
<1>4. ASSUME PostResult(s) PROVE TypeOK'
  <2>1. chain' \in [Sessions -> Chains]
    BY <1>4, <1>chain DEF PostResult, Ended, Chains, Codes
  <2>2. faults' \in 0 .. MaxFaults
    BY <1>4, <1>faults DEF PostResult, Fault, NoFault, FailsUnless
  <2>3. UNCHANGED <<files, local, runs, relay, pc>>
    BY <1>4 DEF PostResult, files, local, execution, relay
  <2> QED BY <2>1, <2>2, <2>3 DEF TypeOK, files, local, relay
<1>5. ASSUME KillDispatcher(s) PROVE TypeOK'
  <2>a. Killed(chain[s]) \in Chains
    BY <1>chain DEF Killed, Chains, Codes
  <2>1. chain' \in [Sessions -> Chains]
    BY <1>5, <1>chain, <2>a DEF KillDispatcher
  <2>2. faults' \in 0 .. MaxFaults
    BY <1>5, <1>faults DEF KillDispatcher, Fault, NoFault, FailsUnless
  <2>3. UNCHANGED <<files, local, runs, relay, pc>>
    BY <1>5 DEF KillDispatcher, files, local, execution, relay
  <2> QED BY <2>1, <2>2, <2>3 DEF TypeOK, files, local, relay
<1>6. ASSUME OrphanEnds(s) PROVE TypeOK'
  <2>1. chain' \in [Sessions -> Chains]
    BY <1>6, <1>chain DEF OrphanEnds, Chains
  <2>2. UNCHANGED <<files, local, runs, relay, pc, faults>>
    BY <1>6 DEF OrphanEnds, files, local, execution, relay
  <2> QED BY <2>1, <2>2 DEF TypeOK, files, local, relay
<1> QED
  BY <1>1, <1>2, <1>3, <1>4, <1>5, <1>6

LEMMA RelayType ==
  ASSUME TypeOK, NEW r \in Requests,
         Relay(r) \/ Expire(r) \/ ForeignComment(r)
  PROVE  TypeOK'
<1>relayed. relayed \subseteq Requests  BY DEF TypeOK
<1>expired. expired \subseteq Requests  BY DEF TypeOK
<1>faults. faults \in 0 .. MaxFaults  BY DEF TypeOK
<1>1. ASSUME Relay(r) PROVE TypeOK'
  <2>1. relayed' \subseteq Requests
    BY <1>1, <1>relayed DEF Relay
  <2>2. UNCHANGED <<files, local, execution, expired, pc, faults>>
    BY <1>1 DEF Relay, files, local, execution, relay
  <2> QED BY <2>1, <2>2 DEF TypeOK, files, local, execution
<1>2. ASSUME Expire(r) PROVE TypeOK'
  <2>1. expired' \subseteq Requests
    BY <1>2, <1>expired DEF Expire
  <2>2. UNCHANGED <<files, local, execution, relayed, pc, faults>>
    BY <1>2 DEF Expire, files, local, execution, relay
  <2> QED BY <2>1, <2>2 DEF TypeOK, files, local, execution
<1>3. ASSUME ForeignComment(r) PROVE TypeOK'
  <2>1. faults' \in 0 .. MaxFaults
    BY <1>3, <1>faults DEF ForeignComment, Fault, NoFault, FailsUnless
  <2>2. UNCHANGED <<files, local, execution, relay, pc>>
    BY <1>3 DEF ForeignComment, files, local, execution, relay
  <2> QED BY <2>1, <2>2 DEF TypeOK, files, local, execution, relay
<1> QED
  BY <1>1, <1>2, <1>3

(* TypeOK holds in every reachable state.                                  *)
THEOREM TypeCorrect == Spec => []TypeOK
<1>1. Init => TypeOK
  BY DEF Init, TypeOK, NoLock, Locks, NoFlight, Flights, Labels, Codes, Chains,
         Chain, NoChain
<1>2. TypeOK /\ [Next]_vars => TypeOK'
  <2> SUFFICES ASSUME TypeOK, [Next]_vars PROVE TypeOK'
    OBVIOUS
  <2>1. CASE UNCHANGED vars
    BY <2>1 DEF TypeOK, vars, files, local, execution, relay
  <2>2. ASSUME NEW s \in Sessions, Start(s) \/ StartUp(s) PROVE TypeOK'
    BY <2>2, StartUpType DEF StartUp
  <2>3. ASSUME NEW s \in Sessions, Loop(s) PROVE TypeOK'
    BY <2>3, LoopType DEF Loop
  <2>4. ASSUME NEW s \in Sessions, Dispatcher(s) \/ Hazard(s) PROVE TypeOK'
    BY <2>4, ExecutionType DEF Dispatcher, Hazard
  <2>5. ASSUME NEW r \in Requests, Relay(r) \/ Expire(r) \/ ForeignComment(r)
        PROVE  TypeOK'
    BY <2>5, RelayType
  <2> QED BY <2>1, <2>2, <2>3, <2>4, <2>5 DEF Next, Operator
<1> QED BY <1>1, <1>2, PTL DEF Spec

-----------------------------------------------------------------------------
(* The lock.                                                               *)

(* Most steps of a session leave the lock files alone and neither enter the*)
(* loop nor take up a lock to move aside; a session may always end.        *)
Quiet(s) ==
  /\ UNCHANGED <<lock, quarantined, target>>
  /\ \E label \in Labels :
       /\ pc' = [pc EXCEPT ![s] = label]
       /\ label \in Owning => pc[s] \in Owning
       /\ label \in Assessing => pc[s] \in Assessing
       /\ label \notin {"off", "rename", "writeLock"}
  /\ ~Dead(s)

LEMMA QuietKeepsLockInv ==
  ASSUME TypeOK, LockInv, NEW s \in Sessions, Quiet(s)
  PROVE  LockInv'
<1>1. PICK label \in Labels :
        /\ pc' = [pc EXCEPT ![s] = label]
        /\ label \in Owning => pc[s] \in Owning
        /\ label \in Assessing => pc[s] \in Assessing
        /\ label \notin {"off", "rename", "writeLock"}
  BY DEF Quiet
<1>2. pc \in [Sessions -> Labels] /\ ~Dead(s) /\ UNCHANGED <<lock, quarantined, target>>
  BY DEF TypeOK, Quiet
<1>3. \A t \in Sessions : Dead(t) => Dead(t)'
  BY <1>1, <1>2 DEF Dead
<1> QED
  BY <1>1, <1>2, <1>3 DEF LockInv

(* The steps of the loop are all quiet, except that the last one releases. *)
LEMMA LoopIsQuiet ==
  ASSUME TypeOK, NEW s \in Sessions, Loop(s), ~ReleaseLock(s)
  PROVE  Quiet(s)
<1> USE DEF Quiet, Step, Goto, Labels, Owning, Assessing, Dead, files, local
<1>1. CASE LeaveLoop(s)  BY <1>1 DEF LeaveLoop
<1>2. CASE PausedCycle(s)  BY <1>2 DEF PausedCycle
<1>3. CASE Poll(s)  BY <1>3 DEF Poll
<1>4. CASE RefuseProbe(s)  BY <1>4 DEF RefuseProbe
<1>5. CASE CheckProcessed(s)  BY <1>5 DEF CheckProcessed
<1>6. CASE Reconcile(s)  BY <1>6 DEF Reconcile
<1>7. CASE Settle(s)  BY <1>7 DEF Settle, AppendRecord, AfterSettlement
<1>8. CASE Prepare(s)  BY <1>8 DEF Prepare, WriteInFlight
<1>9. CASE Commit(s)  BY <1>9 DEF Commit, WriteInFlight
<1>10. CASE Spawn(s)  BY <1>10 DEF Spawn
<1>11. CASE Wait(s)  BY <1>11 DEF Wait
<1>12. CASE RecordDispatcher(s)  BY <1>12 DEF RecordDispatcher, WriteInFlight
<1>13. CASE Reject(s)  BY <1>13 DEF Reject, WriteInFlight
<1>14. CASE Cleanup(s)  BY <1>14 DEF Cleanup, RemoveInFlight
<1>15. CASE Confirm(s)  BY <1>15 DEF Confirm
<1>16. CASE AppendSettled(s)  BY <1>16 DEF AppendSettled, AppendRecord
<1>17. CASE Mark(s)  BY <1>17 DEF Mark, WriteInFlight
<1>18. CASE Remove(s)  BY <1>18 DEF Remove, RemoveInFlight, AfterSettlement
<1>19. CASE Finally(s)  BY <1>19 DEF Finally
<1>20. CASE RefuseRequest(s)  BY <1>20 DEF RefuseRequest
<1> QED
  BY <1>1, <1>2, <1>3, <1>4, <1>5, <1>6, <1>7, <1>8, <1>9, <1>10, <1>11, <1>12, <1>13,
     <1>14, <1>15, <1>16, <1>17, <1>18, <1>19, <1>20 DEF Loop

(* So are the first steps of a session, those of the recovery, and its end.*)
LEMMA StartUpIsQuiet ==
  ASSUME TypeOK, NEW s \in Sessions,
         \/ Start(s) \/ ReadState(s) \/ Recover(s) \/ RecReconcile(s) \/ RecAppend(s)
         \/ RecMark(s) \/ RecRemove(s) \/ Begin(s) \/ Crash(s)
  PROVE  Quiet(s)
<1> USE DEF Quiet, Step, Goto, Labels, Owning, Assessing, Dead, files, local
<1>1. CASE Start(s)  BY <1>1 DEF Start
<1>2. CASE ReadState(s)  BY <1>2 DEF ReadState
<1>3. CASE Recover(s)  BY <1>3 DEF Recover
<1>4. CASE RecReconcile(s)  BY <1>4 DEF RecReconcile
<1>5. CASE RecAppend(s)  BY <1>5 DEF RecAppend, AppendRecord
<1>6. CASE RecMark(s)  BY <1>6 DEF RecMark, WriteInFlight
<1>7. CASE RecRemove(s)  BY <1>7 DEF RecRemove, RemoveInFlight
<1>8. CASE Begin(s)  BY <1>8 DEF Begin
<1>9. CASE Crash(s)  BY <1>9 DEF Crash, Alive
<1> QED
  BY <1>1, <1>2, <1>3, <1>4, <1>5, <1>6, <1>7, <1>8, <1>9

(* The steps that assess, move, create, complete and remove the lock.      *)
LEMMA LockStep ==
  ASSUME TypeOK, LockInv, ~PosixRename, NEW s \in Sessions,
         \/ InspectLock(s) \/ CheckQuarantine(s) \/ RenameLock(s) \/ AcquireLock(s)
         \/ WriteLock(s) \/ ReleaseLock(s)
  PROVE  LockInv'
<1>0. /\ pc \in [Sessions -> Labels]
      /\ target \in [Sessions -> Sessions \cup {NoSession}]
      /\ lock \in Locks
  BY DEF TypeOK
<1>1. ASSUME InspectLock(s) PROVE LockInv'
  <2>1. UNCHANGED <<lock, quarantined>>
    BY <1>1 DEF InspectLock, files
  <2>2. PICK label \in {"acquire", "exited", "quarantine", "recover"} :
          /\ pc[s] = "inspect" /\ pc' = [pc EXCEPT ![s] = label]
          /\ \/ label \in {"acquire", "exited"} /\ target' = target
             \/ /\ lock # NoLock /\ Dead(lock.owner)
                /\ target' = [target EXCEPT ![s] = lock.owner]
    BY <1>1 DEF InspectLock, Step, Goto, QuarantineSafe
  <2>3. \A t \in Sessions : Dead(t) => Dead(t)'
    BY <1>0, <2>2 DEF Dead
  <2>4. lock # NoLock => lock.owner \in Sessions
    BY DEF LockInv
  <2> QED
    BY <1>0, <2>1, <2>2, <2>3, <2>4 DEF LockInv, Owning, Assessing
<1>2. ASSUME CheckQuarantine(s) PROVE LockInv'
  <2>1. /\ UNCHANGED <<lock, quarantined, target>>
        /\ pc[s] = "quarantine"
        /\ \/ pc' = [pc EXCEPT ![s] = "exited"]
           \/ /\ pc' = [pc EXCEPT ![s] = "rename"]
              /\ lock = Lock(target[s], "complete")
    BY <1>2 DEF CheckQuarantine, Step, Goto, files, local
  <2>2. \A t \in Sessions : Dead(t) => Dead(t)'
    BY <1>0, <2>1 DEF Dead
  <2> QED
    BY <1>0, <2>1, <2>2 DEF LockInv, Owning, Assessing
<1>3. ASSUME RenameLock(s) PROVE LockInv'
  <2>1. /\ pc[s] = "rename" /\ UNCHANGED target
        /\ pc' = [pc EXCEPT ![s] = "exited"] \/ pc' = [pc EXCEPT ![s] = "acquire"]
    BY <1>3 DEF RenameLock, Step, Goto, local
  <2>2. \A t \in Sessions : Dead(t) => Dead(t)'
    BY <1>0, <2>1 DEF Dead
  <2>3. CASE UNCHANGED <<lock, quarantined>>
    BY <1>0, <2>1, <2>2, <2>3 DEF LockInv, Owning, Assessing
  <2>4. CASE /\ target[s] \notin quarantined
             /\ quarantined' = quarantined \cup {target[s]}
             /\ lock' = NoLock
    <3>1. target[s] \in Sessions /\ Dead(target[s])
      BY <2>1 DEF LockInv, Assessing
    <3>2. lock = Lock(target[s], "complete")
      BY <2>1, <2>4 DEF LockInv
    <3>3. \A t \in Sessions : pc[t] \notin Owning /\ pc[t] # "writeLock"
      BY <3>1, <3>2 DEF LockInv, Lock, Dead, Owning
    <3>4. \A t \in Sessions : pc'[t] \notin Owning /\ pc'[t] # "writeLock"
      BY <1>0, <2>1, <3>3 DEF Owning
    <3>5. \A t \in Sessions : pc'[t] = "rename" => target'[t] \in quarantined'
      BY <1>0, <2>1, <2>4, <3>2 DEF LockInv, Lock
    <3>6. \A t \in Sessions : pc'[t] \in Assessing => pc[t] \in Assessing
      BY <1>0, <2>1 DEF Assessing
    <3> QED
      BY <2>1, <2>2, <2>4, <3>4, <3>5, <3>6 DEF LockInv
  <2> QED BY <1>3, <2>3, <2>4 DEF RenameLock
<1>4. ASSUME AcquireLock(s) PROVE LockInv'
  <2>1. /\ UNCHANGED <<quarantined, target>>
        /\ pc[s] = "acquire"
        /\ \/ pc' = [pc EXCEPT ![s] = "exited"] /\ UNCHANGED lock
           \/ /\ pc' = [pc EXCEPT ![s] = "writeLock"]
              /\ lock = NoLock /\ lock' = Lock(s, "empty")
    BY <1>4 DEF AcquireLock, Step, Goto, local
  <2>2. \A t \in Sessions : Dead(t) => Dead(t)'
    BY <1>0, <2>1 DEF Dead
  <2> QED
    BY <1>0, <2>1, <2>2 DEF LockInv, Owning, Assessing, Lock, NoLock
<1>5. ASSUME WriteLock(s) PROVE LockInv'
  <2>1. /\ UNCHANGED <<quarantined, target>>
        /\ pc[s] = "writeLock"
        /\ \/ pc' = [pc EXCEPT ![s] = "exited"] /\ UNCHANGED lock
           \/ /\ pc' = [pc EXCEPT ![s] = "begin"]
              /\ lock = Lock(s, "empty") /\ lock' = Lock(s, "complete")
    BY <1>5 DEF WriteLock, Step, Goto, local
  <2>2. \A t \in Sessions : Dead(t) => Dead(t)'
    BY <1>0, <2>1 DEF Dead
  <2> QED
    BY <1>0, <2>1, <2>2 DEF LockInv, Owning, Assessing, Lock, NoLock
<1>6. ASSUME ReleaseLock(s) PROVE LockInv'
  <2>1. /\ UNCHANGED <<quarantined, target>>
        /\ pc[s] = "release" /\ pc' = [pc EXCEPT ![s] = "exited"]
        /\ lock' \in {lock, NoLock}
    BY <1>6 DEF ReleaseLock, Step, Goto, local
  <2>2. \A t \in Sessions : Dead(t) => Dead(t)'
    BY <1>0, <2>1 DEF Dead
  <2>3. lock = Lock(s, "complete")
    BY <2>1 DEF LockInv, Owning
  <2>4. \A t \in Sessions : pc[t] = "rename" => target[t] \in quarantined
    BY <2>1, <2>3 DEF LockInv, Assessing, Lock, Dead
  <2>5. \A t \in Sessions : t # s => pc[t] \notin Owning /\ pc[t] # "writeLock"
    BY <2>3 DEF LockInv, Lock
  <2>6. \A t \in Sessions : pc'[t] \notin Owning /\ pc'[t] # "writeLock"
    BY <1>0, <2>1, <2>5 DEF Owning
  <2>7. \A t \in Sessions : pc'[t] \in Assessing => pc[t] = pc'[t]
    BY <1>0, <2>1 DEF Assessing
  <2>8. lock' # NoLock => lock'.owner \in Sessions
    BY <2>1 DEF LockInv
  <2> QED
    BY <2>1, <2>2, <2>4, <2>6, <2>7, <2>8 DEF LockInv, Assessing
<1> QED BY <1>1, <1>2, <1>3, <1>4, <1>5, <1>6

(* Everything that is not a step of a session.                             *)
LEMMA OutsideKeepsLockInv ==
  ASSUME LockInv,
         \/ UNCHANGED vars
         \/ \E s \in Sessions : Dispatcher(s) \/ KillDispatcher(s)
         \/ \E r \in Requests : Relay(r) \/ Expire(r) \/ ForeignComment(r)
  PROVE  LockInv'
<1>1. UNCHANGED <<lock, quarantined, target, pc>>
  BY DEF vars, files, local, Dispatcher, Admit, RunnerReturns, PostResult, OrphanEnds,
         KillDispatcher, Relay, Expire, ForeignComment
<1> QED BY <1>1 DEF LockInv, Dead

(* LockInv is inductive, together with TypeOK.                             *)
THEOREM LockInvariant == ASSUME ~PosixRename PROVE Spec => []LockInv
<1>1. Init => LockInv
  BY DEF Init, LockInv, NoLock, Owning, Assessing
<1>2. TypeOK /\ LockInv /\ [Next]_vars => LockInv'
  <2> SUFFICES ASSUME TypeOK, LockInv, [Next]_vars PROVE LockInv'
    OBVIOUS
  <2>1. ASSUME NEW s \in Sessions, Start(s) \/ StartUp(s) \/ Loop(s) \/ Crash(s)
        PROVE  LockInv'
    BY <2>1, LockStep, LoopIsQuiet, StartUpIsQuiet, QuietKeepsLockInv DEF StartUp
  <2> QED
    BY <2>1, OutsideKeepsLockInv DEF Next, Operator, Hazard
<1> QED BY <1>1, <1>2, TypeCorrect, PTL DEF Spec

(* The loop is never run by two sessions at once, however many there are,  *)
(* on a file system where a rename does not replace a file.                *)
THEOREM LockIsExclusive == ASSUME ~PosixRename PROVE Spec => []MutualExclusion
<1>1. LockInv => MutualExclusion
  BY DEF LockInv, MutualExclusion, Lock
<1> QED BY <1>1, LockInvariant, PTL

-----------------------------------------------------------------------------
(* One operator after another: what holds as long as one operator process  *)
(* at a time is alive (MaxAlive = 1).  The runner starts at most once for a*)
(* request, every record is true and written once, and the files go through*)
(* the durable ordering states DurableOrdering promises.  With two live    *)
(* operators the first of these is false: the run redispatch shows it.     *)

(* The inductive invariant.                                                *)

(* A dispatcher, or the runner it left behind, that is not done yet.       *)
AtWork(s) == chain[s].phase \in {"admit", "run", "post", "orphan"}

(* What the threads consist of: results of a dispatcher, and what strangers*)
(* post.                                                                   *)
Comments ==
  {ResultComment(id, author, R!ResultBody, r, result) :
     id \in Sessions \cup {NoSession}, author \in {"owner", "stranger"},
     r \in Requests, result \in {"success", "failure"}}

(* A verdict about a request that a record may state.                      *)
Backed(r, outcome) ==
  /\ outcome \in Outcomes
  /\ outcome = "success" => \E c \in TrustedResults(r) : c.result = "success"
  /\ outcome = "non_success" => \E c \in TrustedResults(r) : c.result = "failure"
  /\ outcome = "rejected" => runs[r] = 0 /\ TrustedResults(r) = {}

(* Where sessions are while ...                                            *)
Recovering == {"recover", "recReconcile", "recAppend", "recMark", "recRemove"}
Idle ==       \* ... no request is in flight,
  {"quarantine", "rename", "acquire", "writeLock", "begin", "loop", "delegate",
   "reconcile", "settle", "prepare", "release"}
Dispatching ==   \* ... their own dispatch is,
  {"spawn", "wait", "identify", "reject", "cleanup", "confirm"}
Deciding ==   \* ... and what they decide about is not recorded.
  {"reconcile", "settle", "prepare", "commit", "append"} \cup Dispatching

OneAlive == \A s, t \in Sessions : Alive(s) /\ Alive(t) => s = t

(* The files as the live session left or found them.                       *)
HoldsFiles(s) ==
  /\ pc[s] \in Recovering \cup {"inspect"} => held[s] = inFlight
  /\ pc[s] \in Recovering => inFlight # NoFlight /\ target[s] = inFlight.owner
  /\ pc[s] \in Recovering \cup {"quarantine", "rename"} =>
       target[s] \in Sessions /\ lock = Lock(target[s], "complete")
  /\ pc[s] \in Idle => inFlight = NoFlight
  /\ pc[s] = "acquire" => lock = NoLock
  /\ pc[s] = "writeLock" => lock = Lock(s, "empty")
  /\ pc[s] \in Owning => lock = Lock(s, "complete")
  /\ pc[s] = "commit" =>
       held[s] = inFlight /\ inFlight = Flight(s, job[s], "PREPARED")
  /\ pc[s] \in Dispatching =>
       held[s] = inFlight /\ inFlight = Flight(s, job[s], "DISPATCHED")
  /\ pc[s] \in {"append", "mark"} =>
       held[s] = inFlight /\ \E stage \in {"DISPATCHED", "REJECTED"} :
                               inFlight = Flight(s, job[s], stage)
  /\ pc[s] = "remove" =>
       held[s] = inFlight /\ inFlight = Flight(s, job[s], "PROCESSED")

(* What the live session knows of the request it works on.                 *)
KnowsRequest(s) ==
  /\ pc[s] \in Deciding \cup {"delegate", "mark", "remove"} => job[s] \in Requests
  /\ pc[s] \in Deciding => ~Recorded(job[s])
  /\ pc[s] \in {"mark", "remove"} => Recorded(job[s])
  /\ pc[s] \in {"recReconcile", "recAppend"} => ~Recorded(held[s].req)
  /\ pc[s] \in {"recMark", "recRemove"} => Recorded(held[s].req)
  /\ pc[s] = "recReconcile" => held[s].stage = "DISPATCHED"
  /\ pc[s] = "recAppend" =>
       /\ Backed(held[s].req, verdict[s])
       /\ held[s].stage = IF verdict[s] = "rejected" THEN "REJECTED" ELSE "DISPATCHED"
  /\ pc[s] \in {"settle", "append"} => Backed(job[s], verdict[s])
  /\ pc[s] \in {"prepare", "commit", "spawn", "reject"} =>
       runs[job[s]] = 0 /\ TrustedResults(job[s]) = {}
  /\ pc[s] \in {"reject", "cleanup"} => ~AtWork(s) /\ runs[job[s]] = 0
  /\ pc[s] = "append" => ~AtWork(s)
  /\ pc[s] \in {"wait", "identify"} =>
       /\ chain[s].req = job[s]
       /\ chain[s].code = "rejected" => runs[job[s]] = 0 /\ TrustedResults(job[s]) = {}
       /\ chain[s].code = "failed_before_runner" => runs[job[s]] = 0
  /\ pc[s] = "identify" =>
       code[s] = "timeout" \/ (code[s] = chain[s].code /\ ~ChainVisible(s))

(* The in_flight record.                                                   *)
FlightInv ==
  inFlight # NoFlight =>
    LET r == inFlight.req
    IN /\ inFlight.owner \in Sessions /\ r \in Requests /\ inFlight.stage \in Stages
       /\ lock = Lock(inFlight.owner, "complete")
       /\ inFlight.stage = "PREPARED" => runs[r] = 0 /\ ~Recorded(r)
       /\ inFlight.stage = "REJECTED" => runs[r] = 0 /\ TrustedResults(r) = {}
       /\ inFlight.stage = "PROCESSED" => Recorded(r)

(* Nothing works on a request but under its DISPATCHED record, and only    *)
(* while it has no result.                                                 *)
WorksOn(s, r) ==
  /\ r \in Requests /\ inFlight = Flight(s, r, "DISPATCHED")
  /\ ~Recorded(r) /\ TrustedResults(r) = {}
  /\ pc[s] \in {"wait", "identify", "finally", "exited", "crashed"}
  /\ chain[s].code \in {"none", "other"}
  /\ chain[s].phase = "admit" => runs[r] = 0
  /\ chain[s].phase = "post" => chain[s].result \in {"success", "failure"}
WorkInv == \A s \in Sessions : AtWork(s) => WorksOn(s, chain[s].req)

RunsInv ==
  \A r \in Requests :
    /\ runs[r] <= 1
    /\ r \in HealthProbes => runs[r] = 0
    /\ runs[r] > 0 => Recorded(r) \/ (inFlight.req = r /\ inFlight.stage = "DISPATCHED")

RecordInv ==
  /\ \A i \in DOMAIN processed :
       \/ processed[i] = TornRecord
       \/ processed[i].req \in Requests /\ Backed(processed[i].req, processed[i].outcome)
  /\ RecordedOnce

SharedInv ==
  /\ OneAlive
  /\ lock # NoLock => lock.owner \in Sessions
  /\ thread \subseteq Comments
  /\ FlightInv /\ WorkInv /\ RunsInv /\ RecordInv
OperatorInv ==
  /\ SharedInv
  /\ \A s \in Sessions : HoldsFiles(s) /\ KnowsRequest(s)
-----------------------------------------------------------------------------
(* What an operator of the model reads.                                    *)

LEMMA Frame ==
  /\ UNCHANGED processed => \A r : Recorded(r)' <=> Recorded(r)
  /\ UNCHANGED thread => \A r : TrustedResults(r)' = TrustedResults(r)
  /\ UNCHANGED <<thread, runs>> => \A r, outcome : Backed(r, outcome)' <=> Backed(r, outcome)
  /\ UNCHANGED chain => \A s : /\ AtWork(s)' <=> AtWork(s)
                               /\ ChainVisible(s)' <=> ChainVisible(s)
BY DEF Recorded, RecordsOf, TrustedResults, Backed, AtWork, ChainVisible

LEMMA FlightFields ==
  /\ NoFlight.owner = NoSession /\ NoFlight.req = NoRequest /\ NoFlight.stage = "NONE"
  /\ \A s, r, stage : /\ Flight(s, r, stage).owner = s /\ Flight(s, r, stage).req = r
                      /\ Flight(s, r, stage).stage = stage
BY DEF Flight, NoFlight

(* A visible dispatcher is at work.                                        *)
LEMMA VisibleWorks == \A s : ChainVisible(s) => AtWork(s)
BY DEF ChainVisible, AtWork

(* A step of the live session leaves every other session where it was, at  *)
(* a place about which the invariant says nothing.                         *)
LEMMA Others ==
  ASSUME TypeOK, OneAlive, NEW s \in Sessions, Alive(s),
         NEW label \in Labels \ {"off"}, pc' = [pc EXCEPT ![s] = label]
  PROVE  /\ OneAlive'
         /\ pc'[s] = label
         /\ \A t \in Sessions : t # s => pc'[t] = pc[t] /\ pc[t] \in {"off", "exited", "crashed"}
         /\ \A t \in Sessions : t # s => HoldsFiles(t)' /\ KnowsRequest(t)'
<1>1. pc \in [Sessions -> Labels]
  BY DEF TypeOK
<1>2. \A t \in Sessions : t # s => pc'[t] = pc[t] /\ pc[t] \in {"off", "exited", "crashed"}
  BY <1>1 DEF OneAlive, Alive, Dead
<1>3. OneAlive'
  BY <1>1, <1>2 DEF OneAlive, Alive, Dead
<1>4. ASSUME NEW t \in Sessions, t # s PROVE HoldsFiles(t)' /\ KnowsRequest(t)'
  <2>1. pc'[t] \in {"off", "exited", "crashed"}
    BY <1>2, <1>4
  <2> QED
    BY <2>1 DEF HoldsFiles, KnowsRequest, Recovering, Idle, Dispatching, Deciding, Owning
<1> QED BY <1>1, <1>2, <1>3, <1>4

(* A step that changes nothing shared but where the session is.            *)
LocalStep(s, label) ==
  /\ pc' = [pc EXCEPT ![s] = label]
  /\ UNCHANGED <<lock, inFlight, processed, chain, runs, thread>>

LEMMA LocalKeeps ==
  ASSUME TypeOK, OperatorInv, NEW s \in Sessions, Alive(s),
         NEW label \in Labels \ {"off"}, LocalStep(s, label),
         pc[s] \in {"wait", "identify", "finally"} =>
           label \in {"identify", "finally", "exited", "crashed"} \/ ~AtWork(s),
         HoldsFiles(s)', KnowsRequest(s)'
  PROVE  OperatorInv'
<1>1. /\ pc' = [pc EXCEPT ![s] = label]
      /\ UNCHANGED <<lock, inFlight, processed, chain, runs, thread>>
  BY DEF LocalStep
<1>2. SharedInv /\ OneAlive
  BY DEF OperatorInv, SharedInv
<1>3. /\ OneAlive'
      /\ pc'[s] = label
      /\ \A t \in Sessions : t # s => pc'[t] = pc[t]
      /\ \A t \in Sessions : t # s => HoldsFiles(t)' /\ KnowsRequest(t)'
  BY <1>1, <1>2, Others
<1>4. (lock # NoLock => lock.owner \in Sessions)' /\ (thread \subseteq Comments)'
  BY <1>1, <1>2 DEF SharedInv, Comments
<1>5. FlightInv'
  BY <1>1, <1>2, Frame DEF SharedInv, FlightInv
<1>6. WorkInv'
  <2> SUFFICES ASSUME NEW t \in Sessions, AtWork(t)' PROVE WorksOn(t, chain[t].req)'
    BY DEF WorkInv
  <2>1. AtWork(t) /\ WorksOn(t, chain[t].req)
    BY <1>1, <1>2, Frame DEF SharedInv, WorkInv
  <2>2. pc'[t] \in {"wait", "identify", "finally", "exited", "crashed"}
    BY <1>3, <2>1 DEF WorksOn, Alive, Dead
  <2> QED BY <1>1, <2>1, <2>2, Frame DEF WorksOn
<1>7. RunsInv'
  BY <1>1, <1>2, Frame DEF SharedInv, RunsInv
<1>8. RecordInv'
  BY <1>1, <1>2, Frame DEF SharedInv, RecordInv, RecordedOnce, RecordsOf
<1> QED
  BY <1>3, <1>4, <1>5, <1>6, <1>7, <1>8 DEF OperatorInv, SharedInv

(* What a local step of a session that is not waiting for a dispatcher has *)
(* to show.                                                                *)
LocalMove(s) ==
  \E label \in Labels \ {"off"} :
    LocalStep(s, label) /\ HoldsFiles(s)' /\ KnowsRequest(s)'
-----------------------------------------------------------------------------
(* What the resolver's decision says about a thread of dispatcher results  *)
(* and strangers' comments.                                                *)
LEMMA EvidenceMeans ==
  ASSUME thread \subseteq Comments, NEW r \in Requests
  PROVE  /\ Evidence(r) = R!NotFound => TrustedResults(r) = {}
         /\ Evidence(r) \in R!Settling =>
              /\ Backed(r, VerdictOf(Evidence(r)))
              /\ VerdictOf(Evidence(r)) # "rejected"
              /\ TrustedResults(r) # {}
<1> DEFINE request == [id |-> r, identity |-> Identity]
           found == R!SameRequest(request, thread)
           checks == R!CandidateChecks(request, found, {"owner"})
<1>1. \A c \in thread : /\ c.body = R!ResultBody /\ c.request \in Requests
                        /\ c.result \in {"success", "failure"}
  BY DEF Comments, ResultComment
<1>2. found = {c \in thread : c.request = r}
  BY <1>1 DEF R!SameRequest, R!OfKind, R!Kind, R!KindOfPayload, R!ResultBody
<1>3. /\ Evidence(r) = R!NotFound => found = {}
      /\ Evidence(r) \in R!Settling =>
           /\ found # {} /\ ~R!Fails(checks)
           /\ Evidence(r) = IF \A c \in found : c.result \in R!NonSuccessResults
                            THEN R!SettledNonSuccess ELSE R!Completed
  BY DEF Evidence, R!Resolve, R!ResolveCandidates, R!Block, R!Outcome, R!NotFound,
         R!Settling, R!Blocked, R!Error, R!Completed, R!SettledNonSuccess
<1>4. DOMAIN checks = 1 .. 9
  BY DEF R!CandidateChecks
<1>5. /\ R!Objects(checks[1]) <=> \E c \in found : c.author # "owner"
      /\ R!Objects(checks[9]) <=> \E c, d \in found : c # d
  <2> HIDE DEF found
  <2> QED BY DEF R!CandidateChecks, R!Objects
<1>6. ~R!Fails(checks) => /\ \A c \in found : c.author = "owner"
                          /\ \A c, d \in found : c = d
  <2> HIDE DEF checks
  <2> QED BY <1>4, <1>5 DEF R!Fails
<1>7. TrustedResults(r) \subseteq found
  BY <1>2 DEF TrustedResults
<1>8. ASSUME Evidence(r) \in R!Settling
      PROVE  /\ Backed(r, VerdictOf(Evidence(r)))
             /\ VerdictOf(Evidence(r)) # "rejected"
             /\ TrustedResults(r) # {}
  <2>1. PICK c \in found : c \in TrustedResults(r)
    BY <1>2, <1>3, <1>8, <1>6 DEF TrustedResults
  <2>2. c.result \in {"success", "failure"}
    BY <1>1, <1>2, <2>1
  <2>3. Evidence(r) = IF c.result = "failure" THEN R!SettledNonSuccess ELSE R!Completed
    BY <1>3, <1>8, <1>6, <2>1, <2>2 DEF R!NonSuccessResults
  <2> QED
    BY <2>1, <2>2, <2>3 DEF Backed, VerdictOf, Outcomes, R!Completed, R!SettledNonSuccess
<1> QED BY <1>3, <1>7, <1>8
-----------------------------------------------------------------------------
(* The steps that change nothing but what the session itself remembers.    *)

(* Only when nobody is alive may a session start.                          *)
LEMMA NobodyAlive ==
  ASSUME MaxAlive <= 1, OneAlive, NEW s \in Sessions, Cardinality(LiveSessions) < MaxAlive
  PROVE  \A t \in Sessions : ~Alive(t)
<1> SUFFICES ASSUME NEW t \in Sessions, Alive(t) PROVE FALSE
  OBVIOUS
<1>1. LiveSessions = {t}
  BY DEF LiveSessions, OneAlive
<1>2. Cardinality(LiveSessions) = 1
  BY <1>1, FS_Singleton
<1> QED BY <1>2

LEMMA StartKeeps ==
  ASSUME TypeOK, OperatorInv, MaxAlive <= 1, NEW s \in Sessions, Start(s)
  PROVE  OperatorInv'
<1>1. /\ pc[s] = "off" /\ pc' = [pc EXCEPT ![s] = "startup"]
      /\ UNCHANGED <<lock, inFlight, processed, chain, runs, thread>>
      /\ UNCHANGED <<files, local, execution, thread>>
      /\ Cardinality(LiveSessions) < MaxAlive
  BY DEF Start, Step, Goto, files, local, execution
<1>2. SharedInv /\ OneAlive /\ pc \in [Sessions -> Labels]
  BY DEF OperatorInv, SharedInv, TypeOK
<1>3. \A t \in Sessions : ~Alive(t)
  BY <1>1, <1>2, NobodyAlive
<1>4. OneAlive'
  BY <1>1, <1>2, <1>3 DEF OneAlive, Alive, Dead
<1>5. ASSUME NEW t \in Sessions PROVE HoldsFiles(t)' /\ KnowsRequest(t)'
  <2>1. pc'[t] \in {"off", "startup", "exited", "crashed"}
    BY <1>1, <1>2, <1>3 DEF Alive, Dead
  <2> QED
    BY <2>1 DEF HoldsFiles, KnowsRequest, Recovering, Idle, Dispatching, Deciding, Owning
<1>6. (lock # NoLock => lock.owner \in Sessions)' /\ (thread \subseteq Comments)'
  BY <1>1, <1>2 DEF SharedInv, Comments
<1>7. FlightInv'
  BY <1>1, <1>2, Frame DEF SharedInv, FlightInv
<1>8. WorkInv'
  BY <1>1, <1>2, Frame DEF SharedInv, WorkInv, WorksOn
<1>9. RunsInv' /\ RecordInv'
  BY <1>1, <1>2, Frame DEF SharedInv, RunsInv, RecordInv, RecordedOnce, RecordsOf
<1> QED
  BY <1>4, <1>5, <1>6, <1>7, <1>8, <1>9 DEF OperatorInv, SharedInv

LEMMA StartUpKeeps ==
  ASSUME TypeOK, OperatorInv, NEW s \in Sessions,
         \/ ReadState(s) \/ InspectLock(s) \/ Recover(s) \/ RecReconcile(s)
         \/ CheckQuarantine(s) \/ Begin(s)
  PROVE  OperatorInv'
<1> USE DEF LocalStep, Step, Goto, files, execution
<1>1. /\ pc \in [Sessions -> Labels] /\ held \in [Sessions -> Flights]
      /\ target \in [Sessions -> Sessions \cup {NoSession}]
      /\ verdict \in [Sessions -> Outcomes \cup {"none", "torn"}]
      /\ inFlight \in Flights /\ lock \in Locks
  BY DEF TypeOK
<1>2. /\ HoldsFiles(s) /\ KnowsRequest(s) /\ FlightInv /\ thread \subseteq Comments
      /\ lock # NoLock => lock.owner \in Sessions
  BY DEF OperatorInv, SharedInv
<1>3. pc[s] \in {"startup", "inspect", "recover", "recReconcile", "quarantine", "begin"}
  BY DEF ReadState, InspectLock, Recover, RecReconcile, CheckQuarantine, Begin
<1>4. Alive(s)
  BY <1>3 DEF Alive, Dead
<1>5. SUFFICES LocalMove(s)
  BY <1>3, <1>4, LocalKeeps DEF LocalMove
<1>6. ASSUME ReadState(s) PROVE LocalMove(s)
  <2>1. PICK label \in {"exited", "inspect"} :
          LocalStep(s, label) /\ (label = "inspect" => held' = [held EXCEPT ![s] = inFlight])
    BY <1>6 DEF ReadState
  <2>2. HoldsFiles(s)'
    BY <1>1, <2>1 DEF HoldsFiles, Recovering, Idle, Dispatching, Owning
  <2>3. KnowsRequest(s)'
    BY <1>1, <2>1 DEF KnowsRequest, Deciding, Dispatching
  <2> QED BY <2>1, <2>2, <2>3 DEF LocalMove, Labels
<1>7. ASSUME InspectLock(s) PROVE LocalMove(s)
  <2>1. UNCHANGED held /\ held[s] = inFlight
    BY <1>2, <1>7 DEF InspectLock, HoldsFiles
  <2>2. PICK label \in {"acquire", "exited", "quarantine", "recover"} :
          /\ LocalStep(s, label)
          /\ label = "acquire" => lock = NoLock /\ inFlight = NoFlight
          /\ label = "quarantine" => inFlight = NoFlight
          /\ label = "recover" => inFlight # NoFlight
          /\ label \in {"quarantine", "recover"} =>
               /\ lock # NoLock /\ lock.content = "complete"
               /\ target' = [target EXCEPT ![s] = lock.owner]
    BY <1>7, <2>1 DEF InspectLock
  <2>3. label \in {"quarantine", "recover"} =>
          target'[s] = lock.owner /\ lock = Lock(target'[s], "complete")
    BY <1>1, <2>2 DEF Locks, Lock
  <2>4. label = "recover" => target'[s] = inFlight.owner
    BY <1>2, <2>2, <2>3 DEF FlightInv, Lock
  <2>5. HoldsFiles(s)'
    BY <1>1, <1>2, <2>1, <2>2, <2>3, <2>4
       DEF HoldsFiles, Recovering, Idle, Dispatching, Owning
  <2>6. KnowsRequest(s)'
    BY <1>1, <2>2 DEF KnowsRequest, Deciding, Dispatching
  <2> QED BY <2>2, <2>5, <2>6 DEF LocalMove, Labels
<1>8. ASSUME Recover(s) PROVE LocalMove(s)
  <2>1. UNCHANGED <<held, target>> /\ held[s] = inFlight /\ inFlight # NoFlight
    BY <1>2, <1>8 DEF Recover, HoldsFiles, Recovering
  <2>2. PICK label \in {"exited", "recRemove", "recAppend", "recReconcile"} :
          /\ pc[s] = "recover" /\ LocalStep(s, label)
          /\ label = "recRemove" => Recorded(held[s].req)
          /\ label \in {"recAppend", "recReconcile"} => ~Recorded(held[s].req)
          /\ label = "recReconcile" => held[s].stage = "DISPATCHED"
          /\ label = "recAppend" =>
               held[s].stage = "REJECTED" /\ verdict' = [verdict EXCEPT ![s] = "rejected"]
    BY <1>8 DEF Recover
  <2>3. Recorded(held[s].req)' <=> Recorded(held[s].req)
    BY <2>1, <2>2, Frame
  <2>4. HoldsFiles(s)'
    BY <1>1, <1>2, <2>1, <2>2 DEF HoldsFiles, Recovering, Idle, Dispatching, Owning
  <2>5. label = "recAppend" => Backed(held[s].req, "rejected")'
    BY <1>2, <2>1, <2>2, Frame DEF FlightInv, Backed, Outcomes
  <2>6. KnowsRequest(s)'
    BY <1>1, <2>1, <2>2, <2>3, <2>5 DEF KnowsRequest, Deciding, Dispatching
  <2> QED BY <2>2, <2>4, <2>6 DEF LocalMove, Labels
<1>9. ASSUME RecReconcile(s) PROVE LocalMove(s)
  <2>1. UNCHANGED <<held, target>> /\ held[s] = inFlight /\ inFlight.req \in Requests
    BY <1>2, <1>9 DEF RecReconcile, HoldsFiles, Recovering, FlightInv
  <2>2. PICK label \in {"recAppend", "exited"} :
          /\ pc[s] = "recReconcile" /\ LocalStep(s, label)
          /\ label = "recAppend" =>
               /\ Evidence(held[s].req) \in R!Settling
               /\ verdict' = [verdict EXCEPT ![s] = VerdictOf(Evidence(held[s].req))]
    BY <1>9 DEF RecReconcile
  <2>3. Recorded(held[s].req)' <=> Recorded(held[s].req)
    BY <2>1, <2>2, Frame
  <2>4. HoldsFiles(s)'
    BY <1>1, <1>2, <2>1, <2>2 DEF HoldsFiles, Recovering, Idle, Dispatching, Owning
  <2>5. label = "recAppend" => Backed(held[s].req, verdict[s])' /\ verdict'[s] # "rejected"
    <3>1. label = "recAppend" => /\ Backed(held[s].req, VerdictOf(Evidence(held[s].req)))
                                 /\ VerdictOf(Evidence(held[s].req)) # "rejected"
      BY <1>2, <2>1, <2>2, EvidenceMeans
    <3>2. label = "recAppend" => verdict'[s] = VerdictOf(Evidence(held[s].req))
      BY <1>1, <2>2
    <3> QED BY <2>1, <2>2, <3>1, <3>2, Frame
  <2>6. KnowsRequest(s)'
    BY <1>1, <1>2, <2>1, <2>2, <2>3, <2>5 DEF KnowsRequest, Deciding, Dispatching
  <2> QED BY <2>2, <2>4, <2>6 DEF LocalMove, Labels
<1>10. ASSUME CheckQuarantine(s) PROVE LocalMove(s)
  <2>1. PICK label \in {"rename", "exited"} :
          pc[s] = "quarantine" /\ LocalStep(s, label) /\ UNCHANGED target
    BY <1>10 DEF CheckQuarantine, local
  <2>2. HoldsFiles(s)'
    BY <1>1, <1>2, <2>1 DEF HoldsFiles, Recovering, Idle, Dispatching, Owning
  <2>3. KnowsRequest(s)'
    BY <1>1, <2>1 DEF KnowsRequest, Deciding, Dispatching
  <2> QED BY <2>1, <2>2, <2>3 DEF LocalMove, Labels
<1>11. ASSUME Begin(s) PROVE LocalMove(s)
  <2>1. PICK label \in {"finally", "loop"} : pc[s] = "begin" /\ LocalStep(s, label)
    BY <1>11 DEF Begin
  <2>2. HoldsFiles(s)'
    BY <1>1, <1>2, <2>1 DEF HoldsFiles, Recovering, Idle, Dispatching, Owning
  <2>3. KnowsRequest(s)'
    BY <1>1, <2>1 DEF KnowsRequest, Deciding, Dispatching
  <2> QED BY <2>1, <2>2, <2>3 DEF LocalMove, Labels
<1> QED BY <1>6, <1>7, <1>8, <1>9, <1>10, <1>11
LEMMA LoopKeeps ==
  ASSUME TypeOK, OperatorInv, NEW s \in Sessions,
         \/ LeaveLoop(s) \/ PausedCycle(s) \/ Poll(s) \/ RefuseProbe(s) \/ RefuseRequest(s)
         \/ CheckProcessed(s) \/ Reconcile(s) \/ Confirm(s)
  PROVE  OperatorInv'
<1> USE DEF LocalStep, Step, Goto, files, local, execution
<1>1. /\ pc \in [Sessions -> Labels] /\ job \in [Sessions -> Requests \cup {NoRequest}]
      /\ verdict \in [Sessions -> Outcomes \cup {"none", "torn"}]
      /\ relayed \subseteq Requests
  BY DEF TypeOK
<1>2. /\ HoldsFiles(s) /\ KnowsRequest(s) /\ thread \subseteq Comments
      /\ RunsInv /\ WorkInv
  BY DEF OperatorInv, SharedInv
<1>3. pc[s] \in {"loop", "delegate", "reconcile", "confirm"}
  BY DEF LeaveLoop, PausedCycle, Poll, RefuseProbe, RefuseRequest, CheckProcessed,
         Reconcile, Confirm
<1>4. Alive(s)
  BY <1>3 DEF Alive, Dead
<1>5. SUFFICES LocalMove(s)
  BY <1>3, <1>4, LocalKeeps DEF LocalMove
<1>6. ASSUME LeaveLoop(s) \/ PausedCycle(s) \/ RefuseProbe(s) \/ RefuseRequest(s)
      PROVE  LocalMove(s)
  <2>1. PICK label \in {"loop", "finally"} :
          pc[s] \in {"loop", "delegate"} /\ LocalStep(s, label)
    BY <1>6 DEF LeaveLoop, PausedCycle, RefuseProbe, RefuseRequest
  <2>2. HoldsFiles(s)'
    BY <1>1, <1>2, <2>1 DEF HoldsFiles, Recovering, Idle, Dispatching, Owning
  <2>3. KnowsRequest(s)'
    BY <1>1, <2>1 DEF KnowsRequest, Deciding, Dispatching
  <2> QED BY <2>1, <2>2, <2>3 DEF LocalMove, Labels
<1>7. ASSUME Poll(s) PROVE LocalMove(s)
  <2>1. PICK label \in {"loop", "finally", "delegate"} :
          /\ pc[s] = "loop" /\ LocalStep(s, label)
          /\ label = "delegate" => \E r \in Requests : job' = [job EXCEPT ![s] = r]
    BY <1>1, <1>7 DEF Poll, Current
  <2>2. HoldsFiles(s)'
    BY <1>1, <1>2, <2>1 DEF HoldsFiles, Recovering, Idle, Dispatching, Owning
  <2>3. KnowsRequest(s)'
    BY <1>1, <2>1 DEF KnowsRequest, Deciding, Dispatching
  <2> QED BY <2>1, <2>2, <2>3 DEF LocalMove, Labels
<1>8. ASSUME CheckProcessed(s) PROVE LocalMove(s)
  <2>1. PICK label \in {"loop", "finally", "reconcile"} :
          /\ pc[s] = "delegate" /\ LocalStep(s, label) /\ UNCHANGED job
          /\ label = "reconcile" => ~Recorded(job[s])
    BY <1>8 DEF CheckProcessed
  <2>2. HoldsFiles(s)'
    BY <1>1, <1>2, <2>1 DEF HoldsFiles, Recovering, Idle, Dispatching, Owning
  <2>3. Recorded(job[s])' <=> Recorded(job[s])
    BY <2>1, Frame
  <2>4. KnowsRequest(s)'
    BY <1>1, <1>2, <2>1, <2>3 DEF KnowsRequest, Deciding, Dispatching
  <2> QED BY <2>1, <2>2, <2>4 DEF LocalMove, Labels
<1>9. ASSUME Reconcile(s) PROVE LocalMove(s)
  <2>1. PICK label \in {"prepare", "settle", "finally"} :
          /\ pc[s] = "reconcile" /\ LocalStep(s, label) /\ UNCHANGED job
          /\ label = "prepare" => Evidence(job[s]) = R!NotFound
          /\ label = "settle" =>
               /\ Evidence(job[s]) \in R!Settling
               /\ verdict' = [verdict EXCEPT ![s] = VerdictOf(Evidence(job[s]))]
    BY <1>9 DEF Reconcile
  <2>2. HoldsFiles(s)'
    BY <1>1, <1>2, <2>1 DEF HoldsFiles, Recovering, Idle, Dispatching, Owning
  <2>3. /\ job[s] \in Requests /\ ~Recorded(job[s]) /\ ~Recorded(job[s])'
        /\ inFlight = NoFlight
    BY <1>2, <2>1, Frame DEF KnowsRequest, Deciding, HoldsFiles, Idle
  <2>4. label = "prepare" => runs[job[s]] = 0 /\ TrustedResults(job[s])' = {}
    <3>1. label = "prepare" => TrustedResults(job[s]) = {}
      BY <1>2, <2>1, <2>3, EvidenceMeans
    <3>2. runs[job[s]] = 0
      <4>1. runs[job[s]] \in Nat
        BY <2>3 DEF TypeOK
      <4> QED BY <1>2, <2>3, <4>1 DEF RunsInv, NoFlight
    <3> QED BY <2>1, <3>1, <3>2, Frame
  <2>5. label = "settle" => Backed(job[s], verdict[s])'
    <3>1. label = "settle" => Backed(job[s], VerdictOf(Evidence(job[s])))
      BY <1>2, <2>1, <2>3, EvidenceMeans
    <3>2. label = "settle" => verdict'[s] = VerdictOf(Evidence(job[s]))
      BY <1>1, <2>1
    <3> QED BY <2>1, <3>1, <3>2, Frame
  <2>6. KnowsRequest(s)'
    BY <1>1, <2>1, <2>3, <2>4, <2>5 DEF KnowsRequest, Deciding, Dispatching
  <2> QED BY <2>1, <2>2, <2>6 DEF LocalMove, Labels
<1>10. ASSUME Confirm(s) PROVE LocalMove(s)
  <2>1. PICK label \in {"append", "finally"} :
          /\ pc[s] = "confirm" /\ LocalStep(s, label) /\ UNCHANGED <<job, held>>
          /\ label = "append" =>
               /\ Evidence(job[s]) \in R!Settling
               /\ verdict' = [verdict EXCEPT ![s] = VerdictOf(Evidence(job[s]))]
    BY <1>10 DEF Confirm
  <2>2. /\ job[s] \in Requests /\ ~Recorded(job[s]) /\ ~Recorded(job[s])'
        /\ held[s] = inFlight /\ inFlight = Flight(s, job[s], "DISPATCHED")
    BY <1>2, <2>1, Frame DEF KnowsRequest, Deciding, Dispatching, HoldsFiles
  <2>3. HoldsFiles(s)'
    BY <1>1, <1>2, <2>1, <2>2 DEF HoldsFiles, Recovering, Idle, Dispatching, Owning
  <2>4. label = "append" => Backed(job[s], verdict[s])' /\ ~AtWork(s)'
    <3>1. label = "append" => /\ Backed(job[s], VerdictOf(Evidence(job[s])))
                              /\ TrustedResults(job[s]) # {}
      BY <1>2, <2>1, <2>2, EvidenceMeans
    <3>2. label = "append" => verdict'[s] = VerdictOf(Evidence(job[s]))
      BY <1>1, <2>1
    <3>3. AtWork(s) => TrustedResults(job[s]) = {}
      BY <1>2, <2>2, FlightFields DEF WorkInv, WorksOn
    <3> QED BY <2>1, <3>1, <3>2, <3>3, Frame
  <2>5. KnowsRequest(s)'
    BY <1>1, <2>1, <2>2, <2>4 DEF KnowsRequest, Deciding, Dispatching
  <2> QED BY <2>1, <2>3, <2>5 DEF LocalMove, Labels
<1> QED BY <1>6, <1>7, <1>8, <1>9, <1>10

(* Waiting, giving up and dying: a dispatcher may still be at work.        *)
LEMMA EndKeeps ==
  ASSUME TypeOK, OperatorInv, NEW s \in Sessions, Wait(s) \/ Finally(s) \/ Crash(s)
  PROVE  OperatorInv'
<1> USE DEF LocalStep, Step, Goto, files, local, execution
<1>1. /\ pc \in [Sessions -> Labels] /\ code \in [Sessions -> Codes]
  BY DEF TypeOK
<1>2. HoldsFiles(s) /\ KnowsRequest(s) /\ WorkInv
  BY DEF OperatorInv, SharedInv
<1>3. Alive(s)
  BY DEF Wait, Finally, Crash, Alive, Dead
<1>4. ASSUME Wait(s) PROVE OperatorInv'
  <2>1. /\ pc[s] = "wait" /\ LocalStep(s, "identify") /\ UNCHANGED <<job, held>>
        /\ code' = [code EXCEPT ![s] = IF ChainVisible(s) THEN "timeout" ELSE chain[s].code]
    BY <1>4 DEF Wait
  <2>2. HoldsFiles(s)'
    BY <1>1, <1>2, <2>1 DEF HoldsFiles, Recovering, Idle, Dispatching, Owning
  <2>3. /\ Recorded(job[s])' <=> Recorded(job[s])
        /\ TrustedResults(job[s])' = TrustedResults(job[s])
        /\ ChainVisible(s)' <=> ChainVisible(s)
    BY <2>1, Frame
  <2>4. KnowsRequest(s)'
    BY <1>1, <1>2, <2>1, <2>3 DEF KnowsRequest, Deciding, Dispatching
  <2> QED BY <1>3, <2>1, <2>2, <2>4, LocalKeeps DEF Labels
<1>5. ASSUME Finally(s) PROVE OperatorInv'
  <2>1. PICK label \in {"release", "exited"} :
          /\ pc[s] = "finally" /\ LocalStep(s, label)
          /\ label = "release" => inFlight = NoFlight
    BY <1>5 DEF Finally
  <2>2. HoldsFiles(s)'
    BY <1>1, <1>2, <2>1 DEF HoldsFiles, Recovering, Idle, Dispatching, Owning
  <2>3. KnowsRequest(s)'
    BY <1>1, <2>1 DEF KnowsRequest, Deciding, Dispatching
  <2>4. label = "release" => ~AtWork(s)
    BY <1>2, <2>1 DEF WorkInv, WorksOn, NoFlight, Flight
  <2> QED BY <1>3, <2>1, <2>2, <2>3, <2>4, LocalKeeps DEF Labels
<1>6. ASSUME Crash(s) PROVE OperatorInv'
  <2>1. LocalStep(s, "crashed")
    BY <1>6 DEF Crash
  <2>2. HoldsFiles(s)'
    BY <1>1, <2>1 DEF HoldsFiles, Recovering, Idle, Dispatching, Owning
  <2>3. KnowsRequest(s)'
    BY <1>1, <2>1 DEF KnowsRequest, Deciding, Dispatching
  <2> QED BY <1>3, <2>1, <2>2, <2>3, LocalKeeps DEF Labels
<1> QED BY <1>4, <1>5, <1>6
-----------------------------------------------------------------------------
(* The steps that change the lock: nothing is in flight while they happen. *)
LEMMA LockKeeps ==
  ASSUME TypeOK, OperatorInv, NEW s \in Sessions,
         RenameLock(s) \/ AcquireLock(s) \/ WriteLock(s) \/ ReleaseLock(s)
  PROVE  OperatorInv'
<1> USE DEF Step, Goto, local, execution
<1>1. pc \in [Sessions -> Labels] /\ lock \in Locks
  BY DEF TypeOK
<1>2. SharedInv /\ OneAlive /\ HoldsFiles(s) /\ KnowsRequest(s)
  BY DEF OperatorInv, SharedInv
<1>3. /\ pc[s] \in {"rename", "acquire", "writeLock", "release"}
      /\ UNCHANGED <<inFlight, processed, chain, runs, thread>>
  BY DEF RenameLock, AcquireLock, WriteLock, ReleaseLock
<1>4. inFlight = NoFlight
  BY <1>2, <1>3 DEF HoldsFiles, Idle
<1>5. PICK label \in {"exited", "acquire", "writeLock", "begin"} :
        /\ pc' = [pc EXCEPT ![s] = label]
        /\ label = "acquire" => lock' = NoLock
        /\ label = "writeLock" => lock' = Lock(s, "empty")
        /\ label = "begin" => lock' = Lock(s, "complete")
        /\ lock' \in {lock, NoLock, Lock(s, "empty"), Lock(s, "complete")}
  BY DEF RenameLock, AcquireLock, WriteLock, ReleaseLock
<1>6. /\ OneAlive' /\ pc'[s] = label
      /\ \A t \in Sessions : t # s => HoldsFiles(t)' /\ KnowsRequest(t)'
  BY <1>2, <1>3, <1>5, Others DEF Alive, Dead, Labels
<1>7. HoldsFiles(s)'
  BY <1>3, <1>4, <1>5, <1>6 DEF HoldsFiles, Recovering, Idle, Dispatching, Owning
<1>8. KnowsRequest(s)'
  BY <1>5, <1>6 DEF KnowsRequest, Deciding, Dispatching
<1>9. (lock # NoLock => lock.owner \in Sessions)'
  BY <1>2, <1>5 DEF SharedInv, Lock
<1>10. (thread \subseteq Comments)' /\ FlightInv'
  BY <1>2, <1>3, <1>4 DEF SharedInv, Comments, FlightInv
<1>11. \A t \in Sessions : ~AtWork(t)
  BY <1>2, <1>4, FlightFields DEF SharedInv, WorkInv, WorksOn
<1>12. WorkInv' /\ RunsInv' /\ RecordInv'
  BY <1>2, <1>3, <1>11, Frame
     DEF SharedInv, WorkInv, RunsInv, RecordInv, RecordedOnce, RecordsOf
<1> QED
  BY <1>6, <1>7, <1>8, <1>9, <1>10, <1>12 DEF OperatorInv, SharedInv

-----------------------------------------------------------------------------
(* The steps that append a record.                                         *)

(* What an append of a backed record of a request without one does to the  *)
(* records, whether or not it succeeds.                                    *)
LEMMA AppendEffect ==
  ASSUME TypeOK, RecordInv, NEW s \in Sessions, NEW r \in Requests, ~Recorded(r),
         NEW outcome, Backed(r, outcome), NEW done, NEW failed,
         AppendRecord(s, r, outcome, done, failed), UNCHANGED <<runs, thread>>
  PROVE  /\ \/ pc' = [pc EXCEPT ![s] = done] /\ Recorded(r)'
            \/ pc' = [pc EXCEPT ![s] = failed]
         /\ \A q : Recorded(q) => Recorded(q)'
         /\ \A q \in Requests : Recorded(q)' => Recorded(q) \/ q = r
         /\ RecordInv'
<1>1. processed \in Seq(Lines) /\ Len(processed) \in Nat /\ DOMAIN processed = 1 .. Len(processed)
  BY DEF TypeOK
<1>2. PICK line \in {TornRecord, Record(r, outcome)} :
        processed' \in {processed, Append(processed, line)}
  BY DEF AppendRecord
<1>3. TornRecord.req = NoRequest /\ Record(r, outcome).req = r /\ Record(r, outcome).outcome = outcome
  BY DEF TornRecord, Record
<1>4. CASE UNCHANGED processed
  <2>1. RecordInv'
    BY <1>4, Frame DEF RecordInv, RecordedOnce, RecordsOf
  <2>2. pc' = [pc EXCEPT ![s] = failed]
    <3>1. processed # Append(processed, Record(r, outcome))
      <4> DEFINE longer == Append(processed, Record(r, outcome))
      <4>1. Len(longer) = Len(processed) + 1
        BY <1>1
      <4> HIDE DEF longer
      <4>2. longer # processed
        BY <1>1, <4>1
      <4> QED BY <4>2 DEF longer
    <3> QED BY <1>4, <3>1 DEF AppendRecord, Goto
  <2> QED BY <1>4, <2>1, <2>2, Frame
<1>5. CASE processed' = Append(processed, line)
  <2> DEFINE n == Len(processed) + 1
  <2>1. /\ DOMAIN processed' = 1 .. n
        /\ processed'[n] = line
        /\ \A i \in 1 .. Len(processed) : processed'[i] = processed[i]
    BY <1>1, <1>5
  <2>2. \A i \in DOMAIN processed' : i \in DOMAIN processed \/ i = n
    BY <1>1, <2>1
  <2>3. n \in DOMAIN processed' /\ DOMAIN processed \subseteq DOMAIN processed'
    BY <1>1, <2>1
  <2>4. \A q : RecordsOf(q) \subseteq RecordsOf(q)'
    BY <1>1, <2>1, <2>3 DEF RecordsOf
  <2>5. \A q \in Requests : RecordsOf(q)' = RecordsOf(q) \cup (IF line.req = q THEN {n} ELSE {})
    BY <1>1, <2>1, <2>2, <2>3 DEF RecordsOf
  <2>6. line.req \in {NoRequest, r} /\ NoRequest \notin Requests
    BY <1>3
  <2>7. \A q : Recorded(q) => Recorded(q)'
    BY <2>4 DEF Recorded
  <2>8. \A q \in Requests : Recorded(q)' => Recorded(q) \/ q = r
    BY <2>5, <2>6 DEF Recorded
  <2>9. \/ pc' = [pc EXCEPT ![s] = done] /\ Recorded(r)'
        \/ pc' = [pc EXCEPT ![s] = failed]
    <3>1. Append(processed, Record(r, outcome)) = processed' => Recorded(r)'
      <4>1. Append(processed, Record(r, outcome))[n] = Record(r, outcome)
        BY <1>1
      <4> QED BY <1>3, <2>3, <4>1 DEF Recorded, RecordsOf
    <3> QED BY <3>1 DEF AppendRecord, Goto
  <2>10. RecordedOnce'
    BY <2>5, <2>6 DEF RecordedOnce, RecordInv, Recorded
  <2>11. \A i \in DOMAIN processed' :
           \/ processed'[i] = TornRecord
           \/ processed'[i].req \in Requests /\ Backed(processed'[i].req, processed'[i].outcome)
    BY <1>1, <1>2, <1>3, <2>1, <2>2 DEF RecordInv
  <2>12. RecordInv'
    BY <2>10, <2>11, Frame DEF RecordInv
  <2> QED BY <2>7, <2>8, <2>9, <2>12
<1> QED BY <1>2, <1>4, <1>5

(* The request is recorded while nothing works on it and it is not merely  *)
(* prepared; the rest is up to the place the session goes to.              *)
LEMMA AppendKeeps ==
  ASSUME TypeOK, OperatorInv, NEW s \in Sessions, Alive(s),
         pc[s] \notin {"wait", "identify", "finally"},
         NEW r \in Requests, ~Recorded(r), NEW outcome, Backed(r, outcome),
         NEW done \in Labels \ {"off"}, NEW failed \in Labels \ {"off"},
         AppendRecord(s, r, outcome, done, failed),
         UNCHANGED <<lock, inFlight, chain, runs, thread>>,
         \A t \in Sessions : AtWork(t) => chain[t].req # r,
         inFlight.stage = "PREPARED" => inFlight.req # r,
         \A label \in {done, failed} :
           pc' = [pc EXCEPT ![s] = label] /\ (label = done => Recorded(r)' \/ done = failed)
             => HoldsFiles(s)' /\ KnowsRequest(s)'
  PROVE  OperatorInv'
<1>1. SharedInv /\ OneAlive /\ RecordInv /\ pc \in [Sessions -> Labels]
  BY DEF OperatorInv, SharedInv, TypeOK
<1>2. /\ \/ pc' = [pc EXCEPT ![s] = done] /\ Recorded(r)'
         \/ pc' = [pc EXCEPT ![s] = failed]
      /\ \A q : Recorded(q) => Recorded(q)'
      /\ \A q \in Requests : Recorded(q)' => Recorded(q) \/ q = r
      /\ RecordInv'
  BY <1>1, AppendEffect
<1>3. HoldsFiles(s)' /\ KnowsRequest(s)'
  BY <1>2
<1>4. PICK label \in {done, failed} : pc' = [pc EXCEPT ![s] = label]
  BY <1>2
<1>5. /\ OneAlive'
      /\ \A t \in Sessions : t # s => pc'[t] = pc[t] /\ HoldsFiles(t)' /\ KnowsRequest(t)'
  BY <1>1, <1>4, Others
<1>6. (lock # NoLock => lock.owner \in Sessions)' /\ (thread \subseteq Comments)'
  BY <1>1 DEF SharedInv, Comments
<1>7. FlightInv'
  BY <1>1, <1>2, Frame DEF SharedInv, FlightInv
<1>8. WorkInv'
  <2> SUFFICES ASSUME NEW t \in Sessions, AtWork(t)' PROVE WorksOn(t, chain[t].req)'
    BY DEF WorkInv
  <2>1. AtWork(t) /\ WorksOn(t, chain[t].req) /\ chain[t].req # r
    BY <1>1, Frame DEF SharedInv, WorkInv
  <2>2. t # s
    BY <2>1 DEF WorksOn, Alive, Dead
  <2>3. pc'[t] = pc[t]
    BY <1>5, <2>2
  <2>4. ~Recorded(chain[t].req)'
    <3>1. chain[t].req \in Requests /\ ~Recorded(chain[t].req) /\ UNCHANGED chain
      BY <2>1 DEF WorksOn
    <3>2. \A q \in Requests : ~Recorded(q) /\ q # r => ~Recorded(q)'
      BY <1>2
    <3> QED BY <2>1, <3>1, <3>2
  <2> QED BY <2>1, <2>3, <2>4, Frame DEF WorksOn
<1>9. RunsInv'
  BY <1>1, <1>2 DEF SharedInv, RunsInv
<1> QED
  BY <1>2, <1>3, <1>5, <1>6, <1>7, <1>8, <1>9 DEF OperatorInv, SharedInv

LEMMA AppendsKeep ==
  ASSUME TypeOK, OperatorInv, NEW s \in Sessions,
         RecAppend(s) \/ Settle(s) \/ AppendSettled(s)
  PROVE  OperatorInv'
<1> USE DEF files, local, execution
<1>1. pc \in [Sessions -> Labels] /\ inFlight \in Flights
  BY DEF TypeOK
<1>2. HoldsFiles(s) /\ KnowsRequest(s) /\ WorkInv /\ FlightInv
  BY DEF OperatorInv, SharedInv
<1>3. ASSUME RecAppend(s) PROVE OperatorInv'
  <2> DEFINE r == held[s].req
  <2>1. /\ pc[s] = "recAppend" /\ AppendRecord(s, r, verdict[s], "recMark", "exited")
        /\ UNCHANGED <<lock, inFlight, chain, runs, thread, held, target>>
    BY <1>3 DEF RecAppend
  <2>2. /\ held[s] = inFlight /\ inFlight # NoFlight /\ ~Recorded(r)
        /\ Backed(r, verdict[s])
        /\ held[s].stage = IF verdict[s] = "rejected" THEN "REJECTED" ELSE "DISPATCHED"
    BY <1>2, <2>1 DEF HoldsFiles, KnowsRequest, Recovering
  <2>3. r \in Requests
    BY <1>2, <2>2 DEF FlightInv
  <2>4. \A t \in Sessions : AtWork(t) => chain[t].req # r
    <3> SUFFICES ASSUME NEW t \in Sessions, AtWork(t), chain[t].req = r PROVE FALSE
      OBVIOUS
    <3>1. inFlight.stage = "DISPATCHED" /\ TrustedResults(r) = {}
      BY <1>2, FlightFields DEF WorkInv, WorksOn
    <3>2. verdict[s] \in {"success", "non_success"}
      BY <2>2, <3>1 DEF Backed, Outcomes
    <3> QED BY <2>2, <3>1, <3>2 DEF Backed
  <2>5. ASSUME NEW label \in {"recMark", "exited"}, pc' = [pc EXCEPT ![s] = label],
               label = "recMark" => Recorded(r)'
        PROVE  HoldsFiles(s)' /\ KnowsRequest(s)'
    <3>1. HoldsFiles(s)'
      BY <1>1, <1>2, <2>1, <2>5 DEF HoldsFiles, Recovering, Idle, Dispatching, Owning
    <3>2. KnowsRequest(s)'
      BY <1>1, <2>1, <2>5 DEF KnowsRequest, Deciding, Dispatching
    <3> QED BY <3>1, <3>2
  <2>6. Alive(s)
    BY <2>1 DEF Alive, Dead
  <2> QED BY <2>1, <2>2, <2>3, <2>4, <2>5, <2>6, AppendKeeps DEF Labels
<1>4. ASSUME Settle(s) PROVE OperatorInv'
  <2> DEFINE r == job[s]
  <2>1. /\ pc[s] = "settle" /\ AppendRecord(s, r, verdict[s], AfterSettlement(s), "finally")
        /\ UNCHANGED <<lock, inFlight, chain, runs, thread, held, job>>
        /\ AfterSettlement(s) \in {"loop", "finally"}
    BY <1>4 DEF Settle, AfterSettlement
  <2>2. r \in Requests /\ ~Recorded(r) /\ Backed(r, verdict[s]) /\ inFlight = NoFlight
    BY <1>2, <2>1 DEF HoldsFiles, KnowsRequest, Deciding, Idle
  <2>3. \A t \in Sessions : ~AtWork(t)
    BY <1>2, <2>2, FlightFields DEF WorkInv, WorksOn
  <2>4. inFlight.stage # "PREPARED"
    BY <2>2, FlightFields
  <2>5. ASSUME NEW label \in {"loop", "finally"}, pc' = [pc EXCEPT ![s] = label]
        PROVE  HoldsFiles(s)' /\ KnowsRequest(s)'
    <3>1. HoldsFiles(s)'
      BY <1>1, <1>2, <2>1, <2>5 DEF HoldsFiles, Recovering, Idle, Dispatching, Owning
    <3>2. KnowsRequest(s)'
      BY <1>1, <2>1, <2>5 DEF KnowsRequest, Deciding, Dispatching
    <3> QED BY <3>1, <3>2
  <2>6. Alive(s)
    BY <2>1 DEF Alive, Dead
  <2>7. AfterSettlement(s) \in Labels \ {"off"} /\ "finally" \in Labels \ {"off"}
    BY <2>1 DEF Labels
  <2>8. \A label \in {AfterSettlement(s), "finally"} :
          pc' = [pc EXCEPT ![s] = label] => HoldsFiles(s)' /\ KnowsRequest(s)'
    BY <2>1, <2>5
  <2>9. pc[s] \notin {"wait", "identify", "finally"}
    BY <2>1
  <2> QED BY <2>1, <2>2, <2>3, <2>4, <2>6, <2>7, <2>8, <2>9, AppendKeeps
<1>5. ASSUME AppendSettled(s) PROVE OperatorInv'
  <2> DEFINE r == job[s]
  <2>1. /\ pc[s] = "append" /\ AppendRecord(s, r, verdict[s], "mark", "finally")
        /\ UNCHANGED <<lock, inFlight, chain, runs, thread, held, job>>
    BY <1>5 DEF AppendSettled
  <2>2. /\ r \in Requests /\ ~Recorded(r) /\ Backed(r, verdict[s]) /\ ~AtWork(s)
        /\ \E stage \in {"DISPATCHED", "REJECTED"} : inFlight = Flight(s, r, stage)
    BY <1>2, <2>1 DEF HoldsFiles, KnowsRequest, Deciding
  <2>3. \A t \in Sessions : ~AtWork(t)
    BY <1>2, <2>2, FlightFields DEF WorkInv, WorksOn
  <2>4. inFlight.stage # "PREPARED"
    BY <2>2, FlightFields
  <2>5. ASSUME NEW label \in {"mark", "finally"}, pc' = [pc EXCEPT ![s] = label],
               label = "mark" => Recorded(r)'
        PROVE  HoldsFiles(s)' /\ KnowsRequest(s)'
    <3>1. HoldsFiles(s)'
      BY <1>1, <1>2, <2>1, <2>5 DEF HoldsFiles, Recovering, Idle, Dispatching, Owning
    <3>2. KnowsRequest(s)'
      BY <1>1, <2>1, <2>2, <2>5 DEF KnowsRequest, Deciding, Dispatching
    <3> QED BY <3>1, <3>2
  <2>6. Alive(s)
    BY <2>1 DEF Alive, Dead
  <2> QED BY <2>1, <2>2, <2>3, <2>4, <2>5, <2>6, AppendKeeps DEF Labels
<1> QED BY <1>3, <1>4, <1>5
-----------------------------------------------------------------------------
(* The steps that change the in_flight record: nothing is at work then.    *)
LEMMA FlightKeeps ==
  ASSUME TypeOK, OperatorInv, NEW s \in Sessions, Alive(s),
         NEW label \in Labels \ {"off"}, pc' = [pc EXCEPT ![s] = label],
         UNCHANGED <<lock, processed, chain, runs, thread>>,
         \A t \in Sessions : ~AtWork(t),
         HoldsFiles(s)', KnowsRequest(s)', FlightInv',
         \A r \in Requests : runs[r] > 0 /\ ~Recorded(r) =>
                               inFlight'.req = r /\ inFlight'.stage = "DISPATCHED"
  PROVE  OperatorInv'
<1>1. SharedInv /\ OneAlive
  BY DEF OperatorInv, SharedInv
<1>2. /\ OneAlive'
      /\ \A t \in Sessions : t # s => HoldsFiles(t)' /\ KnowsRequest(t)'
  BY <1>1, Others
<1>3. (lock # NoLock => lock.owner \in Sessions)' /\ (thread \subseteq Comments)'
  BY <1>1 DEF SharedInv, Comments
<1>4. WorkInv'
  BY Frame DEF WorkInv
<1>5. RunsInv'
  BY <1>1, Frame DEF SharedInv, RunsInv
<1>6. RecordInv'
  BY <1>1, Frame DEF SharedInv, RecordInv, RecordedOnce, RecordsOf
<1> QED
  BY <1>2, <1>3, <1>4, <1>5, <1>6 DEF OperatorInv, SharedInv

(* A write that leaves the record as it was is a local step to the place a *)
(* failure leads to; otherwise the new record is there.                    *)
LEMMA WriteEffect ==
  ASSUME TypeOK, NEW s \in Sessions, NEW owner, NEW flight, NEW done, NEW failed,
         WriteInFlight(s, owner, flight, done, failed)
  PROVE  \/ pc' = [pc EXCEPT ![s] = failed] /\ UNCHANGED <<inFlight, held>>
         \/ pc' = [pc EXCEPT ![s] = failed] /\ inFlight' = flight
         \/ pc' = [pc EXCEPT ![s] = done] /\ inFlight' = flight /\ held'[s] = flight
<1>1. held \in [Sessions -> Flights]
  BY DEF TypeOK
<1> QED BY <1>1 DEF WriteInFlight, Goto

(* A write of a record that fits the state.                                *)
LEMMA WriteKeeps ==
  ASSUME TypeOK, OperatorInv, NEW s \in Sessions, Alive(s),
         pc[s] \notin {"wait", "identify", "finally"},
         NEW owner, NEW flight, NEW done \in Labels \ {"off"},
         NEW failed \in {"finally", "exited"}, failed = "finally" => pc[s] \in Owning,
         WriteInFlight(s, owner, flight, done, failed),
         UNCHANGED <<lock, processed, chain, runs, thread>>,
         \A t \in Sessions : ~AtWork(t),
         inFlight' = flight => FlightInv',
         \A r \in Requests : runs[r] > 0 /\ ~Recorded(r) =>
                               flight.req = r /\ flight.stage = "DISPATCHED",
         pc' = [pc EXCEPT ![s] = done] /\ inFlight' = flight /\ held'[s] = flight =>
           HoldsFiles(s)' /\ KnowsRequest(s)'
  PROVE  OperatorInv'
<1>1. pc \in [Sessions -> Labels] /\ HoldsFiles(s)
  BY DEF TypeOK, OperatorInv
<1>2. ASSUME pc' = [pc EXCEPT ![s] = failed] PROVE HoldsFiles(s)' /\ KnowsRequest(s)'
  <2>1. HoldsFiles(s)'
    BY <1>1, <1>2 DEF HoldsFiles, Recovering, Idle, Dispatching, Owning
  <2>2. KnowsRequest(s)'
    BY <1>1, <1>2 DEF KnowsRequest, Deciding, Dispatching
  <2> QED BY <2>1, <2>2
<1>3. failed \in Labels \ {"off"}
  BY DEF Labels
<1>4. CASE pc' = [pc EXCEPT ![s] = failed] /\ UNCHANGED inFlight
  BY <1>2, <1>3, <1>4, LocalKeeps DEF LocalStep
<1>5. CASE pc' = [pc EXCEPT ![s] = failed] /\ inFlight' = flight
  BY <1>2, <1>3, <1>5, FlightKeeps
<1>6. CASE pc' = [pc EXCEPT ![s] = done] /\ inFlight' = flight /\ held'[s] = flight
  BY <1>6, FlightKeeps
<1> QED BY <1>4, <1>5, <1>6, WriteEffect

LEMMA WritesKeep ==
  ASSUME TypeOK, OperatorInv, NEW s \in Sessions,
         RecMark(s) \/ Prepare(s) \/ Commit(s) \/ Reject(s) \/ Mark(s)
  PROVE  OperatorInv'
<1> USE DEF files, local, execution
<1>1. /\ pc \in [Sessions -> Labels] /\ inFlight \in Flights /\ held \in [Sessions -> Flights]
      /\ runs \in [Requests -> Nat]
  BY DEF TypeOK
<1>2. HoldsFiles(s) /\ KnowsRequest(s) /\ WorkInv /\ FlightInv /\ RunsInv
  BY DEF OperatorInv, SharedInv
<1>3. ASSUME RecMark(s) PROVE OperatorInv'
  <2> DEFINE r == held[s].req
             flight == [held[s] EXCEPT !.stage = "PROCESSED"]
  <2>1. /\ pc[s] = "recMark"
        /\ WriteInFlight(s, held[s].owner, flight, "recRemove", "exited")
        /\ UNCHANGED <<lock, processed, chain, runs, thread, target>>
    BY <1>3 DEF RecMark
  <2>2. held[s] = inFlight /\ inFlight # NoFlight /\ Recorded(r)
    BY <1>2, <2>1 DEF HoldsFiles, KnowsRequest, Recovering
  <2>3. flight = Flight(inFlight.owner, r, "PROCESSED") /\ r \in Requests
        /\ inFlight.owner \in Sessions /\ lock = Lock(inFlight.owner, "complete")
    BY <1>1, <1>2, <2>2 DEF FlightInv, Flight, Flights
  <2>4. \A t \in Sessions : ~AtWork(t)
    BY <1>2, <2>2, FlightFields DEF WorkInv, WorksOn
  <2>5. inFlight' = flight => FlightInv'
    BY <2>1, <2>2, <2>3, FlightFields, Frame DEF FlightInv, Stages
  <2>6. \A q \in Requests : ~(runs[q] > 0 /\ ~Recorded(q))
    BY <1>2, <2>2 DEF RunsInv
  <2>7. ASSUME pc' = [pc EXCEPT ![s] = "recRemove"], inFlight' = flight, held'[s] = flight
        PROVE  HoldsFiles(s)' /\ KnowsRequest(s)'
    <3>1. HoldsFiles(s)'
      <4> HIDE DEF flight
      <4>1. flight # NoFlight /\ flight.owner = inFlight.owner
        BY <2>3, FlightFields
      <4> QED
        BY <1>1, <1>2, <2>1, <2>7, <4>1
           DEF HoldsFiles, Recovering, Idle, Dispatching, Owning
    <3>2. Recorded(held[s].req)'
      BY <2>1, <2>2, <2>3, <2>7, FlightFields, Frame
    <3>3. KnowsRequest(s)'
      BY <1>1, <2>7, <3>2 DEF KnowsRequest, Deciding, Dispatching
    <3> QED BY <3>1, <3>3
  <2>8. Alive(s) /\ "recRemove" \in Labels \ {"off"}
    BY <2>1 DEF Alive, Dead, Labels
  <2> HIDE DEF flight
  <2> QED BY <2>1, <2>4, <2>5, <2>6, <2>7, <2>8, WriteKeeps
<1>4. ASSUME Prepare(s) PROVE OperatorInv'
  <2> DEFINE r == job[s]
             flight == Flight(s, r, "PREPARED")
  <2>1. /\ pc[s] = "prepare" /\ WriteInFlight(s, s, flight, "commit", "finally")
        /\ UNCHANGED <<lock, processed, chain, runs, thread, job>>
    BY <1>4 DEF Prepare
  <2>2. /\ inFlight = NoFlight /\ r \in Requests /\ ~Recorded(r) /\ runs[r] = 0
        /\ TrustedResults(r) = {} /\ lock = Lock(s, "complete")
    BY <1>2, <2>1 DEF HoldsFiles, KnowsRequest, Idle, Deciding, Owning
  <2>3. \A t \in Sessions : ~AtWork(t)
    BY <1>2, <2>2, FlightFields DEF WorkInv, WorksOn
  <2>4. inFlight' = flight => FlightInv'
    BY <2>1, <2>2, FlightFields, Frame DEF FlightInv, Stages
  <2>5. \A q \in Requests : ~(runs[q] > 0 /\ ~Recorded(q))
    BY <1>2, <2>2, FlightFields DEF RunsInv
  <2>6. ASSUME pc' = [pc EXCEPT ![s] = "commit"], inFlight' = flight, held'[s] = flight
        PROVE  HoldsFiles(s)' /\ KnowsRequest(s)'
    <3>1. HoldsFiles(s)'
      BY <1>1, <2>1, <2>2, <2>6 DEF HoldsFiles, Recovering, Idle, Dispatching, Owning
    <3>2. ~Recorded(job[s])' /\ TrustedResults(job[s])' = {}
      BY <2>1, <2>2, Frame
    <3>3. KnowsRequest(s)'
      BY <1>1, <2>1, <2>2, <2>6, <3>2 DEF KnowsRequest, Deciding, Dispatching
    <3> QED BY <3>1, <3>3
  <2>7. Alive(s) /\ "commit" \in Labels \ {"off"} /\ pc[s] \in Owning
    BY <2>1 DEF Alive, Dead, Labels, Owning
  <2> HIDE DEF flight
  <2> QED BY <2>1, <2>3, <2>4, <2>5, <2>6, <2>7, WriteKeeps
<1>5. ASSUME Commit(s) PROVE OperatorInv'
  <2> DEFINE r == job[s]
             flight == Flight(s, r, "DISPATCHED")
  <2>1. /\ pc[s] = "commit" /\ WriteInFlight(s, s, flight, "spawn", "finally")
        /\ UNCHANGED <<lock, processed, chain, runs, thread, job>>
    BY <1>5 DEF Commit
  <2>2. /\ inFlight = Flight(s, r, "PREPARED") /\ r \in Requests /\ ~Recorded(r)
        /\ runs[r] = 0 /\ TrustedResults(r) = {} /\ lock = Lock(s, "complete")
    BY <1>2, <2>1 DEF HoldsFiles, KnowsRequest, Deciding, Owning
  <2>3. \A t \in Sessions : ~AtWork(t)
    BY <1>2, <2>2, FlightFields DEF WorkInv, WorksOn
  <2>4. inFlight' = flight => FlightInv'
    BY <2>1, <2>2, FlightFields, Frame DEF FlightInv, Stages
  <2>5. \A q \in Requests : ~(runs[q] > 0 /\ ~Recorded(q))
    BY <1>2, <2>2, FlightFields DEF RunsInv
  <2>6. ASSUME pc' = [pc EXCEPT ![s] = "spawn"], inFlight' = flight, held'[s] = flight
        PROVE  HoldsFiles(s)' /\ KnowsRequest(s)'
    <3>1. HoldsFiles(s)'
      BY <1>1, <2>1, <2>2, <2>6 DEF HoldsFiles, Recovering, Idle, Dispatching, Owning
    <3>2. ~Recorded(job[s])' /\ TrustedResults(job[s])' = {}
      BY <2>1, <2>2, Frame
    <3>3. KnowsRequest(s)'
      BY <1>1, <2>1, <2>2, <2>6, <3>2 DEF KnowsRequest, Deciding, Dispatching
    <3> QED BY <3>1, <3>3
  <2>7. Alive(s) /\ "spawn" \in Labels \ {"off"} /\ pc[s] \in Owning
    BY <2>1 DEF Alive, Dead, Labels, Owning
  <2> HIDE DEF flight
  <2> QED BY <2>1, <2>3, <2>4, <2>5, <2>6, <2>7, WriteKeeps
<1>6. ASSUME Reject(s) PROVE OperatorInv'
  <2> DEFINE r == job[s]
             flight == [held[s] EXCEPT !.stage = "REJECTED"]
  <2>1. /\ pc[s] = "reject" /\ WriteInFlight(s, s, flight, "append", "finally")
        /\ UNCHANGED <<lock, processed, chain, runs, thread, job>>
        /\ verdict' = [verdict EXCEPT ![s] = "rejected"]
    BY <1>6 DEF Reject
  <2>2. /\ held[s] = Flight(s, r, "DISPATCHED") /\ inFlight = Flight(s, r, "DISPATCHED")
        /\ r \in Requests /\ ~Recorded(r) /\ runs[r] = 0 /\ TrustedResults(r) = {}
        /\ ~AtWork(s) /\ lock = Lock(s, "complete")
    BY <1>2, <2>1 DEF HoldsFiles, KnowsRequest, Deciding, Dispatching, Owning
  <2>3. flight = Flight(s, r, "REJECTED")
    BY <2>2 DEF Flight
  <2>4. \A t \in Sessions : ~AtWork(t)
    BY <1>2, <2>2, FlightFields DEF WorkInv, WorksOn
  <2>5. inFlight' = flight => FlightInv'
    BY <2>1, <2>2, <2>3, FlightFields, Frame DEF FlightInv, Stages
  <2>6. \A q \in Requests : ~(runs[q] > 0 /\ ~Recorded(q))
    BY <1>2, <2>2, FlightFields DEF RunsInv
  <2>7. ASSUME pc' = [pc EXCEPT ![s] = "append"], inFlight' = flight, held'[s] = flight
        PROVE  HoldsFiles(s)' /\ KnowsRequest(s)'
    <3>1. HoldsFiles(s)'
      BY <1>1, <2>1, <2>2, <2>3, <2>7
         DEF HoldsFiles, Recovering, Idle, Dispatching, Owning
    <3>2. ~Recorded(job[s])' /\ Backed(job[s], "rejected")' /\ ~AtWork(s)'
      BY <2>1, <2>2, Frame DEF Backed, Outcomes
    <3>3. verdict'[s] = "rejected"
      BY <2>1 DEF TypeOK
    <3>4. KnowsRequest(s)'
      BY <1>1, <2>1, <2>2, <2>7, <3>2, <3>3 DEF KnowsRequest, Deciding, Dispatching
    <3> QED BY <3>1, <3>4
  <2>8. Alive(s) /\ "append" \in Labels \ {"off"} /\ pc[s] \in Owning
    BY <2>1 DEF Alive, Dead, Labels, Owning
  <2> HIDE DEF flight
  <2> QED BY <2>1, <2>4, <2>5, <2>6, <2>7, <2>8, WriteKeeps
<1>7. ASSUME Mark(s) PROVE OperatorInv'
  <2> DEFINE r == job[s]
             flight == [held[s] EXCEPT !.stage = "PROCESSED"]
  <2>1. /\ pc[s] = "mark" /\ WriteInFlight(s, s, flight, "remove", "finally")
        /\ UNCHANGED <<lock, processed, chain, runs, thread, job>>
    BY <1>7 DEF Mark
  <2>2. /\ \E stage \in {"DISPATCHED", "REJECTED"} : inFlight = Flight(s, r, stage)
        /\ held[s] = inFlight
        /\ r \in Requests /\ Recorded(r) /\ lock = Lock(s, "complete")
    BY <1>2, <2>1 DEF HoldsFiles, KnowsRequest, Owning
  <2>3. flight = Flight(s, r, "PROCESSED")
    BY <2>2 DEF Flight
  <2>4. \A t \in Sessions : ~AtWork(t)
    BY <1>2, <2>2, FlightFields DEF WorkInv, WorksOn
  <2>5. inFlight' = flight => FlightInv'
    BY <2>1, <2>2, <2>3, FlightFields, Frame DEF FlightInv, Stages
  <2>6. \A q \in Requests : ~(runs[q] > 0 /\ ~Recorded(q))
    BY <1>2, <2>2, FlightFields DEF RunsInv
  <2>7. ASSUME pc' = [pc EXCEPT ![s] = "remove"], inFlight' = flight, held'[s] = flight
        PROVE  HoldsFiles(s)' /\ KnowsRequest(s)'
    <3>1. HoldsFiles(s)'
      BY <1>1, <2>1, <2>2, <2>3, <2>7
         DEF HoldsFiles, Recovering, Idle, Dispatching, Owning
    <3>2. Recorded(job[s])'
      BY <2>1, <2>2, Frame
    <3>3. KnowsRequest(s)'
      BY <1>1, <2>1, <2>2, <2>7, <3>2 DEF KnowsRequest, Deciding, Dispatching
    <3> QED BY <3>1, <3>3
  <2>8. Alive(s) /\ "remove" \in Labels \ {"off"} /\ pc[s] \in Owning
    BY <2>1 DEF Alive, Dead, Labels, Owning
  <2> HIDE DEF flight
  <2> QED BY <2>1, <2>4, <2>5, <2>6, <2>7, <2>8, WriteKeeps
<1> QED BY <1>3, <1>4, <1>5, <1>6, <1>7
-----------------------------------------------------------------------------
(* The dispatcher's end is known: what it says about the request.          *)
LEMMA RecordDispatcherKeeps ==
  ASSUME TypeOK, OperatorInv, NEW s \in Sessions, RecordDispatcher(s)
  PROVE  OperatorInv'
<1> USE DEF local, execution
<1> DEFINE next == CASE code[s] = "rejected" -> "reject"
                     [] code[s] = "failed_before_runner" -> "cleanup"
                     [] code[s] = "zero" -> "confirm"
                     [] OTHER -> "finally"
<1>1. pc \in [Sessions -> Labels] /\ held \in [Sessions -> Flights]
  BY DEF TypeOK
<1>2. HoldsFiles(s) /\ KnowsRequest(s) /\ WorkInv
  BY DEF OperatorInv, SharedInv
<1>3. /\ pc[s] = "identify" /\ WriteInFlight(s, s, held[s], next, "finally")
      /\ UNCHANGED <<lock, processed, chain, runs, thread, job, code>>
  BY DEF RecordDispatcher
<1>4. /\ held[s] = inFlight /\ inFlight = Flight(s, job[s], "DISPATCHED")
      /\ job[s] \in Requests /\ ~Recorded(job[s]) /\ ~Recorded(job[s])'
      /\ code[s] = "timeout" \/ code[s] = chain[s].code
      /\ chain[s].code = "rejected" => runs[job[s]] = 0 /\ TrustedResults(job[s])' = {}
      /\ chain[s].code = "failed_before_runner" => runs[job[s]] = 0
  BY <1>2, <1>3, Frame DEF HoldsFiles, KnowsRequest, Deciding, Dispatching
<1>5. PICK label \in {"reject", "cleanup", "confirm", "finally"} :
        /\ LocalStep(s, label) /\ UNCHANGED held
        /\ label = "reject" => code[s] = "rejected"
        /\ label = "cleanup" => code[s] = "failed_before_runner"
        /\ label = "confirm" => code[s] = "zero"
  <2>1. /\ next \in {"reject", "cleanup", "confirm", "finally"}
        /\ next = "reject" => code[s] = "rejected"
        /\ next = "cleanup" => code[s] = "failed_before_runner"
        /\ next = "confirm" => code[s] = "zero"
    OBVIOUS
  <2> HIDE DEF next
  <2>2. /\ inFlight' = inFlight /\ held' = held
        /\ \E label \in {next, "finally"} : pc' = [pc EXCEPT ![s] = label]
    BY <1>1, <1>3, <1>4 DEF WriteInFlight, Goto
  <2> QED BY <1>3, <2>1, <2>2 DEF LocalStep
<1> HIDE DEF next
<1>6. /\ pc' = [pc EXCEPT ![s] = label] /\ pc'[s] = label
      /\ UNCHANGED <<lock, inFlight, processed, chain, runs, thread, held>>
  BY <1>1, <1>5 DEF LocalStep
<1>7. label # "finally" => ~AtWork(s)
  BY <1>2, <1>4, <1>5 DEF WorkInv, WorksOn
<1>8. HoldsFiles(s)'
  BY <1>2, <1>3, <1>4, <1>5, <1>6
     DEF HoldsFiles, Recovering, Idle, Dispatching, Owning
<1>9. AtWork(s)' <=> AtWork(s)
  BY <1>3, Frame
<1>10. KnowsRequest(s)'
  BY <1>3, <1>4, <1>5, <1>6, <1>7, <1>9 DEF KnowsRequest, Deciding, Dispatching
<1>11. Alive(s) /\ label \in Labels \ {"off"}
  BY <1>3, <1>5 DEF Alive, Dead, Labels
<1> QED
  BY <1>5, <1>7, <1>8, <1>10, <1>11, LocalKeeps

(* The steps that remove the in_flight record.                             *)
LEMMA RemoveKeeps ==
  ASSUME TypeOK, OperatorInv, NEW s \in Sessions, Alive(s),
         pc[s] \notin {"wait", "identify", "finally"},
         NEW done \in {"quarantine", "finally", "loop"}, NEW failed \in {"finally", "exited"},
         RemoveInFlight(s, done, failed),
         UNCHANGED <<lock, processed, chain, runs, thread, target, job>>,
         inFlight # NoFlight, held[s] = inFlight,
         \A t \in Sessions : ~AtWork(t),
         Recorded(inFlight.req) \/ runs[inFlight.req] = 0,
         done = "quarantine" =>
           target[s] \in Sessions /\ lock = Lock(target[s], "complete") /\ failed = "exited",
         done # "quarantine" => pc[s] \in Owning /\ failed = "finally"
  PROVE  OperatorInv'
<1>1. /\ pc \in [Sessions -> Labels] /\ runs \in [Requests -> Nat]
      /\ HoldsFiles(s) /\ FlightInv /\ RunsInv
  BY DEF TypeOK, OperatorInv, SharedInv
<1>2. PICK label \in {done, failed} :
        /\ pc' = [pc EXCEPT ![s] = label]
        /\ inFlight' \in {inFlight, NoFlight}
        /\ inFlight' # NoFlight => label = failed
        /\ label \notin {"finally", "exited"} => inFlight' = NoFlight
  BY DEF RemoveInFlight, Goto
<1>3. label \in {"quarantine", "finally", "loop", "exited"} /\ pc'[s] = label
  BY <1>1, <1>2
<1>4. HoldsFiles(s)'
  BY <1>1, <1>2, <1>3 DEF HoldsFiles, Recovering, Idle, Dispatching, Owning
<1>5. KnowsRequest(s)'
  BY <1>3 DEF KnowsRequest, Deciding, Dispatching
<1>6. label \in Labels \ {"off"}
  BY <1>3 DEF Labels
<1>7. CASE UNCHANGED inFlight
  BY <1>2, <1>4, <1>5, <1>6, <1>7, LocalKeeps DEF LocalStep
<1>8. CASE inFlight' = NoFlight
  <2>1. FlightInv'
    BY <1>8 DEF FlightInv
  <2>2. \A r \in Requests : ~(runs[r] > 0 /\ ~Recorded(r))
    BY <1>1 DEF RunsInv
  <2> QED BY <1>2, <1>4, <1>5, <1>6, <2>1, <2>2, FlightKeeps
<1> QED BY <1>2, <1>7, <1>8

LEMMA RemovesKeep ==
  ASSUME TypeOK, OperatorInv, NEW s \in Sessions, RecRemove(s) \/ Cleanup(s) \/ Remove(s)
  PROVE  OperatorInv'
<1> USE DEF local, execution
<1>1. HoldsFiles(s) /\ KnowsRequest(s) /\ WorkInv /\ FlightInv
  BY DEF OperatorInv, SharedInv
<1>2. ASSUME RecRemove(s) PROVE OperatorInv'
  <2>1. /\ pc[s] = "recRemove" /\ RemoveInFlight(s, "quarantine", "exited")
        /\ UNCHANGED <<lock, processed, chain, runs, thread, target, job>>
    BY <1>2 DEF RecRemove
  <2>2. /\ held[s] = inFlight /\ inFlight # NoFlight /\ Recorded(inFlight.req)
        /\ target[s] \in Sessions /\ lock = Lock(target[s], "complete")
    BY <1>1, <2>1 DEF HoldsFiles, KnowsRequest, Recovering
  <2>3. \A t \in Sessions : ~AtWork(t)
    BY <1>1, <2>2, FlightFields DEF WorkInv, WorksOn
  <2> QED BY <2>1, <2>2, <2>3, RemoveKeeps DEF Alive, Dead
<1>3. ASSUME Cleanup(s) PROVE OperatorInv'
  <2>1. /\ pc[s] = "cleanup" /\ RemoveInFlight(s, "finally", "finally")
        /\ UNCHANGED <<lock, processed, chain, runs, thread, target, job>>
    BY <1>3 DEF Cleanup
  <2>2. /\ held[s] = inFlight /\ inFlight = Flight(s, job[s], "DISPATCHED")
        /\ ~AtWork(s) /\ runs[job[s]] = 0
    BY <1>1, <2>1 DEF HoldsFiles, KnowsRequest, Dispatching
  <2>3. inFlight # NoFlight /\ runs[inFlight.req] = 0 /\ pc[s] \in Owning
    BY <2>1, <2>2, FlightFields DEF Owning
  <2>4. \A t \in Sessions : ~AtWork(t)
    BY <1>1, <2>2, FlightFields DEF WorkInv, WorksOn
  <2> QED BY <2>1, <2>2, <2>3, <2>4, RemoveKeeps DEF Alive, Dead
<1>4. ASSUME Remove(s) PROVE OperatorInv'
  <2>1. /\ pc[s] = "remove" /\ RemoveInFlight(s, AfterSettlement(s), "finally")
        /\ UNCHANGED <<lock, processed, chain, runs, thread, target, job>>
        /\ AfterSettlement(s) \in {"loop", "finally"}
    BY <1>4 DEF Remove, AfterSettlement
  <2>2. /\ held[s] = inFlight /\ inFlight = Flight(s, job[s], "PROCESSED")
        /\ Recorded(job[s])
    BY <1>1, <2>1 DEF HoldsFiles, KnowsRequest
  <2>3. inFlight # NoFlight /\ Recorded(inFlight.req) /\ pc[s] \in Owning
    BY <2>1, <2>2, FlightFields DEF Owning
  <2>4. \A t \in Sessions : ~AtWork(t)
    BY <1>1, <2>2, FlightFields DEF WorkInv, WorksOn
  <2> QED BY <2>1, <2>2, <2>3, <2>4, RemoveKeeps DEF Alive, Dead
<1> QED BY <1>2, <1>3, <1>4
-----------------------------------------------------------------------------
(* The dispatcher is created, or is known not to be.                       *)
LEMMA SpawnKeeps ==
  ASSUME TypeOK, OperatorInv, NEW s \in Sessions, Spawn(s)
  PROVE  OperatorInv'
<1> USE DEF Step, Goto, files
<1>1. /\ pc \in [Sessions -> Labels] /\ chain \in [Sessions -> Chains]
  BY DEF TypeOK
<1>2. SharedInv /\ OneAlive /\ HoldsFiles(s) /\ KnowsRequest(s)
  BY DEF OperatorInv, SharedInv
<1>3. /\ pc[s] = "spawn" /\ Alive(s)
      /\ UNCHANGED <<lock, inFlight, processed, runs, thread, held, job>>
  BY DEF Spawn, Alive, Dead
<1>4. /\ held[s] = inFlight /\ inFlight = Flight(s, job[s], "DISPATCHED")
      /\ job[s] \in Requests /\ ~Recorded(job[s]) /\ ~Recorded(job[s])'
      /\ TrustedResults(job[s]) = {} /\ TrustedResults(job[s])' = {}
      /\ runs[job[s]] = 0
  BY <1>2, <1>3, Frame DEF HoldsFiles, KnowsRequest, Deciding, Dispatching
<1>5. \A t \in Sessions : ~AtWork(t)
  BY <1>2, <1>3, <1>4, FlightFields DEF SharedInv, WorkInv, WorksOn
<1>6. ASSUME NEW label \in {"cleanup", "finally"}, pc' = [pc EXCEPT ![s] = label],
             UNCHANGED chain
      PROVE  OperatorInv'
  <2>1. HoldsFiles(s)'
    BY <1>1, <1>2, <1>3, <1>4, <1>6 DEF HoldsFiles, Recovering, Idle, Dispatching, Owning
  <2>2. KnowsRequest(s)'
    BY <1>1, <1>3, <1>4, <1>5, <1>6, Frame DEF KnowsRequest, Deciding, Dispatching
  <2> QED BY <1>3, <1>6, <2>1, <2>2, LocalKeeps DEF LocalStep, Labels
<1>7. ASSUME pc' = [pc EXCEPT ![s] = "wait"],
             chain' = [chain EXCEPT ![s] = Chain(job[s], "admit")]
      PROVE  OperatorInv'
  <2>1. /\ OneAlive' /\ pc'[s] = "wait"
        /\ \A t \in Sessions : t # s => HoldsFiles(t)' /\ KnowsRequest(t)'
    BY <1>2, <1>3, <1>7, Others DEF Labels
  <2>2. /\ chain'[s] = Chain(job[s], "admit")
        /\ \A t \in Sessions : t # s => chain'[t] = chain[t]
    BY <1>1, <1>7
  <2>3. HoldsFiles(s)'
    BY <1>2, <1>3, <1>4, <2>1 DEF HoldsFiles, Recovering, Idle, Dispatching, Owning
  <2>4. KnowsRequest(s)'
    BY <1>3, <1>4, <2>1, <2>2 DEF KnowsRequest, Deciding, Dispatching, Chain
  <2>5. WorkInv'
    <3> SUFFICES ASSUME NEW t \in Sessions, AtWork(t)' PROVE WorksOn(t, chain[t].req)'
      BY DEF WorkInv
    <3>1. t = s
      BY <1>5, <2>2 DEF AtWork
    <3> QED BY <1>3, <1>4, <2>1, <2>2, <3>1 DEF WorksOn, Chain
  <2>6. (lock # NoLock => lock.owner \in Sessions)' /\ (thread \subseteq Comments)'
    BY <1>2, <1>3 DEF SharedInv, Comments
  <2>7. FlightInv' /\ RunsInv' /\ RecordInv'
    BY <1>2, <1>3, Frame
       DEF SharedInv, FlightInv, RunsInv, RecordInv, RecordedOnce, RecordsOf
  <2> QED
    BY <2>1, <2>3, <2>4, <2>5, <2>6, <2>7 DEF OperatorInv, SharedInv
<1> QED BY <1>6, <1>7 DEF Spawn
-----------------------------------------------------------------------------
(* The dispatcher and the runner.                                          *)

(* What a step of the dispatcher of session s, or of the runner it left    *)
(* behind, may do to what it works on.                                     *)
WorkStep(s, r, after) ==
  /\ chain' = [chain EXCEPT ![s] = after]
  /\ after.req = r /\ after.phase # "admit"
  /\ UNCHANGED <<lock, inFlight, processed, pc, target, held, job, verdict, code>>
  /\ \/ UNCHANGED runs
     \/ /\ runs[r] = 0 /\ r \notin HealthProbes /\ runs' = [runs EXCEPT ![r] = 1]
        /\ after.phase = "run" /\ UNCHANGED thread
  /\ \/ UNCHANGED thread
     \/ \E result \in {"success", "failure"} :
          thread' = thread \cup {ResultComment(s, "owner", R!ResultBody, r, result)}
  /\ after.phase \in {"run", "post", "orphan"} =>
       after.code \in {"none", "other"} /\ UNCHANGED thread
  /\ after.phase = "post" => after.result \in {"success", "failure"}
  /\ after.code = "rejected" => runs[r] = 0 /\ UNCHANGED thread
  /\ after.code = "failed_before_runner" => runs[r] = 0
  /\ chain[s].phase = "orphan" => after.code = chain[s].code /\ after.phase = "ended"

LEMMA WorkStepKeeps ==
  ASSUME TypeOK, OperatorInv, NEW s \in Sessions, AtWork(s), NEW r, r = chain[s].req,
         NEW after, WorkStep(s, r, after)
  PROVE  OperatorInv'
<1>1. /\ pc \in [Sessions -> Labels] /\ chain \in [Sessions -> Chains]
      /\ runs \in [Requests -> Nat]
  BY DEF TypeOK
<1>2. SharedInv /\ OneAlive
  BY DEF OperatorInv, SharedInv
<1>3. WorksOn(s, r)
  BY <1>2 DEF SharedInv, WorkInv
<1>4. /\ r \in Requests /\ inFlight = Flight(s, r, "DISPATCHED") /\ ~Recorded(r)
      /\ TrustedResults(r) = {}
      /\ pc[s] \in {"wait", "identify", "finally", "exited", "crashed"}
  BY <1>3 DEF WorksOn
<1>5. UNCHANGED <<lock, inFlight, processed, pc, target, held, job, verdict, code>>
  BY DEF WorkStep
<1>6. /\ chain'[s] = after /\ after.req = r
      /\ \A t \in Sessions : t # s => chain'[t] = chain[t]
  BY <1>1 DEF WorkStep
<1>7. /\ \A q \in Requests : q # r => runs'[q] = runs[q]
      /\ runs'[r] <= 1
      /\ r \in HealthProbes => runs'[r] = 0
  <2>1. runs[r] <= 1 /\ (r \in HealthProbes => runs[r] = 0)
    BY <1>2, <1>4 DEF SharedInv, RunsInv
  <2> QED BY <1>1, <1>4, <2>1 DEF WorkStep
<1>8. /\ thread' \subseteq Comments /\ thread \subseteq thread'
      /\ \A q \in Requests : q # r => TrustedResults(q)' = TrustedResults(q)
  <2>1. ASSUME NEW result \in {"success", "failure"},
               thread' = thread \cup {ResultComment(s, "owner", R!ResultBody, r, result)}
        PROVE  /\ thread' \subseteq Comments
               /\ \A q \in Requests : q # r => TrustedResults(q)' = TrustedResults(q)
    <3>1. ResultComment(s, "owner", R!ResultBody, r, result) \in Comments
      BY <1>4 DEF Comments
    <3>2. ResultComment(s, "owner", R!ResultBody, r, result).request = r
      BY DEF ResultComment
    <3> QED BY <1>2, <2>1, <3>1, <3>2 DEF SharedInv, TrustedResults
  <2> QED BY <1>2, <2>1, Frame DEF WorkStep, SharedInv
<1>9. \A q : Recorded(q)' <=> Recorded(q)
  BY <1>5, Frame
<1>10. \A q \in Requests : \A outcome : q # r /\ Backed(q, outcome) => Backed(q, outcome)'
  BY <1>7, <1>8 DEF Backed
<1>11. OneAlive'
  BY <1>2, <1>5 DEF OneAlive, Alive, Dead
<1>12. (lock # NoLock => lock.owner \in Sessions)' /\ (thread \subseteq Comments)'
  BY <1>2, <1>5, <1>8 DEF SharedInv, Comments
<1>13. FlightInv'
  BY <1>2, <1>4, <1>5, <1>9, FlightFields DEF SharedInv, FlightInv
<1>14. WorkInv'
  <2> SUFFICES ASSUME NEW t \in Sessions, AtWork(t)' PROVE WorksOn(t, chain[t].req)'
    BY DEF WorkInv
  <2>1. t = s
    <3>1. t # s => AtWork(t) /\ inFlight = Flight(t, chain[t].req, "DISPATCHED")
      BY <1>2, <1>6 DEF AtWork, SharedInv, WorkInv, WorksOn
    <3> QED BY <1>4, <3>1, FlightFields
  <2>2. after.phase \in {"run", "post", "orphan"}
    BY <1>6, <2>1 DEF AtWork, WorkStep
  <2>3. /\ after.code \in {"none", "other"} /\ UNCHANGED thread
        /\ after.phase = "post" => after.result \in {"success", "failure"}
    BY <2>2 DEF WorkStep
  <2>4. TrustedResults(r)' = {}
    BY <1>4, <2>3, Frame
  <2> QED BY <1>4, <1>5, <1>6, <1>9, <2>1, <2>2, <2>3, <2>4 DEF WorksOn
<1>15. RunsInv'
  BY <1>2, <1>4, <1>5, <1>7, <1>9, FlightFields DEF SharedInv, RunsInv
<1>16. RecordInv'
  <2>1. RecordedOnce'
    BY <1>2, <1>5 DEF SharedInv, RecordInv, RecordedOnce, RecordsOf
  <2>2. ASSUME NEW i \in DOMAIN processed, processed[i] # TornRecord
        PROVE  processed[i].req \in Requests /\ Backed(processed[i].req, processed[i].outcome)'
    <3>1. processed[i].req \in Requests /\ Backed(processed[i].req, processed[i].outcome)
      BY <1>2, <2>2 DEF SharedInv, RecordInv
    <3>2. processed[i].req # r
      BY <1>4 DEF Recorded, RecordsOf
    <3>3. UNCHANGED processed
      BY <1>5
    <3> QED BY <1>10, <3>1, <3>2, <3>3
  <2> QED BY <1>5, <2>1, <2>2 DEF RecordInv
<1>17. ASSUME NEW t \in Sessions PROVE HoldsFiles(t)' /\ KnowsRequest(t)'
  <2>1. HoldsFiles(t) /\ KnowsRequest(t)
    BY DEF OperatorInv
  <2>2. HoldsFiles(t)'
    BY <1>5, <2>1 DEF HoldsFiles
  <2>3. CASE t = s
    <3>1. (pc[s] \in {"wait", "identify"} =>
            /\ chain[s].req = job[s]
            /\ chain[s].code = "rejected" => runs[job[s]] = 0 /\ TrustedResults(job[s]) = {}
            /\ chain[s].code = "failed_before_runner" => runs[job[s]] = 0)'
      <4>1. pc[s] \in {"wait", "identify"} => job[s] = r /\ chain'[s].req = r
        BY <1>6, <2>1, <2>3 DEF KnowsRequest
      <4>2. after.code = "rejected" => runs[r] = 0 /\ UNCHANGED thread
        BY DEF WorkStep
      <4>3. after.code \in {"rejected", "failed_before_runner"} => runs'[r] = 0
        BY <1>4 DEF WorkStep
      <4>4. UNCHANGED thread => TrustedResults(r)' = {}
        BY <1>4, Frame
      <4> QED BY <1>5, <1>6, <4>1, <4>2, <4>3, <4>4
    <3>2. (pc[s] = "identify" =>
            code[s] = "timeout" \/ (code[s] = chain[s].code /\ ~ChainVisible(s)))'
      <4>1. pc[s] = "identify" /\ code[s] # "timeout" =>
              code[s] = chain[s].code /\ chain[s].phase = "orphan"
        BY <2>1, <2>3 DEF KnowsRequest, ChainVisible, AtWork
      <4>2. pc[s] = "identify" /\ code[s] # "timeout" =>
              code[s] = after.code /\ after.phase = "ended"
        BY <4>1 DEF WorkStep
      <4> QED BY <1>5, <1>6, <4>2 DEF ChainVisible
    <3>3. pc[s] \in Deciding => ~Recorded(job[s])'
      BY <1>5, <1>9, <2>1, <2>3 DEF KnowsRequest
    <3>4. pc[s] \in Deciding \cup {"delegate", "mark", "remove"} => job[s] \in Requests
      BY <2>1, <2>3 DEF KnowsRequest
    <3>5. KnowsRequest(s)'
      BY <1>4, <1>5, <3>1, <3>2, <3>3, <3>4 DEF KnowsRequest, Deciding, Dispatching
    <3> QED BY <2>2, <2>3, <3>5
  <2>4. CASE t # s
    <3>1. AtWork(t)' <=> AtWork(t)
      BY <1>6, <2>4 DEF AtWork
    <3>2. pc[t] \notin {"wait", "identify", "spawn", "reject", "cleanup", "prepare",
                        "commit", "settle", "append"}
      BY <1>4, <2>1, <2>4, FlightFields
         DEF HoldsFiles, Idle, Dispatching
    <3>3. pc[t] = "recAppend" => Backed(held[t].req, verdict[t])'
      <4>1. pc[t] = "recAppend" =>
              /\ held[t] = inFlight /\ Backed(held[t].req, verdict[t])
              /\ verdict[t] # "rejected"
        BY <1>4, <2>1, FlightFields DEF HoldsFiles, KnowsRequest, Recovering
      <4>2. pc[t] = "recAppend" => FALSE
        BY <1>4, <4>1, FlightFields DEF Backed, Outcomes
      <4> QED BY <4>2
    <3>4. KnowsRequest(t)'
      BY <1>5, <1>9, <2>1, <3>2, <3>3 DEF KnowsRequest, Deciding, Dispatching
    <3> QED BY <2>2, <3>4
  <2> QED BY <2>3, <2>4
<1> QED
  BY <1>11, <1>12, <1>13, <1>14, <1>15, <1>16, <1>17 DEF OperatorInv, SharedInv

LEMMA DispatcherKeeps ==
  ASSUME TypeOK, OperatorInv, NEW s \in Sessions, Dispatcher(s) \/ KillDispatcher(s)
  PROVE  OperatorInv'
<1> USE DEF files, local
<1> DEFINE r == chain[s].req
<1>1. chain \in [Sessions -> Chains] /\ runs \in [Requests -> Nat]
  BY DEF TypeOK
<1>2. AtWork(s)
  BY DEF Dispatcher, Admit, RunnerReturns, PostResult, OrphanEnds, KillDispatcher,
         ChainVisible, AtWork
<1>3. WorksOn(s, r) /\ RunsInv
  BY <1>2 DEF OperatorInv, SharedInv, WorkInv
<1>4. r \in Requests /\ chain[s].code \in {"none", "other"}
      /\ (r \in HealthProbes => runs[r] = 0)
      /\ (chain[s].phase = "admit" => runs[r] = 0)
      /\ (chain[s].phase = "post" => chain[s].result \in {"success", "failure"})
  BY <1>3 DEF WorksOn, RunsInv
<1>5. SUFFICES \E after : WorkStep(s, r, after)
  BY <1>2, WorkStepKeeps
<1>6. ASSUME Admit(s) PROVE \E after : WorkStep(s, r, after)
  <2>1. /\ chain[s].phase = "admit"
        /\ UNCHANGED <<lock, inFlight, processed, pc, target, held, job, verdict, code, thread>>
    BY <1>6 DEF Admit
  <2>2. ASSUME NEW exit \in {"rejected", "failed_before_runner"}, Ended(s, exit),
               UNCHANGED runs
        PROVE  \E after : WorkStep(s, r, after)
    <3> DEFINE after == [chain[s] EXCEPT !.phase = "ended", !.code = exit]
    <3>1. /\ chain' = [chain EXCEPT ![s] = after]
          /\ after.req = r /\ after.phase = "ended" /\ after.code = exit
      BY <1>1, <2>2 DEF Ended, Chains
    <3> HIDE DEF after
    <3>2. WorkStep(s, r, after)
      BY <1>4, <2>1, <2>2, <3>1 DEF WorkStep
    <3> QED BY <3>2
  <2>3. ASSUME r \in HealthProbes, UNCHANGED runs,
               chain' = [chain EXCEPT ![s].phase = "post", ![s].result = "success"]
        PROVE  \E after : WorkStep(s, r, after)
    <3> DEFINE after == [chain[s] EXCEPT !.phase = "post", !.result = "success"]
    <3>1. /\ chain' = [chain EXCEPT ![s] = after]
          /\ after.req = r /\ after.phase = "post" /\ after.result = "success"
          /\ after.code = chain[s].code
      BY <1>1, <2>3 DEF Chains
    <3> HIDE DEF after
    <3>2. WorkStep(s, r, after)
      BY <1>4, <2>1, <2>3, <3>1 DEF WorkStep
    <3> QED BY <3>2
  <2>4. ASSUME r \notin HealthProbes, chain' = [chain EXCEPT ![s].phase = "run"],
               runs' = [runs EXCEPT ![r] = @ + 1]
        PROVE  \E after : WorkStep(s, r, after)
    <3> DEFINE after == [chain[s] EXCEPT !.phase = "run"]
    <3>1. /\ chain' = [chain EXCEPT ![s] = after]
          /\ after.req = r /\ after.phase = "run" /\ after.code = chain[s].code
      BY <1>1, <2>4 DEF Chains
    <3> HIDE DEF after
    <3>2. runs[r] = 0 /\ runs' = [runs EXCEPT ![r] = 1]
      <4>1. runs[r] = 0
        BY <1>4, <2>1
      <4> HIDE DEF r
      <4> QED BY <2>4, <4>1
    <3>3. WorkStep(s, r, after)
      BY <1>4, <2>1, <2>4, <3>1, <3>2 DEF WorkStep
    <3> QED BY <3>3
  <2> QED BY <1>6, <2>2, <2>3, <2>4 DEF Admit
<1>7. ASSUME RunnerReturns(s) PROVE \E after : WorkStep(s, r, after)
  <2>1. /\ chain[s].phase = "run"
        /\ UNCHANGED <<lock, inFlight, processed, pc, target, held, job, verdict, code,
                       thread, runs>>
    BY <1>7 DEF RunnerReturns
  <2>2. PICK result \in {"success", "failure"} :
          chain' = [chain EXCEPT ![s].phase = "post", ![s].result = result]
    BY <1>7 DEF RunnerReturns
  <2> DEFINE after == [chain[s] EXCEPT !.phase = "post", !.result = result]
  <2>3. /\ chain' = [chain EXCEPT ![s] = after]
        /\ after.req = r /\ after.phase = "post" /\ after.result = result
        /\ after.code = chain[s].code
    BY <1>1, <2>2 DEF Chains
  <2> HIDE DEF after
  <2>4. WorkStep(s, r, after)
    BY <1>4, <2>1, <2>3 DEF WorkStep
  <2> QED BY <2>4
<1>8. ASSUME PostResult(s) PROVE \E after : WorkStep(s, r, after)
  <2>1. /\ chain[s].phase = "post"
        /\ UNCHANGED <<lock, inFlight, processed, pc, target, held, job, verdict, code, runs>>
    BY <1>8 DEF PostResult
  <2>2. PICK exit \in {"zero", "failed_before_runner", "runner_reach_uncertain"} :
          /\ Ended(s, exit) /\ thread' \in {thread, Posted(s)}
          /\ exit = "failed_before_runner" => r \in HealthProbes
    BY <1>8 DEF PostResult
  <2> DEFINE after == [chain[s] EXCEPT !.phase = "ended", !.code = exit]
  <2>3. /\ chain' = [chain EXCEPT ![s] = after]
        /\ after.req = r /\ after.phase = "ended" /\ after.code = exit
    BY <1>1, <2>2 DEF Ended, Chains
  <2> HIDE DEF after
  <2>4. WorkStep(s, r, after)
    BY <1>4, <2>1, <2>2, <2>3 DEF WorkStep, Posted
  <2> QED BY <2>4
<1>9. ASSUME OrphanEnds(s) PROVE \E after : WorkStep(s, r, after)
  <2>1. /\ chain[s].phase = "orphan"
        /\ UNCHANGED <<lock, inFlight, processed, pc, target, held, job, verdict, code,
                       thread, runs>>
        /\ chain' = [chain EXCEPT ![s].phase = "ended"]
    BY <1>9 DEF OrphanEnds
  <2> DEFINE after == [chain[s] EXCEPT !.phase = "ended"]
  <2>2. /\ chain' = [chain EXCEPT ![s] = after]
        /\ after.req = r /\ after.phase = "ended" /\ after.code = chain[s].code
    BY <1>1, <2>1 DEF Chains
  <2> HIDE DEF after
  <2>3. WorkStep(s, r, after)
    BY <1>4, <2>1, <2>2 DEF WorkStep
  <2> QED BY <2>3
<1>10. ASSUME KillDispatcher(s) PROVE \E after : WorkStep(s, r, after)
  <2>1. /\ chain[s].phase # "orphan"
        /\ UNCHANGED <<lock, inFlight, processed, pc, target, held, job, verdict, code,
                       thread, runs>>
        /\ chain' = [chain EXCEPT ![s] = Killed(chain[s])]
    BY <1>10 DEF KillDispatcher, ChainVisible
  <2>2. /\ Killed(chain[s]).req = r /\ Killed(chain[s]).code = "other"
        /\ Killed(chain[s]).phase \in {"orphan", "ended"}
    BY <1>1 DEF Killed, Chains
  <2>3. WorkStep(s, r, Killed(chain[s]))
    BY <2>1, <2>2 DEF WorkStep
  <2> QED BY <2>3
<1> QED BY <1>6, <1>7, <1>8, <1>9, <1>10 DEF Dispatcher
-----------------------------------------------------------------------------
(* What happens on GitHub: nothing that anybody trusts.                    *)
LEMMA IssuesKeep ==
  ASSUME TypeOK, OperatorInv, NEW r \in Requests,
         Relay(r) \/ Expire(r) \/ ForeignComment(r)
  PROVE  OperatorInv'
<1>1. UNCHANGED <<files, pc, local, execution>>
  BY DEF Relay, Expire, ForeignComment
<1>2. UNCHANGED <<lock, inFlight, processed, pc, target, held, job, verdict, code, chain, runs>>
  BY <1>1 DEF files, local, execution
<1>3. SharedInv
  BY DEF OperatorInv
<1>4. thread' \subseteq Comments /\ \A q : TrustedResults(q)' = TrustedResults(q)
  <2> DEFINE comment == ResultComment(NoSession, "stranger", R!ResultBody, r, "success")
  <2>1. comment \in Comments /\ comment.author = "stranger"
    BY DEF Comments, ResultComment
  <2> HIDE DEF comment
  <2>2. thread' \in {thread, thread \cup {comment}}
    BY DEF Relay, Expire, ForeignComment, comment
  <2> QED BY <1>3, <2>1, <2>2 DEF SharedInv, TrustedResults
<1>5. \A q, outcome : Backed(q, outcome)' <=> Backed(q, outcome)
  BY <1>2, <1>4 DEF Backed
<1>6. (lock # NoLock => lock.owner \in Sessions)' /\ (thread \subseteq Comments)' /\ OneAlive'
  BY <1>2, <1>3, <1>4 DEF SharedInv, OneAlive, Alive, Dead, Comments
<1>7. FlightInv' /\ WorkInv' /\ RunsInv'
  BY <1>2, <1>3, <1>4, Frame DEF SharedInv, FlightInv, WorkInv, WorksOn, RunsInv
<1>8. RecordInv'
  BY <1>2, <1>3, <1>5 DEF SharedInv, RecordInv, RecordedOnce, RecordsOf
<1>9. ASSUME NEW t \in Sessions PROVE HoldsFiles(t)' /\ KnowsRequest(t)'
  <2>1. HoldsFiles(t) /\ KnowsRequest(t)
    BY DEF OperatorInv
  <2>2. HoldsFiles(t)'
    BY <1>2, <2>1 DEF HoldsFiles
  <2>3. KnowsRequest(t)'
    BY <1>2, <1>4, <1>5, <2>1, Frame DEF KnowsRequest
  <2> QED BY <2>2, <2>3
<1> QED BY <1>6, <1>7, <1>8, <1>9 DEF OperatorInv, SharedInv

LEMMA StutterKeeps ==
  ASSUME OperatorInv, UNCHANGED vars
  PROVE  OperatorInv'
<1>1. UNCHANGED <<lock, inFlight, processed, pc, target, held, job, verdict, code, chain,
                  runs, thread>>
  BY DEF vars, files, local, execution
<1>2. SharedInv'
  BY <1>1, Frame DEF OperatorInv, SharedInv, OneAlive, Alive, Dead, Comments, FlightInv,
       WorkInv, WorksOn, RunsInv, RecordInv, RecordedOnce, RecordsOf
<1>3. ASSUME NEW t \in Sessions PROVE HoldsFiles(t)' /\ KnowsRequest(t)'
  BY <1>1, Frame DEF OperatorInv, HoldsFiles, KnowsRequest
<1> QED BY <1>2, <1>3 DEF OperatorInv

LEMMA OperatorInvStarts ==
  ASSUME Init
  PROVE  OperatorInv
<1>1. \A s \in Sessions : pc[s] = "off" /\ chain[s] = NoChain
  BY DEF Init
<1>2. \A s \in Sessions : HoldsFiles(s) /\ KnowsRequest(s)
  BY <1>1 DEF HoldsFiles, KnowsRequest, Recovering, Idle, Dispatching, Deciding, Owning
<1>3. OneAlive /\ WorkInv
  BY <1>1 DEF OneAlive, Alive, WorkInv, AtWork, NoChain, Chain
<1>4. lock = NoLock /\ inFlight = NoFlight /\ processed = <<>> /\ thread = {}
      /\ \A r \in Requests : runs[r] = 0
  BY DEF Init
<1>5. FlightInv /\ RunsInv /\ RecordInv
  BY <1>4 DEF FlightInv, RunsInv, RecordInv, RecordedOnce, RecordsOf
<1> QED BY <1>2, <1>3, <1>4, <1>5 DEF OperatorInv, SharedInv

(* Every step keeps the invariant ...                                      *)
LEMMA OperatorInvKept ==
  ASSUME MaxAlive <= 1, TypeOK, OperatorInv, [Next]_vars
  PROVE  OperatorInv'
<1>1. ASSUME NEW s \in Sessions, StartUp(s) PROVE OperatorInv'
  BY <1>1, StartUpKeeps, AppendsKeep, WritesKeep, RemovesKeep, LockKeeps DEF StartUp
<1>2. ASSUME NEW s \in Sessions, Loop(s) PROVE OperatorInv'
  BY <1>2, LoopKeeps, AppendsKeep, WritesKeep, SpawnKeeps, EndKeeps, RecordDispatcherKeeps,
     RemovesKeep, LockKeeps DEF Loop
<1>3. ASSUME NEW s \in Sessions, Start(s) \/ Dispatcher(s) \/ Hazard(s) PROVE OperatorInv'
  BY <1>3, StartKeeps, DispatcherKeeps, EndKeeps DEF Hazard
<1>4. ASSUME NEW r \in Requests, Relay(r) \/ Expire(r) \/ ForeignComment(r) PROVE OperatorInv'
  BY <1>4, IssuesKeep
<1> QED BY <1>1, <1>2, <1>3, <1>4, StutterKeeps DEF Next, Operator

(* ... so that it always holds.                                            *)
THEOREM OperatorInvariant ==
  ASSUME MaxAlive <= 1
  PROVE  Spec => []OperatorInv
<1>1. Init => OperatorInv
  BY OperatorInvStarts
<1>2. TypeOK /\ OperatorInv /\ [Next]_vars => OperatorInv'
  BY OperatorInvKept
<1>3. Spec => []TypeOK
  BY TypeCorrect
<1> QED BY <1>1, <1>2, <1>3, PTL DEF Spec
-----------------------------------------------------------------------------
(* What the invariant says to a reader of the code.                        *)

(* One operator at a time never lets the runner start twice for a request, *)
(* whatever crashes, times out or is lost in between.                      *)
THEOREM RunsAtMostOnce ==
  ASSUME MaxAlive <= 1
  PROVE  Spec => []RunAtMostOnce
<1>1. OperatorInv => RunAtMostOnce
  BY DEF OperatorInv, SharedInv, RunsInv, RunAtMostOnce
<1> QED BY <1>1, OperatorInvariant, PTL

(* A restart waits until the runner its predecessor left behind is gone.   *)
THEOREM RunnersTakeTurns ==
  ASSUME MaxAlive <= 1
  PROVE  Spec => []OneRunnerAtATime
<1>1. OperatorInv => OneRunnerAtATime
  <2> SUFFICES ASSUME OperatorInv, NEW s \in Sessions, NEW t \in Sessions,
                      RunnerAtWork(s), RunnerAtWork(t)
               PROVE  s = t
    BY DEF OneRunnerAtATime
  <2>1. /\ inFlight = Flight(s, chain[s].req, "DISPATCHED")
        /\ inFlight = Flight(t, chain[t].req, "DISPATCHED")
    BY DEF OperatorInv, SharedInv, WorkInv, WorksOn, RunnerAtWork, AtWork
  <2> QED BY <2>1, FlightFields
<1> QED BY <1>1, OperatorInvariant, PTL

(* The in_flight record never exists without its writer's complete lock.   *)
THEOREM FlightIsLocked ==
  ASSUME MaxAlive <= 1
  PROVE  Spec => []InFlightUnderLock
<1>1. OperatorInv => InFlightUnderLock
  BY DEF OperatorInv, SharedInv, FlightInv, InFlightUnderLock
<1> QED BY <1>1, OperatorInvariant, PTL

(* No request gets a second line in processed_requests.jsonl, so that no   *)
(* restart is stopped by a file the operator itself corrupted that way.    *)
THEOREM RecordsAreUnique ==
  ASSUME MaxAlive <= 1
  PROVE  Spec => []RecordedOnce
<1>1. OperatorInv => RecordedOnce
  BY DEF OperatorInv, SharedInv, RecordInv
<1> QED BY <1>1, OperatorInvariant, PTL

(* Every record says what happened: it is backed by a trusted result, or   *)
(* the request was neither run nor answered.                               *)
THEOREM RecordsAreTrue ==
  ASSUME MaxAlive <= 1
  PROVE  Spec => []RecordsAreBacked
<1>1. OperatorInv => RecordsAreBacked
  <2> SUFFICES ASSUME OperatorInv, NEW i \in DOMAIN processed,
                      processed[i].outcome \in Outcomes
               PROVE  Backed(processed[i].req, processed[i].outcome)
    BY DEF RecordsAreBacked, Backed, Outcomes
  <2> QED
    BY DEF OperatorInv, SharedInv, RecordInv, TornRecord, Record, Outcomes
<1> QED BY <1>1, OperatorInvariant, PTL
-----------------------------------------------------------------------------
(* What the steps do to the files, seen from outside.                      *)

(* A write that a live session makes is one of the promised transitions, or*)
(* marks as processed what is recorded.                                    *)
Prepares(s, r) == inFlight = NoFlight /\ inFlight' = Flight(s, r, "PREPARED")
Dispatches(s, r) ==
  inFlight = Flight(s, r, "PREPARED") /\ inFlight' = Flight(s, r, "DISPATCHED")
Rejects(s, r) ==
  /\ inFlight = Flight(s, r, "DISPATCHED") /\ inFlight' = Flight(s, r, "REJECTED")
  /\ runs[r] = 0

LEMMA WriteMeans ==
  ASSUME TypeOK, OperatorInv, NEW s \in Sessions,
         RecMark(s) \/ Prepare(s) \/ Commit(s) \/ Reject(s) \/ Mark(s) \/ RecordDispatcher(s)
  PROVE  /\ UNCHANGED <<processed, runs>>
         /\ \/ UNCHANGED inFlight
            \/ /\ inFlight # NoFlight /\ Recorded(inFlight.req)
               /\ inFlight' = [inFlight EXCEPT !.stage = "PROCESSED"]
            \/ \E r \in Requests :
                 ~Recorded(r) /\ (Prepares(s, r) \/ Dispatches(s, r) \/ Rejects(s, r))
<1>1. HoldsFiles(s) /\ KnowsRequest(s)
  BY DEF OperatorInv
<1>2. UNCHANGED <<processed, runs>>
  BY DEF RecMark, Prepare, Commit, Reject, Mark, RecordDispatcher, execution
<1>3. ASSUME RecMark(s) \/ Mark(s)
      PROVE  \/ UNCHANGED inFlight
             \/ /\ inFlight # NoFlight /\ Recorded(inFlight.req)
                /\ inFlight' = [inFlight EXCEPT !.stage = "PROCESSED"]
  <2>1. /\ pc[s] \in {"recMark", "mark"}
        /\ inFlight' \in {inFlight, [held[s] EXCEPT !.stage = "PROCESSED"]}
    BY <1>3 DEF RecMark, Mark, WriteInFlight
  <2>2. CASE pc[s] = "recMark"
    BY <1>1, <2>1, <2>2 DEF HoldsFiles, KnowsRequest, Recovering
  <2>3. CASE pc[s] = "mark"
    <3>1. /\ held[s] = inFlight /\ Recorded(job[s])
          /\ \E stage : inFlight = Flight(s, job[s], stage) /\ stage # "NONE"
      BY <1>1, <2>3 DEF HoldsFiles, KnowsRequest
    <3> QED BY <2>1, <3>1, FlightFields
  <2> QED BY <2>1, <2>2, <2>3
<1>4. ASSUME RecordDispatcher(s) PROVE UNCHANGED inFlight
  BY <1>1, <1>4 DEF RecordDispatcher, WriteInFlight, HoldsFiles, Dispatching
<1>5. ASSUME Prepare(s) \/ Commit(s) \/ Reject(s)
      PROVE  \/ UNCHANGED inFlight
             \/ \E r \in Requests :
                  ~Recorded(r) /\ (Prepares(s, r) \/ Dispatches(s, r) \/ Rejects(s, r))
  <2>1. pc[s] \in {"prepare", "commit", "reject"} /\ job[s] \in Requests /\ ~Recorded(job[s])
    BY <1>1, <1>5 DEF Prepare, Commit, Reject, KnowsRequest, Deciding, Dispatching
  <2>2. CASE Prepare(s)
    <3>1. inFlight = NoFlight
      BY <1>1, <2>2 DEF Prepare, HoldsFiles, Idle
    <3>2. inFlight' \in {inFlight, Flight(s, job[s], "PREPARED")}
      BY <2>2 DEF Prepare, WriteInFlight
    <3> QED BY <2>1, <3>1, <3>2 DEF Prepares
  <2>3. CASE Commit(s)
    <3>1. inFlight = Flight(s, job[s], "PREPARED")
      BY <1>1, <2>3 DEF Commit, HoldsFiles
    <3>2. inFlight' \in {inFlight, Flight(s, job[s], "DISPATCHED")}
      BY <2>3 DEF Commit, WriteInFlight
    <3> QED BY <2>1, <3>1, <3>2 DEF Dispatches
  <2>4. CASE Reject(s)
    <3>1. /\ held[s] = inFlight /\ inFlight = Flight(s, job[s], "DISPATCHED")
          /\ runs[job[s]] = 0
      BY <1>1, <2>4 DEF Reject, HoldsFiles, KnowsRequest, Dispatching
    <3>2. inFlight' \in {inFlight, [held[s] EXCEPT !.stage = "REJECTED"]}
      BY <2>4 DEF Reject, WriteInFlight
    <3>3. inFlight' \in {inFlight, Flight(s, job[s], "REJECTED")}
      BY <3>1, <3>2 DEF Flight
    <3> QED BY <2>1, <3>1, <3>3 DEF Rejects
  <2> QED BY <1>5, <2>2, <2>3, <2>4
<1> QED BY <1>2, <1>3, <1>4, <1>5

(* The record is removed when the request is recorded, or when a dispatch  *)
(* of it ended without a runner.                                           *)
LEMMA RemoveMeans ==
  ASSUME TypeOK, OperatorInv, NEW s \in Sessions, RecRemove(s) \/ Cleanup(s) \/ Remove(s)
  PROVE  /\ UNCHANGED <<processed, runs>>
         /\ inFlight' \in {inFlight, NoFlight}
         /\ \A t \in Sessions : ~AtWork(t)
         /\ \/ inFlight # NoFlight /\ Recorded(inFlight.req)
            \/ \E r \in Requests : /\ inFlight = Flight(s, r, "DISPATCHED")
                                   /\ ~Recorded(r) /\ runs[r] = 0
<1>1. HoldsFiles(s) /\ KnowsRequest(s) /\ WorkInv
  BY DEF OperatorInv, SharedInv
<1>2. UNCHANGED <<processed, runs>> /\ inFlight' \in {inFlight, NoFlight}
      /\ pc[s] \in {"recRemove", "cleanup", "remove"}
  BY DEF RecRemove, Cleanup, Remove, RemoveInFlight, execution
<1>3. CASE pc[s] = "recRemove"
  <2>1. inFlight # NoFlight /\ Recorded(inFlight.req)
    BY <1>1, <1>3 DEF HoldsFiles, KnowsRequest, Recovering
  <2> QED BY <1>1, <1>2, <2>1, FlightFields DEF WorkInv, WorksOn
<1>4. CASE pc[s] = "remove"
  <2>1. inFlight = Flight(s, job[s], "PROCESSED") /\ Recorded(job[s])
    BY <1>1, <1>4 DEF HoldsFiles, KnowsRequest
  <2> QED BY <1>1, <1>2, <2>1, FlightFields DEF WorkInv, WorksOn
<1>5. CASE pc[s] = "cleanup"
  <2>1. /\ inFlight = Flight(s, job[s], "DISPATCHED") /\ ~AtWork(s)
        /\ job[s] \in Requests /\ ~Recorded(job[s]) /\ runs[job[s]] = 0
    BY <1>1, <1>5 DEF HoldsFiles, KnowsRequest, Deciding, Dispatching
  <2> QED BY <1>1, <1>2, <2>1, FlightFields DEF WorkInv, WorksOn
<1> QED BY <1>2, <1>3, <1>4, <1>5

(* The request that is recorded has a result or was rejected, and is not   *)
(* merely prepared.                                                        *)
LEMMA AppendMeans ==
  ASSUME TypeOK, OperatorInv, NEW s \in Sessions,
         RecAppend(s) \/ Settle(s) \/ AppendSettled(s)
  PROVE  /\ UNCHANGED <<inFlight, runs>>
         /\ \E r \in Requests :
              /\ ~Recorded(r)
              /\ inFlight.req = r => inFlight.stage \in {"DISPATCHED", "REJECTED"}
              /\ \A q : Recorded(q) => Recorded(q)'
              /\ \A q \in Requests : Recorded(q)' => Recorded(q) \/ q = r
<1>1. HoldsFiles(s) /\ KnowsRequest(s) /\ FlightInv /\ RecordInv
  BY DEF OperatorInv, SharedInv
<1>2. UNCHANGED <<inFlight, runs, thread>> /\ pc[s] \in {"recAppend", "settle", "append"}
  BY DEF RecAppend, Settle, AppendSettled, execution
<1> DEFINE r == IF pc[s] = "recAppend" THEN held[s].req ELSE job[s]
<1>3. /\ r \in Requests /\ ~Recorded(r) /\ Backed(r, verdict[s])
      /\ inFlight.req = r => inFlight.stage \in {"DISPATCHED", "REJECTED"}
  <2>1. CASE pc[s] = "recAppend"
    BY <1>1, <2>1 DEF HoldsFiles, KnowsRequest, Recovering, FlightInv
  <2>2. CASE pc[s] = "settle"
    <3>1. inFlight = NoFlight /\ NoRequest \notin Requests
      BY <1>1, <2>2 DEF HoldsFiles, Idle
    <3> QED BY <1>1, <2>2, <3>1, FlightFields DEF KnowsRequest, Deciding
  <2>3. CASE pc[s] = "append"
    BY <1>1, <2>3, FlightFields DEF HoldsFiles, KnowsRequest, Deciding
  <2> QED BY <1>2, <2>1, <2>2, <2>3
<1>4. \E done, failed : AppendRecord(s, r, verdict[s], done, failed)
  BY DEF RecAppend, Settle, AppendSettled
<1> HIDE DEF r
<1>5. /\ \A q : Recorded(q) => Recorded(q)'
      /\ \A q \in Requests : Recorded(q)' => Recorded(q) \/ q = r
  BY <1>1, <1>2, <1>3, <1>4, AppendEffect
<1> QED BY <1>2, <1>3, <1>5

(* All other steps leave the files alone that tell a restart about a       *)
(* request; of these only the admission by the dispatcher starts a runner. *)
LEMMA OtherSteps ==
  ASSUME [Next]_vars,
         ~\E s \in Sessions :
            \/ RecAppend(s) \/ Settle(s) \/ AppendSettled(s)
            \/ RecMark(s) \/ Prepare(s) \/ Commit(s) \/ Reject(s) \/ Mark(s)
            \/ RecordDispatcher(s) \/ RecRemove(s) \/ Cleanup(s) \/ Remove(s)
  PROVE  /\ UNCHANGED <<inFlight, processed>>
         /\ UNCHANGED runs \/ \E s \in Sessions : Admit(s)
<1> USE DEF files, execution
<1>1. ASSUME NEW s \in Sessions, StartUp(s)
      PROVE  UNCHANGED <<inFlight, processed, runs>>
  BY <1>1 DEF StartUp, ReadState, InspectLock, Recover, RecReconcile, CheckQuarantine,
              RenameLock, AcquireLock, WriteLock, Begin
<1>2. ASSUME NEW s \in Sessions, Loop(s)
      PROVE  UNCHANGED <<inFlight, processed, runs>>
  BY <1>2 DEF Loop, LeaveLoop, PausedCycle, Poll, RefuseProbe, RefuseRequest,
              CheckProcessed, Reconcile, Spawn, Wait, Confirm, Finally, ReleaseLock
<1>3. ASSUME NEW s \in Sessions, Start(s) \/ Dispatcher(s) \/ Hazard(s)
      PROVE  UNCHANGED <<inFlight, processed>> /\ (UNCHANGED runs \/ Admit(s))
  BY <1>3 DEF Start, Dispatcher, Hazard, Admit, RunnerReturns, PostResult, OrphanEnds,
              Crash, KillDispatcher
<1>4. ASSUME NEW r \in Requests, Relay(r) \/ Expire(r) \/ ForeignComment(r)
      PROVE  UNCHANGED <<inFlight, processed, runs>>
  BY <1>4 DEF Relay, Expire, ForeignComment
<1>5. CASE UNCHANGED vars
  BY <1>5 DEF vars
<1> QED BY <1>1, <1>2, <1>3, <1>4, <1>5 DEF Next, Operator

(* The record of a dispatch never just disappears: then the request is     *)
(* recorded, or nothing ran for it and nothing is at work on it any more.  *)
THEOREM FlightEndsSettled ==
  ASSUME MaxAlive <= 1
  PROVE  Spec => InFlightEndsSettled
<1> DEFINE Settled == LET r == inFlight.req
                      IN \/ Recorded(r)
                         \/ /\ runs[r] = 0
                            /\ \A s \in Sessions : chain[s].req = r => ~ChainVisible(s)
           Ends == inFlight.stage \in Stages \ {"PREPARED"} /\ inFlight' = NoFlight => Settled
<1>1. TypeOK /\ OperatorInv /\ [Next]_vars => [Ends]_vars
  <2> SUFFICES ASSUME TypeOK, OperatorInv, Next,
                      inFlight.stage \in Stages \ {"PREPARED"}, inFlight' = NoFlight
               PROVE  Settled
    OBVIOUS
  <2>1. inFlight # NoFlight
    BY FlightFields DEF Stages
  <2>2. PICK s \in Sessions :
          \/ RecAppend(s) \/ Settle(s) \/ AppendSettled(s)
          \/ RecMark(s) \/ Prepare(s) \/ Commit(s) \/ Reject(s) \/ Mark(s)
          \/ RecordDispatcher(s) \/ RecRemove(s) \/ Cleanup(s) \/ Remove(s)
    BY <2>1, OtherSteps
  <2>3. CASE RecAppend(s) \/ Settle(s) \/ AppendSettled(s)
    BY <2>1, <2>3, AppendMeans
  <2>4. CASE \/ RecMark(s) \/ Prepare(s) \/ Commit(s) \/ Reject(s) \/ Mark(s)
             \/ RecordDispatcher(s)
    <3>1. [inFlight EXCEPT !.stage = "PROCESSED"] # NoFlight
      BY DEF TypeOK, Flights, NoFlight
    <3>2. \A r, stage : stage # "NONE" => Flight(s, r, stage) # NoFlight
      BY FlightFields
    <3> QED BY <2>1, <2>4, <3>1, <3>2, WriteMeans DEF Prepares, Dispatches, Rejects
  <2>5. CASE RecRemove(s) \/ Cleanup(s) \/ Remove(s)
    <3>1. /\ \A t \in Sessions : ~ChainVisible(t)
          /\ Recorded(inFlight.req) \/ runs[inFlight.req] = 0
      BY <2>5, RemoveMeans, VisibleWorks, FlightFields
    <3> QED BY <3>1
  <2> QED BY <2>2, <2>3, <2>4, <2>5
<1> QED BY <1>1, OperatorInvariant, TypeCorrect, PTL DEF Spec, InFlightEndsSettled
-----------------------------------------------------------------------------
(* The operator implements the durable ordering.                           *)

LEMMA StageFacts ==
  ASSUME TypeOK, OperatorInv, NEW r \in Requests
  PROVE  /\ Recorded(r) => Stage[r] = "PROCESSED"
         /\ ~Recorded(r) /\ inFlight.req = r =>
              /\ Stage[r] = inFlight.stage
              /\ inFlight.stage \in {"PREPARED", "DISPATCHED", "REJECTED"}
         /\ ~Recorded(r) /\ inFlight.req # r => Stage[r] = "NOT_ADMITTED"
<1>1. inFlight.req = r => inFlight # NoFlight
  BY FlightFields
<1> QED
  BY <1>1 DEF Stage, OperatorInv, SharedInv, FlightInv, Stages

(* A change of the in_flight record of one request ...                     *)
LEMMA FlightMoves ==
  ASSUME UNCHANGED processed, NEW r \in Requests, ~Recorded(r),
         inFlight.req \in {r, NoRequest}, inFlight'.req \in {r, NoRequest}
  PROVE  Stage' = [Stage EXCEPT ![r] = IF inFlight'.req = r THEN inFlight'.stage
                                       ELSE "NOT_ADMITTED"]
<1>1. \A q : Recorded(q)' <=> Recorded(q)
  BY Frame
<1>2. \A q \in Requests : q # r => inFlight.req # q /\ inFlight'.req # q
  OBVIOUS
<1> QED BY <1>1, <1>2 DEF Stage

(* ... and none for anybody.                                               *)
LEMMA FlightStays ==
  ASSUME UNCHANGED processed,
         \/ UNCHANGED inFlight
         \/ Recorded(inFlight.req) /\ inFlight'.req \in {inFlight.req, NoRequest}
  PROVE  UNCHANGED Stage
<1>1. \A q : Recorded(q)' <=> Recorded(q)
  BY Frame
<1>2. CASE UNCHANGED inFlight
  BY <1>1, <1>2 DEF Stage
<1>3. CASE Recorded(inFlight.req) /\ inFlight'.req \in {inFlight.req, NoRequest}
  BY <1>1, <1>3 DEF Stage
<1> QED BY <1>2, <1>3

LEMMA OrderingStarts ==
  ASSUME Init
  PROVE  Ordering!Init
<1>1. \A r \in Requests : ~Recorded(r) /\ inFlight.req # r
  BY FlightFields DEF Init, Recorded, RecordsOf
<1> QED BY <1>1 DEF Init, Ordering!Init, Stage

LEMMA OrderingSteps ==
  ASSUME TypeOK, OperatorInv, [Next]_vars
  PROVE  [Ordering!Next]_(Ordering!vars)
<1>1. runs \in [Requests -> Nat] /\ FlightInv /\ RunsInv /\ WorkInv
  BY DEF TypeOK, OperatorInv, SharedInv
<1>2. UNCHANGED <<Stage, runs>> => [Ordering!Next]_(Ordering!vars)
  BY DEF Ordering!vars
<1>3. ASSUME NEW s \in Sessions, RecAppend(s) \/ Settle(s) \/ AppendSettled(s)
      PROVE  [Ordering!Next]_(Ordering!vars)
  <2>1. UNCHANGED <<inFlight, runs>>
    BY <1>3, AppendMeans
  <2>2. PICK r \in Requests :
          /\ ~Recorded(r)
          /\ inFlight.req = r => inFlight.stage \in {"DISPATCHED", "REJECTED"}
          /\ \A q : Recorded(q) => Recorded(q)'
          /\ \A q \in Requests : Recorded(q)' => Recorded(q) \/ q = r
    BY <1>3, AppendMeans
  <2>3. CASE Recorded(r)'
    <3>1. Stage' = [Stage EXCEPT ![r] = "PROCESSED"]
      BY <2>1, <2>2, <2>3 DEF Stage
    <3>2. Stage[r] \in {"NOT_ADMITTED", "DISPATCHED", "REJECTED"}
      BY <2>2, StageFacts
    <3> QED BY <2>1, <3>1, <3>2 DEF Ordering!Next, Ordering!Settle, Ordering!Move
  <2>4. CASE ~Recorded(r)'
    <3>1. UNCHANGED Stage
      BY <2>1, <2>2, <2>4 DEF Stage
    <3> QED BY <1>2, <2>1, <3>1
  <2> QED BY <2>3, <2>4
<1>4. ASSUME NEW s \in Sessions,
             \/ RecMark(s) \/ Prepare(s) \/ Commit(s) \/ Reject(s) \/ Mark(s)
             \/ RecordDispatcher(s)
      PROVE  [Ordering!Next]_(Ordering!vars)
  <2>1. UNCHANGED <<processed, runs>>
    BY <1>4, WriteMeans
  <2>2. CASE \/ UNCHANGED inFlight
             \/ /\ inFlight # NoFlight /\ Recorded(inFlight.req)
                /\ inFlight' = [inFlight EXCEPT !.stage = "PROCESSED"]
    <3>1. [inFlight EXCEPT !.stage = "PROCESSED"].req = inFlight.req
      BY DEF TypeOK, Flights
    <3> QED BY <1>2, <2>1, <2>2, <3>1, FlightStays
  <2>3. ASSUME NEW r \in Requests, ~Recorded(r), Prepares(s, r)
        PROVE  Ordering!Admit(r)
    <3>1. Stage' = [Stage EXCEPT ![r] = "PREPARED"]
      BY <2>1, <2>3, FlightMoves, FlightFields DEF Prepares
    <3>2. \A q \in Requests : Stage[q] \in {"NOT_ADMITTED", "PROCESSED"}
      BY <2>3, StageFacts, FlightFields DEF Prepares
    <3>3. Stage[r] = "NOT_ADMITTED"
      BY <2>3, StageFacts, FlightFields DEF Prepares
    <3> QED
      BY <2>1, <3>1, <3>2, <3>3 DEF Ordering!Admit, Ordering!Move, Ordering!Unresolved
  <2>4. ASSUME NEW r \in Requests, ~Recorded(r), Dispatches(s, r)
        PROVE  Ordering!Dispatch(r)
    <3>1. Stage' = [Stage EXCEPT ![r] = "DISPATCHED"]
      BY <2>1, <2>4, FlightMoves, FlightFields DEF Dispatches
    <3>2. Stage[r] = "PREPARED"
      BY <2>4, StageFacts, FlightFields DEF Dispatches
    <3> QED BY <2>1, <3>1, <3>2 DEF Ordering!Dispatch, Ordering!Move
  <2>5. ASSUME NEW r \in Requests, ~Recorded(r), Rejects(s, r)
        PROVE  Ordering!Reject(r)
    <3>1. Stage' = [Stage EXCEPT ![r] = "REJECTED"]
      BY <2>1, <2>5, FlightMoves, FlightFields DEF Rejects
    <3>2. Stage[r] = "DISPATCHED" /\ runs[r] = 0
      BY <2>5, StageFacts, FlightFields DEF Rejects
    <3> QED BY <2>1, <3>1, <3>2 DEF Ordering!Reject, Ordering!Move
  <2> QED BY <1>4, <2>2, <2>3, <2>4, <2>5, WriteMeans DEF Ordering!Next
<1>5. ASSUME NEW s \in Sessions, RecRemove(s) \/ Cleanup(s) \/ Remove(s)
      PROVE  [Ordering!Next]_(Ordering!vars)
  <2>1. UNCHANGED <<processed, runs>> /\ inFlight' \in {inFlight, NoFlight}
    BY <1>5, RemoveMeans
  <2>2. CASE UNCHANGED inFlight \/ Recorded(inFlight.req)
    BY <1>2, <2>1, <2>2, FlightStays, FlightFields
  <2>3. ASSUME NEW r \in Requests, inFlight = Flight(s, r, "DISPATCHED"), ~Recorded(r),
               runs[r] = 0, inFlight' = NoFlight
        PROVE  Ordering!Withdraw(r)
    <3>1. Stage' = [Stage EXCEPT ![r] = "NOT_ADMITTED"]
      BY <2>1, <2>3, FlightMoves, FlightFields
    <3>2. Stage[r] = "DISPATCHED"
      BY <2>3, StageFacts, FlightFields
    <3> QED BY <2>1, <2>3, <3>1, <3>2 DEF Ordering!Withdraw, Ordering!Move
  <2> QED BY <1>5, <2>1, <2>2, <2>3, RemoveMeans DEF Ordering!Next
<1>6. ASSUME UNCHANGED <<inFlight, processed>>, NEW s \in Sessions, Admit(s)
      PROVE  [Ordering!Next]_(Ordering!vars)
  <2> DEFINE r == chain[s].req
  <2>1. UNCHANGED Stage
    BY <1>6, FlightStays
  <2>2. CASE UNCHANGED runs
    BY <1>2, <2>1, <2>2
  <2>3. CASE runs' = [runs EXCEPT ![r] = @ + 1]
    <3>1. WorksOn(s, r) /\ runs[r] = 0
      BY <1>1, <1>6 DEF WorkInv, WorksOn, AtWork, Admit
    <3>2. r \in Requests /\ Stage[r] = "DISPATCHED"
      BY <3>1, StageFacts, FlightFields DEF WorksOn
    <3>3. runs' = [runs EXCEPT ![r] = 1]
      BY <1>1, <2>3, <3>1, <3>2
    <3> QED BY <2>1, <3>1, <3>2, <3>3 DEF Ordering!Next, Ordering!StartRunner
  <2> QED BY <1>6, <2>2, <2>3 DEF Admit
<1>7. CASE UNCHANGED <<inFlight, processed, runs>>
  BY <1>2, <1>7, FlightStays
<1> QED BY <1>3, <1>4, <1>5, <1>6, <1>7, OtherSteps

(* However sessions crash and fail, what the files and the runner do to a  *)
(* request is a behaviour of the durable ordering.                         *)
THEOREM OrderingImplemented ==
  ASSUME MaxAlive <= 1
  PROVE  Spec => ImplementsOrdering
<1>1. Init => Ordering!Init
  BY OrderingStarts
<1>2. TypeOK /\ OperatorInv /\ [Next]_vars => [Ordering!Next]_(Ordering!vars)
  BY OrderingSteps
<1> QED
  BY <1>1, <1>2, OperatorInvariant, TypeCorrect, PTL
     DEF Spec, ImplementsOrdering, Ordering!Spec
-----------------------------------------------------------------------------
(* What the durable ordering promises, and with it the operator.           *)

(* The conjuncts are inductive only together: a request is started while it*)
(* is DISPATCHED and only then, and leaves that stage unsettled only if it *)
(* was not started.                                                        *)
OrderingInv == Ordering!TypeOK /\ Ordering!RunOnceThenSettle /\ Ordering!OneInFlight

LEMMA OrderingInvariant == Ordering!Spec => []OrderingInv
<1>1. Ordering!Init => OrderingInv
  BY DEF Ordering!Init, OrderingInv, Ordering!TypeOK, Ordering!RunOnceThenSettle,
         Ordering!OneInFlight, Ordering!DurableStages, Ordering!Unresolved
<1>2. OrderingInv /\ [Ordering!Next]_(Ordering!vars) => OrderingInv'
  <2> SUFFICES ASSUME OrderingInv, [Ordering!Next]_(Ordering!vars) PROVE OrderingInv'
    OBVIOUS
  <2> USE DEF OrderingInv, Ordering!TypeOK, Ordering!RunOnceThenSettle,
              Ordering!OneInFlight, Ordering!DurableStages, Ordering!Unresolved
  <2>1. ASSUME NEW r \in Requests, Ordering!Admit(r) PROVE OrderingInv'
    BY <2>1 DEF Ordering!Admit, Ordering!Move
  <2>2. ASSUME NEW r \in Requests, Ordering!Dispatch(r) PROVE OrderingInv'
    BY <2>2 DEF Ordering!Dispatch, Ordering!Move
  <2>3. ASSUME NEW r \in Requests, Ordering!StartRunner(r) PROVE OrderingInv'
    BY <2>3 DEF Ordering!StartRunner
  <2>4. ASSUME NEW r \in Requests, Ordering!Reject(r) PROVE OrderingInv'
    BY <2>4 DEF Ordering!Reject, Ordering!Move
  <2>5. ASSUME NEW r \in Requests, Ordering!Withdraw(r) PROVE OrderingInv'
    BY <2>5 DEF Ordering!Withdraw, Ordering!Move
  <2>6. ASSUME NEW r \in Requests, Ordering!Settle(r) PROVE OrderingInv'
    BY <2>6 DEF Ordering!Settle, Ordering!Move
  <2>7. CASE UNCHANGED Ordering!vars
    BY <2>7 DEF Ordering!vars
  <2> QED BY <2>1, <2>2, <2>3, <2>4, <2>5, <2>6, <2>7 DEF Ordering!Next
<1> QED BY <1>1, <1>2, PTL DEF Ordering!Spec

(* A request that is rejected or was not dispatched has not run unless it  *)
(* is settled.                                                             *)
THEOREM RunsUnderDispatch ==
  /\ Ordering!Spec => []Ordering!RunOnceThenSettle
  /\ MaxAlive <= 1 => (Spec => []Ordering!RunOnceThenSettle)
<1>1. OrderingInv => Ordering!RunOnceThenSettle
  BY DEF OrderingInv
<1>2. Ordering!Spec => []Ordering!RunOnceThenSettle
  BY <1>1, OrderingInvariant, PTL
<1>3. ASSUME MaxAlive <= 1 PROVE Spec => []Ordering!RunOnceThenSettle
  BY <1>2, <1>3, OrderingImplemented DEF ImplementsOrdering
<1> QED BY <1>2, <1>3

(* No two requests are in flight at once.                                  *)
THEOREM OneInFlightAtATime ==
  /\ Ordering!Spec => []Ordering!OneInFlight
  /\ MaxAlive <= 1 => (Spec => []Ordering!OneInFlight)
<1>1. OrderingInv => Ordering!OneInFlight
  BY DEF OrderingInv
<1>2. Ordering!Spec => []Ordering!OneInFlight
  BY <1>1, OrderingInvariant, PTL
<1>3. ASSUME MaxAlive <= 1 PROVE Spec => []Ordering!OneInFlight
  BY <1>2, <1>3, OrderingImplemented DEF ImplementsOrdering
<1> QED BY <1>2, <1>3

(* What is settled stays settled, and the runner never starts for it again.*)
THEOREM SettledForGood ==
  /\ Ordering!Spec => Ordering!SettlementIsFinal
  /\ MaxAlive <= 1 => (Spec => Ordering!SettlementIsFinal)
<1>1. OrderingInv /\ [Ordering!Next]_(Ordering!vars) =>
        [\A r \in Requests : Stage[r] = "PROCESSED" =>
           Stage'[r] = "PROCESSED" /\ runs'[r] = runs[r]]_(Ordering!vars)
  <2> SUFFICES ASSUME OrderingInv, Ordering!Next, NEW r \in Requests,
                      Stage[r] = "PROCESSED"
               PROVE  Stage'[r] = "PROCESSED" /\ runs'[r] = runs[r]
    OBVIOUS
  <2> QED
    BY DEF OrderingInv, Ordering!TypeOK, Ordering!Next, Ordering!Move, Ordering!Admit,
           Ordering!Dispatch, Ordering!StartRunner, Ordering!Reject, Ordering!Withdraw,
           Ordering!Settle
<1>2. Ordering!Spec => Ordering!SettlementIsFinal
  BY <1>1, OrderingInvariant, PTL DEF Ordering!Spec, Ordering!SettlementIsFinal
<1>3. ASSUME MaxAlive <= 1 PROVE Spec => Ordering!SettlementIsFinal
  BY <1>2, <1>3, OrderingImplemented DEF ImplementsOrdering
<1> QED BY <1>2, <1>3
=============================================================================
