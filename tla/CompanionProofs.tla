---------------------------- MODULE CompanionProofs ----------------------------
(***************************************************************************)
(* Proofs about CompanionWork, for any number of proposals, versions,      *)
(* deciders and tasks, and any bounds.                                     *)
(***************************************************************************)
EXTENDS CompanionWork, FiniteSetTheorems, TLAPS

USE WorkAssumption

-----------------------------------------------------------------------------
(* Types.                                                                  *)

LEMMA InitType == Init => TypeOK
BY DEF Init, TypeOK, Tasks, Unbound, Quiet, Executions

(* What a status request answers, and what a row holds.                    *)
Answers == Executions \cup {"UNKNOWN", "RESULT_PENDING_REVIEW"}
Row == [goal : Goals \cup {None}, preview : Versions \cup {None},
        approval : (1 .. MaxPreviews) \cup {None}, task : Tasks \cup {None},
        stopped : Stops \cup {"none"}]

LEMMA PreviewType ==
  ASSUME TypeOK, NEW p \in Proposals, NEW goal \in Goals, Preview(p, goal)
  PROVE  TypeOK'
<1>1. /\ shown \in Seq([proposal : Proposals, version : Versions])
      /\ source \in Versions /\ Len(shown) < MaxPreviews
  BY DEF TypeOK, Preview
<1>2. /\ shown' \in Seq([proposal : Proposals, version : Versions])
      /\ Len(shown') = Len(shown) + 1
  BY <1>1 DEF Preview
<1>3. Len(shown') \in 1 .. MaxPreviews
  BY <1>1, <1>2
<1>4. rows \in [Proposals -> Row]
  BY DEF TypeOK, Row
<1>5. rows' = [rows EXCEPT ![p] = [@ EXCEPT !.goal = goal, !.preview = source,
                                          !.approval = Len(shown')]]
  BY DEF Preview
<1>6. [rows[p] EXCEPT !.goal = goal, !.preview = source, !.approval = Len(shown')] \in Row
  BY <1>1, <1>3, <1>4 DEF Row
<1>7. rows' \in [Proposals -> Row]
  BY <1>4, <1>5, <1>6
<1>8. UNCHANGED <<source, receipt, decision, confirming, grant, active, execution, worker,
                  captured, deciding, reader, consent, executions, told, faults>>
  BY DEF Preview, thread
<1> QED BY <1>2, <1>3, <1>7, <1>8 DEF TypeOK, Row

LEMMA ElementType ==
  ASSUME NEW S, NEW s \in Seq(S), NEW i \in DOMAIN s
  PROVE  s[i] \in S
OBVIOUS

LEMMA ConfirmType ==
  ASSUME TypeOK, NEW p \in Proposals, NEW approval \in DOMAIN shown, Confirm(p, approval)
  PROVE  TypeOK'
<1>. shown \in Seq([proposal : Proposals, version : Versions])
  BY DEF TypeOK
<1>1. shown[approval] \in [proposal : Proposals, version : Versions]
  BY ElementType
<1>2. confirming' \in [proposal : Proposals, manifest : Versions, shown : Versions]
  BY <1>1 DEF TypeOK, Confirm
<1>3. UNCHANGED <<source, rows, receipt, decision, grant, active, execution, worker,
                  captured, deciding, reader, shown, consent, executions, told, faults>>
  BY DEF Confirm, durable, thread, history
<1> QED BY <1>2, <1>3 DEF TypeOK

LEMMA StartType ==
  ASSUME TypeOK, NEW task \in Tasks, Start(task)
  PROVE  TypeOK'
<1>1. confirming \in [proposal : Proposals, manifest : Versions, shown : Versions]
  BY DEF TypeOK, Start
<1>2. rows \in [Proposals -> Row]
  BY DEF TypeOK, Row
<1>3. rows' \in [Proposals -> Row]
  <2>1. PICK p \in Proposals : p = confirming.proposal
    BY <1>1
  <2>2. [rows[p] EXCEPT !.task = task, !.approval = None] \in Row
    BY <1>2 DEF Row
  <2>3. rows' = [rows EXCEPT ![p] = IF rows[p].task = None
                   THEN [rows[p] EXCEPT !.task = task, !.approval = None] ELSE rows[p]]
    BY <2>1 DEF Start, Bind
  <2> QED BY <1>2, <2>2, <2>3
<1>4. consent' \in [Tasks -> Versions \cup {None}]
  BY <1>1 DEF TypeOK, Start
<1>5. grant' \in {NoGrant} \cup [proposal : Proposals, manifest : Versions, task : Tasks]
  BY <1>1 DEF Start, Refused
<1>6. /\ confirming' = NoConfirm /\ active' \in Tasks /\ execution' = "CREATED"
      /\ captured' = None /\ worker' \in {"started", "none"}
  BY DEF Start, Refused
<1>7. faults' \in 0 .. MaxFaults
  BY DEF TypeOK, Start, Fault, NoFault
<1>8. UNCHANGED <<source, receipt, decision, deciding, reader, shown, executions, told>>
  BY DEF Start
<1> QED BY <1>3, <1>4, <1>5, <1>6, <1>7, <1>8 DEF TypeOK, Row, Executions

LEMMA StartRefusedType ==
  ASSUME TypeOK, StartRefused
  PROVE  TypeOK'
BY DEF TypeOK, StartRefused, Refused, Fault, NoFault, WorkerAlive, durable, thread, history

LEMMA StoppedType ==
  ASSUME NEW row \in Row, NEW stopped \in Stops \cup {"none"}
  PROVE  [row EXCEPT !.stopped = stopped] \in Row
BY DEF Row

LEMMA WorkerType ==
  ASSUME TypeOK, Worker
  PROVE  TypeOK'
<1> USE DEF TypeOK, Goes, Elsewhere, Fault, NoFault, durable, thread, history,
           Stops, Executions
<1>1. CASE Begin BY <1>1 DEF Begin
<1>2. CASE TakeGrant
  <2>1. CASE grant = NoGrant
    BY <1>2, <2>1 DEF TakeGrant
  <2>2. CASE grant # NoGrant
    <3>1. grant.proposal \in Proposals /\ grant.manifest \in Versions
      BY <2>2
    <3>2. executions' \in [Proposals -> Nat] /\ captured' \in Versions
      <4>1. PICK q \in Proposals : q = grant.proposal
        BY <3>1
      <4>2. executions \in [Proposals -> Nat]
        OBVIOUS
      <4>3. executions[q] + 1 \in Nat
        BY <4>2
      <4>4. /\ executions' = [executions EXCEPT ![q] = executions[q] + 1]
            /\ captured' = grant.manifest
        BY <1>2, <2>2, <4>1 DEF TakeGrant
      <4> QED BY <3>1, <4>2, <4>3, <4>4
    <3>3. worker' = "inspecting" /\ grant' = NoGrant
      BY <1>2, <2>2 DEF TakeGrant
    <3>4. UNCHANGED <<source, rows, receipt, decision, confirming, active, execution,
                      deciding, reader, shown, consent, told, faults>>
      BY <1>2, <2>2 DEF TakeGrant
    <3> QED BY <3>2, <3>3, <3>4
  <2> QED BY <2>1, <2>2
<1>3. CASE Inspect BY <1>3 DEF Inspect
<1>4. CASE Audit BY <1>4 DEF Audit
<1>5. CASE Parse BY <1>5 DEF Parse
<1>6. CASE Publish
  <2>1. captured \in Versions \cup {None} /\ receipt \in [Tasks -> Versions \cup {None}]
    OBVIOUS
  <2>2. /\ receipt' \in {receipt, [receipt EXCEPT ![active] = captured]}
        /\ worker' = "finishing" /\ faults' \in 0 .. MaxFaults
    BY <1>6 DEF Publish, PublishReceipt
  <2>3. receipt' \in [Tasks -> Versions \cup {None}]
    BY <2>1, <2>2
  <2>4. UNCHANGED <<source, rows, decision, confirming, grant, active, execution, captured,
                    deciding, reader, shown, consent, executions, told>>
    BY <1>6 DEF Publish
  <2> QED BY <2>2, <2>3, <2>4
<1>7. CASE Finish
  <2>1. rows \in [Proposals -> Row]
    BY DEF Row
  <2>2. rows' \in [Proposals -> Row]
    <3>1. CASE UNCHANGED rows
      BY <2>1, <3>1
    <3>2. ASSUME NEW stopped \in Stops \cup {"none"}, NEW p \in Proposals
          PROVE  [rows[p] EXCEPT !.stopped = stopped] \in Row
      BY <2>1, <3>2, StoppedType
    <3>3. (IF execution \in Stops THEN execution ELSE "none") \in Stops \cup {"none"}
      OBVIOUS
    <3>4. CASE rows' = [p \in Proposals |->
              IF rows[p].task # active THEN rows[p]
              ELSE [rows[p] EXCEPT !.stopped = IF execution \in Stops THEN execution
                                               ELSE "none"]]
      BY <2>1, <3>2, <3>3, <3>4
    <3> QED BY <1>7, <3>1, <3>4 DEF Finish
  <2>3. worker' = "dead" /\ faults' \in 0 .. MaxFaults
    BY <1>7 DEF Finish
  <2>4. UNCHANGED <<source, receipt, decision, confirming, grant, active, execution,
                    captured, deciding, reader, shown, consent, executions, told>>
    BY <1>7 DEF Finish
  <2> QED BY <2>2, <2>3, <2>4 DEF Row
<1> QED BY <1>1, <1>2, <1>3, <1>4, <1>5, <1>6, <1>7 DEF Worker

LEMMA OthersType ==
  ASSUME TypeOK,
         \/ \E version \in Versions : Edit(version)
         \/ Cancel
         \/ \E d \in Deciders :
              \/ PublishDecision(d)
              \/ \E task \in Tasks, action \in Actions : OpenDecision(d, task, action)
         \/ \E p \in Proposals : ReadRow(p)
         \/ ReadActive \/ ReadStore \/ HostExit
  PROVE  TypeOK'
<1> USE DEF TypeOK, Fault, NoFault, durable, thread, history, Answers
<1>1. CASE \E version \in Versions : Edit(version) BY <1>1 DEF Edit
<1>2. CASE Cancel BY <1>2 DEF Cancel, Executions
<1>3. ASSUME NEW d \in Deciders, PublishDecision(d) PROVE TypeOK'
  <2>1. deciding[d] \in [task : Tasks, action : Actions, answer : {"pending", "saved"}]
    BY <1>3 DEF PublishDecision, Quiet
  <2>2. decision' \in [Tasks -> Actions \cup {"none"}]
    <3>1. deciding[d].task \in Tasks /\ deciding[d].action \in Actions
      BY <2>1
    <3>2. decision' \in {decision, [decision EXCEPT ![deciding[d].task] = deciding[d].action]}
      BY <1>3 DEF PublishDecision, Linked
    <3> QED BY <3>1, <3>2
  <2>3. deciding' \in [Deciders -> {Quiet} \cup
          [task : Tasks, action : Actions, answer : {"pending", "saved"}]]
    <3> DEFINE Calls == {Quiet} \cup [task : Tasks, action : Actions, answer : {"pending", "saved"}]
               saved == [deciding[d] EXCEPT !.answer = "saved"]
    <3>1. saved \in Calls
      BY <2>1
    <3>2. Quiet \in Calls
      OBVIOUS
    <3>3. deciding' \in {[deciding EXCEPT ![d] = saved], [deciding EXCEPT ![d] = Quiet]}
      BY <1>3 DEF PublishDecision, Saved, Failed
    <3>4. deciding \in [Deciders -> Calls]
      OBVIOUS
    <3> HIDE DEF Calls, saved
    <3>5. deciding' \in [Deciders -> Calls]
      BY <3>1, <3>2, <3>3, <3>4
    <3> QED BY <3>5 DEF Calls
  <2>4. faults' \in 0 .. MaxFaults
    BY <1>3 DEF PublishDecision
  <2>5. UNCHANGED <<source, rows, receipt, confirming, grant, active, execution, worker,
                    captured, reader, shown, consent, executions, told>>
    BY <1>3 DEF PublishDecision
  <2> QED BY <2>2, <2>3, <2>4, <2>5
<1>4. ASSUME NEW d \in Deciders, NEW task \in Tasks, NEW action \in Actions,
             OpenDecision(d, task, action)
      PROVE  TypeOK'
  BY <1>4 DEF OpenDecision
<1>5. ASSUME NEW p \in Proposals, ReadRow(p) PROVE TypeOK'
  <2>1. rows[p].task \in Tasks
    BY <1>5 DEF ReadRow
  <2>2. reader' \in [proposal : Proposals, task : Tasks, at : {"active", "store"},
                     state : Answers]
    BY <1>5, <2>1 DEF ReadRow, Executions
  <2>3. UNCHANGED <<source, rows, receipt, decision, confirming, grant, active, execution,
                    worker, captured, deciding, shown, consent, executions, told, faults>>
    BY <1>5 DEF ReadRow
  <2> QED BY <2>2, <2>3
<1>6. CASE ReadActive
  <2>1. reader \in [proposal : Proposals, task : Tasks, at : {"active", "store"},
                    state : Answers]
    BY <1>6 DEF ReadActive, Idle
  <2>2. Shown \in Answers
    BY DEF Shown
  <2>3. reader' \in [proposal : Proposals, task : Tasks, at : {"active", "store"},
                     state : Answers]
    BY <1>6, <2>1, <2>2 DEF ReadActive
  <2>4. UNCHANGED <<source, rows, receipt, decision, confirming, grant, active, execution,
                    worker, captured, deciding, shown, consent, executions, told, faults>>
    BY <1>6 DEF ReadActive
  <2> QED BY <2>3, <2>4
<1>7. CASE ReadStore
  <2>1. told' \in [Proposals -> SUBSET Final]
    <3>1. ASSUME NEW state, Tell(state) PROVE told' \in [Proposals -> SUBSET Final]
      BY <3>1 DEF Tell
    <3> QED BY <1>7, <3>1 DEF ReadStore
  <2>2. reader' = Idle /\ faults' \in 0 .. MaxFaults
    BY <1>7 DEF ReadStore
  <2>3. UNCHANGED <<source, rows, receipt, decision, confirming, grant, active, execution,
                    worker, captured, deciding, shown, consent, executions>>
    BY <1>7 DEF ReadStore
  <2> QED BY <2>1, <2>2, <2>3
<1>8. CASE HostExit BY <1>8 DEF HostExit, Executions
<1> QED BY <1>1, <1>2, <1>3, <1>4, <1>5, <1>6, <1>7, <1>8

LEMMA TypeStep == TypeOK /\ [Next]_vars => TypeOK'
<1> SUFFICES ASSUME TypeOK, [Next]_vars PROVE TypeOK' OBVIOUS
<1>1. CASE UNCHANGED vars BY <1>1 DEF TypeOK, vars, durable, thread, history
<1>2. CASE Next
  BY <1>2, InputAssumption, PreviewType, ConfirmType, StartType, StartRefusedType, WorkerType, OthersType
     DEF Next, Starting
<1> QED BY <1>1, <1>2

(* The variables keep their types: the rows, the records, the single       *)
(* confirmation and grant, and the state of the worker, of the deciders    *)
(* and of a status request (work.py, surface.py, review.py).               *)
THEOREM TypeCorrect == Spec => []TypeOK
BY InitType, TypeStep, PTL DEF Spec

-----------------------------------------------------------------------------
(* The single-use approval.                                                *)

(* Without a task nothing of the proposal has run and no grant is for it;  *)
(* what is being confirmed has no task yet, because previews and           *)
(* confirmations exclude each other; and what is granted has not run.      *)
UsedOnce ==
  /\ \A p \in Proposals : rows[p].task = None => executions[p] = 0 /\ grant.proposal # p
  /\ confirming # NoConfirm => rows[confirming.proposal].task = None
  /\ grant # NoGrant => executions[grant.proposal] = 0
  /\ ExecutedOnce

LEMMA InitUsedOnce == Init => UsedOnce
BY DEF Init, UsedOnce, ExecutedOnce, Unbound, NoGrant, NoConfirm

(* Steps that leave the task of every row, the grant and the runs alone.   *)
LEMMA QuietKeepsUsedOnce ==
  ASSUME TypeOK, UsedOnce, UNCHANGED <<grant, executions>>,
         confirming' \in {confirming, NoConfirm},
         \A p \in Proposals : rows'[p].task = rows[p].task
  PROVE  UsedOnce'
<1>1. confirming' # NoConfirm => confirming'.proposal \in Proposals
  BY DEF TypeOK
<1> QED BY <1>1 DEF UsedOnce, ExecutedOnce

LEMMA PreviewUsedOnce ==
  ASSUME TypeOK, UsedOnce, NEW p \in Proposals, NEW goal \in Goals, Preview(p, goal)
  PROVE  UsedOnce'
<1>1. \A q \in Proposals : rows'[q].task = rows[q].task
  BY DEF TypeOK, Preview
<1> QED BY <1>1, QuietKeepsUsedOnce DEF Preview, history

LEMMA ConfirmUsedOnce ==
  ASSUME TypeOK, UsedOnce, NEW p \in Proposals, NEW approval, Confirm(p, approval)
  PROVE  UsedOnce'
BY DEF UsedOnce, ExecutedOnce, Confirm, Confirmable, durable, history

LEMMA StartUsedOnce ==
  ASSUME TypeOK, UsedOnce, NEW task \in Tasks, Start(task)
  PROVE  UsedOnce'
<1> DEFINE q == confirming.proposal
<1>1. q \in Proposals /\ rows[q].task = None
  BY DEF TypeOK, UsedOnce, Start
<1>2. task # None
  BY DEF Tasks
<1>3. \A p \in Proposals : rows'[p].task = IF p = q THEN task ELSE rows[p].task
  BY <1>1 DEF TypeOK, Start, Bind
<1>4. executions[q] = 0
  BY <1>1 DEF UsedOnce
<1>5. confirming' = NoConfirm /\ UNCHANGED executions
      /\ (grant' = NoGrant \/ grant'.proposal = q)
  BY DEF Start, Refused
<1>6. \A p \in Proposals : NoGrant.proposal # p
  BY DEF NoGrant
<1> HIDE DEF q
<1> QED BY <1>1, <1>2, <1>3, <1>4, <1>5, <1>6 DEF UsedOnce, ExecutedOnce

LEMMA StartRefusedUsedOnce ==
  ASSUME TypeOK, UsedOnce, StartRefused
  PROVE  UsedOnce'
<1>1. \A p \in Proposals : NoGrant.proposal # p
  BY DEF NoGrant
<1> QED BY <1>1 DEF UsedOnce, ExecutedOnce, StartRefused, Refused, durable, history

LEMMA TakeGrantUsedOnce ==
  ASSUME TypeOK, UsedOnce, TakeGrant
  PROVE  UsedOnce'
<1>1. \A p \in Proposals : NoGrant.proposal # p
  BY DEF NoGrant
<1>2. CASE grant = NoGrant
  BY <1>2, QuietKeepsUsedOnce DEF TakeGrant, Elsewhere, durable
<1>3. CASE grant # NoGrant
  <2> DEFINE q == grant.proposal
  <2>1. q \in Proposals
    BY <1>3 DEF TypeOK
  <2>2. executions[q] = 0 /\ rows[q].task # None
    BY <1>3, <2>1 DEF UsedOnce
  <2>3. grant' = NoGrant /\ UNCHANGED <<rows, confirming>>
    BY <1>3 DEF TakeGrant, Elsewhere, durable
  <2>4. executions' = [executions EXCEPT ![q] = executions[q] + 1]
    BY <1>3 DEF TakeGrant
  <2>5. \A p \in Proposals : executions'[p] = IF p = q THEN 1 ELSE executions[p]
    BY <2>1, <2>2, <2>4 DEF TypeOK
  <2> HIDE DEF q
  <2> QED BY <1>1, <2>1, <2>2, <2>3, <2>5 DEF UsedOnce, ExecutedOnce
<1> QED BY <1>2, <1>3

LEMMA FinishUsedOnce ==
  ASSUME TypeOK, UsedOnce, Finish
  PROVE  UsedOnce'
<1>1. \A p \in Proposals : rows'[p].task = rows[p].task
  BY DEF TypeOK, Finish
<1> QED BY <1>1, QuietKeepsUsedOnce DEF Finish, Elsewhere

LEMMA HostExitUsedOnce ==
  ASSUME TypeOK, UsedOnce, HostExit
  PROVE  UsedOnce'
<1>1. \A p \in Proposals : NoGrant.proposal # p
  BY DEF NoGrant
<1> QED BY <1>1 DEF UsedOnce, ExecutedOnce, HostExit, durable, history

LEMMA UsedOnceStep == TypeOK /\ UsedOnce /\ [Next]_vars => UsedOnce'
<1> SUFFICES ASSUME TypeOK, UsedOnce, [Next]_vars PROVE UsedOnce' OBVIOUS
<1> DEFINE Still == UNCHANGED <<rows, confirming, grant, executions>>
<1>1. Still => UsedOnce'
  BY QuietKeepsUsedOnce
<1>2. CASE UNCHANGED vars
  BY <1>1, <1>2 DEF vars, durable, history
<1>3. CASE Worker
  <2>1. Begin \/ Inspect \/ Audit \/ Parse \/ Publish => Still
    BY DEF Begin, Inspect, Audit, Parse, Publish, Elsewhere, durable
  <2> QED BY <1>1, <1>3, <2>1, TakeGrantUsedOnce, FinishUsedOnce DEF Worker
<1>4. ASSUME NEW d \in Deciders,
             \/ PublishDecision(d)
             \/ \E task \in Tasks, action \in Actions : OpenDecision(d, task, action)
      PROVE  UsedOnce'
  BY <1>1, <1>4 DEF PublishDecision, OpenDecision, durable, history
<1>5. CASE \/ \E version \in Versions : Edit(version)
           \/ Cancel \/ ReadActive \/ ReadStore
           \/ \E p \in Proposals : ReadRow(p)
  BY <1>1, <1>5 DEF Edit, Cancel, ReadActive, ReadStore, ReadRow, durable, history
<1>6. CASE \E p \in Proposals :
             \/ \E goal \in Wordings[p] : Preview(p, goal)
             \/ \E approval \in DOMAIN shown : Confirm(p, approval)
  BY <1>6, InputAssumption, PreviewUsedOnce, ConfirmUsedOnce
<1>7. CASE Starting \/ HostExit
  BY <1>7, StartUsedOnce, StartRefusedUsedOnce, HostExitUsedOnce DEF Starting
<1> QED BY <1>2, <1>3, <1>4, <1>5, <1>6, <1>7, InputAssumption DEF Next

(* A proposal is run once at the most, whatever is confirmed again, fails  *)
(* or dies (confirm, bind and run in work.py).                             *)
THEOREM ApprovalIsUsedOnce == Spec => []ExecutedOnce
<1>1. UsedOnce => ExecutedOnce
  BY DEF UsedOnce
<1> QED BY <1>1, InitType, TypeStep, InitUsedOnce, UsedOnceStep, PTL DEF Spec

-----------------------------------------------------------------------------
(* Decisions stand.                                                        *)

LEMMA AnswersStep == TypeOK /\ AnswersStand /\ [Next]_vars => AnswersStand'
<1> SUFFICES ASSUME TypeOK, AnswersStand, [Next]_vars PROVE AnswersStand' OBVIOUS
<1>1. CASE UNCHANGED <<decision, deciding>>
  BY <1>1 DEF AnswersStand
<1>2. ASSUME NEW d \in Deciders, NEW task \in Tasks, NEW action \in Actions,
             OpenDecision(d, task, action)
      PROVE  AnswersStand'
  BY <1>2 DEF OpenDecision, AnswersStand, TypeOK, durable
<1>3. ASSUME NEW d \in Deciders, PublishDecision(d) PROVE AnswersStand'
  <2> DEFINE t == deciding[d].task
             Calls == {Quiet} \cup [task : Tasks, action : Actions, answer : {"pending", "saved"}]
  <2>1. deciding[d] \in [task : Tasks, action : Actions, answer : {"pending", "saved"}]
    BY <1>3 DEF TypeOK, PublishDecision, Quiet
  <2>2. t \in Tasks /\ deciding[d].action \in Actions /\ "none" \notin Actions
    BY <2>1
  <2>3. decision \in [Tasks -> Actions \cup {"none"}] /\ deciding \in [Deciders -> Calls]
    BY DEF TypeOK
  <2>4. \A u \in Tasks : decision[u] # "none" => decision'[u] = decision[u]
    BY <1>3, <2>2, <2>3 DEF PublishDecision, Linked
  <2>5. ASSUME NEW e \in Deciders, e # d, deciding'[e].answer = "saved"
        PROVE  decision'[deciding'[e].task] = deciding'[e].action
    <3>1. deciding'[e] = deciding[e]
      BY <1>3, <2>3, <2>5 DEF PublishDecision, Saved, Failed
    <3>2. deciding[e] \in [task : Tasks, action : Actions, answer : {"pending", "saved"}]
      BY <2>3, <2>5, <3>1 DEF Quiet
    <3>3. decision[deciding[e].task] = deciding[e].action
      BY <2>5, <3>1 DEF AnswersStand
    <3> QED BY <2>2, <2>4, <3>1, <3>2, <3>3
  <2>6. deciding'[d].answer = "saved" =>
          decision[t] = "none" /\ Linked(d) /\ deciding' = [deciding EXCEPT ![d].answer = "saved"]
    BY <1>3, <2>3 DEF PublishDecision, Saved, Failed, Quiet
  <2>7. deciding'[d].answer = "saved" => decision'[deciding'[d].task] = deciding'[d].action
    <3>1. deciding' = [deciding EXCEPT ![d].answer = "saved"] =>
            deciding'[d].task = t /\ deciding'[d].action = deciding[d].action
      BY <2>1, <2>3
    <3>2. decision[t] = "none" /\ Linked(d) => decision'[t] = deciding[d].action
      BY <2>2, <2>3 DEF Linked
    <3> QED BY <2>6, <3>1, <3>2
  <2> QED BY <2>5, <2>7 DEF AnswersStand
<1>4. CASE Worker
  BY <1>1, <1>4 DEF Worker, Begin, TakeGrant, Inspect, Audit, Parse, Publish, Finish,
                    Elsewhere, durable
<1>5. CASE Starting
  BY <1>1, <1>5 DEF Starting, StartRefused, Start, durable
<1>6. CASE \E p \in Proposals :
             \/ \E goal \in Wordings[p] : Preview(p, goal)
             \/ ReadRow(p)
             \/ \E approval \in DOMAIN shown : Confirm(p, approval)
  BY <1>1, <1>6 DEF Preview, ReadRow, Confirm, durable
<1>7. CASE \/ \E version \in Versions : Edit(version)
           \/ Cancel \/ ReadActive \/ ReadStore \/ HostExit \/ UNCHANGED vars
  BY <1>1, <1>7 DEF Edit, Cancel, ReadActive, ReadStore, HostExit, durable, vars
<1> QED BY <1>2, <1>3, <1>4, <1>5, <1>6, <1>7, InputAssumption DEF Next

(* What a decider was told is saved is never replaced by the decision of   *)
(* another one (review.py, decide and _publish).                           *)
THEOREM DecisionsStand == Spec => []AnswersStand
<1>1. Init => AnswersStand
  BY DEF Init, AnswersStand, Quiet
<1> QED BY <1>1, InitType, TypeStep, AnswersStep, PTL DEF Spec

-----------------------------------------------------------------------------
(* What a report is about.                                                 *)

(* Tasks are numbered as they are approved; whatever the worker is about is*)
(* what the human had been shown when approving its task.                  *)
ConsentInv ==
  /\ \E n \in 0 .. MaxTasks : Used = 1 .. n
  /\ \A p \in Proposals : rows[p].task \in Used \cup {None}
  /\ \A t \in Tasks : receipt[t] # None => t \in Used
  /\ active \in Used \cup {None} /\ (WorkerAlive => active \in Used)
  /\ \A p \in Proposals : rows[p].approval # None =>
       /\ rows[p].approval \in DOMAIN shown
       /\ shown[rows[p].approval].version = rows[p].preview
  /\ confirming # NoConfirm => confirming.manifest = confirming.shown
  /\ grant # NoGrant =>
       /\ worker \in {"started", "granting"}
       /\ grant.manifest = consent[active]
  /\ worker \in {"inspecting", "auditing", "parsing", "publishing"} =>
       captured = consent[active]
  /\ ApprovedOnly

LEMMA FreshTask ==
  ASSUME TypeOK, ConsentInv, NEW task \in Tasks, task = 1 + Cardinality(Used)
  PROVE  task \notin Used /\ Used = 1 .. (task - 1)
<1>1. PICK n \in 0 .. MaxTasks : Used = 1 .. n
  BY DEF ConsentInv
<1>2. Cardinality(1 .. n) = n
  BY <1>1, FS_Interval
<1> QED BY <1>1, <1>2

(* Nothing but the sources, the review and a status request changes.       *)
LEMMA WorkFrame ==
  UNCHANGED <<rows, receipt, confirming, grant, active, worker, captured, shown, consent>>
    => (ConsentInv => ConsentInv')
BY DEF ConsentInv, Used, WorkerAlive, ApprovedOnly

LEMMA ConfirmConsent ==
  ASSUME TypeOK, ConsentInv, NEW p \in Proposals, NEW approval \in DOMAIN shown,
         Confirm(p, approval)
  PROVE  ConsentInv'
<1>1. shown[approval].version = source
  <2>1. rows[p].approval = approval /\ source = rows[p].preview
    BY DEF Confirm, Confirmable
  <2>2. approval # None
    BY DEF TypeOK
  <2> QED BY <2>1, <2>2 DEF ConsentInv
<1>2. confirming'.manifest = confirming'.shown
  BY <1>1 DEF Confirm
<1>3. UNCHANGED <<rows, receipt, grant, active, worker, captured, shown, consent>>
  BY DEF Confirm, durable, thread, history
<1> QED BY <1>2, <1>3 DEF ConsentInv, Used, WorkerAlive, ApprovedOnly

LEMMA PreviewConsent ==
  ASSUME TypeOK, ConsentInv, NEW p \in Proposals, NEW goal \in Goals, Preview(p, goal)
  PROVE  ConsentInv'
<1>1. /\ shown' = Append(shown, [proposal |-> p, version |-> source])
      /\ rows' = [rows EXCEPT ![p] = [@ EXCEPT !.goal = goal, !.preview = source,
                                          !.approval = Len(shown')]]
      /\ UNCHANGED <<receipt, confirming, grant, active, worker, captured, consent>>
  BY DEF Preview, thread
<1>2. rows \in [Proposals -> Row] /\ shown \in Seq([proposal : Proposals, version : Versions])
      /\ None \notin Nat
  BY DEF TypeOK, Row
<1>3. /\ Len(shown') \in DOMAIN shown' /\ shown'[Len(shown')].version = source
      /\ DOMAIN shown \subseteq DOMAIN shown'
      /\ \A i \in DOMAIN shown : shown'[i] = shown[i]
  BY <1>1, <1>2
<1>4. ASSUME NEW q \in Proposals
      PROVE  /\ rows'[q].task = rows[q].task
             /\ rows'[q].approval # None =>
                  /\ rows'[q].approval \in DOMAIN shown'
                  /\ shown'[rows'[q].approval].version = rows'[q].preview
  <2>1. CASE q = p
    <3>1. rows'[p] = [rows[p] EXCEPT !.goal = goal, !.preview = source, !.approval = Len(shown')]
      BY <1>1, <1>2
    <3>2. /\ rows'[p].preview = source /\ rows'[p].approval = Len(shown')
          /\ rows'[p].task = rows[p].task
      BY <1>2, <3>1 DEF Row
    <3> QED BY <1>3, <2>1, <3>2
  <2>2. CASE q # p
    <3>1. rows'[q] = rows[q]
      BY <1>1, <1>2, <2>2
    <3> QED BY <1>3, <3>1 DEF ConsentInv
  <2> QED BY <2>1, <2>2
<1> QED BY <1>1, <1>4 DEF ConsentInv, Used, WorkerAlive, ApprovedOnly

LEMMA StartConsent ==
  ASSUME TypeOK, ConsentInv, NEW task \in Tasks, Start(task)
  PROVE  ConsentInv'
<1> DEFINE q == confirming.proposal
<1>1. /\ confirming \in [proposal : Proposals, manifest : Versions, shown : Versions]
      /\ confirming.manifest = confirming.shown /\ None \notin Versions \cup Nat
  BY DEF TypeOK, Start, ConsentInv
<1>2. task \notin Used /\ Used = 1 .. (task - 1)
  BY FreshTask DEF Start
<1>3. /\ consent' = [consent EXCEPT ![task] = confirming.shown]
      /\ UNCHANGED <<receipt, shown>> /\ confirming' = NoConfirm
      /\ active' = task
      /\ \/ grant' = NoGrant /\ worker' = "none"
         \/ /\ grant' = [proposal |-> q, manifest |-> confirming.manifest, task |-> task]
            /\ worker' = "started"
  BY DEF Start, Refused
<1>4. /\ \A t \in Tasks : t # task => consent'[t] = consent[t]
      /\ consent'[task] = confirming.shown /\ confirming.shown # None
  BY <1>1, <1>3 DEF TypeOK
<1>5. Used' = Used \cup {task}
  BY <1>4 DEF Used
<1>6. Used' = 1 .. task /\ task \in 0 .. MaxTasks
  BY <1>2, <1>5 DEF Tasks
<1>7. \A p \in Proposals :
        /\ rows'[p].task \in {rows[p].task, task}
        /\ rows'[p].approval \in {rows[p].approval, None}
        /\ rows'[p].preview = rows[p].preview
  <2>1. rows \in [Proposals -> Row]
    BY DEF TypeOK, Row
  <2>2. rows' = [rows EXCEPT ![q] = IF rows[q].task = None
                   THEN [rows[q] EXCEPT !.task = task, !.approval = None] ELSE rows[q]]
    BY DEF Start, Bind
  <2>3. PICK row : /\ row = rows'[q]
                   /\ row \in {rows[q], [rows[q] EXCEPT !.task = task, !.approval = None]}
    BY <1>1, <2>1, <2>2
  <2>4. /\ row.task \in {rows[q].task, task} /\ row.approval \in {rows[q].approval, None}
        /\ row.preview = rows[q].preview
    BY <1>1, <2>1, <2>3 DEF Row
  <2>5. \A p \in Proposals : p # q => rows'[p] = rows[p]
    BY <2>1, <2>2
  <2> HIDE DEF q
  <2> QED BY <2>3, <2>4, <2>5
<1>8. \A t \in Tasks : receipt[t] # None => t \in Used /\ t # task
  BY <1>2 DEF ConsentInv
<1>9. ApprovedOnly'
  BY <1>3, <1>4, <1>8 DEF ConsentInv, ApprovedOnly
<1>10. grant' # NoGrant => worker' = "started" /\ grant'.manifest = consent'[active']
  BY <1>1, <1>3, <1>4
<1> HIDE DEF q
<1>11. (\E n \in 0 .. MaxTasks : Used = 1 .. n)'
  BY <1>6
<1>12. worker' \in {"none", "started"} /\ active' \in Used'
  BY <1>3, <1>5
<1>13. \A p \in Proposals : rows'[p].task \in Used' \cup {None}
  BY <1>5, <1>7 DEF ConsentInv
<1>14. \A p \in Proposals : rows'[p].approval # None =>
         /\ rows'[p].approval \in DOMAIN shown'
         /\ shown'[rows'[p].approval].version = rows'[p].preview
  BY <1>3, <1>7 DEF ConsentInv
<1> QED
  BY <1>3, <1>5, <1>8, <1>9, <1>10, <1>11, <1>12, <1>13, <1>14 DEF ConsentInv

LEMMA WorkerConsent ==
  ASSUME TypeOK, ConsentInv, Worker
  PROVE  ConsentInv'
<1> USE DEF Goes, Elsewhere, durable, ConsentInv, WorkerAlive
<1>1. Used' = Used
  BY DEF Worker, Begin, TakeGrant, Inspect, Audit, Parse, Publish, Finish, Used
<1>2. CASE Begin
  BY <1>1, <1>2 DEF Begin, ApprovedOnly
<1>3. CASE TakeGrant
  BY <1>1, <1>3 DEF TakeGrant, ApprovedOnly
<1>4. CASE Inspect \/ Audit \/ Parse
  BY <1>1, <1>4 DEF Inspect, Audit, Parse, ApprovedOnly
<1>5. CASE Publish
  <2>1. /\ active \in Used /\ captured = consent[active]
        /\ receipt' \in {receipt, [receipt EXCEPT ![active] = captured]}
        /\ worker' = "finishing"
        /\ UNCHANGED <<rows, confirming, grant, active, captured, shown, consent>>
    BY <1>5 DEF Publish, PublishReceipt
  <2>2. \A t \in Tasks : receipt'[t] = receipt[t] \/ (t = active /\ receipt'[t] = consent[t])
    BY <2>1 DEF TypeOK, Used
  <2>3. grant = NoGrant
    BY <1>5 DEF Publish
  <2> QED BY <1>1, <2>1, <2>2, <2>3 DEF ApprovedOnly
<1>6. CASE Finish
  <2>1. \A p \in Proposals : /\ rows'[p].task = rows[p].task
                             /\ rows'[p].approval = rows[p].approval
                             /\ rows'[p].preview = rows[p].preview
    <3>1. rows \in [Proposals -> Row]
      BY DEF TypeOK, Row
    <3> SUFFICES ASSUME NEW p \in Proposals
                 PROVE  /\ rows'[p].task = rows[p].task
                        /\ rows'[p].approval = rows[p].approval
                        /\ rows'[p].preview = rows[p].preview
      OBVIOUS
    <3>2. PICK stopped : rows'[p] \in {rows[p], [rows[p] EXCEPT !.stopped = stopped]}
      BY <1>6 DEF Finish
    <3>3. rows[p] \in Row
      BY <3>1
    <3> QED BY <3>2, <3>3 DEF Row
  <2>2. worker = "finishing" /\ worker' = "dead"
        /\ UNCHANGED <<receipt, confirming, grant, active, captured, shown, consent>>
    BY <1>6 DEF Finish
  <2> QED BY <1>1, <2>1, <2>2 DEF ApprovedOnly
<1> QED BY <1>2, <1>3, <1>4, <1>5, <1>6 DEF Worker

LEMMA ConsentStep == TypeOK /\ ConsentInv /\ [Next]_vars => ConsentInv'
<1> SUFFICES ASSUME TypeOK, ConsentInv, [Next]_vars PROVE ConsentInv' OBVIOUS
<1> USE DEF durable, thread, history
<1>1. ASSUME NEW d \in Deciders,
             \/ PublishDecision(d)
             \/ \E task \in Tasks, action \in Actions : OpenDecision(d, task, action)
      PROVE  ConsentInv'
  BY <1>1, WorkFrame DEF PublishDecision, OpenDecision
<1>2. CASE \/ \E version \in Versions : Edit(version)
           \/ Cancel \/ ReadActive \/ ReadStore \/ UNCHANGED vars
           \/ \E p \in Proposals : ReadRow(p)
  BY <1>2, WorkFrame DEF Edit, Cancel, ReadActive, ReadStore, ReadRow, vars
<1>3. CASE StartRefused \/ HostExit
  BY <1>3 DEF StartRefused, Refused, HostExit, ConsentInv, Used, WorkerAlive, ApprovedOnly
<1> QED
  BY <1>1, <1>2, <1>3, InputAssumption, ConfirmConsent, PreviewConsent, StartConsent, WorkerConsent
     DEF Next, Starting

(* A report is only ever about the versions that the preview behind the    *)
(* human's approval showed (work.py, confirm and run).                     *)
THEOREM OnlyWhatWasApproved == Spec => []ApprovedOnly
<1>1. Init => ConsentInv
  <2> SUFFICES ASSUME Init PROVE ConsentInv
    OBVIOUS
  <2>1. Used = 1 .. 0
    BY DEF Init, Used
  <2>2. 0 \in 0 .. MaxTasks
    OBVIOUS
  <2> QED BY <2>1, <2>2 DEF Init, ConsentInv, WorkerAlive, ApprovedOnly, Unbound
<1>2. ConsentInv => ApprovedOnly
  BY DEF ConsentInv
<1> QED BY <1>1, <1>2, InitType, TypeStep, ConsentStep, PTL DEF Spec

-----------------------------------------------------------------------------
(* How the work ended.                                                     *)
(* Until it publishes, the worker has no result; when it has finished, the *)
(* result is there or the execution state says why not.                    *)
Working == {"started", "granting", "inspecting", "auditing", "parsing", "publishing"}
OutcomeInv ==
  /\ \A p \in Proposals : rows[p].task = None => rows[p].stopped = "none"
  /\ \A p, q \in Proposals :
       rows[p].task = rows[q].task /\ rows[p].task # None => p = q
  /\ worker \in Working =>
       /\ receipt[active] = None
       /\ \A p \in Proposals : rows[p].task = active => rows[p].stopped = "none"
  /\ worker = "publishing" => execution = "COMPLETED"
  /\ worker = "finishing" /\ execution \in Stops => receipt[active] = None
  /\ worker = "finishing" /\ faults = 0 =>
       \/ execution \in Stops \/ receipt[active] # None
       \/ \A p \in Proposals : rows[p].task = active => Unpublishable(p)
  /\ OutcomeIsKept

LEMMA FaultCounts == TypeOK /\ Fault => faults' # 0
BY DEF TypeOK, Fault

LEMMA WorkerHasTask == ConsentInv /\ WorkerAlive => active \in Used /\ active # None
BY DEF ConsentInv, Used, Tasks

(* Steps that leave the worker, the receipts and the bound rows alone.     *)
LEMMA OutcomeFrame ==
  ASSUME ConsentInv, OutcomeInv,
         UNCHANGED <<receipt, consent, active, execution, worker>>,
         faults = faults' \/ faults' # 0,
         \A p \in Proposals :
           /\ rows'[p].task = rows[p].task /\ rows'[p].stopped = rows[p].stopped
           /\ rows[p].task # None => rows'[p].goal = rows[p].goal
  PROVE  OutcomeInv'
<1>1. \A p \in Proposals : rows[p].task # None => (Unpublishable(p)' <=> Unpublishable(p))
  BY DEF Unpublishable
<1>2. OutcomeIsKept'
  BY <1>1 DEF OutcomeInv, OutcomeIsKept, WorkerAlive
<1>3. worker = "finishing" => active # None
  BY WorkerHasTask DEF WorkerAlive
<1>4. (worker = "finishing" /\ faults = 0 =>
         \/ execution \in Stops \/ receipt[active] # None
         \/ \A p \in Proposals : rows[p].task = active => Unpublishable(p))'
  BY <1>1, <1>3 DEF OutcomeInv
<1> QED BY <1>2, <1>4 DEF OutcomeInv, Working

LEMMA PreviewOutcome ==
  ASSUME TypeOK, ConsentInv, OutcomeInv, NEW p \in Proposals, NEW goal \in Goals,
         Preview(p, goal)
  PROVE  OutcomeInv'
<1>1. \A q \in Proposals :
        /\ rows'[q].task = rows[q].task /\ rows'[q].stopped = rows[q].stopped
        /\ rows[q].task # None => rows'[q].goal = rows[q].goal
  BY DEF TypeOK, Preview
<1> QED BY <1>1, OutcomeFrame DEF Preview, thread

LEMMA StartOutcome ==
  ASSUME TypeOK, ConsentInv, OutcomeInv, NEW task \in Tasks, Start(task)
  PROVE  OutcomeInv'
<1> DEFINE q == confirming.proposal
<1>1. confirming \in [proposal : Proposals, manifest : Versions, shown : Versions]
  BY DEF TypeOK, Start
<1>2. /\ receipt[task] = None /\ UNCHANGED receipt /\ active' = task /\ task # None
      /\ \A p \in Proposals : rows[p].task # task
      /\ \A t \in Tasks : t # task => consent'[t] = consent[t]
  <2>1. task \notin Used /\ task # None
    BY FreshTask DEF Start, Tasks
  <2>2. /\ UNCHANGED receipt /\ active' = task
        /\ consent' = [consent EXCEPT ![task] = confirming.shown]
    BY DEF Start
  <2>3. receipt[task] = None /\ \A p \in Proposals : rows[p].task # task
    BY <2>1 DEF ConsentInv
  <2>4. consent \in [Tasks -> Versions \cup {None}]
    BY DEF TypeOK
  <2> QED BY <2>1, <2>2, <2>3, <2>4
<1>3. \/ worker' = "started" /\ UNCHANGED faults
      \/ worker' = "none" /\ faults' # 0
  BY FaultCounts DEF Start, NoFault
<1>4. \A p \in Proposals :
        /\ rows'[p].task = IF p = q /\ rows[p].task = None THEN task ELSE rows[p].task
        /\ rows'[p].stopped = rows[p].stopped /\ rows'[p].goal = rows[p].goal
  <2>1. rows \in [Proposals -> Row]
    BY DEF TypeOK, Row
  <2> DEFINE bound == IF rows[q].task = None
                      THEN [rows[q] EXCEPT !.task = task, !.approval = None] ELSE rows[q]
  <2>2. rows' = [rows EXCEPT ![q] = bound]
    BY DEF Start, Bind
  <2>3. PICK row : row = rows'[q] /\ row = bound
    BY <1>1, <2>1, <2>2
  <2>4. /\ row.task = IF rows[q].task = None THEN task ELSE rows[q].task
        /\ row.stopped = rows[q].stopped /\ row.goal = rows[q].goal
    BY <1>1, <2>1, <2>3 DEF Row
  <2>5. \A p \in Proposals : p # q => rows'[p] = rows[p]
    BY <2>1, <2>2
  <2> HIDE DEF q, bound
  <2> QED BY <2>3, <2>4, <2>5
<1>5. ~WorkerAlive
  BY DEF Start
<1> HIDE DEF q
<1>6. \A p \in Proposals : rows[p].task # None =>
        rows'[p].task = rows[p].task /\ (Unpublishable(p)' <=> Unpublishable(p))
  BY <1>2, <1>4 DEF TypeOK, Unpublishable
<1>7. \A p \in Proposals : rows[p].task = None =>
        rows'[p].task \in {None, task} /\ rows'[p].stopped = "none"
  BY <1>4 DEF OutcomeInv
<1>8. OutcomeIsKept'
  <2> SUFFICES ASSUME NEW p \in Proposals, rows'[p].task # None
               PROVE  /\ receipt'[rows'[p].task] # None =>
                           ~Unpublishable(p)' /\ rows'[p].stopped = "none"
                      /\ faults' = 0 /\ ~(rows'[p].task = active' /\ WorkerAlive') =>
                           \/ receipt'[rows'[p].task] # None
                           \/ rows'[p].stopped \in Stops \/ Unpublishable(p)'
    BY DEF OutcomeIsKept
  <2>1. CASE rows[p].task # None
    BY <1>2, <1>3, <1>4, <1>5, <1>6, <2>1 DEF OutcomeInv, OutcomeIsKept
  <2>2. CASE rows[p].task = None
    BY <1>2, <1>3, <1>7, <2>2 DEF WorkerAlive
  <2> QED BY <2>1, <2>2
<1>9. (\A p, r \in Proposals :
         rows[p].task = rows[r].task /\ rows[p].task # None => p = r)'
  BY <1>2, <1>4 DEF OutcomeInv
<1>10. (\A p \in Proposals : rows[p].task = None => rows[p].stopped = "none")'
  BY <1>4, <1>7, <1>2
<1>11. (\A p \in Proposals : rows[p].task = active => rows[p].stopped = "none")'
  BY <1>2, <1>6, <1>7
<1> QED
  BY <1>2, <1>3, <1>8, <1>9, <1>10, <1>11 DEF OutcomeInv, Working

(* The worker goes on, or gives up for a reason.                           *)
LEMMA WorkOutcome ==
  ASSUME TypeOK, ConsentInv, OutcomeInv, Begin \/ TakeGrant \/ Inspect \/ Audit \/ Parse
  PROVE  OutcomeInv'
<1>1. /\ worker \in Working /\ worker' \in Working \cup {"finishing"}
      /\ worker' = "publishing" => execution' = "COMPLETED"
      /\ worker' = "finishing" => execution' \in Stops
      /\ UNCHANGED <<rows, receipt, active, consent>>
  BY DEF Begin, TakeGrant, Inspect, Audit, Parse, Goes, Elsewhere, durable, Working, Stops
<1>2. faults = faults' \/ faults' # 0
  BY FaultCounts DEF Begin, TakeGrant, Inspect, Audit, Parse, NoFault
<1>3. \A p \in Proposals : Unpublishable(p)' <=> Unpublishable(p)
  BY <1>1 DEF Unpublishable
<1>4. OutcomeIsKept'
  BY <1>1, <1>2, <1>3 DEF OutcomeInv, OutcomeIsKept, WorkerAlive, Working
<1>5. receipt[active] = None
  BY <1>1 DEF OutcomeInv
<1> QED BY <1>1, <1>4, <1>5 DEF OutcomeInv

LEMMA PublishOutcome ==
  ASSUME TypeOK, ConsentInv, OutcomeInv, Publish
  PROVE  OutcomeInv'
<1>1. active \in Tasks /\ active # None /\ captured # None /\ captured = consent[active]
  BY DEF ConsentInv, Used, Publish, Goes, WorkerAlive, Tasks
<1>2. /\ worker = "publishing" /\ worker' = "finishing" /\ execution = "COMPLETED"
      /\ UNCHANGED <<rows, active, execution, consent>>
  BY DEF Publish, Goes, Elsewhere, OutcomeInv
<1>3. \A p \in Proposals : rows[p].task = active => (Unpublishable(p) <=> Refusable)
  BY <1>1 DEF Refusable, Unpublishable, OutcomeInv
<1>4. /\ \A t \in Tasks : t # active => receipt'[t] = receipt[t]
      /\ receipt'[active] # None => ~Refusable
      /\ faults' = 0 => (receipt'[active] # None \/ Refusable) /\ UNCHANGED faults
  <2>1. receipt[active] = None
    BY <1>2 DEF OutcomeInv, Working
  <2> QED BY <1>1, <2>1, FaultCounts DEF TypeOK, Publish, PublishReceipt, NoFault
<1>5. \A p \in Proposals : Unpublishable(p)' <=> Unpublishable(p)
  BY <1>2 DEF Unpublishable
<1>6. \A p \in Proposals : rows[p].task \in Tasks \cup {None}
  BY DEF TypeOK
<1>7. \A p \in Proposals : rows[p].task = active => rows[p].stopped = "none"
  BY <1>2 DEF OutcomeInv, Working
<1>8. OutcomeIsKept'
  <2> SUFFICES ASSUME NEW p \in Proposals, rows[p].task # None
               PROVE  /\ receipt'[rows[p].task] # None =>
                           ~Unpublishable(p) /\ rows[p].stopped = "none"
                      /\ faults' = 0 /\ ~(rows[p].task = active /\ WorkerAlive') =>
                           \/ receipt'[rows[p].task] # None
                           \/ rows[p].stopped \in Stops \/ Unpublishable(p)
    BY <1>2, <1>5 DEF OutcomeIsKept
  <2>1. CASE rows[p].task = active
    BY <1>2, <1>3, <1>4, <1>7, <2>1 DEF WorkerAlive
  <2>2. CASE rows[p].task # active
    BY <1>4, <1>6, <2>2 DEF OutcomeInv, OutcomeIsKept
  <2> QED BY <2>1, <2>2
<1>9. (worker = "finishing" /\ faults = 0 =>
         \/ execution \in Stops \/ receipt[active] # None
         \/ \A p \in Proposals : rows[p].task = active => Unpublishable(p))'
  BY <1>2, <1>3, <1>4, <1>5
<1> QED BY <1>2, <1>8, <1>9 DEF OutcomeInv, Working, Stops

LEMMA FinishOutcome ==
  ASSUME TypeOK, ConsentInv, OutcomeInv, Finish
  PROVE  OutcomeInv'
<1>1. /\ worker = "finishing" /\ worker' = "dead" /\ active # None
      /\ UNCHANGED <<receipt, active, execution, consent>>
      /\ faults = faults' \/ faults' # 0
  BY FaultCounts, WorkerHasTask DEF Finish, Goes, Elsewhere, NoFault, WorkerAlive
<1>2. ASSUME NEW p \in Proposals
      PROVE  /\ rows'[p].task = rows[p].task /\ rows'[p].goal = rows[p].goal
             /\ \/ rows'[p].stopped = rows[p].stopped /\ (rows[p].task = active => faults' # 0)
                \/ /\ rows[p].task = active
                   /\ rows'[p].stopped = IF execution \in Stops THEN execution ELSE "none"
  <2>1. rows[p] \in Row
    BY DEF TypeOK, Row
  <2>2. \/ rows'[p] = rows[p] /\ (rows[p].task = active => faults' # 0)
        \/ /\ rows[p].task = active
           /\ rows'[p] = [rows[p] EXCEPT !.stopped = IF execution \in Stops THEN execution
                                                     ELSE "none"]
    BY FaultCounts DEF Finish
  <2>3. CASE /\ rows[p].task = active
             /\ rows'[p] = [rows[p] EXCEPT !.stopped = IF execution \in Stops THEN execution
                                                       ELSE "none"]
    <3>1. /\ rows'[p].task = rows[p].task /\ rows'[p].goal = rows[p].goal
          /\ rows'[p].stopped = IF execution \in Stops THEN execution ELSE "none"
      BY <2>1, <2>3 DEF Row
    <3> QED BY <2>3, <3>1
  <2> QED BY <2>2, <2>3
<1>3. \A p \in Proposals : Unpublishable(p)' <=> Unpublishable(p)
  BY <1>1, <1>2 DEF Unpublishable
<1>4. OutcomeIsKept'
  <2> SUFFICES ASSUME NEW p \in Proposals, rows[p].task # None
               PROVE  /\ receipt[rows[p].task] # None =>
                           ~Unpublishable(p) /\ rows'[p].stopped = "none"
                      /\ faults' = 0 =>
                           \/ receipt[rows[p].task] # None
                           \/ rows'[p].stopped \in Stops \/ Unpublishable(p)
    BY <1>1, <1>2, <1>3 DEF OutcomeIsKept
  <2>1. /\ receipt[rows[p].task] # None => ~Unpublishable(p) /\ rows[p].stopped = "none"
        /\ faults = 0 /\ rows[p].task # active =>
             \/ receipt[rows[p].task] # None
             \/ rows[p].stopped \in Stops \/ Unpublishable(p)
    BY DEF OutcomeInv, OutcomeIsKept
  <2>2. rows[p].task = active =>
          /\ execution \in Stops => receipt[rows[p].task] = None
          /\ faults = 0 => \/ execution \in Stops \/ receipt[rows[p].task] # None
                           \/ Unpublishable(p)
    BY <1>1 DEF OutcomeInv
  <2> QED BY <1>1, <1>2, <2>1, <2>2
<1>5. (\A p \in Proposals : rows[p].task = None => rows[p].stopped = "none")'
  BY <1>1, <1>2 DEF OutcomeInv
<1>6. (\A p, q \in Proposals :
         rows[p].task = rows[q].task /\ rows[p].task # None => p = q)'
  BY <1>2 DEF OutcomeInv
<1> QED BY <1>1, <1>4, <1>5, <1>6 DEF OutcomeInv, Working

LEMMA OutcomeStep == TypeOK /\ ConsentInv /\ OutcomeInv /\ [Next]_vars => OutcomeInv'
<1> SUFFICES ASSUME TypeOK, ConsentInv, OutcomeInv, [Next]_vars PROVE OutcomeInv' OBVIOUS
<1> USE DEF durable, thread, history, NoFault
<1>1. ASSUME NEW d \in Deciders,
             \/ PublishDecision(d)
             \/ \E task \in Tasks, action \in Actions : OpenDecision(d, task, action)
      PROVE  OutcomeInv'
  <2>1. UNCHANGED <<rows, receipt, consent, active, execution, worker>>
    BY <1>1 DEF PublishDecision, OpenDecision
  <2>2. faults = faults' \/ faults' # 0
    BY <1>1, FaultCounts DEF PublishDecision, OpenDecision
  <2> QED BY <2>1, <2>2, OutcomeFrame
<1>2. CASE \/ \E version \in Versions : Edit(version)
           \/ ReadActive \/ ReadStore \/ UNCHANGED vars
           \/ \E p \in Proposals :
                \/ ReadRow(p)
                \/ \E approval \in DOMAIN shown : Confirm(p, approval)
           \/ StartRefused
  <2>1. UNCHANGED <<rows, receipt, consent, active, execution, worker>>
    BY <1>2 DEF Edit, ReadActive, ReadStore, ReadRow, Confirm, StartRefused, vars
  <2>2. faults = faults' \/ faults' # 0
    BY <1>2, FaultCounts
       DEF Edit, ReadActive, ReadStore, ReadRow, Confirm, StartRefused, vars
  <2> QED BY <2>1, <2>2, OutcomeFrame
<1>3. CASE Cancel
  <2>1. UNCHANGED <<rows, receipt, consent, active, worker, faults>>
    BY <1>3 DEF Cancel
  <2>2. execution = "RUNNING" /\ execution' = "CANCEL_REQUESTED"
    BY <1>3 DEF Cancel
  <2>3. \A p \in Proposals : Unpublishable(p)' <=> Unpublishable(p)
    BY <2>1 DEF Unpublishable
  <2> QED BY <2>1, <2>2, <2>3 DEF OutcomeInv, OutcomeIsKept, WorkerAlive, Working, Stops
<1>4. CASE HostExit
  <2>1. /\ UNCHANGED <<rows, receipt, consent>> /\ faults' # 0
        /\ worker' = "none"
    BY <1>4, FaultCounts DEF HostExit
  <2>2. \A p \in Proposals : Unpublishable(p)' <=> Unpublishable(p)
    BY <2>1 DEF Unpublishable
  <2> QED BY <2>1, <2>2 DEF OutcomeInv, OutcomeIsKept, Working
<1> QED
  BY <1>1, <1>2, <1>3, <1>4, InputAssumption, PreviewOutcome, StartOutcome, WorkOutcome, PublishOutcome,
     FinishOutcome
     DEF Next, Starting, Worker

(* Until something fails, the end of every approved run is on record once  *)
(* its worker is gone, as a result or as a row that says how it stopped,   *)
(* unless the review store refuses its goal or its report; and there is a  *)
(* result only for what the store accepts, never next to a stop            *)
(* (surface.py, _execute; work.py, _finished; review.py, publish).         *)
THEOREM EndsAreOnRecord == Spec => []OutcomeIsKept
<1>1. Init => ConsentInv /\ OutcomeInv
  <2> SUFFICES ASSUME Init PROVE ConsentInv /\ OutcomeInv
    OBVIOUS
  <2>1. Used = 1 .. 0
    BY DEF Init, Used
  <2>2. 0 \in 0 .. MaxTasks
    OBVIOUS
  <2> QED
    BY <2>1, <2>2 DEF Init, ConsentInv, WorkerAlive, ApprovedOnly, Unbound, OutcomeInv,
                      OutcomeIsKept, Working
<1>2. OutcomeInv => OutcomeIsKept
  BY DEF OutcomeInv
<1> QED BY <1>1, <1>2, InitType, TypeStep, ConsentStep, OutcomeStep, PTL DEF Spec

-----------------------------------------------------------------------------
(* What status requests say about the end.                                 *)
(* Where the end of a proposal is known: it was told, it is in the row, a  *)
(* status request is about to tell it, or the task is still shown.         *)
Ends(p) ==
  told[p] \cup
    (Stops \cap ({rows[p].stopped}
                 \cup (IF reader.proposal = p THEN {reader.state} ELSE {})
                 \cup (IF active = rows[p].task THEN {execution} ELSE {})))
EndFits(p, end) ==
  LET t == rows[p].task
  IN /\ t # None
     /\ \/ /\ end \in Stops /\ receipt[t] = None
           /\ active = t => execution = end /\ worker \in {"finishing", "dead"}
        \/ /\ end \notin Stops /\ receipt[t] # None
           /\ decision[t] \in Actions /\ end = Acceptance[decision[t]]
TellInv ==
  /\ reader # Idle => reader.task = rows[reader.proposal].task
  /\ active = None => execution = "none"
  /\ \A p \in Proposals :
       /\ \A x, y \in Ends(p) : x = y
       /\ \A x \in Ends(p) : EndFits(p, x)

LEMMA AcceptanceIsNoStop == \A a \in Actions : Acceptance[a] \notin Stops
<1>1. /\ Acceptance["accept"] = "ACCEPTED" /\ Acceptance["reject"] = "REJECTED"
      /\ Acceptance["revise"] = "REVISION_REQUESTED"
  BY DEF Acceptance
<1>2. /\ "ACCEPTED" \notin Stops /\ "REJECTED" \notin Stops
      /\ "REVISION_REQUESTED" \notin Stops
  BY DEF Stops
<1>3. \A a \in Actions : a = "accept" \/ a = "reject" \/ a = "revise"
  BY WorkAssumption
<1> QED BY <1>1, <1>2, <1>3

(* As long as the worker has not finished nothing is known.                *)
LEMMA WorkingEnds ==
  ASSUME OutcomeInv, TellInv, worker \in Working, NEW p \in Proposals, rows[p].task = active
  PROVE  Ends(p) = {}
<1>1. receipt[active] = None
  BY DEF OutcomeInv
<1> QED BY <1>1 DEF TellInv, EndFits, Working

(* Steps after which no end is known that was not known before.            *)
LEMMA TellKeeps ==
  ASSUME TypeOK, TellInv,
         reader' # Idle => reader'.task = rows'[reader'.proposal].task,
         active' = None => execution' = "none",
         \A p \in Proposals :
           /\ Ends(p)' \subseteq Ends(p)
           /\ Ends(p) # {} =>
                LET t == rows[p].task
                IN /\ rows'[p].task = t /\ receipt'[t] = receipt[t]
                   /\ decision[t] \in Actions => decision'[t] = decision[t]
                   /\ active' = t =>
                        /\ active = t
                        /\ execution \in Stops => execution' = execution
                        /\ worker \in {"finishing", "dead"} => worker' \in {"finishing", "dead"}
  PROVE  TellInv'
<1>1. ASSUME NEW p \in Proposals, NEW x \in Ends(p)' PROVE EndFits(p, x)'
  <2>1. x \in Ends(p) /\ EndFits(p, x)
    BY <1>1 DEF TellInv
  <2> QED BY <1>1, <2>1 DEF EndFits
<1>2. \A p \in Proposals : \A x, y \in Ends(p)' : x = y
  BY DEF TellInv
<1> QED BY <1>1, <1>2 DEF TellInv

(* ... because nothing of what they are known from changes, or the status  *)
(* request and the Companion are merely gone.                              *)
LEMMA EndsFrame ==
  ASSUME UNCHANGED told, reader' \in {reader, Idle},
         \/ active' = None /\ execution' = "none"
         \/ UNCHANGED <<active, execution>>
         \/ active' = active /\ execution' \notin Stops,
         NEW p, rows'[p].stopped = rows[p].stopped, rows'[p].task = rows[p].task
  PROVE  Ends(p)' \subseteq Ends(p)
BY DEF Ends, Stops, Idle

LEMMA QuietTell ==
  ASSUME TypeOK, TellInv, UNCHANGED <<told, receipt>>, reader' \in {reader, Idle},
         \A p \in Proposals :
           rows'[p].stopped = rows[p].stopped /\ rows'[p].task = rows[p].task,
         \A t \in Tasks : decision[t] \in Actions => decision'[t] = decision[t],
         \/ active' = None /\ execution' = "none"
         \/ UNCHANGED <<active, execution, worker>>
  PROVE  TellInv'
<1>1. reader' # Idle => reader'.task = rows'[reader'.proposal].task
  BY DEF TypeOK, TellInv
<1>2. ASSUME NEW p \in Proposals
      PROVE  /\ Ends(p)' \subseteq Ends(p)
             /\ Ends(p) # {} => rows[p].task \in Tasks
  <2>1. /\ rows'[p].stopped = rows[p].stopped /\ rows'[p].task = rows[p].task
    BY <1>2
  <2>2. Ends(p)' \subseteq Ends(p)
    <3>1. CASE active' = None /\ execution' = "none"
      BY <2>1, <3>1, EndsFrame
    <3>2. CASE UNCHANGED <<active, execution>>
      BY <2>1, <3>2, EndsFrame
    <3> QED BY <3>1, <3>2
  <2>3. rows[p].task \in Tasks \cup {None}
    BY <1>2 DEF TypeOK
  <2>4. Ends(p) # {} => rows[p].task # None
    BY <1>2 DEF TellInv, EndFits
  <2> QED BY <2>2, <2>3, <2>4
<1>3. \A t \in Tasks : t # None
  BY DEF Tasks
<1> QED BY <1>1, <1>2, <1>3, TellKeeps DEF TellInv

LEMMA CancelTell ==
  ASSUME TypeOK, TellInv, Cancel
  PROVE  TellInv'
<1>1. /\ execution = "RUNNING" /\ execution' = "CANCEL_REQUESTED"
      /\ UNCHANGED <<rows, receipt, decision, active, worker, reader, told>>
  BY DEF Cancel, durable, history
<1>2. active # None
  BY <1>1 DEF TellInv
<1>3. \A p \in Proposals : Ends(p)' \subseteq Ends(p)
  BY <1>1, EndsFrame DEF Stops
<1> QED BY <1>1, <1>2, <1>3, TellKeeps DEF TellInv, Stops

(* The worker goes on, or gives up for a reason.                           *)
LEMMA WorkTell ==
  ASSUME TypeOK, ConsentInv, OutcomeInv, TellInv, worker \in Working,
         UNCHANGED <<rows, receipt, decision, told, reader, active>>,
         UNCHANGED execution \/ (execution' \in Stops => worker' = "finishing")
  PROVE  TellInv'
<1>1. active \in Tasks /\ active # None /\ receipt[active] = None
  BY DEF ConsentInv, WorkerAlive, Working, OutcomeInv, Used, Tasks
<1>2. ASSUME NEW p \in Proposals, NEW x \in Ends(p)'
      PROVE  EndFits(p, x)' /\ \A y \in Ends(p)' : x = y
  <2>1. CASE rows[p].task = active
    <3>1. Ends(p) = {}
      BY <2>1, WorkingEnds
    <3>2. Ends(p)' \subseteq {execution'} \cap Stops /\ execution' # execution
      BY <1>2, <2>1, <3>1 DEF Ends
    <3> QED BY <1>1, <1>2, <2>1, <3>2 DEF EndFits
  <2>2. CASE rows[p].task # active
    <3>1. Ends(p)' = Ends(p)
      BY <2>2 DEF Ends
    <3> QED BY <1>2, <2>2, <3>1 DEF TellInv, EndFits
  <2> QED BY <2>1, <2>2
<1> QED BY <1>1, <1>2 DEF TellInv

LEMMA WorkerTells ==
  ASSUME TypeOK, ConsentInv, OutcomeInv, TellInv, Worker
  PROVE  TellInv'
<1> USE DEF Goes, Elsewhere, durable
<1>1. CASE Begin \/ TakeGrant \/ Inspect \/ Audit \/ Parse
  <2>1. worker \in Working
    BY <1>1 DEF Begin, TakeGrant, Inspect, Audit, Parse, Working
  <2>2. /\ UNCHANGED <<rows, receipt, decision, told, reader, active>>
        /\ UNCHANGED execution \/ (execution' \in Stops => worker' = "finishing")
    BY <1>1 DEF Begin, TakeGrant, Inspect, Audit, Parse, Stops
  <2> QED BY <2>1, <2>2, WorkTell
<1>2. CASE Publish
  <2>1. /\ worker = "publishing" /\ worker' = "finishing"
        /\ UNCHANGED <<rows, decision, told, reader, active, execution>>
        /\ \A t \in Tasks : t # active => receipt'[t] = receipt[t]
    BY <1>2 DEF Publish, PublishReceipt, TypeOK
  <2>2. \A p \in Proposals : Ends(p)' = Ends(p)
    BY <2>1 DEF Ends
  <2>3. \A p \in Proposals : Ends(p) # {} => rows[p].task \in Tasks /\ rows[p].task # active
    BY <2>1, WorkingEnds DEF TypeOK, TellInv, EndFits, Working
  <2> QED BY <2>1, <2>2, <2>3, TellKeeps DEF TellInv
<1>3. CASE Finish
  <2>1. /\ worker = "finishing" /\ worker' = "dead"
        /\ UNCHANGED <<receipt, decision, told, reader, active, execution>>
    BY <1>3 DEF Finish
  <2>2. ASSUME NEW p \in Proposals
        PROVE  /\ rows'[p].task = rows[p].task
               /\ \/ rows'[p].stopped \in {rows[p].stopped, "none"}
                  \/ rows[p].task = active /\ rows'[p].stopped = execution
    <3>1. rows[p] \in Row
      BY DEF TypeOK, Row
    <3>2. \/ rows'[p] = rows[p]
          \/ /\ rows[p].task = active
             /\ rows'[p] = [rows[p] EXCEPT !.stopped = IF execution \in Stops THEN execution
                                                       ELSE "none"]
      BY <1>3 DEF Finish
    <3>3. CASE rows'[p] = rows[p]
      BY <3>3
    <3>4. CASE /\ rows[p].task = active
               /\ rows'[p] = [rows[p] EXCEPT !.stopped = IF execution \in Stops THEN execution
                                                         ELSE "none"]
      <4>1. /\ rows'[p].task = rows[p].task
            /\ rows'[p].stopped = IF execution \in Stops THEN execution ELSE "none"
        BY <3>1, <3>4 DEF Row
      <4> QED BY <3>4, <4>1
    <3> QED BY <3>2, <3>3, <3>4
  <2>3. \A p \in Proposals : Ends(p)' \subseteq Ends(p)
    BY <2>1, <2>2 DEF Ends, Stops
  <2>4. (reader # Idle => reader.task = rows[reader.proposal].task)'
    BY <2>1, <2>2 DEF TypeOK, TellInv
  <2> QED BY <2>1, <2>2, <2>3, <2>4, TellKeeps DEF TellInv
<1> QED BY <1>1, <1>2, <1>3 DEF Worker

LEMMA StartTell ==
  ASSUME TypeOK, ConsentInv, TellInv, NEW task \in Tasks, Start(task)
  PROVE  TellInv'
<1> DEFINE q == confirming.proposal
<1>1. /\ q \in Proposals /\ task \notin Used /\ task # None
      /\ active' = task /\ execution' = "CREATED"
      /\ UNCHANGED <<receipt, decision, reader, told>>
  BY FreshTask DEF TypeOK, Start, Tasks
<1>2. \A p \in Proposals :
        /\ rows'[p].task = IF p = q /\ rows[p].task = None THEN task ELSE rows[p].task
        /\ rows'[p].stopped = rows[p].stopped
  <2>1. rows \in [Proposals -> Row]
    BY DEF TypeOK, Row
  <2>2. rows' = [rows EXCEPT ![q] = IF rows[q].task = None
                   THEN [rows[q] EXCEPT !.task = task, !.approval = None] ELSE rows[q]]
    BY DEF Start, Bind
  <2>3. PICK row : row = rows'[q] /\ row = IF rows[q].task = None
                   THEN [rows[q] EXCEPT !.task = task, !.approval = None] ELSE rows[q]
    BY <1>1, <2>1, <2>2
  <2>4. /\ row.task = IF rows[q].task = None THEN task ELSE rows[q].task
        /\ row.stopped = rows[q].stopped
    BY <1>1, <2>1, <2>3 DEF Row
  <2>5. \A p \in Proposals : p # q => rows'[p] = rows[p]
    BY <2>1, <2>2
  <2> HIDE DEF q
  <2> QED BY <2>3, <2>4, <2>5
<1> HIDE DEF q
<1>3. \A p \in Proposals : Ends(p) # {} => rows[p].task \in Used
  BY DEF TellInv, EndFits, ConsentInv
<1>4. \A p \in Proposals : Ends(p)' \subseteq Ends(p)
  BY <1>1, <1>2 DEF Ends, Stops
<1>5. (reader # Idle => reader.task = rows[reader.proposal].task)'
  <2>1. reader # Idle => reader.proposal \in Proposals /\ reader.task # None
    BY DEF TypeOK, Tasks
  <2> QED BY <1>1, <1>2, <2>1 DEF TellInv
<1>6. \A p \in Proposals : Ends(p) # {} =>
        rows'[p].task = rows[p].task /\ rows[p].task # task
  BY <1>1, <1>2, <1>3 DEF TellInv, EndFits
<1> QED BY <1>1, <1>4, <1>5, <1>6, TellKeeps

(* A status request reads the row, then the task of the current Companion. *)
LEMMA ReadTell ==
  ASSUME TypeOK, TellInv, (\E p \in Proposals : ReadRow(p)) \/ ReadActive
  PROVE  TellInv'
<1>1. UNCHANGED <<rows, receipt, decision, told, active, execution, worker>>
  BY DEF ReadRow, ReadActive, durable, thread
<1>2. ASSUME NEW q \in Proposals, ReadRow(q)
      PROVE  /\ \A p \in Proposals : Ends(p)' \subseteq Ends(p)
             /\ reader'.task = rows'[reader'.proposal].task
  BY <1>1, <1>2 DEF ReadRow, Ends, Stops
<1>3. ASSUME ReadActive
      PROVE  /\ \A p \in Proposals : Ends(p)' \subseteq Ends(p)
             /\ reader'.task = rows'[reader'.proposal].task
  <2>1. reader \in [proposal : Proposals, task : Tasks, at : {"active", "store"},
                    state : Answers]
    BY <1>3 DEF TypeOK, ReadActive, Idle, Answers
  <2>2. reader.task = rows[reader.proposal].task
    BY <1>3 DEF TellInv, ReadActive, Idle
  <2>3. /\ reader'.proposal = reader.proposal /\ reader'.task = reader.task
        /\ reader'.state = IF active = reader.task THEN Shown ELSE reader.state
    BY <1>3, <2>1 DEF ReadActive
  <2>4. Shown \in Stops => Shown = execution
    BY DEF Shown, Stops
  <2>5. \A p \in Proposals : Ends(p)' \subseteq Ends(p)
    BY <1>1, <2>2, <2>3, <2>4 DEF Ends
  <2> QED BY <1>1, <2>2, <2>3, <2>5
<1> QED BY <1>1, <1>2, <1>3, TellKeeps DEF TellInv

(* ... and the store, and answers.                                         *)
LEMMA AnswerTell ==
  ASSUME TypeOK, TellInv, ReadStore
  PROVE  TellInv'
<1>0. PICK q, t : q = reader.proposal /\ t = reader.task
  OBVIOUS
<1>1. reader \in [proposal : Proposals, task : Tasks, at : {"active", "store"},
                  state : Answers]
  BY DEF TypeOK, ReadStore, Idle, Answers
<1>2. /\ q \in Proposals /\ t = rows[q].task /\ t \in Tasks /\ t # None
      /\ UNCHANGED <<rows, receipt, decision, active, execution, worker>> /\ reader' = Idle
  BY <1>0, <1>1 DEF TellInv, ReadStore, Idle, durable, thread, Tasks
<1>3. PICK state :
        /\ told' = [told EXCEPT ![q] = @ \cup ({state} \cap Final)]
        /\ state = reader.state \/ (receipt[t] # None /\ state = Reviewed(t))
  BY <1>0 DEF ReadStore, Tell
<1>4. /\ \A p \in Proposals : p # q => told'[p] = told[p]
      /\ told'[q] = told[q] \cup ({state} \cap Final)
  BY <1>2, <1>3 DEF TypeOK
<1>5. \A p \in Proposals : p # q => Ends(p)' \subseteq Ends(p)
  BY <1>2, <1>4 DEF Ends, Idle, Stops
<1>6. Ends(q)' \subseteq Ends(q) \cup ({state} \cap Final)
  <2>1. reader'.proposal # q
    BY <1>1, <1>2, WorkAssumption DEF Idle
  <2> QED BY <1>2, <1>4, <2>1 DEF Ends
<1>7. reader.state \in Final => reader.state \in Ends(q)
  <2>1. reader.state \in Answers
    BY <1>1
  <2>2. \A a \in Actions : Acceptance[a] \in {"ACCEPTED", "REJECTED", "REVISION_REQUESTED"}
    <3>1. \A a \in {"accept", "reject", "revise"} :
            Acceptance[a] \in {"ACCEPTED", "REJECTED", "REVISION_REQUESTED"}
      BY DEF Acceptance
    <3> QED BY <3>1, WorkAssumption
  <2>3. reader.state \in Final => reader.state \in Stops
    BY <2>1, <2>2 DEF Answers, Executions, Final, Stops
  <2> QED BY <1>0, <2>3 DEF Ends
<1>8. CASE state \in Final => state \in Ends(q)
  <2>1. \A p \in Proposals : Ends(p)' \subseteq Ends(p)
    <3>1. Ends(q)' \subseteq Ends(q)
      BY <1>6, <1>8
    <3> QED BY <1>5, <3>1
  <2> QED BY <1>2, <2>1, TellKeeps DEF TellInv
<1>9. CASE state \in Final /\ receipt[t] # None /\ state = Reviewed(t)
  <2>1. decision[t] \in Actions /\ state = Acceptance[decision[t]]
    BY <1>2, <1>9 DEF Reviewed, Final, Stops, Acceptance, TypeOK
  <2>2. \A y \in Ends(q) : y = state
    BY <1>2, <1>9, <2>1 DEF TellInv, EndFits
  <2>3. EndFits(q, state)
    BY <1>2, <1>9, <2>1, AcceptanceIsNoStop DEF EndFits
  <2>4. \A x \in Ends(q)' : x = state
    BY <1>6, <2>2
  <2>5. ASSUME NEW p \in Proposals, NEW x \in Ends(p)'
        PROVE  EndFits(p, x)' /\ \A y \in Ends(p)' : x = y
    <3>1. EndFits(p, x) /\ \A y \in Ends(p)' : x = y
      <4>1. CASE p = q
        BY <2>3, <2>4, <2>5, <4>1
      <4>2. CASE p # q
        BY <1>5, <2>5, <4>2 DEF TellInv
      <4> QED BY <4>1, <4>2
    <3> QED BY <1>2, <3>1 DEF EndFits
  <2> QED BY <1>2, <2>5 DEF TellInv
<1> QED BY <1>3, <1>7, <1>8, <1>9

LEMMA PublishTell ==
  ASSUME TypeOK, TellInv, NEW d \in Deciders, PublishDecision(d)
  PROVE  TellInv'
<1>1. deciding[d] \in [task : Tasks, action : Actions, answer : {"pending", "saved"}]
  BY DEF TypeOK, PublishDecision, Quiet
<1>2. deciding[d].task \in Tasks /\ "none" \notin Actions
  BY <1>1, WorkAssumption
<1>3. \A t \in Tasks : decision[t] \in Actions => decision'[t] = decision[t]
  BY <1>2 DEF TypeOK, PublishDecision, Linked
<1>4. UNCHANGED <<rows, receipt, told, reader, active, execution, worker>>
  BY DEF PublishDecision, thread
<1> QED BY <1>3, <1>4, QuietTell

LEMMA PreviewTell ==
  ASSUME TypeOK, TellInv, NEW p \in Proposals, NEW goal \in Goals, Preview(p, goal)
  PROVE  TellInv'
<1>1. \A q \in Proposals : rows'[q].task = rows[q].task /\ rows'[q].stopped = rows[q].stopped
  BY DEF TypeOK, Preview
<1>2. UNCHANGED <<receipt, decision, told, reader, active, execution, worker>>
  BY DEF Preview, thread
<1> QED BY <1>1, <1>2, QuietTell

LEMMA TellStep ==
  TypeOK /\ ConsentInv /\ OutcomeInv /\ TellInv /\ [Next]_vars => TellInv'
<1> SUFFICES ASSUME TypeOK, ConsentInv, OutcomeInv, TellInv, [Next]_vars PROVE TellInv' OBVIOUS
<1>1. CASE \/ \E version \in Versions : Edit(version)
           \/ \E p \in Proposals : \E approval \in DOMAIN shown : Confirm(p, approval)
           \/ StartRefused \/ UNCHANGED vars
           \/ \E d \in Deciders :
                \E task \in Tasks, action \in Actions : OpenDecision(d, task, action)
  <2>1. UNCHANGED <<rows, receipt, decision, told, reader, active, execution, worker>>
    BY <1>1 DEF Edit, Confirm, StartRefused, OpenDecision, vars, durable, thread
  <2> QED BY <2>1, QuietTell
<1>2. CASE HostExit
  <2>1. /\ UNCHANGED <<rows, receipt, decision, told>> /\ reader' = Idle
        /\ active' = None /\ execution' = "none"
    BY <1>2 DEF HostExit, durable
  <2> QED BY <2>1, QuietTell
<1> QED
  BY <1>1, <1>2, InputAssumption, PreviewTell, PublishTell, CancelTell, WorkerTells, StartTell, ReadTell,
     AnswerTell
     DEF Next, Starting

(* Two status requests never give different accounts of how the work of a  *)
(* proposal ended: what is told once is in the durable records, or nowhere *)
(* else but in them can an end come from (work.py, describe).              *)
THEOREM NeverContradicted == Spec => []NeverToldOtherwise
<1>1. Init => ConsentInv /\ OutcomeInv /\ TellInv
  <2> SUFFICES ASSUME Init PROVE ConsentInv /\ OutcomeInv /\ TellInv
    OBVIOUS
  <2>1. Used = 1 .. 0
    BY DEF Init, Used
  <2>2. 0 \in 0 .. MaxTasks
    OBVIOUS
  <2>3. ConsentInv /\ OutcomeInv
    BY <2>1, <2>2 DEF Init, ConsentInv, WorkerAlive, ApprovedOnly, Unbound, OutcomeInv,
                      OutcomeIsKept, Working
  <2>4. \A p \in Proposals : Ends(p) = {}
    BY DEF Init, Ends, Stops, Unbound, Idle
  <2> QED BY <2>3, <2>4 DEF Init, TellInv
<1>2. TellInv => NeverToldOtherwise
  <2> SUFFICES ASSUME TellInv, NEW p \in Proposals PROVE Cardinality(told[p]) <= 1
    BY DEF NeverToldOtherwise
  <2>1. \A x, y \in told[p] : x = y
    BY DEF TellInv, Ends
  <2>2. CASE told[p] = {}
    BY <2>2, FS_EmptySet
  <2>3. CASE told[p] # {}
    <3>1. PICK x \in told[p] : TRUE
      BY <2>3
    <3>2. told[p] = {x}
      BY <2>1, <3>1
    <3>3. Cardinality({x}) = 1
      BY FS_Singleton
    <3>4. 1 <= 1
      OBVIOUS
    <3> QED BY <3>2, <3>3, <3>4
  <2> QED BY <2>2, <2>3
<1> QED
  BY <1>1, <1>2, InitType, TypeStep, ConsentStep, OutcomeStep, TellStep, PTL DEF Spec

=============================================================================
