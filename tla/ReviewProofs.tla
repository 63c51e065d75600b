----------------------------- MODULE ReviewProofs ------------------------------
(***************************************************************************)
(* Proofs about ReviewState and about the panel that watches it, for any   *)
(* number of requests, sessions, faults, comments and moves of people.     *)
(***************************************************************************)
EXTENDS WorkflowPanel, TLAPS, WellFoundedInduction

USE ReviewAssumption

-----------------------------------------------------------------------------
(* Types.                                                                  *)

LEMMA Numbers ==
  /\ Control \notin Targets /\ Targets \subseteq Checkouts /\ Requests \subseteq Targets
  /\ Home \in Targets /\ Home \notin Requests /\ Nobody \notin Requests
  /\ Control \in Nat /\ Requests \subseteq Nat /\ Control \in Checkouts
  /\ Nobody \in Maybe /\ Requests \subseteq Maybe
BY DEF Control, Targets, Requests, Home, Checkouts, Nobody, Maybe

(* What a session may be in, step by step.                                 *)
LEMMA DownType == Down \in Sessions
BY Numbers DEF Down, Sessions, Labels

LEMMA GotoType ==
  ASSUME op \in Sessions, NEW pc \in Labels
  PROVE  [op EXCEPT !.pc = pc] \in Sessions
BY DEF Sessions

LEMMA OwnType ==
  ASSUME op \in Sessions, NEW pc \in Labels
  PROVE  [op EXCEPT !.pc = pc, !.own = TRUE] \in Sessions
BY DEF Sessions

LEMMA BaseType ==
  ASSUME op \in Sessions, NEW pc \in Labels, NEW base \in Nat
  PROVE  [op EXCEPT !.pc = pc, !.base = base] \in Sessions
BY DEF Sessions

LEMMA TodoType ==
  ASSUME op \in Sessions, NEW pc \in Labels, NEW todo \in SUBSET Requests,
         NEW seen \in SUBSET Comments
  PROVE  [op EXCEPT !.pc = pc, !.todo = todo, !.seen = seen] \in Sessions
BY DEF Sessions

LEMMA StartType ==
  ASSUME NEW t \in Targets, NEW r \in Maybe, NEW pc \in Labels
  PROVE  [Down EXCEPT !.target = t, !.request = r, !.pc = pc] \in Sessions
BY DownType DEF Sessions

LEMMA FieldTypes ==
  ASSUME TypeOK
  PROVE  /\ inFlight.request \in Maybe /\ op.request \in Maybe /\ op.target \in Targets
         /\ op.base \in Nat /\ op.todo \subseteq Requests /\ op.seen \subseteq Comments
         /\ ToSet(processed) \subseteq Requests /\ Len(processed) \in Nat
BY DEF TypeOK, Flights, Sessions, ToSet

LEMMA FailureType ==
  ASSUME TypeOK, NEW r \in Maybe, NEW owner, Failure(r, owner)
  PROVE  report' \in Reports
BY FieldTypes DEF Failure, TypeOK, Reports, Statuses

LEMMA CleanType == \A head \in Nat : Clean(head) \in Trees
BY Numbers DEF Clean, Trees

LEMMA InitType == Init => TypeOK
<1> SUFFICES ASSUME Init PROVE TypeOK
  OBVIOUS
<1> USE Numbers DEF Init
<1>1. inFlight \in Flights
  BY DEF NoFlight, Flights, Stages
<1>2. routing \in Routes
  BY DEF Routes
<1>3. report \in Reports
  BY DEF NoReport, Reports, Statuses
<1>4. tree \in [Checkouts -> Trees]
  BY CleanType DEF Missing, Trees
<1>5. address \in [Requests -> Addresses]
  BY DEF NoAddress, Addresses
<1>6. op \in Sessions
  BY DownType
<1>7. processed \in Seq(Requests)
  OBVIOUS
<1>8. /\ candidate \in Maybe /\ comments \subseteq Comments
      /\ verdicts \in [Requests -> Verdicts \cup {"none"}] /\ torn \in BOOLEAN
      /\ answer \in [Requests -> Outcomes \cup {"none"}]
      /\ starts \in Nat /\ faults \in Nat /\ moves \in Nat
  OBVIOUS
<1> QED BY <1>1, <1>2, <1>3, <1>4, <1>5, <1>6, <1>7, <1>8 DEF TypeOK

LEMMA WorldType == TypeOK /\ World => TypeOK'
<1> SUFFICES ASSUME TypeOK, World PROVE TypeOK'
  OBVIOUS
<1> USE Numbers DEF state, world, bounds
<1>1. ASSUME NEW r \in Requests, NEW t \in Targets, Publish(r, t) PROVE TypeOK'
  <2>1. [root |-> t, head |-> tree[t].head] \in Addresses
    BY DEF TypeOK, Trees, Addresses
  <2> QED BY <1>1, <2>1 DEF Publish, TypeOK
<1>2. ASSUME NEW r \in Requests, NEW o \in Answers, RunEnds(r, o) PROVE TypeOK'
  <2>1. address[r].root \in Checkouts
    BY DEF TypeOK, Addresses
  <2>2. [tree EXCEPT ![address[r].root].holds = r] \in [Checkouts -> Trees]
    BY <2>1 DEF TypeOK, Trees
  <2> QED BY <1>2, <2>2 DEF RunEnds, TypeOK
<1>3. ASSUME NEW c \in Comments, Review(c) PROVE TypeOK'
  BY <1>3 DEF Review, TypeOK
<1>4. ASSUME NEW t \in Checkouts, Tidy(t) PROVE TypeOK'
  <2>1. /\ [tree[t] EXCEPT !.holds = Nobody, !.staged = FALSE] \in Trees
        /\ [tree[t] EXCEPT !.staged = TRUE] \in Trees
    BY DEF TypeOK, Trees
  <2>4. /\ [tree EXCEPT ![t].holds = Nobody, ![t].staged = FALSE] \in [Checkouts -> Trees]
        /\ [tree EXCEPT ![t].staged = TRUE] \in [Checkouts -> Trees]
    BY <2>1 DEF TypeOK
  <2>2. tree[t].head + 1 \in Nat
    BY DEF TypeOK, Trees
  <2>3. [tree EXCEPT ![t] = Clean(tree[t].head + 1)] \in [Checkouts -> Trees]
    BY <2>2, CleanType DEF TypeOK
  <2>5. tree' \in [Checkouts -> Trees]
    BY <1>4, <2>3, <2>4 DEF Tidy
  <2> QED BY <1>4, <2>5 DEF Tidy, TypeOK
<1> QED BY <1>1, <1>2, <1>3, <1>4 DEF World

(* From the start of a session to the run.                                 *)
LEMMA StartsType ==
  ASSUME TypeOK, NEW t \in Targets, Start(t)
  PROVE  TypeOK'
<1> USE DEF state, world, bounds
<1>1. inFlight.request \in Maybe
  BY FieldTypes
<1>2. op' \in Sessions
  BY <1>1, StartType DEF Start, Labels
<1>3. starts \in Nat /\ starts' = starts + 1
  BY DEF Start, TypeOK
<1>4. starts' \in Nat
  BY <1>3
<1> QED BY <1>2, <1>4 DEF Start, TypeOK

LEMMA DispatchType ==
  ASSUME TypeOK, Recover \/ Begin \/ Scan \/ Delegate \/ Dispatch \/ Await
  PROVE  TypeOK'
<1> USE FieldTypes, DownType, GotoType DEF state, world, bounds, Goto, Quit, NoFault
<1>2. CASE Recover
  <2>1. op' \in Sessions
    BY <1>2 DEF Recover, TypeOK, Labels
  <2>2. report' \in Reports
    BY <1>2, FailureType DEF Recover, TypeOK
  <2> QED BY <1>2, <2>1, <2>2 DEF Recover, TypeOK
<1>3. CASE Begin
  <2>1. op' \in Sessions
    BY <1>3 DEF Begin, TypeOK, Labels
  <2>2. [report EXCEPT !.status = "running", !.last = op.request] \in Reports
    BY DEF TypeOK, Reports, Statuses
  <2>3. report' \in Reports
    BY <1>3, <2>2, FailureType DEF Begin
  <2> QED BY <1>3, <2>1, <2>3 DEF Begin, TypeOK
<1>4. CASE Scan
  <2> DEFINE r == IF Current = {} THEN Nobody ELSE CHOOSE x \in Current : TRUE
  <2>1. r \in Maybe
    BY Numbers DEF Maybe, Current, Published
  <2>2. op' \in Sessions
    BY <1>4, <2>1 DEF Scan, TypeOK, Sessions, Labels
  <2>3. report' \in Reports
    BY <1>4, <2>1 DEF Scan, TypeOK, Reports, Statuses
  <2> QED BY <1>4, <2>2, <2>3 DEF Scan, TypeOK
<1>5. CASE Delegate
  <2>1. /\ [op EXCEPT !.pc = "dispatch", !.own = TRUE] \in Sessions
        /\ [request |-> op.request, stage |-> "PREPARED"] \in Flights
    BY OwnType DEF TypeOK, Labels, Flights, Stages
  <2>2. op' \in Sessions /\ inFlight' \in Flights
    BY <1>5, <2>1 DEF Delegate, TypeOK
  <2>3. report' \in Reports
    BY <1>5, FailureType DEF Delegate, TypeOK
  <2> QED BY <1>5, <2>1, <2>2, <2>3 DEF Delegate, TypeOK
<1>6. CASE Dispatch
  <2>1. op' \in Sessions /\ inFlight' \in Flights
    BY <1>6 DEF Dispatch, TypeOK, Labels, Flights, Stages
  <2> QED BY <1>6, <2>1 DEF Dispatch, TypeOK
<1>7. CASE Await
  <2>1. op' \in Sessions
    BY <1>7 DEF Await, TypeOK, Labels
  <2>2. inFlight' \in Flights
    BY <1>7 DEF Await, TypeOK, Flights, Stages
  <2>3. answer' \in [Requests -> Outcomes \cup {"none"}]
    BY <1>7 DEF Await, TypeOK, Outcomes
  <2> QED BY <1>7, <2>1, <2>2, <2>3 DEF Await, TypeOK
<1> QED BY <1>2, <1>3, <1>4, <1>5, <1>6, <1>7

(* The settlement.                                                         *)
LEMMA SettleType ==
  ASSUME TypeOK, op.pc \in {"route", "select", "append"} => op.request \in Requests,
         Persist \/ Route \/ Select \/ AppendRecord \/ Mark \/ Release
  PROVE  TypeOK'
<1> USE FieldTypes, DownType, GotoType DEF state, world, bounds, Goto, Quit, NoFault, Fault
<1>1. CASE Persist
  <2>1. AfterPersist(op.request) \in Labels
    BY DEF AfterPersist, Labels
  <2>2. op' \in Sessions
    BY <1>1, <2>1 DEF Persist, TypeOK
  <2>3. report' \in Reports
    BY <1>1, FailureType DEF Persist, TypeOK
  <2> QED BY <1>1, <2>2, <2>3 DEF Persist, WriteCandidate, TypeOK
<1>2. CASE Route
  <2>1. tree[Control].head \in Nat /\ Clean(tree[Control].head) \in Trees
    BY Numbers, CleanType DEF TypeOK, Trees
  <2>2. [op EXCEPT !.pc = "select", !.base = tree[Control].head] \in Sessions
    BY <2>1, BaseType DEF TypeOK, Labels
  <2>3. op' \in Sessions
    BY <1>2, <2>2 DEF Route, TypeOK, Labels
  <2>4. [tree EXCEPT ![op.request] = Clean(tree[Control].head)] \in [Checkouts -> Trees]
    BY <2>1 DEF TypeOK
  <2>5. tree' \in [Checkouts -> Trees]
    BY <1>2, <2>4 DEF Route, TypeOK
  <2> QED BY <1>2, <2>3, <2>5 DEF Route, TypeOK
<1>3. CASE Select
  <2>1. [op EXCEPT !.pc = "append", !.base = 0] \in Sessions
    BY BaseType DEF TypeOK, Labels
  <2>2. op' \in Sessions
    BY <1>3, <2>1 DEF Select
  <2>3. [root |-> op.request, pinned |-> TRUE, head |-> op.base] \in Routes
    BY <1>3, Numbers DEF Select, Routes
  <2>4. routing' \in Routes
    BY <1>3, <2>3 DEF Select, TypeOK
  <2> QED BY <1>3, <2>2, <2>4 DEF Select, TypeOK
<1>4. CASE AppendRecord
  <2>1. op' \in Sessions
    BY <1>4 DEF AppendRecord, TypeOK, Labels
  <2>2. Append(processed, op.request) \in Seq(Requests)
    BY <1>4 DEF AppendRecord, TypeOK
  <2> QED BY <1>4, <2>1, <2>2 DEF AppendRecord, TypeOK
<1>5. CASE Mark
  <2>1. op' \in Sessions /\ inFlight' \in Flights
    BY <1>5 DEF Mark, TypeOK, Labels, Flights, Stages
  <2> QED BY <1>5, <2>1 DEF Mark, TypeOK
<1>6. CASE Release
  <2>1. op' \in Sessions
    BY <1>6 DEF Release, TypeOK, Labels
  <2>2. report' \in Reports
    BY <1>6, FailureType DEF Release, TypeOK
  <2>3. inFlight' \in Flights
    BY <1>6, Numbers DEF Release, NoFlight, Flights, Stages
  <2> QED BY <1>6, <2>1, <2>2, <2>3 DEF Release, TypeOK
<1> QED BY <1>1, <1>2, <1>3, <1>4, <1>5, <1>6

(* The verdicts, and the end of a session.                                 *)
LEMMA VerdictType ==
  ASSUME TypeOK, SkipVerdicts \/ ReadVerdicts \/ Ingest \/ Stop \/ Crash
  PROVE  TypeOK'
<1> USE FieldTypes, DownType, GotoType DEF state, world, bounds, Goto, Quit, NoFault, Fault
<1>1. CASE SkipVerdicts
  BY <1>1 DEF SkipVerdicts, TypeOK, Labels
<1>2. CASE ReadVerdicts
  <2>1. op' \in Sessions
    BY <1>2, TodoType DEF ReadVerdicts, Pending, TypeOK, Labels
  <2> QED BY <1>2, <2>1 DEF ReadVerdicts, TypeOK
<1>3. CASE Ingest
  <2>4. [op EXCEPT !.todo = op.todo \ {NextPending}] \in Sessions
    BY DEF TypeOK, Sessions
  <2>1. op' \in Sessions
    BY <1>3, <2>4, TodoType DEF Ingest, TypeOK, Labels
  <2>2. ASSUME NEW r, NEW c \in Matching(r)
        PROVE  VerdictRecord(r, c) \in [Requests -> Verdicts \cup {"none"}]
    BY DEF VerdictRecord, Matching, Comments, TypeOK
  <2>3. verdicts' \in [Requests -> Verdicts \cup {"none"}]
    BY <1>3, <2>2 DEF Ingest, TypeOK
  <2> QED BY <1>3, <2>1, <2>3 DEF Ingest, TypeOK
<1>4. CASE Stop
  <2>1. [report EXCEPT !.status = "stopped", !.beat = "stopped", !.last = op.request] \in Reports
    BY DEF TypeOK, Reports, Statuses
  <2> QED BY <1>4, <2>1 DEF Stop, TypeOK
<1>5. CASE Crash
  <2>1. op' \in Sessions /\ torn' \in BOOLEAN
    BY <1>5 DEF Crash, TypeOK
  <2> QED BY <1>5, <2>1 DEF Crash, TypeOK
<1> QED BY <1>1, <1>2, <1>3, <1>4, <1>5
-----------------------------------------------------------------------------
(* The order of admission.  Requests are recorded in the order in which    *)
(* they are written; the request of a session at work is the next one to   *)
(* be recorded, and in flight from its commitment on; one that is in       *)
(* flight as rejected, and every recorded one, has its answer.             *)

Unsettled == {"dispatch", "await", "persist", "route", "select", "append"}
Settling == {"route", "select", "append"}
Engaged == Unsettled \cup {"recover", "mark", "remove"}

OrderInv ==
  /\ \A i \in DOMAIN processed : processed[i] = i
  /\ \A r \in Requests : r <= Len(processed) => r \in Published /\ answer[r] # "none"
  /\ \A r \in Published : r <= Len(processed) + 1
  /\ inFlight.request = Nobody => inFlight = NoFlight
  /\ inFlight.request # Nobody => inFlight.request \in Published
  /\ inFlight.stage = "REJECTED_BEFORE_RUNNER" => answer[inFlight.request] = "rejected"
  /\ op.pc \in Unsettled \cup {"delegate"} =>
       op.request = Len(processed) + 1 /\ op.request \in Published
  /\ op.pc \in Engaged => inFlight.request = op.request /\ op.request # Nobody
  /\ op.pc \in Settling => answer[op.request] # "none"

(* The pointer is never ahead of the next record, and is at it once the    *)
(* candidate has been persisted.                                           *)
PointerInv ==
  /\ candidate <= Len(processed) + 1
  /\ op.pc \in {"route", "select"} => candidate = op.request
  /\ op.pc = "append" /\ answer[op.request] = "eligible" => candidate = op.request
  /\ CandidateFirst

(* A session that ingests goes through recorded requests without verdict.  *)
TodoInv ==
  op.pc = "ingest" =>
    op.todo # {} /\ \A r \in op.todo : r \in ToSet(processed) /\ verdicts[r] = "none"

Inv == TypeOK /\ OrderInv /\ PointerInv /\ TodoInv
LEMMA Records ==
  ASSUME NEW s \in Seq(Requests), \A i \in DOMAIN s : s[i] = i
  PROVE  /\ ToSet(s) = {r \in Requests : r <= Len(s)}
         /\ \A r \in Requests : (\E i \in DOMAIN s : s[i] = r) <=> r <= Len(s)
<1>1. DOMAIN s = 1 .. Len(s) /\ Len(s) \in Nat /\ \A i \in DOMAIN s : s[i] \in Requests
  OBVIOUS
<1>2. \A r \in Requests : (\E i \in DOMAIN s : s[i] = r) <=> r <= Len(s)
  BY <1>1 DEF Requests
<1>3. ToSet(s) = {s[i] : i \in DOMAIN s}
  BY DEF ToSet
<1> QED BY <1>1, <1>2, <1>3

LEMMA Recorded ==
  ASSUME TypeOK, OrderInv
  PROVE  /\ ToSet(processed) = {r \in Requests : r <= Len(processed)}
         /\ \A r \in Requests : IsProcessed(r) <=> r <= Len(processed)
         /\ Len(processed) \in Nat
BY Records DEF TypeOK, OrderInv, IsProcessed

LEMMA InitOrder == Init => OrderInv /\ PointerInv /\ TodoInv
<1> SUFFICES ASSUME Init PROVE OrderInv /\ PointerInv /\ TodoInv
  OBVIOUS
<1>1. Published = {}
  BY DEF Init, Published
<1>2. op.pc = "down" /\ inFlight = NoFlight /\ NoFlight.stage = "NONE" /\ Len(processed) = 0
      /\ NoFlight.request = Nobody /\ DOMAIN processed = {}
  BY DEF Init, Down, NoFlight
<1>3. OrderInv
  BY <1>1, <1>2, Numbers DEF OrderInv, Unsettled, Settling, Engaged, Requests
<1>4. ToSet(processed) = {}
  BY <1>2 DEF ToSet
<1>5. routing.root \notin Requests
  BY Numbers DEF Init, Home, Control, Requests
<1>6. PointerInv
  BY <1>2, <1>4, <1>5 DEF PointerInv, CandidateFirst, Init, Nobody
<1> QED BY <1>2, <1>3, <1>6 DEF TodoInv

(* Steps of the world: an address is written for the next request only,    *)
(* and an answer is given once.                                            *)
LEMMA PublishInv ==
  ASSUME Inv, NEW r \in Requests, NEW t \in Targets, Publish(r, t)
  PROVE  OrderInv' /\ PointerInv' /\ TodoInv'
<1> USE DEF state, bounds
<1>1. UNCHANGED <<inFlight, processed, candidate, routing, verdicts, op, answer>>
  BY DEF Publish
<1>2. /\ [root |-> t, head |-> tree[t].head] # NoAddress
      /\ address' = [address EXCEPT ![r] = [root |-> t, head |-> tree[t].head]]
      /\ address \in [Requests -> Addresses]
  BY Numbers DEF Publish, NoAddress, Inv, TypeOK
<1>3. Published' = Published \cup {r}
  BY <1>2 DEF Published
<1>4. r <= Len(processed) + 1
  <2>1. CASE r = 1
    BY <2>1, FieldTypes DEF Inv
  <2>2. CASE r # 1
    <3>1. r - 1 \in Published
      BY <2>2, Numbers DEF Publish, Requests
    <3>2. r - 1 \in Requests /\ IsProcessed(r - 1)
      BY <3>1 DEF Published, Publish, Current
    <3> QED BY <3>2, Recorded DEF Inv, Requests
  <2> QED BY <2>1, <2>2
<1>5. OrderInv'
  BY <1>1, <1>3, <1>4 DEF Inv, OrderInv
<1> QED BY <1>1, <1>5 DEF Inv, PointerInv, CandidateFirst, TodoInv

LEMMA RunEndsInv ==
  ASSUME Inv, NEW r \in Requests, NEW o \in Answers, RunEnds(r, o)
  PROVE  OrderInv' /\ PointerInv' /\ TodoInv'
<1> USE DEF state, bounds
<1>1. UNCHANGED <<inFlight, processed, candidate, routing, verdicts, op, address>>
  BY DEF RunEnds
<1>2. /\ answer[r] = "none" /\ answer' = [answer EXCEPT ![r] = o] /\ o # "none"
      /\ inFlight.stage = "DISPATCHED_NOT_LOCALLY_SETTLED"
      /\ answer \in [Requests -> Outcomes \cup {"none"}]
  BY DEF RunEnds, Outcomes, Success, Bound, Inv, TypeOK
<1>3. Published' = Published
  BY <1>1 DEF Published
<1>4. \A q \in Requests : answer[q] # "none" => answer'[q] = answer[q]
  BY <1>2
<1>5. \A q \in Requests : answer'[q] = "none" => answer[q] = "none"
  BY <1>2
<1>6. op.request \in Requests \/ op.pc \notin Settling
  BY DEF Inv, OrderInv, Unsettled, Settling, Published
<1>7. OrderInv'
  BY <1>1, <1>2, <1>3, <1>4, <1>5, <1>6 DEF Inv, OrderInv
<1>8. \A q \in ToSet(processed) : q \in Requests /\ answer'[q] = answer[q]
  BY <1>4, Recorded DEF Inv, OrderInv
<1>9. op.pc = "append" => answer'[op.request] = answer[op.request]
  BY <1>4, <1>6 DEF Inv, OrderInv, Settling
<1>10. PointerInv'
  BY <1>1, <1>8, <1>9 DEF Inv, PointerInv, CandidateFirst
<1> QED BY <1>1, <1>7, <1>10 DEF Inv, TodoInv

(* What people do to the comments and the checkouts is not mentioned.      *)
LEMMA ElsewhereInv ==
  ASSUME Inv, UNCHANGED <<inFlight, processed, candidate, routing, verdicts, op, answer, address>>
  PROVE  OrderInv' /\ PointerInv' /\ TodoInv'
BY DEF Inv, OrderInv, Published, PointerInv, CandidateFirst, TodoInv

LEMMA WorldInv == Inv /\ World => OrderInv' /\ PointerInv' /\ TodoInv'
<1>1. ASSUME Inv, NEW c \in Comments, Review(c) PROVE OrderInv' /\ PointerInv' /\ TodoInv'
  BY <1>1, ElsewhereInv DEF Review, state, bounds
<1>2. ASSUME Inv, NEW t \in Checkouts, Tidy(t) PROVE OrderInv' /\ PointerInv' /\ TodoInv'
  BY <1>2, ElsewhereInv DEF Tidy, state
<1> QED BY <1>1, <1>2, PublishInv, RunEndsInv DEF World
(* A step of a session that only moves on, or only ends.                   *)
Files == <<inFlight, processed, candidate, routing, verdicts, answer, address>>

LEMMA MovesInv ==
  ASSUME Inv, UNCHANGED Files,
         op'.pc \in Unsettled \cup {"delegate"} =>
           op'.request = Len(processed) + 1 /\ op'.request \in Published,
         op'.pc \in Engaged => inFlight.request = op'.request /\ op'.request # Nobody,
         op'.pc \in Settling => answer[op'.request] # "none",
         op'.pc = "append" /\ answer[op'.request] = "eligible" => candidate = op'.request,
         op'.pc \in {"route", "select"} => candidate = op'.request,
         op'.pc = "ingest" =>
           op'.todo # {} /\ \A r \in op'.todo : r \in ToSet(processed) /\ verdicts[r] = "none"
  PROVE  OrderInv' /\ PointerInv' /\ TodoInv'
<1>1. OrderInv'
  BY DEF Files, Inv, OrderInv, Published
<1>2. PointerInv'
  BY DEF Files, Inv, PointerInv, CandidateFirst
<1> QED BY <1>1, <1>2 DEF Files, Inv, TodoInv

(* What the steps use of a session.                                        *)
LEMMA SessionFacts ==
  ASSUME Inv
  PROVE  /\ Down.pc = "down"
         /\ \A pc \in Labels : /\ [op EXCEPT !.pc = pc].pc = pc
                               /\ [op EXCEPT !.pc = pc].request = op.request
<1>1. op \in Sessions
  BY DEF Inv, TypeOK
<1> QED BY <1>1 DEF Sessions, Down

(* A request that has been written and is not recorded is the next one.    *)
LEMMA NextToRecord ==
  ASSUME Inv, NEW r \in Published, ~IsProcessed(r)
  PROVE  r = Len(processed) + 1
<1>1. r \in Requests /\ r \in Nat /\ r <= Len(processed) + 1 /\ Len(processed) \in Nat
  BY FieldTypes, Numbers DEF Published, Inv, OrderInv
<1>2. ~(r <= Len(processed))
  BY <1>1, Recorded DEF Inv
<1> QED BY <1>1, <1>2

LEMMA StartInv ==
  ASSUME Inv, NEW t \in Targets, Start(t)
  PROVE  OrderInv' /\ PointerInv' /\ TodoInv'
<1>1. UNCHANGED Files
  BY DEF Start, Files, state, world
<1>2. /\ op'.pc = (IF inFlight = NoFlight THEN "begin" ELSE "recover")
      /\ op'.request = inFlight.request
  BY DEF Start, Down
<1>3. op'.pc = "recover" => inFlight.request # Nobody
  BY <1>2 DEF Inv, OrderInv
<1> QED BY <1>1, <1>2, <1>3, MovesInv DEF Unsettled, Settling, Engaged

LEMMA RecoverInv ==
  ASSUME Inv, Recover
  PROVE  OrderInv' /\ PointerInv' /\ TodoInv'
<1>1. UNCHANGED Files
  BY DEF Recover, Files, world
<1>2. op.pc = "recover" /\ inFlight.request = op.request /\ op.request # Nobody
      /\ op.request \in Published
  BY DEF Recover, Inv, OrderInv, Engaged
<1>3. ~IsProcessed(op.request) => op.request = Len(processed) + 1
  BY <1>2, NextToRecord
<1>4. \/ op'.pc = "down"
      \/ op'.pc = "remove" /\ op'.request = op.request
      \/ /\ op'.pc = "append" /\ op'.request = op.request /\ ~IsProcessed(op.request)
         /\ answer[op.request] = "rejected"
      \/ op'.pc = "persist" /\ op'.request = op.request /\ ~IsProcessed(op.request)
  <2>1. inFlight.stage = "REJECTED_BEFORE_RUNNER" => answer[op.request] = "rejected"
    BY <1>2 DEF Inv, OrderInv
  <2>2. \/ op' = Down
        \/ op' = [op EXCEPT !.pc = "remove"]
        \/ /\ op' = [op EXCEPT !.pc = "append"] /\ ~IsProcessed(op.request)
           /\ inFlight.stage = "REJECTED_BEFORE_RUNNER"
        \/ op' = [op EXCEPT !.pc = "persist"] /\ ~IsProcessed(op.request)
    BY <1>2 DEF Recover, Goto, Quit
  <2>3. ASSUME NEW pc \in {"remove", "append", "persist"}, op' = [op EXCEPT !.pc = pc]
        PROVE  op'.pc = pc /\ op'.request = op.request
    BY <2>3, SessionFacts DEF Labels
  <2> QED BY <2>1, <2>2, <2>3, SessionFacts
<1> QED BY <1>1, <1>2, <1>3, <1>4, MovesInv DEF Unsettled, Settling, Engaged

LEMMA BeginInv ==
  ASSUME Inv, Begin \/ SkipVerdicts \/ Stop
  PROVE  OrderInv' /\ PointerInv' /\ TodoInv'
<1>1. UNCHANGED Files
  BY DEF Begin, SkipVerdicts, Stop, Files, world, state
<1>2. op'.pc \in {"down", "poll"}
  <2>1. op' = Down \/ op' = [op EXCEPT !.pc = "poll"]
    BY DEF Begin, SkipVerdicts, Stop, Goto, Quit
  <2>2. [op EXCEPT !.pc = "poll"].pc = "poll" /\ Down.pc = "down"
    BY SessionFacts DEF Labels
  <2> QED BY <2>1, <2>2
<1> QED BY <1>1, <1>2, MovesInv DEF Unsettled, Settling, Engaged

LEMMA ScanInv ==
  ASSUME Inv, Scan
  PROVE  OrderInv' /\ PointerInv' /\ TodoInv'
<1> DEFINE r == IF Current = {} THEN Nobody ELSE CHOOSE x \in Current : TRUE
<1>1. UNCHANGED Files
  BY DEF Scan, Files, world
<1>2. op'.pc = (IF r = Nobody THEN "verdicts" ELSE "delegate") /\ op'.request = r
  BY DEF Scan, Inv, TypeOK, Sessions
<1>3. r # Nobody => r \in Published /\ ~IsProcessed(r)
  BY DEF Current
<1>4. r # Nobody => r = Len(processed) + 1
  BY <1>3, NextToRecord
<1> QED BY <1>1, <1>2, <1>3, <1>4, MovesInv DEF Unsettled, Settling, Engaged
LEMMA DelegateInv ==
  ASSUME Inv, Delegate
  PROVE  OrderInv' /\ PointerInv' /\ TodoInv'
<1> DEFINE r == op.request
<1>1. UNCHANGED <<processed, candidate, routing, verdicts, answer, address>>
  BY DEF Delegate, world
<1>2. op.pc = "delegate" /\ r = Len(processed) + 1 /\ r \in Published /\ r # Nobody
  BY Numbers DEF Delegate, Inv, OrderInv, Published
<1>3. CASE op' = Down /\ UNCHANGED inFlight
  BY <1>1, <1>3, SessionFacts, MovesInv DEF Files, Unsettled, Settling, Engaged
<1>4. CASE /\ inFlight' = [request |-> r, stage |-> "PREPARED"]
           /\ op' = [op EXCEPT !.pc = "dispatch", !.own = TRUE]
  <2>1. op'.pc = "dispatch" /\ op'.request = r
    BY <1>4 DEF Inv, TypeOK, Sessions
  <2>2. inFlight'.request = r /\ inFlight'.stage = "PREPARED"
    BY <1>4
  <2>3. Published' = Published
    BY <1>1 DEF Published
  <2>4. OrderInv'
    BY <1>1, <1>2, <2>1, <2>2, <2>3 DEF Inv, OrderInv, Unsettled, Settling, Engaged
  <2>5. PointerInv'
    BY <1>1, <2>1 DEF Inv, PointerInv, CandidateFirst
  <2> QED BY <2>1, <2>4, <2>5 DEF TodoInv
<1> QED BY <1>3, <1>4 DEF Delegate, Quit

LEMMA DispatchInv ==
  ASSUME Inv, Dispatch
  PROVE  OrderInv' /\ PointerInv' /\ TodoInv'
<1>1. UNCHANGED <<processed, candidate, routing, verdicts, answer, address>>
  BY DEF Dispatch, world
<1>2. /\ inFlight'.request = inFlight.request
      /\ inFlight'.stage = "DISPATCHED_NOT_LOCALLY_SETTLED"
  BY DEF Dispatch, Inv, TypeOK, Flights
<1>3. op.pc = "dispatch" /\ op'.pc = "await" /\ op'.request = op.request
  BY SessionFacts DEF Dispatch, Goto, Labels
<1>4. Published' = Published
  BY <1>1 DEF Published
<1>5. inFlight.request # Nobody
  BY <1>3 DEF Inv, OrderInv, Engaged, Unsettled
<1>6. OrderInv'
  BY <1>1, <1>2, <1>3, <1>4, <1>5 DEF Inv, OrderInv, Unsettled, Settling, Engaged
<1>7. PointerInv'
  BY <1>1, <1>3 DEF Inv, PointerInv, CandidateFirst
<1> QED BY <1>3, <1>6, <1>7 DEF TodoInv

LEMMA AwaitInv ==
  ASSUME Inv, Await
  PROVE  OrderInv' /\ PointerInv' /\ TodoInv'
<1> DEFINE r == op.request
<1>1. /\ op.pc = "await" /\ r = Len(processed) + 1 /\ r \in Published /\ r # Nobody
      /\ inFlight.request = r /\ r \in Requests
  BY DEF Await, Inv, OrderInv, Published, Unsettled, Settling, Engaged
<1>2. CASE op' = Down /\ UNCHANGED Files
  BY <1>2, SessionFacts, MovesInv DEF Unsettled, Settling, Engaged
<1>3. CASE op' = [op EXCEPT !.pc = "persist"] /\ UNCHANGED Files
  <2>1. op'.pc = "persist" /\ op'.request = r
    BY <1>3, SessionFacts DEF Labels
  <2> QED BY <1>1, <1>3, <2>1, MovesInv DEF Unsettled, Settling, Engaged
<1>4. CASE /\ op' = [op EXCEPT !.pc = "append"] /\ answer[r] = "none"
           /\ answer' = [answer EXCEPT ![r] = "rejected"]
           /\ inFlight' = [inFlight EXCEPT !.stage = "REJECTED_BEFORE_RUNNER"]
           /\ UNCHANGED <<processed, candidate, routing, verdicts, address>>
  <2>1. op'.pc = "append" /\ op'.request = r
    BY <1>4, SessionFacts DEF Labels
  <2>2. inFlight'.request = r /\ inFlight'.stage = "REJECTED_BEFORE_RUNNER"
    BY <1>1, <1>4 DEF Inv, TypeOK, Flights
  <2>3. /\ answer'[r] = "rejected"
        /\ \A q \in Requests : q # r => answer'[q] = answer[q]
    BY <1>1, <1>4 DEF Inv, TypeOK
  <2>4. Published' = Published
    BY <1>4 DEF Published
  <2>5. OrderInv'
    BY <1>1, <1>4, <2>1, <2>2, <2>3, <2>4 DEF Inv, OrderInv, Unsettled, Settling, Engaged
  <2>6. \A q \in ToSet(processed) : q # r /\ q \in Requests
    <3>1. Len(processed) \in Nat
      BY FieldTypes DEF Inv
    <3> QED BY <3>1, <1>1, Recorded, Numbers DEF Inv
  <2>7. PointerInv'
    BY <1>4, <2>1, <2>3, <2>6 DEF Inv, PointerInv, CandidateFirst
  <2> QED BY <2>1, <2>5, <2>7 DEF TodoInv
<1> QED BY <1>2, <1>3, <1>4 DEF Await, Goto, Quit, Files
(* The settlement.  The work is the one of the next request to be          *)
(* recorded, so its pointer is ahead of all records and of the routing.    *)
LEMMA AtSettlement ==
  ASSUME Inv, op.pc \in Unsettled
  PROVE  /\ op.request = Len(processed) + 1 /\ op.request \in Published
         /\ op.request \in Requests /\ op.request \in Nat /\ op.request # Nobody
         /\ inFlight.request = op.request
         /\ \A q \in ToSet(processed) : q \in Requests /\ q < op.request
<1>1. /\ op.request = Len(processed) + 1 /\ op.request \in Published
      /\ op.request # Nobody /\ inFlight.request = op.request
  BY DEF Inv, OrderInv, Engaged
<1>2. op.request \in Requests /\ op.request \in Nat /\ Len(processed) \in Nat
  BY <1>1, FieldTypes, Numbers DEF Inv, Published
<1>3. ASSUME NEW q \in ToSet(processed) PROVE q \in Requests /\ q < op.request
  <2>1. q \in Requests /\ q <= Len(processed)
    BY Recorded DEF Inv
  <2> QED BY <2>1, <1>1, <1>2, Numbers
<1> QED BY <1>1, <1>2, <1>3

LEMMA PersistInv ==
  ASSUME Inv, Persist
  PROVE  OrderInv' /\ PointerInv' /\ TodoInv'
<1> DEFINE r == op.request
<1>1. op.pc = "persist" /\ UNCHANGED <<inFlight, processed, routing, verdicts, answer, address>>
  BY DEF Persist, world
<1>2. /\ r = Len(processed) + 1 /\ r \in Published /\ r \in Requests /\ r \in Nat
      /\ r # Nobody /\ inFlight.request = r
      /\ \A q \in ToSet(processed) : q \in Requests /\ q < r
  BY <1>1, AtSettlement DEF Unsettled, Settling
<1>3. CASE op' = Down /\ UNCHANGED candidate
  BY <1>1, <1>3, SessionFacts, MovesInv DEF Files, Unsettled, Settling, Engaged
<1>4. CASE /\ answer[r] \in {"failure", "absent", "ineligible"} /\ UNCHANGED candidate
           /\ op' = [op EXCEPT !.pc = AfterPersist(r)]
  <2>1. op'.pc = "append" /\ op'.request = r
    BY <1>4, SessionFacts DEF AfterPersist, Labels
  <2> QED BY <1>1, <1>2, <1>4, <2>1, MovesInv DEF Files, Unsettled, Settling, Engaged
<1>5. CASE /\ answer[r] = "eligible" /\ candidate' = r
           /\ op' = [op EXCEPT !.pc = AfterPersist(r)]
  <2>1. op'.pc = "route" /\ op'.request = r
    BY <1>5, SessionFacts DEF AfterPersist, Labels
  <2>2. Published' = Published
    BY <1>1 DEF Published
  <2>3. OrderInv'
    BY <1>1, <1>2, <1>5, <2>1, <2>2 DEF Inv, OrderInv, Unsettled, Settling, Engaged
  <2>4. candidate \in Nat /\ candidate <= r
    <3>1. candidate \in Maybe /\ candidate <= Len(processed) + 1
      BY DEF Inv, TypeOK, PointerInv
    <3> QED BY <3>1, <1>2, Numbers DEF Maybe, Nobody
  <2>5. routing.root \in Requests => routing.root <= candidate /\ routing.root \in Nat
    BY <2>4, Numbers DEF Inv, PointerInv, CandidateFirst
  <2>6. CandidateFirst'
    BY <1>1, <1>2, <1>5, <2>4, <2>5, Numbers DEF CandidateFirst
  <2>7. PointerInv'
    BY <1>1, <1>2, <1>5, <2>1, <2>6 DEF PointerInv
  <2> QED BY <2>1, <2>3, <2>7 DEF TodoInv
<1> QED BY <1>3, <1>4, <1>5 DEF Persist, Goto, Quit, WriteCandidate

LEMMA RouteInv ==
  ASSUME Inv, Route
  PROVE  OrderInv' /\ PointerInv' /\ TodoInv'
<1>1. op.pc = "route" /\ UNCHANGED Files
  BY DEF Route, state, Files
<1>2. \/ op' = [op EXCEPT !.pc = "append"]
      \/ op' = [op EXCEPT !.pc = "select", !.base = tree[Control].head]
  BY DEF Route, Goto
<1>3. op'.pc \in {"append", "select"} /\ op'.request = op.request
  BY <1>2 DEF Inv, TypeOK, Sessions
<1>4. answer[op.request] # "none" /\ candidate = op.request
  BY <1>1 DEF Inv, PointerInv, OrderInv, Settling
<1> QED BY <1>1, <1>3, <1>4, AtSettlement, MovesInv DEF Unsettled, Settling, Engaged
LEMMA SelectInv ==
  ASSUME Inv, Select
  PROVE  OrderInv' /\ PointerInv' /\ TodoInv'
<1>1. /\ op.pc = "select"
      /\ UNCHANGED <<inFlight, processed, candidate, verdicts, answer, address>>
  BY DEF Select, world
<1>2. op'.pc = "append" /\ op'.request = op.request
  BY DEF Select, Inv, TypeOK, Sessions
<1>3. /\ op.request = Len(processed) + 1 /\ op.request \in Published
      /\ inFlight.request = op.request /\ op.request # Nobody
      /\ op.request \in Nat
  BY <1>1, AtSettlement DEF Unsettled
<1>4. answer[op.request] # "none" /\ candidate = op.request
  BY <1>1 DEF Inv, PointerInv, OrderInv, Settling
<1>5. Published' = Published
  BY <1>1 DEF Published
<1>6. OrderInv'
  BY <1>1, <1>2, <1>3, <1>4, <1>5 DEF Inv, OrderInv, Unsettled, Settling, Engaged
<1>7. routing'.root = op.request \/ UNCHANGED routing
  BY DEF Select
<1>8. CandidateFirst'
  BY <1>1, <1>3, <1>4, <1>7 DEF Inv, PointerInv, CandidateFirst
<1>9. PointerInv'
  BY <1>1, <1>2, <1>4, <1>8 DEF Inv, PointerInv
<1> QED BY <1>2, <1>6, <1>9 DEF TodoInv

LEMMA AppendInv ==
  ASSUME Inv, AppendRecord
  PROVE  OrderInv' /\ PointerInv' /\ TodoInv'
<1> DEFINE r == op.request
           n == Len(processed)
<1>1. /\ op.pc = "append" /\ processed' = Append(processed, r)
      /\ UNCHANGED <<inFlight, candidate, routing, verdicts, answer, address>>
  BY DEF AppendRecord, world
<1>2. op'.pc = "mark" /\ op'.request = r
  BY SessionFacts DEF AppendRecord, Goto, Labels
<1>3. /\ r = n + 1 /\ r \in Published /\ r \in Requests /\ r # Nobody
      /\ inFlight.request = r /\ n \in Nat /\ processed \in Seq(Requests)
  BY <1>1, AtSettlement, FieldTypes DEF Unsettled, Inv, TypeOK
<1>4. Published' = Published
  BY <1>1 DEF Published
<1>5. /\ Len(processed') = n + 1 /\ processed' \in Seq(Requests)
      /\ \A i \in DOMAIN processed' : processed'[i] = i
  <2>1. \A i \in 1 .. n : processed[i] = i
    BY <1>3 DEF Inv, OrderInv
  <2> QED BY <1>1, <1>3, <2>1
<1>6. \A q \in Requests : q <= n + 1 => q \in Published /\ answer[q] # "none"
  <2>1. answer[r] # "none"
    BY <1>1 DEF Inv, OrderInv, Settling
  <2>2. \A q \in Requests : q <= n => q \in Published /\ answer[q] # "none"
    BY DEF Inv, OrderInv
  <2>3. ASSUME NEW q \in Requests, q <= n + 1 PROVE q <= n \/ q = r
    <3>1. q \in Nat /\ r = n + 1 /\ n \in Nat
      BY <1>3, Numbers
    <3> QED BY <3>1, <2>3
  <2> QED BY <1>3, <2>1, <2>2, <2>3
<1>7. \A q \in Published : q <= n + 2
  <2>1. \A q \in Published : q <= n + 1 /\ q \in Nat
    BY Numbers DEF Inv, OrderInv, Published
  <2> QED BY <1>3, <2>1
<1>8. OrderInv'
  BY <1>1, <1>2, <1>3, <1>4, <1>5, <1>6, <1>7 DEF Inv, OrderInv, Unsettled, Settling, Engaged
<1>9. ToSet(processed') = {q \in Requests : q <= n + 1} /\ ToSet(processed) = {q \in Requests : q <= n}
  BY <1>5, Records, Recorded DEF Inv
<1>10. answer[r] = "eligible" => candidate = r
  BY <1>1 DEF Inv, PointerInv
<1>11. \A q \in ToSet(processed') : answer[q] = "eligible" => candidate >= q
  <2>1. ASSUME NEW q \in Requests, q <= n + 1, answer[q] = "eligible" PROVE candidate >= q
    <3>1. CASE q = r
      BY <3>1, <1>3, <1>10, <2>1, Numbers
    <3>2. CASE q # r
      <4>1. q <= n
        BY <1>3, <2>1, <3>2, Numbers
      <4> QED BY <4>1, <2>1, <1>9 DEF Inv, PointerInv, CandidateFirst
    <3> QED BY <3>1, <3>2
  <2> QED BY <2>1, <1>9
<1>12. candidate <= n + 2
  <2>1. candidate <= n + 1 /\ candidate \in Nat
    BY Numbers DEF Inv, PointerInv, TypeOK, Maybe, Nobody
  <2> QED BY <2>1, <1>3
<1>13. PointerInv'
  BY <1>1, <1>2, <1>5, <1>11, <1>12 DEF Inv, PointerInv, CandidateFirst
<1> QED BY <1>2, <1>8, <1>13 DEF TodoInv

LEMMA MarkInv ==
  ASSUME Inv, Mark \/ Release
  PROVE  OrderInv' /\ PointerInv' /\ TodoInv'
<1>1. UNCHANGED <<processed, candidate, routing, verdicts, answer, address>>
  BY DEF Mark, Release, world
<1>2. Published' = Published
  BY <1>1 DEF Published
<1>3. CASE Mark
  <2>1. op.pc = "mark" /\ op'.pc = "remove" /\ op'.request = op.request
    BY <1>3, SessionFacts DEF Mark, Goto, Labels
  <2>2. inFlight'.request = inFlight.request /\ inFlight'.stage = "PROCESSED"
    BY <1>3 DEF Mark, Inv, TypeOK, Flights
  <2>3. inFlight.request # Nobody
    BY <2>1 DEF Inv, OrderInv, Engaged
  <2>4. OrderInv'
    BY <1>1, <1>2, <2>1, <2>2, <2>3 DEF Inv, OrderInv, Unsettled, Settling, Engaged
  <2>5. PointerInv'
    BY <1>1, <2>1 DEF Inv, PointerInv, CandidateFirst
  <2> QED BY <2>1, <2>4, <2>5 DEF TodoInv
<1>4. CASE Release
  <2>1. \/ op' = Down
        \/ \E pc \in {"verdicts", "begin"} : op' = [op EXCEPT !.pc = pc]
    BY <1>4 DEF Release, Goto, Quit
  <2>2. op'.pc \in {"down", "verdicts", "begin"}
    <3>1. ASSUME NEW pc \in {"verdicts", "begin"} PROVE [op EXCEPT !.pc = pc].pc = pc
      BY SessionFacts DEF Labels
    <3> QED BY <2>1, <3>1, SessionFacts
  <2>3. inFlight' = NoFlight /\ NoFlight.request = Nobody /\ NoFlight.stage = "NONE"
    BY <1>4 DEF Release, NoFlight
  <2>4. OrderInv'
    BY <1>1, <1>2, <2>2, <2>3 DEF Inv, OrderInv, Unsettled, Settling, Engaged
  <2>5. PointerInv'
    BY <1>1, <2>2 DEF Inv, PointerInv, CandidateFirst
  <2> QED BY <2>2, <2>4, <2>5 DEF TodoInv
<1> QED BY <1>3, <1>4
(* The verdicts.                                                           *)
LEMMA ReadInv ==
  ASSUME Inv, ReadVerdicts
  PROVE  OrderInv' /\ PointerInv' /\ TodoInv'
<1>1. UNCHANGED Files /\ Pending # {}
  BY DEF ReadVerdicts, Files, state, world
<1>2. op'.pc = "ingest" /\ op'.todo = Pending
  BY DEF ReadVerdicts, Inv, TypeOK, Sessions
<1>3. \A r \in Pending : r \in ToSet(processed) /\ verdicts[r] = "none"
  BY DEF Pending
<1> QED BY <1>1, <1>2, <1>3, MovesInv DEF Unsettled, Settling, Engaged

LEMMA CrashInv ==
  ASSUME Inv, Crash
  PROVE  OrderInv' /\ PointerInv' /\ TodoInv'
<1>1. UNCHANGED Files /\ op' = Down
  BY DEF Crash, Quit, Files, world
<1> QED BY <1>1, SessionFacts, MovesInv DEF Unsettled, Settling, Engaged

LEMMA IngestInv ==
  ASSUME Inv, Ingest
  PROVE  OrderInv' /\ PointerInv' /\ TodoInv'
<1> DEFINE r == NextPending
<1>1. op.pc = "ingest" /\ UNCHANGED <<inFlight, processed, candidate, routing, answer, address>>
  BY DEF Ingest, world
<1>2. \/ op.todo = {r} /\ op'.pc = "poll"
      \/ op.todo # {r} /\ op'.pc = "ingest" /\ op'.todo = op.todo \ {r}
  BY <1>1 DEF Ingest, Inv, TypeOK, Sessions
<1>3. \A q \in Requests : q # r => verdicts'[q] = verdicts[q]
  BY DEF Ingest, VerdictRecord, Inv, TypeOK
<1>4. \A q \in op.todo : q \in Requests /\ q \in ToSet(processed) /\ verdicts[q] = "none"
  BY <1>1, FieldTypes DEF Inv, TodoInv
<1>5. Published' = Published
  BY <1>1 DEF Published
<1>6. OrderInv'
  BY <1>1, <1>2, <1>5 DEF Inv, OrderInv, Unsettled, Settling, Engaged
<1>7. PointerInv'
  BY <1>1, <1>2 DEF Inv, PointerInv, CandidateFirst
<1>8. op.todo # {}
  BY <1>1 DEF Inv, TodoInv
<1>9. TodoInv'
  BY <1>1, <1>2, <1>3, <1>4, <1>8 DEF TodoInv
<1> QED BY <1>6, <1>7, <1>9

-----------------------------------------------------------------------------
(* The invariant.                                                          *)

LEMMA StepInv == Inv /\ [Next]_vars => Inv'
<1> SUFFICES ASSUME Inv, [Next]_vars PROVE Inv'
  OBVIOUS
<1>1. TypeOK
  BY DEF Inv
<1>2. op.pc \in {"route", "select", "append"} => op.request \in Requests
  BY AtSettlement DEF Unsettled
<1>3. TypeOK'
  <2>1. CASE Session
    BY <1>1, <1>2, <2>1, DispatchType, SettleType, VerdictType DEF Session
  <2>2. CASE World \/ Stop \/ Crash \/ \E t \in Targets : Start(t)
    BY <1>1, <2>2, WorldType, VerdictType, StartsType
  <2>3. CASE UNCHANGED vars
    BY <1>1, <2>3 DEF vars, state, world, bounds, TypeOK
  <2> QED BY <2>1, <2>2, <2>3 DEF Next
<1>4. OrderInv' /\ PointerInv' /\ TodoInv'
  <2>1. CASE Session
    BY <2>1, RecoverInv, BeginInv, ScanInv, DelegateInv, DispatchInv, AwaitInv, PersistInv,
       RouteInv, SelectInv, AppendInv, MarkInv, ReadInv, IngestInv DEF Session
  <2>2. CASE World \/ Stop \/ Crash \/ \E t \in Targets : Start(t)
    BY <2>2, WorldInv, BeginInv, CrashInv, StartInv
  <2>3. CASE UNCHANGED vars
    BY <2>3, ElsewhereInv DEF vars, state, world
  <2> QED BY <2>1, <2>2, <2>3 DEF Next
<1> QED BY <1>3, <1>4 DEF Inv

(* The invariant holds in every reachable state.                           *)
THEOREM ReviewInvariant == Spec => []Inv
<1>1. Init => Inv
  BY InitType, InitOrder DEF Inv
<1> QED BY <1>1, StepInv, PTL DEF Spec

(* Every variable holds what the code puts there.                          *)
THEOREM TypeCorrect == Spec => []TypeOK
<1>1. Inv => TypeOK
  BY DEF Inv
<1> QED BY <1>1, ReviewInvariant, PTL

(* Wherever a session dies and whoever starts the next one, no record of   *)
(* eligible work is appended and no routing turned to a successor before   *)
(* the candidate file names that work or later work.                       *)
THEOREM CandidateLeads == Spec => []CandidateFirst
<1>1. Inv => CandidateFirst
  BY DEF Inv, PointerInv
<1> QED BY <1>1, ReviewInvariant, PTL

-----------------------------------------------------------------------------
(* Verdicts.  Pending requests have a first one.                           *)

LEMMA FirstPending ==
  ASSUME Inv, op.pc = "ingest"
  PROVE  NextPending \in op.todo
<1>1. op.todo \subseteq Nat /\ op.todo # {}
  BY FieldTypes, Numbers DEF Inv, TodoInv
<1>2. PICK r \in op.todo : \A q \in op.todo : ~(<<q, r>> \in OpToRel(<, Nat))
  BY <1>1, NatLessThanWellFounded, WFMin, Zenon
<1>3. \A q \in op.todo : ~(q < r)
  <2>1. \A q \in op.todo : q \in Nat /\ r \in Nat
    BY <1>1
  <2> QED BY <1>2, <2>1, Zenon DEF OpToRel
<1>4. \A q \in op.todo : r <= q
  BY <1>1, <1>3
<1> QED BY <1>4 DEF NextPending

(* Only an ingestion changes a verdict, and it ingests the first one.      *)
LEMMA VerdictStep ==
  ASSUME Inv, Next, NEW r \in Requests, verdicts'[r] # verdicts[r]
  PROVE  VerdictIsExact(r)
<1>1. Ingest
  BY DEF Next, Session, World, Recover, Begin, Scan, Delegate, Dispatch, Await, Persist, Route,
     Select, AppendRecord, Mark, Release, SkipVerdicts, ReadVerdicts, Stop, Crash, Start,
     Publish, RunEnds, Review, Tidy, state, world, bounds
<1>2. NextPending \in op.todo /\ NextPending \in Requests
  BY <1>1, FirstPending, FieldTypes DEF Ingest, Inv
<1>3. PICK c \in Matching(NextPending) : verdicts' = VerdictRecord(NextPending, c)
  BY <1>1 DEF Ingest
<1>4. r = NextPending /\ verdicts'[r] = c.verdict
  BY <1>2, <1>3 DEF VerdictRecord, Inv, TypeOK
<1>5. Ingestible(r)
  BY <1>1, <1>4 DEF Ingest
<1>6. Matching(r) = {c} /\ c.exact
  BY <1>3, <1>4, <1>5 DEF Ingestible
<1>7. r \in ToSet(processed) /\ verdicts[r] = "none"
  BY <1>1, <1>2, <1>4 DEF Inv, TodoInv, Ingest
<1>8. answer[r] \in Bound /\ (answer[r] = "eligible" <=> candidate = r)
  BY <1>5 DEF Ingestible, PointerAgrees
<1> QED BY <1>3, <1>4, <1>6, <1>7, <1>8 DEF VerdictIsExact, Matching

(* A final review verdict is ingested once, exactly as the one trusted     *)
(* comment said, for a recorded success the candidate file agrees with.    *)
THEOREM VerdictsExact == Spec => VerdictsAreExact
<1>1. Inv /\ [Next]_vars => [\A r \in Requests : verdicts'[r] # verdicts[r] => VerdictIsExact(r)]_vars
  BY VerdictStep
<1> QED BY <1>1, ReviewInvariant, PTL DEF Spec, VerdictsAreExact

-----------------------------------------------------------------------------
(* What the panel relies on.  A request in flight is not older than the    *)
(* records, is marked as processed only when it is among them, and has one *)
(* of the four stages of a commitment.                                     *)
FlightInv ==
  /\ inFlight.request # Nobody =>
       inFlight.request >= Len(processed) /\ inFlight.stage # "NONE"
  /\ inFlight.stage = "PROCESSED" => inFlight.request <= Len(processed)
  /\ op.pc \in {"mark", "remove"} => op.request <= Len(processed)
  /\ op.pc = "begin" =>
       inFlight.request = Nobody /\ (op.request # Nobody => op.request >= Len(processed))

(* A scan that found a request found the next one; whoever is shown as     *)
(* blocked is blocked on nothing older than the records; a session at work *)
(* is not blocked.                                                         *)
Blocked(r) == "blocked" \in {r.status, r.beat}
ReportInv ==
  /\ report.scanned <= Len(processed)
  /\ report.scan # Nobody => report.scan = report.scanned + 1
  /\ Blocked(report) /\ report.last # Nobody =>
       report.last >= Len(processed) /\ report.last >= inFlight.request
  /\ op.own \/ op.pc \in {"poll", "delegate", "verdicts", "ingest"} => report.status # "blocked"
  /\ op.pc = "delegate" => report.beat # "blocked"

(* What was read is still so, or is what the newest record then was.       *)
Views == [next : 1..7, newest : Maybe, report : Reports, processed : Seq(Requests),
          verdicts : [Requests -> Verdicts \cup {"none"}], failure : Reports,
          candidate : Maybe, inFlight : Flights]
Agrees(v) ==
  /\ v.next > 1 =>
       /\ v.newest <= Len(processed)
       /\ v.report.scan # Nobody =>
            v.report.scan = v.report.scanned + 1 /\ v.report.scanned <= v.newest
       /\ Blocked(v.report) /\ v.report.last # Nobody => v.report.last >= v.newest
  /\ v.next > 2 =>
       /\ \A i \in DOMAIN v.processed : v.processed[i] = i
       /\ v.newest <= Len(v.processed) /\ Len(v.processed) <= Len(processed)
  /\ v.next > 3 =>
       \A r \in Requests : v.verdicts[r] # "none" => verdicts[r] = v.verdicts[r]
ViewInv == view \in Views /\ view.next < 7 /\ Agrees(view) /\ watch \in {Nobody, inFlight.request}

PanelBase == Inv /\ FlightInv /\ ReportInv

LEMMA BaseTypes ==
  ASSUME PanelBase
  PROVE  /\ op \in Sessions /\ inFlight \in Flights /\ report \in Reports
         /\ Len(processed) \in Nat /\ inFlight.request \in Nat /\ op.request \in Nat
         /\ report.scanned \in Nat /\ report.last \in Nat /\ report.scan \in Nat
         /\ inFlight.request <= Len(processed) + 1
<1>1. TypeOK /\ OrderInv
  BY DEF PanelBase, Inv
<1>2. op \in Sessions /\ inFlight \in Flights /\ report \in Reports
  BY <1>1 DEF TypeOK
<1>3. Maybe \subseteq Nat
  BY Numbers DEF Maybe, Nobody
<1>4. Len(processed) \in Nat /\ inFlight.request \in Nat /\ op.request \in Nat
  BY <1>1, <1>3, FieldTypes
<1>5. report.scanned \in Nat /\ report.last \in Nat /\ report.scan \in Nat
  BY <1>2, <1>3 DEF Reports
<1>6. inFlight.request <= Len(processed) + 1
  BY <1>1, <1>4 DEF OrderInv, Nobody
<1> QED BY <1>2, <1>4, <1>5, <1>6

(* A step that leaves the files alone and moves the session on.            *)
LEMMA OnlyMoves ==
  ASSUME PanelBase, UNCHANGED <<inFlight, processed, report>>,
         op'.pc \in {"mark", "remove"} => op'.request <= Len(processed),
         op'.pc = "begin" =>
           inFlight.request = Nobody /\ (op'.request # Nobody => op'.request >= Len(processed)),
         op'.own \/ op'.pc \in {"poll", "delegate", "verdicts", "ingest"} => report.status # "blocked",
         op'.pc = "delegate" => report.beat # "blocked"
  PROVE  FlightInv' /\ ReportInv'
BY DEF PanelBase, FlightInv, ReportInv, Blocked

LEMMA GotoFields ==
  ASSUME PanelBase, NEW pc, op' = [op EXCEPT !.pc = pc]
  PROVE  op'.pc = pc /\ op'.request = op.request /\ op'.own = op.own
BY BaseTypes DEF Sessions

LEMMA DownFields == Down.pc = "down" /\ ~Down.own /\ Down.request = Nobody
BY DEF Down

(* A failure that the owner of the lock reports blocks it on a request.    *)
LEMMA FailureFields ==
  ASSUME PanelBase, NEW r, NEW owner \in BOOLEAN, Failure(r, owner)
  PROVE  /\ report'.scan = report.scan /\ report'.scanned = report.scanned
         /\ owner => report'.last = r
         /\ ~owner => /\ report'.last = report.last /\ report'.status = report.status
                      /\ report'.beat = report.beat
BY BaseTypes DEF Failure, Reports

LEMMA FailureStep ==
  ASSUME PanelBase, NEW r \in Nat, NEW owner \in BOOLEAN, Failure(r, owner), Quit,
         UNCHANGED processed, inFlight' = inFlight \/ inFlight' = NoFlight,
         owner => r = Nobody \/ (r >= Len(processed) /\ r >= inFlight'.request)
  PROVE  FlightInv' /\ ReportInv'
<1>1. op'.pc = "down" /\ ~op'.own
  BY DownFields DEF Quit
<1>2. inFlight'.request \in {Nobody, inFlight.request} /\ NoFlight.request = Nobody
      /\ NoFlight.stage = "NONE"
  BY DEF NoFlight
<1>3. FlightInv'
  BY <1>1, <1>2 DEF PanelBase, FlightInv
<1>4. ReportInv'
  <2> HIDE DEF Failure
  <2>1. CASE owner
    BY <1>1, <2>1, FailureFields DEF PanelBase, ReportInv
  <2>2. CASE ~owner
    <3>1. inFlight'.request <= inFlight.request
      BY <1>2, BaseTypes DEF Nobody
    <3>2. /\ report'.last = report.last /\ (Blocked(report') <=> Blocked(report))
          /\ report'.scan = report.scan /\ report'.scanned = report.scanned
      BY <2>2, FailureFields DEF Blocked
    <3> HIDE DEF Blocked
    <3>3. inFlight'.request \in Nat /\ report.last \in Nat /\ inFlight.request \in Nat
      BY <1>2, BaseTypes DEF Nobody
    <3> QED BY <1>1, <3>1, <3>2, <3>3 DEF PanelBase, ReportInv
  <2> QED BY <2>1, <2>2
<1> QED BY <1>3, <1>4

LEMMA OwnerFailureStep ==
  ASSUME PanelBase, NEW r \in Nat, Failure(r, TRUE), Quit,
         UNCHANGED processed, inFlight' = inFlight \/ inFlight' = NoFlight,
         r = Nobody \/ (r >= Len(processed) /\ r >= inFlight'.request)
  PROVE  FlightInv' /\ ReportInv'
<1>1. PICK owner \in BOOLEAN : owner = TRUE
  OBVIOUS
<1>2. Failure(r, owner)
  BY <1>1, Zenon
<1> QED BY <1>2, FailureStep

(* One step of the operator after the other.                               *)
LEMMA StartPanel ==
  ASSUME PanelBase, NEW t \in Targets, Start(t)
  PROVE  FlightInv' /\ ReportInv'
<1>1. /\ op'.pc = (IF inFlight = NoFlight THEN "begin" ELSE "recover")
      /\ op'.request = inFlight.request /\ ~op'.own
  BY DEF Start, Down
<1>2. NoFlight.request = Nobody
  BY DEF NoFlight
<1> QED BY <1>1, <1>2, OnlyMoves DEF Start, state

LEMMA RecoverPanel ==
  ASSUME PanelBase, Recover
  PROVE  FlightInv' /\ ReportInv'
<1>1. UNCHANGED <<inFlight, processed>> /\ inFlight.request = op.request /\ op.request \in Requests
  <2>1. op.pc = "recover" /\ UNCHANGED <<inFlight, processed>>
    BY DEF Recover
  <2>2. inFlight.request = op.request /\ op.request # Nobody
    BY <2>1 DEF PanelBase, Inv, OrderInv, Engaged
  <2> QED BY <2>1, <2>2, FieldTypes DEF PanelBase, Inv, Maybe
<1>2. CASE inFlight.stage = "PREPARED" /\ Quit /\ Failure(inFlight.request, FALSE)
  BY <1>1, <1>2, BaseTypes, FailureStep
<1>3. CASE IsProcessed(op.request) /\ Goto("remove") /\ UNCHANGED report
  <2>1. op.request <= Len(processed)
    BY <1>1, <1>3, Recorded DEF PanelBase, Inv
  <2> QED BY <1>1, <1>3, <2>1, GotoFields, OnlyMoves DEF Goto, PanelBase, ReportInv
<1>4. CASE UNCHANGED report /\ (Goto("append") \/ Goto("persist") \/ Quit)
  <2>1. \/ op'.pc \in {"append", "persist"} /\ op'.own = op.own
        \/ op'.pc = "down" /\ ~op'.own
    BY <1>4, GotoFields, DownFields DEF Goto, Quit
  <2> QED BY <1>1, <1>4, <2>1, OnlyMoves DEF PanelBase, ReportInv
<1> QED BY <1>1, <1>2, <1>3, <1>4 DEF Recover

LEMMA BeginPanel ==
  ASSUME PanelBase, Begin
  PROVE  FlightInv' /\ ReportInv'
<1>1. /\ UNCHANGED <<inFlight, processed>> /\ inFlight.request = Nobody
      /\ op.request = Nobody \/ op.request >= Len(processed)
  BY DEF Begin, PanelBase, FlightInv
<1>2. CASE Quit /\ Failure(op.request, TRUE)
  <2>1. op.request \in Nat /\ (op.request = Nobody \/ op.request >= inFlight.request)
    BY <1>1, BaseTypes DEF Nobody
  <2> QED BY <1>1, <1>2, <2>1, OwnerFailureStep
<1>3. CASE /\ Goto("poll")
           /\ report' = [report EXCEPT !.status = "running", !.last = op.request]
  <2>1. /\ report'.status = "running" /\ report'.last = op.request /\ report'.beat = report.beat
        /\ report'.scan = report.scan /\ report'.scanned = report.scanned
    BY <1>3, BaseTypes DEF Reports
  <2>2. op'.pc = "poll"
    BY <1>3, GotoFields DEF Goto
  <2>3. FlightInv'
    BY <1>1, <2>2 DEF PanelBase, FlightInv
  <2>4. ReportInv'
    BY <1>1, <2>1, <2>2, BaseTypes DEF PanelBase, ReportInv, Blocked, Nobody
  <2> QED BY <2>3, <2>4
<1> QED BY <1>2, <1>3 DEF Begin

LEMMA ScanPanel ==
  ASSUME PanelBase, Scan
  PROVE  FlightInv' /\ ReportInv'
<1> DEFINE found == IF Current = {} THEN Nobody ELSE CHOOSE x \in Current : TRUE
<1>1. /\ op.pc = "poll" /\ UNCHANGED <<inFlight, processed>>
      /\ report' = [report EXCEPT !.beat = IF found = Nobody THEN "waiting" ELSE "request_detected",
                                  !.scan = found, !.scanned = Len(processed)]
      /\ op' = [op EXCEPT !.pc = IF found = Nobody THEN "verdicts" ELSE "delegate", !.request = found]
  BY DEF Scan
<1>2. found # Nobody => found = Len(processed) + 1
  <2>1. found # Nobody => found \in Current
    OBVIOUS
  <2> HIDE DEF found
  <2> QED BY <2>1, NextToRecord DEF Current, PanelBase
<1> HIDE DEF found
<1>3. /\ report'.status = report.status /\ report'.beat \in {"waiting", "request_detected"}
      /\ report'.scan = found /\ report'.scanned = Len(processed)
  BY <1>1, BaseTypes DEF Reports
<1>4. op'.pc \in {"verdicts", "delegate"} /\ op'.own = op.own
  BY <1>1, BaseTypes DEF Sessions
<1>5. FlightInv'
  BY <1>1, <1>4 DEF PanelBase, FlightInv
<1>6. ReportInv'
  BY <1>1, <1>2, <1>3, <1>4, BaseTypes DEF PanelBase, ReportInv, Blocked
<1> QED BY <1>5, <1>6

LEMMA DelegatePanel ==
  ASSUME PanelBase, Delegate
  PROVE  FlightInv' /\ ReportInv'
<1>1. /\ op.pc = "delegate" /\ UNCHANGED processed
      /\ op.request = Len(processed) + 1
  BY DEF Delegate, PanelBase, Inv, OrderInv
<1>2. CASE Quit /\ Failure(op.request, TRUE) /\ UNCHANGED inFlight
  <2>1. op.request \in Nat /\ op.request >= Len(processed) /\ op.request >= inFlight.request
    BY <1>1, BaseTypes
  <2> QED BY <1>1, <1>2, <2>1, OwnerFailureStep
<1>3. CASE /\ inFlight' = [request |-> op.request, stage |-> "PREPARED"]
           /\ op' = [op EXCEPT !.pc = "dispatch", !.own = TRUE] /\ UNCHANGED report
  <2>1. op'.pc = "dispatch" /\ inFlight'.request = op.request /\ inFlight'.stage = "PREPARED"
    BY <1>3, BaseTypes DEF Sessions
  <2>2. FlightInv'
    BY <1>1, <2>1, BaseTypes DEF PanelBase, FlightInv
  <2>3. ReportInv'
    BY <1>1, <1>3, <2>1 DEF PanelBase, ReportInv, Blocked
  <2> QED BY <2>2, <2>3
<1> QED BY <1>2, <1>3 DEF Delegate

(* The stage of what is in flight changes under the session's request.     *)
LEMMA RestagePanel ==
  ASSUME PanelBase, NEW stage \in Stages \ {"NONE"}, NEW pc \in {"await", "append", "remove"},
         inFlight' = [inFlight EXCEPT !.stage = stage], Goto(pc), UNCHANGED <<processed, report>>,
         stage = "PROCESSED" \/ pc = "remove" => op.request <= Len(processed),
         op.pc \in Engaged
  PROVE  FlightInv' /\ ReportInv'
<1>1. inFlight'.request = inFlight.request /\ inFlight'.stage = stage
  BY BaseTypes DEF Flights
<1>2. op'.pc = pc /\ op'.request = op.request /\ op'.own = op.own
  BY GotoFields DEF Goto
<1>3. inFlight.request = op.request
  BY DEF PanelBase, Inv, OrderInv
<1>4. FlightInv'
  BY <1>1, <1>2, <1>3 DEF PanelBase, FlightInv
<1>5. ReportInv'
  BY <1>1, <1>2 DEF PanelBase, ReportInv, Blocked
<1> QED BY <1>4, <1>5

LEMMA AwaitPanel ==
  ASSUME PanelBase, Dispatch \/ Await \/ Mark
  PROVE  FlightInv' /\ ReportInv'
<1> USE DEF Engaged, Unsettled, Stages
<1>1. CASE Dispatch
  BY <1>1, RestagePanel DEF Dispatch
<1>2. CASE Mark
  <2>1. op.request <= Len(processed)
    BY <1>2 DEF Mark, PanelBase, FlightInv
  <2> QED BY <1>2, <2>1, RestagePanel DEF Mark
<1>3. CASE Await
  <2>1. op.pc = "await" /\ UNCHANGED <<processed, report>>
    BY <1>3 DEF Await
  <2>2. CASE Goto("append") /\ inFlight' = [inFlight EXCEPT !.stage = "REJECTED_BEFORE_RUNNER"]
    BY <2>1, <2>2, RestagePanel
  <2>3. CASE (Goto("persist") \/ Quit) /\ UNCHANGED inFlight
    <3>1. Goto("persist") => op'.pc = "persist" /\ op'.own = op.own
      BY GotoFields DEF Goto
    <3>2. Quit => op'.pc = "down" /\ ~op'.own
      BY DownFields DEF Quit
    <3> QED BY <2>1, <2>3, <3>1, <3>2, OnlyMoves DEF PanelBase, ReportInv
  <2> QED BY <1>3, <2>2, <2>3 DEF Await
<1> QED BY <1>1, <1>2, <1>3

LEMMA PersistPanel ==
  ASSUME PanelBase, Persist
  PROVE  FlightInv' /\ ReportInv'
<1>1. /\ op.pc = "persist" /\ UNCHANGED <<inFlight, processed>>
      /\ inFlight.request = op.request /\ op.request = Len(processed) + 1
  BY DEF Persist, PanelBase, Inv, OrderInv, Engaged, Unsettled
<1>2. op.own \in BOOLEAN
  BY BaseTypes DEF Sessions
<1>3. CASE Quit /\ Failure(op.request, op.own)
  BY <1>1, <1>2, <1>3, BaseTypes, FailureStep
<1>4. CASE Goto(AfterPersist(op.request)) /\ UNCHANGED report
  <2>1. op'.pc \in {"route", "append"} /\ op'.own = op.own
    BY <1>4, GotoFields DEF Goto, AfterPersist
  <2> QED BY <1>1, <1>4, <2>1, OnlyMoves DEF PanelBase, ReportInv
<1> QED BY <1>3, <1>4 DEF Persist

LEMMA RoutePanel ==
  ASSUME PanelBase, Route \/ Select
  PROVE  FlightInv' /\ ReportInv'
<1>1. UNCHANGED <<inFlight, processed, report>>
  BY DEF Route, Select, state
<1>2. op'.pc \in {"select", "append"} /\ op'.own = op.own
  BY BaseTypes DEF Route, Select, Goto, Sessions
<1> QED BY <1>1, <1>2, OnlyMoves DEF PanelBase, ReportInv

LEMMA AppendPanel ==
  ASSUME PanelBase, AppendRecord
  PROVE  FlightInv' /\ ReportInv'
<1>1. /\ UNCHANGED <<inFlight, report>> /\ inFlight.request = op.request
      /\ op.request = Len(processed) + 1 /\ Goto("mark")
  BY DEF AppendRecord, PanelBase, Inv, OrderInv, Engaged, Unsettled
<1>2. processed' = Append(processed, op.request) /\ processed \in Seq(Requests)
  BY DEF AppendRecord, PanelBase, Inv, TypeOK
<1>3. Len(processed') = Len(processed) + 1
  BY <1>2
<1>4. op'.pc = "mark" /\ op'.request = op.request /\ op'.own = op.own
  BY <1>1, GotoFields DEF Goto
<1>5. FlightInv'
  BY <1>1, <1>3, <1>4, BaseTypes DEF PanelBase, FlightInv
<1>6. ReportInv'
  BY <1>1, <1>3, <1>4, BaseTypes DEF PanelBase, ReportInv, Blocked
<1> QED BY <1>5, <1>6

LEMMA ReleasePanel ==
  ASSUME PanelBase, Release
  PROVE  FlightInv' /\ ReportInv'
<1>1. /\ op.pc = "remove" /\ UNCHANGED processed /\ inFlight' = NoFlight
      /\ inFlight.request = op.request /\ op.request # Nobody
  BY DEF Release, PanelBase, Inv, OrderInv, Engaged
<1>2. op.request = Len(processed) /\ inFlight'.request = Nobody
  BY <1>1, BaseTypes DEF PanelBase, FlightInv, NoFlight
<1>3. CASE Quit /\ Failure(op.request, TRUE)
  <2>1. op.request \in Nat /\ op.request >= Len(processed) /\ op.request >= inFlight'.request
    BY <1>1, <1>2, BaseTypes DEF Nobody
  <2> QED BY <1>1, <1>3, <2>1, OwnerFailureStep
<1>4. CASE Goto(IF op.own THEN "verdicts" ELSE "begin") /\ UNCHANGED report
  <2>1. /\ op'.pc = (IF op.own THEN "verdicts" ELSE "begin") /\ op'.request = op.request
        /\ op'.own = op.own
    BY <1>4, GotoFields DEF Goto
  <2>2. inFlight'.stage = "NONE"
    BY <1>1 DEF NoFlight
  <2>3. FlightInv'
    BY <1>1, <1>2, <2>1, <2>2, BaseTypes DEF PanelBase, FlightInv
  <2>4. ReportInv'
    BY <1>1, <1>2, <1>4, <2>1, BaseTypes DEF PanelBase, ReportInv, Blocked, Nobody
  <2> QED BY <2>3, <2>4
<1> QED BY <1>3, <1>4 DEF Release

LEMMA VerdictsPanel ==
  ASSUME PanelBase, SkipVerdicts \/ ReadVerdicts \/ Ingest \/ Stop \/ Crash
  PROVE  FlightInv' /\ ReportInv'
<1>1. UNCHANGED <<inFlight, processed>>
  BY DEF SkipVerdicts, ReadVerdicts, Ingest, Stop, Crash, state
<1>2. CASE SkipVerdicts \/ ReadVerdicts \/ Ingest
  <2>1. /\ op.pc \in {"verdicts", "ingest"} /\ op'.pc \in {"poll", "ingest"} /\ op'.own = op.own
        /\ UNCHANGED report
    BY <1>2, BaseTypes DEF SkipVerdicts, ReadVerdicts, Ingest, Goto, Sessions, state
  <2> QED BY <1>1, <2>1, OnlyMoves DEF PanelBase, ReportInv
<1>3. CASE Crash
  BY <1>1, <1>3, DownFields, OnlyMoves DEF Crash, Quit
<1>4. CASE Stop
  <2>1. /\ report'.status = "stopped" /\ report'.beat = "stopped"
        /\ report'.scan = report.scan /\ report'.scanned = report.scanned
        /\ op'.pc = "down" /\ ~op'.own
    BY <1>4, BaseTypes, DownFields DEF Stop, Reports, Quit
  <2>2. FlightInv'
    BY <1>1, <2>1 DEF PanelBase, FlightInv
  <2>3. ReportInv'
    BY <1>1, <2>1 DEF PanelBase, ReportInv, Blocked
  <2> QED BY <2>2, <2>3
<1> QED BY <1>2, <1>3, <1>4

LEMMA BaseStep == PanelBase /\ [Next]_vars => PanelBase'
<1> SUFFICES ASSUME PanelBase, [Next]_vars PROVE PanelBase'
  OBVIOUS
<1>1. CASE Session
  BY <1>1, RecoverPanel, BeginPanel, ScanPanel, DelegatePanel, AwaitPanel, PersistPanel, RoutePanel,
     AppendPanel, ReleasePanel, VerdictsPanel, StepInv DEF Session, PanelBase
<1>2. CASE World
  <2>1. UNCHANGED <<inFlight, processed, report, op>>
    BY <1>2 DEF World, Publish, RunEnds, Review, Tidy, state
  <2> QED BY <2>1, StepInv DEF PanelBase, FlightInv, ReportInv, Blocked
<1>3. CASE Stop \/ Crash \/ \E t \in Targets : Start(t)
  BY <1>3, VerdictsPanel, StartPanel, StepInv DEF PanelBase
<1>4. CASE UNCHANGED vars
  BY <1>4, StepInv DEF vars, state, PanelBase, FlightInv, ReportInv, Blocked
<1> QED BY <1>1, <1>2, <1>3, <1>4 DEF Next

-----------------------------------------------------------------------------
(* The panel reads one source per step.                                    *)

(* Records are only appended, and a verdict stays.                         *)
LEMMA Grows ==
  ASSUME PanelBase, [Next]_vars
  PROVE  /\ Len(processed) <= Len(processed')
         /\ \A r \in Requests : verdicts[r] # "none" => verdicts'[r] = verdicts[r]
<1>1. processed' = processed \/ AppendRecord
  BY DEF Next, Session, World, Recover, Begin, Scan, Delegate, Dispatch, Await, Persist, Route,
     Select, Mark, Release, SkipVerdicts, ReadVerdicts, Ingest, Stop, Crash, Start,
     Publish, RunEnds, Review, Tidy, state, vars
<1>2. Len(processed) <= Len(processed')
  BY <1>1, BaseTypes DEF AppendRecord, PanelBase, Inv, TypeOK
<1>3. ASSUME NEW r \in Requests, verdicts[r] # "none", verdicts'[r] # verdicts[r] PROVE FALSE
  <2>1. Next
    BY <1>3 DEF vars, state
  <2> QED BY <1>3, <2>1, VerdictStep DEF PanelBase, VerdictIsExact
<1> QED BY <1>2, <1>3

LEMMA ViewTypes ==
  ASSUME NEW v \in Views
  PROVE  /\ v.newest \in Nat /\ v.processed \in Seq(Requests) /\ Len(v.processed) \in Nat
         /\ v.report \in Reports /\ v.report.scan \in Nat /\ v.report.scanned \in Nat
         /\ v.failure.failure \in Nat
<1>1. Maybe \subseteq Nat
  BY Numbers DEF Maybe, Nobody
<1>2. /\ v.newest \in Maybe /\ v.processed \in Seq(Requests) /\ v.report \in Reports
      /\ v.failure \in Reports
  BY DEF Views
<1>3. \A r \in Reports : r.scan \in Maybe /\ r.scanned \in Nat /\ r.failure \in Maybe
  BY DEF Reports
<1>4. v.report.scan \in Nat /\ v.report.scanned \in Nat /\ v.failure.failure \in Nat
  <2>1. v.report.scan \in Maybe /\ v.report.scanned \in Nat /\ v.failure.failure \in Maybe
    BY <1>2, <1>3, Zenon
  <2> QED BY <1>1, <2>1, Zenon
<1>5. v.newest \in Nat
  BY <1>1, <1>2, Zenon
<1>6. \A s \in Seq(Requests) : Len(s) \in Nat
  OBVIOUS
<1>7. Len(v.processed) \in Nat
  BY <1>2, <1>6, Zenon
<1> QED BY <1>2, <1>4, <1>5, <1>7

LEMMA NoViewInv == NoView \in Views /\ NoView.next = 1
<1>1. NoFlight \in Flights /\ NoReport \in Reports
  BY Numbers DEF NoFlight, Flights, Stages, NoReport, Reports, Statuses
<1> QED BY <1>1, Numbers DEF NoView, Views, Nobody

LEMMA PanelStart == PanelInit => PanelBase /\ ViewInv /\ PanelIsTrue /\ NothingOlderIsShown
<1> SUFFICES ASSUME PanelInit PROVE PanelBase /\ ViewInv /\ PanelIsTrue /\ NothingOlderIsShown
  OBVIOUS
<1>1. Init /\ view = NoView /\ watch = Nobody /\ shown = NothingShown
  BY DEF PanelInit
<1>2. /\ Inv /\ inFlight = NoFlight /\ NoFlight.request = Nobody /\ NoFlight.stage = "NONE"
      /\ Len(processed) = 0 /\ report = NoReport /\ op.pc = "down" /\ ~op.own
  <2>1. Inv
    BY <1>1, InitType, InitOrder DEF Inv
  <2> QED BY <1>1, <2>1 DEF Init, NoFlight, Down
<1>3. FlightInv /\ ReportInv
  BY <1>2 DEF FlightInv, ReportInv, NoReport, Nobody, Blocked
<1>4. ViewInv
  BY <1>1, NoViewInv DEF ViewInv, Agrees
<1>5. PanelIsTrue /\ NothingOlderIsShown
  BY <1>1, StageAssumption DEF NothingShown, PanelIsTrue, NothingOlderIsShown, PanelStages, Nobody
<1> QED BY <1>2, <1>3, <1>4, <1>5 DEF PanelBase

LEMMA UnseenStep ==
  ASSUME PanelBase, ViewInv, [Next]_vars, UNCHANGED view, watch' \in {Nobody, inFlight'.request}
  PROVE  ViewInv'
<1>1. /\ Len(processed) <= Len(processed') /\ Len(processed) \in Nat /\ Len(processed') \in Nat
      /\ \A r \in Requests : verdicts[r] # "none" => verdicts'[r] = verdicts[r]
  <2>1. PanelBase'
    BY BaseStep
  <2>2. Len(processed') \in Nat
    BY <2>1 DEF PanelBase, Inv, TypeOK
  <2> QED BY <2>2, Grows, BaseTypes
<1>2. view.newest \in Nat /\ Len(view.processed) \in Nat
  BY ViewTypes DEF ViewInv
<1>3. view.next > 3 =>
        \A r \in Requests : view.verdicts[r] # "none" => verdicts'[r] = view.verdicts[r]
  BY <1>1 DEF ViewInv, Agrees
<1>4. view.next > 1 => view.newest <= Len(processed')
  BY <1>1, <1>2 DEF ViewInv, Agrees
<1>5. view.next > 2 => Len(view.processed) <= Len(processed')
  BY <1>1, <1>2 DEF ViewInv, Agrees
<1> QED BY <1>3, <1>4, <1>5 DEF ViewInv, Agrees, Blocked

LEMMA NewestOf ==
  ASSUME NEW s \in Seq(Requests), \A i \in DOMAIN s : s[i] = i
  PROVE  Newest(s) = Len(s) /\ (s # <<>> => Last(s) = Len(s))
BY DEF Newest, Last, Nobody

(* What was found in one source is added to the view.                      *)
LEMMA SeenStep ==
  ASSUME PanelBase, ViewInv, NEW n \in 1..6, view.next = n,
         NEW seen, seen = [Found(Sources[n]) EXCEPT !.next = @ + 1]
  PROVE  seen \in Views /\ Agrees(seen) /\ seen.next = n + 1 /\ (n = 6 => seen.inFlight = inFlight)
         /\ (n # 1 => seen.newest = view.newest)
<1>1. /\ Newest(processed) = Len(processed) /\ Len(processed) \in Maybe /\ Len(processed) \in Nat
      /\ processed \in Seq(Requests) /\ \A i \in DOMAIN processed : processed[i] = i
  <2>1. processed \in Seq(Requests) /\ \A i \in DOMAIN processed : processed[i] = i
    BY DEF PanelBase, Inv, TypeOK, OrderInv
  <2>2. Len(processed) \in Maybe
    BY <2>1 DEF Maybe, Nobody, Requests
  <2> QED BY <2>1, <2>2, NewestOf
<1>2. /\ report \in Reports /\ verdicts \in [Requests -> Verdicts \cup {"none"}]
      /\ candidate \in Maybe /\ inFlight \in Flights
  BY DEF PanelBase, Inv, TypeOK
<1>3. view \in Views /\ Agrees(view) /\ view.newest \in Nat
  BY ViewTypes DEF ViewInv
<1> DEFINE found == Found(Sources[n])
<1>4. ASSUME NEW v \in Views, found = v, v.next = n
      PROVE  /\ seen \in Views /\ seen.next = v.next + 1 /\ seen.newest = v.newest
             /\ seen.report = v.report /\ seen.processed = v.processed
             /\ seen.verdicts = v.verdicts /\ seen.inFlight = v.inFlight
  <2>1. seen = [v EXCEPT !.next = n + 1] /\ n + 1 \in 1..7
    BY <1>4
  <2> QED BY <1>4, <2>1 DEF Views
<1>5. CASE n = 1
  <2>1. Sources[n] = "report"
    BY <1>5 DEF Sources
  <2>2. found = [view EXCEPT !.report = report, !.newest = Len(processed)]
    BY <1>1, <2>1 DEF Found
  <2>3. found \in Views /\ found.report = report /\ found.newest = Len(processed) /\ found.next = n
    BY <1>1, <1>2, <1>3, <2>2 DEF Views
  <2> HIDE DEF found
  <2>4. /\ report.scan # Nobody => report.scan = report.scanned + 1 /\ report.scanned <= Len(processed)
        /\ Blocked(report) /\ report.last # Nobody => report.last >= Len(processed)
    BY DEF PanelBase, ReportInv
  <2> QED BY <1>1, <1>4, <1>5, <2>3, <2>4 DEF Agrees
<1>6. CASE n = 2
  <2>1. Sources[n] = "processed"
    BY <1>6 DEF Sources
  <2>2. found = [view EXCEPT !.processed = processed]
    BY <2>1 DEF Found
  <2>3. /\ found \in Views /\ found.report = view.report /\ found.newest = view.newest
        /\ found.processed = processed /\ found.next = n
    BY <1>1, <1>3, <2>2 DEF Views
  <2> HIDE DEF found
  <2>4. /\ seen \in Views /\ seen.next = 3 /\ seen.newest = view.newest
        /\ seen.report = view.report /\ seen.processed = processed
    BY <1>4, <1>6, <2>3
  <2>5. /\ view.newest <= Len(processed)
        /\ view.report.scan # Nobody =>
             view.report.scan = view.report.scanned + 1 /\ view.report.scanned <= view.newest
        /\ Blocked(view.report) /\ view.report.last # Nobody => view.report.last >= view.newest
    BY <1>3, <1>6 DEF Agrees
  <2>6. Len(seen.processed) = Len(processed) /\ \A i \in DOMAIN seen.processed : seen.processed[i] = i
    BY <1>1, <2>4
  <2>7. Agrees(seen)
    BY <1>1, <2>4, <2>5, <2>6 DEF Agrees
  <2> QED BY <1>6, <2>4, <2>7
<1>7. CASE n = 3
  <2>1. Sources[n] = "verdicts"
    BY <1>7 DEF Sources
  <2>2. found = [view EXCEPT !.verdicts = verdicts]
    BY <2>1 DEF Found
  <2>3. /\ found \in Views /\ found.report = view.report /\ found.newest = view.newest
        /\ found.processed = view.processed /\ found.verdicts = verdicts /\ found.next = n
    BY <1>2, <1>3, <2>2 DEF Views
  <2> HIDE DEF found
  <2> QED BY <1>3, <1>4, <1>7, <2>3 DEF Agrees
<1>8. CASE n \in 4..6
  <2>1. /\ found \in Views /\ found.report = view.report /\ found.newest = view.newest
        /\ found.processed = view.processed /\ found.verdicts = view.verdicts /\ found.next = n
        /\ (n = 6 => found.inFlight = inFlight)
    <3>1. CASE n = 4
      <4>1. Sources[n] = "failure"
        BY <3>1 DEF Sources
      <4>2. found = [view EXCEPT !.failure = report]
        BY <4>1 DEF Found
      <4> QED BY <1>2, <1>3, <3>1, <4>2 DEF Views
    <3>2. CASE n = 5
      <4>1. Sources[n] = "candidate"
        BY <3>2 DEF Sources
      <4>2. found = [view EXCEPT !.candidate = candidate]
        BY <4>1 DEF Found
      <4> QED BY <1>2, <1>3, <3>2, <4>2 DEF Views
    <3>3. CASE n = 6
      <4>1. Sources[n] = "inFlight"
        BY <3>3 DEF Sources
      <4>2. found = [view EXCEPT !.inFlight = inFlight]
        BY <4>1 DEF Found
      <4> QED BY <1>2, <1>3, <3>3, <4>2 DEF Views
    <3> QED BY <1>8, <3>1, <3>2, <3>3
  <2> HIDE DEF found
  <2>2. /\ seen \in Views /\ seen.next = n + 1 /\ seen.newest = view.newest
        /\ seen.report = view.report /\ seen.processed = view.processed
        /\ seen.verdicts = view.verdicts /\ (n = 6 => seen.inFlight = inFlight)
    BY <1>4, <2>1
  <2>3. view.next > 3 /\ seen.next > 3 /\ view.next > 2 /\ view.next > 1 /\ n # 1
    BY <1>8, <2>2
  <2> QED BY <1>3, <2>2, <2>3 DEF Agrees
<1> QED BY <1>5, <1>6, <1>7, <1>8

(* The task of a complete view.                                            *)
LEMMA TaskIsRecent ==
  ASSUME PanelBase, NEW v \in Views, Agrees(v), v.next = 7, v.inFlight = inFlight,
         NEW online \in BOOLEAN
  PROVE  /\ TaskOf(v, online) \in Nat /\ TaskOf(v, online) >= v.newest
         /\ inFlight # NoFlight => TaskOf(v, online) = inFlight.request
         /\ inFlight # NoFlight <=> inFlight.request # Nobody
         /\ ~ScanIsCurrent(v, online) /\ inFlight = NoFlight => TaskOf(v, online) = Len(v.processed)
<1>1. inFlight # NoFlight <=> inFlight.request # Nobody
  BY DEF PanelBase, Inv, OrderInv, NoFlight
<1>2. /\ v.newest \in Nat /\ v.newest <= Len(processed) /\ v.newest <= Len(v.processed)
      /\ v.processed \in Seq(Requests) /\ Len(v.processed) \in Nat
      /\ Newest(v.processed) = Len(v.processed)
      /\ v.processed # <<>> => Last(v.processed) = Len(v.processed)
  BY NewestOf, ViewTypes DEF Agrees
<1>3. CASE inFlight # NoFlight
  BY <1>1, <1>2, <1>3, BaseTypes DEF TaskOf, PanelBase, FlightInv
<1>4. CASE inFlight = NoFlight /\ ScanIsCurrent(v, online)
  <2>1. /\ v.report.scan # Nobody /\ v.report.scan = v.report.scanned + 1
        /\ v.processed = <<>> \/ v.report.scanned >= Len(v.processed)
    BY <1>4 DEF ScanIsCurrent, Agrees
  <2>2. v.report.scan \in Nat /\ v.report.scanned \in Nat
    BY ViewTypes
  <2>3. v.report.scan >= v.newest
    BY <1>2, <2>1, <2>2
  <2> QED BY <1>1, <1>4, <2>2, <2>3 DEF TaskOf
<1>5. CASE inFlight = NoFlight /\ ~ScanIsCurrent(v, online)
  BY <1>1, <1>2, <1>5 DEF TaskOf
<1> QED BY <1>1, <1>3, <1>4, <1>5

LEMMA FailureIsRecent ==
  ASSUME PanelBase, NEW v \in Views, Agrees(v), v.next = 7, v.inFlight = inFlight,
         FailureIsCurrent(v), v.failure.failure # Nobody
  PROVE  /\ v.failure.failure \in Nat /\ v.failure.failure >= v.newest
         /\ inFlight # NoFlight => v.failure.failure = inFlight.request
<1>1. /\ v.failure.failure \in Nat /\ v.newest \in Nat /\ v.newest <= Len(processed)
  BY ViewTypes DEF Agrees
<1>2. CASE inFlight # NoFlight
  <2>1. v.failure.failure = inFlight.request
    BY <1>2 DEF FailureIsCurrent
  <2> QED BY <1>1, <2>1, BaseTypes DEF PanelBase, FlightInv
<1>3. CASE inFlight = NoFlight
  <2>1. Blocked(v.report) /\ v.failure.failure = v.report.last
    BY <1>3 DEF FailureIsCurrent, Blocked
  <2> QED BY <1>1, <1>3, <2>1 DEF Agrees
<1> QED BY <1>2, <1>3

(* What a complete view shows.                                             *)
LEMMA LifecycleIsTrue ==
  ASSUME PanelBase, NEW v \in Views, Agrees(v), v.next = 7, v.inFlight = inFlight,
         NEW online \in BOOLEAN, NEW life, life = Lifecycle(v, online)
  PROVE  /\ life.stage \in Verdicts => verdicts[life.request] = life.stage
         /\ life.stage = "WAITING_FOR_CHATGPT_REVIEW" =>
              life.request \in ToSet(processed) /\ answer[life.request] \in Success
         /\ life.stage = "NO_REQUEST_DETECTED" => inFlight.request = Nobody
         /\ life.request >= v.newest
         /\ inFlight.request # Nobody => life.request = inFlight.request
<1> DEFINE r == TaskOf(v, online)
           stage == IF FailureIsCurrent(v) THEN "BLOCKED_OR_FAILED"
                    ELSE IF v.inFlight # NoFlight THEN InFlightStage(v.inFlight)
                    ELSE IF ScanIsCurrent(v, online) THEN "REQUEST_DETECTED"
                    ELSE IF r # Nobody THEN RecordStage(r) ELSE IdleStage(v, online)
           task == IF FailureIsCurrent(v) /\ v.failure.failure # Nobody THEN v.failure.failure ELSE r
<1>1. /\ life.request = task
      /\ life.stage = IF stage = "WAITING_FOR_CHATGPT_REVIEW" /\ VerdictApplies(v, task)
                      THEN v.verdicts[task] ELSE stage
  BY DEF Lifecycle
<1>2. inFlight # NoFlight <=> inFlight.request # Nobody
  BY TaskIsRecent
<1>3. r \in Nat /\ r >= v.newest /\ (inFlight # NoFlight => r = inFlight.request)
  BY TaskIsRecent
<1>4. task >= v.newest /\ (inFlight # NoFlight => task = inFlight.request)
  BY <1>3, FailureIsRecent
<1>5. inFlight # NoFlight => inFlight.stage \in Stages \ {"NONE"}
  BY <1>2, BaseTypes DEF PanelBase, FlightInv, Flights
<1>6. inFlight # NoFlight => InFlightStage(inFlight) \in PanelStages \ {"NO_REQUEST_DETECTED"}
  BY <1>5 DEF InFlightStage, PanelStages, Stages
<1>7. stage \in PanelStages /\ (stage = "NO_REQUEST_DETECTED" => inFlight = NoFlight)
  BY <1>6 DEF PanelStages, RecordStage, IdleStage
<1>8. stage = "WAITING_FOR_CHATGPT_REVIEW" => task \in ToSet(processed) /\ answer[task] \in Success
  <2>1. CASE FailureIsCurrent(v)
    BY <2>1
  <2>2. CASE ~FailureIsCurrent(v) /\ inFlight # NoFlight
    <3>1. task = inFlight.request /\ stage = InFlightStage(inFlight)
      BY <1>4, <2>2
    <3> HIDE DEF task, stage
    <3>2. stage = "WAITING_FOR_CHATGPT_REVIEW" =>
            inFlight.stage = "PROCESSED" /\ answer[inFlight.request] \in Success
      <4>1. inFlight.stage \in {"REJECTED_BEFORE_RUNNER", "PREPARED", "DISPATCHED_NOT_LOCALLY_SETTLED"}
              => stage # "WAITING_FOR_CHATGPT_REVIEW"
        BY <3>1 DEF InFlightStage
      <4>2. inFlight.stage = "PROCESSED" /\ answer[inFlight.request] \notin Success
              => stage # "WAITING_FOR_CHATGPT_REVIEW"
        BY <3>1 DEF InFlightStage
      <4> QED BY <1>5, <2>2, <4>1, <4>2 DEF Stages
    <3>3. inFlight.stage = "PROCESSED" => inFlight.request \in ToSet(processed)
      <4>1. inFlight.request \in Requests
        BY <1>2, <2>2, BaseTypes DEF Flights, Maybe
      <4> QED BY <4>1, Recorded DEF PanelBase, Inv, FlightInv
    <3> QED BY <3>1, <3>2, <3>3
  <2>3. CASE ~FailureIsCurrent(v) /\ inFlight = NoFlight
    <3>1. CASE ScanIsCurrent(v, online)
      BY <2>3, <3>1
    <3>2. CASE ~ScanIsCurrent(v, online) /\ r # Nobody
      <4>1. task = r /\ stage = RecordStage(r) /\ r = Len(v.processed)
        BY <2>3, <3>2, TaskIsRecent
      <4>2. r <= Len(processed) /\ r \in Requests
        <5>1. Len(v.processed) <= Len(processed) /\ v.processed \in Seq(Requests)
              /\ Len(v.processed) \in Nat /\ \A i \in DOMAIN v.processed : v.processed[i] = i
          BY ViewTypes DEF Agrees
        <5>2. Len(v.processed) # 0
          BY <3>2, <4>1 DEF Nobody
        <5>3. v.processed[Len(v.processed)] \in Requests
          BY <5>1, <5>2
        <5> QED BY <4>1, <5>1, <5>2, <5>3
      <4>3. r \in ToSet(processed)
        BY <4>2, Recorded DEF PanelBase, Inv
      <4> QED BY <4>1, <4>3 DEF RecordStage
    <3>3. CASE ~ScanIsCurrent(v, online) /\ r = Nobody
      BY <2>3, <3>3 DEF IdleStage
    <3> QED BY <3>1, <3>2, <3>3
  <2> QED BY <2>1, <2>2, <2>3
<1> HIDE DEF r, stage, task
<1>9. VerdictApplies(v, task) => /\ v.verdicts[task] \in Verdicts
                                /\ verdicts[task] = v.verdicts[task]
  <2>1. VerdictApplies(v, task) => task \in Requests /\ v.verdicts[task] # "none"
    BY ViewTypes DEF VerdictApplies, ToSet
  <2> QED BY <2>1 DEF Views, Agrees
<1>10. Verdicts \cap PanelStages = {}
  BY StageAssumption
<1>11. CASE stage = "WAITING_FOR_CHATGPT_REVIEW" /\ VerdictApplies(v, task)
  <2>1. life.stage \in Verdicts /\ life.stage = verdicts[task] /\ life.stage \notin PanelStages
    BY <1>1, <1>9, <1>10, <1>11
  <2> QED BY <1>1, <1>2, <1>4, <2>1 DEF PanelStages
<1>12. CASE ~(stage = "WAITING_FOR_CHATGPT_REVIEW" /\ VerdictApplies(v, task))
  <2>1. life.stage = stage /\ life.stage \notin Verdicts
    BY <1>1, <1>7, <1>10, <1>12
  <2> QED BY <1>1, <1>2, <1>4, <1>7, <1>8, <2>1
<1> QED BY <1>11, <1>12

LEMMA ReadStep ==
  ASSUME PanelBase, ViewInv, PanelReads
  PROVE  ViewInv' /\ PanelIsTrue' /\ NothingOlderIsShown'
<1>1. PICK n \in 1..6 : n = view.next
  BY DEF ViewInv, Views
<1>2. PICK seen : seen = [Found(Sources[n]) EXCEPT !.next = @ + 1]
  OBVIOUS
<1>3. PICK watched : watched = IF n = 1 THEN inFlight.request ELSE watch
  OBVIOUS
<1>4. /\ UNCHANGED vars
      /\ n < 6 => view' = seen /\ watch' = watched /\ shown' = NothingShown
      /\ ~(n < 6) =>
           /\ \E online \in Online(seen) :
                shown' = [request |-> Lifecycle(seen, online).request,
                          stage |-> Lifecycle(seen, online).stage,
                          pose |-> Pose(Lifecycle(seen, online).stage, online),
                          newest |-> seen.newest, watched |-> watched]
           /\ view' = NoView /\ watch' = Nobody
  BY <1>1, <1>2, <1>3 DEF PanelReads, ReadSource, Sources
<1>5. /\ seen \in Views /\ Agrees(seen) /\ seen.next = n + 1
      /\ n = 6 => seen.inFlight = inFlight
  BY <1>1, <1>2, SeenStep
<1>6. watched \in {Nobody, inFlight.request}
  BY <1>3 DEF ViewInv
<1>7. UNCHANGED <<inFlight, processed, verdicts, answer>>
  BY <1>4 DEF vars, state, world
<1>8. CASE n < 6
  <2>1. Agrees(seen)'
    BY <1>5, <1>7 DEF Agrees, Blocked
  <2>2. PanelIsTrue' /\ NothingOlderIsShown'
    BY <1>4, <1>8, StageAssumption DEF NothingShown, PanelIsTrue, NothingOlderIsShown, PanelStages, Nobody
  <2>3. view' \in Views /\ view'.next < 7 /\ Agrees(view)'
    BY <1>4, <1>5, <1>8, <2>1
  <2>4. watch' \in {Nobody, inFlight'.request}
    BY <1>4, <1>6, <1>7, <1>8
  <2> QED BY <2>2, <2>3, <2>4 DEF ViewInv
<1>9. CASE n = 6
  <2>1. PICK online \in Online(seen) :
          shown' = [request |-> Lifecycle(seen, online).request,
                    stage |-> Lifecycle(seen, online).stage,
                    pose |-> Pose(Lifecycle(seen, online).stage, online),
                    newest |-> seen.newest, watched |-> watched]
    BY <1>4, <1>9
  <2>2. online \in BOOLEAN
    BY <2>1 DEF Online
  <2>3. PICK life : life = Lifecycle(seen, online)
    OBVIOUS
  <2>4. /\ life.stage \in Verdicts => verdicts[life.request] = life.stage
        /\ life.stage = "WAITING_FOR_CHATGPT_REVIEW" =>
             life.request \in ToSet(processed) /\ answer[life.request] \in Success
        /\ life.stage = "NO_REQUEST_DETECTED" => inFlight.request = Nobody
        /\ life.request >= seen.newest
        /\ inFlight.request # Nobody => life.request = inFlight.request
    BY <1>5, <1>9, <2>2, <2>3, LifecycleIsTrue
  <2>5. /\ shown'.request = life.request /\ shown'.stage = life.stage
        /\ shown'.pose = Pose(life.stage, online)
        /\ shown'.newest = seen.newest /\ shown'.watched = watched
    BY <2>1, <2>3
  <2>6. shown'.pose = "idle" => shown'.stage = "NO_REQUEST_DETECTED"
    BY <2>5 DEF Pose
  <2>7. PanelIsTrue'
    BY <1>6, <1>7, <2>4, <2>5, <2>6 DEF PanelIsTrue, ToSet
  <2>8. NothingOlderIsShown'
    BY <1>6, <2>4, <2>5 DEF NothingOlderIsShown
  <2>9. ViewInv'
    BY <1>4, <1>9, NoViewInv DEF ViewInv, Agrees
  <2> QED BY <2>7, <2>8, <2>9
<1> QED BY <1>8, <1>9

LEMMA OthersStays ==
  ASSUME PanelBase, ViewInv, OthersStep
  PROVE  ViewInv' /\ PanelIsTrue' /\ NothingOlderIsShown'
<1>1. UNCHANGED view /\ watch' \in {Nobody, inFlight'.request} /\ shown' = NothingShown /\ Next
  BY DEF OthersStep
<1>2. ViewInv'
  BY <1>1, UnseenStep
<1>3. PanelIsTrue' /\ NothingOlderIsShown'
  BY <1>1, StageAssumption DEF NothingShown, PanelIsTrue, NothingOlderIsShown, PanelStages, Nobody
<1> QED BY <1>2, <1>3

(* A whole view is only ever looked at once; what it shows is judged when  *)
(* it is complete, from what a partly read view can be trusted for.        *)
PanelInv == PanelBase /\ ViewInv /\ PanelIsTrue /\ NothingOlderIsShown

(* What a view can be trusted for holds while the operator, its crashes and*)
(* people change the files between any two of its reads.                   *)
THEOREM PanelInvariant == PanelSpec => []PanelInv
<1>1. PanelInit => PanelInv
  BY PanelStart DEF PanelInv
<1>2. PanelInv /\ [PanelNext]_<<vars, panel>> => PanelInv'
  <2> SUFFICES ASSUME PanelInv, [PanelNext]_<<vars, panel>> PROVE PanelInv'
    OBVIOUS
  <2>1. [Next]_vars
    BY DEF PanelNext, OthersStep, PanelReads
  <2>2. PanelBase'
    BY <2>1, BaseStep DEF PanelInv
  <2>3. CASE OthersStep
    BY <2>2, <2>3, OthersStays DEF PanelInv
  <2>4. CASE PanelReads
    BY <2>2, <2>4, ReadStep DEF PanelInv
  <2>5. CASE UNCHANGED <<vars, panel>>
    <3>1. UNCHANGED <<view, watch, shown, inFlight, processed, verdicts, answer>>
      BY <2>5 DEF panel, vars, state, world
    <3>2. ViewInv'
      BY <2>1, <3>1, UnseenStep DEF PanelInv, ViewInv
    <3>3. PanelIsTrue' /\ NothingOlderIsShown'
      BY <3>1 DEF PanelInv, PanelIsTrue, NothingOlderIsShown
    <3> QED BY <2>2, <3>2, <3>3 DEF PanelInv
  <2> QED BY <2>3, <2>4, <2>5 DEF PanelNext
<1> QED BY <1>1, <1>2, PTL DEF PanelSpec

(* However the files change under the panel's reading, a verdict it names  *)
(* was ingested for the task it shows, and a task it shows as waiting for  *)
(* review is recorded as a success.                                        *)
THEOREM PanelShowsTheTruth == PanelSpec => []PanelIsTrue
<1>1. PanelInv => PanelIsTrue
  BY DEF PanelInv
<1> QED BY <1>1, PanelInvariant, PTL

(* The panel shows no task older than the newest record there was when it  *)
(* began to read, and a request in flight throughout is the one it shows.  *)
THEOREM PanelNeverGoesBack == PanelSpec => []NothingOlderIsShown
<1>1. PanelInv => NothingOlderIsShown
  BY DEF PanelInv
<1> QED BY <1>1, PanelInvariant, PTL
=============================================================================
