----------------------------- MODULE ReviewState ------------------------------
(***************************************************************************)
(* What becomes of the work of a settled run-reviewbundle request in one   *)
(* operator state directory (bridge_operator_b3.py): the settlement        *)
(* persists a candidate pointer, prepares a fresh checkout for the next    *)
(* task and turns the launcher's routing to it, and only then appends the  *)
(* processed record; between tasks the operator reads the reviewers'       *)
(* comments and ingests their final verdicts.  The operator may die        *)
(* between any two writes and be started again for any checkout, and       *)
(* people tidy, stage and advance the checkouts while all this goes on.    *)
(* One session holds operator.lock at a time (BridgeOperator).             *)
(***************************************************************************)
EXTENDS Naturals, Sequences, FiniteSets, SequencesExt

CONSTANTS
  LastRequest,   \* requests are numbered in the order they are admitted
  Verdicts,      \* final review verdicts
  Answers,       \* how a run may end in this instance
  Routings,      \* what the launcher's routing file may be at first
  MaxComments,   \* verdict comments reviewers post
  MaxStarts,     \* operator sessions
  MaxFaults,     \* crashes and failed writes
  MaxMoves       \* what people do to the checkouts

Requests == 1..LastRequest
Nobody == 0                       \* no request

(* A run ends without success, or with success and one of four bindings    *)
(* of its result to a review candidate; the dispatcher may also reject a   *)
(* request before the runner.                                              *)
Bound == {"eligible", "ineligible"}
Success == Bound \cup {"absent"}
Outcomes == Success \cup {"malformed", "failure", "rejected"}

(* The checkouts: the operator's own, the one first configured as target,  *)
(* and the successor prepared for the candidate of a request.              *)
Home == 0
Control == LastRequest + 1
Targets == {Home} \cup Requests
Checkouts == {Control} \cup Targets

(* No successor has been selected before the first request.                *)
ASSUME ReviewAssumption ==
  /\ LastRequest \in Nat /\ Answers \subseteq Outcomes \ {"rejected"}
  /\ Routings \subseteq [root : {Home, Control}, pinned : BOOLEAN, head : Nat]
  /\ {MaxComments, MaxStarts, MaxFaults, MaxMoves} \subseteq Nat

(* A verdict comment names its request and is exact when every field it    *)
(* declares is the one of the request.  Comments that are malformed or     *)
(* that nobody trusts are passed over and left out here.                   *)
Comments == [id : 1..MaxComments, request : Requests, verdict : Verdicts,
             exact : BOOLEAN]

VARIABLES
  inFlight,   \* in_flight.json: [request, stage], request Nobody when missing
  processed,  \* processed_requests.jsonl: the requests in the order appended
  candidate,  \* review_candidate.json: the request whose work it points to
  routing,    \* the launcher's routing file
  verdicts,   \* final_review_verdicts.jsonl
  torn,       \* its last line is a fragment
  report,     \* state.json, heartbeat.json and last_failure.json
  tree,       \* each checkout
  answer,     \* how the run of a request ended; "none" until it does
  address,    \* the checkout and head a request was written for
  comments,   \* verdict comments on the target issue
  op,         \* the operator session
  starts, faults, moves

state == <<inFlight, processed, candidate, routing, verdicts, torn, report>>
world == <<tree, answer, address, comments>>
bounds == <<starts, faults, moves>>
vars == <<state, world, op, bounds>>

NoFlight == [request |-> Nobody, stage |-> "NONE"]
NoRouting == [root |-> Control, pinned |-> FALSE, head |-> 0]
Missing == [there |-> FALSE, holds |-> Nobody, staged |-> FALSE, head |-> 0]
Clean(head) == [there |-> TRUE, holds |-> Nobody, staged |-> FALSE, head |-> head]
NoAddress == [root |-> Control, head |-> 0]
Down == [pc |-> "down", target |-> Home, request |-> Nobody, base |-> 0, own |-> FALSE,
         todo |-> {}, seen |-> {}]
NoReport == [status |-> "none", last |-> Nobody, beat |-> "none", scan |-> Nobody,
             scanned |-> 0, failed |-> FALSE, failure |-> Nobody, after |-> {}]

Init ==
  /\ inFlight = NoFlight /\ processed = <<>> /\ candidate = Nobody
  /\ routing \in Routings
  /\ verdicts = [r \in Requests |-> "none"] /\ torn = FALSE /\ report = NoReport
  /\ tree = [t \in Checkouts |-> IF t \in Requests THEN Missing ELSE Clean(0)]
  /\ answer = [r \in Requests |-> "none"]
  /\ address = [r \in Requests |-> NoAddress]
  /\ comments = {} /\ op = Down
  /\ starts = 0 /\ faults = 0 /\ moves = 0

-----------------------------------------------------------------------------
(* What the operator's steps are made of.                                  *)

Goto(pc) == op' = [op EXCEPT !.pc = pc]
NoFault == UNCHANGED faults
Fault == faults < MaxFaults /\ faults' = faults + 1
IsProcessed(r) == \E i \in DOMAIN processed : processed[i] = r

(* A failure is recorded with the request of the session.  A session that  *)
(* owns the lock also leaves its status blocked.                           *)
Failure(r, owner) ==
  report' = [report EXCEPT !.failed = TRUE, !.failure = r, !.after = ToSet(processed),
                           !.status = IF owner THEN "blocked" ELSE @,
                           !.beat = IF owner THEN "blocked" ELSE @,
                           !.last = IF owner THEN r ELSE @]
Quit == op' = Down

(* The worktree still holds exactly the work of r where r was addressed:   *)
(* same branch and head, nothing staged, the changed files of its binding. *)
HoldsWork(r) ==
  LET t == tree[op.target] IN
  /\ t.there /\ op.target = address[r].root /\ t.head = address[r].head
  /\ ~t.staged /\ t.holds = r

(* Routing version 1 names a checkout, version 2 pins its head as well.    *)
RoutingBinds(target) ==
  /\ routing # NoRouting /\ routing.root = target
  /\ routing.pinned => routing.head = tree[target].head

-----------------------------------------------------------------------------
(* The world.  The next request is written for a checkout and its head     *)
(* once the one before is recorded.                                        *)

Published == {r \in Requests : address[r] # NoAddress}
Current == {r \in Published : ~IsProcessed(r)}

Publish(r, t) ==
  /\ Current = {} /\ Published = 1..(r - 1) /\ tree[t].there
  /\ address' = [address EXCEPT ![r] = [root |-> t, head |-> tree[t].head]]
  /\ UNCHANGED <<state, op, tree, answer, comments, bounds>>

(* The runner of a dispatched request ends, whether or not the operator    *)
(* still waits; the changes it made stay in its checkout.  An eligible     *)
(* result always has some.                                                 *)
RunEnds(r, outcome) ==
  /\ inFlight = [request |-> r, stage |-> "DISPATCHED_NOT_LOCALLY_SETTLED"]
  /\ answer[r] = "none" /\ outcome \in Answers
  /\ answer' = [answer EXCEPT ![r] = outcome]
  /\ \/ tree' = [tree EXCEPT ![address[r].root].holds = r]
     \/ outcome # "eligible" /\ UNCHANGED tree
  /\ UNCHANGED <<state, op, address, comments, bounds>>

(* A trusted reviewer answers on the issue.                                *)
Review(c) ==
  /\ Cardinality(comments) < MaxComments /\ answer[c.request] \in Bound
  /\ c.id = Cardinality({d \in comments : [d EXCEPT !.id = c.id] = c}) + 1
  /\ comments' = comments \cup {c}
  /\ UNCHANGED <<state, op, tree, answer, address, bounds>>

(* People discard or commit work, stage it, or advance a branch.           *)
Tidy(t) ==
  /\ moves < MaxMoves /\ moves' = moves + 1 /\ tree[t].there
  /\ tree' \in {[tree EXCEPT ![t].holds = Nobody, ![t].staged = FALSE],
               [tree EXCEPT ![t] = Clean(tree[t].head + 1)],
               [tree EXCEPT ![t].staged = TRUE]} \ {tree}
  /\ UNCHANGED <<state, op, answer, address, comments, starts, faults>>

-----------------------------------------------------------------------------
(* A session starts for some checkout.  It settles what an earlier session *)
(* left in flight before it owns the lock.                                 *)

Start(t) ==
  /\ op.pc = "down" /\ starts < MaxStarts /\ starts' = starts + 1
  /\ tree[t].there
  /\ op' = [Down EXCEPT !.target = t, !.request = inFlight.request,
                        !.pc = IF inFlight = NoFlight THEN "begin" ELSE "recover"]
  /\ UNCHANGED <<state, world, faults, moves>>

Recover ==
  LET r == inFlight.request IN
  /\ op.pc = "recover" /\ NoFault
  /\ \/ inFlight.stage = "PREPARED" /\ Quit /\ Failure(r, FALSE)
     \/ inFlight.stage # "PREPARED" /\ IsProcessed(r) /\ Goto("remove") /\ UNCHANGED report
     \/ /\ inFlight.stage = "REJECTED_BEFORE_RUNNER" /\ ~IsProcessed(r)
        /\ Goto("append") /\ UNCHANGED report
     \/ /\ inFlight.stage = "DISPATCHED_NOT_LOCALLY_SETTLED" /\ ~IsProcessed(r)
        /\ IF answer[r] \in Outcomes THEN Goto("persist") ELSE Quit
        /\ UNCHANGED report
  /\ UNCHANGED <<inFlight, processed, candidate, routing, verdicts, torn, world, starts, moves>>

Begin ==
  /\ op.pc = "begin" /\ NoFault
  /\ IF op.request # Nobody /\ answer[op.request] \in {"failure", "rejected"}
     THEN Quit /\ Failure(op.request, TRUE)
     ELSE Goto("poll") /\ report' = [report EXCEPT !.status = "running", !.last = op.request]
  /\ UNCHANGED <<inFlight, processed, candidate, routing, verdicts, torn, world, starts, moves>>

-----------------------------------------------------------------------------
(* One cycle: the scan finds the current request or none.  It is admitted  *)
(* when the target is the checkout and head it was written for and is      *)
(* clean, or holds the candidate that the request continues.               *)

Scan ==
  /\ op.pc = "poll" /\ NoFault
  /\ LET r == IF Current = {} THEN Nobody ELSE CHOOSE x \in Current : TRUE IN
     /\ report' = [report EXCEPT !.beat = IF r = Nobody THEN "waiting" ELSE "request_detected",
                                 !.scan = r, !.scanned = Len(processed)]
     /\ op' = [op EXCEPT !.pc = IF r = Nobody THEN "verdicts" ELSE "delegate", !.request = r]
  /\ UNCHANGED <<inFlight, processed, candidate, routing, verdicts, torn, world, starts, moves>>

Admissible(r) ==
  LET t == tree[op.target] IN
  /\ address[r] = [root |-> op.target, head |-> t.head] /\ ~t.staged
  /\ t.holds \in {Nobody, candidate}

Delegate ==
  LET r == op.request IN
  /\ op.pc = "delegate" /\ NoFault
  /\ IF ~Admissible(r)
     THEN Quit /\ Failure(r, TRUE) /\ UNCHANGED inFlight
     ELSE /\ inFlight' = [request |-> r, stage |-> "PREPARED"]
          /\ op' = [op EXCEPT !.pc = "dispatch", !.own = TRUE] /\ UNCHANGED report
  /\ UNCHANGED <<processed, candidate, routing, verdicts, torn, world, starts, moves>>

Dispatch ==
  /\ op.pc = "dispatch" /\ NoFault
  /\ inFlight' = [inFlight EXCEPT !.stage = "DISPATCHED_NOT_LOCALLY_SETTLED"]
  /\ Goto("await")
  /\ UNCHANGED <<processed, candidate, routing, verdicts, torn, report, world, starts, moves>>

(* The dispatcher returns: with a result, rejected before the runner, or   *)
(* without either, which leaves the request in flight.                     *)
Await ==
  LET r == op.request IN
  /\ op.pc = "await" /\ NoFault
  /\ \/ answer[r] \in Outcomes /\ Goto("persist") /\ UNCHANGED <<inFlight, answer>>
     \/ /\ answer[r] = "none" /\ Goto("append")
        /\ answer' = [answer EXCEPT ![r] = "rejected"]
        /\ inFlight' = [inFlight EXCEPT !.stage = "REJECTED_BEFORE_RUNNER"]
     \/ answer[r] = "none" /\ Quit /\ UNCHANGED <<inFlight, answer>>
  /\ UNCHANGED <<processed, candidate, routing, verdicts, torn, report,
                 tree, address, comments, starts, moves>>

-----------------------------------------------------------------------------
(* Settlement.  Only an eligible result whose work is really in the target *)
(* moves the candidate pointer; every objection stops the session with the *)
(* request still in flight.                                                *)

(* Mutant: a pointer that is there stays there.                            *)
KeepPointer(r) == candidate' = IF candidate = Nobody THEN r ELSE candidate

(* The first pointer is written, a later request's work replaces it, and   *)
(* the same work is found already present.                                 *)
WriteCandidate(r) == candidate' = r

AfterPersist(r) ==
  IF answer[r] = "eligible" THEN "route" ELSE "append"

Persist ==
  LET r == op.request IN
  /\ op.pc = "persist"
  /\ \/ /\ NoFault
        /\ \/ answer[r] \in {"failure", "absent", "ineligible"} /\ UNCHANGED candidate
           \/ answer[r] = "eligible" /\ HoldsWork(r) /\ WriteCandidate(r)
        /\ Goto(AfterPersist(r)) /\ UNCHANGED report
     \/ /\ \/ NoFault /\ (answer[r] = "malformed" \/ (answer[r] = "eligible" /\ ~HoldsWork(r)))
           \/ Fault /\ answer[r] = "eligible"           \* the write fails
        /\ Quit /\ Failure(r, op.own) /\ UNCHANGED candidate
  /\ UNCHANGED <<inFlight, processed, routing, verdicts, torn, world, starts, moves>>

(* The successor is prepared when the routing still names the candidate's  *)
(* checkout, that checkout is still dirty and the operator's own is clean. *)
(* Whatever objects, the next task is merely unavailable.                  *)
Route ==
  LET r == op.request  control == tree[Control] IN
  /\ op.pc = "route" /\ NoFault
  /\ IF /\ RoutingBinds(op.target) /\ tree[op.target].holds # Nobody
        /\ ~tree[op.target].staged
        /\ control.holds = Nobody /\ ~control.staged
     THEN /\ op' = [op EXCEPT !.pc = "select", !.base = control.head]
          /\ tree' = IF tree[r].there THEN tree ELSE [tree EXCEPT ![r] = Clean(control.head)]
     ELSE Goto("append") /\ UNCHANGED tree
  /\ UNCHANGED <<state, answer, address, comments, starts, moves>>

SuccessorFits(r) == tree[r] = Clean(op.base)

Select ==
  LET r == op.request IN
  /\ op.pc = "select"
  /\ \/ /\ NoFault /\ SuccessorFits(r)
        /\ routing' = [root |-> r, pinned |-> TRUE, head |-> op.base]
     \/ ((NoFault /\ ~SuccessorFits(r)) \/ Fault) /\ UNCHANGED routing
  /\ op' = [op EXCEPT !.pc = "append", !.base = 0]
  /\ UNCHANGED <<inFlight, processed, candidate, verdicts, torn, report, world, starts, moves>>

AppendRecord ==
  /\ op.pc = "append" /\ NoFault
  /\ processed' = Append(processed, op.request) /\ Goto("mark")
  /\ UNCHANGED <<inFlight, candidate, routing, verdicts, torn, report, world, starts, moves>>

Mark ==
  /\ op.pc = "mark" /\ NoFault
  /\ inFlight' = [inFlight EXCEPT !.stage = "PROCESSED"] /\ Goto("remove")
  /\ UNCHANGED <<processed, candidate, routing, verdicts, torn, report, world, starts, moves>>

(* A session that settled what it found starts now; one that settled its   *)
(* own request goes on when that succeeded.                                *)
Release ==
  LET r == op.request  failed == answer[r] \in {"failure", "rejected"} IN
  /\ op.pc = "remove" /\ NoFault
  /\ inFlight' = NoFlight
  /\ IF op.own /\ failed THEN Quit /\ Failure(r, TRUE)
     ELSE Goto(IF op.own THEN "verdicts" ELSE "begin") /\ UNCHANGED report
  /\ UNCHANGED <<processed, candidate, routing, verdicts, torn, world, starts, moves>>

-----------------------------------------------------------------------------
(* Final review verdicts.  Every recorded success without a verdict is     *)
(* pending, and the comments are read once for all of them.                *)

(* Mutant: only the newest record is looked at.                            *)
PendingNewest ==
  {r \in ToSet(processed) : /\ r = Last(processed) /\ answer[r] \in Success
                            /\ verdicts[r] = "none"}
Pending == {r \in ToSet(processed) : answer[r] \in Success /\ verdicts[r] = "none"}

SkipVerdicts ==
  /\ op.pc = "verdicts" /\ NoFault
  /\ Goto("poll")                       \* also when the comments cannot be read
  /\ UNCHANGED <<state, world, starts, moves>>

ReadVerdicts ==
  /\ op.pc = "verdicts" /\ ~torn /\ Pending # {} /\ NoFault
  /\ op' = [op EXCEPT !.pc = "ingest", !.todo = Pending, !.seen = comments]
  /\ UNCHANGED <<state, world, starts, moves>>

(* They are taken in the order of their records.                           *)
NextPending == CHOOSE r \in op.todo : \A q \in op.todo : r <= q

(* The pointer must agree with the binding: it names the request when its  *)
(* work was eligible, and does not when it was ineligible.                 *)
PointerAgrees(r) == answer[r] \in Bound /\ (answer[r] = "eligible" <=> candidate = r)

Matching(r) == {c \in op.seen : c.request = r}
VerdictRecord(r, c) == [verdicts EXCEPT ![r] = c.verdict]

(* Mutant: one exact comment is enough, whatever else is said.             *)
IngestibleByAny(r) == PointerAgrees(r) /\ \E c \in Matching(r) : c.exact
Ingestible(r) == PointerAgrees(r) /\ \E c \in Matching(r) : Matching(r) = {c} /\ c.exact

Ingest ==
  LET r == NextPending  last == op.todo = {r} IN
  /\ op.pc = "ingest" /\ NoFault
  /\ IF Ingestible(r)
     THEN \E c \in Matching(r) : verdicts' = VerdictRecord(r, c)
     ELSE UNCHANGED verdicts
  /\ op' = IF last THEN [op EXCEPT !.pc = "poll", !.todo = {}, !.seen = {}]
                     ELSE [op EXCEPT !.todo = op.todo \ {r}]
  /\ UNCHANGED <<inFlight, processed, candidate, routing, torn, report, world, starts, moves>>

-----------------------------------------------------------------------------
(* A session ends when it is told to or dies anywhere; a verdict that was  *)
(* being appended then may be a fragment.                                  *)

Stop ==
  /\ op.pc = "poll" /\ Quit /\ NoFault
  /\ report' = [report EXCEPT !.status = "stopped", !.beat = "stopped", !.last = op.request]
  /\ UNCHANGED <<inFlight, processed, candidate, routing, verdicts, torn, world, starts, moves>>

Crash ==
  /\ op.pc # "down" /\ Quit /\ Fault
  /\ \/ op.pc = "ingest" /\ Ingestible(NextPending) /\ torn' = TRUE
     \/ UNCHANGED torn
  /\ UNCHANGED <<inFlight, processed, candidate, routing, verdicts, report, world, starts, moves>>

Session ==
  \/ Recover \/ Begin \/ Scan \/ Delegate \/ Dispatch \/ Await
  \/ Persist \/ Route \/ Select \/ AppendRecord \/ Mark \/ Release
  \/ SkipVerdicts \/ ReadVerdicts \/ Ingest
World ==
  \/ \E r \in Requests, t \in Targets : Publish(r, t)
  \/ \E r \in Requests, o \in Answers : RunEnds(r, o)
  \/ \E c \in Comments : Review(c)
  \/ \E t \in Checkouts : Tidy(t)

Next == Session \/ World \/ Stop \/ Crash \/ \E t \in Targets : Start(t)
Spec == Init /\ [][Next]_vars

(* A live session takes its next step; GitHub can be read again and again. *)
FairSpec == Spec /\ WF_vars(Session) /\ SF_vars(ReadVerdicts)

-----------------------------------------------------------------------------
(* Every variable holds what the code puts there.                          *)
Stages == {"NONE", "PREPARED", "DISPATCHED_NOT_LOCALLY_SETTLED", "REJECTED_BEFORE_RUNNER",
           "PROCESSED"}
Labels == {"down", "recover", "begin", "poll", "delegate", "dispatch", "await", "persist",
           "route", "select", "append", "mark", "remove", "verdicts", "ingest"}
Statuses == {"none", "running", "waiting", "request_detected", "blocked", "stopped"}
Maybe == Requests \cup {Nobody}
Flights == [request : Maybe, stage : Stages]
Routes == [root : Checkouts, pinned : BOOLEAN, head : Nat]
Trees == [there : BOOLEAN, holds : Maybe, staged : BOOLEAN, head : Nat]
Addresses == [root : Checkouts, head : Nat]
Sessions == [pc : Labels, target : Targets, request : Maybe, base : Nat, own : BOOLEAN,
             todo : SUBSET Requests, seen : SUBSET Comments]
Reports == [status : Statuses, last : Maybe, beat : Statuses, scan : Maybe, scanned : Nat,
            failed : BOOLEAN, failure : Maybe, after : SUBSET Requests]
TypeOK ==
  /\ inFlight \in Flights /\ candidate \in Maybe /\ routing \in Routes
  /\ processed \in Seq(Requests)
  /\ verdicts \in [Requests -> Verdicts \cup {"none"}] /\ torn \in BOOLEAN
  /\ report \in Reports /\ tree \in [Checkouts -> Trees]
  /\ answer \in [Requests -> Outcomes \cup {"none"}]
  /\ address \in [Requests -> Addresses]
  /\ comments \subseteq Comments /\ op \in Sessions
  /\ starts \in Nat /\ faults \in Nat /\ moves \in Nat

(* Nothing moves on before the work is safe (1699-1804): when a request    *)
(* with an eligible result is recorded, and when the routing leaves its    *)
(* checkout for a successor, the candidate file names it or later work,    *)
(* wherever a session died and whichever checkout the next one was given.  *)
CandidateFirst ==
  /\ \A r \in ToSet(processed) : answer[r] = "eligible" => candidate >= r
  /\ routing.root \in Requests => candidate >= routing.root

(* A final review verdict is ingested once and never altered, it is what   *)
(* the one trusted comment about that request said when the issue was      *)
(* read, and the work was recorded as a success whose binding agreed with  *)
(* the candidate file (990-1131).                                          *)
VerdictIsExact(r) ==
  /\ verdicts[r] = "none" /\ r \in ToSet(processed)
  /\ answer[r] \in Bound /\ (answer[r] = "eligible" <=> candidate = r)
  /\ \E c \in op.seen :
       /\ {d \in op.seen : d.request = r} = {c}
       /\ c.exact /\ c.verdict = verdicts'[r]
VerdictsAreExact ==
  [][\A r \in Requests : verdicts'[r] # verdicts[r] => VerdictIsExact(r)]_vars

(* What a verdict still needs when the request's own evidence is in place: *)
(* a session that stays up, a file without fragments and exactly one       *)
(* trusted comment, which is exact.                                        *)
Reviewed(r) ==
  /\ op.pc # "down" /\ ~torn /\ r \in ToSet(processed) /\ answer[r] \in Bound
  /\ \E c \in comments : /\ {d \in comments : d.request = r} = {c}
                         /\ c.exact

(* The verdict of a request whose binding still agrees with the candidate  *)
(* file is ingested in the end (840-987).                                  *)
VerdictArrives ==
  \A r \in Requests :
    (<>[](Reviewed(r) /\ (answer[r] = "eligible" <=> candidate = r)))
      => <>(verdicts[r] # "none")

=============================================================================
