---------------------------- MODULE RelaySelection ----------------------------
(***************************************************************************)
(* Which relay request the Bridge Operator picks (bridge_operator_b1.py,   *)
(* run_bridge_operator_b1_dry_run).  The control issue is an append-only   *)
(* list of comments shared by everybody and by the operators of several    *)
(* repositories; every poll reads all of it, classifies each request       *)
(* marker by its author, its lifetime and the processed records, and       *)
(* either selects exactly one request, waits, or ends the operator's loop. *)
(*                                                                         *)
(* A marker is a record [id, form, author, repo, fields, expires, identity]*)
(* form: what parsing makes of it; fields: whether every safety check on   *)
(* its fields passes; identity: issue, branch, head and action.            *)
(***************************************************************************)
EXTENDS Naturals, Sequences, FiniteSets

CONSTANTS
  MarkerSpace,  \* the request markers that can be posted
  Trusted,      \* TRUSTED_ACTORS
  Target,       \* the repository this operator works for
  MaxInbox,     \* bound on the number of markers
  MaxTime       \* bound on the clock

Forms == {"ok", "malformed", "no_expiry"}
ASSUME MarkerAssumption ==
  \A m \in MarkerSpace : /\ m.form \in Forms
                         /\ m.fields \in {"valid", "invalid"}
                         /\ m.expires \in Nat

VARIABLES
  inbox,     \* the markers on the control issue, oldest first
  now,
  consumed,  \* processed records of Target: [id, identity]
  pending    \* the request being delegated (a set of at most one marker)

vars == <<inbox, now, consumed, pending>>
-----------------------------------------------------------------------------
(* What one marker is worth.                                               *)
Over(m) == m.expires <= now
RecordsFor(m) == {c \in consumed : c.id = m.id}

Blocking == {"malformed_marker", "invalid_expiry", "untrusted_inbox_author",
             "invalid_fields", "processed_request_identity_mismatch"}
Lifecycle == {"CONSUMED", "EXPIRED", "CURRENT"}

(* Mutant: a record counts only for the very identity it was made for.     *)
LifecycleByIdentity(m) ==
  IF [id |-> m.id, identity |-> m.identity] \in consumed THEN "CONSUMED"
  ELSE IF Over(m) THEN "EXPIRED" ELSE "CURRENT"
LifecycleOf(m) ==
  IF RecordsFor(m) # {}
  THEN IF [id |-> m.id, identity |-> m.identity] \in consumed
       THEN "CONSUMED" ELSE "processed_request_identity_mismatch"
  ELSE IF Over(m) THEN "EXPIRED" ELSE "CURRENT"

(* Mutant: strangers are objected to for ever.                             *)
ObjectToStrangers(m) ==
  IF m.form = "ok" /\ m.author \notin Trusted THEN "untrusted_inbox_author"
  ELSE IF m.form = "malformed" THEN "malformed_marker"
  ELSE IF m.form = "no_expiry" THEN "invalid_expiry"
  ELSE IF m.fields = "invalid" THEN "invalid_fields"
  ELSE IF m.repo # Target THEN "ignored" ELSE LifecycleOf(m)
ClassOf(m) ==
  IF m.form = "malformed" THEN "malformed_marker"
  ELSE IF m.form = "no_expiry" THEN "invalid_expiry"
  ELSE IF m.author \notin Trusted
  THEN IF Over(m) THEN "ignored" ELSE "untrusted_inbox_author"
  ELSE IF m.fields = "invalid" THEN "invalid_fields"
  ELSE IF m.repo # Target THEN "ignored"
  ELSE LifecycleOf(m)

(* The outcome of one poll over a list of markers: the first marker that   *)
(* blocks decides; otherwise exactly one current marker is selected.       *)
OfClass(list, classes) == {i \in DOMAIN list : ClassOf(list[i]) \in classes}
First(indices) == CHOOSE i \in indices : \A j \in indices : i <= j
Block(reason) == [selected |-> {}, reason |-> reason]

(* Mutant: of several current requests the newest is selected.             *)
PollNewest(list) ==
  LET current == OfClass(list, {"CURRENT"})
      newest == CHOOSE i \in current : \A j \in current : j <= i
  IN IF current = {} \/ OfClass(list, Blocking) # {} THEN Block("missing_request")
     ELSE [selected |-> {list[newest]}, reason |-> "selected"]

Poll(list) ==
  LET current == OfClass(list, {"CURRENT"})
      blocking == OfClass(list, Blocking)
  IN IF list = <<>> THEN Block("missing_request")
     ELSE IF blocking # {} THEN Block(ClassOf(list[First(blocking)]))
     ELSE IF current = {} /\ OfClass(list, {"CONSUMED"}) # {}
     THEN Block("no_current_request_after_consumption")
     ELSE IF current = {} THEN Block("missing_current_request")
     ELSE IF \E i, j \in current : i # j THEN Block("multiple_current_requests")
     ELSE [selected |-> {list[i] : i \in current}, reason |-> "selected"]

Selected == Poll(inbox).selected
-----------------------------------------------------------------------------
Init == inbox = <<>> /\ now = 0 /\ consumed = {} /\ pending = {}

Post ==
  /\ Len(inbox) < MaxInbox
  /\ \E m \in MarkerSpace : inbox' = Append(inbox, m)
  /\ UNCHANGED <<now, consumed, pending>>

Tick == now < MaxTime /\ now' = now + 1 /\ UNCHANGED <<inbox, consumed, pending>>

(* The loop hands the selected request on; the world moves on meanwhile.   *)
Delegate ==
  /\ pending = {} /\ Selected # {}
  /\ pending' = Selected
  /\ UNCHANGED <<inbox, now, consumed>>

(* The delegation is settled in a processed record ...                     *)
Settle ==
  /\ \E m \in pending : consumed' = consumed \cup {[id |-> m.id, identity |-> m.identity]}
  /\ pending' = {}
  /\ UNCHANGED <<inbox, now>>

(* ... or ends without one.                                                *)
GiveUp ==
  /\ pending # {} /\ pending' = {}
  /\ UNCHANGED <<inbox, now, consumed>>

Next == Post \/ Tick \/ Delegate \/ Settle \/ GiveUp

Spec == Init /\ [][Next]_vars
-----------------------------------------------------------------------------
TypeOK ==
  /\ inbox \in Seq(MarkerSpace) /\ now \in Nat
  /\ consumed \subseteq {[id |-> m.id, identity |-> m.identity] : m \in MarkerSpace}
  /\ pending \subseteq MarkerSpace /\ \A a, b \in pending : a = b

(* Why ConsumedOnce is preserved: what is being delegated has no record.   *)
PendingIsNew == \A m \in pending : RecordsFor(m) = {}

(* A request is consumed under one identity only, although several markers *)
(* may carry its id and may expire, or be posted, while one of them is     *)
(* being delegated.                                                        *)
ConsumedOnce == \A a, b \in consumed : a.id = b.id => a = b

(* The selection never jumps: as long as the selected request is neither   *)
(* consumed nor expired, a later poll selects it again or nothing at all.  *)
SelectionNeverJumps ==
  [][\A m \in Selected :
       Selected' \subseteq {m} \/ m.expires <= now'
         \/ \E c \in consumed' : c.id = m.id]_vars

(* Noise is what cannot be dispatched by this operator: well-formed markers*)
(* of strangers whose lifetime is over, and of other repositories.         *)
Noise(m) == m.form = "ok" /\ IF m.author \in Trusted
                              THEN m.fields = "valid" /\ m.repo # Target
                              ELSE Over(m)

(* The control issue without its noise, by the rank of what is left.       *)
Upto(indices, i) == {j \in indices : j <= i}
Nth(indices, n) == CHOOSE i \in indices : Cardinality(Upto(indices, i)) = n
Heard == {i \in DOMAIN inbox : ~Noise(inbox[i])}
Quiet == [n \in 1..Cardinality(Heard) |-> inbox[Nth(Heard, n)]]

(* Noise does not hide, delay or add a selection, wherever it is in the    *)
(* list: a poll of the list without it gives the same result (or finds the *)
(* list empty).                                                            *)
NoiseIsIrrelevant ==
  LET heard == Poll(inbox)
      quiet == Poll(Quiet)
  IN /\ heard.selected = quiet.selected
     /\ quiet.reason = "missing_request" =>
          heard.reason \in {"missing_request", "missing_current_request"}
     /\ quiet.reason # "missing_request" => heard.reason = quiet.reason

=============================================================================
