-------------------------- MODULE ResultNotifications --------------------------
(***************************************************************************)
(* Desktop notifications about settled requests (workflow_result_          *)
(* notifications.py): a scanner that follows processed_requests.jsonl from *)
(* the place where it was activated, and keeps its position and one entry  *)
(* per request in workflow_result_notifications.json, which it rewrites as *)
(* a whole.  The operator calls it during start-up, before and after it    *)
(* owns operator.lock, and after every delegation.                         *)
(*                                                                         *)
(* The processed records are a sequence of chunks: a request stands for its*)
(* complete line, Torn for the bytes of a write that was cut short.  A line*)
(* is what lies between two line ends, so Torn spoils the line after it.   *)
(* The hash of the scanned part is injective: the state keeps that part.   *)
(***************************************************************************)
EXTENDS Naturals, Sequences, SequencesExt

CONSTANTS
  Requests,    \* request identities that get settled
  Scanners,    \* operator processes that may call the scanner at a time
  MaxChunks,   \* bound on the length of the processed records
  MaxFaults,   \* crashes, I/O errors, torn writes, repairs by hand
  Torn, NoState, Unreadable


VARIABLES
  source,  \* processed_requests.jsonl
  state,   \* workflow_result_notifications.json
  pc,      \* where each scanner is
  raw,     \* the processed records as it read them
  mem,     \* the state as it holds it in memory
  shown,   \* how often the desktop was asked to show a request
  faults

vars == <<source, state, pc, raw, mem, shown, faults>>
-----------------------------------------------------------------------------
Statuses == {"none", "submitting", "submitted", "ambiguous"}
Chunks == Requests \cup {Torn}
States == [history : {"ok", "ambiguous"}, activation : 0 .. MaxChunks,
           prefix : Seq(Chunks), entry : [Requests -> Statuses]]

ASSUME ChunkAssumption ==
  /\ Torn \notin Requests /\ MaxChunks \in Nat /\ MaxFaults \in Nat
  /\ NoState # Unreadable /\ NoState \notin States /\ Unreadable \notin States

(* _new_state: whatever is in the file by now is history.                  *)
NewState(bytes) ==
  [history |-> "ok", activation |-> Len(bytes), prefix |-> bytes,
   entry |-> [r \in Requests |-> "none"]]

(* A submission whose outcome was not recorded is never repeated.          *)
(* Mutant: it is forgotten, as if it had not been started.                 *)
RetryUnknown(st) ==
  [st EXCEPT !.entry = [r \in Requests |-> IF @[r] = "submitting" THEN "none" ELSE @[r]]]
SettleUnknown(st) ==
  [st EXCEPT !.entry =
     [r \in Requests |-> IF @[r] = "submitting" THEN "ambiguous" ELSE @[r]]]

Unread(p) == SubSeq(raw[p], Len(mem[p].prefix) + 1, Len(raw[p]))
Upcoming(p) == Unread(p)[1]
AtRecord(p) == Unread(p) # <<>> /\ Upcoming(p) # Torn
CutShort(p) == Unread(p) # <<>> /\ Last(Unread(p)) = Torn
Advanced(p) == [mem[p] EXCEPT !.prefix = Append(@, Upcoming(p))]

Init ==
  /\ source = <<>> /\ state = NoState
  /\ pc = [p \in Scanners |-> "idle"]
  /\ raw = [p \in Scanners |-> <<>>]
  /\ mem = [p \in Scanners |-> NoState]
  /\ shown = [r \in Requests |-> 0] /\ faults = 0

Goto(p, label) == pc' = [pc EXCEPT ![p] = label]
Step(p, from, to) == pc[p] = from /\ Goto(p, to)
Fault == faults < MaxFaults /\ faults' = faults + 1
NoFault == UNCHANGED faults
-----------------------------------------------------------------------------
(* write_durable_json on the state file: replaced as a whole, or not, or   *)
(* replaced with a read-back that fails.                                   *)
Persist(p, new, done) ==
  \/ /\ state' = new /\ mem' = [mem EXCEPT ![p] = new]
     /\ Goto(p, done) /\ NoFault
  \/ /\ Fault /\ state' \in {state, new}
     /\ Goto(p, "idle") /\ UNCHANGED mem

Open(p) ==
  /\ Step(p, "idle", "opened")
  /\ raw' = [raw EXCEPT ![p] = source]
  /\ UNCHANGED <<source, state, mem, shown, faults>>

(* The first call only activates: exclusive creation, then the content.    *)
Create(p) ==
  /\ Step(p, "opened", "activate")
  /\ state = NoState /\ state' = Unreadable
  /\ UNCHANGED <<source, raw, mem, shown, faults>>

Activate(p) ==
  /\ Step(p, "activate", "idle")
  /\ state' = NewState(raw[p])
  /\ UNCHANGED <<source, raw, mem, shown, faults>>

(* An unreadable state and an ambiguous history end the call.              *)
Refuse(p) ==
  /\ Step(p, "opened", "idle")
  /\ state # NoState
  /\ state # Unreadable => state.history # "ok"
  /\ UNCHANGED <<source, state, raw, mem, shown, faults>>

Load(p) ==
  /\ pc[p] = "opened"
  /\ state \notin {NoState, Unreadable} /\ state.history = "ok"
  /\ mem' = [mem EXCEPT ![p] = SettleUnknown(state)]
  /\ Goto(p, IF SettleUnknown(state) = state THEN "compare" ELSE "recover")
  /\ UNCHANGED <<source, state, raw, shown, faults>>

Recover(p) ==
  /\ pc[p] = "recover"
  /\ Persist(p, mem[p], "compare")
  /\ UNCHANGED <<source, raw, shown>>

(* What was scanned must still be there, and the rest must end in a line.  *)
Compare(p) ==
  /\ pc[p] = "compare"
  /\ IF ~IsPrefix(mem[p].prefix, raw[p]) THEN Goto(p, "flag")
     ELSE Goto(p, IF CutShort(p) THEN "idle" ELSE "scan")
  /\ UNCHANGED <<source, state, raw, mem, shown, faults>>

Flag(p) ==
  /\ pc[p] = "flag"
  /\ Persist(p, [mem[p] EXCEPT !.history = "ambiguous"], "idle")
  /\ UNCHANGED <<source, raw, shown>>

(* Nothing is left, or the next line is no record.                         *)
Finish(p) ==
  /\ Step(p, "scan", "idle")
  /\ ~AtRecord(p)
  /\ UNCHANGED <<source, state, raw, mem, shown, faults>>

(* Mutant: a known request ends the call instead of the iteration.         *)
SkipAndStop(p) ==
  /\ Step(p, "scan", "idle") /\ AtRecord(p)
  /\ mem[p].entry[Upcoming(p)] # "none"
  /\ UNCHANGED <<source, state, raw, mem, shown, faults>>
Skip(p) ==
  /\ pc[p] = "scan" /\ AtRecord(p)
  /\ mem[p].entry[Upcoming(p)] # "none"
  /\ Persist(p, Advanced(p), "scan")
  /\ UNCHANGED <<source, raw, shown>>

(* The entry and the new position are durable before the desktop is asked. *)
(* Mutants: the position only moves; the entry is written afterwards; an   *)
(* ambiguous entry is tried again.                                         *)
MarkNothing(p) ==
  /\ pc[p] = "scan" /\ AtRecord(p)
  /\ mem[p].entry[Upcoming(p)] = "none"
  /\ Persist(p, Advanced(p), "scan")
  /\ UNCHANGED <<source, raw, shown>>
MarkAgain(p) ==
  /\ pc[p] = "scan" /\ AtRecord(p)
  /\ mem[p].entry[Upcoming(p)] \in {"none", "ambiguous"}
  /\ Persist(p, [Advanced(p) EXCEPT !.entry[Upcoming(p)] = "submitting"], "submit")
  /\ UNCHANGED <<source, raw, shown>>
Mark(p) ==
  /\ pc[p] = "scan" /\ AtRecord(p)
  /\ mem[p].entry[Upcoming(p)] = "none"
  /\ Persist(p, [Advanced(p) EXCEPT !.entry[Upcoming(p)] = "submitting"], "submit")
  /\ UNCHANGED <<source, raw, shown>>

(* The helper is asked; a time-out, an exit code, an exception and a bad   *)
(* receipt all leave the outcome unknown.                                  *)
Submit(p) ==
  /\ Step(p, "submit", "record")
  /\ LET r == Last(mem[p].prefix)
     IN /\ shown' = [shown EXCEPT ![r] = @ + 1]
        /\ \E outcome \in {"submitted", "ambiguous"} :
             mem' = [mem EXCEPT ![p].entry[r] = outcome]
  /\ UNCHANGED <<source, state, raw, faults>>

RecordOutcome(p) ==
  /\ pc[p] = "record"
  /\ Persist(p, mem[p], "scan")
  /\ UNCHANGED <<source, raw, shown>>

Crash(p) ==
  /\ pc[p] # "idle" /\ Fault
  /\ Goto(p, "idle")
  /\ UNCHANGED <<source, state, raw, mem, shown>>
-----------------------------------------------------------------------------
(* The operator appends records, sometimes twice (see BridgeOperator), and *)
(* somebody may cut off the end of the file by hand.                       *)
Grow(chunk) == Len(source) < MaxChunks /\ source' = Append(source, chunk)
Settle(r) == Grow(r) /\ UNCHANGED <<state, pc, raw, mem, shown, faults>>
Tear == Grow(Torn) /\ Fault /\ UNCHANGED <<state, pc, raw, mem, shown>>
Repair ==
  /\ source # <<>> /\ Fault
  /\ source' = SubSeq(source, 1, Len(source) - 1)
  /\ UNCHANGED <<state, pc, raw, mem, shown>>

Scan(p) ==
  \/ Create(p) \/ Activate(p) \/ Refuse(p) \/ Load(p) \/ Recover(p) \/ Compare(p)
  \/ Flag(p) \/ Finish(p) \/ Skip(p) \/ Mark(p) \/ Submit(p) \/ RecordOutcome(p)

Next ==
  \/ \E p \in Scanners : Open(p) \/ Scan(p) \/ Crash(p)
  \/ \E r \in Requests : Settle(r)
  \/ Tear \/ Repair

Spec == Init /\ [][Next]_vars

(* The operator calls the scanner again and again, and a call goes on.     *)
FairSpec == Spec /\ \A p \in Scanners : WF_vars(Open(p)) /\ WF_vars(Scan(p))
-----------------------------------------------------------------------------
Labels == {"idle", "opened", "activate", "compare", "recover", "flag", "scan",
           "submit", "record"}
Known == state \notin {NoState, Unreadable}

(* Whenever a position is kept, it is not before the activation.           *)
TypeOK ==
  /\ source \in Seq(Chunks) /\ Len(source) <= MaxChunks
  /\ state \in States \cup {NoState, Unreadable}
  /\ Known => state.activation <= Len(state.prefix)
  /\ pc \in [Scanners -> Labels]
  /\ raw \in [Scanners -> Seq(Chunks)] /\ mem \in [Scanners -> States \cup {NoState}]
  /\ shown \in [Requests -> Nat] /\ faults \in 0 .. MaxFaults

(* Nobody is notified twice about a request, whatever crashes, fails or is *)
(* recorded twice: an unknown outcome is not a reason to try again.        *)
NeverShownTwice == \A r \in Requests : shown[r] <= 1

(* What was notified can be told from the file at any time: a request that *)
(* was shown has an entry, and one whose entry says so was shown.          *)
EntriesAreTrue ==
  Known => \A r \in Requests :
             /\ shown[r] > 0 => state.entry[r] # "none"
             /\ state.entry[r] = "submitted" => shown[r] > 0

(* No record after the activation is passed over without an entry, and no  *)
(* entry is about a request that was settled before it only.               *)
NoneIsSkipped ==
  Known =>
    LET news == SubSeq(state.prefix, state.activation + 1, Len(state.prefix))
    IN {r \in Requests : state.entry[r] # "none"} = {news[i] : i \in DOMAIN news}

(* Once faults are over, every record settled after the activation gets its*)
(* entry, unless a line is spoilt; or the file is found to have been cut   *)
(* below the position, and the scanner says so for good.                   *)
Followable ==
  /\ Known /\ state.history = "ok" /\ IsPrefix(state.prefix, source)
  /\ \A i \in DOMAIN source : i > Len(state.prefix) => source[i] # Torn
EveryRecordIsNoticed ==
  \A r \in Requests :
    (\E i \in DOMAIN source : source[i] = r /\ Followable /\ i > Len(state.prefix))
      /\ faults = MaxFaults
      ~> Known /\ (state.entry[r] # "none" \/ state.history = "ambiguous")
=============================================================================
