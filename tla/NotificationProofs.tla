--------------------------- MODULE NotificationProofs ---------------------------
(***************************************************************************)
(* Proofs about ResultNotifications, for any requests, any length of the   *)
(* records and any number of faults.                                       *)
(***************************************************************************)
EXTENDS ResultNotifications, TLAPS

USE ChunkAssumption

-----------------------------------------------------------------------------
(* Types.  A scanner that has loaded the state holds one, its position is  *)
(* never before the activation, and what it submits is a request.          *)

Holding == {"compare", "recover", "flag", "scan", "submit", "record"}

TypeInv ==
  /\ TypeOK
  /\ \A p \in Scanners :
       /\ Len(raw[p]) <= MaxChunks
       /\ mem[p] # NoState => mem[p].activation <= Len(mem[p].prefix)
       /\ pc[p] \in Holding => mem[p] # NoState
       /\ pc[p] \in {"submit", "record"} =>
            mem[p].prefix # <<>> /\ Last(mem[p].prefix) \in Requests

LEMMA InitType == Init => TypeInv
BY DEF Init, TypeInv, TypeOK, Known, Labels, Holding

(* A state that settles unknown submissions, is flagged, or moves on by a  *)
(* chunk is a state again.                                                 *)
Placed(st) == st \in States /\ st.activation <= Len(st.prefix)

LEMMA SettledState ==
  ASSUME NEW st, Placed(st)
  PROVE  Placed(SettleUnknown(st)) /\ SettleUnknown(st).prefix = st.prefix
BY DEF Placed, States, SettleUnknown, Statuses

LEMMA MovedState ==
  ASSUME NEW st, Placed(st), NEW c \in Chunks
  PROVE  LET new == [st EXCEPT !.prefix = Append(@, c)]
         IN Placed(new) /\ new.prefix # <<>> /\ Last(new.prefix) = c
<1> DEFINE new == [st EXCEPT !.prefix = Append(@, c)]
<1>1. st.prefix \in Seq(Chunks) /\ st.activation \in Nat /\ Len(st.prefix) \in Nat
  BY DEF Placed, States
<1>2. /\ new.prefix = Append(st.prefix, c) /\ new.activation = st.activation
      /\ new.history = st.history /\ new.entry = st.entry
  BY DEF Placed, States
<1>3. /\ Append(st.prefix, c) \in Seq(Chunks) /\ Len(Append(st.prefix, c)) = Len(st.prefix) + 1
      /\ Append(st.prefix, c)[Len(st.prefix) + 1] = c
  BY <1>1
<1>4. new \in States
  BY <1>3 DEF Placed, States
<1>5. new.activation <= Len(new.prefix)
  BY <1>1, <1>2, <1>3 DEF Placed
<1>6. Append(st.prefix, c) # <<>> /\ Len(Append(st.prefix, c)) = Len(st.prefix) + 1
  BY <1>1
<1>7. new.prefix # <<>> /\ Last(new.prefix) = c
  BY <1>2, <1>3, <1>6 DEF Last
<1> QED BY <1>4, <1>5, <1>7 DEF Placed

LEMMA MarkedState ==
  ASSUME NEW st, Placed(st), NEW r \in Requests, NEW s \in Statuses
  PROVE  LET new == [st EXCEPT !.entry[r] = s]
         IN Placed(new) /\ new.prefix = st.prefix
BY DEF Placed, States

LEMMA NewStatePlaced ==
  ASSUME NEW bytes \in Seq(Chunks), Len(bytes) <= MaxChunks
  PROVE  Placed(NewState(bytes))
<1>1. Len(bytes) \in 0 .. MaxChunks /\ Len(bytes) <= Len(bytes)
  OBVIOUS
<1>2. NewState(bytes).activation = Len(bytes) /\ NewState(bytes).prefix = bytes
  BY DEF NewState
<1>3. NewState(bytes) \in States
  BY <1>1 DEF NewState, States, Statuses
<1> QED BY <1>1, <1>2, <1>3 DEF Placed

(* What is unread consists of chunks, and moving on goes over one of them. *)
LEMMA UnreadChunks ==
  ASSUME TypeInv, NEW p \in Scanners, pc[p] = "scan", AtRecord(p)
  PROVE  Upcoming(p) \in Requests
<1>1. raw[p] \in Seq(Chunks) /\ mem[p] \in States
  BY DEF TypeInv, TypeOK, Holding
<1>2. mem[p].prefix \in Seq(Chunks)
  BY <1>1 DEF States
<1>3. Unread(p) \in Seq(Chunks)
  BY <1>1, <1>2 DEF Unread
<1>4. Unread(p) # <<>> /\ Unread(p)[1] # Torn
  BY DEF AtRecord, Upcoming
<1>5. Unread(p)[1] \in Chunks
  BY <1>3, <1>4
<1> QED BY <1>4, <1>5 DEF Chunks, Upcoming

(* Writing the state file keeps the types, done, failed or half done.      *)
LEMMA PersistType ==
  ASSUME TypeInv, NEW p \in Scanners, NEW new, Placed(new), NEW done \in Labels,
         Persist(p, new, done), UNCHANGED <<source, raw, shown>>,
         done = "submit" => new.prefix # <<>> /\ Last(new.prefix) \in Requests,
         done # "record"
  PROVE  TypeInv'
<1>. new \in States /\ new.activation <= Len(new.prefix) /\ new \notin {NoState, Unreadable}
  BY DEF Placed
<1>1. CASE state' = new /\ mem' = [mem EXCEPT ![p] = new] /\ Goto(p, done) /\ NoFault
  BY <1>1 DEF TypeInv, TypeOK, Known, Goto, NoFault, Holding
<1>2. CASE Fault /\ state' \in {state, new} /\ Goto(p, "idle") /\ UNCHANGED mem
  BY <1>2 DEF TypeInv, TypeOK, Known, Goto, Fault, Holding, Labels
<1> QED BY <1>1, <1>2 DEF Persist

(* The state in the file, once readable, can be loaded; a loaded one is    *)
(* placed.                                                                 *)
LEMMA LoadedState ==
  ASSUME TypeInv
  PROVE  /\ Known => Placed(state)
         /\ \A p \in Scanners : pc[p] \in Holding => Placed(mem[p])
BY DEF TypeInv, TypeOK, Known, Placed

LEMMA ScanType ==
  ASSUME TypeInv, NEW p \in Scanners, Scan(p)
  PROVE  TypeInv'
<1>1. CASE Create(p)
  BY <1>1 DEF TypeInv, TypeOK, Known, Create, Step, Goto, Labels, Holding
<1>2. CASE Activate(p)
  <2>1. Placed(NewState(raw[p]))
    BY NewStatePlaced DEF TypeInv, TypeOK
  <2>2. NewState(raw[p]) \in States /\ NewState(raw[p]).activation <= Len(NewState(raw[p]).prefix)
    BY <2>1 DEF Placed
  <2> QED BY <1>2, <2>2 DEF TypeInv, TypeOK, Known, Activate, Step, Goto, Labels, Holding
<1>3. CASE Refuse(p)
  BY <1>3 DEF TypeInv, TypeOK, Known, Refuse, Step, Goto, Labels, Holding
<1>4. CASE Load(p)
  <2>1. Placed(SettleUnknown(state))
    BY <1>4, LoadedState, SettledState DEF Load, Known
  <2>2. SettleUnknown(state) \in States \ {NoState}
        /\ SettleUnknown(state).activation <= Len(SettleUnknown(state).prefix)
    BY <2>1 DEF Placed
  <2> QED BY <1>4, <2>2 DEF TypeInv, TypeOK, Known, Load, Goto, Labels, Holding
<1>5. CASE Recover(p)
  <2>1. Placed(mem[p]) /\ Persist(p, mem[p], "compare") /\ UNCHANGED <<source, raw, shown>>
    BY <1>5, LoadedState DEF Recover, Holding
  <2> QED BY <2>1, PersistType DEF Labels
<1>6. CASE Compare(p)
  BY <1>6 DEF TypeInv, TypeOK, Known, Compare, Goto, Labels, Holding
<1>7. CASE Flag(p)
  <2>1. Placed(mem[p]) /\ Persist(p, [mem[p] EXCEPT !.history = "ambiguous"], "idle")
        /\ UNCHANGED <<source, raw, shown>>
    BY <1>7, LoadedState DEF Flag, Holding
  <2>2. Placed([mem[p] EXCEPT !.history = "ambiguous"])
    BY <2>1 DEF Placed, States
  <2> QED BY <2>1, <2>2, PersistType DEF Labels
<1>8. CASE Finish(p)
  BY <1>8 DEF TypeInv, TypeOK, Known, Finish, Step, Goto, Labels, Holding
<1>9. CASE Skip(p)
  <2>1. Placed(mem[p]) /\ Upcoming(p) \in Chunks /\ Persist(p, Advanced(p), "scan")
        /\ UNCHANGED <<source, raw, shown>>
    BY <1>9, LoadedState, UnreadChunks DEF Skip, Holding, Chunks
  <2>2. Placed(Advanced(p))
    BY <2>1, MovedState DEF Advanced
  <2> QED BY <2>1, <2>2, PersistType DEF Labels
<1>10. CASE Mark(p)
  <2> DEFINE new == [Advanced(p) EXCEPT !.entry[Upcoming(p)] = "submitting"]
  <2>1. Placed(mem[p]) /\ Upcoming(p) \in Requests /\ Persist(p, new, "submit")
        /\ UNCHANGED <<source, raw, shown>>
    BY <1>10, LoadedState, UnreadChunks DEF Mark, Holding
  <2>2. /\ Placed(Advanced(p)) /\ Advanced(p).prefix # <<>>
        /\ Last(Advanced(p).prefix) = Upcoming(p)
    BY <2>1, MovedState DEF Advanced, Chunks
  <2>3. Placed(new) /\ new.prefix = Advanced(p).prefix
    BY <2>1, <2>2, MarkedState DEF Statuses
  <2> HIDE DEF new
  <2> QED BY <2>1, <2>2, <2>3, PersistType DEF Labels
<1>11. CASE Submit(p)
  <2> DEFINE r == Last(mem[p].prefix)
  <2>1. Placed(mem[p]) /\ r \in Requests
    BY <1>11, LoadedState DEF Submit, Step, Holding, TypeInv
  <2>2. PICK outcome \in {"submitted", "ambiguous"} :
          mem' = [mem EXCEPT ![p] = [@ EXCEPT !.entry[r] = outcome]]
    BY <1>11 DEF Submit
  <2>3. /\ Placed([mem[p] EXCEPT !.entry[r] = outcome])
        /\ [mem[p] EXCEPT !.entry[r] = outcome].prefix = mem[p].prefix
    BY <2>1, MarkedState DEF Statuses
  <2>4. mem'[p] = [mem[p] EXCEPT !.entry[r] = outcome] /\ \A q \in Scanners \ {p} : mem'[q] = mem[q]
    BY <2>2 DEF TypeInv, TypeOK
  <2>5. mem' \in [Scanners -> States \cup {NoState}]
    BY <2>2, <2>3 DEF TypeInv, TypeOK, Placed
  <2>6. shown' \in [Requests -> Nat]
    BY <1>11, <2>1 DEF Submit, TypeInv, TypeOK
  <2>7. mem'[p] # NoState /\ mem'[p].prefix = mem[p].prefix /\ mem'[p].activation <= Len(mem'[p].prefix)
    BY <2>3, <2>4 DEF Placed
  <2>8. /\ pc[p] = "submit" /\ pc' = [pc EXCEPT ![p] = "record"]
        /\ UNCHANGED <<source, state, raw, faults>>
    BY <1>11 DEF Submit, Step, Goto
  <2>9. mem[p].prefix # <<>>
    BY <2>8 DEF TypeInv
  <2> QED BY <2>1, <2>4, <2>5, <2>6, <2>7, <2>8, <2>9 DEF TypeInv, TypeOK, Known, Labels, Holding
<1>12. CASE RecordOutcome(p)
  <2>1. Placed(mem[p]) /\ Persist(p, mem[p], "scan") /\ UNCHANGED <<source, raw, shown>>
    BY <1>12, LoadedState DEF RecordOutcome, Holding
  <2> QED BY <2>1, PersistType DEF Labels
<1> QED
  BY <1>1, <1>2, <1>3, <1>4, <1>5, <1>6, <1>7, <1>8, <1>9, <1>10, <1>11, <1>12 DEF Scan

LEMMA NextType ==
  ASSUME TypeInv, [Next]_vars
  PROVE  TypeInv'
<1>1. CASE UNCHANGED vars
  BY <1>1 DEF TypeInv, TypeOK, Known, vars
<1>2. ASSUME NEW p \in Scanners, Open(p) \/ Crash(p)
      PROVE  TypeInv'
  <2>1. CASE Open(p)
    BY <2>1 DEF TypeInv, TypeOK, Known, Open, Step, Goto, Labels, Holding
  <2>2. CASE Crash(p)
    BY <2>2 DEF TypeInv, TypeOK, Known, Crash, Goto, Fault, Labels, Holding
  <2> QED BY <1>2, <2>1, <2>2
<1>3. ASSUME NEW c \in Chunks, Grow(c), UNCHANGED <<state, pc, raw, mem, shown>>,
             faults' \in 0 .. MaxFaults
      PROVE  TypeInv'
  <2>1. source' \in Seq(Chunks) /\ Len(source') <= MaxChunks
    BY <1>3 DEF Grow, TypeInv, TypeOK
  <2> QED BY <1>3, <2>1 DEF TypeInv, TypeOK, Known
<1>4. CASE \E r \in Requests : Settle(r)
  BY <1>3, <1>4 DEF Settle, Chunks, TypeInv, TypeOK
<1>5. CASE Tear
  BY <1>3, <1>5 DEF Tear, Chunks, Fault, TypeInv, TypeOK
<1>6. CASE Repair
  <2>1. source' \in Seq(Chunks) /\ Len(source') <= MaxChunks
    BY <1>6 DEF Repair, TypeInv, TypeOK
  <2> QED BY <1>6, <2>1 DEF Repair, Fault, TypeInv, TypeOK, Known
<1> QED BY <1>1, <1>2, <1>4, <1>5, <1>6, ScanType DEF Next

(* The type invariant of the scanner (_new_state, _persist_state and the   *)
(* scan of the processed records), for any number of scanners.             *)
THEOREM TypeCorrect == Spec => []TypeOK
<1>1. TypeInv => TypeOK
  BY DEF TypeInv
<1> QED BY <1>1, InitType, NextType, PTL DEF Spec

-----------------------------------------------------------------------------
(* One scanner.  Two operators that scan at the same time do notify twice; *)
(* with one, the file is always ahead of the desktop: what was shown has   *)
(* an entry, the memory of a call agrees with the file on which requests   *)
(* have one, and what is about to be shown has never been.                 *)

Noted(p) ==
  /\ TypeInv
  /\ \A r \in Requests :
       /\ shown[r] <= 1
       /\ shown[r] > 0 => Known /\ state.entry[r] # "none"
       /\ Known /\ state.entry[r] = "submitted" => shown[r] > 0
       /\ pc[p] \in Holding =>
            /\ mem[p].entry[r] = "none" <=> state.entry[r] = "none"
            /\ mem[p].entry[r] = "submitted" => shown[r] > 0
  /\ pc[p] \in Holding => Known
  /\ pc[p] = "activate" => state = Unreadable
  /\ pc[p] = "submit" => LET r == Last(mem[p].prefix)
                         IN shown[r] = 0 /\ mem[p].entry[r] # "none"

LEMMA InitNoted ==
  ASSUME NEW p \in Scanners, Init
  PROVE  Noted(p)
BY InitType DEF Init, Noted, Known, Holding

(* Writing a state that agrees with the one in memory keeps them true.     *)
LEMMA PersistNoted ==
  ASSUME NEW p \in Scanners, Scanners = {p}, Noted(p), TypeInv',
         NEW new, Placed(new), NEW done \in Labels \ {"activate"},
         Persist(p, new, done), UNCHANGED shown, pc[p] \in Holding,
         \A r \in Requests : /\ new.entry[r] = "none" => mem[p].entry[r] = "none"
                             /\ new.entry[r] = "submitted" => mem[p].entry[r] = "submitted",
         done = "submit" => LET r == Last(new.prefix)
                            IN shown[r] = 0 /\ new.entry[r] # "none"
  PROVE  Noted(p)'
<1>. new \in States /\ new \notin {NoState, Unreadable}
  BY DEF Placed
<1>1. CASE state' = new /\ mem' = [mem EXCEPT ![p] = new] /\ Goto(p, done) /\ NoFault
  <2>1. mem'[p] = new /\ pc'[p] = done
    BY <1>1 DEF Noted, TypeInv, TypeOK, Goto
  <2> QED BY <1>1, <2>1 DEF Noted, Known
<1>2. CASE Fault /\ state' \in {state, new} /\ Goto(p, "idle") /\ UNCHANGED mem
  <2>1. pc'[p] = "idle" /\ "idle" \notin Holding
    BY <1>2 DEF Noted, TypeInv, TypeOK, Goto, Holding
  <2> QED BY <1>2, <2>1 DEF Noted, Known
<1> QED BY <1>1, <1>2 DEF Persist

LEMMA ScanNoted ==
  ASSUME NEW p \in Scanners, Scanners = {p}, Noted(p), Scan(p)
  PROVE  Noted(p)'
<1>. TypeInv /\ TypeInv'
  BY ScanType DEF Noted
<1>. pc[p] \in Holding => Placed(mem[p]) /\ Known
  BY LoadedState DEF Noted
<1>1. ASSUME Create(p) \/ Refuse(p) \/ Compare(p) \/ Finish(p)
      PROVE  Noted(p)'
  <2>1. /\ UNCHANGED <<mem, shown>>
        /\ \/ UNCHANGED state
           \/ state = NoState /\ state' = Unreadable /\ pc'[p] = "activate"
    BY <1>1 DEF Create, Refuse, Compare, Finish, Step, Goto, TypeInv, TypeOK
  <2>2. pc'[p] \in Holding => pc[p] \in Holding
    BY <1>1 DEF Create, Refuse, Compare, Finish, Step, Goto, Holding, TypeInv, TypeOK
  <2>3. pc'[p] # "submit" /\ (pc'[p] = "activate" => state' = Unreadable)
    BY <1>1 DEF Create, Refuse, Compare, Finish, Step, Goto, TypeInv, TypeOK
  <2> QED BY <2>1, <2>2, <2>3 DEF Noted, Known, Holding
<1>2. CASE Activate(p)
  <2>1. state = Unreadable /\ pc'[p] = "idle" /\ UNCHANGED <<mem, shown>>
    BY <1>2 DEF Activate, Step, Goto, Noted, TypeInv, TypeOK
  <2>2. \A r \in Requests : shown[r] = 0 /\ state'.entry[r] = "none"
    BY <1>2, <2>1 DEF Activate, NewState, Noted, Known, TypeInv, TypeOK
  <2> QED BY <2>1, <2>2 DEF Noted, Holding
<1>3. CASE Load(p)
  <2>1. /\ Known /\ mem'[p] = SettleUnknown(state) /\ UNCHANGED <<state, shown>>
        /\ pc'[p] \in {"compare", "recover"}
    BY <1>3 DEF Load, Goto, Known, TypeInv, TypeOK
  <2>2. \A r \in Requests : /\ mem'[p].entry[r] = "none" <=> state.entry[r] = "none"
                            /\ mem'[p].entry[r] = "submitted" => state.entry[r] = "submitted"
    BY <2>1 DEF SettleUnknown, TypeInv, TypeOK, Known, States
  <2> QED BY <2>1, <2>2 DEF Noted, Known, Holding
<1>4. CASE Recover(p)
  BY <1>4, PersistNoted DEF Recover, Labels, Holding
<1>5. CASE Flag(p)
  <2>1. Placed([mem[p] EXCEPT !.history = "ambiguous"])
        /\ [mem[p] EXCEPT !.history = "ambiguous"].entry = mem[p].entry
    BY <1>5 DEF Flag, Holding, Placed, States
  <2> QED BY <1>5, <2>1, PersistNoted DEF Flag, Labels, Holding
<1>6. CASE Skip(p)
  <2>1. Upcoming(p) \in Chunks /\ Placed(mem[p])
    BY <1>6, UnreadChunks DEF Skip, Holding, Chunks
  <2>2. Placed(Advanced(p)) /\ Advanced(p).entry = mem[p].entry
    BY <2>1, MovedState DEF Advanced, Placed, States
  <2> QED BY <1>6, <2>2, PersistNoted DEF Skip, Labels, Holding
<1>7. CASE Mark(p)
  <2> DEFINE new == [Advanced(p) EXCEPT !.entry[Upcoming(p)] = "submitting"]
  <2>1. Upcoming(p) \in Requests /\ Placed(mem[p]) /\ mem[p].entry[Upcoming(p)] = "none"
    BY <1>7, UnreadChunks DEF Mark, Holding
  <2>2. /\ Placed(Advanced(p)) /\ Last(Advanced(p).prefix) = Upcoming(p)
        /\ Advanced(p).entry = mem[p].entry
    BY <2>1, MovedState DEF Advanced, Chunks, Placed, States
  <2>3. Placed(new) /\ new.prefix = Advanced(p).prefix
    BY <2>1, <2>2, MarkedState DEF Statuses
  <2>4. new.entry = [mem[p].entry EXCEPT ![Upcoming(p)] = "submitting"]
    BY <2>1, <2>2 DEF Placed, States
  <2>5. \A r \in Requests : /\ new.entry[r] = "none" => mem[p].entry[r] = "none"
                            /\ new.entry[r] = "submitted" => mem[p].entry[r] = "submitted"
    BY <2>1, <2>4 DEF Placed, States
  <2>6. shown[Upcoming(p)] = 0 /\ new.entry[Upcoming(p)] # "none"
    <3>1. shown[Upcoming(p)] = 0
      BY <1>7, <2>1 DEF Mark, Noted, Holding, TypeInv, TypeOK
    <3>2. new.entry[Upcoming(p)] = "submitting"
      BY <2>1, <2>4 DEF Placed, States
    <3> QED BY <3>1, <3>2
  <2>7. Persist(p, new, "submit") /\ UNCHANGED shown /\ pc[p] \in Holding
    BY <1>7 DEF Mark, Holding
  <2>8. Last(new.prefix) = Upcoming(p)
    BY <2>2, <2>3
  <2> HIDE DEF new
  <2>9. LET r == Last(new.prefix) IN shown[r] = 0 /\ new.entry[r] # "none"
    BY <2>6, <2>8
  <2> QED BY <2>3, <2>5, <2>7, <2>9, PersistNoted DEF Labels
<1>8. CASE Submit(p)
  <2> DEFINE r == Last(mem[p].prefix)
  <2>1. /\ pc[p] = "submit" /\ pc'[p] = "record" /\ UNCHANGED state
        /\ shown' = [shown EXCEPT ![r] = @ + 1]
    BY <1>8 DEF Submit, Step, Goto, TypeInv, TypeOK
  <2>2. r \in Requests /\ shown[r] = 0 /\ Known /\ Placed(mem[p])
    BY <2>1 DEF TypeInv, Noted, Holding
  <2>3. PICK outcome \in {"submitted", "ambiguous"} :
          mem'[p].entry = [mem[p].entry EXCEPT ![r] = outcome]
    <3>1. PICK outcome \in {"submitted", "ambiguous"} :
            mem' = [mem EXCEPT ![p] = [@ EXCEPT !.entry[r] = outcome]]
      BY <1>8 DEF Submit
    <3>2. mem'[p] = [mem[p] EXCEPT !.entry[r] = outcome]
      BY <3>1 DEF TypeInv, TypeOK
    <3>3. mem'[p].entry = [mem[p].entry EXCEPT ![r] = outcome]
      BY <2>2, <3>2 DEF Placed, States
    <3> QED BY <3>3
  <2>4. shown'[r] = 1 /\ \A q \in Requests \ {r} : shown'[q] = shown[q]
    BY <2>1, <2>2 DEF TypeInv, TypeOK
  <2>5. mem[p].entry[r] # "none" /\ state.entry[r] # "none"
    BY <2>1, <2>2 DEF Noted, Holding
  <2>6. /\ mem'[p].entry[r] = outcome
        /\ \A q \in Requests \ {r} : mem'[p].entry[q] = mem[p].entry[q]
    BY <2>2, <2>3 DEF Placed, States
  <2> HIDE DEF r
  <2>7. \A q \in Requests : /\ shown'[q] <= 1
                            /\ shown'[q] > 0 => state.entry[q] # "none"
                            /\ state.entry[q] = "submitted" => shown'[q] > 0
                            /\ mem'[p].entry[q] = "none" <=> state.entry[q] = "none"
                            /\ mem'[p].entry[q] = "submitted" => shown'[q] > 0
    BY <2>1, <2>2, <2>4, <2>5, <2>6 DEF Noted, Holding
  <2> QED BY <2>1, <2>2, <2>7 DEF Noted, Known, Holding
<1>9. CASE RecordOutcome(p)
  BY <1>9, PersistNoted DEF RecordOutcome, Labels, Holding
<1> QED
  BY <1>1, <1>2, <1>3, <1>4, <1>5, <1>6, <1>7, <1>8, <1>9 DEF Scan

LEMMA NextNoted ==
  ASSUME NEW p \in Scanners, Scanners = {p}, Noted(p), [Next]_vars
  PROVE  Noted(p)'
<1>1. TypeInv'
  BY NextType DEF Noted
<1>2. CASE UNCHANGED <<state, mem, shown>> /\ pc'[p] \in {pc[p], "idle", "opened"}
  BY <1>1, <1>2 DEF Noted, Known, Holding
<1>3. CASE Open(p) \/ Crash(p)
  BY <1>2, <1>3 DEF Open, Crash, Step, Goto, Noted, TypeInv, TypeOK
<1>4. CASE Tear \/ Repair \/ \E r \in Requests : Settle(r)
  BY <1>2, <1>4 DEF Tear, Repair, Settle
<1>5. CASE UNCHANGED vars
  BY <1>2, <1>5 DEF vars
<1> QED BY <1>3, <1>4, <1>5, ScanNoted DEF Next

(* With one scanner nobody is notified twice about a request, wherever it  *)
(* crashes and whatever fails (_submit_one: the entry is durable before    *)
(* the helper is asked, and an unknown outcome is never tried again).      *)
THEOREM NotShownTwice ==
  ASSUME NEW p \in Scanners, Scanners = {p}
  PROVE  Spec => []NeverShownTwice
<1>1. Init => Noted(p)
  BY InitNoted
<1>2. Noted(p) /\ [Next]_vars => Noted(p)'
  BY NextNoted
<1>3. Noted(p) => NeverShownTwice
  BY DEF Noted, NeverShownTwice
<1> QED BY <1>1, <1>2, <1>3, PTL DEF Spec

(* With one scanner the state file tells at any time what was notified.    *)
THEOREM FileTellsTheTruth ==
  ASSUME NEW p \in Scanners, Scanners = {p}
  PROVE  Spec => []EntriesAreTrue
<1>1. Init => Noted(p)
  BY InitNoted
<1>2. Noted(p) /\ [Next]_vars => Noted(p)'
  BY NextNoted
<1>3. Noted(p) => EntriesAreTrue
  BY DEF Noted, EntriesAreTrue
<1> QED BY <1>1, <1>2, <1>3, PTL DEF Spec

-----------------------------------------------------------------------------
(* Nothing is skipped, for any number of scanners: each of them keeps a    *)
(* state whose entries and position agree, and writes it as a whole.  What *)
(* a scanner submits has its entry already.                                *)

News(st) == {st.prefix[i] : i \in st.activation + 1 .. Len(st.prefix)}
Faithful(st) == {r \in Requests : st.entry[r] # "none"} = News(st)

FaithfulInv ==
  /\ TypeInv
  /\ Known => Faithful(state)
  /\ \A p \in Scanners :
       /\ mem[p] # NoState => Faithful(mem[p])
       /\ pc[p] = "submit" => mem[p].entry[Last(mem[p].prefix)] # "none"

(* The chunks behind the activation, written as a sequence.                *)
LEMMA NewsOfState ==
  ASSUME NEW st, Placed(st)
  PROVE  LET news == SubSeq(st.prefix, st.activation + 1, Len(st.prefix))
         IN {news[i] : i \in DOMAIN news} = News(st)
<1> DEFINE a == st.activation
           n == Len(st.prefix)
           news == SubSeq(st.prefix, a + 1, n)
<1>1. st.prefix \in Seq(Chunks) /\ a \in Nat /\ n \in Nat /\ a <= n
  BY DEF Placed, States
<1>2. DOMAIN news = 1 .. n - a /\ \A i \in 1 .. n - a : news[i] = st.prefix[a + i]
  BY <1>1
<1>3. \A i \in 1 .. n - a : news[i] \in News(st)
  <2> SUFFICES ASSUME NEW i \in 1 .. n - a PROVE news[i] \in News(st)
    OBVIOUS
  <2>1. a + i \in a + 1 .. n /\ news[i] = st.prefix[a + i]
    BY <1>1, <1>2
  <2> HIDE DEF news
  <2> QED BY <2>1 DEF News
<1>4. ASSUME NEW j \in a + 1 .. n PROVE \E i \in 1 .. n - a : news[i] = st.prefix[j]
  <2>1. j - a \in 1 .. n - a /\ a + (j - a) = j
    BY <1>1, <1>4
  <2>2. news[j - a] = st.prefix[j]
    BY <1>2, <2>1
  <2> HIDE DEF news
  <2> QED BY <2>1, <2>2
<1> HIDE DEF news
<1>5. \A i \in DOMAIN news : news[i] \in News(st)
  BY <1>2, <1>3
<1>6. \A x \in News(st) : \E i \in DOMAIN news : news[i] = x
  BY <1>2, <1>4 DEF News
<1>7. {news[i] : i \in DOMAIN news} = News(st)
  BY <1>5, <1>6
<1> QED BY <1>7 DEF news

(* Settling unknown submissions takes no entry away.                       *)
LEMMA SettledFaithful ==
  ASSUME NEW st, Placed(st), Faithful(st)
  PROVE  Faithful(SettleUnknown(st))
<1>1. /\ SettleUnknown(st).prefix = st.prefix
      /\ SettleUnknown(st).activation = st.activation
      /\ \A r \in Requests : SettleUnknown(st).entry[r] =
           IF st.entry[r] = "submitting" THEN "ambiguous" ELSE st.entry[r]
  BY DEF Placed, States, SettleUnknown
<1>2. News(SettleUnknown(st)) = News(st)
  BY <1>1 DEF News
<1> QED BY <1>1, <1>2 DEF Faithful

(* Moving on adds the chunk that is passed.                                *)
LEMMA MovedNews ==
  ASSUME NEW st, Placed(st), NEW c \in Chunks, NEW new,
         new.prefix = Append(st.prefix, c), new.activation = st.activation
  PROVE  News(new) = News(st) \cup {c}
<1> DEFINE a == st.activation
           n == Len(st.prefix)
           longer == Append(st.prefix, c)
<1>1. st.prefix \in Seq(Chunks) /\ a \in Nat /\ n \in Nat /\ a <= n
  BY DEF Placed, States
<1>2. Len(longer) = n + 1 /\ longer[n + 1] = c /\ \A i \in 1 .. n : longer[i] = st.prefix[i]
  BY <1>1
<1>3. a + 1 .. n + 1 = (a + 1 .. n) \cup {n + 1} /\ a + 1 .. n \subseteq 1 .. n
  BY <1>1
<1> HIDE DEF longer
<1>4. News(new) = {longer[i] : i \in a + 1 .. n + 1}
  BY <1>2 DEF News, longer
<1>5. \A i \in a + 1 .. n : longer[i] = st.prefix[i]
  BY <1>2, <1>3
<1>6. {longer[i] : i \in a + 1 .. n} = News(st)
  BY <1>5 DEF News
<1> HIDE DEF a, n
<1>7. {longer[i] : i \in a + 1 .. n + 1} = {longer[i] : i \in a + 1 .. n} \cup {longer[n + 1]}
  BY <1>3
<1> QED BY <1>2, <1>4, <1>6, <1>7

LEMMA AdvancedFields ==
  ASSUME TypeInv, NEW p \in Scanners, pc[p] = "scan", AtRecord(p)
  PROVE  /\ Placed(mem[p]) /\ Upcoming(p) \in Requests /\ Placed(Advanced(p))
         /\ Advanced(p).prefix = Append(mem[p].prefix, Upcoming(p))
         /\ Advanced(p).activation = mem[p].activation
         /\ Advanced(p).entry = mem[p].entry
<1>1. Placed(mem[p]) /\ Upcoming(p) \in Requests
  BY LoadedState, UnreadChunks DEF Holding
<1>2. Placed(Advanced(p))
  BY <1>1, MovedState DEF Advanced, Chunks
<1> QED BY <1>1, <1>2 DEF Advanced, Placed, States

(* Writing a faithful state keeps everything faithful.                     *)
LEMMA PersistFaithful ==
  ASSUME FaithfulInv, TypeInv', NEW p \in Scanners, NEW new, new \in States, Faithful(new),
         NEW done, Persist(p, new, done),
         done = "submit" => new.entry[Last(new.prefix)] # "none"
  PROVE  FaithfulInv'
<1>1. mem \in [Scanners -> States \cup {NoState}] /\ pc \in [Scanners -> Labels]
  BY DEF FaithfulInv, TypeInv, TypeOK
<1>2. Known' => Faithful(state)'
  BY DEF Persist, FaithfulInv, Known, Faithful, News
<1>3. ASSUME NEW q \in Scanners
      PROVE  /\ mem'[q] # NoState => Faithful(mem'[q])
             /\ pc'[q] = "submit" => mem'[q].entry[Last(mem'[q].prefix)] # "none"
  <2>1. CASE q = p /\ mem' = [mem EXCEPT ![p] = new] /\ Goto(p, done)
    <3>1. mem'[q] = new /\ pc'[q] = done
      BY <1>1, <2>1 DEF Goto
    <3> QED BY <3>1
  <2>2. CASE q # p \/ (UNCHANGED mem /\ Goto(p, "idle"))
    <3>1. mem'[q] = mem[q] /\ pc'[q] \in {pc[q], "idle"}
      BY <1>1, <2>2 DEF Persist, Goto
    <3> QED BY <3>1 DEF FaithfulInv
  <2> QED BY <2>1, <2>2 DEF Persist
<1> QED BY <1>2, <1>3 DEF FaithfulInv, Faithful, News

LEMMA ScanFaithful ==
  ASSUME FaithfulInv, NEW p \in Scanners, Scan(p)
  PROVE  FaithfulInv'
<1>. TypeInv /\ TypeInv'
  BY ScanType DEF FaithfulInv
<1>. pc[p] \in Holding => Placed(mem[p]) /\ mem[p] \in States /\ Faithful(mem[p])
  BY LoadedState DEF FaithfulInv, Placed, TypeInv
<1>1. CASE Create(p) \/ Refuse(p) \/ Compare(p) \/ Finish(p)
  <2>1. /\ UNCHANGED mem /\ (UNCHANGED state \/ state' = Unreadable)
        /\ \A q \in Scanners : pc'[q] = "submit" => pc[q] = "submit"
    BY <1>1 DEF Create, Refuse, Compare, Finish, Step, Goto, TypeInv, TypeOK
  <2> QED BY <2>1 DEF FaithfulInv, Known, Faithful, News
<1>2. CASE Activate(p)
  <2>1. /\ UNCHANGED mem /\ state' = NewState(raw[p])
        /\ \A q \in Scanners : pc'[q] = "submit" => pc[q] = "submit"
    BY <1>2 DEF Activate, Step, Goto, TypeInv, TypeOK
  <2>2. Len(raw[p]) \in Nat
    BY DEF TypeInv, TypeOK
  <2>3. Faithful(NewState(raw[p]))
    BY <2>2 DEF Faithful, News, NewState
  <2>4. Faithful(state)'
    BY <2>1, <2>3 DEF Faithful, News
  <2> QED BY <2>1, <2>4 DEF FaithfulInv, Faithful, News
<1>3. CASE Load(p)
  <2>1. /\ state \in States /\ Known /\ UNCHANGED state
        /\ mem' = [mem EXCEPT ![p] = SettleUnknown(state)]
    BY <1>3 DEF Load, Known, TypeInv, TypeOK
  <2>2. Placed(state)
    BY <2>1 DEF Placed, TypeInv, TypeOK
  <2>3. Faithful(SettleUnknown(state))
    BY <2>1, <2>2, SettledFaithful DEF FaithfulInv
  <2>4. \A q \in Scanners : mem'[q] = IF q = p THEN SettleUnknown(state) ELSE mem[q]
    BY <2>1 DEF TypeInv, TypeOK
  <2>5. \A q \in Scanners : pc'[q] = "submit" => pc[q] = "submit" /\ q # p
    BY <1>3 DEF Load, Goto, TypeInv, TypeOK
  <2>6. Known' => Faithful(state)'
    BY <2>1 DEF FaithfulInv, Known, Faithful, News
  <2>7. \A q \in Scanners : mem'[q] # NoState => Faithful(mem'[q])
    BY <2>3, <2>4 DEF FaithfulInv
  <2>8. \A q \in Scanners : pc'[q] = "submit" => mem'[q].entry[Last(mem'[q].prefix)] # "none"
    BY <2>4, <2>5 DEF FaithfulInv
  <2> QED BY <2>6, <2>7, <2>8 DEF FaithfulInv, Faithful, News
<1>4. CASE Recover(p) \/ RecordOutcome(p)
  BY <1>4, PersistFaithful DEF Recover, RecordOutcome, Holding
<1>5. CASE Flag(p)
  <2> DEFINE new == [mem[p] EXCEPT !.history = "ambiguous"]
  <2>1. /\ new \in States /\ new.prefix = mem[p].prefix /\ new.activation = mem[p].activation
        /\ new.entry = mem[p].entry
    BY <1>5 DEF Flag, Holding, States
  <2>2. Persist(p, new, "idle") /\ Faithful(mem[p])
    BY <1>5 DEF Flag, Holding
  <2> HIDE DEF new
  <2>3. Faithful(new)
    BY <2>1, <2>2 DEF Faithful, News
  <2> QED BY <2>1, <2>2, <2>3, PersistFaithful
<1>6. CASE Skip(p)
  <2>1. /\ pc[p] = "scan" /\ AtRecord(p) /\ mem[p].entry[Upcoming(p)] # "none"
        /\ Persist(p, Advanced(p), "scan")
    BY <1>6 DEF Skip
  <2>2. News(Advanced(p)) = News(mem[p]) \cup {Upcoming(p)}
    BY <2>1, AdvancedFields, MovedNews DEF Chunks
  <2>3. Faithful(Advanced(p))
    BY <2>1, <2>2, AdvancedFields DEF Faithful, Holding
  <2>4. Advanced(p) \in States
    BY <2>1, AdvancedFields DEF Placed
  <2> QED BY <2>1, <2>3, <2>4, PersistFaithful
<1>7. CASE Mark(p)
  <2> DEFINE r == Upcoming(p)
             new == [Advanced(p) EXCEPT !.entry[r] = "submitting"]
  <2>1. /\ pc[p] = "scan" /\ AtRecord(p) /\ Persist(p, new, "submit")
    BY <1>7 DEF Mark
  <2>2. /\ Placed(mem[p]) /\ r \in Requests /\ Placed(Advanced(p))
        /\ Advanced(p).prefix = Append(mem[p].prefix, r)
        /\ Advanced(p).activation = mem[p].activation
        /\ Advanced(p).entry = mem[p].entry
    BY <2>1, AdvancedFields
  <2> HIDE DEF r
  <2>3. /\ new.prefix = Append(mem[p].prefix, r) /\ new.activation = mem[p].activation
        /\ new.entry = [mem[p].entry EXCEPT ![r] = "submitting"]
    BY <2>2 DEF Placed, States
  <2>4. new \in States
    BY <2>2, MarkedState DEF Statuses, Placed
  <2> HIDE DEF new
  <2>5. News(new) = News(mem[p]) \cup {r}
    BY <2>2, <2>3, MovedNews DEF Chunks
  <2>6. mem[p].entry \in [Requests -> Statuses]
    BY <2>2 DEF Placed, States
  <2>7. \A q \in Requests : new.entry[q] # "none" <=> mem[p].entry[q] # "none" \/ q = r
    BY <2>2, <2>3, <2>6
  <2>8. Faithful(mem[p])
    BY <2>1 DEF Holding
  <2>9. Faithful(new)
    BY <2>2, <2>5, <2>7, <2>8 DEF Faithful
  <2>10. Last(new.prefix) = r
    BY <2>2, <2>3, MovedState DEF Last, Placed, States, Chunks
  <2>11. new.entry[Last(new.prefix)] # "none"
    BY <2>2, <2>7, <2>10
  <2> QED BY <2>1, <2>4, <2>9, <2>11, PersistFaithful
<1>8. CASE Submit(p)
  <2> DEFINE r == Last(mem[p].prefix)
  <2>1. /\ pc[p] = "submit" /\ pc' = [pc EXCEPT ![p] = "record"] /\ UNCHANGED state
    BY <1>8 DEF Submit, Step, Goto
  <2>2. Placed(mem[p]) /\ Faithful(mem[p]) /\ r \in Requests /\ mem[p].entry[r] # "none"
    BY <2>1 DEF Holding, TypeInv, FaithfulInv
  <2>3. PICK outcome \in {"submitted", "ambiguous"} :
          mem' = [mem EXCEPT ![p] = [@ EXCEPT !.entry[r] = outcome]]
    BY <1>8 DEF Submit
  <2>4. PICK new : new = [mem[p] EXCEPT !.entry[r] = outcome]
    OBVIOUS
  <2>5. \A q \in Scanners : mem'[q] = IF q = p THEN new ELSE mem[q]
    BY <2>3, <2>4 DEF TypeInv, TypeOK
  <2> HIDE DEF r
  <2>6. /\ new.prefix = mem[p].prefix /\ new.activation = mem[p].activation
        /\ \A q \in Requests : new.entry[q] = IF q = r THEN outcome ELSE mem[p].entry[q]
    BY <2>2, <2>4 DEF Placed, States
  <2>7. News(new) = News(mem[p])
    BY <2>6 DEF News
  <2>8. Faithful(new)
    BY <2>2, <2>6, <2>7 DEF Faithful
  <2>9. Known' => Faithful(state)'
    BY <2>1 DEF FaithfulInv, Known, Faithful, News
  <2>10. \A q \in Scanners : mem'[q] # NoState => Faithful(mem'[q])
    BY <2>5, <2>8 DEF FaithfulInv
  <2>11. \A q \in Scanners : pc'[q] = "submit" => pc[q] = "submit" /\ q # p
    BY <2>1 DEF TypeInv, TypeOK
  <2>12. \A q \in Scanners : pc'[q] = "submit" => mem'[q].entry[Last(mem'[q].prefix)] # "none"
    BY <2>5, <2>11 DEF FaithfulInv
  <2> QED BY <2>9, <2>10, <2>12 DEF FaithfulInv, Faithful, News
<1> QED
  BY <1>1, <1>2, <1>3, <1>4, <1>5, <1>6, <1>7, <1>8 DEF Scan

LEMMA NextFaithful == FaithfulInv /\ [Next]_vars => FaithfulInv'
<1> SUFFICES ASSUME FaithfulInv, [Next]_vars PROVE FaithfulInv'
  OBVIOUS
<1>1. TypeInv /\ TypeInv'
  BY NextType DEF FaithfulInv
<1>2. ASSUME UNCHANGED <<state, mem>>,
             \A p \in Scanners : pc'[p] \in {pc[p], "idle", "opened"}
      PROVE  FaithfulInv'
  BY <1>1, <1>2 DEF FaithfulInv, Known, Faithful, News
<1>3. ASSUME NEW p \in Scanners, Open(p) \/ Crash(p) PROVE FaithfulInv'
  BY <1>1, <1>2, <1>3 DEF Open, Crash, Step, Goto, TypeInv, TypeOK
<1>4. CASE Tear \/ Repair \/ (\E r \in Requests : Settle(r)) \/ UNCHANGED vars
  BY <1>2, <1>4 DEF Tear, Repair, Settle, vars
<1> QED BY <1>3, <1>4, ScanFaithful DEF Next

(* No settled request is passed over without an entry and none gets one    *)
(* that was settled before the activation only, however many scanners run  *)
(* at a time, fail or crash (_scan and _persist_state).                    *)
THEOREM NothingIsSkipped == Spec => []NoneIsSkipped
<1>1. Init => FaithfulInv
  BY InitType DEF Init, FaithfulInv, Known
<1>2. FaithfulInv => NoneIsSkipped
  <2> SUFFICES ASSUME FaithfulInv, Known PROVE NoneIsSkipped
    BY DEF NoneIsSkipped
  <2>1. Placed(state) /\ Faithful(state)
    BY DEF FaithfulInv, TypeInv, TypeOK, Known, Placed
  <2> QED BY <2>1, NewsOfState DEF NoneIsSkipped, Faithful
<1> QED BY <1>1, <1>2, NextFaithful, PTL DEF Spec
=============================================================================
