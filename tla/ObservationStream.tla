-------------------------- MODULE ObservationStream ---------------------------
(***************************************************************************)
(* The observation store of the workflow (workflow_observability.py): for  *)
(* every run the runner starts a sink process that appends what it is told *)
(* to one file; servers replay the file to followers over connections that *)
(* break, and the panel derives from it which run is current and what the  *)
(* sanctuary page shows (sanctuary_projection.py).  Sinks die in the       *)
(* middle of a write, writes fail, and the sink of a killed runner goes on *)
(* draining its pipe while the next run has started.                       *)
(***************************************************************************)
EXTENDS Naturals, Sequences, FiniteSets, SequencesExt

CONSTANTS
  LastRun,      \* runs are numbered in the order they are started
  Task,         \* the request of each run
  Frames,       \* what a runner may forward to its sink in this instance
  MaxFrames,    \* frames forwarded by one run
  Wanted,       \* the runs the follower asks for
  Limit,        \* records replayed by one read
  MaxFaults,    \* sinks that die, writes that fail, runners that are killed
  MaxDrops      \* connections that break

Runs == 1..LastRun
NoRun == 0

(* Codex lines by what the projection makes of them, and frames that it    *)
(* cannot read.                                                            *)
Lines == {"turn.started", "turn.completed", "command.started", "command.completed",
          "command.failed", "file.completed", "unreadable"}

ASSUME ObservationAssumption ==
  /\ LastRun \in Nat /\ Frames \subseteq Lines /\ Wanted \subseteq Runs
  /\ DOMAIN Task = Runs
  /\ {MaxFrames, MaxFaults, MaxDrops} \subseteq Nat /\ Limit \in Nat \ {0}

VARIABLES
  file,       \* the lines of the store
  runner,     \* what each run's runner does
  sink,       \* the sink of each run
  server,     \* one connection: its cursor and what is on the wire
  got,        \* what the follower has received
  faults, drops

store == <<file, runner, sink>>
reading == <<server, got>>
vars == <<store, reading, faults, drops>>

Kinds == Lines \cup {"execution.started", "process.completed", "source.warning"}

(* A line is a whole record with its newline ("ended") or without it       *)
(* ("whole"), a fragment without newline ("part"), or anything else        *)
(* ("junk").  Only the last line can lack its newline.                     *)
Line(state, record) == [state |-> state, record |-> record]
Record(seq, r, kind) == [seq |-> seq, run |-> r, kind |-> kind]
NoRecord == Record(0, NoRun, "none")

NoSink == [pc |-> "off", next |-> 0, record |-> NoRecord, given |-> <<>>,
           ok |-> TRUE, completed |-> FALSE, alone |-> TRUE, clean |-> TRUE]
NoConnection == [cursor |-> 0, wire |-> <<>>]

Init ==
  /\ file = <<>>
  /\ runner = [r \in Runs |-> "off"] /\ sink = [r \in Runs |-> NoSink]
  /\ server = NoConnection /\ got = <<>> /\ faults = 0 /\ drops = 0

-----------------------------------------------------------------------------
(* Reading the file: unfinished and unreadable lines are passed over, and  *)
(* so is a record whose sequence does not exceed those before it.          *)

Sequences == {file[i].record.seq : i \in {j \in DOMAIN file : file[j].state = "ended"}}
Highest == Max({0} \cup Sequences)

Readable(line, seen) ==
  line.state = "ended" /\ (seen # <<>> => line.record.seq > Last(seen).seq)

Read(lines) ==
  LET Seen[i \in 0..Len(lines)] ==
        IF i = 0 THEN <<>>
        ELSE IF Readable(lines[i], Seen[i - 1]) THEN Append(Seen[i - 1], lines[i].record)
        ELSE Seen[i - 1]
  IN Seen[Len(lines)]
Visible == Read(file)

(* Those of the records that are in a set, in their order (SelectSeq, with *)
(* a set in the place of the test).                                        *)
Among(recs, set) ==
  LET Taken[i \in 0..Len(recs)] ==
        IF i = 0 THEN <<>>
        ELSE IF recs[i] \in set THEN Append(Taken[i - 1], recs[i]) ELSE Taken[i - 1]
  IN Taken[Len(recs)]

Replay(after) ==
  LET seen == Visible
  IN Among(seen, {rec \in ToSet(seen) : rec.seq > after /\ rec.run \in Wanted})

-----------------------------------------------------------------------------
(* The runner of a run.  It forwards frames to its sink, tells it that the *)
(* process completed and closes the pipe; or it is killed.  What is in the *)
(* pipe is chosen when the sink takes it.                                  *)

Working(r) == sink[r].pc \notin {"off", "ended", "dead"}
Disturb == faults < MaxFaults /\ faults' = faults + 1

Begin(r) ==
  /\ runner[r] = "off" /\ \A q \in Runs : q < r => runner[q] \in {"closed", "killed"}
  /\ \A q \in Runs : runner[q] = "closed" => ~Working(q)      \* it is waited for
  /\ runner' = [runner EXCEPT ![r] = "running"]
  /\ sink' = [q \in Runs |->
               IF q = r THEN [NoSink EXCEPT !.pc = "opening",
                                            !.alone = \A p \in Runs : ~Working(p)]
               ELSE [sink[q] EXCEPT !.alone = @ /\ ~Working(q)]]
  /\ UNCHANGED <<file, reading, faults, drops>>

Complete(r) ==
  /\ runner[r] = "running" /\ runner' = [runner EXCEPT ![r] = "closed"]
  /\ UNCHANGED <<file, sink, reading, faults, drops>>

Kill(r) ==
  /\ runner[r] = "running" /\ Disturb /\ runner' = [runner EXCEPT ![r] = "killed"]
  /\ UNCHANGED <<file, sink, reading, drops>>

-----------------------------------------------------------------------------
(* The sink.                                                               *)

Set(r, new) == sink' = [sink EXCEPT ![r] = new]
Give(s, r, kind) == [s EXCEPT !.pc = "mending", !.record = Record(s.next, r, kind),
                              !.given = Append(@, kind)]

(* Mutant: the sequence of the last record is used again.                  *)
OpenAtHighest(r) ==
  /\ sink[r].pc = "opening"
  /\ Set(r, Give([sink[r] EXCEPT !.next = Highest,
                                 !.clean = file = <<>> \/ Last(file).state # "whole"],
                 r, "execution.started"))
  /\ UNCHANGED <<file, runner, reading, faults, drops>>

(* The next sequence is found by reading the file once, at the start, and  *)
(* the first event says that the run has started.                          *)
Open(r) ==
  /\ sink[r].pc = "opening"
  /\ Set(r, Give([sink[r] EXCEPT !.next = Highest + 1,
                                 !.clean = file = <<>> \/ Last(file).state # "whole"],
                 r, "execution.started"))
  /\ UNCHANGED <<file, runner, reading, faults, drops>>

(* The next frame: a line while there is any, the completion at the end of *)
(* a run that was not killed.  Each becomes one event.                     *)
Projected(line) == IF line = "unreadable" THEN "source.warning" ELSE line

Pending(r) ==
  {line \in Frames : ~sink[r].completed /\ Len(sink[r].given) <= MaxFrames}
    \cup {line \in {"process.completed"} : runner[r] = "closed" /\ ~sink[r].completed}

Take(r, line) ==
  /\ sink[r].pc = "reading" /\ line \in Pending(r)
  /\ Set(r, Give([sink[r] EXCEPT !.completed = (line = "process.completed")],
                 r, Projected(line)))
  /\ UNCHANGED <<file, runner, reading, faults, drops>>

(* At the end of the input a completion that was not seen is a warning.    *)
EndOfInput(r) ==
  /\ sink[r].pc = "reading" /\ (runner[r] = "killed" \/ sink[r].completed)
  /\ Set(r, IF sink[r].completed THEN [sink[r] EXCEPT !.pc = "ended"]
            ELSE Give([sink[r] EXCEPT !.completed = TRUE, !.ok = FALSE], r, "source.warning"))
  /\ UNCHANGED <<file, runner, reading, faults, drops>>

(* An append first gives a last line without newline its newline, which    *)
(* makes a whole record readable after all.                                *)
Mended ==
  IF file = <<>> THEN file
  ELSE CASE Last(file).state = "part"  -> [file EXCEPT ![Len(file)].state = "junk"]
         [] Last(file).state = "whole" -> [file EXCEPT ![Len(file)].state = "ended"]
         [] OTHER -> file

Mend(r) ==
  /\ sink[r].pc = "mending" /\ file' = Mended
  /\ Set(r, [sink[r] EXCEPT !.pc = "writing"])
  /\ UNCHANGED <<runner, reading, faults, drops>>

(* What is written joins a line that still lacks its newline.              *)
Unended == file # <<>> /\ Last(file).state \in {"whole", "part"}
Written(r, state) ==
  IF Unended
  THEN [file EXCEPT ![Len(file)] =
          Line(IF state = "ended" THEN "junk" ELSE "part", NoRecord)]
  ELSE Append(file, Line(state, IF state = "part" THEN NoRecord ELSE sink[r].record))
Left(r) == {file} \cup {Written(r, state) : state \in {"part", "whole", "ended"}}

(* Mutant: a failed write uses up its sequence and is forgotten.           *)
WriteQuietly(r) ==
  /\ sink[r].pc = "writing"
  /\ \/ file' = Written(r, "ended") /\ UNCHANGED faults
     \/ Disturb /\ file' \in Left(r)
  /\ Set(r, [sink[r] EXCEPT !.pc = "reading", !.next = @ + 1, !.record = NoRecord])
  /\ UNCHANGED <<runner, reading, drops>>

Write(r) ==
  /\ sink[r].pc = "writing"
  /\ \/ /\ file' = Written(r, "ended") /\ UNCHANGED faults
        /\ Set(r, [sink[r] EXCEPT !.pc = "reading", !.next = @ + 1, !.record = NoRecord])
     \/ /\ Disturb /\ file' \in Left(r)
        /\ Set(r, [sink[r] EXCEPT !.pc = "reading", !.ok = FALSE, !.record = NoRecord])
  /\ UNCHANGED <<runner, reading, drops>>

(* A sink dies, or its runner stops it when it has waited long enough.     *)
Die(r) ==
  /\ Working(r) /\ Disturb
  /\ file' \in IF sink[r].pc = "writing" THEN Left(r) ELSE {file}
  /\ Set(r, [sink[r] EXCEPT !.pc = "dead", !.ok = FALSE, !.record = NoRecord])
  /\ UNCHANGED <<runner, reading, drops>>

Sink(r) ==
  \/ Open(r) \/ EndOfInput(r) \/ Mend(r) \/ Write(r)
  \/ \E line \in Lines \cup {"process.completed"} : Take(r, line)

-----------------------------------------------------------------------------
(* One connection of a follower.  The server reads what is new and sends   *)
(* it record by record, moving its cursor; a follower that reconnects      *)
(* names the last record it has received.  A read is taken up when the     *)
(* records of the one before have arrived.                                 *)

Serve ==
  LET found == Replay(server.cursor)
      batch == SubSeq(found, 1, IF Len(found) < Limit THEN Len(found) ELSE Limit)
  IN /\ server.wire = <<>> /\ found # <<>>
     /\ server' = [cursor |-> Last(batch).seq, wire |-> batch]
     /\ UNCHANGED <<store, got, faults, drops>>

Receive ==
  /\ server.wire # <<>> /\ got' = Append(got, Head(server.wire))
  /\ server' = [server EXCEPT !.wire = Tail(@)]
  /\ UNCHANGED <<store, faults, drops>>

LastReceived == IF got = <<>> THEN 0 ELSE Last(got).seq

(* Mutant: the server goes on where it stopped.                            *)
ReconnectAtCursor ==
  /\ drops < MaxDrops /\ drops' = drops + 1
  /\ server' = [NoConnection EXCEPT !.cursor = server.cursor]
  /\ UNCHANGED <<store, got, faults>>

Reconnect ==
  /\ drops < MaxDrops /\ drops' = drops + 1
  /\ server' = [NoConnection EXCEPT !.cursor = LastReceived]
  /\ UNCHANGED <<store, got, faults>>

Following == Serve \/ Receive

Next ==
  \/ \E r \in Runs : Begin(r) \/ Complete(r) \/ Kill(r) \/ Die(r) \/ Sink(r)
  \/ Following \/ Reconnect

Spec == Init /\ [][Next]_vars

-----------------------------------------------------------------------------
(* What the panel makes of the records of one request.                     *)

NoWindow == [run |-> NoRun, retired |-> {}, latest |-> 0, started |-> FALSE,
              completed |-> FALSE, ambiguous |-> FALSE, doubted |-> FALSE, events |-> <<>>]

IsStart(rec) == rec.kind = "execution.started"
Kept(w, rec) ==
  [w EXCEPT !.events = Append(@, rec.kind),
            !.completed = @ \/ rec.kind = "process.completed"]

(* Mutant: any record of another run makes that run current.               *)
StepByLatest(w, rec) ==
  IF rec.run = w.run THEN Kept(w, rec)
  ELSE Kept([NoWindow EXCEPT !.run = rec.run, !.started = TRUE], rec)

(* A start of a newer run retires the one before; one of a retired run is  *)
(* ignored, and one that is not newer than the latest start, or a record   *)
(* of a run that has not started, makes the current run ambiguous.  Runs   *)
(* are numbered in the order of their start times.                         *)
Step(w, rec) ==
  LET r == rec.run
      newer == [NoWindow EXCEPT !.run = r, !.latest = r, !.started = TRUE, !.doubted = w.doubted,
                  !.retired = w.retired \cup ({w.run} \ {NoRun})]
  IN CASE IsStart(rec) /\ r \in w.retired -> [w EXCEPT !.doubted = TRUE]
       [] IsStart(rec) /\ r \notin w.retired /\ r < w.latest ->
            [w EXCEPT !.ambiguous = TRUE, !.doubted = TRUE]
       [] IsStart(rec) /\ r \notin w.retired /\ r >= w.latest /\ r # w.run -> Kept(newer, rec)
       [] IsStart(rec) /\ r \notin w.retired /\ r >= w.latest /\ r = w.run ->
            Kept([w EXCEPT !.latest = r, !.started = TRUE], rec)
       [] ~IsStart(rec) /\ w.run = NoRun -> Kept([w EXCEPT !.run = r], rec)
       [] ~IsStart(rec) /\ w.run = r -> Kept(w, rec)
       [] ~IsStart(rec) /\ w.run \notin {NoRun, r} ->
            IF r \in w.retired THEN w ELSE [w EXCEPT !.ambiguous = TRUE]

Window(seen, task) ==
  LET W[i \in 0..Len(seen)] ==
        IF i = 0 THEN NoWindow
        ELSE IF Task[seen[i].run] = task THEN Step(W[i - 1], seen[i]) ELSE W[i - 1]
  IN IF W[Len(seen)].ambiguous THEN NoWindow ELSE W[Len(seen)]

(* The pose of the sanctuary while the task is running: a store with any   *)
(* line that is passed over is not trusted.                                *)
Activity(events) == SelectSeq(events, LAMBDA kind : kind \notin {"source.warning", "process.completed"})

(* Commands are told apart by their item; one is open here at a time.      *)
CommandOpen(events) ==
  \E i \in DOMAIN events :
    /\ events[i] = "command.started"
    /\ \A j \in (i + 1)..Len(events) : events[j] \notin
          {"command.completed", "command.failed", "turn.started", "turn.completed"}

Pose(w) ==
  LET seen == Activity(w.events) IN
  IF w.run = NoRun \/ ~w.started \/ w.doubted \/ Len(Visible) # Len(file) THEN "uncertain"
  ELSE IF w.completed THEN "settled"
  ELSE IF seen = <<>> THEN "uncertain"
  ELSE IF \/ Last(seen) = "turn.completed"
          \/ Last(seen) = "command.failed" /\ ~CommandOpen(seen) THEN "settled"
  ELSE "working"

-----------------------------------------------------------------------------
(* Every variable holds what the code puts there: only the last line lacks *)
(* its newline, and what is about to be written has a valid sequence       *)
(* (581-587), never ahead of the events that were given.                   *)
TypeOK ==
  /\ \A i \in DOMAIN file : /\ file[i].record.run \in Runs \cup {NoRun}
                            /\ file[i].state \in {"ended", "junk", "whole", "part"}
                            /\ i < Len(file) => file[i].state \in {"ended", "junk"}
  /\ \A r \in Runs : sink[r].pc \in {"mending", "writing"} =>
       sink[r].record \in [seq : 1..(LastRun * (MaxFrames + 3)), run : {r}, kind : Kinds]
  /\ got \in Seq([seq : Nat, run : Wanted, kind : Kinds])

(* Replay and reconnection are exact (691-760, 905-1000): whatever is torn *)
(* or lost, a follower has received the readable records of its runs in    *)
(* order, without a gap and none twice, up to the last one it has.         *)
ReplayIsExact ==
  LET seen == Visible
  IN got = Among(seen, {rec \in ToSet(seen) : rec.run \in Wanted /\ rec.seq <= LastReceived})

(* A sink that says "ok" (1020-1115) has left everything it was given to   *)
(* every reader, provided that it was the only writer and did not find a   *)
(* whole record without its newline: that one takes the sequence of the    *)
(* sink's first event, which then nobody sees.                             *)
Reliable(r) == sink[r].pc = "ended" /\ sink[r].ok /\ sink[r].alone /\ sink[r].clean
OkIsReplayed ==
  LET seen == Visible IN
  \A r \in Runs : Reliable(r) =>
    LET mine == Among(seen, {rec \in ToSet(seen) : rec.run = r}) IN
    [i \in DOMAIN mine |-> mine[i].kind] = sink[r].given

(* However late older sinks write (762-833), a window never names a run    *)
(* when a younger run of its task has a readable start, and what the       *)
(* sanctuary shows at work is not a run that is known to have ended.       *)
CurrentIsNewest ==
  LET seen == Visible IN
  \A task \in {Task[r] : r \in Runs} :
    LET w == Window(seen, task) IN
    w.run # NoRun =>
      /\ \A i \in DOMAIN seen :
           IsStart(seen[i]) /\ Task[seen[i].run] = task => seen[i].run <= w.run
      /\ Pose(w) = "working" => ~Reliable(w.run)
=============================================================================
