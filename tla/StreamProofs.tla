----------------------------- MODULE StreamProofs ------------------------------
(***************************************************************************)
(* Proofs about ObservationStream, for any number of runs, frames, readers'*)
(* limits, deaths, failed writes and broken connections: what a follower   *)
(* has received is exact, an "ok" sink has lost nothing, and the run that  *)
(* is shown as current is the newest that is known to have started.        *)
(***************************************************************************)
EXTENDS ObservationStream, TLAPS, FiniteSetTheorems, WellFoundedInduction

USE ObservationAssumption

-----------------------------------------------------------------------------
(* Folds.  A reader goes over a sequence with a function defined by        *)
(* recursion on the position; that there is one, and what it preserves, is *)
(* shown by the least position at which it would fail.                     *)

LEMMA LeastOf ==
  ASSUME NEW S \in SUBSET Nat, S # {}
  PROVE  \E i \in S : \A j \in S : i <= j
<1>1. PICK i \in S : \A j \in S : ~(<<j, i>> \in OpToRel(<, Nat))
  BY NatLessThanWellFounded, WFMin, Zenon
<1>2. \A j \in S : ~(j < i)
  <2>1. \A j \in S : j \in Nat /\ i \in Nat
    OBVIOUS
  <2> QED BY <1>1, <2>1, Zenon DEF OpToRel
<1> QED BY <1>2

(* A set of positions that begins at zero and goes on to the next position *)
(* holds them all.                                                         *)
LEMMA UpToTheLast ==
  ASSUME NEW n \in Nat, NEW Q, 0 \in Q, \A i \in 1..n : i - 1 \in Q => i \in Q
  PROVE  \A i \in 0..n : i \in Q
<1> DEFINE Bad == {i \in 0..n : i \notin Q}
<1> SUFFICES ASSUME Bad # {} PROVE FALSE
  OBVIOUS
<1>1. Bad \in SUBSET Nat
  OBVIOUS
<1>2. PICK i \in Bad : \A j \in Bad : i <= j
  <2> HIDE DEF Bad
  <2> QED BY <1>1, LeastOf
<1>3. i \in 1..n /\ i - 1 \in 0..n /\ i - 1 \notin Bad
  BY <1>2
<1> QED BY <1>2, <1>3

FoldOf(f, S, n, first, step) ==
  f \in [0..n -> S] /\ f[0] = first /\ \A i \in 1..n : f[i] = step[i][f[i - 1]]

LEMMA FoldExists ==
  ASSUME NEW S, NEW n \in Nat, NEW first \in S, NEW step \in [1..n -> [S -> S]]
  PROVE  \E f : FoldOf(f, S, n, first, step)
<1> DEFINE Good(k) == \E f \in [0..k -> S] :
                        f[0] = first /\ \A i \in 1..k : f[i] = step[i][f[i - 1]]
           Q == {k \in 0..n : Good(k)}
<1>1. Good(0)
  <2> DEFINE f == [i \in 0..0 |-> first]
  <2>1. f \in [0..0 -> S] /\ f[0] = first /\ \A i \in 1..0 : f[i] = step[i][f[i - 1]]
    OBVIOUS
  <2> QED BY <2>1
<1>2. ASSUME NEW k \in 1..n, Good(k - 1) PROVE Good(k)
  <2>1. PICK f \in [0..(k - 1) -> S] :
          f[0] = first /\ \A i \in 1..(k - 1) : f[i] = step[i][f[i - 1]]
    BY <1>2
  <2> DEFINE g == [i \in 0..k |-> IF i = k THEN step[k][f[k - 1]] ELSE f[i]]
  <2>2. g \in [0..k -> S]
    OBVIOUS
  <2>3. g[0] = first
    BY <2>1
  <2>4. ASSUME NEW i \in 1..k PROVE g[i] = step[i][g[i - 1]]
    <3>1. CASE i = k
      BY <3>1
    <3>2. CASE i # k
      BY <3>2, <2>1
    <3> QED BY <3>1, <3>2
  <2> QED BY <2>2, <2>3, <2>4
<1> HIDE DEF Good
<1>3. n \in Q
  <2>1. 0 \in Q /\ \A i \in 1..n : i - 1 \in Q => i \in Q
    BY <1>1, <1>2
  <2> HIDE DEF Q
  <2>2. \A i \in 0..n : i \in Q
    BY <2>1, UpToTheLast
  <2> QED BY <2>2
<1> QED BY <1>3 DEF Good, FoldOf

-----------------------------------------------------------------------------
(* What a reader of lines and a filter of records return: the sequence that*)
(* is increasing and consists of certain records.  There is one only.      *)

Records == [seq : Nat, run : Runs \cup {NoRun}, kind : Kinds \cup {"none"}]
FileLines == [state : {"ended", "junk", "whole", "part"}, record : Records]
Proper(rec) == rec \in Records /\ rec.seq # 0 /\ rec.run \in Runs /\ rec.kind \in Kinds

Increasing(s) == \A i, j \in DOMAIN s : i < j => s[i].seq < s[j].seq

(* Where the whole records are, and which of them a reader sees.           *)
At(lines, states) == {i \in DOMAIN lines : lines[i].state \in states}
RecordsIn(lines, states) == {lines[i].record : i \in At(lines, states)}
ShownAt(lines) ==
  {i \in At(lines, {"ended"}) :
     \A j \in At(lines, {"ended"}) : j < i => lines[j].record.seq < lines[i].record.seq}
Shown(lines) == {lines[i].record : i \in ShownAt(lines)}
Ended(lines) == RecordsIn(lines, {"ended"})
Whole(lines) == RecordsIn(lines, {"whole"})
Live(lines) == Ended(lines) \cup Whole(lines)

LEMMA RecordFields ==
  \A x \in Records : x.seq \in Nat /\ x.run \in Runs \cup {NoRun} /\ x.kind \in Kinds \cup {"none"}
BY DEF Records

LEMMA LineFields ==
  \A x \in FileLines : x.record \in Records /\ x.state \in {"ended", "junk", "whole", "part"}
BY DEF FileLines

LEMMA SameRecordsSameOrder ==
  ASSUME NEW s \in Seq(Records), NEW t \in Seq(Records),
         Increasing(s), Increasing(t), ToSet(s) = ToSet(t)
  PROVE  s = t
<1>1. /\ DOMAIN s = 1..Len(s) /\ DOMAIN t = 1..Len(t) /\ Len(s) \in Nat /\ Len(t) \in Nat
      /\ \A i \in 1..Len(s) : s[i] \in Records /\ s[i].seq \in Nat
      /\ \A i \in 1..Len(t) : t[i] \in Records /\ t[i].seq \in Nat
  BY RecordFields
<1>2. /\ \A i \in 1..Len(s) : \E j \in 1..Len(t) : s[i] = t[j]
      /\ \A j \in 1..Len(t) : \E i \in 1..Len(s) : s[i] = t[j]
  BY <1>1 DEF ToSet
<1> DEFINE Q == {k \in 0..Len(s) : k <= Len(t) /\ \A i \in 1..k : s[i] = t[i]}
           R == {k \in 0..Len(t) : k <= Len(s)}
<1>3. ASSUME NEW k \in 1..Len(s), k - 1 \in Q PROVE k \in Q
  <2>1. \A i \in 1..Len(s) : i < k => i \in 1..Len(t) /\ s[i] = t[i]
    <3>1. k - 1 <= Len(t) /\ \A i \in 1..(k - 1) : s[i] = t[i]
      BY <1>3
    <3> HIDE DEF Q
    <3> QED BY <1>1, <3>1
  <2>2. PICK j \in 1..Len(t) : s[k] = t[j]
    BY <1>2
  <2>3. j >= k
    <3>1. SUFFICES ASSUME j < k PROVE FALSE
      BY <1>1, <2>2
    <3>2. j \in 1..Len(s) /\ s[j] = s[k]
      BY <1>1, <2>1, <2>2, <3>1
    <3>3. s[j].seq < s[k].seq
      BY <1>1, <3>1, <3>2 DEF Increasing
    <3> QED BY <1>1, <3>2, <3>3
  <2>4. k \in 1..Len(t)
    BY <1>1, <2>3
  <2>5. PICK i \in 1..Len(s) : s[i] = t[k]
    BY <1>2, <2>4
  <2>6. i >= k
    <3>1. SUFFICES ASSUME i < k PROVE FALSE
      BY <1>1, <2>5
    <3>2. t[i] = t[k] /\ i \in 1..Len(t)
      BY <1>1, <2>1, <2>5, <3>1
    <3>3. t[i].seq < t[k].seq
      BY <1>1, <2>4, <3>1, <3>2 DEF Increasing
    <3> QED BY <1>1, <2>4, <3>2, <3>3
  <2>7. j > k => t[k].seq < t[j].seq
    BY <1>1, <2>4 DEF Increasing
  <2>8. i > k => s[k].seq < s[i].seq
    BY <1>1 DEF Increasing
  <2>9. s[k].seq = t[j].seq /\ s[i].seq = t[k].seq
    BY <2>2, <2>5
  <2>10. s[k] = t[k]
    BY <1>1, <2>2, <2>3, <2>4, <2>5, <2>6, <2>7, <2>8, <2>9
  <2> QED BY <1>1, <1>3, <2>4, <2>10
<1>4. \A k \in 0..Len(s) : k \in Q
  <2>1. 0 \in Q
    BY <1>1
  <2> HIDE DEF Q
  <2> QED BY <1>1, <1>3, <2>1, UpToTheLast
<1>5. Len(s) <= Len(t) /\ \A i \in 1..Len(s) : s[i] = t[i]
  BY <1>1, <1>4
<1>6. Len(t) <= Len(s)
  <2> SUFFICES ASSUME Len(t) > Len(s) PROVE FALSE
    BY <1>1
  <2>1. Len(s) + 1 \in 1..Len(t)
    BY <1>1
  <2>2. PICK i \in 1..Len(s) : s[i] = t[Len(s) + 1]
    BY <1>2, <2>1
  <2>3. i \in 1..Len(t) /\ i < Len(s) + 1 /\ t[i] = t[Len(s) + 1]
    BY <1>1, <1>5, <2>2
  <2>4. t[i].seq < t[Len(s) + 1].seq
    BY <1>1, <2>1, <2>3 DEF Increasing
  <2> QED BY <1>1, <2>1, <2>3, <2>4
<1> QED BY <1>1, <1>5, <1>6

(* A record is added at the end.                                           *)
LEMMA AddedAtTheEnd ==
  ASSUME NEW s \in Seq(Records), NEW e \in Records, Increasing(s)
  PROVE  /\ Append(s, e) \in Seq(Records) /\ ToSet(Append(s, e)) = ToSet(s) \cup {e}
         /\ (\A x \in ToSet(s) : x.seq < e.seq) => Increasing(Append(s, e))
<1> DEFINE t == Append(s, e)
           n == Len(s)
<1>1. /\ t \in Seq(Records) /\ Len(t) = n + 1 /\ n \in Nat /\ t[n + 1] = e
      /\ DOMAIN t = 1..(n + 1) /\ DOMAIN s = 1..n /\ \A i \in 1..n : t[i] = s[i]
  OBVIOUS
<1> HIDE DEF t, n
<1>2. ToSet(t) = ToSet(s) \cup {e}
  <2>1. \A i \in 1..(n + 1) : i \in 1..n \/ i = n + 1
    BY <1>1
  <2>2. \A i \in 1..n : i \in 1..(n + 1)
    BY <1>1
  <2>3. n + 1 \in 1..(n + 1)
    BY <1>1
  <2> QED BY <1>1, <2>1, <2>2, <2>3 DEF ToSet
<1>3. ASSUME \A x \in ToSet(s) : x.seq < e.seq, NEW i \in DOMAIN t, NEW j \in DOMAIN t, i < j
      PROVE  t[i].seq < t[j].seq
  <2>1. i \in 1..n
    BY <1>1, <1>3
  <2>2. CASE j \in 1..n
    BY <1>1, <1>3, <2>1, <2>2 DEF Increasing
  <2>3. CASE j = n + 1
    BY <1>1, <1>3, <2>1, <2>3 DEF ToSet
  <2> QED BY <1>1, <2>2, <2>3
<1> QED BY <1>1, <1>2, <1>3 DEF Increasing, t

(* What holds at the beginning and is kept by every step holds all along.  *)
LEMMA HoldsAllAlong ==
  ASSUME NEW S, NEW n \in Nat, NEW g, g[0] \in S, \A i \in 1..n : g[i - 1] \in S => g[i] \in S
  PROVE  \A i \in 0..n : g[i] \in S
<1> DEFINE Q == {i \in 0..n : g[i] \in S}
<1>1. 0 \in Q
  OBVIOUS
<1>2. \A i \in 1..n : i - 1 \in Q => i \in Q
  OBVIOUS
<1>3. \A i \in 0..n : i \in Q
  <2> HIDE DEF Q
  <2> QED BY <1>1, <1>2, UpToTheLast
<1> QED BY <1>3

(* The filter, position by position.                                       *)
LEMMA AmongFold ==
  ASSUME NEW recs \in Seq(Records), NEW set
  PROVE  \E f \in [0..Len(recs) -> Seq(Records)] :
           /\ Among(recs, set) = f[Len(recs)] /\ f[0] = <<>>
           /\ \A i \in 1..Len(recs) :
                f[i] = IF recs[i] \in set THEN Append(f[i - 1], recs[i]) ELSE f[i - 1]
<1>1. PICK n : n = Len(recs)
  OBVIOUS
<1>2. n \in Nat /\ \A i \in 1..n : recs[i] \in Records /\ i - 1 \in 0..n /\ i \in 0..n /\ i # 0
  BY <1>1
<1>3. PICK S : S = Seq(Records)
  OBVIOUS
<1>4. <<>> \in S /\ \A s \in S, e \in Records : Append(s, e) \in S
  BY <1>3
<1>5. PICK step : step = [i \in 1..n |-> [s \in S |->
                           IF recs[i] \in set THEN Append(s, recs[i]) ELSE s]]
  OBVIOUS
<1>6. step \in [1..n -> [S -> S]]
  <2>1. \A i \in 1..n : \A s \in S : (IF recs[i] \in set THEN Append(s, recs[i]) ELSE s) \in S
    BY <1>2, <1>4
  <2>2. \A i \in 1..n : [s \in S |-> IF recs[i] \in set THEN Append(s, recs[i]) ELSE s] \in [S -> S]
    BY <2>1
  <2> QED BY <1>5, <2>2
<1>7. PICK f \in [0..n -> S] : f[0] = <<>> /\ \A i \in 1..n : f[i] = step[i][f[i - 1]]
  <2>1. PICK first : first = <<>>
    OBVIOUS
  <2>2. n \in Nat /\ first \in S
    BY <1>2, <1>4, <2>1
  <2>3. \E f : FoldOf(f, S, n, first, step)
    BY <1>6, <2>2, FoldExists
  <2> QED BY <2>1, <2>3 DEF FoldOf
<1>8. \A i \in 1..n : f[i] = IF recs[i] \in set THEN Append(f[i - 1], recs[i]) ELSE f[i - 1]
  <2>1. \A i \in 1..n : f[i - 1] \in S
    BY <1>2
  <2>2. \A i \in 1..n : \A s \in S : step[i][s] = IF recs[i] \in set THEN Append(s, recs[i]) ELSE s
    BY <1>5
  <2> QED BY <1>7, <2>1, <2>2
<1> DEFINE Body(h) == [i \in 0..n |->
                        IF i = 0 THEN <<>>
                        ELSE IF recs[i] \in set THEN Append(h[i - 1], recs[i]) ELSE h[i - 1]]
<1>9. f = Body(f)
  <2>1. \A i \in 0..n : i = 0 \/ i \in 1..n
    BY <1>2
  <2>2. \A i \in 0..n : f[i] = IF i = 0 THEN <<>>
                        ELSE IF recs[i] \in set THEN Append(f[i - 1], recs[i]) ELSE f[i - 1]
    BY <1>2, <1>7, <1>8, <2>1
  <2> QED BY <2>2
<1>10. PICK g : g = CHOOSE h : h = Body(h)
  OBVIOUS
<1>11. g = Body(g) /\ Among(recs, set) = g[n]
  <2>1. Among(recs, set) = g[n]
    BY <1>1, <1>10 DEF Among
  <2> HIDE DEF Body
  <2> QED BY <1>9, <1>10, <2>1
<1>12. g[0] = <<>> /\ DOMAIN g = 0..n /\ g = [i \in 0..n |-> g[i]]
  BY <1>2, <1>11
<1>13. \A i \in 1..n : g[i] = IF recs[i] \in set THEN Append(g[i - 1], recs[i]) ELSE g[i - 1]
  BY <1>2, <1>11
<1> HIDE DEF Body
<1>14. \A i \in 0..n : g[i] \in S
  <2>1. \A i \in 1..n : g[i - 1] \in S => g[i] \in S
    BY <1>2, <1>4, <1>13
  <2> QED BY <1>2, <1>4, <1>12, <2>1, HoldsAllAlong
<1>15. g \in [0..n -> S]
  BY <1>12, <1>14
<1> QED BY <1>1, <1>3, <1>11, <1>12, <1>13, <1>15

(* The reader, line by line.                                               *)
LEMMA ReadFold ==
  ASSUME NEW lines \in Seq(FileLines)
  PROVE  \E f \in [0..Len(lines) -> Seq(Records)] :
           /\ Read(lines) = f[Len(lines)] /\ f[0] = <<>>
           /\ \A i \in 1..Len(lines) :
                f[i] = IF Readable(lines[i], f[i - 1]) THEN Append(f[i - 1], lines[i].record)
                       ELSE f[i - 1]
<1>1. PICK n : n = Len(lines)
  OBVIOUS
<1>2. n \in Nat /\ \A i \in 1..n : lines[i].record \in Records /\ i - 1 \in 0..n /\ i \in 0..n /\ i # 0
  <2>1. n \in Nat /\ \A i \in 1..n : lines[i] \in FileLines
    BY <1>1
  <2> QED BY <2>1, LineFields
<1>3. PICK S : S = Seq(Records)
  OBVIOUS
<1>4. <<>> \in S /\ \A s \in S, e \in Records : Append(s, e) \in S
  BY <1>3
<1>5. PICK step : step = [i \in 1..n |-> [s \in S |->
                           IF Readable(lines[i], s) THEN Append(s, lines[i].record) ELSE s]]
  OBVIOUS
<1>6. step \in [1..n -> [S -> S]]
  <2>1. \A i \in 1..n : \A s \in S :
          (IF Readable(lines[i], s) THEN Append(s, lines[i].record) ELSE s) \in S
    BY <1>2, <1>4
  <2>2. \A i \in 1..n :
          [s \in S |-> IF Readable(lines[i], s) THEN Append(s, lines[i].record) ELSE s] \in [S -> S]
    BY <2>1
  <2> QED BY <1>5, <2>2
<1>7. PICK f \in [0..n -> S] : f[0] = <<>> /\ \A i \in 1..n : f[i] = step[i][f[i - 1]]
  <2>1. PICK first : first = <<>>
    OBVIOUS
  <2>2. n \in Nat /\ first \in S
    BY <1>2, <1>4, <2>1
  <2>3. \E f : FoldOf(f, S, n, first, step)
    BY <1>6, <2>2, FoldExists
  <2> QED BY <2>1, <2>3 DEF FoldOf
<1>8. \A i \in 1..n : f[i] = IF Readable(lines[i], f[i - 1]) THEN Append(f[i - 1], lines[i].record)
                             ELSE f[i - 1]
  <2>1. \A i \in 1..n : f[i - 1] \in S
    BY <1>2
  <2>2. \A i \in 1..n : \A s \in S :
          step[i][s] = IF Readable(lines[i], s) THEN Append(s, lines[i].record) ELSE s
    BY <1>5
  <2> QED BY <1>7, <2>1, <2>2
<1> DEFINE Body(h) == [i \in 0..n |->
                        IF i = 0 THEN <<>>
                        ELSE IF Readable(lines[i], h[i - 1]) THEN Append(h[i - 1], lines[i].record)
                        ELSE h[i - 1]]
<1>9. f = Body(f)
  <2>1. \A i \in 0..n : i = 0 \/ i \in 1..n
    BY <1>2
  <2>2. \A i \in 0..n : f[i] = IF i = 0 THEN <<>>
                        ELSE IF Readable(lines[i], f[i - 1]) THEN Append(f[i - 1], lines[i].record)
                        ELSE f[i - 1]
    BY <1>2, <1>7, <1>8, <2>1
  <2> QED BY <2>2
<1>10. PICK g : g = CHOOSE h : h = Body(h)
  OBVIOUS
<1>11. g = Body(g) /\ Read(lines) = g[n]
  <2>1. Read(lines) = g[n]
    BY <1>1, <1>10 DEF Read
  <2> HIDE DEF Body
  <2> QED BY <1>9, <1>10, <2>1
<1>12. g[0] = <<>> /\ DOMAIN g = 0..n /\ g = [i \in 0..n |-> g[i]]
  BY <1>2, <1>11
<1>13. \A i \in 1..n : g[i] = IF Readable(lines[i], g[i - 1]) THEN Append(g[i - 1], lines[i].record)
                              ELSE g[i - 1]
  BY <1>2, <1>11
<1> HIDE DEF Body
<1>14. \A i \in 0..n : g[i] \in S
  <2>1. \A i \in 1..n : g[i - 1] \in S => g[i] \in S
    BY <1>2, <1>4, <1>13
  <2> QED BY <1>2, <1>4, <1>12, <2>1, HoldsAllAlong
<1>15. g \in [0..n -> S]
  BY <1>12, <1>14
<1> QED BY <1>1, <1>3, <1>11, <1>12, <1>13, <1>15

(* What the filter returns: the records of the set, in their order.        *)
LEMMA AmongIsOrdered ==
  ASSUME NEW recs \in Seq(Records), NEW set, Increasing(recs)
  PROVE  /\ Among(recs, set) \in Seq(Records) /\ Increasing(Among(recs, set))
         /\ ToSet(Among(recs, set)) = ToSet(recs) \cap set
<1>1. PICK n : n = Len(recs)
  OBVIOUS
<1>2. PICK S : S = Seq(Records)
  OBVIOUS
<1>3. PICK f \in [0..n -> S] :
        /\ Among(recs, set) = f[n] /\ f[0] = <<>>
        /\ \A i \in 1..n : f[i] = IF recs[i] \in set THEN Append(f[i - 1], recs[i]) ELSE f[i - 1]
  BY <1>1, <1>2, AmongFold
<1>4. /\ n \in Nat /\ DOMAIN recs = 1..n
      /\ \A i \in 1..n : recs[i] \in Records /\ i - 1 \in 0..n /\ i \in 0..n
      /\ \A i \in 0..n : f[i] \in S
  BY <1>1, <1>3
<1> DEFINE Upto(k) == {recs[i] : i \in {j \in 1..n : j <= k}}
           Good(k) == Increasing(f[k]) /\ ToSet(f[k]) = Upto(k) \cap set
           Q == {k \in 0..n : Good(k)}
<1>5. Good(0)
  <2>1. Increasing(<<>>) /\ ToSet(<<>>) = {}
    BY DEF Increasing, ToSet
  <2>2. Upto(0) = {}
    BY <1>4
  <2> QED BY <1>3, <2>1, <2>2
<1>6. ASSUME NEW k \in 1..n, Good(k - 1) PROVE Good(k)
  <2>1. Upto(k) = Upto(k - 1) \cup {recs[k]}
    <3>1. {j \in 1..n : j <= k} = {j \in 1..n : j <= k - 1} \cup {k}
      BY <1>4
    <3> QED BY <3>1
  <2>2. \A x \in Upto(k - 1) : x.seq < recs[k].seq
    <3>1. \A j \in 1..n : j <= k - 1 => recs[j].seq < recs[k].seq
      BY <1>4 DEF Increasing
    <3> QED BY <3>1
  <2>3. f[k - 1] \in Seq(Records) /\ recs[k] \in Records
    BY <1>2, <1>4
  <2> HIDE DEF Upto
  <2>4. CASE recs[k] \in set
    <3>1. f[k] = Append(f[k - 1], recs[k])
      BY <1>3, <2>4
    <3>2. \A x \in ToSet(f[k - 1]) : x.seq < recs[k].seq
      BY <1>6, <2>2
    <3>3. Increasing(f[k]) /\ ToSet(f[k]) = ToSet(f[k - 1]) \cup {recs[k]}
      BY <1>6, <2>3, <3>1, <3>2, AddedAtTheEnd
    <3> QED BY <1>6, <2>1, <2>4, <3>3
  <2>5. CASE recs[k] \notin set
    <3>1. f[k] = f[k - 1]
      BY <1>3, <2>5
    <3> QED BY <1>6, <2>1, <2>5, <3>1
  <2> QED BY <2>4, <2>5
<1>7. Good(n)
  <2> HIDE DEF Good
  <2>1. 0 \in Q /\ \A i \in 1..n : i - 1 \in Q => i \in Q
    BY <1>4, <1>5, <1>6
  <2>2. n \in Q
    <3> HIDE DEF Q
    <3>1. \A i \in 0..n : i \in Q
      BY <1>4, <2>1, UpToTheLast
    <3> QED BY <1>4, <3>1
  <2> QED BY <2>2
<1>8. Upto(n) = ToSet(recs)
  BY <1>4 DEF ToSet
<1>9. f[n] \in S
  BY <1>4
<1> HIDE DEF Upto
<1> QED BY <1>2, <1>3, <1>7, <1>8, <1>9

(* What a reader of the store makes of any lines (EventStore._records      *)
(* 700-728): an ended line is passed over exactly when one before it has a *)
(* sequence that is as high, and what is kept is in increasing order.      *)
THEOREM ReadIsOrdered ==
  ASSUME NEW lines \in Seq(FileLines)
  PROVE  /\ Read(lines) \in Seq(Records) /\ Increasing(Read(lines))
         /\ ToSet(Read(lines)) = Shown(lines)
<1>1. PICK n : n = Len(lines)
  OBVIOUS
<1>2. PICK S : S = Seq(Records)
  OBVIOUS
<1>3. PICK f \in [0..n -> S] :
        /\ Read(lines) = f[n] /\ f[0] = <<>>
        /\ \A i \in 1..n : f[i] = IF Readable(lines[i], f[i - 1])
                                  THEN Append(f[i - 1], lines[i].record) ELSE f[i - 1]
  BY <1>1, <1>2, ReadFold
<1>4. /\ n \in Nat /\ DOMAIN lines = 1..n
      /\ \A i \in 1..n : /\ lines[i].record \in Records /\ lines[i].record.seq \in Nat
                         /\ i - 1 \in 0..n /\ i \in 0..n
      /\ \A i \in 0..n : f[i] \in S
  <2>1. n \in Nat /\ DOMAIN lines = 1..n /\ \A i \in 1..n : lines[i] \in FileLines
    BY <1>1
  <2> QED BY <1>3, <2>1, LineFields, RecordFields
<1>5. PICK E : E = At(lines, {"ended"})
  OBVIOUS
<1>6. PICK V : V = ShownAt(lines)
  OBVIOUS
<1>7. /\ \A j \in E : j \in 1..n /\ j \in Nat
      /\ \A j \in V : j \in E /\ j \in 1..n /\ j \in Nat
      /\ \A i \in 1..n : i \in E <=> lines[i].state = "ended"
      /\ \A i \in E : i \in V <=> \A j \in E : j < i => lines[j].record.seq < lines[i].record.seq
  BY <1>4, <1>5, <1>6 DEF At, ShownAt
<1> DEFINE Upto(k) == {lines[i].record : i \in {j \in V : j <= k}}
           Good(k) == /\ Increasing(f[k]) /\ ToSet(f[k]) = Upto(k)
                      /\ f[k] = <<>> => \A j \in E : j > k
                      /\ f[k] # <<>> => \A j \in E : j <= k => lines[j].record.seq <= Last(f[k]).seq
           Q == {k \in 0..n : Good(k)}
<1>8. Good(0)
  <2>1. Increasing(<<>>) /\ ToSet(<<>>) = {}
    BY DEF Increasing, ToSet
  <2>2. Upto(0) = {}
    BY <1>7
  <2>3. \A j \in E : j > 0
    BY <1>7
  <2> QED BY <1>3, <2>1, <2>2, <2>3
<1>9. ASSUME NEW k \in 1..n, Good(k - 1) PROVE Good(k)
  <2>1. PICK s \in Seq(Records) : s = f[k - 1]
    BY <1>2, <1>4
  <2>2. PICK e \in Records : e = lines[k].record /\ e.seq \in Nat
    BY <1>4
  <2>3. f[k] = IF lines[k].state = "ended" /\ (s # <<>> => e.seq > Last(s).seq)
               THEN Append(s, e) ELSE s
    BY <1>3, <2>1, <2>2 DEF Readable
  <2>4. /\ Increasing(s) /\ ToSet(s) = Upto(k - 1)
        /\ s = <<>> => \A j \in E : j > k - 1
        /\ s # <<>> => \A j \in E : j <= k - 1 => lines[j].record.seq <= Last(s).seq
    BY <1>9, <2>1
  <2>5. s # <<>> => Last(s) \in Records /\ Last(s).seq \in Nat /\ Last(s) \in ToSet(s)
    BY RecordFields DEF Last, ToSet
  <2>6. \A j \in E : j \in Nat /\ (j <= k - 1 \/ j = k \/ j > k)
    BY <1>4, <1>7
  <2>7. CASE lines[k].state # "ended"
    <3>1. f[k] = s
      BY <2>3, <2>7
    <3>2. k \notin E /\ k \notin V
      BY <1>7, <2>7
    <3>3. {j \in V : j <= k} = {j \in V : j <= k - 1}
      BY <1>4, <1>7, <2>6, <3>2
    <3>4. Upto(k) = Upto(k - 1)
      BY <3>3
    <3>5. (\A j \in E : j > k - 1) => \A j \in E : j > k
      BY <1>7, <2>6, <3>2
    <3>6. \A j \in E : j <= k => j <= k - 1
      BY <2>6, <3>2
    <3> HIDE DEF Upto
    <3> QED BY <2>4, <3>1, <3>4, <3>5, <3>6
  <2>8. CASE lines[k].state = "ended" /\ (s # <<>> => e.seq > Last(s).seq)
    <3>1. f[k] = Append(s, e) /\ f[k] # <<>> /\ Last(f[k]) = e
      <4>1. f[k] = Append(s, e)
        BY <2>3, <2>8
      <4>2. Append(s, e) # <<>> /\ Last(Append(s, e)) = e
        BY DEF Last
      <4> QED BY <4>1, <4>2
    <3>2. k \in E
      BY <1>7, <2>8
    <3>3. \A j \in E : j <= k - 1 => lines[j].record.seq < e.seq
      BY <1>4, <1>7, <2>2, <2>4, <2>5, <2>8
    <3>4. k \in V
      BY <1>7, <2>2, <2>6, <3>2, <3>3
    <3>5. {j \in V : j <= k} = {j \in V : j <= k - 1} \cup {k}
      <4>1. \A j \in V : j <= k <=> j <= k - 1 \/ j = k
        BY <1>7
      <4> QED BY <3>4, <4>1
    <3>6. Upto(k) = Upto(k - 1) \cup {e}
      BY <2>2, <3>5
    <3>7. \A x \in ToSet(s) : x.seq < e.seq
      BY <1>7, <2>4, <3>3
    <3>8. Increasing(f[k]) /\ ToSet(f[k]) = ToSet(s) \cup {e}
      BY <2>4, <3>1, <3>7, AddedAtTheEnd
    <3>9. \A j \in E : j <= k => lines[j].record.seq <= e.seq
      <4>1. \A j \in E : j <= k => j <= k - 1 \/ j = k
        BY <1>7
      <4>2. \A j \in E : lines[j].record.seq \in Nat
        BY <1>4, <1>7
      <4>3. ASSUME NEW j \in E, j <= k PROVE lines[j].record.seq <= e.seq
        <5>1. CASE j = k
          BY <2>2, <5>1
        <5>2. CASE j <= k - 1
          BY <2>2, <3>3, <4>2, <5>2
        <5> QED BY <4>1, <4>3, <5>1, <5>2
      <4> QED BY <4>3
    <3> HIDE DEF Upto
    <3> QED BY <2>4, <3>1, <3>6, <3>8, <3>9
  <2>9. CASE lines[k].state = "ended" /\ s # <<>> /\ ~(e.seq > Last(s).seq)
    <3>1. f[k] = s
      BY <2>3, <2>9
    <3>2. PICK j \in V : j <= k - 1 /\ lines[j].record = Last(s)
      BY <2>4, <2>5, <2>9
    <3>3. k \notin V
      BY <1>4, <1>7, <2>2, <2>5, <2>9, <3>2
    <3>4. {i \in V : i <= k} = {i \in V : i <= k - 1}
      BY <1>4, <1>7, <2>6, <3>3
    <3>5. Upto(k) = Upto(k - 1)
      BY <3>4
    <3>6. \A i \in E : i <= k => lines[i].record.seq <= Last(s).seq
      BY <2>2, <2>4, <2>5, <2>6, <2>9
    <3> HIDE DEF Upto
    <3> QED BY <2>4, <2>9, <3>1, <3>5, <3>6
  <2> QED BY <2>7, <2>8, <2>9
<1>10. Good(n)
  <2> HIDE DEF Good
  <2>1. 0 \in Q /\ \A i \in 1..n : i - 1 \in Q => i \in Q
    BY <1>4, <1>8, <1>9
  <2>2. n \in Q
    <3> HIDE DEF Q
    <3>1. \A i \in 0..n : i \in Q
      BY <1>4, <2>1, UpToTheLast
    <3> QED BY <1>4, <3>1
  <2> QED BY <2>2
<1>11. Upto(n) = Shown(lines)
  <2>1. {j \in V : j <= n} = V
    BY <1>4, <1>7
  <2> QED BY <1>6, <2>1 DEF Shown
<1>12. f[n] \in S
  BY <1>4
<1> HIDE DEF Upto
<1> QED BY <1>2, <1>3, <1>10, <1>11, <1>12

-----------------------------------------------------------------------------
(* What happens to the file: a line is added, or the last one, which is not*)
(* ended, is replaced.                                                     *)

LEMMA LineChanged ==
  ASSUME NEW old \in Seq(FileLines), NEW new \in Seq(FileLines), NEW n \in Nat \ {0},
         Len(new) = n, Len(old) = n \/ Len(old) = n - 1,
         \A i \in 1..(n - 1) : new[i] = old[i] /\ old[i].state \in {"ended", "junk"},
         Len(old) = n => old[n].state # "ended"
  PROVE  /\ Ended(new) = Ended(old) \cup (IF new[n].state = "ended" THEN {new[n].record} ELSE {})
         /\ Whole(new) = IF new[n].state = "whole" THEN {new[n].record} ELSE {}
         /\ Shown(new) = Shown(old) \cup
              (IF new[n].state = "ended" /\ \A x \in Ended(old) : x.seq < new[n].record.seq
               THEN {new[n].record} ELSE {})
<1> DEFINE E == At(old, {"ended"})
           F == At(new, {"ended"})
           V == ShownAt(old)
           W == ShownAt(new)
<1>1. /\ DOMAIN new = 1..n /\ n \in 1..n
      /\ \A i \in 1..n : i = n \/ i \in 1..(n - 1)
      /\ \A i \in 1..(n - 1) : i \in 1..n /\ i < n /\ ~(n < i)
      /\ \A i \in DOMAIN old : i \in 1..n
      /\ \A i \in 1..(n - 1) : i \in DOMAIN old
      /\ n \in DOMAIN old => Len(old) = n
  OBVIOUS
<1>2. \A i \in E : i \in 1..(n - 1) /\ i \in F /\ new[i] = old[i]
  BY <1>1 DEF At
<1>3. \A i \in F : i \in E \/ (i = n /\ new[n].state = "ended")
  BY <1>1 DEF At
<1>4. new[n].state = "ended" <=> n \in F
  BY <1>1 DEF At
<1>5. Ended(new) = Ended(old) \cup (IF new[n].state = "ended" THEN {new[n].record} ELSE {})
  <2> HIDE DEF E, F
  <2>1. Ended(old) = {old[i].record : i \in E} /\ Ended(new) = {new[i].record : i \in F}
    BY DEF Ended, RecordsIn, E, F
  <2> QED BY <1>2, <1>3, <1>4, <2>1
<1>6. Whole(new) = IF new[n].state = "whole" THEN {new[n].record} ELSE {}
  <2>1. \A i \in At(new, {"whole"}) : i = n /\ new[n].state = "whole"
    BY <1>1 DEF At
  <2>2. new[n].state = "whole" => n \in At(new, {"whole"})
    BY <1>1 DEF At
  <2>3. Whole(new) = {new[i].record : i \in At(new, {"whole"})}
    BY DEF Whole, RecordsIn
  <2> QED BY <2>1, <2>2, <2>3
<1>7. /\ \A i \in V : i \in E
      /\ \A i \in E : i \in V <=> \A j \in E : j < i => old[j].record.seq < old[i].record.seq
      /\ \A i \in W : i \in F
      /\ \A i \in F : i \in W <=> \A j \in F : j < i => new[j].record.seq < new[i].record.seq
  BY DEF ShownAt
<1>8. Shown(old) = {old[i].record : i \in V} /\ Shown(new) = {new[i].record : i \in W}
  BY DEF Shown
<1>9. Ended(old) = {old[i].record : i \in E}
  BY DEF Ended, RecordsIn
<1> HIDE DEF E, F, V, W
<1>10. \A i \in E : i \in V <=> i \in W
  <2>1. \A i \in E : \A j \in F : j < i => j \in E
    BY <1>1, <1>2, <1>3
  <2> QED BY <1>2, <1>7, <2>1
<1>11. n \in W <=> n \in F /\ \A x \in Ended(old) : x.seq < new[n].record.seq
  <2>1. \A j \in F : j < n => j \in E
    BY <1>1, <1>3
  <2>2. \A j \in E : j < n
    BY <1>1, <1>2
  <2>3. (\A x \in Ended(old) : x.seq < new[n].record.seq)
          <=> (\A j \in E : old[j].record.seq < new[n].record.seq)
    BY <1>9
  <2>4. \A j \in E : j \in F /\ j < n /\ new[j] = old[j]
    BY <1>2, <2>2
  <2>5. (\A j \in F : j < n => new[j].record.seq < new[n].record.seq)
          <=> (\A j \in E : old[j].record.seq < new[n].record.seq)
    BY <2>1, <2>4
  <2>6. n \in F => (n \in W <=> \A j \in F : j < n => new[j].record.seq < new[n].record.seq)
    BY <1>7
  <2>7. n \in W => n \in F
    BY <1>7
  <2> QED BY <2>3, <2>5, <2>6, <2>7
<1>12. \A i \in W : i \in V \/ i = n
  BY <1>3, <1>7, <1>10
<1>13. \A i \in V : i \in W /\ new[i] = old[i]
  BY <1>2, <1>7, <1>10
<1>14. Shown(new) = Shown(old) \cup
              (IF new[n].state = "ended" /\ \A x \in Ended(old) : x.seq < new[n].record.seq
               THEN {new[n].record} ELSE {})
  BY <1>4, <1>8, <1>11, <1>12, <1>13
<1> QED BY <1>5, <1>6, <1>14

FileOK(lines) ==
  /\ lines \in Seq(FileLines)
  /\ \A i \in DOMAIN lines : /\ i < Len(lines) => lines[i].state \in {"ended", "junk"}
                             /\ lines[i].state \in {"ended", "whole"} => Proper(lines[i].record)
NotEnded(lines) == lines # <<>> /\ Last(lines).state \in {"whole", "part"}

LEMMA WholeIsLast ==
  ASSUME NEW lines, FileOK(lines)
  PROVE  /\ lines # <<>> /\ Last(lines).state = "whole" => Whole(lines) = {Last(lines).record}
         /\ lines = <<>> \/ Last(lines).state # "whole" => Whole(lines) = {}
<1>1. /\ lines \in Seq(FileLines) /\ DOMAIN lines = 1..Len(lines) /\ Len(lines) \in Nat
      /\ lines # <<>> => Len(lines) \in DOMAIN lines /\ Last(lines) = lines[Len(lines)]
      /\ lines = <<>> => DOMAIN lines = {}
      /\ \A i \in DOMAIN lines : lines # <<>> /\ (i < Len(lines) \/ i = Len(lines))
  BY DEF FileOK, Last
<1>2. \A i \in DOMAIN lines : lines[i].state = "whole" => i = Len(lines)
  BY <1>1 DEF FileOK
<1>3. Whole(lines) = {lines[i].record : i \in {j \in DOMAIN lines : lines[j].state = "whole"}}
  BY DEF Whole, RecordsIn, At
<1> QED BY <1>1, <1>2, <1>3

LEMMA LiveIsProper ==
  ASSUME NEW lines, FileOK(lines)
  PROVE  /\ \A x \in Live(lines) : Proper(x) /\ x \in Records /\ x.seq \in Nat
         /\ \A x \in Shown(lines) : x \in Ended(lines) /\ x \in Live(lines)
         /\ \A x \in Ended(lines) \cup Whole(lines) : x \in Live(lines)
         /\ Live(lines) = Ended(lines) \cup Whole(lines)
<1>1. \A x \in Live(lines) : Proper(x)
  BY DEF Live, Ended, Whole, RecordsIn, At, FileOK
<1>2. \A x \in Live(lines) : x \in Records /\ x.seq \in Nat
  BY <1>1, RecordFields DEF Proper
<1>3. \A x \in Shown(lines) : x \in Ended(lines)
  BY DEF Shown, ShownAt, Ended, RecordsIn
<1> QED BY <1>1, <1>2, <1>3 DEF Live

(* The last line gets its newline: a whole record becomes readable.        *)
LEMMA MendedFile ==
  ASSUME FileOK(file), NEW new, new = Mended
  PROVE  /\ FileOK(new) /\ ~NotEnded(new) /\ Whole(new) = {}
         /\ Ended(new) = Ended(file) \cup Whole(file)
         /\ Shown(new) = Shown(file) \cup
              {x \in Whole(file) : \A y \in Ended(file) : y.seq < x.seq}
<1>1. PICK n : n = Len(file)
  OBVIOUS
<1>2. /\ file \in Seq(FileLines) /\ DOMAIN file = 1..n /\ n \in Nat
      /\ file # <<>> => n \in DOMAIN file /\ Last(file) = file[n] /\ n \in Nat \ {0}
      /\ \A i \in 1..n : file[i] \in FileLines
  BY <1>1 DEF FileOK, Last
<1>3. CASE ~NotEnded(file)
  <2>1. new = file
    BY <1>3 DEF Mended, NotEnded
  <2>2. Whole(file) = {}
    BY <1>3, WholeIsLast DEF NotEnded
  <2> QED BY <1>3, <2>1, <2>2
<1>4. CASE NotEnded(file)
  <2>1. file # <<>> /\ file[n].state \in {"whole", "part"} /\ Last(file) = file[n]
    BY <1>2, <1>4 DEF NotEnded
  <2>2. PICK line : line = [file[n] EXCEPT !.state = IF file[n].state = "part" THEN "junk" ELSE "ended"]
    OBVIOUS
  <2>3. /\ line \in FileLines /\ line.record = file[n].record
        /\ line.state = IF file[n].state = "part" THEN "junk" ELSE "ended"
    BY <1>2, <2>1, <2>2 DEF FileLines
  <2>4. new = [file EXCEPT ![n] = line]
    BY <1>1, <2>1, <2>2 DEF Mended
  <2>5. /\ new \in Seq(FileLines) /\ Len(new) = n /\ new[n] = line
        /\ \A i \in 1..(n - 1) : new[i] = file[i]
    BY <1>1, <1>2, <2>1, <2>3, <2>4
  <2>6. \A i \in 1..(n - 1) : file[i].state \in {"ended", "junk"}
    BY <1>1, <1>2 DEF FileOK
  <2>7. /\ Ended(new) = Ended(file) \cup (IF line.state = "ended" THEN {line.record} ELSE {})
        /\ Whole(new) = IF line.state = "whole" THEN {line.record} ELSE {}
        /\ Shown(new) = Shown(file) \cup
             (IF line.state = "ended" /\ \A x \in Ended(file) : x.seq < line.record.seq
              THEN {line.record} ELSE {})
    <3>1. n \in Nat \ {0} /\ Len(file) = n /\ file[n].state # "ended"
      BY <1>1, <1>2, <2>1
    <3> HIDE DEF Ended, Whole, Shown
    <3> QED BY <1>2, <2>5, <2>6, <3>1, LineChanged
  <2>8. FileOK(new)
    <3>1. Proper(file[n].record) \/ file[n].state = "part"
      BY <1>2, <2>1 DEF FileOK
    <3>2. \A i \in DOMAIN new : i = n \/ (i \in 1..(n - 1) /\ i \in DOMAIN file)
      BY <1>2, <2>5
    <3>3. DOMAIN new = 1..n
      BY <2>5
    <3>4. \A i \in 1..(n - 1) : new[i].state \in {"ended", "whole"} => Proper(new[i].record)
      BY <1>2, <2>5 DEF FileOK
    <3>5. line.state \in {"ended", "whole"} => Proper(line.record)
      BY <2>1, <2>3, <3>1
    <3> QED BY <1>2, <2>5, <2>6, <3>2, <3>3, <3>4, <3>5 DEF FileOK
  <2>9. ~NotEnded(new)
    BY <2>3, <2>5 DEF NotEnded, Last
  <2>10. Whole(file) = IF file[n].state = "whole" THEN {file[n].record} ELSE {}
    BY <2>1, WholeIsLast
  <2> QED BY <2>1, <2>3, <2>7, <2>8, <2>9, <2>10
<1> QED BY <1>3, <1>4

(* A write adds a line, or spoils the one it joins.                        *)
LEMMA WrittenFile ==
  ASSUME FileOK(file), NEW r \in Runs, Proper(sink[r].record),
         NEW state \in {"part", "whole", "ended"}, NEW new, new = Written(r, state)
  PROVE  /\ FileOK(new)
         /\ Ended(new) = Ended(file) \cup
              (IF state = "ended" /\ ~Unended THEN {sink[r].record} ELSE {})
         /\ Whole(new) = IF state = "whole" /\ ~Unended THEN {sink[r].record} ELSE {}
         /\ Shown(new) = Shown(file) \cup
              (IF /\ state = "ended" /\ ~Unended
                  /\ \A x \in Ended(file) : x.seq < sink[r].record.seq
               THEN {sink[r].record} ELSE {})
         /\ state = "ended" => ~NotEnded(new)
<1>1. PICK n : n = Len(file)
  OBVIOUS
<1>2. /\ file \in Seq(FileLines) /\ DOMAIN file = 1..n /\ n \in Nat
      /\ file # <<>> => n \in DOMAIN file /\ Last(file) = file[n] /\ n \in Nat \ {0}
      /\ \A i \in 1..n : file[i] \in FileLines
  BY <1>1 DEF FileOK, Last
<1>3. PICK rec : rec = sink[r].record
  OBVIOUS
<1>4. rec \in Records /\ Proper(rec) /\ NoRecord \in Records
  BY <1>3 DEF Proper, NoRecord, Record, Records
<1>5. PICK line : line = IF Unended THEN Line(IF state = "ended" THEN "junk" ELSE "part", NoRecord)
                         ELSE Line(state, IF state = "part" THEN NoRecord ELSE rec)
  OBVIOUS
<1>6. /\ line \in FileLines
      /\ line.state = IF Unended THEN (IF state = "ended" THEN "junk" ELSE "part") ELSE state
      /\ state # "part" /\ ~Unended => line.record = rec
  <2>1. \A s \in {"ended", "junk", "whole", "part"}, x \in Records :
          Line(s, x) \in FileLines /\ Line(s, x).state = s /\ Line(s, x).record = x
    BY DEF Line, FileLines
  <2>2. CASE Unended
    BY <1>4, <1>5, <2>1, <2>2
  <2>3. CASE ~Unended
    BY <1>4, <1>5, <2>1, <2>3
  <2> QED BY <2>2, <2>3
<1>7. line.state \in {"ended", "whole"} => Proper(line.record)
  BY <1>4, <1>6
<1>8. PICK m : m = IF Unended THEN n ELSE n + 1
  OBVIOUS
<1>9. /\ m \in Nat \ {0} /\ new \in Seq(FileLines) /\ Len(new) = m /\ new[m] = line
      /\ \A i \in 1..(m - 1) : new[i] = file[i]
      /\ n = m \/ n = m - 1
      /\ n = m => file[n].state # "ended"
  <2>1. CASE Unended
    <3>1. new = [file EXCEPT ![n] = line]
      BY <1>1, <1>5, <2>1 DEF Written
    <3>2. file # <<>> /\ file[n].state # "ended"
      BY <1>2, <2>1 DEF Unended
    <3> QED BY <1>1, <1>2, <1>6, <1>8, <2>1, <3>1, <3>2
  <2>2. CASE ~Unended
    <3>1. new = Append(file, line)
      BY <1>3, <1>5, <2>2 DEF Written
    <3> QED BY <1>1, <1>2, <1>6, <1>8, <2>2, <3>1
  <2> QED BY <2>1, <2>2
<1>10. \A i \in 1..(m - 1) : file[i].state \in {"ended", "junk"}
  <2>1. CASE Unended
    BY <1>1, <1>2, <1>8, <2>1 DEF FileOK
  <2>2. CASE ~Unended
    <3>1. file # <<>> => file[n].state \in {"ended", "junk"}
      <4>1. file # <<>> => file[n] \in FileLines
        BY <1>2
      <4> QED BY <1>2, <2>2, <4>1, LineFields DEF Unended
    <3>2. \A i \in 1..n : file # <<>> /\ (i = n \/ i < n)
      BY <1>1, <1>2
    <3> QED BY <1>1, <1>2, <1>8, <2>2, <3>1, <3>2 DEF FileOK
  <2> QED BY <2>1, <2>2
<1>11. /\ Ended(new) = Ended(file) \cup (IF line.state = "ended" THEN {line.record} ELSE {})
       /\ Whole(new) = IF line.state = "whole" THEN {line.record} ELSE {}
       /\ Shown(new) = Shown(file) \cup
            (IF line.state = "ended" /\ \A x \in Ended(file) : x.seq < line.record.seq
             THEN {line.record} ELSE {})
  BY <1>1, <1>2, <1>9, <1>10, LineChanged
<1>12. FileOK(new)
  <2>1. DOMAIN new = 1..m /\ \A i \in 1..m : i = m \/ i \in 1..(m - 1)
    BY <1>9
  <2>2. \A i \in 1..(m - 1) : i \in 1..n
    BY <1>2, <1>8, <1>9
  <2>3. \A i \in 1..(m - 1) : new[i].state \in {"ended", "whole"} => Proper(new[i].record)
    BY <1>2, <1>9, <2>2 DEF FileOK
  <2> QED BY <1>7, <1>9, <1>10, <2>1, <2>3 DEF FileOK
<1>13. state = "ended" => ~NotEnded(new)
  BY <1>6, <1>9 DEF NotEnded, Last
<1>14. /\ line.state = "ended" <=> state = "ended" /\ ~Unended
       /\ line.state = "whole" <=> state = "whole" /\ ~Unended
  BY <1>6
<1> QED BY <1>3, <1>6, <1>11, <1>12, <1>13, <1>14

-----------------------------------------------------------------------------
(* The sinks.                                                              *)

SinkStates ==
  [pc : {"off", "opening", "mending", "writing", "reading", "ended", "dead"}, next : Nat,
   record : Records, given : Seq(Kinds), ok : BOOLEAN, completed : BOOLEAN,
   alone : BOOLEAN, clean : BOOLEAN]

(* A record is about to be written.                                        *)
Underway(s) == s.pc \in {"mending", "writing"}

(* What a sink holds, whatever is in the file: it was given the start first*)
(* and once, as many frames as there may be, and the completion if it is   *)
(* to end well.                                                            *)
SinkShape(r, s) ==
  /\ s.pc \in {"off", "opening"} => s.given = <<>> /\ ~s.completed
  /\ s.pc \in {"mending", "writing", "reading", "ended"} => s.given # <<>>
  /\ s.given # <<>> => s.next # 0
  /\ Underway(s) => s.record = Record(s.next, r, s.given[Len(s.given)])
  /\ \A i \in DOMAIN s.given : s.given[i] = "execution.started" <=> i = 1
  /\ Len(s.given) <= MaxFrames + 2 /\ (~s.completed => Len(s.given) <= MaxFrames + 1)
  /\ s.completed /\ s.ok => \E i \in DOMAIN s.given : s.given[i] = "process.completed"
  /\ s.pc = "ended" => s.completed

(* What the file holds of the run: nothing before its first write, nothing *)
(* beyond the sequence that is next, no start behind other events, and no  *)
(* whole record without its newline as long as all is well.                *)
SinkFile(r, s, lines) ==
  /\ s.given = <<>> \/ (Underway(s) /\ Len(s.given) = 1) => \A x \in Live(lines) : x.run # r
  /\ \A x \in Live(lines) : x.run = r => x.seq <= s.next
  /\ \A x, y \in Live(lines) : x.run = r /\ y.run = r /\ IsStart(x) => x.seq <= y.seq
  /\ s.ok => \A x \in Whole(lines) : x.run # r

SinkInv ==
  /\ sink \in [Runs -> SinkStates]
  /\ \A r \in Runs : SinkShape(r, sink[r]) /\ SinkFile(r, sink[r], file)
  /\ \A r \in Runs : runner[r] = "off" => sink[r].pc = "off"
  /\ DOMAIN runner = Runs

LEMMA SinkFields ==
  \A s \in SinkStates :
    /\ s.pc \in {"off", "opening", "mending", "writing", "reading", "ended", "dead"}
    /\ s.next \in Nat /\ s.record \in Records /\ s.given \in Seq(Kinds)
    /\ s.ok \in BOOLEAN /\ s.completed \in BOOLEAN /\ s.alone \in BOOLEAN /\ s.clean \in BOOLEAN
BY DEF SinkStates

LEMMA KindsGiven ==
  /\ "execution.started" \in Kinds /\ "source.warning" \in Kinds
  /\ \A line \in Lines \cup {"process.completed"} :
       /\ Projected(line) \in Kinds /\ Projected(line) # "execution.started"
       /\ line = "process.completed" => Projected(line) = "process.completed"
BY DEF Kinds, Lines, Projected

LEMMA RecordIs ==
  \A n \in Nat, r \in Runs \cup {NoRun}, kind \in Kinds \cup {"none"} :
    /\ Record(n, r, kind) \in Records /\ Record(n, r, kind).seq = n
    /\ Record(n, r, kind).run = r /\ Record(n, r, kind).kind = kind
BY DEF Record, Records

Gives(s, r, kind, t) ==
  /\ t \in SinkStates /\ t.pc = "mending" /\ t.next = s.next
  /\ t.record = Record(s.next, r, kind) /\ t.given = Append(s.given, kind)
  /\ t.ok = s.ok /\ t.completed = s.completed /\ t.alone = s.alone /\ t.clean = s.clean

LEMMA GiveFields ==
  ASSUME NEW s \in SinkStates, NEW r \in Runs, NEW kind \in Kinds
  PROVE  Gives(s, r, kind, Give(s, r, kind))
<1>0. PICK t : t = Give(s, r, kind)
  OBVIOUS
<1>1. Record(s.next, r, kind) \in Records
  BY RecordIs, SinkFields
<1>2. Append(s.given, kind) \in Seq(Kinds)
  BY SinkFields
<1>3. PICK rec : rec = Record(s.next, r, kind)
  OBVIOUS
<1>4. PICK given : given = Append(s.given, kind)
  OBVIOUS
<1>5. t = [s EXCEPT !.pc = "mending", !.record = rec, !.given = given]
  BY <1>0, <1>3, <1>4 DEF Give
<1>6. rec \in Records /\ given \in Seq(Kinds)
  BY <1>1, <1>2, <1>3, <1>4
<1>7. t \in SinkStates
  BY <1>5, <1>6 DEF SinkStates
<1>8. /\ t.pc = "mending" /\ t.next = s.next /\ t.record = rec /\ t.given = given
      /\ t.ok = s.ok /\ t.completed = s.completed /\ t.alone = s.alone /\ t.clean = s.clean
  BY <1>5 DEF SinkStates
<1> QED BY <1>0, <1>3, <1>4, <1>7, <1>8 DEF Gives

(* One sink at a time changes, and the rest of the file is as it was.      *)
LEMMA SinkInvKept ==
  ASSUME SinkInv, NEW r \in Runs, NEW s \in SinkStates, sink' = [sink EXCEPT ![r] = s],
         runner' = runner, runner[r] # "off",
         SinkShape(r, s), SinkFile(r, s, file'),
         \A q \in Runs \ {r} : SinkFile(q, sink[q], file')
  PROVE  SinkInv'
<1>1. sink' \in [Runs -> SinkStates] /\ sink'[r] = s /\ \A q \in Runs \ {r} : sink'[q] = sink[q]
  BY DEF SinkInv
<1>2. \A q \in Runs : SinkShape(q, sink'[q]) /\ SinkFile(q, sink'[q], file')
  BY <1>1 DEF SinkInv
<1>3. \A q \in Runs : runner'[q] = "off" => sink'[q].pc = "off"
  BY <1>1 DEF SinkInv
<1> QED BY <1>1, <1>2, <1>3 DEF SinkInv

(* What a file becomes when the given records may be added to it.          *)
Grown(old, new, recs) ==
  /\ FileOK(new)
  /\ \A x \in Live(new) : x \in Live(old) \/ x \in recs
  /\ \A x \in Whole(new) : x \in Whole(old) \/ x \in recs
  /\ \/ Shown(new) = Shown(old)
     \/ \E rec \in Whole(old) \cup recs :
          Shown(new) = Shown(old) \cup {rec} /\ \A x \in Ended(old) : x.seq < rec.seq

LEMMA MendedGrows ==
  ASSUME FileOK(file), NEW new, new = Mended
  PROVE  Grown(file, new, {})
<1>1. /\ FileOK(new) /\ Whole(new) = {} /\ Ended(new) = Ended(file) \cup Whole(file)
      /\ Shown(new) = Shown(file) \cup {x \in Whole(file) : \A y \in Ended(file) : y.seq < x.seq}
  BY MendedFile
<1>2. \A x \in Live(new) : x \in Live(file)
  BY <1>1 DEF Live
<1>3. \A x, y \in Whole(file) : x = y
  BY WholeIsLast
<1>4. CASE \E x \in Whole(file) : \A y \in Ended(file) : y.seq < x.seq
  BY <1>1, <1>2, <1>3, <1>4 DEF Grown
<1>5. CASE ~\E x \in Whole(file) : \A y \in Ended(file) : y.seq < x.seq
  BY <1>1, <1>2, <1>5 DEF Grown
<1> QED BY <1>4, <1>5

LEMMA LeftGrows ==
  ASSUME FileOK(file), NEW r \in Runs, Proper(sink[r].record), NEW new \in Left(r)
  PROVE  Grown(file, new, {sink[r].record})
<1>1. CASE new = file
  BY <1>1 DEF Grown
<1>2. ASSUME NEW state \in {"part", "whole", "ended"}, new = Written(r, state)
      PROVE  Grown(file, new, {sink[r].record})
  <2>1. /\ FileOK(new)
        /\ Ended(new) = Ended(file) \cup
             (IF state = "ended" /\ ~Unended THEN {sink[r].record} ELSE {})
        /\ Whole(new) = IF state = "whole" /\ ~Unended THEN {sink[r].record} ELSE {}
        /\ Shown(new) = Shown(file) \cup
             (IF /\ state = "ended" /\ ~Unended
                 /\ \A x \in Ended(file) : x.seq < sink[r].record.seq
              THEN {sink[r].record} ELSE {})
    BY <1>2, WrittenFile
  <2>2. \A x \in Live(new) : x \in Live(file) \/ x = sink[r].record
    BY <2>1 DEF Live
  <2>3. \/ Shown(new) = Shown(file)
        \/ /\ Shown(new) = Shown(file) \cup {sink[r].record}
           /\ \A x \in Ended(file) : x.seq < sink[r].record.seq
    BY <2>1
  <2> QED BY <2>1, <2>2, <2>3 DEF Grown
<1> QED BY <1>1, <1>2 DEF Left

(* The records of other runs say nothing about a sink.                     *)
LEMMA OtherSink ==
  ASSUME NEW q, NEW s, NEW old, NEW new, NEW recs, SinkFile(q, s, old), Grown(old, new, recs),
         \A x \in recs : x.run # q
  PROVE  SinkFile(q, s, new)
<1>1. \A x \in Live(new) : x.run = q => x \in Live(old)
  BY DEF Grown
<1>2. \A x \in Whole(new) : x.run = q => x \in Whole(old)
  BY DEF Grown
<1> QED BY <1>1, <1>2 DEF SinkFile

(* The highest sequence a sink finds, when the sequences have a bound.     *)
LEMMA HighestIs ==
  ASSUME FileOK(file), NEW b \in Nat, \A x \in Live(file) : x.seq <= b
  PROVE  /\ Highest \in Nat /\ Highest <= b
         /\ \A x \in Ended(file) : x.seq <= Highest
<1>1. PICK S : S = {0} \cup Sequences
  OBVIOUS
<1>2. S = {0} \cup {x.seq : x \in Ended(file)}
  BY <1>1 DEF Sequences, Ended, RecordsIn, At
<1>3. \A y \in S : y \in Nat /\ y <= b
  BY <1>2, LiveIsProper
<1> DEFINE Above == {i \in Nat : \A y \in S : y <= i}
<1>4. b \in Above
  BY <1>3
<1>5. PICK m \in Above : \A j \in Above : m <= j
  <2>1. Above \in SUBSET Nat /\ Above # {}
    BY <1>4
  <2> HIDE DEF Above
  <2> QED BY <2>1, LeastOf
<1>6. m \in Nat /\ (\A y \in S : y <= m) /\ \A j \in Nat : (\A y \in S : y <= j) => m <= j
  BY <1>5
<1>7. m \in S
  <2> SUFFICES ASSUME m \notin S PROVE FALSE
    OBVIOUS
  <2>1. 0 \in S
    BY <1>1
  <2>2. m # 0 /\ m - 1 \in Nat
    BY <1>6, <2>1
  <2>3. \A y \in S : y <= m - 1
    <3>1. \A y \in S : y # m
      OBVIOUS
    <3> QED BY <1>3, <1>6, <2>2, <3>1
  <2>4. m <= m - 1
    BY <1>6, <2>2, <2>3
  <2> QED BY <1>6, <2>4
<1>8. Highest = CHOOSE x \in S : \A y \in S : x >= y
  BY <1>1 DEF Highest, Max
<1>9. Highest \in S /\ \A y \in S : Highest >= y
  <2>1. \A y \in S : m >= y
    BY <1>3, <1>6
  <2> QED BY <1>7, <1>8, <2>1
<1>10. \A x \in Ended(file) : x.seq \in S
  BY <1>2
<1> QED BY <1>3, <1>9, <1>10

(* What each action makes of its sink.                                     *)
LEMMA OpenMakes ==
  ASSUME SinkInv, NEW r \in Runs, Open(r), Highest \in Nat
  PROVE  /\ sink[r].pc = "opening" /\ sink[r].given = <<>> /\ ~sink[r].completed
         /\ runner' = runner /\ file' = file
         /\ \E s \in SinkStates :
              /\ sink' = [sink EXCEPT ![r] = s] /\ s.pc = "mending" /\ s.next = Highest + 1
              /\ s.record = Record(Highest + 1, r, "execution.started")
              /\ DOMAIN s.given = {1} /\ Len(s.given) = 1 /\ s.given[1] = "execution.started"
              /\ s.ok = sink[r].ok
              /\ s.completed = sink[r].completed /\ s.alone = sink[r].alone
              /\ s.clean = (file = <<>> \/ Last(file).state # "whole")
<1>1. sink[r] \in SinkStates /\ sink[r].pc = "opening"
  BY DEF SinkInv, Open
<1>2. PICK c \in BOOLEAN : c = (file = <<>> \/ Last(file).state # "whole")
  OBVIOUS
<1>3. PICK n \in Nat : n = Highest + 1
  OBVIOUS
<1>4. PICK t : t = [sink[r] EXCEPT !.next = n, !.clean = c]
  OBVIOUS
<1>5. /\ t \in SinkStates /\ t.next = n /\ t.clean = c /\ t.given = sink[r].given /\ t.ok = sink[r].ok
      /\ t.completed = sink[r].completed /\ t.alone = sink[r].alone
  BY <1>1, <1>4 DEF SinkStates
<1>6. PICK s : s = Give(t, r, "execution.started")
  OBVIOUS
<1>7. sink' = [sink EXCEPT ![r] = s]
  BY <1>2, <1>3, <1>4, <1>6 DEF Open, Set
<1>8. sink[r].given = <<>> /\ ~sink[r].completed
  BY <1>1 DEF SinkInv, SinkShape
<1>9. /\ s \in SinkStates /\ s.pc = "mending" /\ s.next = n
      /\ s.record = Record(n, r, "execution.started") /\ s.given = Append(t.given, "execution.started")
      /\ s.ok = t.ok /\ s.completed = t.completed /\ s.alone = t.alone /\ s.clean = t.clean
  <2>1. Gives(t, r, "execution.started", s)
    BY <1>5, <1>6, KindsGiven, GiveFields
  <2> QED BY <1>5, <2>1 DEF Gives
<1>10. DOMAIN s.given = {1} /\ Len(s.given) = 1 /\ s.given[1] = "execution.started"
  <2>1. s.given = Append(<<>>, "execution.started")
    BY <1>5, <1>8, <1>9
  <2>2. Len(s.given) = 1 /\ s.given[1] = "execution.started"
    BY <2>1
  <2>3. s.given \in Seq(Kinds)
    BY <1>9, SinkFields
  <2> QED BY <2>2, <2>3
<1>11. runner' = runner /\ file' = file
  BY DEF Open
<1> QED BY <1>1, <1>2, <1>3, <1>5, <1>7, <1>8, <1>9, <1>10, <1>11

(* Another event is given to a sink that reads.                            *)
GivesNext(r, s, kind) ==
  /\ sink[r].pc = "reading" /\ runner' = runner /\ file' = file
  /\ sink' = [sink EXCEPT ![r] = s] /\ s.pc = "mending" /\ s.next = sink[r].next
  /\ s.record = Record(s.next, r, kind) /\ s.given = Append(sink[r].given, kind)
  /\ s.alone = sink[r].alone /\ s.clean = sink[r].clean
  /\ ~sink[r].completed /\ kind # "execution.started"
  /\ s.ok => sink[r].ok
  /\ ~s.completed => Len(sink[r].given) <= MaxFrames
  /\ s.completed /\ s.ok => kind = "process.completed"

LEMMA TakeMakes ==
  ASSUME SinkInv, NEW r \in Runs, NEW line \in Lines \cup {"process.completed"}, Take(r, line)
  PROVE  \E s \in SinkStates, kind \in Kinds : GivesNext(r, s, kind)
<1>1. sink[r] \in SinkStates /\ sink[r].pc = "reading" /\ line \in Pending(r)
  BY DEF SinkInv, Take
<1>2. PICK c \in BOOLEAN : c = (line = "process.completed")
  OBVIOUS
<1>3. PICK kind \in Kinds : kind = Projected(line) /\ kind # "execution.started"
  BY KindsGiven
<1>4. PICK t : t = [sink[r] EXCEPT !.completed = c]
  OBVIOUS
<1>5. /\ t \in SinkStates /\ t.completed = c /\ t.next = sink[r].next /\ t.given = sink[r].given
      /\ t.ok = sink[r].ok /\ t.alone = sink[r].alone /\ t.clean = sink[r].clean
  BY <1>1, <1>4 DEF SinkStates
<1>6. PICK s : s = Give(t, r, kind)
  OBVIOUS
<1>7. sink' = [sink EXCEPT ![r] = s] /\ runner' = runner /\ file' = file
  BY <1>2, <1>3, <1>4, <1>6 DEF Take, Set
<1>8. /\ s \in SinkStates /\ s.pc = "mending" /\ s.next = t.next
      /\ s.record = Record(t.next, r, kind) /\ s.given = Append(t.given, kind)
      /\ s.ok = t.ok /\ s.completed = t.completed /\ s.alone = t.alone /\ s.clean = t.clean
  <2>1. Gives(t, r, kind, s)
    BY <1>5, <1>6, GiveFields
  <2> QED BY <2>1 DEF Gives
<1>9. ~sink[r].completed /\ (line # "process.completed" => Len(sink[r].given) <= MaxFrames)
  BY <1>1 DEF Pending
<1>10. c => kind = "process.completed"
  BY <1>2, <1>3, KindsGiven
<1>11. GivesNext(r, s, kind)
  BY <1>1, <1>2, <1>3, <1>5, <1>7, <1>8, <1>9, <1>10 DEF GivesNext
<1> QED BY <1>8, <1>11

Finishes(r, s) ==
  /\ sink[r].pc = "reading" /\ sink[r].completed /\ runner' = runner /\ file' = file
  /\ sink' = [sink EXCEPT ![r] = s] /\ s.pc = "ended" /\ s.next = sink[r].next
  /\ s.given = sink[r].given /\ s.ok = sink[r].ok /\ s.completed = sink[r].completed
  /\ s.alone = sink[r].alone /\ s.clean = sink[r].clean

LEMMA EndOfInputMakes ==
  ASSUME SinkInv, NEW r \in Runs, EndOfInput(r)
  PROVE  \E s \in SinkStates : Finishes(r, s) \/ GivesNext(r, s, "source.warning")
<1>1. sink[r] \in SinkStates /\ sink[r].pc = "reading" /\ runner' = runner /\ file' = file
  BY DEF SinkInv, EndOfInput
<1>2. CASE sink[r].completed
  <2>1. PICK s : s = [sink[r] EXCEPT !.pc = "ended"]
    OBVIOUS
  <2>2. /\ s \in SinkStates /\ s.pc = "ended" /\ s.next = sink[r].next /\ s.given = sink[r].given
        /\ s.ok = sink[r].ok /\ s.completed = sink[r].completed /\ s.alone = sink[r].alone
        /\ s.clean = sink[r].clean
    BY <1>1, <2>1 DEF SinkStates
  <2>3. sink' = [sink EXCEPT ![r] = s]
    BY <1>2, <2>1 DEF EndOfInput, Set
  <2> QED BY <1>1, <1>2, <2>2, <2>3 DEF Finishes
<1>3. CASE ~sink[r].completed
  <2>1. PICK t : t = [sink[r] EXCEPT !.completed = TRUE, !.ok = FALSE]
    OBVIOUS
  <2>2. /\ t \in SinkStates /\ t.completed = TRUE /\ t.ok = FALSE /\ t.next = sink[r].next
        /\ t.given = sink[r].given /\ t.alone = sink[r].alone /\ t.clean = sink[r].clean
    BY <1>1, <2>1 DEF SinkStates
  <2>3. PICK s : s = Give(t, r, "source.warning")
    OBVIOUS
  <2>4. sink' = [sink EXCEPT ![r] = s]
    BY <1>3, <2>1, <2>3 DEF EndOfInput, Set
  <2>5. /\ s \in SinkStates /\ s.pc = "mending" /\ s.next = t.next
        /\ s.record = Record(t.next, r, "source.warning") /\ s.given = Append(t.given, "source.warning")
        /\ s.ok = t.ok /\ s.completed = t.completed /\ s.alone = t.alone /\ s.clean = t.clean
    <3>1. Gives(t, r, "source.warning", s)
      BY <2>2, <2>3, KindsGiven, GiveFields
    <3> QED BY <3>1 DEF Gives
  <2>6. GivesNext(r, s, "source.warning")
    BY <1>1, <1>3, <2>2, <2>4, <2>5 DEF GivesNext
  <2> QED BY <2>5, <2>6
<1> QED BY <1>2, <1>3

(* A sink goes on, with nothing new given to it.                           *)
GoesOn(r, s, pc) ==
  /\ runner' = runner /\ sink' = [sink EXCEPT ![r] = s] /\ s.pc = pc /\ s.given = sink[r].given
  /\ s.completed = sink[r].completed /\ s.alone = sink[r].alone /\ s.clean = sink[r].clean

LEMMA MendMakes ==
  ASSUME SinkInv, NEW r \in Runs, Mend(r)
  PROVE  \E s \in SinkStates :
           /\ sink[r].pc = "mending" /\ file' = Mended /\ GoesOn(r, s, "writing")
           /\ s.next = sink[r].next /\ s.record = sink[r].record /\ s.ok = sink[r].ok
<1>1. sink[r] \in SinkStates /\ sink[r].pc = "mending" /\ runner' = runner /\ file' = Mended
  BY DEF SinkInv, Mend
<1>2. PICK s : s = [sink[r] EXCEPT !.pc = "writing"]
  OBVIOUS
<1>3. /\ s \in SinkStates /\ s.pc = "writing" /\ s.next = sink[r].next /\ s.given = sink[r].given
      /\ s.ok = sink[r].ok /\ s.completed = sink[r].completed /\ s.alone = sink[r].alone
      /\ s.clean = sink[r].clean /\ s.record = sink[r].record
  BY <1>1, <1>2 DEF SinkStates
<1>4. sink' = [sink EXCEPT ![r] = s]
  BY <1>2 DEF Mend, Set
<1> QED BY <1>1, <1>3, <1>4 DEF GoesOn

LEMMA WriteMakes ==
  ASSUME SinkInv, NEW r \in Runs, Write(r)
  PROVE  \E s \in SinkStates :
           /\ sink[r].pc = "writing" /\ GoesOn(r, s, "reading")
           /\ \/ file' = Written(r, "ended") /\ s.next = sink[r].next + 1 /\ s.ok = sink[r].ok
              \/ file' \in Left(r) /\ s.next = sink[r].next /\ ~s.ok
<1>1. sink[r] \in SinkStates /\ sink[r].pc = "writing" /\ runner' = runner
  BY DEF SinkInv, Write
<1>2. NoRecord \in Records /\ sink[r].next + 1 \in Nat
  <2>1. NoRecord \in Records
    BY RecordIs DEF NoRecord
  <2>2. sink[r].next \in Nat
    BY <1>1, SinkFields
  <2> QED BY <2>1, <2>2
<1>3. CASE /\ file' = Written(r, "ended")
           /\ Set(r, [sink[r] EXCEPT !.pc = "reading", !.next = @ + 1, !.record = NoRecord])
  <2>1. PICK n \in Nat : n = sink[r].next + 1
    BY <1>2
  <2>2. PICK rec \in Records : rec = NoRecord
    BY <1>2
  <2>3. PICK s : s = [sink[r] EXCEPT !.pc = "reading", !.next = n, !.record = rec]
    OBVIOUS
  <2>4. /\ s \in SinkStates /\ s.pc = "reading" /\ s.next = n /\ s.given = sink[r].given
        /\ s.ok = sink[r].ok /\ s.completed = sink[r].completed /\ s.alone = sink[r].alone
        /\ s.clean = sink[r].clean
    BY <1>1, <2>3 DEF SinkStates
  <2>5. sink' = [sink EXCEPT ![r] = s]
    BY <1>3, <2>1, <2>2, <2>3 DEF Set
  <2> QED BY <1>1, <1>3, <2>1, <2>4, <2>5 DEF GoesOn
<1>4. CASE /\ file' \in Left(r)
           /\ Set(r, [sink[r] EXCEPT !.pc = "reading", !.ok = FALSE, !.record = NoRecord])
  <2>1. PICK rec \in Records : rec = NoRecord
    BY <1>2
  <2>2. PICK s : s = [sink[r] EXCEPT !.pc = "reading", !.ok = FALSE, !.record = rec]
    OBVIOUS
  <2>3. /\ s \in SinkStates /\ s.pc = "reading" /\ s.next = sink[r].next /\ s.given = sink[r].given
        /\ ~s.ok /\ s.completed = sink[r].completed /\ s.alone = sink[r].alone
        /\ s.clean = sink[r].clean
    BY <1>1, <2>2 DEF SinkStates
  <2>4. sink' = [sink EXCEPT ![r] = s]
    BY <1>4, <2>1, <2>2 DEF Set
  <2> QED BY <1>1, <1>4, <2>3, <2>4 DEF GoesOn
<1> QED BY <1>3, <1>4 DEF Write

LEMMA DieMakes ==
  ASSUME SinkInv, NEW r \in Runs, Die(r)
  PROVE  \E s \in SinkStates :
           /\ Working(r) /\ GoesOn(r, s, "dead") /\ s.next = sink[r].next /\ ~s.ok
           /\ \/ sink[r].pc = "writing" /\ file' \in Left(r)
              \/ sink[r].pc # "writing" /\ file' = file
<1>1. sink[r] \in SinkStates /\ Working(r) /\ runner' = runner
  BY DEF SinkInv, Die
<1>2. PICK rec \in Records : rec = NoRecord
  BY RecordIs DEF NoRecord
<1>3. PICK s : s = [sink[r] EXCEPT !.pc = "dead", !.ok = FALSE, !.record = rec]
  OBVIOUS
<1>4. /\ s \in SinkStates /\ s.pc = "dead" /\ s.next = sink[r].next /\ s.given = sink[r].given
      /\ ~s.ok /\ s.completed = sink[r].completed /\ s.alone = sink[r].alone
      /\ s.clean = sink[r].clean
  BY <1>1, <1>3 DEF SinkStates
<1>5. sink' = [sink EXCEPT ![r] = s]
  BY <1>2, <1>3 DEF Die, Set
<1>6. file' \in IF sink[r].pc = "writing" THEN Left(r) ELSE {file}
  BY DEF Die
<1> QED BY <1>1, <1>4, <1>5, <1>6 DEF GoesOn

(* A run begins: its sink is fresh, and who was at work is not alone.      *)
SameButAlone(q) ==
  /\ sink'[q].pc = sink[q].pc /\ sink'[q].next = sink[q].next
  /\ sink'[q].record = sink[q].record /\ sink'[q].given = sink[q].given
  /\ sink'[q].ok = sink[q].ok /\ sink'[q].completed = sink[q].completed
  /\ sink'[q].alone = (sink[q].alone /\ ~Working(q)) /\ sink'[q].clean = sink[q].clean

LEMMA BeginMakes ==
  ASSUME SinkInv, NEW r \in Runs, Begin(r)
  PROVE  /\ file' = file /\ sink' \in [Runs -> SinkStates] /\ sink[r].given = <<>>
         /\ DOMAIN runner' = Runs /\ runner'[r] # "off"
         /\ \A q \in Runs \ {r} : runner'[q] = runner[q]
         /\ \A q \in Runs \ {r} : SameButAlone(q)
         /\ sink'[r].pc = "opening" /\ sink'[r].given = <<>> /\ sink'[r].next = 0
         /\ ~sink'[r].completed
         /\ sink'[r].alone = (\A p \in Runs : ~Working(p))
<1>1. sink \in [Runs -> SinkStates] /\ file' = file
  BY DEF SinkInv, Begin
<1>2. sink[r].given = <<>>
  BY DEF SinkInv, SinkShape, Begin
<1>3. PICK a \in BOOLEAN : a = (\A p \in Runs : ~Working(p))
  OBVIOUS
<1>4. PICK t : t = [NoSink EXCEPT !.pc = "opening", !.alone = a]
  OBVIOUS
<1>5. /\ t \in SinkStates /\ t.pc = "opening" /\ t.given = <<>> /\ t.next = 0
      /\ ~t.completed /\ t.alone = a
  <2>1. NoRecord \in Records
    BY RecordIs DEF NoRecord
  <2>2. PICK rec \in Records : rec = NoRecord
    BY <2>1
  <2>3. <<>> \in Seq(Kinds)
    OBVIOUS
  <2>4. PICK none \in Seq(Kinds) : none = <<>>
    BY <2>3
  <2>5. t = [pc |-> "opening", next |-> 0, record |-> rec, given |-> none,
             ok |-> TRUE, completed |-> FALSE, alone |-> a, clean |-> TRUE]
    BY <1>4, <2>2, <2>4 DEF NoSink
  <2> QED BY <2>4, <2>5 DEF SinkStates
<1>6. sink' = [q \in Runs |-> IF q = r THEN t ELSE [sink[q] EXCEPT !.alone = @ /\ ~Working(q)]]
  BY <1>3, <1>4 DEF Begin
<1>7. ASSUME NEW q \in Runs \ {r}
      PROVE  sink'[q] \in SinkStates /\ SameButAlone(q)
  <2>1. PICK s \in SinkStates : s = sink[q]
    BY <1>1
  <2>2. PICK c \in BOOLEAN : c = (s.alone /\ ~Working(q))
    OBVIOUS
  <2>3. sink'[q] = [s EXCEPT !.alone = c]
    BY <1>6, <2>1, <2>2
  <2>4. PICK u : u = [s EXCEPT !.alone = c]
    OBVIOUS
  <2>5. /\ u \in SinkStates /\ u.pc = s.pc /\ u.next = s.next /\ u.record = s.record
        /\ u.given = s.given /\ u.ok = s.ok /\ u.completed = s.completed /\ u.alone = c
        /\ u.clean = s.clean
    BY <2>4 DEF SinkStates
  <2> QED BY <2>1, <2>2, <2>3, <2>4, <2>5 DEF SameButAlone
<1>8. sink'[r] = t /\ sink' \in [Runs -> SinkStates]
  BY <1>5, <1>6, <1>7
<1>9. DOMAIN runner' = Runs /\ runner'[r] # "off" /\ \A q \in Runs \ {r} : runner'[q] = runner[q]
  BY DEF Begin, SinkInv
<1> QED BY <1>1, <1>2, <1>3, <1>5, <1>7, <1>8, <1>9

LEMMA Bounds == MaxFrames \in Nat /\ LastRun \in Nat /\ Limit \in Nat \ {0}
OBVIOUS

(* What is about to be written.                                            *)
LEMMA UnderwayRecord ==
  ASSUME SinkInv, NEW r \in Runs, Underway(sink[r])
  PROVE  /\ Proper(sink[r].record) /\ sink[r].record.run = r /\ sink[r].record.seq = sink[r].next
         /\ sink[r].record.kind = sink[r].given[Len(sink[r].given)]
         /\ sink[r].given # <<>> /\ Len(sink[r].given) \in DOMAIN sink[r].given
         /\ IsStart(sink[r].record) <=> Len(sink[r].given) = 1
         /\ Len(sink[r].given) \in Nat /\ sink[r].next \in Nat
<1>1. PICK s \in SinkStates : s = sink[r]
  BY DEF SinkInv
<1>2. SinkShape(r, s) /\ Underway(s)
  BY <1>1 DEF SinkInv
<1>3. s.given # <<>> /\ s.given \in Seq(Kinds) /\ s.next \in Nat
  BY <1>2, SinkFields DEF SinkShape, Underway
<1>4. PICK n : n = Len(s.given)
  OBVIOUS
<1>5. n \in DOMAIN s.given /\ s.given[n] \in Kinds /\ n \in Nat
  BY <1>3, <1>4
<1>6. s.next # 0 /\ s.record = Record(s.next, r, s.given[n])
  BY <1>2, <1>3, <1>4 DEF SinkShape
<1>7. /\ s.record \in Records /\ s.record.seq = s.next /\ s.record.run = r
      /\ s.record.kind = s.given[n]
  BY <1>3, <1>5, <1>6, RecordIs
<1>8. Proper(s.record)
  BY <1>5, <1>6, <1>7 DEF Proper
<1>9. s.given[n] = "execution.started" <=> n = 1
  BY <1>2, <1>5 DEF SinkShape
<1> QED BY <1>1, <1>3, <1>4, <1>5, <1>7, <1>8, <1>9 DEF IsStart

LEMMA OpenKeepsSinks ==
  ASSUME FileOK(file), SinkInv, NEW r \in Runs, Open(r), Highest \in Nat
  PROVE  FileOK(file') /\ SinkInv'
<1>1. PICK s \in SinkStates :
        /\ sink' = [sink EXCEPT ![r] = s] /\ s.pc = "mending" /\ s.next = Highest + 1
        /\ s.record = Record(Highest + 1, r, "execution.started")
        /\ DOMAIN s.given = {1} /\ Len(s.given) = 1 /\ s.given[1] = "execution.started"
        /\ s.ok = sink[r].ok /\ s.completed = sink[r].completed
  BY OpenMakes
<1>2. sink[r].pc = "opening" /\ sink[r].given = <<>> /\ ~sink[r].completed
      /\ runner' = runner /\ file' = file
  BY OpenMakes
<1>3. s.given # <<>>
  <2>1. Len(<<>>) = 0
    OBVIOUS
  <2> QED BY <1>1, <2>1
<1>4. SinkShape(r, s)
  <2>1. 1 <= MaxFrames + 2 /\ 1 <= MaxFrames + 1
    BY Bounds
  <2>2. s.next # 0
    BY <1>1
  <2>3. \A i \in DOMAIN s.given : s.given[i] = "execution.started" <=> i = 1
    BY <1>1
  <2>4. Underway(s) => s.record = Record(s.next, r, s.given[Len(s.given)])
    BY <1>1
  <2> QED BY <1>1, <1>2, <1>3, <2>1, <2>2, <2>3, <2>4 DEF SinkShape
<1>5. SinkFile(r, sink[r], file) /\ \A q \in Runs : SinkFile(q, sink[q], file)
  BY DEF SinkInv
<1>6. SinkFile(r, s, file)
  <2>1. \A x \in Live(file) : x.run # r
    BY <1>2, <1>5 DEF SinkFile
  <2>2. \A x \in Whole(file) : x \in Live(file)
    BY LiveIsProper
  <2> QED BY <2>1, <2>2 DEF SinkFile
<1>7. runner[r] # "off"
  BY <1>2 DEF SinkInv
<1> QED BY <1>1, <1>2, <1>4, <1>5, <1>6, <1>7, SinkInvKept

LEMMA GivingKeepsSinks ==
  ASSUME FileOK(file), SinkInv, NEW r \in Runs, NEW s \in SinkStates, NEW kind \in Kinds,
         GivesNext(r, s, kind)
  PROVE  FileOK(file') /\ SinkInv'
<1>1. PICK o \in SinkStates : o = sink[r]
  BY DEF SinkInv
<1>2. /\ o.pc = "reading" /\ runner' = runner /\ file' = file
      /\ sink' = [sink EXCEPT ![r] = s] /\ s.pc = "mending" /\ s.next = o.next
      /\ s.record = Record(s.next, r, kind) /\ s.given = Append(o.given, kind)
      /\ ~o.completed /\ kind # "execution.started" /\ (s.ok => o.ok)
      /\ (~s.completed => Len(o.given) <= MaxFrames)
      /\ (s.completed /\ s.ok => kind = "process.completed")
  BY <1>1 DEF GivesNext
<1>3. SinkShape(r, o) /\ \A q \in Runs : SinkFile(q, sink[q], file)
  BY <1>1 DEF SinkInv
<1>4. PICK g \in Seq(Kinds) : g = o.given
  BY SinkFields
<1>5. PICK n \in Nat : n = Len(g)
  OBVIOUS
<1>6. g # <<>> /\ n # 0 /\ o.next # 0 /\ n <= MaxFrames + 1
  BY <1>2, <1>3, <1>4, <1>5 DEF SinkShape
<1>7. PICK h \in Seq(Kinds) : h = s.given
  BY SinkFields
<1>8. /\ Len(h) = n + 1 /\ DOMAIN h = 1..(n + 1) /\ h[n + 1] = kind /\ h # <<>>
      /\ \A i \in 1..n : h[i] = g[i] /\ i \in DOMAIN g
  BY <1>2, <1>4, <1>5, <1>7
<1>9. \A i \in DOMAIN h : h[i] = "execution.started" <=> i = 1
  <2>1. \A i \in DOMAIN g : g[i] = "execution.started" <=> i = 1
    BY <1>3, <1>4 DEF SinkShape
  <2>2. \A i \in 1..(n + 1) : i \in 1..n \/ i = n + 1
    OBVIOUS
  <2>3. n + 1 # 1
    BY <1>6
  <2> QED BY <1>2, <1>8, <2>1, <2>2, <2>3
<1>10. SinkShape(r, s)
  <2>1. n + 1 <= MaxFrames + 2 /\ (~s.completed => n + 1 <= MaxFrames + 1)
    BY <1>2, <1>4, <1>5, <1>6, Bounds
  <2>2. s.completed /\ s.ok => \E i \in DOMAIN h : h[i] = "process.completed"
    BY <1>2, <1>8
  <2>3. s.record = Record(s.next, r, h[Len(h)])
    BY <1>2, <1>8
  <2> QED BY <1>2, <1>6, <1>7, <1>8, <1>9, <2>1, <2>2, <2>3 DEF SinkShape
<1>11. SinkFile(r, s, file)
  <2>1. s.given # <<>> /\ Len(s.given) # 1
    BY <1>6, <1>7, <1>8
  <2>2. SinkFile(r, o, file)
    BY <1>1, <1>3
  <2> QED BY <1>2, <2>1, <2>2 DEF SinkFile
<1>12. runner[r] # "off"
  BY <1>1, <1>2 DEF SinkInv
<1> QED BY <1>2, <1>3, <1>10, <1>11, <1>12, SinkInvKept

LEMMA FinishingKeepsSinks ==
  ASSUME FileOK(file), SinkInv, NEW r \in Runs, NEW s \in SinkStates, Finishes(r, s)
  PROVE  FileOK(file') /\ SinkInv'
<1>1. SinkShape(r, sink[r]) /\ \A q \in Runs : SinkFile(q, sink[q], file)
  BY DEF SinkInv
<1>2. SinkShape(r, s)
  BY <1>1 DEF SinkShape, Finishes, Underway
<1>3. SinkFile(r, s, file)
  <2>1. SinkFile(r, sink[r], file) /\ s.given # <<>>
    BY <1>1, <1>2 DEF SinkShape, Finishes
  <2> QED BY <2>1 DEF SinkFile, Finishes, Underway
<1>4. runner[r] # "off"
  BY DEF SinkInv, Finishes
<1> QED BY <1>1, <1>2, <1>3, <1>4, SinkInvKept DEF Finishes

LEMMA MendKeepsSinks ==
  ASSUME FileOK(file), SinkInv, NEW r \in Runs, Mend(r)
  PROVE  FileOK(file') /\ SinkInv'
<1>1. PICK s \in SinkStates :
        /\ sink[r].pc = "mending" /\ file' = Mended /\ GoesOn(r, s, "writing")
        /\ s.next = sink[r].next /\ s.record = sink[r].record /\ s.ok = sink[r].ok
  BY MendMakes
<1>2. Grown(file, file', {})
  BY <1>1, MendedGrows
<1>3. SinkShape(r, sink[r]) /\ \A q \in Runs : SinkFile(q, sink[q], file)
  BY DEF SinkInv
<1>4. SinkShape(r, s)
  BY <1>1, <1>3 DEF SinkShape, GoesOn, Underway
<1>5. \A q \in Runs : SinkFile(q, sink[q], file')
  BY <1>2, <1>3, OtherSink
<1>6. SinkFile(r, s, file')
  <2>1. SinkFile(r, sink[r], file')
    BY <1>5
  <2> QED BY <1>1, <2>1 DEF SinkFile, GoesOn, Underway
<1>7. runner[r] # "off"
  BY <1>1 DEF SinkInv
<1>8. FileOK(file')
  BY <1>2 DEF Grown
<1> QED BY <1>1, <1>4, <1>5, <1>6, <1>7, <1>8, SinkInvKept DEF GoesOn

(* The record that is written is the highest of its run so far.            *)
LEMMA OwnRecord ==
  ASSUME FileOK(file), SinkInv, NEW r \in Runs, Underway(sink[r]), NEW new,
         Grown(file, new, {sink[r].record}), NEW s, s.given # <<>>, ~Underway(s),
         NEW n \in Nat, s.next = n, sink[r].next <= n,
         s.ok => Whole(new) = {}
  PROVE  SinkFile(r, s, new)
<1>1. PICK rec : rec = sink[r].record
  OBVIOUS
<1>2. /\ Proper(rec) /\ rec.run = r /\ rec.seq = sink[r].next /\ sink[r].next \in Nat
      /\ IsStart(rec) <=> Len(sink[r].given) = 1
  BY <1>1, UnderwayRecord
<1>3. SinkFile(r, sink[r], file)
  BY DEF SinkInv
<1>4. \A x \in Live(new) : x \in Live(file) \/ x = rec
  BY <1>1 DEF Grown
<1>5. \A x \in Live(file) : x.seq \in Nat
  BY LiveIsProper
<1>6. \A x \in Live(file) : x.run = r => x.seq <= rec.seq
  BY <1>2, <1>3 DEF SinkFile
<1>7. \A x \in Live(new) : x.run = r => x.seq <= s.next
  BY <1>2, <1>4, <1>5, <1>6
<1>8. IsStart(rec) => \A x \in Live(file) : x.run # r
  BY <1>2, <1>3 DEF SinkFile
<1>9. \A x, y \in Live(new) : x.run = r /\ y.run = r /\ IsStart(x) => x.seq <= y.seq
  <2> SUFFICES ASSUME NEW x \in Live(new), NEW y \in Live(new), x.run = r, y.run = r, IsStart(x)
               PROVE  x.seq <= y.seq
    OBVIOUS
  <2>1. CASE x = rec
    BY <1>2, <1>4, <1>8, <2>1
  <2>2. CASE x \in Live(file) /\ y = rec
    BY <1>6, <2>2
  <2>3. CASE x \in Live(file) /\ y \in Live(file)
    BY <1>3, <2>3 DEF SinkFile
  <2> QED BY <1>4, <2>1, <2>2, <2>3
<1> QED BY <1>7, <1>9 DEF SinkFile

LEMMA WritingKeepsSinks ==
  ASSUME FileOK(file), SinkInv, NEW r \in Runs, NEW s \in SinkStates, NEW pc \in {"reading", "dead"},
         sink[r].pc = "writing", GoesOn(r, s, pc),
         \/ file' = Written(r, "ended") /\ s.next = sink[r].next + 1 /\ s.ok = sink[r].ok /\ pc = "reading"
         \/ file' \in Left(r) /\ s.next = sink[r].next /\ ~s.ok
  PROVE  FileOK(file') /\ SinkInv'
<1>1. Underway(sink[r])
  BY DEF Underway
<1>2. /\ Proper(sink[r].record) /\ sink[r].record.run = r /\ sink[r].given # <<>>
      /\ sink[r].next \in Nat
  BY <1>1, UnderwayRecord
<1>3. file' \in Left(r)
  BY DEF Left
<1>4. Grown(file, file', {sink[r].record})
  BY <1>2, <1>3, LeftGrows
<1>5. SinkShape(r, sink[r]) /\ \A q \in Runs : SinkFile(q, sink[q], file)
  BY DEF SinkInv
<1>6. s.next \in Nat /\ s.next # 0 /\ sink[r].next <= s.next
  <2>1. sink[r].next # 0
    BY <1>2, <1>5 DEF SinkShape
  <2> QED BY <1>2, <2>1, SinkFields
<1>7. SinkShape(r, s)
  <2>1. s.completed /\ s.ok => sink[r].completed /\ sink[r].ok
    BY DEF GoesOn
  <2> QED BY <1>2, <1>5, <1>6, <2>1 DEF SinkShape, GoesOn, Underway
<1>8. s.ok => Whole(file') = {}
  <2>1. SUFFICES ASSUME s.ok PROVE Whole(file') = {}
    OBVIOUS
  <2>2. file' = Written(r, "ended")
    BY <2>1
  <2> QED BY <1>2, <2>2, WrittenFile
<1>9. SinkFile(r, s, file')
  <2>1. s.given # <<>> /\ ~Underway(s)
    BY <1>2 DEF GoesOn, Underway
  <2> QED BY <1>1, <1>4, <1>6, <1>8, <2>1, OwnRecord
<1>10. \A q \in Runs \ {r} : SinkFile(q, sink[q], file')
  BY <1>2, <1>4, <1>5, OtherSink
<1>11. runner[r] # "off" /\ FileOK(file')
  BY <1>4 DEF SinkInv, Grown
<1> QED BY <1>7, <1>9, <1>10, <1>11, SinkInvKept DEF GoesOn

LEMMA DieKeepsSinks ==
  ASSUME FileOK(file), SinkInv, NEW r \in Runs, Die(r)
  PROVE  FileOK(file') /\ SinkInv'
<1>1. PICK s \in SinkStates :
        /\ Working(r) /\ GoesOn(r, s, "dead") /\ s.next = sink[r].next /\ ~s.ok
        /\ \/ sink[r].pc = "writing" /\ file' \in Left(r)
           \/ sink[r].pc # "writing" /\ file' = file
  BY DieMakes
<1>2. CASE sink[r].pc = "writing" /\ file' \in Left(r)
  BY <1>1, <1>2, WritingKeepsSinks
<1>3. CASE sink[r].pc # "writing" /\ file' = file
  <2>1. SinkShape(r, sink[r]) /\ \A q \in Runs : SinkFile(q, sink[q], file)
    BY DEF SinkInv
  <2>2. SinkShape(r, s)
    BY <1>1, <2>1 DEF SinkShape, GoesOn, Underway
  <2>3. SinkFile(r, s, file)
    <3>1. SinkFile(r, sink[r], file)
      BY <2>1
    <3> QED BY <1>1, <3>1 DEF SinkFile, GoesOn, Underway
  <2>4. runner[r] # "off"
    BY <1>1 DEF SinkInv, Working
  <2> QED BY <1>1, <1>3, <2>1, <2>2, <2>3, <2>4, SinkInvKept DEF GoesOn
<1> QED BY <1>1, <1>2, <1>3

LEMMA BeginKeepsSinks ==
  ASSUME FileOK(file), SinkInv, NEW r \in Runs, Begin(r)
  PROVE  FileOK(file') /\ SinkInv'
<1>1. /\ file' = file /\ sink' \in [Runs -> SinkStates] /\ sink[r].given = <<>>
      /\ DOMAIN runner' = Runs /\ runner'[r] # "off"
      /\ \A q \in Runs \ {r} : runner'[q] = runner[q]
      /\ \A q \in Runs \ {r} :
           /\ sink'[q].pc = sink[q].pc /\ sink'[q].next = sink[q].next
           /\ sink'[q].record = sink[q].record /\ sink'[q].given = sink[q].given
           /\ sink'[q].ok = sink[q].ok /\ sink'[q].completed = sink[q].completed
      /\ sink'[r].pc = "opening" /\ sink'[r].given = <<>> /\ sink'[r].next = 0
      /\ ~sink'[r].completed
  <2>1. ASSUME NEW q \in Runs \ {r}
        PROVE  /\ sink'[q].pc = sink[q].pc /\ sink'[q].next = sink[q].next
               /\ sink'[q].record = sink[q].record /\ sink'[q].given = sink[q].given
               /\ sink'[q].ok = sink[q].ok /\ sink'[q].completed = sink[q].completed
    <3>1. SameButAlone(q)
      BY BeginMakes
    <3> QED BY <3>1 DEF SameButAlone
  <2>2. /\ file' = file /\ sink' \in [Runs -> SinkStates] /\ sink[r].given = <<>>
        /\ DOMAIN runner' = Runs /\ runner'[r] # "off"
        /\ \A q \in Runs \ {r} : runner'[q] = runner[q]
        /\ sink'[r].pc = "opening" /\ sink'[r].given = <<>> /\ sink'[r].next = 0
        /\ ~sink'[r].completed
    BY BeginMakes
  <2> QED BY <2>1, <2>2
<1>2. \A q \in Runs : SinkShape(q, sink[q]) /\ SinkFile(q, sink[q], file)
  BY DEF SinkInv
<1>3. ASSUME NEW q \in Runs \ {r}
      PROVE  SinkShape(q, sink'[q]) /\ SinkFile(q, sink'[q], file')
  <2>1. PICK s : s = sink'[q]
    OBVIOUS
  <2>2. /\ s.pc = sink[q].pc /\ s.next = sink[q].next
        /\ s.record = sink[q].record /\ s.given = sink[q].given
        /\ s.ok = sink[q].ok /\ s.completed = sink[q].completed
    BY <1>1, <2>1
  <2>3. SinkShape(q, s)
    BY <1>2, <2>2 DEF SinkShape, Underway
  <2>4. SinkFile(q, s, file)
    <3>1. SinkFile(q, sink[q], file)
      BY <1>2
    <3> QED BY <2>2, <3>1 DEF SinkFile, Underway
  <2> QED BY <1>1, <2>1, <2>3, <2>4
<1>4. SinkShape(r, sink'[r]) /\ SinkFile(r, sink'[r], file')
  <2>1. PICK s \in SinkStates : s = sink'[r]
    BY <1>1
  <2>2. s.pc = "opening" /\ s.given = <<>> /\ s.next = 0 /\ ~s.completed
    BY <1>1, <2>1
  <2>3. \A x \in Live(file) : x.run # r
    <3>1. SinkFile(r, sink[r], file)
      BY <1>2
    <3> QED BY <1>1, <3>1 DEF SinkFile
  <2>4. SinkShape(r, s)
    BY <2>2, Bounds DEF SinkShape, Underway
  <2>5. SinkFile(r, s, file)
    BY <2>3, LiveIsProper DEF SinkFile
  <2> QED BY <1>1, <2>1, <2>4, <2>5
<1>5. \A q \in Runs : runner'[q] = "off" => sink'[q].pc = "off"
  BY <1>1 DEF SinkInv
<1>6. \A q \in Runs : SinkShape(q, sink'[q]) /\ SinkFile(q, sink'[q], file')
  BY <1>3, <1>4
<1> QED BY <1>1, <1>5, <1>6 DEF SinkInv

-----------------------------------------------------------------------------
(* How high sequences can be: every run that has begun to write takes its  *)
(* share, beyond what the file held when it opened it.                     *)

PerRun == MaxFrames + 3
Begun == {r \in Runs : sink[r].given # <<>>}
Room == Cardinality(Begun) * PerRun

RoomFor(s, room) ==
  /\ s.next + PerRun <= room + Len(s.given) + 1
  /\ Underway(s) => s.next + PerRun <= room + Len(s.given)
BoundInv ==
  /\ \A r \in Begun : RoomFor(sink[r], Room)
  /\ \A x \in Live(file) : x.seq <= Room

LEMMA RoomSize ==
  /\ IsFiniteSet(Begun) /\ Cardinality(Begun) \in Nat /\ Room \in Nat /\ PerRun \in Nat
  /\ Room <= LastRun * PerRun
<1>1. IsFiniteSet(Runs) /\ Cardinality(Runs) = LastRun
  <2>1. LastRun = 0 \/ 1 <= LastRun
    BY Bounds
  <2>2. IsFiniteSet(1..LastRun) /\ Cardinality(1..LastRun) = IF 1 > LastRun THEN 0 ELSE LastRun - 1 + 1
    <3>1. 1 \in Int /\ LastRun \in Int
      BY Bounds
    <3> QED BY <3>1, FS_Interval, Zenon
  <2> QED BY <2>1, <2>2, Bounds DEF Runs
<1>2. Begun \subseteq Runs
  BY DEF Begun
<1>3. IsFiniteSet(Begun) /\ Cardinality(Begun) <= LastRun
  BY <1>1, <1>2, FS_Subset
<1>4. Cardinality(Begun) \in Nat
  BY <1>3, FS_CardinalityType
<1>5. PerRun \in Nat
  BY Bounds DEF PerRun
<1>6. PICK d \in Nat : LastRun = Cardinality(Begun) + d
  <2>1. LastRun - Cardinality(Begun) \in Nat /\ LastRun = Cardinality(Begun) + (LastRun - Cardinality(Begun))
    BY <1>3, <1>4, Bounds
  <2> QED BY <2>1
<1>7. \A c, e, p \in Nat : c * p \in Nat /\ e * p \in Nat /\ (c + e) * p = c * p + e * p
  OBVIOUS
<1>8. Room \in Nat /\ Room <= LastRun * PerRun
  <2>1. LastRun * PerRun = Room + d * PerRun /\ Room \in Nat /\ d * PerRun \in Nat
    BY <1>4, <1>5, <1>6, <1>7 DEF Room
  <2> HIDE DEF Room, PerRun
  <2>2. PICK m \in Nat : m = d * PerRun
    BY <2>1
  <2> QED BY <2>1, <2>2
<1> QED BY <1>3, <1>4, <1>5, <1>8

LEMMA LiveHasRoom ==
  ASSUME FileOK(file), BoundInv
  PROVE  Highest \in Nat /\ Highest <= Room /\ \A x \in Ended(file) : x.seq <= Highest
<1>1. Room \in Nat /\ \A x \in Live(file) : x.seq <= Room
  BY RoomSize DEF BoundInv
<1> HIDE DEF Room
<1> QED BY <1>1, HighestIs

(* What is about to be written has room.                                   *)
LEMMA UnderwayHasRoom ==
  ASSUME SinkInv, BoundInv, NEW r \in Runs, Underway(sink[r])
  PROVE  sink[r].record.seq <= Room
<1>1. PICK s \in SinkStates : s = sink[r]
  BY DEF SinkInv
<1>2. s.record.seq = s.next /\ s.given # <<>> /\ Underway(s)
  BY <1>1, UnderwayRecord
<1>3. s.next \in Nat /\ Len(s.given) \in Nat
  BY SinkFields
<1>4. Len(s.given) <= MaxFrames + 2
  BY <1>1 DEF SinkInv, SinkShape
<1>5. s.next + PerRun <= Room + Len(s.given)
  BY <1>1, <1>2 DEF BoundInv, Begun, RoomFor
<1>6. Room \in Nat
  BY RoomSize
<1>7. s.next <= Room
  <2> HIDE DEF Room
  <2> QED BY <1>3, <1>4, <1>5, <1>6, Bounds DEF PerRun
<1> QED BY <1>1, <1>2, <1>7

LEMMA BoundKept ==
  ASSUME SinkInv, BoundInv, NEW r \in Runs, NEW s \in SinkStates, sink' = [sink EXCEPT ![r] = s],
         s.given = <<>> <=> sink[r].given = <<>>,
         s.given # <<>> => RoomFor(s, Room),
         \A x \in Live(file') : x \in Live(file) \/ x.seq <= Room
  PROVE  BoundInv'
<1>1. sink'[r] = s /\ \A q \in Runs \ {r} : sink'[q] = sink[q]
  BY DEF SinkInv
<1>2. Begun' = Begun
  BY <1>1 DEF Begun
<1>3. Room' = Room
  BY <1>2 DEF Room
<1>4. \A q \in Begun : q \in Runs /\ sink[q].given # <<>>
  BY DEF Begun
<1>5. \A q \in Begun : RoomFor(sink'[q], Room)
  <2> SUFFICES ASSUME NEW q \in Begun PROVE RoomFor(sink'[q], Room)
    OBVIOUS
  <2>1. CASE q = r
    BY <1>1, <1>4, <2>1
  <2>2. CASE q # r
    <3>1. sink'[q] = sink[q]
      BY <1>1, <1>4, <2>2
    <3> QED BY <3>1 DEF BoundInv
  <2> QED BY <2>1, <2>2
<1>6. \A x \in Live(file') : x.seq <= Room
  BY DEF BoundInv
<1>7. (\A q \in Begun : RoomFor(sink[q], Room))'
  BY <1>2, <1>3, <1>5
<1> QED BY <1>3, <1>6, <1>7 DEF BoundInv

LEMMA OpenKeepsBound ==
  ASSUME FileOK(file), SinkInv, BoundInv, NEW r \in Runs, Open(r)
  PROVE  BoundInv'
<1>1. Highest \in Nat /\ Highest <= Room
  BY LiveHasRoom
<1>2. PICK s \in SinkStates :
        /\ sink' = [sink EXCEPT ![r] = s] /\ s.pc = "mending" /\ s.next = Highest + 1
        /\ Len(s.given) = 1
  BY <1>1, OpenMakes
<1>3. sink[r].given = <<>> /\ file' = file
  BY <1>1, OpenMakes
<1>4. s.given # <<>>
  <2>1. PICK n : n = Len(s.given)
    OBVIOUS
  <2>2. n = 1
    BY <1>2, <2>1
  <2>3. s.given = <<>> => n = 0
    BY <2>1
  <2> QED BY <2>2, <2>3
<1>5. sink'[r] = s /\ \A q \in Runs \ {r} : sink'[q] = sink[q]
  BY <1>2 DEF SinkInv
<1>6. Begun' = Begun \cup {r} /\ r \notin Begun
  BY <1>3, <1>4, <1>5 DEF Begun
<1>7. Room' = Room + PerRun /\ Room \in Nat /\ PerRun \in Nat
  <2>1. Cardinality(Begun') = Cardinality(Begun) + 1 /\ Cardinality(Begun) \in Nat /\ PerRun \in Nat
    BY <1>6, RoomSize, FS_AddElement
  <2>2. \A c, p \in Nat : (c + 1) * p = c * p + p
    OBVIOUS
  <2>3. Room' = Cardinality(Begun') * PerRun
    BY DEF Room, PerRun
  <2>4. (Cardinality(Begun) + 1) * PerRun = Cardinality(Begun) * PerRun + PerRun
    BY <2>1, <2>2
  <2> QED BY <2>1, <2>3, <2>4, RoomSize DEF Room
<1>8. PICK room \in Nat : room = Room
  BY <1>7
<1>9. PICK p \in Nat : p = PerRun
  BY <1>7
<1>10. ASSUME NEW q \in Begun \ {r} PROVE RoomFor(sink'[q], Room')
  <2>1. PICK t \in SinkStates : t = sink[q]
    BY DEF SinkInv, Begun
  <2>2. sink'[q] = t
    BY <1>5, <2>1 DEF Begun
  <2>3. RoomFor(t, room)
    BY <1>8, <2>1 DEF BoundInv
  <2>4. RoomFor(t, room + p)
    <3>1. /\ t.next + p <= room + Len(t.given) + 1
          /\ Underway(t) => t.next + p <= room + Len(t.given)
      BY <1>9, <2>3 DEF RoomFor
    <3>2. t.next \in Nat /\ Len(t.given) \in Nat
      BY SinkFields
    <3>3. PICK k \in Nat : k = t.next
      BY <3>2
    <3>4. PICK n \in Nat : n = Len(t.given)
      BY <3>2
    <3>5. k + p <= room + n + 1 /\ (Underway(t) => k + p <= room + n)
      BY <3>1, <3>3, <3>4
    <3>6. k + p <= room + p + n + 1 /\ (Underway(t) => k + p <= room + p + n)
      BY <3>5
    <3> QED BY <1>9, <3>3, <3>4, <3>6 DEF RoomFor
  <2> QED BY <1>7, <1>8, <1>9, <2>2, <2>4
<1>11. RoomFor(sink'[r], Room')
  <2>1. s.next + p <= room + p + Len(s.given)
    <3>1. PICK h \in Nat : h = Highest
      BY <1>1
    <3>2. s.next = h + 1 /\ h <= room
      BY <1>1, <1>2, <1>8, <3>1
    <3> QED BY <1>2, <3>2
  <2>2. s.next + p <= room + p + Len(s.given) + 1
    BY <1>2, <2>1, SinkFields
  <2>3. RoomFor(s, room + p)
    BY <1>9, <2>1, <2>2 DEF RoomFor
  <2> QED BY <1>5, <1>7, <1>8, <1>9, <2>3
<1>12. \A q \in Begun' : RoomFor(sink'[q], Room')
  BY <1>6, <1>10, <1>11
<1>13. \A x \in Live(file') : x.seq <= Room'
  <2>1. \A x \in Live(file) : x.seq \in Nat /\ x.seq <= room
    BY <1>8, LiveIsProper DEF BoundInv
  <2>2. \A x \in Live(file) : x.seq <= room + p
    BY <2>1
  <2> QED BY <1>3, <1>7, <1>8, <1>9, <2>2
<1>14. (\A q \in Begun : RoomFor(sink[q], Room))'
  BY <1>12
<1> QED BY <1>13, <1>14 DEF BoundInv

LEMMA SinksKeepBound ==
  ASSUME FileOK(file), SinkInv, BoundInv, NEW r \in Runs,
         Sink(r) \/ Die(r) \/ Begin(r) \/ Complete(r) \/ Kill(r)
  PROVE  BoundInv'
<1>1. PICK room \in Nat : room = Room
  BY RoomSize
<1>2. PICK p \in Nat : p = PerRun
  BY RoomSize
<1>3. PICK o \in SinkStates : o = sink[r]
  BY DEF SinkInv
<1>4. /\ o.given # <<>> => RoomFor(o, room)
      /\ o.next \in Nat /\ Len(o.given) \in Nat
      /\ \A x \in Live(file) : x.seq <= room
  BY <1>1, <1>3, SinkFields DEF BoundInv, Begun
<1>5. CASE Open(r)
  BY <1>5, OpenKeepsBound
<1>6. ASSUME NEW s \in SinkStates, NEW kind \in Kinds, GivesNext(r, s, kind) PROVE BoundInv'
  <2>1. /\ o.pc = "reading" /\ file' = file
        /\ sink' = [sink EXCEPT ![r] = s] /\ s.pc = "mending" /\ s.next = o.next
        /\ s.given = Append(o.given, kind)
    BY <1>3, <1>6 DEF GivesNext
  <2>2. o.given # <<>>
    BY <1>3, <2>1 DEF SinkInv, SinkShape
  <2>3. s.given # <<>> /\ Len(s.given) = Len(o.given) + 1
    <3>1. PICK g \in Seq(Kinds) : g = o.given
      BY SinkFields
    <3>2. Append(g, kind) # <<>> /\ Len(Append(g, kind)) = Len(g) + 1
      OBVIOUS
    <3> QED BY <2>1, <3>1, <3>2
  <2>4. RoomFor(s, room)
    <3>1. o.next + p <= room + Len(o.given) + 1
      BY <1>2, <1>4, <2>2 DEF RoomFor
    <3>2. s.next + p <= room + Len(s.given)
      BY <1>4, <2>1, <2>3, <3>1
    <3>3. s.next + p <= room + Len(s.given) + 1
      BY <1>4, <2>1, <2>3, <3>2
    <3> QED BY <1>2, <3>2, <3>3 DEF RoomFor
  <2> QED BY <1>1, <1>3, <2>1, <2>2, <2>3, <2>4, BoundKept
<1>7. ASSUME NEW line \in Lines \cup {"process.completed"}, Take(r, line) PROVE BoundInv'
  BY <1>6, <1>7, TakeMakes
<1>8. CASE EndOfInput(r)
  <2>1. PICK s \in SinkStates : Finishes(r, s) \/ GivesNext(r, s, "source.warning")
    BY <1>8, EndOfInputMakes
  <2>2. CASE GivesNext(r, s, "source.warning")
    BY <1>6, <2>2, KindsGiven
  <2>3. CASE Finishes(r, s)
    <3>1. /\ o.pc = "reading" /\ file' = file /\ sink' = [sink EXCEPT ![r] = s]
          /\ s.pc = "ended" /\ s.next = o.next /\ s.given = o.given
      BY <1>3, <2>3 DEF Finishes
    <3>2. s.given # <<>> => RoomFor(s, room)
      BY <1>4, <3>1 DEF RoomFor, Underway
    <3> QED BY <1>1, <1>3, <3>1, <3>2, BoundKept
  <2> QED BY <2>1, <2>2, <2>3
<1>9. CASE Mend(r)
  <2>1. PICK s \in SinkStates :
          /\ sink[r].pc = "mending" /\ file' = Mended /\ GoesOn(r, s, "writing")
          /\ s.next = sink[r].next
    BY <1>9, MendMakes
  <2>2. /\ sink' = [sink EXCEPT ![r] = s] /\ s.pc = "writing" /\ o.pc = "mending"
        /\ s.next = o.next /\ s.given = o.given
    BY <1>3, <2>1 DEF GoesOn
  <2>3. s.given # <<>> => RoomFor(s, room)
    BY <1>4, <2>2 DEF RoomFor, Underway
  <2>4. \A x \in Live(file') : x \in Live(file)
    BY <2>1, MendedGrows DEF Grown
  <2> QED BY <1>1, <1>3, <2>2, <2>3, <2>4, BoundKept
<1>10. ASSUME NEW s \in SinkStates, NEW pc \in {"reading", "dead"},
              sink[r].pc = "writing", GoesOn(r, s, pc), file' \in Left(r),
              s.next = sink[r].next \/ s.next = sink[r].next + 1
       PROVE  BoundInv'
  <2>1. Underway(o) /\ Underway(sink[r]) /\ ~Underway(s) /\ sink' = [sink EXCEPT ![r] = s]
        /\ s.given = o.given
    BY <1>3, <1>10 DEF Underway, GoesOn
  <2>2. Proper(sink[r].record) /\ sink[r].record.seq <= room /\ o.given # <<>>
    BY <1>1, <1>3, <2>1, UnderwayRecord, UnderwayHasRoom
  <2>3. RoomFor(s, room)
    <3>1. o.next + p <= room + Len(o.given)
      BY <1>2, <1>4, <2>1, <2>2 DEF RoomFor
    <3>2. s.next = o.next \/ s.next = o.next + 1
      BY <1>3, <1>10
    <3>3. o.next + 1 + p <= room + Len(o.given) + 1 /\ o.next + p <= room + Len(o.given) + 1
      BY <1>4, <3>1
    <3>4. s.next + p <= room + Len(s.given) + 1
      BY <2>1, <3>2, <3>3
    <3> QED BY <1>2, <2>1, <3>4 DEF RoomFor
  <2>4. \A x \in Live(file') : x \in Live(file) \/ x.seq <= room
    <3>1. Grown(file, file', {sink[r].record})
      BY <1>10, <2>2, LeftGrows
    <3> QED BY <2>2, <3>1 DEF Grown
  <2> QED BY <1>1, <1>3, <2>1, <2>2, <2>3, <2>4, BoundKept
<1>11. CASE Write(r)
  <2>1. PICK s \in SinkStates :
          /\ sink[r].pc = "writing" /\ GoesOn(r, s, "reading")
          /\ \/ file' = Written(r, "ended") /\ s.next = sink[r].next + 1
             \/ file' \in Left(r) /\ s.next = sink[r].next
    BY <1>11, WriteMakes
  <2>2. file' \in Left(r)
    BY <2>1 DEF Left
  <2> QED BY <1>10, <2>1, <2>2
<1>12. CASE Die(r)
  <2>1. PICK s \in SinkStates :
          /\ GoesOn(r, s, "dead") /\ s.next = sink[r].next
          /\ \/ sink[r].pc = "writing" /\ file' \in Left(r)
             \/ sink[r].pc # "writing" /\ file' = file
    BY <1>12, DieMakes
  <2>2. CASE sink[r].pc = "writing" /\ file' \in Left(r)
    BY <1>10, <2>1, <2>2
  <2>3. CASE sink[r].pc # "writing" /\ file' = file
    <3>1. sink' = [sink EXCEPT ![r] = s] /\ s.next = o.next /\ s.given = o.given /\ ~Underway(s)
      BY <1>3, <2>1 DEF GoesOn, Underway
    <3>2. s.given # <<>> => RoomFor(s, room)
      BY <1>4, <3>1 DEF RoomFor
    <3> QED BY <1>1, <1>3, <2>3, <3>1, <3>2, BoundKept
  <2> QED BY <2>1, <2>2, <2>3
<1>13. CASE Begin(r)
  <2>1. file' = file /\ sink[r].given = <<>> /\ sink'[r].given = <<>>
    BY <1>13, BeginMakes
  <2>2. ASSUME NEW q \in Runs \ {r}
        PROVE  /\ sink'[q].pc = sink[q].pc /\ sink'[q].next = sink[q].next
               /\ sink'[q].given = sink[q].given
    <3>1. SameButAlone(q)
      BY <1>13, BeginMakes
    <3> QED BY <3>1 DEF SameButAlone
  <2>3. Begun' = Begun /\ r \notin Begun
    BY <2>1, <2>2 DEF Begun
  <2>4. Room' = Room
    BY <2>3 DEF Room
  <2>5. \A q \in Begun : RoomFor(sink'[q], Room)
    <3> SUFFICES ASSUME NEW q \in Begun PROVE RoomFor(sink'[q], Room)
      OBVIOUS
    <3>1. q \in Runs \ {r} /\ RoomFor(sink[q], Room)
      BY <2>3 DEF Begun, BoundInv
    <3>2. PICK t : t = sink'[q]
      OBVIOUS
    <3>3. t.pc = sink[q].pc /\ t.next = sink[q].next /\ t.given = sink[q].given
      BY <2>2, <3>1, <3>2
    <3>4. RoomFor(t, Room)
      BY <3>1, <3>3 DEF RoomFor, Underway
    <3> QED BY <3>2, <3>4
  <2>6. \A x \in Live(file') : x.seq <= Room'
    BY <2>1, <2>4 DEF BoundInv
  <2>7. (\A q \in Begun : RoomFor(sink[q], Room))'
    BY <2>3, <2>4, <2>5
  <2> QED BY <2>6, <2>7 DEF BoundInv
<1>14. CASE Complete(r) \/ Kill(r)
  <2>1. sink' = sink /\ file' = file
    BY <1>14 DEF Complete, Kill
  <2> QED BY <2>1 DEF BoundInv, Begun, Room
<1> QED BY <1>5, <1>7, <1>8, <1>9, <1>11, <1>12, <1>13, <1>14 DEF Sink

-----------------------------------------------------------------------------
(* Replay.  What has been received and what is on the wire are, in order,  *)
(* the shown records of the wanted runs up to where they go.               *)

WantedUpTo(from, to) == {x \in Shown(file) : x.run \in Wanted /\ from < x.seq /\ x.seq <= to}

ReplayInv ==
  /\ got \in Seq(Records) /\ Increasing(got)
  /\ DOMAIN server = {"cursor", "wire"} /\ server = [cursor |-> server.cursor, wire |-> server.wire]
  /\ server.cursor \in Nat /\ server.wire \in Seq(Records) /\ Increasing(server.wire)
  /\ ToSet(got) = WantedUpTo(0, LastReceived)
  /\ ToSet(server.wire) = WantedUpTo(LastReceived, server.cursor)
  /\ LastReceived \in Nat /\ LastReceived <= server.cursor
  /\ server.cursor = 0 \/ \E x \in Shown(file) : x.seq = server.cursor

LEMMA PrefixIsUpTo ==
  ASSUME NEW s \in Seq(Records), Increasing(s), NEW k \in 1..Len(s), NEW t, t = SubSeq(s, 1, k)
  PROVE  /\ t \in Seq(Records) /\ Increasing(t) /\ Last(t) \in ToSet(s) /\ Last(t) \in ToSet(t)
         /\ \A x : x \in ToSet(t) <=> x \in ToSet(s) /\ x.seq <= Last(t).seq
<1>1. /\ Len(t) = k /\ DOMAIN t = 1..k /\ t \in Seq(Records) /\ k \in Nat /\ k >= 1
      /\ \A i \in 1..k : t[i] = s[i]
  OBVIOUS
<1>2. /\ DOMAIN s = 1..Len(s) /\ \A i \in 1..Len(s) : s[i] \in Records /\ s[i].seq \in Nat
      /\ \A i \in 1..k : i \in 1..Len(s) /\ i <= k
      /\ \A i \in 1..Len(s) : i <= k => i \in 1..k
      /\ k \in 1..k
  BY RecordFields
<1>3. Last(t) = s[k]
  BY <1>1, <1>2 DEF Last
<1>4. Increasing(t)
  BY <1>1, <1>2 DEF Increasing
<1>5. Last(t) \in ToSet(s) /\ Last(t) \in ToSet(t)
  BY <1>1, <1>2, <1>3 DEF ToSet
<1>6. \A i \in 1..Len(s) : i \in 1..k <=> s[i].seq <= s[k].seq
  <2> SUFFICES ASSUME NEW i \in 1..Len(s) PROVE i \in 1..k <=> s[i].seq <= s[k].seq
    OBVIOUS
  <2>1. i < k => s[i].seq < s[k].seq
    BY <1>2 DEF Increasing
  <2>2. i > k => s[k].seq < s[i].seq
    BY <1>2 DEF Increasing
  <2>3. i < k \/ i = k \/ i > k
    BY <1>1
  <2> QED BY <1>1, <1>2, <2>1, <2>2, <2>3
<1>7. \A x : x \in ToSet(t) <=> x \in ToSet(s) /\ x.seq <= Last(t).seq
  <2>1. ToSet(t) = {s[i] : i \in 1..k}
    BY <1>1 DEF ToSet
  <2>2. ToSet(s) = {s[i] : i \in 1..Len(s)}
    BY <1>2 DEF ToSet
  <2> QED BY <1>2, <1>3, <1>6, <2>1, <2>2
<1> QED BY <1>1, <1>4, <1>5, <1>7

LEMMA HeadAndTail ==
  ASSUME NEW s \in Seq(Records), Increasing(s), s # <<>>
  PROVE  /\ Head(s) \in ToSet(s) /\ \A x \in ToSet(s) : x = Head(s) \/ Head(s).seq < x.seq
         /\ Tail(s) \in Seq(Records) /\ Increasing(Tail(s))
         /\ ToSet(Tail(s)) = {x \in ToSet(s) : Head(s).seq < x.seq}
<1>1. PICK n \in Nat : n = Len(s)
  OBVIOUS
<1>2. PICK t : t = Tail(s)
  OBVIOUS
<1>3. /\ n >= 1 /\ DOMAIN s = 1..n /\ \A i \in 1..n : s[i] \in Records /\ s[i].seq \in Nat
  BY <1>1, RecordFields
<1>4. /\ t \in Seq(Records) /\ DOMAIN t = 1..(n - 1) /\ \A i \in 1..(n - 1) : t[i] = s[i + 1]
  BY <1>1, <1>2
<1>5. Head(s) = s[1] /\ 1 \in 1..n
  BY <1>3
<1>6. \A i \in 1..n : i = 1 \/ (1 < i /\ i - 1 \in 1..(n - 1) /\ i = (i - 1) + 1)
  BY <1>3
<1>7. \A i \in 1..(n - 1) : i + 1 \in 1..n /\ 1 < i + 1 /\ i \in Nat
  BY <1>3
<1>8. \A i \in 1..n : i # 1 => s[1].seq < s[i].seq
  BY <1>3, <1>5, <1>6 DEF Increasing
<1>9. ToSet(s) = {s[i] : i \in 1..n} /\ ToSet(t) = {t[i] : i \in 1..(n - 1)}
  BY <1>3, <1>4 DEF ToSet
<1>10. Head(s) \in ToSet(s) /\ \A x \in ToSet(s) : x = Head(s) \/ Head(s).seq < x.seq
  BY <1>5, <1>8, <1>9
<1>11. Increasing(t)
  <2> SUFFICES ASSUME NEW i \in DOMAIN t, NEW j \in DOMAIN t, i < j PROVE t[i].seq < t[j].seq
    BY DEF Increasing
  <2>1. i + 1 \in 1..n /\ j + 1 \in 1..n /\ i + 1 < j + 1
    BY <1>4, <1>7
  <2> QED BY <1>3, <1>4, <2>1 DEF Increasing
<1>12. \A x \in ToSet(t) : x \in ToSet(s) /\ s[1].seq < x.seq
  BY <1>4, <1>7, <1>8, <1>9
<1>13. ASSUME NEW x \in ToSet(s), s[1].seq < x.seq PROVE x \in ToSet(t)
  <2>1. PICK i \in 1..n : x = s[i]
    BY <1>9
  <2>2. i # 1
    BY <1>3, <1>5, <1>13, <2>1
  <2>3. PICK j \in 1..(n - 1) : i = j + 1
    BY <1>6, <2>2
  <2> QED BY <1>4, <1>9, <2>1, <2>3
<1> QED BY <1>2, <1>4, <1>5, <1>10, <1>11, <1>12, <1>13

(* A record that becomes readable comes after all that was served.         *)
LEMMA GrowingKeepsReplay ==
  ASSUME FileOK(file), ReplayInv, NEW recs, Grown(file, file', recs), UNCHANGED reading
  PROVE  ReplayInv'
<1>1. server' = server /\ got' = got /\ LastReceived' = LastReceived
  BY DEF reading, LastReceived
<1>2. CASE Shown(file') = Shown(file)
  BY <1>1, <1>2 DEF ReplayInv, WantedUpTo
<1>3. ASSUME NEW rec, Shown(file') = Shown(file) \cup {rec},
             \A x \in Ended(file) : x.seq < rec.seq
      PROVE  ReplayInv'
  <2>1. rec.seq \in Nat /\ rec.seq # 0
    <3>1. FileOK(file') /\ rec \in Shown(file')
      BY <1>3 DEF Grown
    <3> QED BY <3>1, LiveIsProper DEF Proper
  <2>2. server.cursor < rec.seq
    <3>1. \A x \in Shown(file) : x.seq < rec.seq
      BY <1>3, LiveIsProper
    <3> QED BY <2>1, <3>1 DEF ReplayInv
  <2>3. ~(rec.seq <= server.cursor) /\ ~(rec.seq <= LastReceived)
    BY <2>1, <2>2 DEF ReplayInv
  <2>4. WantedUpTo(0, LastReceived)' = WantedUpTo(0, LastReceived)
    BY <1>1, <1>3, <2>3 DEF WantedUpTo
  <2>5. WantedUpTo(LastReceived, server.cursor)' = WantedUpTo(LastReceived, server.cursor)
    BY <1>1, <1>3, <2>3 DEF WantedUpTo
  <2>6. server.cursor = 0 \/ \E x \in Shown(file') : x.seq = server.cursor
    BY <1>3 DEF ReplayInv
  <2> QED BY <1>1, <2>4, <2>5, <2>6 DEF ReplayInv
<1> QED BY <1>2, <1>3 DEF Grown

LEMMA ReplayGives ==
  ASSUME FileOK(file), NEW after \in Nat, NEW found, found = Replay(after)
  PROVE  /\ found \in Seq(Records) /\ Increasing(found)
         /\ ToSet(found) = {x \in Shown(file) : x.run \in Wanted /\ after < x.seq}
<1>1. PICK seen : seen = Visible
  OBVIOUS
<1>2. seen \in Seq(Records) /\ Increasing(seen) /\ ToSet(seen) = Shown(file)
  BY <1>1, ReadIsOrdered DEF Visible, FileOK
<1>3. PICK set : set = {rec \in ToSet(seen) : rec.seq > after /\ rec.run \in Wanted}
  OBVIOUS
<1>4. found = Among(seen, set)
  BY <1>1, <1>3 DEF Replay
<1>5. found \in Seq(Records) /\ Increasing(found) /\ ToSet(found) = ToSet(seen) \cap set
  BY <1>2, <1>4, AmongIsOrdered
<1>6. \A x \in Shown(file) : x.seq > after <=> after < x.seq
  BY LiveIsProper
<1> QED BY <1>2, <1>3, <1>5, <1>6

LEMMA ServeKeepsReplay ==
  ASSUME FileOK(file), ReplayInv, Serve
  PROVE  ReplayInv'
<1>1. PICK found : found = Replay(server.cursor)
  OBVIOUS
<1>2. server.cursor \in Nat /\ LastReceived \in Nat /\ LastReceived <= server.cursor
  BY DEF ReplayInv
<1>3. /\ found \in Seq(Records) /\ Increasing(found)
      /\ ToSet(found) = {x \in Shown(file) : x.run \in Wanted /\ server.cursor < x.seq}
  BY <1>1, <1>2, ReplayGives
<1>4. PICK k : k = IF Len(found) < Limit THEN Len(found) ELSE Limit
  OBVIOUS
<1>5. found # <<>> /\ server.wire = <<>> /\ got' = got /\ file' = file
  BY <1>1 DEF Serve, store
<1>6. k \in 1..Len(found)
  BY <1>3, <1>4, <1>5, Bounds
<1>7. PICK batch : batch = SubSeq(found, 1, k)
  OBVIOUS
<1>8. /\ batch \in Seq(Records) /\ Increasing(batch) /\ Last(batch) \in ToSet(found)
      /\ \A x : x \in ToSet(batch) <=> x \in ToSet(found) /\ x.seq <= Last(batch).seq
  BY <1>3, <1>6, <1>7, PrefixIsUpTo
<1>9. PICK c : c = Last(batch).seq
  OBVIOUS
<1>10. server' = [cursor |-> c, wire |-> batch]
  BY <1>1, <1>4, <1>7, <1>9 DEF Serve
<1>11. server'.cursor = c /\ server'.wire = batch /\ DOMAIN server' = {"cursor", "wire"}
  BY <1>10
<1>12. c \in Nat /\ server.cursor < c /\ \E x \in Shown(file) : x.seq = c
  BY <1>3, <1>8, <1>9, LiveIsProper
<1>13. WantedUpTo(LastReceived, server.cursor) = {}
  <2>1. ToSet(<<>>) = {}
    BY DEF ToSet
  <2> QED BY <1>5, <2>1 DEF ReplayInv
<1>14. ToSet(batch) = WantedUpTo(LastReceived, c)
  <2>1. \A x \in Shown(file) : x.seq \in Nat
    BY LiveIsProper
  <2>2. \A x \in Shown(file) : x.run \in Wanted /\ LastReceived < x.seq => server.cursor < x.seq
    BY <1>2, <1>13, <2>1 DEF WantedUpTo
  <2>3. \A x \in Shown(file) : server.cursor < x.seq => LastReceived < x.seq
    BY <1>2, <2>1
  <2> QED BY <1>3, <1>8, <1>9, <2>2, <2>3 DEF WantedUpTo
<1>15. LastReceived' = LastReceived /\ Shown(file') = Shown(file)
  BY <1>5 DEF LastReceived
<1>16. WantedUpTo(0, LastReceived)' = WantedUpTo(0, LastReceived)
  BY <1>15 DEF WantedUpTo
<1>17. WantedUpTo(LastReceived, server.cursor)' = WantedUpTo(LastReceived, c)
  BY <1>11, <1>15 DEF WantedUpTo
<1>18. LastReceived <= c
  BY <1>2, <1>12
<1> QED BY <1>2, <1>5, <1>8, <1>10, <1>11, <1>12, <1>14, <1>15, <1>16, <1>17, <1>18 DEF ReplayInv

LEMMA ReceiveKeepsReplay ==
  ASSUME FileOK(file), ReplayInv, Receive
  PROVE  ReplayInv'
<1>1. PICK wire : wire = server.wire
  OBVIOUS
<1>2. PICK c \in Nat : c = server.cursor
  BY DEF ReplayInv
<1>3. PICK last \in Nat : last = LastReceived /\ last <= c
  BY <1>2 DEF ReplayInv
<1>4. /\ wire \in Seq(Records) /\ Increasing(wire) /\ wire # <<>>
      /\ ToSet(wire) = WantedUpTo(last, c) /\ ToSet(got) = WantedUpTo(0, last)
      /\ got \in Seq(Records) /\ Increasing(got)
  BY <1>1, <1>2, <1>3 DEF Receive, ReplayInv
<1>5. PICK h : h = Head(wire)
  OBVIOUS
<1>6. PICK rest : rest = Tail(wire)
  OBVIOUS
<1>7. /\ h \in ToSet(wire) /\ \A x \in ToSet(wire) : x = h \/ h.seq < x.seq
      /\ rest \in Seq(Records) /\ Increasing(rest)
      /\ ToSet(rest) = {x \in ToSet(wire) : h.seq < x.seq}
  BY <1>4, <1>5, <1>6, HeadAndTail
<1>8. /\ h \in Records /\ h.seq \in Nat /\ last < h.seq /\ h.seq <= c
      /\ h \in Shown(file) /\ h.run \in Wanted
  <2>1. h \in Shown(file) /\ h.run \in Wanted /\ last < h.seq /\ h.seq <= c
    BY <1>4, <1>7 DEF WantedUpTo
  <2> QED BY <2>1, LiveIsProper
<1>9. got' = Append(got, h) /\ file' = file /\ server' = [server EXCEPT !.wire = rest]
  BY <1>1, <1>5, <1>6 DEF Receive, store
<1>10. server'.cursor = c /\ server'.wire = rest /\ DOMAIN server' = {"cursor", "wire"}
       /\ server' = [cursor |-> c, wire |-> rest]
  <2>1. server = [cursor |-> c, wire |-> wire]
    BY <1>1, <1>2 DEF ReplayInv
  <2>2. server' = [cursor |-> c, wire |-> rest]
    BY <1>9, <2>1
  <2> QED BY <2>2
<1>11. LastReceived' = h.seq
  <2>1. Append(got, h) # <<>> /\ Last(Append(got, h)) = h
    BY <1>4, <1>8 DEF Last
  <2> QED BY <1>9, <2>1 DEF LastReceived
<1>12. \A x \in Shown(file) : x.seq \in Nat
  BY LiveIsProper
<1>13. /\ got' \in Seq(Records) /\ Increasing(got') /\ ToSet(got') = ToSet(got) \cup {h}
  <2>1. \A x \in ToSet(got) : x.seq < h.seq
    BY <1>4, <1>8, <1>12 DEF WantedUpTo
  <2> QED BY <1>4, <1>8, <1>9, <2>1, AddedAtTheEnd
<1>14. ToSet(got') = WantedUpTo(0, h.seq)
  <2>1. ASSUME NEW x \in WantedUpTo(0, h.seq) PROVE x \in ToSet(got')
    <3>1. x \in Shown(file) /\ x.run \in Wanted /\ 0 < x.seq /\ x.seq <= h.seq /\ x.seq \in Nat
      BY <1>12, <2>1 DEF WantedUpTo
    <3>2. CASE x.seq <= last
      BY <1>4, <1>13, <3>1, <3>2 DEF WantedUpTo
    <3>3. CASE last < x.seq
      <4>1. x \in ToSet(wire)
        BY <1>4, <1>8, <3>1, <3>3 DEF WantedUpTo
      <4> QED BY <1>7, <1>8, <1>13, <3>1, <4>1
    <3> QED BY <3>1, <3>2, <3>3
  <2>2. ASSUME NEW x \in ToSet(got') PROVE x \in WantedUpTo(0, h.seq)
    <3>1. CASE x = h
      BY <1>8, <3>1 DEF WantedUpTo
    <3>2. CASE x \in ToSet(got)
      BY <1>4, <1>8, <1>12, <3>2 DEF WantedUpTo
    <3> QED BY <1>13, <3>1, <3>2
  <2> QED BY <2>1, <2>2
<1>15. ToSet(rest) = WantedUpTo(h.seq, c)
  <2>1. \A x \in Shown(file) : h.seq < x.seq => last < x.seq
    BY <1>8, <1>12
  <2> QED BY <1>4, <1>7, <2>1 DEF WantedUpTo
<1>16. WantedUpTo(0, LastReceived)' = WantedUpTo(0, h.seq)
  BY <1>9, <1>11 DEF WantedUpTo
<1>17. WantedUpTo(LastReceived, server.cursor)' = WantedUpTo(h.seq, c)
  BY <1>9, <1>10, <1>11 DEF WantedUpTo
<1>18. c = 0 \/ \E x \in Shown(file') : x.seq = c
  BY <1>2, <1>9 DEF ReplayInv
<1> QED BY <1>7, <1>8, <1>10, <1>11, <1>13, <1>14, <1>15, <1>16, <1>17, <1>18 DEF ReplayInv

LEMMA ReconnectKeepsReplay ==
  ASSUME FileOK(file), ReplayInv, Reconnect
  PROVE  ReplayInv'
<1>1. got' = got /\ file' = file /\ LastReceived' = LastReceived
  BY DEF Reconnect, store, LastReceived
<1>2. PICK c \in Nat : c = LastReceived
  BY DEF ReplayInv
<1>3. server' = [cursor |-> c, wire |-> <<>>]
  BY <1>2 DEF Reconnect, NoConnection
<1>4. server'.cursor = c /\ server'.wire = <<>> /\ DOMAIN server' = {"cursor", "wire"}
  BY <1>3
<1>5. ToSet(<<>>) = {} /\ Increasing(<<>>) /\ <<>> \in Seq(Records)
  BY DEF ToSet, Increasing
<1>6. WantedUpTo(LastReceived, server.cursor)' = {}
  <2>1. \A x \in Shown(file) : x.seq \in Nat
    BY LiveIsProper
  <2>2. \A x \in Shown(file) : ~(c < x.seq /\ x.seq <= c)
    BY <2>1
  <2> QED BY <1>1, <1>2, <1>4, <2>2 DEF WantedUpTo
<1>7. WantedUpTo(0, LastReceived)' = WantedUpTo(0, LastReceived)
  BY <1>1 DEF WantedUpTo
<1>8. c = 0 \/ \E x \in Shown(file') : x.seq = c
  <2>1. CASE got = <<>>
    BY <1>2, <2>1 DEF LastReceived
  <2>2. CASE got # <<>>
    <3>1. got \in Seq(Records) /\ c = Last(got).seq
      BY <1>2, <2>2 DEF LastReceived, ReplayInv
    <3>2. Last(got) \in ToSet(got)
      BY <2>2, <3>1 DEF Last, ToSet
    <3>3. Last(got) \in Shown(file)
      BY <3>2 DEF ReplayInv, WantedUpTo
    <3> QED BY <1>1, <3>1, <3>3
  <2> QED BY <2>1, <2>2
<1>9. got \in Seq(Records) /\ Increasing(got) /\ ToSet(got) = WantedUpTo(0, LastReceived)
  BY DEF ReplayInv
<1>10. PICK none \in Seq(Records) : none = <<>>
  BY <1>5
<1>11. /\ server'.cursor = c /\ server'.wire = none /\ server' = [cursor |-> c, wire |-> none]
       /\ ToSet(none) = {} /\ Increasing(none)
  BY <1>3, <1>4, <1>5, <1>10
<1>12. /\ LastReceived' = c /\ c <= c
       /\ WantedUpTo(0, LastReceived)' = ToSet(got') /\ got' \in Seq(Records) /\ Increasing(got')
  BY <1>1, <1>2, <1>7, <1>9
<1> QED BY <1>4, <1>6, <1>8, <1>11, <1>12 DEF ReplayInv

LEMMA ReplayInvIsExact ==
  ASSUME FileOK(file), ReplayInv
  PROVE  ReplayIsExact
<1>1. PICK seen : seen = Visible
  OBVIOUS
<1>2. seen \in Seq(Records) /\ Increasing(seen) /\ ToSet(seen) = Shown(file)
  BY <1>1, ReadIsOrdered DEF Visible, FileOK
<1>3. PICK set : set = {rec \in ToSet(seen) : rec.run \in Wanted /\ rec.seq <= LastReceived}
  OBVIOUS
<1>4. PICK mine : mine = Among(seen, set)
  OBVIOUS
<1>5. mine \in Seq(Records) /\ Increasing(mine) /\ ToSet(mine) = ToSet(seen) \cap set
  BY <1>2, <1>4, AmongIsOrdered
<1>6. \A x \in Shown(file) : 0 < x.seq
  BY LiveIsProper DEF Proper
<1>7. ToSet(mine) = WantedUpTo(0, LastReceived)
  BY <1>2, <1>3, <1>5, <1>6 DEF WantedUpTo
<1>8. got \in Seq(Records) /\ Increasing(got) /\ ToSet(got) = ToSet(mine)
  BY <1>7 DEF ReplayInv
<1>9. got = mine
  BY <1>5, <1>8, SameRecordsSameOrder
<1> QED BY <1>1, <1>3, <1>4, <1>9 DEF ReplayIsExact

-----------------------------------------------------------------------------
(* A sink that is well: the shown records of its run are those it was given*)
(* and has written, numbered without a gap; and as long as it is the only  *)
(* one at work, the sequence that is next is above all others and the last *)
(* line is not a whole record that lacks its newline.                      *)

Done(s) == IF Underway(s) THEN Len(s.given) - 1 ELSE Len(s.given)
AtWork(s) == s.pc \notin {"off", "ended", "dead"}
Trusted(s) == s.ok /\ s.alone /\ s.clean /\ s.given # <<>>

Holds(r, given, low, done, lines) ==
  \A x : x \in Shown(lines) /\ x.run = r
           <=> \E i \in 1..done : x = Record(low + i, r, given[i])
Ahead(s, lines) ==
  /\ \A x \in Ended(lines) : x.seq < s.next
  /\ Whole(lines) = {} /\ (s.pc = "writing" => ~NotEnded(lines))
OkSink(r, s, lines) ==
  Trusted(s) =>
    /\ \E low \in Nat : s.next = low + Done(s) + 1 /\ Holds(r, s.given, low, Done(s), lines)
    /\ AtWork(s) => Ahead(s, lines)

AloneInv ==
  \A r, q \in Runs : AtWork(sink[r]) /\ sink[r].alone /\ q # r => ~AtWork(sink[q])
OkInv == AloneInv /\ \A r \in Runs : OkSink(r, sink[r], file)

LEMMA OpenKeepsOk ==
  ASSUME FileOK(file), SinkInv, OkInv, NEW r \in Runs, Open(r), Highest \in Nat,
         \A x \in Ended(file) : x.seq <= Highest
  PROVE  OkInv'
<1>1. PICK s \in SinkStates :
        /\ sink' = [sink EXCEPT ![r] = s] /\ s.pc = "mending" /\ s.next = Highest + 1
        /\ Len(s.given) = 1 /\ s.alone = sink[r].alone
        /\ s.clean = (file = <<>> \/ Last(file).state # "whole")
  BY OpenMakes
<1>2. sink[r].pc = "opening" /\ sink[r].given = <<>> /\ file' = file
  BY OpenMakes
<1>3. sink'[r] = s /\ \A q \in Runs : q # r => sink'[q] = sink[q]
  BY <1>1 DEF SinkInv
<1>4. AtWork(s) /\ AtWork(sink[r])
  BY <1>1, <1>2 DEF AtWork
<1>5. AloneInv'
  BY <1>1, <1>3, <1>4 DEF OkInv, AloneInv
<1>6. OkSink(r, s, file)
  <2> SUFFICES ASSUME Trusted(s)
      PROVE  /\ \E low \in Nat : s.next = low + Done(s) + 1 /\ Holds(r, s.given, low, Done(s), file)
             /\ Ahead(s, file)
    BY DEF OkSink
  <2>1. Done(s) = 0
    BY <1>1 DEF Done, Underway
  <2>2. \A x \in Shown(file) : x.run # r
    <3>1. SinkFile(r, sink[r], file)
      BY DEF SinkInv
    <3> QED BY <1>2, <3>1, LiveIsProper DEF SinkFile
  <2>3. Holds(r, s.given, Highest, 0, file)
    BY <2>2 DEF Holds
  <2>4. Whole(file) = {}
    BY <1>1, WholeIsLast DEF Trusted
  <2>5. \A x \in Ended(file) : x.seq < Highest + 1
    BY LiveIsProper
  <2>6. Ahead(s, file)
    BY <1>1, <2>4, <2>5 DEF Ahead
  <2>7. s.next = Highest + 0 + 1
    BY <1>1
  <2> QED BY <2>1, <2>3, <2>6, <2>7
<1>7. \A q \in Runs : OkSink(q, sink'[q], file')
  BY <1>2, <1>3, <1>6 DEF OkInv
<1> QED BY <1>5, <1>7 DEF OkInv

LEMMA GivingKeepsOk ==
  ASSUME SinkInv, OkInv, NEW r \in Runs, NEW s \in SinkStates, NEW kind \in Kinds,
         GivesNext(r, s, kind)
  PROVE  OkInv'
<1>1. PICK o \in SinkStates : o = sink[r]
  BY DEF SinkInv
<1>2. /\ o.pc = "reading" /\ file' = file
      /\ sink' = [sink EXCEPT ![r] = s] /\ s.pc = "mending" /\ s.next = o.next
      /\ s.given = Append(o.given, kind)
      /\ s.alone = o.alone /\ s.clean = o.clean /\ (s.ok => o.ok)
  BY <1>1 DEF GivesNext
<1>3. sink'[r] = s /\ \A q \in Runs : q # r => sink'[q] = sink[q]
  BY <1>2 DEF SinkInv
<1>4. AtWork(s) /\ AtWork(o)
  BY <1>2 DEF AtWork
<1>5. AloneInv'
  BY <1>1, <1>2, <1>3, <1>4 DEF OkInv, AloneInv
<1>6. OkSink(r, s, file)
  <2> SUFFICES ASSUME Trusted(s)
      PROVE  /\ \E low \in Nat : s.next = low + Done(s) + 1 /\ Holds(r, s.given, low, Done(s), file)
             /\ Ahead(s, file)
    BY DEF OkSink
  <2>1. o.given # <<>>
    BY <1>1, <1>2 DEF SinkInv, SinkShape
  <2>2. Trusted(o) /\ OkSink(r, o, file)
    BY <1>1, <1>2, <2>1 DEF Trusted, OkInv
  <2>3. PICK g \in Seq(Kinds) : g = o.given
    BY SinkFields
  <2>4. PICK n \in Nat : n = Len(g)
    OBVIOUS
  <2>5. Done(o) = n /\ ~Underway(o)
    BY <1>2, <2>3, <2>4 DEF Done, Underway
  <2>6. PICK h \in Seq(Kinds) : h = s.given
    BY SinkFields
  <2>7. Len(h) = n + 1 /\ \A i \in 1..n : h[i] = g[i]
    BY <1>2, <2>3, <2>4, <2>6
  <2>8. Done(s) = n
    BY <1>2, <2>6, <2>7 DEF Done, Underway
  <2>9. PICK low \in Nat : o.next = low + n + 1 /\ Holds(r, g, low, n, file)
    BY <2>2, <2>3, <2>5 DEF OkSink
  <2>10. Holds(r, h, low, n, file)
    BY <2>7, <2>9 DEF Holds
  <2>11. Ahead(o, file)
    BY <1>4, <2>2 DEF OkSink
  <2>12. Ahead(s, file)
    BY <1>2, <2>11 DEF Ahead
  <2> QED BY <1>2, <2>6, <2>8, <2>9, <2>10, <2>12
<1>7. \A q \in Runs : OkSink(q, sink'[q], file')
  BY <1>2, <1>3, <1>6 DEF OkInv
<1> QED BY <1>5, <1>7 DEF OkInv

LEMMA FinishingKeepsOk ==
  ASSUME SinkInv, OkInv, NEW r \in Runs, NEW s \in SinkStates, Finishes(r, s)
  PROVE  OkInv'
<1>1. PICK o \in SinkStates : o = sink[r]
  BY DEF SinkInv
<1>2. /\ o.pc = "reading" /\ file' = file /\ sink' = [sink EXCEPT ![r] = s] /\ s.pc = "ended"
      /\ s.next = o.next /\ s.given = o.given /\ s.ok = o.ok /\ s.alone = o.alone
      /\ s.clean = o.clean
  BY <1>1 DEF Finishes
<1>3. sink'[r] = s /\ \A q \in Runs : q # r => sink'[q] = sink[q]
  BY <1>2 DEF SinkInv
<1>4. ~AtWork(s)
  BY <1>2 DEF AtWork
<1>5. AloneInv'
  BY <1>1, <1>2, <1>3, <1>4 DEF OkInv, AloneInv
<1>6. OkSink(r, s, file)
  <2>1. OkSink(r, o, file)
    BY <1>1 DEF OkInv
  <2>2. Done(s) = Done(o) /\ (Trusted(s) => Trusted(o))
    BY <1>2 DEF Done, Underway, Trusted
  <2> QED BY <1>2, <1>4, <2>1, <2>2 DEF OkSink
<1>7. \A q \in Runs : OkSink(q, sink'[q], file')
  BY <1>2, <1>3, <1>6 DEF OkInv
<1> QED BY <1>5, <1>7 DEF OkInv

(* What one sink writes takes nothing from the records of another that is  *)
(* well; another that is alone is not at work.                             *)
LEMMA OthersStayOk ==
  ASSUME FileOK(file), SinkInv, OkInv, NEW r \in Runs, AtWork(sink[r]), NEW q \in Runs, q # r,
         NEW new, NEW recs, Grown(file, new, recs), \A x \in recs : x.run = r
  PROVE  OkSink(q, sink[q], new)
<1>1. PICK o : o = sink[q]
  OBVIOUS
<1> SUFFICES ASSUME Trusted(o)
    PROVE  /\ \E low \in Nat : o.next = low + Done(o) + 1 /\ Holds(q, o.given, low, Done(o), new)
           /\ ~AtWork(o)
  BY <1>1 DEF OkSink
<1>2. ~AtWork(o)
  BY <1>1 DEF OkInv, AloneInv, Trusted
<1>3. PICK low \in Nat : o.next = low + Done(o) + 1 /\ Holds(q, o.given, low, Done(o), file)
  BY <1>1 DEF OkInv, OkSink
<1>4. \A x : x \in Shown(new) /\ x.run = q <=> x \in Shown(file) /\ x.run = q
  <2>1. \A x \in Whole(file) : x.run # q
    BY <1>1 DEF SinkInv, SinkFile, Trusted
  <2>2. CASE Shown(new) = Shown(file)
    BY <2>2
  <2>3. ASSUME NEW rec \in Whole(file) \cup recs, Shown(new) = Shown(file) \cup {rec}
        PROVE  \A x : x \in Shown(new) /\ x.run = q <=> x \in Shown(file) /\ x.run = q
    BY <2>1, <2>3
  <2> QED BY <2>2, <2>3 DEF Grown
<1>5. Holds(q, o.given, low, Done(o), new)
  BY <1>3, <1>4 DEF Holds
<1> QED BY <1>2, <1>3, <1>5

LEMMA MendKeepsOk ==
  ASSUME FileOK(file), SinkInv, OkInv, NEW r \in Runs, Mend(r)
  PROVE  OkInv'
<1>1. PICK s \in SinkStates :
        /\ sink[r].pc = "mending" /\ file' = Mended /\ GoesOn(r, s, "writing")
        /\ s.next = sink[r].next /\ s.ok = sink[r].ok
  BY MendMakes
<1>2. PICK o \in SinkStates : o = sink[r]
  BY DEF SinkInv
<1>3. /\ sink' = [sink EXCEPT ![r] = s] /\ s.pc = "writing" /\ o.pc = "mending"
      /\ s.next = o.next /\ s.given = o.given /\ s.ok = o.ok /\ s.alone = o.alone
      /\ s.clean = o.clean
  BY <1>1, <1>2 DEF GoesOn
<1>4. sink'[r] = s /\ \A q \in Runs : q # r => sink'[q] = sink[q]
  BY <1>3 DEF SinkInv
<1>5. AtWork(s) /\ AtWork(o)
  BY <1>3 DEF AtWork
<1>6. AloneInv'
  BY <1>2, <1>3, <1>4, <1>5 DEF OkInv, AloneInv
<1>7. Grown(file, file', {})
  BY <1>1, MendedGrows
<1>8. /\ ~NotEnded(file') /\ Whole(file') = {} /\ Ended(file') = Ended(file) \cup Whole(file)
      /\ Shown(file') = Shown(file) \cup
           {x \in Whole(file) : \A y \in Ended(file) : y.seq < x.seq}
  BY <1>1, MendedFile
<1>9. OkSink(r, s, file')
  <2> SUFFICES ASSUME Trusted(s)
      PROVE  /\ \E low \in Nat : s.next = low + Done(s) + 1 /\ Holds(r, s.given, low, Done(s), file')
             /\ Ahead(s, file')
    BY DEF OkSink
  <2>1. Trusted(o) /\ OkSink(r, o, file)
    BY <1>2, <1>3 DEF Trusted, OkInv
  <2>2. Ahead(o, file)
    BY <1>5, <2>1 DEF OkSink
  <2>3. Shown(file') = Shown(file) /\ Ended(file') = Ended(file)
    BY <1>8, <2>2 DEF Ahead
  <2>4. Ahead(s, file')
    BY <1>3, <1>8, <2>2, <2>3 DEF Ahead
  <2>5. Done(s) = Done(o)
    BY <1>3 DEF Done, Underway
  <2>6. PICK low \in Nat : o.next = low + Done(o) + 1 /\ Holds(r, o.given, low, Done(o), file)
    BY <2>1 DEF OkSink
  <2>7. Holds(r, o.given, low, Done(o), file')
    BY <2>3, <2>6 DEF Holds
  <2> QED BY <1>3, <2>4, <2>5, <2>6, <2>7
<1>10. \A q \in Runs : q # r => OkSink(q, sink[q], file')
  BY <1>2, <1>5, <1>7, OthersStayOk
<1>11. \A q \in Runs : OkSink(q, sink'[q], file')
  BY <1>4, <1>9, <1>10
<1> QED BY <1>6, <1>11 DEF OkInv

(* A write that succeeds adds the record that is next.                     *)
LEMMA OwnRecordShown ==
  ASSUME FileOK(file), SinkInv, OkInv, NEW r \in Runs, sink[r].pc = "writing",
         NEW s \in SinkStates, GoesOn(r, s, "reading"),
         file' = Written(r, "ended"), s.next = sink[r].next + 1, s.ok = sink[r].ok
  PROVE  OkSink(r, s, file')
<1>1. PICK o \in SinkStates : o = sink[r]
  BY DEF SinkInv
<1>2. /\ o.pc = "writing" /\ s.pc = "reading" /\ s.given = o.given /\ s.ok = o.ok
      /\ s.alone = o.alone /\ s.clean = o.clean /\ s.next = o.next + 1
  BY <1>1 DEF GoesOn
<1> SUFFICES ASSUME Trusted(s)
    PROVE  /\ \E low \in Nat : s.next = low + Done(s) + 1 /\ Holds(r, s.given, low, Done(s), file')
           /\ Ahead(s, file')
  BY DEF OkSink
<1>3. Trusted(o) /\ OkSink(r, o, file) /\ AtWork(o) /\ Underway(o)
  BY <1>1, <1>2 DEF Trusted, OkInv, AtWork, Underway
<1>4. Ahead(o, file)
  BY <1>3 DEF OkSink
<1>5. ~Unended /\ \A x \in Ended(file) : x.seq < o.next
  BY <1>2, <1>4 DEF Ahead, NotEnded, Unended
<1>6. PICK rec : rec = o.record
  OBVIOUS
<1>7. Proper(rec) /\ rec.seq = o.next /\ o.next \in Nat
  BY <1>1, <1>3, <1>6, UnderwayRecord
<1>8. /\ Ended(file') = Ended(file) \cup {rec} /\ Whole(file') = {}
      /\ Shown(file') = Shown(file) \cup {rec}
  BY <1>1, <1>5, <1>6, <1>7, WrittenFile
<1>9. Ahead(s, file')
  <2>1. \A x \in Ended(file) : x.seq \in Nat
    BY LiveIsProper
  <2>2. \A x \in Ended(file') : x.seq < s.next
    BY <1>2, <1>5, <1>7, <1>8, <2>1
  <2> QED BY <1>2, <1>8, <2>2 DEF Ahead
<1>10. PICK g \in Seq(Kinds) : g = o.given
  BY SinkFields
<1>11. PICK n \in Nat : n = Len(g)
  OBVIOUS
<1>12. n # 0 /\ Done(o) = n - 1 /\ Done(s) = n /\ rec = Record(o.next, r, g[n])
  <2>1. rec = Record(o.next, r, g[n])
    BY <1>1, <1>3, <1>6, <1>10, <1>11 DEF SinkInv, SinkShape
  <2>2. g # <<>>
    BY <1>3, <1>10 DEF Trusted
  <2>3. Done(o) = n - 1 /\ Done(s) = n
    BY <1>2, <1>10, <1>11 DEF Done, Underway
  <2> QED BY <1>11, <2>1, <2>2, <2>3
<1>13. PICK low \in Nat : o.next = low + (n - 1) + 1 /\ Holds(r, g, low, n - 1, file)
  BY <1>3, <1>10, <1>12 DEF OkSink
<1>14. o.next = low + n /\ s.next = low + n + 1
  BY <1>2, <1>13
<1>15. Holds(r, g, low, n, file')
  <2>1. rec = Record(low + n, r, g[n]) /\ rec.run = r
    <3>1. rec = Record(low + n, r, g[n])
      BY <1>12, <1>14
    <3>2. rec.run = r
      BY <1>1, <1>3, <1>6, UnderwayRecord
    <3> QED BY <3>1, <3>2
  <2>2. \A i : i \in 1..n <=> i \in 1..(n - 1) \/ i = n
    BY <1>12
  <2>3. \A x : x \in Shown(file) /\ x.run = r
                 <=> \E i \in 1..(n - 1) : x = Record(low + i, r, g[i])
    BY <1>13 DEF Holds
  <2>4. \A x : x \in Shown(file') /\ x.run = r <=> (x \in Shown(file) /\ x.run = r) \/ x = rec
    BY <1>8, <2>1
  <2>5. \A x : (\E i \in 1..n : x = Record(low + i, r, g[i]))
                 <=> (\E i \in 1..(n - 1) : x = Record(low + i, r, g[i])) \/ x = rec
    BY <2>1, <2>2
  <2> QED BY <2>3, <2>4, <2>5 DEF Holds
<1> QED BY <1>2, <1>9, <1>10, <1>12, <1>14, <1>15

LEMMA WritingKeepsOk ==
  ASSUME FileOK(file), SinkInv, OkInv, NEW r \in Runs, NEW s \in SinkStates,
         NEW pc \in {"reading", "dead"}, sink[r].pc = "writing", GoesOn(r, s, pc),
         file' \in Left(r), OkSink(r, s, file')
  PROVE  OkInv'
<1>1. /\ sink' = [sink EXCEPT ![r] = s] /\ s.pc = pc /\ s.alone = sink[r].alone
  BY DEF GoesOn
<1>2. sink'[r] = s /\ \A q \in Runs : q # r => sink'[q] = sink[q]
  BY <1>1 DEF SinkInv
<1>3. AtWork(sink[r]) /\ Underway(sink[r])
  BY DEF AtWork, Underway
<1>4. AloneInv'
  BY <1>1, <1>2, <1>3 DEF OkInv, AloneInv
<1>5. Proper(sink[r].record) /\ sink[r].record.run = r
  BY <1>3, UnderwayRecord
<1>6. Grown(file, file', {sink[r].record})
  BY <1>5, LeftGrows
<1>7. \A q \in Runs : q # r => OkSink(q, sink[q], file')
  BY <1>3, <1>5, <1>6, OthersStayOk
<1>8. \A q \in Runs : OkSink(q, sink'[q], file')
  BY <1>2, <1>7
<1> QED BY <1>4, <1>8 DEF OkInv

LEMMA SinksKeepOk ==
  ASSUME FileOK(file), SinkInv, BoundInv, OkInv, NEW r \in Runs,
         Sink(r) \/ Die(r) \/ Begin(r) \/ Complete(r) \/ Kill(r)
  PROVE  OkInv'
<1>1. CASE Open(r)
  BY <1>1, LiveHasRoom, OpenKeepsOk
<1>2. ASSUME NEW line \in Lines \cup {"process.completed"}, Take(r, line) PROVE OkInv'
  BY <1>2, TakeMakes, GivingKeepsOk
<1>3. CASE EndOfInput(r)
  BY <1>3, EndOfInputMakes, KindsGiven, GivingKeepsOk, FinishingKeepsOk
<1>4. CASE Mend(r)
  BY <1>4, MendKeepsOk
<1>5. CASE Write(r)
  <2>1. PICK s \in SinkStates :
          /\ sink[r].pc = "writing" /\ GoesOn(r, s, "reading")
          /\ \/ file' = Written(r, "ended") /\ s.next = sink[r].next + 1 /\ s.ok = sink[r].ok
             \/ file' \in Left(r) /\ s.next = sink[r].next /\ ~s.ok
    BY <1>5, WriteMakes
  <2>2. file' \in Left(r)
    BY <2>1 DEF Left
  <2>3. OkSink(r, s, file')
    <3>1. CASE file' = Written(r, "ended") /\ s.next = sink[r].next + 1 /\ s.ok = sink[r].ok
      BY <2>1, <3>1, OwnRecordShown
    <3>2. CASE ~s.ok
      BY <3>2 DEF OkSink, Trusted
    <3> QED BY <2>1, <3>1, <3>2
  <2> QED BY <2>1, <2>2, <2>3, WritingKeepsOk
<1>6. CASE Die(r)
  <2>1. PICK s \in SinkStates :
          /\ GoesOn(r, s, "dead") /\ ~s.ok
          /\ \/ sink[r].pc = "writing" /\ file' \in Left(r)
             \/ sink[r].pc # "writing" /\ file' = file
    BY <1>6, DieMakes
  <2>2. OkSink(r, s, file') /\ s.pc = "dead" /\ sink' = [sink EXCEPT ![r] = s]
    BY <2>1 DEF OkSink, Trusted, GoesOn
  <2>3. CASE sink[r].pc = "writing" /\ file' \in Left(r)
    BY <2>1, <2>2, <2>3, WritingKeepsOk
  <2>4. CASE file' = file
    <3>1. sink'[r] = s /\ \A q \in Runs : q # r => sink'[q] = sink[q]
      BY <2>2 DEF SinkInv
    <3>2. ~AtWork(s)
      BY <2>2 DEF AtWork
    <3>3. AloneInv'
      BY <3>1, <3>2 DEF OkInv, AloneInv
    <3>4. \A q \in Runs : OkSink(q, sink'[q], file')
      BY <2>2, <2>4, <3>1 DEF OkInv
    <3> QED BY <3>3, <3>4 DEF OkInv
  <2> QED BY <2>1, <2>3, <2>4
<1>7. CASE Begin(r)
  <2>1. /\ file' = file /\ sink'[r].pc = "opening" /\ sink'[r].given = <<>>
        /\ sink'[r].alone = (\A p \in Runs : ~Working(p))
    BY <1>7, BeginMakes
  <2>2. ASSUME NEW q \in Runs, q # r
        PROVE  /\ sink'[q].pc = sink[q].pc /\ sink'[q].next = sink[q].next
               /\ sink'[q].given = sink[q].given /\ sink'[q].ok = sink[q].ok
               /\ sink'[q].alone = (sink[q].alone /\ ~Working(q)) /\ sink'[q].clean = sink[q].clean
    <3>1. SameButAlone(q)
      BY <1>7, <2>2, BeginMakes
    <3> QED BY <3>1 DEF SameButAlone
  <2>3. \A q \in Runs : Working(q) <=> AtWork(sink[q])
    BY DEF Working, AtWork
  <2>4. \A q \in Runs : q # r => (AtWork(sink'[q]) <=> AtWork(sink[q]))
    BY <2>2 DEF AtWork
  <2>5. \A q \in Runs : q # r => ~(AtWork(sink'[q]) /\ sink'[q].alone)
    BY <2>2, <2>3, <2>4
  <2>6. sink'[r].alone => \A q \in Runs : q # r => ~AtWork(sink'[q])
    BY <2>1, <2>3, <2>4
  <2>7. AloneInv'
    BY <2>5, <2>6 DEF AloneInv
  <2>8. OkSink(r, sink'[r], file')
    BY <2>1 DEF OkSink, Trusted
  <2>9. ASSUME NEW q \in Runs, q # r PROVE OkSink(q, sink'[q], file')
    <3>1. PICK s : s = sink'[q]
      OBVIOUS
    <3>2. /\ s.pc = sink[q].pc /\ s.next = sink[q].next /\ s.given = sink[q].given
          /\ s.ok = sink[q].ok /\ (s.alone => sink[q].alone) /\ s.clean = sink[q].clean
      BY <2>2, <2>9, <3>1
    <3>3. OkSink(q, sink[q], file)
      BY DEF OkInv
    <3>4. (Trusted(s) => Trusted(sink[q])) /\ Done(s) = Done(sink[q])
          /\ (AtWork(s) <=> AtWork(sink[q])) /\ (Ahead(sink[q], file) => Ahead(s, file))
      BY <3>2 DEF Trusted, Done, Underway, AtWork, Ahead
    <3>5. OkSink(q, s, file)
      BY <3>2, <3>3, <3>4 DEF OkSink
    <3> QED BY <2>1, <3>1, <3>5
  <2>10. \A q \in Runs : OkSink(q, sink'[q], file')
    BY <2>8, <2>9
  <2> QED BY <2>7, <2>10 DEF OkInv
<1>8. CASE Complete(r) \/ Kill(r)
  <2>1. sink' = sink /\ file' = file
    BY <1>8 DEF Complete, Kill
  <2> QED BY <2>1 DEF OkInv, AloneInv
<1> QED BY <1>1, <1>2, <1>3, <1>4, <1>5, <1>6, <1>7, <1>8 DEF Sink

LEMMA TrustedIsReplayed ==
  ASSUME FileOK(file), SinkInv, OkInv
  PROVE  OkIsReplayed
<1>1. PICK seen : seen = Visible
  OBVIOUS
<1>2. seen \in Seq(Records) /\ Increasing(seen) /\ ToSet(seen) = Shown(file)
  BY <1>1, ReadIsOrdered DEF Visible, FileOK
<1>3. ASSUME NEW r \in Runs, Reliable(r),
             NEW mine, mine = Among(seen, {rec \in ToSet(seen) : rec.run = r})
      PROVE  [i \in DOMAIN mine |-> mine[i].kind] = sink[r].given
  <2>1. PICK s \in SinkStates : s = sink[r]
    BY DEF SinkInv
  <2>2. s.pc = "ended" /\ s.ok /\ s.alone /\ s.clean /\ s.given # <<>>
    BY <1>3, <2>1 DEF Reliable, SinkInv, SinkShape
  <2>3. PICK g \in Seq(Kinds) : g = s.given
    BY SinkFields
  <2>4. PICK n \in Nat : n = Len(g)
    OBVIOUS
  <2>5. Done(s) = n /\ Trusted(s)
    BY <2>2, <2>3, <2>4 DEF Done, Underway, Trusted
  <2>6. PICK low \in Nat : Holds(r, g, low, n, file)
    BY <2>1, <2>3, <2>5 DEF OkInv, OkSink
  <2>7. PICK set : set = {rec \in ToSet(seen) : rec.run = r}
    OBVIOUS
  <2>8. /\ mine \in Seq(Records) /\ Increasing(mine) /\ ToSet(mine) = ToSet(seen) \cap set
    BY <1>2, <1>3, <2>7, AmongIsOrdered
  <2>9. \A x : x \in ToSet(mine) <=> \E i \in 1..n : x = Record(low + i, r, g[i])
    BY <1>2, <2>6, <2>7, <2>8 DEF Holds
  <2>10. \A i \in 1..n : /\ Record(low + i, r, g[i]) \in Records
                         /\ Record(low + i, r, g[i]).seq = low + i
                         /\ Record(low + i, r, g[i]).kind = g[i]
    <3>1. \A i \in 1..n : low + i \in Nat /\ g[i] \in Kinds
      BY <2>4
    <3> QED BY <3>1, RecordIs
  <2>11. PICK t : t = [i \in 1..n |-> Record(low + i, r, g[i])]
    OBVIOUS
  <2>12. t \in Seq(Records) /\ DOMAIN t = 1..n /\ \A i \in 1..n : t[i] = Record(low + i, r, g[i])
    BY <2>10, <2>11
  <2>13. Increasing(t)
    BY <2>10, <2>12 DEF Increasing
  <2>14. ToSet(t) = ToSet(mine)
    <3>1. ToSet(t) = {t[i] : i \in 1..n}
      BY <2>12 DEF ToSet
    <3> QED BY <2>9, <2>12, <3>1
  <2>15. mine = t
    BY <2>8, <2>12, <2>13, <2>14, SameRecordsSameOrder
  <2>16. \A i \in 1..n : mine[i].kind = g[i]
    BY <2>10, <2>12, <2>15
  <2>17. DOMAIN mine = 1..n /\ DOMAIN g = 1..n /\ g = [i \in 1..n |-> g[i]]
    BY <2>4, <2>12, <2>15
  <2> QED BY <2>1, <2>3, <2>16, <2>17
<1> QED BY <1>1, <1>3 DEF OkIsReplayed

-----------------------------------------------------------------------------
(* The invariant.                                                          *)

IInv == FileOK(file) /\ SinkInv /\ BoundInv /\ ReplayInv /\ OkInv

LEMMA InvInit == Init => IInv
<1> SUFFICES ASSUME Init PROVE IInv
  OBVIOUS
<1>1. /\ file = <<>> /\ got = <<>> /\ server = NoConnection
      /\ sink = [r \in Runs |-> NoSink] /\ runner = [r \in Runs |-> "off"]
  BY DEF Init
<1>2. FileOK(file) /\ Live(file) = {} /\ Shown(file) = {} /\ Ended(file) = {} /\ Whole(file) = {}
  <2>1. FileOK(<<>>)
    BY DEF FileOK
  <2>2. Ended(<<>>) = {} /\ Whole(<<>>) = {} /\ Shown(<<>>) = {}
    BY DEF Ended, Whole, RecordsIn, At, Shown, ShownAt
  <2> QED BY <1>1, <2>1, <2>2 DEF Live
<1>3. PICK none \in SinkStates :
        /\ none = NoSink /\ none.pc = "off" /\ none.given = <<>> /\ none.next = 0
        /\ ~none.completed
  <2>1. PICK rec \in Records : rec = NoRecord
    BY RecordIs DEF NoRecord
  <2>2. <<>> \in Seq(Kinds)
    OBVIOUS
  <2>3. PICK empty \in Seq(Kinds) : empty = <<>>
    BY <2>2
  <2>4. NoSink = [pc |-> "off", next |-> 0, record |-> rec, given |-> empty,
                  ok |-> TRUE, completed |-> FALSE, alone |-> TRUE, clean |-> TRUE]
    BY <2>1, <2>3 DEF NoSink
  <2>5. PICK none : none = NoSink
    OBVIOUS
  <2>6. /\ none \in SinkStates /\ none.pc = "off" /\ none.given = empty /\ none.next = 0
        /\ ~none.completed
    BY <2>4, <2>5 DEF SinkStates
  <2> QED BY <2>3, <2>5, <2>6
<1>4. sink \in [Runs -> SinkStates] /\ \A r \in Runs : sink[r] = none
  BY <1>1, <1>3
<1>5. SinkInv
  <2>1. \A r \in Runs : SinkShape(r, none) /\ SinkFile(r, none, file)
    BY <1>2, <1>3, Bounds DEF SinkShape, SinkFile, Underway
  <2> QED BY <1>1, <1>3, <1>4, <2>1 DEF SinkInv
<1>6. BoundInv
  BY <1>2, <1>3, <1>4 DEF BoundInv, Begun
<1>7. ReplayInv
  <2>1. server = [cursor |-> 0, wire |-> <<>>]
    BY <1>1 DEF NoConnection
  <2>2. server.cursor = 0 /\ server.wire = <<>> /\ DOMAIN server = {"cursor", "wire"}
    BY <2>1
  <2>3. ToSet(<<>>) = {} /\ Increasing(<<>>) /\ <<>> \in Seq(Records)
    BY DEF ToSet, Increasing
  <2>4. LastReceived = 0 /\ \A a, b : WantedUpTo(a, b) = {}
    BY <1>1, <1>2 DEF LastReceived, WantedUpTo
  <2>5. PICK empty \in Seq(Records) : empty = <<>>
    BY <2>3
  <2>6. /\ server.cursor = 0 /\ server.wire = empty /\ server = [cursor |-> 0, wire |-> empty]
        /\ got = empty /\ ToSet(empty) = {} /\ Increasing(empty)
    BY <1>1, <2>1, <2>2, <2>3, <2>5
  <2>7. 0 \in Nat /\ 0 <= 0
    OBVIOUS
  <2> QED BY <2>2, <2>4, <2>6, <2>7 DEF ReplayInv
<1>8. OkInv
  BY <1>3, <1>4 DEF OkInv, AloneInv, OkSink, Trusted, AtWork
<1> QED BY <1>2, <1>5, <1>6, <1>7, <1>8 DEF IInv

LEMMA SinksKeepSinks ==
  ASSUME FileOK(file), SinkInv, BoundInv, NEW r \in Runs,
         Sink(r) \/ Die(r) \/ Begin(r) \/ Complete(r) \/ Kill(r)
  PROVE  FileOK(file') /\ SinkInv'
<1>1. CASE Open(r)
  BY <1>1, LiveHasRoom, OpenKeepsSinks
<1>2. ASSUME NEW line \in Lines \cup {"process.completed"}, Take(r, line)
      PROVE  FileOK(file') /\ SinkInv'
  BY <1>2, TakeMakes, GivingKeepsSinks
<1>3. CASE EndOfInput(r)
  BY <1>3, EndOfInputMakes, KindsGiven, GivingKeepsSinks, FinishingKeepsSinks
<1>4. CASE Mend(r)
  BY <1>4, MendKeepsSinks
<1>5. CASE Write(r)
  <2>1. PICK s \in SinkStates :
          /\ sink[r].pc = "writing" /\ GoesOn(r, s, "reading")
          /\ \/ file' = Written(r, "ended") /\ s.next = sink[r].next + 1 /\ s.ok = sink[r].ok
             \/ file' \in Left(r) /\ s.next = sink[r].next /\ ~s.ok
    BY <1>5, WriteMakes
  <2> QED BY <2>1, WritingKeepsSinks
<1>6. CASE Die(r)
  BY <1>6, DieKeepsSinks
<1>7. CASE Begin(r)
  BY <1>7, BeginKeepsSinks
<1>8. CASE Complete(r) \/ Kill(r)
  <2>1. sink' = sink /\ file' = file
    BY <1>8 DEF Complete, Kill
  <2>2. DOMAIN runner' = Runs /\ \A q \in Runs : runner'[q] = "off" => runner[q] = "off"
    BY <1>8 DEF Complete, Kill, SinkInv
  <2> QED BY <2>1, <2>2 DEF SinkInv
<1> QED BY <1>1, <1>2, <1>3, <1>4, <1>5, <1>6, <1>7, <1>8 DEF Sink

(* Only what a sink writes, or gives its newline, changes the file.        *)
LEMMA SinksGrowFile ==
  ASSUME FileOK(file), SinkInv, NEW r \in Runs,
         Sink(r) \/ Die(r) \/ Begin(r) \/ Complete(r) \/ Kill(r)
  PROVE  \E recs : Grown(file, file', recs)
<1>1. CASE file' = file
  <2>1. Grown(file, file', {})
    BY <1>1 DEF Grown
  <2> QED BY <2>1
<1>2. CASE file' = Mended
  BY <1>2, MendedGrows
<1>3. ASSUME sink[r].pc = "writing", file' \in Left(r) PROVE \E recs : Grown(file, file', recs)
  <2>1. Proper(sink[r].record)
    BY <1>3, UnderwayRecord DEF Underway
  <2> QED BY <1>3, <2>1, LeftGrows
<1>4. \/ file' = file \/ file' = Mended
      \/ sink[r].pc = "writing" /\ file' \in Left(r)
  <2>1. Open(r) => file' = file
    BY DEF Open
  <2>2. \A line \in Lines \cup {"process.completed"} : Take(r, line) => file' = file
    BY DEF Take
  <2>3. EndOfInput(r) => file' = file
    BY DEF EndOfInput
  <2>4. Mend(r) => file' = Mended
    BY DEF Mend
  <2>5. Write(r) => sink[r].pc = "writing" /\ file' \in Left(r)
    BY DEF Write, Left
  <2>6. Die(r) => file' = file \/ (sink[r].pc = "writing" /\ file' \in Left(r))
    BY DEF Die
  <2>7. Begin(r) \/ Complete(r) \/ Kill(r) => file' = file
    BY DEF Begin, Complete, Kill
  <2> QED BY <2>1, <2>2, <2>3, <2>4, <2>5, <2>6, <2>7 DEF Sink
<1> QED BY <1>1, <1>2, <1>3, <1>4

LEMMA InvStep == IInv /\ [Next]_vars => IInv'
<1> SUFFICES ASSUME IInv, [Next]_vars PROVE IInv'
  OBVIOUS
<1>1. FileOK(file) /\ SinkInv /\ BoundInv /\ ReplayInv /\ OkInv
  BY DEF IInv
<1>2. ASSUME NEW r \in Runs, Sink(r) \/ Die(r) \/ Begin(r) \/ Complete(r) \/ Kill(r)
      PROVE  IInv'
  <2>1. FileOK(file') /\ SinkInv'
    BY <1>1, <1>2, SinksKeepSinks
  <2>2. BoundInv'
    BY <1>1, <1>2, SinksKeepBound
  <2>3. ReplayInv'
    <3>1. UNCHANGED reading
      BY <1>2 DEF Sink, Open, Take, EndOfInput, Mend, Write, Die, Begin, Complete, Kill
    <3>2. PICK recs : Grown(file, file', recs)
      BY <1>1, <1>2, SinksGrowFile
    <3> QED BY <1>1, <3>1, <3>2, GrowingKeepsReplay
  <2>4. OkInv'
    BY <1>1, <1>2, SinksKeepOk
  <2> QED BY <2>1, <2>2, <2>3, <2>4 DEF IInv
<1>3. ASSUME Serve \/ Receive \/ Reconnect PROVE IInv'
  <2>1. file' = file /\ runner' = runner /\ sink' = sink
    BY <1>3 DEF Serve, Receive, Reconnect, store
  <2>2. FileOK(file') /\ SinkInv' /\ BoundInv' /\ OkInv'
    BY <1>1, <2>1 DEF SinkInv, BoundInv, Begun, Room, OkInv, AloneInv
  <2>3. ReplayInv'
    BY <1>1, <1>3, ServeKeepsReplay, ReceiveKeepsReplay, ReconnectKeepsReplay
  <2> QED BY <2>2, <2>3 DEF IInv
<1>4. CASE UNCHANGED vars
  <2>1. file' = file /\ runner' = runner /\ sink' = sink /\ server' = server /\ got' = got
    BY <1>4 DEF vars, store, reading
  <2>2. SinkInv' /\ BoundInv' /\ OkInv' /\ ReplayInv'
    BY <1>1, <2>1 DEF SinkInv, BoundInv, Begun, Room, OkInv, AloneInv, ReplayInv, WantedUpTo,
                      LastReceived
  <2> QED BY <1>1, <2>1, <2>2 DEF IInv
<1> QED BY <1>2, <1>3, <1>4 DEF Next, Following

LEMMA InvTypes == IInv => TypeOK
<1> SUFFICES ASSUME IInv PROVE TypeOK
  OBVIOUS
<1>1. FileOK(file) /\ SinkInv /\ BoundInv /\ ReplayInv
  BY DEF IInv
<1>2. \A i \in DOMAIN file : /\ file[i].record.run \in Runs \cup {NoRun}
                             /\ file[i].state \in {"ended", "junk", "whole", "part"}
                             /\ i < Len(file) => file[i].state \in {"ended", "junk"}
  <2>1. \A i \in DOMAIN file : file[i] \in FileLines
    BY <1>1 DEF FileOK
  <2>2. \A i \in DOMAIN file : i < Len(file) => file[i].state \in {"ended", "junk"}
    BY <1>1 DEF FileOK
  <2> QED BY <2>1, <2>2, LineFields, RecordFields
<1>3. ASSUME NEW r \in Runs, sink[r].pc \in {"mending", "writing"}
      PROVE  sink[r].record \in [seq : 1..(LastRun * (MaxFrames + 3)), run : {r}, kind : Kinds]
  <2>1. PICK rec : rec = sink[r].record
    OBVIOUS
  <2>2. Underway(sink[r])
    BY <1>3 DEF Underway
  <2>3. Proper(rec) /\ rec.run = r /\ rec.seq <= Room
    BY <1>1, <2>1, <2>2, UnderwayRecord, UnderwayHasRoom
  <2>4. PICK last : last = LastRun * PerRun
    OBVIOUS
  <2>5. PICK room \in Nat : room = Room /\ room <= last
    BY <2>4, RoomSize
  <2>6. last \in Nat
    <3>1. \A a, b \in Nat : a * b \in Nat
      OBVIOUS
    <3>2. PerRun \in Nat
      BY RoomSize
    <3> QED BY <2>4, <3>1, <3>2, Bounds
  <2>7. rec \in Records /\ rec.seq \in Nat /\ rec.seq # 0 /\ rec.kind \in Kinds
    BY <2>3, RecordFields DEF Proper
  <2>8. rec.seq \in 1..last
    BY <2>3, <2>5, <2>6, <2>7
  <2>9. rec \in [seq : 1..last, run : {r}, kind : Kinds]
    BY <2>3, <2>7, <2>8 DEF Records
  <2> QED BY <2>1, <2>4, <2>9 DEF PerRun
<1>4. got \in Seq([seq : Nat, run : Wanted, kind : Kinds])
  <2>1. got \in Seq(Records) /\ \A i \in DOMAIN got : got[i] \in Shown(file) /\ got[i].run \in Wanted
    <3>1. \A i \in DOMAIN got : got[i] \in ToSet(got)
      BY DEF ToSet
    <3> QED BY <1>1, <3>1 DEF ReplayInv, WantedUpTo
  <2>2. \A i \in DOMAIN got : Proper(got[i])
    BY <1>1, <2>1, LiveIsProper
  <2>3. \A i \in DOMAIN got : got[i] \in [seq : Nat, run : Wanted, kind : Kinds]
    BY <2>1, <2>2 DEF Proper, Records
  <2>4. PICK n \in Nat : DOMAIN got = 1..n /\ got = [i \in 1..n |-> got[i]]
    BY <2>1
  <2>5. PICK R : R = [seq : Nat, run : Wanted, kind : Kinds]
    OBVIOUS
  <2>6. \A i \in 1..n : got[i] \in R
    BY <2>3, <2>4, <2>5
  <2>7. got \in Seq(R)
    BY <2>4, <2>6
  <2> QED BY <2>5, <2>7
<1> QED BY <1>2, <1>3, <1>4 DEF TypeOK

LEMMA InvAlways == Spec => []IInv
BY InvInit, InvStep, PTL DEF Spec

(* Every variable holds what the code puts there; a sequence never exceeds *)
(* the share of the runs (581-587).                                        *)
THEOREM TypeCorrect == Spec => []TypeOK
BY InvAlways, InvTypes, PTL

(* However lines are torn, connections break and servers stop, a follower  *)
(* has the readable records of its runs in order, without a gap and none   *)
(* twice (691-760, 905-1000).                                              *)
THEOREM ReplayExact == Spec => []ReplayIsExact
<1>1. IInv => ReplayIsExact
  BY ReplayInvIsExact DEF IInv
<1> QED BY <1>1, InvAlways, PTL

(* A sink that says "ok", was the only writer and found no whole record    *)
(* without its newline has left all it was given to every reader           *)
(* (1020-1115).                                                            *)
THEOREM OkReplayed == Spec => []OkIsReplayed
<1>1. IInv => OkIsReplayed
  BY TrustedIsReplayed DEF IInv
<1> QED BY <1>1, InvAlways, PTL

-----------------------------------------------------------------------------
(* The current run of a task.                                              *)

WindowStates ==
  [run : Runs \cup {NoRun}, retired : SUBSET Runs, latest : Nat, started : BOOLEAN,
   completed : BOOLEAN, ambiguous : BOOLEAN, doubted : BOOLEAN, events : Seq(Kinds)]

KeptIn(w, rec, v) ==
  /\ v \in WindowStates /\ v.run = w.run /\ v.retired = w.retired /\ v.latest = w.latest
  /\ w.completed => v.completed
  /\ rec.kind = "process.completed" => v.completed

LEMMA KeptFields ==
  ASSUME NEW w \in WindowStates, NEW rec, Proper(rec)
  PROVE  KeptIn(w, rec, Kept(w, rec))
<1>1. PICK ev \in Seq(Kinds) : ev = Append(w.events, rec.kind)
  <2>1. w.events \in Seq(Kinds) /\ rec.kind \in Kinds
    BY DEF WindowStates, Proper
  <2>2. Append(w.events, rec.kind) \in Seq(Kinds)
    BY <2>1
  <2> QED BY <2>2
<1>2. PICK c \in BOOLEAN : c = (w.completed \/ rec.kind = "process.completed")
  OBVIOUS
<1>3. PICK v : v = [w EXCEPT !.events = ev, !.completed = c]
  OBVIOUS
<1>4. v = Kept(w, rec)
  BY <1>1, <1>2, <1>3 DEF Kept
<1>5. /\ v \in WindowStates /\ v.run = w.run /\ v.retired = w.retired /\ v.latest = w.latest
      /\ v.completed = c
  BY <1>3 DEF WindowStates
<1> QED BY <1>2, <1>4, <1>5 DEF KeptIn

(* What a record of the task makes of the window: it stays with its run, a *)
(* newer start takes over, or a first record of a run whose start was not  *)
(* seen gives it its run.                                                  *)
Stays(w, rec, v) ==
  /\ v.run = w.run /\ v.retired = w.retired
  /\ v.latest = w.latest \/ (rec.run = w.run /\ v.latest = rec.run /\ w.latest <= rec.run)
  /\ w.completed => v.completed
  /\ rec.run = w.run /\ rec.kind = "process.completed" => v.completed
  /\ IsStart(rec) => rec.run \in w.retired \/ rec.run <= v.latest
  /\ w.run = NoRun => IsStart(rec) /\ (rec.run \in w.retired \/ rec.run < w.latest)
TakesOver(w, rec, v) ==
  /\ IsStart(rec) /\ w.latest <= rec.run /\ v.run = rec.run /\ v.latest = rec.run
  /\ \A q \in v.retired : q \in w.retired \/ (q = w.run /\ q # NoRun)
ComesFirst(w, rec, v) ==
  /\ ~IsStart(rec) /\ w.run = NoRun /\ v.run = rec.run /\ v.retired = w.retired
  /\ v.latest = w.latest /\ (rec.kind = "process.completed" => v.completed)

LEMMA StepMakes ==
  ASSUME NEW w \in WindowStates, NEW rec, Proper(rec), NEW v, v = Step(w, rec)
  PROVE  /\ v \in WindowStates
         /\ Stays(w, rec, v) \/ TakesOver(w, rec, v) \/ ComesFirst(w, rec, v)
<1>1. PICK r \in Runs : r = rec.run
  BY DEF Proper
<1>2. r \in Nat /\ r # NoRun /\ r # 0
  BY <1>1 DEF Runs, NoRun
<1>3. /\ w.latest \in Nat /\ w.retired \in SUBSET Runs /\ w.run \in Runs \cup {NoRun}
      /\ w.doubted \in BOOLEAN
  BY DEF WindowStates
<1>4. IsStart(rec) => rec.kind # "process.completed"
  BY DEF IsStart
<1>5. CASE IsStart(rec) /\ r \in w.retired
  <2>1. v = [w EXCEPT !.doubted = TRUE]
    BY <1>1, <1>5 DEF Step
  <2>2. /\ v \in WindowStates /\ v.run = w.run /\ v.retired = w.retired /\ v.latest = w.latest
        /\ v.completed = w.completed
    BY <2>1 DEF WindowStates
  <2> QED BY <1>1, <1>4, <1>5, <2>2 DEF Stays
<1>6. CASE IsStart(rec) /\ r \notin w.retired /\ r < w.latest
  <2>1. v = [w EXCEPT !.ambiguous = TRUE, !.doubted = TRUE]
    BY <1>1, <1>2, <1>3, <1>6 DEF Step
  <2>2. /\ v \in WindowStates /\ v.run = w.run /\ v.retired = w.retired /\ v.latest = w.latest
        /\ v.completed = w.completed
    BY <2>1 DEF WindowStates
  <2>3. r <= v.latest
    BY <1>2, <1>3, <1>6, <2>2
  <2> QED BY <1>1, <1>4, <1>6, <2>2, <2>3 DEF Stays
<1>7. CASE IsStart(rec) /\ r \notin w.retired /\ ~(r < w.latest) /\ r # w.run
  <2>1. PICK retired \in SUBSET Runs : retired = w.retired \cup ({w.run} \ {NoRun})
    BY <1>3
  <2>2. PICK d \in BOOLEAN : d = w.doubted
    BY <1>3
  <2>3. PICK newer : newer = [NoWindow EXCEPT !.run = r, !.latest = r, !.started = TRUE,
                                              !.doubted = d, !.retired = retired]
    OBVIOUS
  <2>4. r >= w.latest /\ w.latest <= r
    BY <1>2, <1>3, <1>7
  <2>5. v = Kept(newer, rec)
    BY <1>1, <1>7, <2>1, <2>2, <2>3, <2>4 DEF Step
  <2>6. newer \in WindowStates /\ newer.run = r /\ newer.latest = r /\ newer.retired = retired
    <3>1. PICK none \in Seq(Kinds) : none = <<>>
      <4>1. <<>> \in Seq(Kinds)
        OBVIOUS
      <4> QED BY <4>1
    <3>2. newer = [run |-> r, retired |-> retired, latest |-> r, started |-> TRUE,
                   completed |-> FALSE, ambiguous |-> FALSE, doubted |-> d, events |-> none]
      BY <2>3, <3>1 DEF NoWindow
    <3> QED BY <1>2, <3>2 DEF WindowStates
  <2>7. KeptIn(newer, rec, v)
    BY <2>5, <2>6, KeptFields
  <2>8. v \in WindowStates /\ v.run = r /\ v.latest = r /\ v.retired = retired
    BY <2>6, <2>7 DEF KeptIn
  <2> QED BY <1>1, <1>7, <2>1, <2>4, <2>8 DEF TakesOver
<1>8. CASE IsStart(rec) /\ r \notin w.retired /\ ~(r < w.latest) /\ r = w.run
  <2>1. PICK t : t = [w EXCEPT !.latest = r, !.started = TRUE]
    OBVIOUS
  <2>2. r >= w.latest /\ w.latest <= r
    BY <1>2, <1>3, <1>8
  <2>3. v = Kept(t, rec)
    BY <1>1, <1>8, <2>1, <2>2 DEF Step
  <2>4. /\ t \in WindowStates /\ t.run = w.run /\ t.latest = r /\ t.retired = w.retired
        /\ t.completed = w.completed
    BY <1>2, <2>1 DEF WindowStates
  <2>5. KeptIn(t, rec, v)
    BY <2>3, <2>4, KeptFields
  <2>6. v \in WindowStates /\ v.run = w.run /\ v.latest = r /\ v.retired = w.retired
        /\ (w.completed => v.completed)
    BY <2>4, <2>5 DEF KeptIn
  <2>7. r <= v.latest
    BY <1>2, <2>6
  <2> QED BY <1>1, <1>2, <1>4, <1>8, <2>2, <2>6, <2>7 DEF Stays
<1>9. CASE ~IsStart(rec) /\ w.run = NoRun
  <2>1. PICK t : t = [w EXCEPT !.run = r]
    OBVIOUS
  <2>2. v = Kept(t, rec)
    BY <1>1, <1>2, <1>9, <2>1 DEF Step
  <2>3. t \in WindowStates /\ t.run = r /\ t.latest = w.latest /\ t.retired = w.retired
    BY <2>1 DEF WindowStates
  <2>4. KeptIn(t, rec, v)
    BY <2>2, <2>3, KeptFields
  <2> QED BY <1>1, <1>9, <2>3, <2>4 DEF KeptIn, ComesFirst
<1>10. CASE ~IsStart(rec) /\ w.run = r
  <2>1. v = Kept(w, rec)
    BY <1>1, <1>2, <1>10 DEF Step
  <2>2. KeptIn(w, rec, v)
    BY <2>1, KeptFields
  <2> QED BY <1>1, <1>2, <1>10, <2>2 DEF KeptIn, Stays
<1>11. CASE ~IsStart(rec) /\ w.run \notin {NoRun, r}
  <2>1. v = IF r \in w.retired THEN w ELSE [w EXCEPT !.ambiguous = TRUE]
    BY <1>1, <1>11 DEF Step
  <2>2. /\ v \in WindowStates /\ v.run = w.run /\ v.retired = w.retired /\ v.latest = w.latest
        /\ v.completed = w.completed
    BY <2>1 DEF WindowStates
  <2> QED BY <1>1, <1>11, <2>2 DEF Stays
<1> QED BY <1>5, <1>6, <1>7, <1>8, <1>9, <1>10, <1>11

(* The windows after each record.                                          *)
WindowsOf(f, seen, task) ==
  /\ f \in [0..Len(seen) -> WindowStates]
  /\ Window(seen, task) = IF f[Len(seen)].ambiguous THEN NoWindow ELSE f[Len(seen)]
  /\ f[0] = NoWindow
  /\ \A i \in 1..Len(seen) :
       f[i] = IF Task[seen[i].run] = task THEN Step(f[i - 1], seen[i]) ELSE f[i - 1]

LEMMA WindowFold ==
  ASSUME NEW seen \in Seq(Records), \A x \in ToSet(seen) : Proper(x), NEW task
  PROVE  \E f : WindowsOf(f, seen, task)
<1>1. PICK n : n = Len(seen)
  OBVIOUS
<1>2. n \in Nat /\ \A i \in 1..n : Proper(seen[i]) /\ i - 1 \in 0..n /\ i \in 0..n /\ i # 0
  <2>1. n \in Nat /\ \A i \in 1..n : seen[i] \in ToSet(seen)
    BY <1>1 DEF ToSet
  <2> QED BY <2>1
<1>3. PICK S : S = WindowStates
  OBVIOUS
<1>4. NoWindow \in S /\ \A w \in S : \A i \in 1..n : Step(w, seen[i]) \in S
  <2>1. NoWindow \in S
    <3>1. PICK none \in Seq(Kinds) : none = <<>>
      <4>1. <<>> \in Seq(Kinds)
        OBVIOUS
      <4> QED BY <4>1
    <3>2. NoWindow = [run |-> NoRun, retired |-> {}, latest |-> 0, started |-> FALSE,
                      completed |-> FALSE, ambiguous |-> FALSE, doubted |-> FALSE, events |-> none]
      BY <3>1 DEF NoWindow
    <3> QED BY <1>3, <3>2 DEF WindowStates
  <2> QED BY <1>2, <1>3, <2>1, StepMakes
<1>5. PICK step : step = [i \in 1..n |-> [w \in S |->
                           IF Task[seen[i].run] = task THEN Step(w, seen[i]) ELSE w]]
  OBVIOUS
<1>6. step \in [1..n -> [S -> S]]
  <2>1. \A i \in 1..n : \A w \in S :
          (IF Task[seen[i].run] = task THEN Step(w, seen[i]) ELSE w) \in S
    BY <1>4
  <2>2. \A i \in 1..n :
          [w \in S |-> IF Task[seen[i].run] = task THEN Step(w, seen[i]) ELSE w] \in [S -> S]
    BY <2>1
  <2> QED BY <1>5, <2>2
<1>7. PICK f \in [0..n -> S] : f[0] = NoWindow /\ \A i \in 1..n : f[i] = step[i][f[i - 1]]
  <2>1. PICK first : first = NoWindow
    OBVIOUS
  <2>2. n \in Nat /\ first \in S
    BY <1>2, <1>4, <2>1
  <2>3. \E f : FoldOf(f, S, n, first, step)
    BY <1>6, <2>2, FoldExists
  <2> QED BY <2>1, <2>3 DEF FoldOf
<1>8. \A i \in 1..n : f[i] = IF Task[seen[i].run] = task THEN Step(f[i - 1], seen[i]) ELSE f[i - 1]
  <2>1. \A i \in 1..n : f[i - 1] \in S
    BY <1>2
  <2>2. \A i \in 1..n : \A w \in S :
          step[i][w] = IF Task[seen[i].run] = task THEN Step(w, seen[i]) ELSE w
    BY <1>5
  <2> QED BY <1>7, <2>1, <2>2
<1> DEFINE Body(h) == [i \in 0..n |->
                        IF i = 0 THEN NoWindow
                        ELSE IF Task[seen[i].run] = task THEN Step(h[i - 1], seen[i]) ELSE h[i - 1]]
<1>9. f = Body(f)
  <2>1. \A i \in 0..n : i = 0 \/ i \in 1..n
    BY <1>2
  <2>2. \A i \in 0..n : f[i] = IF i = 0 THEN NoWindow
                        ELSE IF Task[seen[i].run] = task THEN Step(f[i - 1], seen[i]) ELSE f[i - 1]
    BY <1>2, <1>7, <1>8, <2>1
  <2> QED BY <2>2
<1>10. PICK g : g = CHOOSE h : h = Body(h)
  OBVIOUS
<1>11. g = Body(g) /\ Window(seen, task) = IF g[n].ambiguous THEN NoWindow ELSE g[n]
  <2>1. Window(seen, task) = IF g[n].ambiguous THEN NoWindow ELSE g[n]
    BY <1>1, <1>10 DEF Window
  <2> HIDE DEF Body
  <2> QED BY <1>9, <1>10, <2>1
<1>12. g[0] = NoWindow /\ DOMAIN g = 0..n /\ g = [i \in 0..n |-> g[i]]
  BY <1>2, <1>11
<1>13. \A i \in 1..n : g[i] = IF Task[seen[i].run] = task THEN Step(g[i - 1], seen[i]) ELSE g[i - 1]
  BY <1>2, <1>11
<1> HIDE DEF Body
<1>14. \A i \in 0..n : g[i] \in S
  <2>1. \A i \in 1..n : g[i - 1] \in S => g[i] \in S
    BY <1>2, <1>4, <1>13
  <2> QED BY <1>2, <1>4, <1>12, <2>1, HoldsAllAlong
<1>15. g \in [0..n -> S]
  BY <1>12, <1>14
<1> QED BY <1>1, <1>3, <1>11, <1>12, <1>13, <1>15 DEF WindowsOf

(* What a window says of the records it was made of.                       *)
SoFar(w, task, seen, k) ==
  /\ \A q \in w.retired : \E j \in DOMAIN seen : j <= k /\ seen[j].run = q
  /\ w.run # NoRun => Task[w.run] = task /\ \E j \in DOMAIN seen : j <= k /\ seen[j].run = w.run
  /\ w.run = NoRun => w.latest = 0 /\ \A j \in DOMAIN seen : j <= k => Task[seen[j].run] # task
  /\ \A j \in DOMAIN seen :
       j <= k /\ IsStart(seen[j]) /\ Task[seen[j].run] = task => seen[j].run <= w.latest
  /\ w.latest = 0 \/ w.latest = w.run
  /\ \A j \in DOMAIN seen :
       j <= k /\ seen[j].run = w.run /\ seen[j].kind = "process.completed" => w.completed

(* No start comes behind other events of its run.                          *)
StartsFirst(seen) ==
  \A i, j \in DOMAIN seen : j < i /\ IsStart(seen[i]) => seen[j].run # seen[i].run

LEMMA WindowStep ==
  ASSUME NEW seen \in Seq(Records), \A x \in ToSet(seen) : Proper(x), StartsFirst(seen), NEW task,
         NEW k \in DOMAIN seen, NEW w \in WindowStates, SoFar(w, task, seen, k - 1),
         NEW v, v = IF Task[seen[k].run] = task THEN Step(w, seen[k]) ELSE w
  PROVE  SoFar(v, task, seen, k)
<1>1. /\ \A j \in DOMAIN seen : j \in Nat /\ (j <= k <=> j <= k - 1 \/ j = k)
      /\ \A j \in DOMAIN seen : j <= k - 1 <=> j < k
      /\ k <= k
  OBVIOUS
<1>2. PICK rec : rec = seen[k]
  OBVIOUS
<1>3. Proper(rec) /\ rec.run \in Runs /\ rec.run \in Nat /\ rec.run # NoRun /\ rec.run # 0
  <2>1. rec \in ToSet(seen)
    BY <1>2 DEF ToSet
  <2>2. Proper(rec) /\ rec.run \in Runs
    BY <2>1 DEF Proper
  <2> QED BY <2>2 DEF Runs, NoRun
<1>4. w.latest \in Nat /\ \A q \in w.retired : q \in Runs
  BY DEF WindowStates
<1>5. PICK D : D = DOMAIN seen
  OBVIOUS
<1>6. /\ \A q \in w.retired : \E j \in D : j <= k - 1 /\ seen[j].run = q
      /\ w.run # NoRun => Task[w.run] = task /\ \E j \in D : j <= k - 1 /\ seen[j].run = w.run
      /\ w.run = NoRun => w.latest = 0 /\ \A j \in D : j <= k - 1 => Task[seen[j].run] # task
      /\ \A j \in D : j <= k - 1 /\ IsStart(seen[j]) /\ Task[seen[j].run] = task
                        => seen[j].run <= w.latest
      /\ w.latest = 0 \/ w.latest = w.run
      /\ \A j \in D : j <= k - 1 /\ seen[j].run = w.run /\ seen[j].kind = "process.completed"
                        => w.completed
  BY <1>5 DEF SoFar
<1>7. IsStart(rec) => \A j \in D : j <= k - 1 => seen[j].run # rec.run
  BY <1>1, <1>2, <1>5 DEF StartsFirst
<1>8. \A j \in D : j \in Nat /\ (j <= k <=> j <= k - 1 \/ j = k)
  BY <1>1, <1>5
<1>9. k \in D /\ k <= k /\ (IsStart(rec) => rec.kind # "process.completed")
  BY <1>1, <1>5 DEF IsStart
<1>10. \A j \in D : seen[j].run \in Nat
  <2>1. \A j \in DOMAIN seen : seen[j] \in ToSet(seen)
    BY DEF ToSet
  <2> QED BY <1>5, <2>1 DEF Proper, Runs
<1> SUFFICES
      /\ \A q \in v.retired : \E j \in D : j <= k /\ seen[j].run = q
      /\ v.run # NoRun => Task[v.run] = task /\ \E j \in D : j <= k /\ seen[j].run = v.run
      /\ v.run = NoRun => v.latest = 0 /\ \A j \in D : j <= k => Task[seen[j].run] # task
      /\ \A j \in D : j <= k /\ IsStart(seen[j]) /\ Task[seen[j].run] = task
                        => seen[j].run <= v.latest
      /\ v.latest = 0 \/ v.latest = v.run
      /\ \A j \in D : j <= k /\ seen[j].run = v.run /\ seen[j].kind = "process.completed"
                        => v.completed
  BY <1>5 DEF SoFar
<1>11. CASE Task[rec.run] # task
  <2>1. v = w
    BY <1>2, <1>11
  <2>2. rec.run # w.run
    BY <1>3, <1>6, <1>11
  <2> QED BY <1>2, <1>6, <1>8, <1>11, <2>1, <2>2
<1>12. CASE Task[rec.run] = task /\ Stays(w, rec, v)
  <2>1. rec.run \notin w.retired \/ ~IsStart(rec)
    BY <1>6, <1>7
  <2>2. w.run # NoRun
    <3>1. SUFFICES ASSUME w.run = NoRun PROVE FALSE
      OBVIOUS
    <3>2. IsStart(rec) /\ rec.run < w.latest /\ w.latest = 0
      BY <1>6, <1>12, <2>1, <3>1 DEF Stays
    <3> QED BY <1>3, <3>2
  <2>3. v.run = w.run /\ v.retired = w.retired /\ (w.completed => v.completed)
    BY <1>12 DEF Stays
  <2>4. v.latest \in Nat /\ w.latest <= v.latest /\ (v.latest = 0 \/ v.latest = v.run)
    BY <1>3, <1>4, <1>6, <1>12 DEF Stays
  <2>5. \A j \in D : j <= k /\ IsStart(seen[j]) /\ Task[seen[j].run] = task
                       => seen[j].run <= v.latest
    <3>1. IsStart(rec) => rec.run <= v.latest
      BY <1>12, <2>1 DEF Stays
    <3>2. \A j \in D : j <= k - 1 /\ IsStart(seen[j]) /\ Task[seen[j].run] = task
                       => seen[j].run <= v.latest
      BY <1>4, <1>6, <1>10, <2>4
    <3> QED BY <1>2, <1>8, <3>1, <3>2
  <2>6. \A j \in D : j <= k /\ seen[j].run = v.run /\ seen[j].kind = "process.completed"
                       => v.completed
    <3>1. rec.run = v.run /\ rec.kind = "process.completed" => v.completed
      BY <1>12, <2>3 DEF Stays
    <3> QED BY <1>2, <1>6, <1>8, <2>3, <3>1
  <2> QED BY <1>6, <1>8, <2>2, <2>3, <2>4, <2>5, <2>6
<1>13. CASE Task[rec.run] = task /\ TakesOver(w, rec, v)
  <2>1. /\ IsStart(rec) /\ w.latest <= rec.run /\ v.run = rec.run /\ v.latest = rec.run
        /\ \A q \in v.retired : q \in w.retired \/ (q = w.run /\ q # NoRun)
    BY <1>13 DEF TakesOver
  <2>2. \A q \in v.retired : \E j \in D : j <= k /\ seen[j].run = q
    BY <1>6, <1>8, <2>1
  <2>3. \A j \in D : j <= k /\ IsStart(seen[j]) /\ Task[seen[j].run] = task
                       => seen[j].run <= v.latest
    <3>1. \A j \in D : j <= k - 1 /\ IsStart(seen[j]) /\ Task[seen[j].run] = task
                       => seen[j].run <= rec.run
      BY <1>3, <1>4, <1>6, <1>10, <2>1
    <3>2. rec.run <= rec.run
      BY <1>3
    <3> QED BY <1>2, <1>8, <2>1, <3>1, <3>2
  <2>4. \A j \in D : j <= k /\ seen[j].run = v.run /\ seen[j].kind = "process.completed"
                       => v.completed
    BY <1>2, <1>7, <1>8, <1>9, <2>1
  <2> QED BY <1>2, <1>3, <1>9, <1>13, <2>1, <2>2, <2>3, <2>4
<1>14. CASE Task[rec.run] = task /\ ComesFirst(w, rec, v)
  <2>1. /\ ~IsStart(rec) /\ w.run = NoRun /\ v.run = rec.run /\ v.retired = w.retired
        /\ v.latest = w.latest /\ (rec.kind = "process.completed" => v.completed)
    BY <1>14 DEF ComesFirst
  <2>2. v.latest = 0 /\ \A j \in D : j <= k - 1 => Task[seen[j].run] # task
    BY <1>6, <2>1
  <2>3. \A j \in D : j <= k /\ IsStart(seen[j]) /\ Task[seen[j].run] = task
                       => seen[j].run <= v.latest
    BY <1>2, <1>8, <2>1, <2>2
  <2>4. \A j \in D : j <= k /\ seen[j].run = v.run /\ seen[j].kind = "process.completed"
                       => v.completed
    <3>1. \A j \in D : j <= k - 1 => seen[j].run # rec.run
      BY <1>14, <2>2
    <3> QED BY <1>2, <1>8, <2>1, <3>1
  <2>5. \A q \in v.retired : \E j \in D : j <= k /\ seen[j].run = q
    BY <1>6, <1>8, <2>1
  <2> QED BY <1>2, <1>3, <1>9, <1>14, <2>1, <2>2, <2>3, <2>4, <2>5
<1>15. Task[rec.run] = task => Stays(w, rec, v) \/ TakesOver(w, rec, v) \/ ComesFirst(w, rec, v)
  BY <1>2, <1>3, StepMakes
<1> QED BY <1>11, <1>12, <1>13, <1>14, <1>15

(* The whole sequence: what is shown is the last window, unless that one   *)
(* is ambiguous.                                                           *)
LEMMA WindowOfAll ==
  ASSUME NEW seen \in Seq(Records), \A x \in ToSet(seen) : Proper(x), StartsFirst(seen), NEW task,
         NEW w, w = Window(seen, task), w.run # NoRun
  PROVE  w \in WindowStates /\ SoFar(w, task, seen, Len(seen))
<1>1. PICK n \in Nat : n = Len(seen)
  OBVIOUS
<1>2. PICK f \in [0..n -> WindowStates] :
        /\ Window(seen, task) = IF f[n].ambiguous THEN NoWindow ELSE f[n]
        /\ f[0] = NoWindow
        /\ \A i \in 1..n :
             f[i] = IF Task[seen[i].run] = task THEN Step(f[i - 1], seen[i]) ELSE f[i - 1]
  <2>1. \E f : WindowsOf(f, seen, task)
    BY WindowFold
  <2> QED BY <1>1, <2>1 DEF WindowsOf
<1>3. /\ NoWindow.retired = {} /\ NoWindow.run = NoRun /\ NoWindow.latest = 0
  BY DEF NoWindow
<1>4. w = f[n]
  BY <1>2, <1>3
<1>5. SoFar(f[0], task, seen, 0)
  <2>1. \A j \in DOMAIN seen : ~(j <= 0)
    OBVIOUS
  <2> QED BY <1>2, <1>3, <2>1 DEF SoFar
<1> DEFINE Q == {k \in 0..n : SoFar(f[k], task, seen, k)}
<1>6. 0 \in Q
  BY <1>5
<1>7. ASSUME NEW k \in 1..n, k - 1 \in Q PROVE k \in Q
  <2>1. k \in DOMAIN seen /\ k - 1 \in 0..n /\ k \in 0..n
    BY <1>1
  <2>2. PICK v : v = f[k - 1]
    OBVIOUS
  <2>3. v \in WindowStates /\ SoFar(v, task, seen, k - 1)
    BY <1>7, <2>1, <2>2
  <2>4. f[k] = IF Task[seen[k].run] = task THEN Step(v, seen[k]) ELSE v
    BY <1>2, <2>2
  <2>5. SoFar(f[k], task, seen, k)
    BY <2>1, <2>3, <2>4, WindowStep
  <2> QED BY <2>1, <2>5
<1>8. \A k \in 0..n : k \in Q
  <2> HIDE DEF Q
  <2> QED BY <1>6, <1>7, UpToTheLast
<1>9. n \in 0..n
  BY <1>1
<1> QED BY <1>1, <1>4, <1>8, <1>9

(* What a reader sees begins, for every run, with its start.               *)
LEMMA VisibleStartsFirst ==
  ASSUME FileOK(file), SinkInv
  PROVE  StartsFirst(Visible)
<1>1. PICK seen : seen = Visible
  OBVIOUS
<1>2. seen \in Seq(Records) /\ Increasing(seen) /\ ToSet(seen) = Shown(file)
  BY <1>1, ReadIsOrdered DEF Visible, FileOK
<1>3. ASSUME NEW i \in DOMAIN seen, NEW j \in DOMAIN seen, j < i, IsStart(seen[i]),
             seen[j].run = seen[i].run
      PROVE  FALSE
  <2>1. PICK x : x = seen[i]
    OBVIOUS
  <2>2. PICK y : y = seen[j]
    OBVIOUS
  <2>3. x \in Shown(file) /\ y \in Shown(file)
    BY <1>2, <2>1, <2>2 DEF ToSet
  <2>4. x \in Live(file) /\ y \in Live(file) /\ Proper(x) /\ x.seq \in Nat /\ y.seq \in Nat
    BY <2>3, LiveIsProper
  <2>5. x.run \in Runs
    BY <2>4 DEF Proper
  <2>6. x.seq <= y.seq
    BY <1>3, <2>1, <2>2, <2>4, <2>5 DEF SinkInv, SinkFile
  <2>7. y.seq < x.seq
    BY <1>2, <1>3, <2>1, <2>2 DEF Increasing
  <2> QED BY <2>4, <2>6, <2>7
<1> QED BY <1>1, <1>3 DEF StartsFirst

(* The completion of a sink that ended well is there for every reader.     *)
LEMMA EndIsSeen ==
  ASSUME FileOK(file), SinkInv, OkInv, NEW r \in Runs, Reliable(r)
  PROVE  \E x \in Shown(file) : x.run = r /\ x.kind = "process.completed"
<1>1. PICK s \in SinkStates : s = sink[r]
  BY DEF SinkInv
<1>2. s.pc = "ended" /\ s.ok /\ s.alone /\ s.clean /\ s.given # <<>> /\ s.completed
  BY <1>1 DEF Reliable, SinkInv, SinkShape
<1>3. PICK g \in Seq(Kinds) : g = s.given
  BY SinkFields
<1>4. PICK n \in Nat : n = Len(g)
  OBVIOUS
<1>5. Done(s) = n /\ Trusted(s)
  BY <1>2, <1>3, <1>4 DEF Done, Underway, Trusted
<1>6. PICK low \in Nat : Holds(r, g, low, n, file)
  BY <1>1, <1>3, <1>5 DEF OkInv, OkSink
<1>7. PICK i \in 1..n : g[i] = "process.completed"
  BY <1>1, <1>2, <1>3, <1>4 DEF SinkInv, SinkShape
<1>8. PICK x : x = Record(low + i, r, g[i])
  OBVIOUS
<1>9. x.run = r /\ x.kind = "process.completed"
  <2>1. low + i \in Nat /\ g[i] \in Kinds
    BY <1>4
  <2> QED BY <1>7, <1>8, <2>1, RecordIs
<1>10. x \in Shown(file)
  BY <1>6, <1>8 DEF Holds
<1> QED BY <1>9, <1>10

LEMMA WindowIsNewest ==
  ASSUME FileOK(file), SinkInv, OkInv
  PROVE  CurrentIsNewest
<1>1. PICK seen : seen = Visible
  OBVIOUS
<1>2. seen \in Seq(Records) /\ ToSet(seen) = Shown(file)
  BY <1>1, ReadIsOrdered DEF Visible, FileOK
<1>3. \A x \in ToSet(seen) : Proper(x)
  BY <1>2, LiveIsProper
<1>4. StartsFirst(seen)
  BY <1>1, VisibleStartsFirst
<1>5. PICK n \in Nat : n = Len(seen)
  BY <1>2
<1>6. \A j \in DOMAIN seen : j <= n /\ seen[j] \in ToSet(seen)
  BY <1>2, <1>5 DEF ToSet
<1>7. ASSUME NEW task, NEW w, w = Window(seen, task), w.run # NoRun
      PROVE  /\ \A i \in DOMAIN seen :
                  IsStart(seen[i]) /\ Task[seen[i].run] = task => seen[i].run <= w.run
             /\ Pose(w) = "working" => ~Reliable(w.run)
  <2>1. w \in WindowStates /\ SoFar(w, task, seen, n)
    BY <1>2, <1>3, <1>4, <1>5, <1>7, WindowOfAll
  <2>2. w.run \in Runs /\ w.run \in Nat /\ w.latest \in Nat /\ w.latest <= w.run
    <3>1. w.run \in Runs /\ w.latest \in Nat /\ (w.latest = 0 \/ w.latest = w.run)
      BY <1>7, <2>1 DEF WindowStates, SoFar
    <3> QED BY <3>1 DEF Runs
  <2>3. ASSUME NEW i \in DOMAIN seen, IsStart(seen[i]), Task[seen[i].run] = task
        PROVE  seen[i].run <= w.run
    <3>1. seen[i].run <= w.latest
      BY <1>6, <2>1, <2>3 DEF SoFar
    <3>2. seen[i].run \in Nat
      BY <1>3, <1>6 DEF Proper, Runs
    <3> QED BY <2>2, <3>1, <3>2
  <2>4. ASSUME Pose(w) = "working", Reliable(w.run) PROVE FALSE
    <3>1. PICK x \in Shown(file) : x.run = w.run /\ x.kind = "process.completed"
      BY <2>2, <2>4, EndIsSeen
    <3>2. PICK j \in DOMAIN seen : seen[j] = x
      BY <1>2 DEF ToSet
    <3>3. w.completed
      BY <1>6, <2>1, <3>1, <3>2 DEF SoFar
    <3>4. Pose(w) \in {"uncertain", "settled"}
      BY <3>3, Zenon DEF Pose
    <3> QED BY <2>4, <3>4
  <2> QED BY <2>3, <2>4
<1> QED BY <1>1, <1>7 DEF CurrentIsNewest

(* However late older sinks write (762-833), a window never names a run    *)
(* when a younger run of its task has a readable start, and what the       *)
(* sanctuary shows at work is not a run that is known to have ended.       *)
THEOREM CurrentNewest == Spec => []CurrentIsNewest
<1>1. IInv => CurrentIsNewest
  BY WindowIsNewest DEF IInv
<1> QED BY <1>1, InvAlways, PTL
=============================================================================
