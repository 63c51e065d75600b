------------------------- MODULE RelaySelectionProofs -------------------------
(***************************************************************************)
(* Proofs about the selection of relay requests, for every set of markers, *)
(* any length of the control issue and any clock.                          *)
(***************************************************************************)
EXTENDS RelaySelection, FiniteSetTheorems, WellFoundedInduction, TLAPS

(* The one request a poll selects is on the list and current.              *)
LEMMA SelectedIsCurrent ==
  ASSUME NEW list, NEW m \in Poll(list).selected
  PROVE  /\ \E i \in OfClass(list, {"CURRENT"}) : m = list[i]
         /\ \A n \in Poll(list).selected : n = m
         /\ OfClass(list, Blocking) = {}
<1> DEFINE current == OfClass(list, {"CURRENT"})
<1>1. /\ list # <<>> /\ OfClass(list, Blocking) = {}
      /\ \A i, j \in current : i = j
      /\ Poll(list).selected = {list[i] : i \in current}
  BY DEF Poll, Block
<1> QED BY <1>1

LEMMA CurrentIsNew ==
  ASSUME NEW m, ClassOf(m) = "CURRENT"
  PROVE  RecordsFor(m) = {} /\ ~Over(m)
  BY DEF ClassOf, LifecycleOf

(* A request is consumed under one identity only.                          *)
THEOREM NoSecondConsumption == Spec => []ConsumedOnce
<1> DEFINE Inv == /\ PendingIsNew /\ ConsumedOnce
                  /\ \A a, b \in pending : a = b
<1>1. Init => Inv
  BY DEF Init, PendingIsNew, ConsumedOnce
<1>2. Inv /\ [Next]_vars => Inv'
  <2> SUFFICES ASSUME Inv, [Next]_vars PROVE Inv'
    OBVIOUS
  <2>1. CASE Delegate
    <3>1. \A m \in Selected : RecordsFor(m) = {} /\ \A n \in Selected : n = m
      BY SelectedIsCurrent, CurrentIsNew DEF Selected, OfClass
    <3> QED BY <2>1, <3>1 DEF Delegate, PendingIsNew, ConsumedOnce, RecordsFor
  <2>2. CASE Settle
    <3>1. PICK m \in pending : consumed' = consumed \cup {[id |-> m.id, identity |-> m.identity]}
      BY <2>2 DEF Settle
    <3>2. \A c \in consumed : c.id # m.id
      BY DEF PendingIsNew, RecordsFor
    <3>3. ConsumedOnce'
      BY <3>1, <3>2 DEF ConsumedOnce
    <3> QED BY <2>2, <3>3 DEF Settle, PendingIsNew
  <2>3. CASE Post \/ Tick \/ GiveUp \/ UNCHANGED vars
    BY <2>3 DEF Post, Tick, GiveUp, vars, PendingIsNew, ConsumedOnce, RecordsFor
  <2> QED BY <2>1, <2>2, <2>3 DEF Next
<1>3. Inv => ConsumedOnce
  OBVIOUS
<1> QED BY <1>1, <1>2, <1>3, PTL DEF Spec

(* The control issue only grows, and what is delegated is on it.           *)
THEOREM TypeCorrect == Spec => []TypeOK
<1> DEFINE Ids == {[id |-> m.id, identity |-> m.identity] : m \in MarkerSpace}
<1>1. Init => TypeOK
  BY DEF Init, TypeOK
<1>2. TypeOK /\ [Next]_vars => TypeOK'
  <2> SUFFICES ASSUME TypeOK, [Next]_vars PROVE TypeOK'
    OBVIOUS
  <2>1. CASE Post
    BY <2>1 DEF Post, TypeOK
  <2>2. CASE Tick
    BY <2>2 DEF Tick, TypeOK
  <2>3. CASE Delegate
    <3>1. \A m \in Selected : m \in MarkerSpace /\ \A n \in Selected : n = m
      BY SelectedIsCurrent DEF Selected, OfClass, TypeOK
    <3> QED BY <2>3, <3>1 DEF Delegate, TypeOK
  <2>4. CASE Settle
    <3>1. consumed' \subseteq Ids
      BY <2>4 DEF Settle, TypeOK
    <3> QED BY <2>4, <3>1 DEF Settle, TypeOK
  <2>5. CASE GiveUp \/ UNCHANGED vars
    BY <2>5 DEF GiveUp, vars, TypeOK
  <2> QED BY <2>1, <2>2, <2>3, <2>4, <2>5 DEF Next
<1> QED BY <1>1, <1>2, PTL DEF Spec

(* The selection never jumps from one request to another: what was posted  *)
(* first stays on the list, so a second current request can only block.    *)
THEOREM SelectionStays == Spec => SelectionNeverJumps
<1> DEFINE Stays == \A m \in Selected : Selected' \subseteq {m} \/ m.expires <= now'
                                          \/ \E c \in consumed' : c.id = m.id
           Current == OfClass(inbox, {"CURRENT"})
<1>1. TypeOK /\ [Next]_vars => [Stays]_vars
  <2> SUFFICES ASSUME TypeOK, Next, NEW m \in Selected, ~(m.expires <= now'),
                      ~\E c \in consumed' : c.id = m.id, NEW n \in Selected'
               PROVE  n = m
    OBVIOUS
  <2>1. PICK i \in DOMAIN inbox : m = inbox[i] /\ ClassOf(inbox[i]) = "CURRENT"
    BY SelectedIsCurrent DEF Selected, OfClass
  <2>2. i \in DOMAIN inbox' /\ inbox'[i] = inbox[i]
    BY <2>1 DEF TypeOK, Next, Post, Tick, Delegate, Settle, GiveUp
  <2>3. ClassOf(m)' = "CURRENT"
    BY <2>1 DEF ClassOf, LifecycleOf, RecordsFor, Over
  <2>4. i \in Current'
    BY <2>1, <2>2, <2>3 DEF OfClass
  <2>5. /\ \A j, k \in Current' : j = k
        /\ Selected' = {inbox'[j] : j \in Current'}
    <3> HIDE DEF Current
    <3> QED BY DEF Selected, Poll, Block, Current
  <2> QED BY <2>1, <2>2, <2>4, <2>5
<1> QED BY <1>1, TypeCorrect, PTL DEF Spec, SelectionNeverJumps

-----------------------------------------------------------------------------
(* Noise.  Ranks number the elements of a finite set of naturals in order. *)

LEMMA Ranks ==
  ASSUME NEW S \in SUBSET Nat, IsFiniteSet(S)
  PROVE  /\ \A n \in 1..Cardinality(S) :
              Nth(S, n) \in S /\ Cardinality(Upto(S, Nth(S, n))) = n
         /\ \A i \in S : /\ Cardinality(Upto(S, i)) \in 1..Cardinality(S)
                        /\ Nth(S, Cardinality(Upto(S, i))) = i
         /\ \A i, j \in S : i < j => Cardinality(Upto(S, i)) < Cardinality(Upto(S, j))
<1> DEFINE Rank(i) == Cardinality(Upto(S, i))
<1>1. \A i \in S : Upto(S, i) \in SUBSET S /\ i \in Upto(S, i)
  BY DEF Upto
<1>2. \A i \in S : /\ IsFiniteSet(Upto(S, i)) /\ Rank(i) \in Nat /\ Rank(i) <= Cardinality(S)
                  /\ Rank(i) # 0
  <2> TAKE i \in S
  <2>1. IsFiniteSet(Upto(S, i)) /\ Rank(i) <= Cardinality(S)
    BY <1>1, FS_Subset
  <2>2. Rank(i) \in Nat
    BY <2>1, FS_CardinalityType
  <2>3. Rank(i) # 0
    BY <1>1, <2>1, FS_EmptySet
  <2> QED BY <2>1, <2>2, <2>3
<1>3. Cardinality(S) \in Nat
  BY FS_CardinalityType
<1>4. \A i, j \in S : i < j => Rank(i) < Rank(j)
  <2> SUFFICES ASSUME NEW i \in S, NEW j \in S, i < j PROVE Rank(i) < Rank(j)
    OBVIOUS
  <2>1. Upto(S, i) \in SUBSET Upto(S, j) /\ j \in Upto(S, j) /\ j \notin Upto(S, i)
    <3>1. i \in Nat /\ j \in Nat /\ \A k \in S : k \in Nat
      OBVIOUS
    <3>2. \A k \in S : k <= i => k <= j
      BY <3>1
    <3>3. j <= j /\ ~(j <= i)
      BY <3>1
    <3> QED BY <3>2, <3>3 DEF Upto
  <2>2. Rank(i) <= Rank(j) /\ Rank(j) # Rank(i)
    <3>1. IsFiniteSet(Upto(S, j)) /\ Upto(S, i) # Upto(S, j)
      BY <1>2, <2>1
    <3> QED BY <2>1, <3>1, FS_Subset
  <2>3. Rank(i) \in Nat /\ Rank(j) \in Nat
    BY <1>2
  <2> HIDE DEF Rank
  <2> QED BY <2>2, <2>3
<1>5. \A i, j \in S : Rank(i) = Rank(j) => i = j
  <2> SUFFICES ASSUME NEW i \in S, NEW j \in S, Rank(i) = Rank(j), i # j PROVE FALSE
    OBVIOUS
  <2>1. i < j \/ j < i
    OBVIOUS
  <2>2. Rank(i) \in Nat
    BY <1>2
  <2> HIDE DEF Rank
  <2> QED BY <1>4, <2>1, <2>2
<1> DEFINE f == [i \in S |-> Rank(i)]
<1>6. f \in Injection(S, 1..Cardinality(S))
  <2>1. \A i \in S : Rank(i) \in 1..Cardinality(S)
    BY <1>2, <1>3
  <2> HIDE DEF Rank
  <2> QED BY <1>5, <2>1 DEF Injection, IsInjective
<1>7. IsFiniteSet(1..Cardinality(S)) /\ Cardinality(1..Cardinality(S)) = Cardinality(S)
  BY <1>3, FS_Interval
<1>8. f \in Surjection(S, 1..Cardinality(S))
  <2> HIDE DEF f
  <2> QED BY <1>6, <1>7, FS_Injection
<1>9. \A n \in 1..Cardinality(S) : \E i \in S : Rank(i) = n
  <2> HIDE DEF Rank
  <2> QED BY <1>8 DEF Surjection
<1>10. \A n \in 1..Cardinality(S) : Nth(S, n) \in S /\ Rank(Nth(S, n)) = n
  BY <1>9 DEF Nth
<1>11. \A i \in S : Rank(i) \in 1..Cardinality(S)
  BY <1>2, <1>3
<1>12. \A i \in S : Nth(S, Rank(i)) = i
  <2> HIDE DEF Rank
  <2> QED BY <1>5, <1>10, <1>11
<1> QED BY <1>4, <1>10, <1>11, <1>12

LEMMA FirstOf ==
  ASSUME NEW S \in SUBSET Nat, S # {}
  PROVE  First(S) \in S /\ \A j \in S : First(S) <= j
<1>1. PICK i \in S : \A j \in S : ~(<<j, i>> \in OpToRel(<, Nat))
  BY NatLessThanWellFounded, WFMin, Zenon
<1>2. \A j \in S : ~(j < i)
  <2>1. \A j \in S : j \in Nat /\ i \in Nat
    OBVIOUS
  <2> QED BY <1>1, <2>1, Zenon DEF OpToRel
<1>3. \A j \in S : i <= j
  BY <1>2
<1> QED BY <1>3 DEF First

LEMMA NoiseIsIgnored ==
  ASSUME NEW m, Noise(m)
  PROVE  ClassOf(m) = "ignored"
BY DEF Noise, ClassOf

(* What is heard keeps its class, its number and its order.                *)
LEMMA HeardInOrder ==
  ASSUME TypeOK, NEW C, "ignored" \notin C
  PROVE  /\ OfClass(inbox, C) \in SUBSET Nat /\ OfClass(Quiet, C) \in SUBSET Nat
         /\ \A n \in OfClass(Quiet, C) :
              Nth(Heard, n) \in OfClass(inbox, C) /\ Quiet[n] = inbox[Nth(Heard, n)]
         /\ \A i \in OfClass(inbox, C) : \E n \in OfClass(Quiet, C) : i = Nth(Heard, n)
         /\ \A n, k \in OfClass(Quiet, C) : n < k => Nth(Heard, n) < Nth(Heard, k)
<1>1. DOMAIN inbox = 1..Len(inbox) /\ Len(inbox) \in Nat
  BY DEF TypeOK
<1>2. Heard \in SUBSET Nat /\ IsFiniteSet(Heard)
  <2>1. IsFiniteSet(1..Len(inbox)) /\ Heard \in SUBSET (1..Len(inbox))
    BY <1>1, FS_Interval DEF Heard
  <2>2. IsFiniteSet(Heard)
    BY <2>1, FS_Subset
  <2>3. Heard \in SUBSET Nat
    BY <1>1, <2>1
  <2> QED BY <2>2, <2>3
<1> DEFINE Rank(i) == Cardinality(Upto(Heard, i))
<1>3. /\ \A n \in 1..Cardinality(Heard) : Nth(Heard, n) \in Heard /\ Rank(Nth(Heard, n)) = n
      /\ \A i \in Heard : Rank(i) \in 1..Cardinality(Heard) /\ Nth(Heard, Rank(i)) = i
      /\ \A i, j \in Heard : i < j => Rank(i) < Rank(j)
  BY <1>2, Ranks
<1> HIDE DEF Rank
<1>4. DOMAIN Quiet = 1..Cardinality(Heard) /\ Cardinality(Heard) \in Nat
      /\ \A n \in 1..Cardinality(Heard) : Quiet[n] = inbox[Nth(Heard, n)]
  BY <1>2, FS_CardinalityType DEF Quiet
<1>5. \A i \in OfClass(inbox, C) : i \in Heard
  BY NoiseIsIgnored DEF OfClass, Heard
<1>6. \A n \in OfClass(Quiet, C) :
        /\ n \in 1..Cardinality(Heard) /\ Nth(Heard, n) \in OfClass(inbox, C)
        /\ Quiet[n] = inbox[Nth(Heard, n)]
  BY <1>3, <1>4 DEF OfClass, Heard
<1>7. \A i \in OfClass(inbox, C) : \E n \in OfClass(Quiet, C) : i = Nth(Heard, n)
  BY <1>3, <1>4, <1>5 DEF OfClass
<1>8. ASSUME NEW n \in OfClass(Quiet, C), NEW k \in OfClass(Quiet, C), n < k
      PROVE  Nth(Heard, n) < Nth(Heard, k)
  <2>1. /\ Nth(Heard, n) \in Heard /\ Nth(Heard, k) \in Heard
        /\ Rank(Nth(Heard, n)) = n /\ Rank(Nth(Heard, k)) = k /\ n \in Nat /\ k \in Nat
    BY <1>3, <1>4, <1>6
  <2>2. Nth(Heard, n) # Nth(Heard, k)
    BY <1>8, <2>1
  <2>3. ~(Nth(Heard, k) < Nth(Heard, n))
    <3>1. ASSUME Nth(Heard, k) < Nth(Heard, n) PROVE Rank(Nth(Heard, k)) < Rank(Nth(Heard, n))
      BY <1>3, <2>1, <3>1
    <3> QED BY <1>8, <2>1, <3>1
  <2>4. Nth(Heard, n) \in Nat /\ Nth(Heard, k) \in Nat
    BY <1>2, <2>1
  <2> QED BY <2>2, <2>3, <2>4
<1> QED BY <1>1, <1>4, <1>6, <1>7, <1>8 DEF OfClass

LEMMA SameFirst ==
  ASSUME TypeOK, NEW C, "ignored" \notin C, OfClass(inbox, C) # {}
  PROVE  inbox[First(OfClass(inbox, C))] = Quiet[First(OfClass(Quiet, C))]
<1> DEFINE L == OfClass(inbox, C)
           Q == OfClass(Quiet, C)
<1>1. /\ L \in SUBSET Nat /\ Q \in SUBSET Nat
      /\ \A n \in Q : Nth(Heard, n) \in L /\ Quiet[n] = inbox[Nth(Heard, n)]
      /\ \A i \in L : \E n \in Q : i = Nth(Heard, n)
      /\ \A n, k \in Q : n < k => Nth(Heard, n) < Nth(Heard, k)
  BY HeardInOrder
<1>2. L # {}
  OBVIOUS
<1> HIDE DEF L, Q
<1>3. First(L) \in L /\ \A j \in L : First(L) <= j
  BY <1>1, <1>2, FirstOf
<1>4. PICK n \in Q : First(L) = Nth(Heard, n)
  BY <1>1, <1>3
<1>5. First(Q) \in Q /\ \A j \in Q : First(Q) <= j
  BY <1>1, <1>4, FirstOf
<1>6. ~(First(Q) < n)
  <2>1. Nth(Heard, First(Q)) \in L /\ First(L) \in Nat /\ Nth(Heard, First(Q)) \in Nat
    BY <1>1, <1>3, <1>5
  <2>2. First(L) <= Nth(Heard, First(Q))
    BY <1>3, <2>1
  <2>3. ~(Nth(Heard, First(Q)) < Nth(Heard, n))
    BY <1>4, <2>1, <2>2
  <2> QED BY <1>1, <1>4, <1>5, <2>3
<1>7. First(Q) = n
  <2>1. First(Q) <= n /\ n \in Nat /\ First(Q) \in Nat
    BY <1>1, <1>4, <1>5
  <2> QED BY <1>6, <2>1
<1>8. inbox[First(L)] = Quiet[First(Q)]
  BY <1>1, <1>4, <1>7
<1> QED BY <1>8 DEF L, Q

(* Noise does not hide, delay or add a selection: whatever noise is on the *)
(* control issue, a poll finds what it would find without it.              *)
THEOREM NoiseDoesNotCount == Spec => []NoiseIsIrrelevant
<1>1. TypeOK => NoiseIsIrrelevant
  <2> SUFFICES ASSUME TypeOK PROVE NoiseIsIrrelevant
    OBVIOUS
  <2> DEFINE Same(C) == (OfClass(inbox, C) = {} <=> OfClass(Quiet, C) = {})
             L == OfClass(inbox, {"CURRENT"})
             Q == OfClass(Quiet, {"CURRENT"})
  <2>1. ASSUME NEW C, "ignored" \notin C PROVE Same(C)
    BY <2>1, HeardInOrder
  <2>2. Same({"CURRENT"}) /\ Same({"CONSUMED"}) /\ Same(Blocking)
    BY <2>1 DEF Blocking
  <2>3. OfClass(inbox, Blocking) # {} =>
          ClassOf(inbox[First(OfClass(inbox, Blocking))])
            = ClassOf(Quiet[First(OfClass(Quiet, Blocking))])
    BY SameFirst DEF Blocking
  <2>4. /\ \A n \in Q : Nth(Heard, n) \in L /\ Quiet[n] = inbox[Nth(Heard, n)]
        /\ \A i \in L : \E n \in Q : i = Nth(Heard, n)
        /\ \A n, k \in Q : n < k => Nth(Heard, n) < Nth(Heard, k)
        /\ L \in SUBSET Nat /\ Q \in SUBSET Nat
    BY HeardInOrder
  <2> HIDE DEF L, Q
  <2>5. {inbox[i] : i \in L} = {Quiet[n] : n \in Q}
    <3>1. ASSUME NEW i \in L PROVE \E n \in Q : inbox[i] = Quiet[n]
      BY <2>4
    <3>2. ASSUME NEW n \in Q PROVE \E i \in L : Quiet[n] = inbox[i]
      BY <2>4
    <3> QED BY <3>1, <3>2
  <2>6. (\E i, j \in L : i # j) <=> (\E n, k \in Q : n # k)
    <3>1. ASSUME NEW n \in Q, NEW k \in Q, n # k PROVE Nth(Heard, n) # Nth(Heard, k)
      <4>1. n < k \/ k < n
        BY <2>4, <3>1
      <4>2. Nth(Heard, n) \in Nat /\ Nth(Heard, k) \in Nat
        BY <2>4
      <4> QED BY <2>4, <4>1, <4>2
    <3> QED BY <2>4, <3>1
  <2>7. (inbox = <<>> => Quiet = <<>>) /\ (Quiet = <<>> => \A C : OfClass(Quiet, C) = {})
    <3>1. inbox = <<>> => Heard = {}
      BY DEF Heard
    <3>2. Cardinality({}) = 0
      BY FS_EmptySet
    <3> QED BY <3>1, <3>2 DEF Quiet, OfClass
  <2> HIDE DEF Same
  <2> QED BY <2>2, <2>3, <2>5, <2>6, <2>7 DEF NoiseIsIrrelevant, Poll, Block, L, Q, Same
<1> QED BY <1>1, TypeCorrect, PTL
=============================================================================
