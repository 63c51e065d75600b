---------------------------- MODULE EvidenceProofs ----------------------------
(***************************************************************************)
(* Proofs about the resolver, for every set of comments and every length   *)
(* of the thread.                                                          *)
(***************************************************************************)
EXTENDS EvidenceThread, TLAPS

(* What blocks a thread whatever it says about the request, and what blocks*)
(* the candidates that name the request.                                   *)
Tainted(thread) ==
  \/ OfKind(thread, "malformed") # {} \/ OfKind(thread, "unsupported") # {}
  \/ \E field \in OuterFields : Outside(thread, field) # {}
Suspect(candidates) ==
  \/ \E c \in candidates : c.author \notin Trusted \/ c.result \notin TerminalResults
  \/ \E field \in IdentityFields : Mismatching(Request, candidates, field) # {}
  \/ \E a, b \in candidates : a # b
Found(thread) == SameRequest(Request, thread)
DecisionOn(thread) == Resolve(Request, "COMPLETE", thread, Trusted).decision

LEMMA TaintedFails ==
  ASSUME NEW thread
  PROVE  Tainted(thread) <=> Fails(ThreadChecks(thread))
  BY DEF Tainted, Fails, Objects, ThreadChecks, OuterFields

LEMMA SuspectFails ==
  ASSUME NEW candidates
  PROVE  Suspect(candidates) <=> Fails(CandidateChecks(Request, candidates, Trusted))
<1> DEFINE checks == CandidateChecks(Request, candidates, Trusted)
<1>1. DOMAIN checks = 1 .. 9
  BY DEF CandidateChecks
<1>2. /\ Objects(checks[1]) <=> \E c \in candidates : c.author \notin Trusted
      /\ Objects(checks[2]) <=> Mismatching(Request, candidates, "repository") # {}
      /\ Objects(checks[3]) <=> Mismatching(Request, candidates, "issue") # {}
      /\ Objects(checks[4]) <=> Mismatching(Request, candidates, "action") # {}
      /\ Objects(checks[5]) <=> Mismatching(Request, candidates, "branch") # {}
      /\ Objects(checks[6]) <=> Mismatching(Request, candidates, "head") # {}
      /\ Objects(checks[7]) <=> \E c \in candidates : c.result \notin TerminalResults
      /\ Objects(checks[8]) <=> \E a, b \in candidates : a.result # b.result
      /\ Objects(checks[9]) <=> \E a, b \in candidates : a # b
  BY DEF CandidateChecks, Objects
<1>3. Fails(checks) <=> \E i \in 1 .. 9 : Objects(checks[i])
  BY <1>1 DEF Fails
<1>4. Fails(checks) <=>
        \/ Objects(checks[1]) \/ Objects(checks[2]) \/ Objects(checks[3])
        \/ Objects(checks[4]) \/ Objects(checks[5]) \/ Objects(checks[6])
        \/ Objects(checks[7]) \/ Objects(checks[8]) \/ Objects(checks[9])
  <2> HIDE DEF checks
  <2> QED BY <1>3
<1>5. (\E field \in IdentityFields : Mismatching(Request, candidates, field) # {}) <=>
        \/ Mismatching(Request, candidates, "repository") # {}
        \/ Mismatching(Request, candidates, "issue") # {}
        \/ Mismatching(Request, candidates, "action") # {}
        \/ Mismatching(Request, candidates, "branch") # {}
        \/ Mismatching(Request, candidates, "head") # {}
  BY DEF IdentityFields
<1>6. Objects(checks[8]) => Objects(checks[9])
  <2> HIDE DEF checks
  <2> QED BY <1>2
<1>7. Fails(checks) <=>
        \/ \E c \in candidates : c.author \notin Trusted
        \/ \E field \in IdentityFields : Mismatching(Request, candidates, field) # {}
        \/ \E c \in candidates : c.result \notin TerminalResults
        \/ \E a, b \in candidates : a # b
  <2> HIDE DEF checks
  <2> QED BY <1>2, <1>4, <1>5, <1>6
<1>8. Suspect(candidates) <=>
        \/ \E c \in candidates : c.author \notin Trusted
        \/ \E field \in IdentityFields : Mismatching(Request, candidates, field) # {}
        \/ \E c \in candidates : c.result \notin TerminalResults
        \/ \E a, b \in candidates : a # b
  BY DEF Suspect
<1> QED BY <1>7, <1>8

(* The decision in terms of the sets above.                                *)
LEMMA Decision ==
  ASSUME NEW thread
  PROVE  DecisionOn(thread) =
           IF Tainted(thread) THEN Blocked
           ELSE IF Found(thread) = {} THEN NotFound
           ELSE IF Suspect(Found(thread)) THEN Blocked
           ELSE IF \A c \in Found(thread) : c.result \in NonSuccessResults
           THEN SettledNonSuccess ELSE Completed
  BY TaintedFails, SuspectFails
     DEF DecisionOn, Resolve, ResolveCandidates, Block, Outcome, Found

(* Everything that blocks keeps blocking when comments are added.          *)
LEMMA Monotone ==
  ASSUME NEW thread, NEW longer, thread \subseteq longer
  PROVE  /\ Tainted(thread) => Tainted(longer)
         /\ Found(thread) \subseteq Found(longer)
         /\ Suspect(Found(thread)) => Suspect(Found(longer))
<1>1. \A kind : OfKind(thread, kind) \subseteq OfKind(longer, kind)
  BY DEF OfKind
<1>2. \A field : Outside(thread, field) \subseteq Outside(longer, field)
  BY DEF Outside
<1>3. Tainted(thread) => Tainted(longer)
  BY <1>1, <1>2 DEF Tainted
<1>4. Found(thread) \subseteq Found(longer)
  BY <1>1 DEF Found, SameRequest
<1>5. \A field : Mismatching(Request, Found(thread), field)
                   \subseteq Mismatching(Request, Found(longer), field)
  BY <1>4 DEF Mismatching
<1>6. Suspect(Found(thread)) => Suspect(Found(longer))
  BY <1>4, <1>5 DEF Suspect
<1> QED BY <1>3, <1>4, <1>6

LEMMA Degrades ==
  ASSUME NEW thread, NEW longer, thread \subseteq longer
  PROVE  /\ DecisionOn(thread) = Blocked => DecisionOn(longer) = Blocked
         /\ DecisionOn(thread) \in Settling =>
              DecisionOn(longer) \in {DecisionOn(thread), Blocked}
<1> USE DEF Blocked, NotFound, Completed, SettledNonSuccess, Settling
<1>1. /\ Tainted(thread) => Tainted(longer)
      /\ Found(thread) \subseteq Found(longer)
      /\ Suspect(Found(thread)) => Suspect(Found(longer))
  BY Monotone
<1>2. ASSUME DecisionOn(thread) = Blocked PROVE DecisionOn(longer) = Blocked
  <2>1. Tainted(thread) \/ (Found(thread) # {} /\ Suspect(Found(thread)))
    BY <1>2, Decision
  <2> QED BY <1>1, <2>1, Decision
<1>3. ASSUME DecisionOn(thread) \in Settling
      PROVE  DecisionOn(longer) \in {DecisionOn(thread), Blocked}
  <2>1. ~Tainted(thread) /\ Found(thread) # {} /\ ~Suspect(Found(thread))
    BY <1>3, Decision
  <2>2. CASE Tainted(longer) \/ Suspect(Found(longer))
    BY <1>1, <2>1, <2>2, Decision
  <2>3. CASE ~Tainted(longer) /\ ~Suspect(Found(longer))
    <3>1. Found(longer) = Found(thread)
      BY <1>1, <2>1, <2>3 DEF Suspect
    <3> QED BY <2>1, <2>3, <3>1, Decision
  <2> QED BY <2>2, <2>3
<1> QED BY <1>2, <1>3

(* The answer only degrades, for every set of comments that can be posted. *)
THEOREM AnswerDegrades == Spec => AnswerOnlyDegrades
<1>1. [Next]_comments => [/\ Answer = Blocked => Answer' = Blocked
                          /\ Answer \in Settling => Answer' \in {Answer, Blocked}]_comments
  <2>1. ASSUME Next
        PROVE  /\ Answer = Blocked => Answer' = Blocked
               /\ Answer \in Settling => Answer' \in {Answer, Blocked}
    <3>1. comments \subseteq comments'
      BY <2>1 DEF Next, Post
    <3>2. Answer = DecisionOn(comments) /\ Answer' = DecisionOn(comments')
      BY DEF Answer, DecisionOn
    <3> QED BY <3>1, <3>2, Degrades
  <2> QED BY <2>1
<1> QED BY <1>1, PTL DEF Spec, AnswerOnlyDegrades

-----------------------------------------------------------------------------
(* What a settlement rests on.                                             *)

THEOREM TypeCorrect == Spec => []TypeOK
<1>1. Init => TypeOK
  BY DEF Init, TypeOK
<1>2. TypeOK /\ [Next]_comments => TypeOK'
  BY DEF TypeOK, Next, Post
<1> QED BY <1>1, <1>2, PTL DEF Spec

(* A body that is neither malformed nor unsupported is no marker at all or *)
(* a well-formed result.                                                   *)
LEMMA CleanBody ==
  ASSUME NEW body \in Bodies, Kind(body) \notin {"malformed", "unsupported"}
  PROVE  body.header = "none" \/ body = ResultBody
<1>1. \/ body.header = "none"
      \/ /\ body.header = "expected" /\ body.payload = "object"
         /\ body.protocol = "expected" /\ body.fields = "complete"
  BY DEF Bodies, Headers, Kind, KindOfPayload
<1> QED BY <1>1 DEF Bodies, ResultBody

LEMMA ResultIsCandidate == Kind(ResultBody) = "candidate"
  BY DEF Kind, KindOfPayload, ResultBody

LEMMA SettlementRests == TypeOK => SettlesOnlyOnOneTrustedMatch
<1> SUFFICES ASSUME TypeOK, Answer \in Settling
             PROVE  /\ \A c \in Markers(comments) : c.body = ResultBody
                    /\ \A c \in comments : c.outer = "match"
                    /\ \E c \in Markers(comments) :
                         /\ {d \in Markers(comments) : d.request = Request.id} = {c}
                         /\ c.author \in Trusted
                         /\ c.identity = Request.identity
                         /\ Answer = IF c.result = SuccessResult
                                     THEN Completed ELSE SettledNonSuccess
                         /\ c.result \in TerminalResults
  BY DEF SettlesOnlyOnOneTrustedMatch
<1> DEFINE found == Found(comments)
<1>1. /\ ~Tainted(comments) /\ found # {} /\ ~Suspect(found)
      /\ Answer = IF \A c \in found : c.result \in NonSuccessResults
                  THEN SettledNonSuccess ELSE Completed
  BY Decision DEF DecisionOn, Answer, Settling, Blocked, NotFound, Completed,
                  SettledNonSuccess
<1>2. \A c \in comments : /\ c.body \in Bodies
                          /\ c.outer \in OuterFields \cup {"match"}
                          /\ c.identity \in [IdentityFields -> STRING]
  BY CommentAssumption DEF TypeOK
<1>3. \A c \in Markers(comments) : c.body = ResultBody
  BY <1>1, <1>2, CleanBody DEF Tainted, OfKind, Markers
<1>4. \A c \in comments : c.outer = "match"
  BY <1>1, <1>2 DEF Tainted, Outside
<1>5. PICK c \in found : found = {c}
  BY <1>1 DEF Suspect
<1>6. c \in Markers(comments)
  BY <1>5 DEF Found, SameRequest, OfKind, Markers, Kind
<1>7. {d \in Markers(comments) : d.request = Request.id} = {c}
  <2>1. \A d \in Markers(comments) : d.request = Request.id => d \in found
    BY <1>3, ResultIsCandidate DEF Markers, Found, SameRequest, OfKind
  <2>2. c.request = Request.id
    BY <1>5 DEF Found, SameRequest
  <2> QED BY <1>5, <1>6, <2>1, <2>2
<1>8. c.author \in Trusted /\ c.result \in TerminalResults
  BY <1>1, <1>5 DEF Suspect
<1>9. c.identity = Request.identity
  <2>1. c.identity \in [IdentityFields -> STRING]
    BY <1>2, <1>5 DEF Found, SameRequest, OfKind
  <2>2. \A field \in IdentityFields : c.identity[field] = Request.identity[field]
    BY <1>1, <1>5 DEF Suspect, Mismatching
  <2> QED BY <2>1, <2>2, RequestAssumption
<1>10. Answer = IF c.result = SuccessResult THEN Completed ELSE SettledNonSuccess
  BY <1>1, <1>5, <1>8 DEF TerminalResults, NonSuccessResults, SuccessResult
<1> QED BY <1>3, <1>4, <1>6, <1>7, <1>8, <1>9, <1>10

(* Every settlement rests on exactly one trusted, well-formed result.      *)
THEOREM SettlementHasOneSource == Spec => []SettlesOnlyOnOneTrustedMatch
<1> QED BY TypeCorrect, SettlementRests, PTL
=============================================================================
