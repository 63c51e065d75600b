---------------------------- MODULE EvidenceThread ----------------------------
(***************************************************************************)
(* A target issue as the resolver sees it over time: comments are added,   *)
(* by the dispatcher or by anybody else, and the resolver is asked about   *)
(* one request again and again - before a dispatch, after it and on every  *)
(* restart.  What matters is how its answer may change as the issue grows. *)
(***************************************************************************)
EXTENDS Reconciliation, Naturals

CONSTANTS
  CommentSpace,  \* the comments that can be posted
  Request,       \* the request asked about: [id, identity]
  Trusted,       \* authors whose results count (TRUSTED_ACTORS)
  MaxComments    \* bound on the length of the thread

ASSUME RequestAssumption == Request.identity \in [IdentityFields -> STRING]
ASSUME CommentAssumption ==
  \A c \in CommentSpace : /\ c.body \in Bodies
                          /\ c.outer \in OuterFields \cup {"match"}
                          /\ c.identity \in [IdentityFields -> STRING]

VARIABLE comments

Answer == Resolve(Request, "COMPLETE", comments, Trusted).decision

Init == comments = {}

(* Somebody posts a comment; the next read sees the longer thread.         *)
Post ==
  /\ Cardinality(comments) < MaxComments
  /\ \E c \in CommentSpace :
       /\ \A d \in comments : d.id # c.id
       /\ comments' = comments \cup {c}

Next == Post

Spec == Init /\ [][Next]_comments
-----------------------------------------------------------------------------
TypeOK == comments \subseteq CommentSpace

(* Every result marker on the issue, whether or not it can be parsed.      *)
Markers(thread) == {c \in thread : c.body.header # "none"}

(* The resolver settles a request only on a thread in which every marker   *)
(* parses and exactly one names the request, posted by a trusted author    *)
(* for this very repository, issue, action, branch and head with a         *)
(* terminal result, and the decision is the one that result stands for.    *)
SettlesOnlyOnOneTrustedMatch ==
  Answer \in Settling =>
    /\ \A c \in Markers(comments) : c.body = ResultBody
    /\ \A c \in comments : c.outer = "match"
    /\ \E c \in Markers(comments) :
         /\ {d \in Markers(comments) : d.request = Request.id} = {c}
         /\ c.author \in Trusted
         /\ c.identity = Request.identity
         /\ Answer = IF c.result = SuccessResult
                     THEN Completed ELSE SettledNonSuccess
         /\ c.result \in TerminalResults

(* As the issue grows the answer only moves towards BLOCKED: what was once *)
(* refused is never settled by a further comment, a settlement never turns *)
(* into the opposite one, and no settled request looks unexecuted again    *)
(* (NOT_FOUND is what lets the operator dispatch).                         *)
AnswerOnlyDegrades ==
  [][/\ Answer = Blocked => Answer' = Blocked
     /\ Answer \in Settling => Answer' \in {Answer, Blocked}]_comments
=============================================================================
