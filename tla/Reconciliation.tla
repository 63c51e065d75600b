---------------------------- MODULE Reconciliation ----------------------------
(***************************************************************************)
(* The read-only resolver that turns the comments of a target issue into a *)
(* decision about one request (durable_evidence_reconciliation.py).  It is *)
(* the only thing that tells the Bridge Operator that a request has ended. *)
(*                                                                         *)
(* A comment is a record                                                   *)
(*   [id, author, outer, body, request, identity, result]                  *)
(* "outer" says whether the provider's own repository, issue and surface   *)
(* for the comment are the requested ones ("match") or which one is not;   *)
(* "body" is its shape as far as _parse_comment looks at it (see Kind);    *)
(* request, identity and result are what its JSON payload says, identity   *)
(* being a function on the five identity fields, compared one by one.      *)
(* The order of the comments never matters to the decision: the code only  *)
(* fills lists and tests whether they are empty, so a thread is a set.     *)
(***************************************************************************)
EXTENDS Naturals, Sequences, FiniteSets

SuccessResult == "success"
NonSuccessResults == {"failure", "blocked"}
TerminalResults == NonSuccessResults \cup {SuccessResult}

Completed == "COMPLETED"
SettledNonSuccess == "SETTLED_NON_SUCCESS"
NotFound == "NOT_FOUND"
Blocked == "BLOCKED"
Error == "ERROR"
Decisions == {Completed, SettledNonSuccess, NotFound, Blocked, Error}
Settling == {Completed, SettledNonSuccess}

ProviderStatuses ==
  {"COMPLETE", "UNAVAILABLE", "PERMISSION_DENIED", "INCOMPLETE", "ERROR"}
IdentityFields == {"repository", "issue", "action", "branch", "head"}
OuterFields == {"repository", "issue", "surface"}

(* The reason each provider status other than COMPLETE is reported with.   *)
StatusReason ==
  [UNAVAILABLE |-> "PROVIDER_UNAVAILABLE",
   PERMISSION_DENIED |-> "PERMISSION_DENIED",
   INCOMPLETE |-> "PAGINATION_INCOMPLETE",
   ERROR |-> "PROVIDER_ERROR"]

(* What _parse_comment makes of a body.  header: no marker on the first    *)
(* non-blank line, a marker with a malformed header, one of another        *)
(* protocol, or the expected one; payload: the JSON text after it;         *)
(* protocol: every schema/protocol key of the payload is the expected one; *)
(* fields: the required identity fields are present and well formed.       *)
Headers == {"none", "bad", "foreign", "expected"}
Payloads == {"missing", "not_json", "not_object", "object"}
Bodies == [header : Headers, payload : Payloads, protocol : {"expected", "foreign"},
           fields : {"missing", "invalid", "complete"}]
ResultBody == [header |-> "expected", payload |-> "object",
               protocol |-> "expected", fields |-> "complete"]
Kinds == {"ordinary", "malformed", "unsupported", "candidate"}

KindOfPayload(body) ==
  IF body.payload # "object" THEN "malformed"
  ELSE IF body.protocol # "expected" THEN "unsupported"
  ELSE IF body.fields # "complete" THEN "malformed"
  ELSE "candidate"
Kind(body) ==
  CASE body.header = "none" -> "ordinary"
    [] body.header = "bad" -> "malformed"
    [] body.header = "foreign" -> "unsupported"
    [] body.header = "expected" -> KindOfPayload(body)

OfKind(comments, kind) == {c \in comments : Kind(c.body) = kind}
Outside(comments, field) == {c \in comments : c.outer = field}
SameRequest(request, comments) ==
  {c \in OfKind(comments, "candidate") : c.request = request.id}
Mismatching(request, candidates, field) ==
  {c \in candidates : c.identity[field] # request.identity[field]}

Outcome(decision, reason, matched) ==
  [decision |-> decision, reason |-> reason, matched |-> {c.id : c \in matched}]

(* A check is a reason and the comments it objects to; the first check that*)
(* objects to anything decides, in the order of the code.                  *)
Objects(check) == check[2] # {}
Fails(checks) == \E i \in DOMAIN checks : Objects(checks[i])
FirstToObject(checks) ==
  checks[CHOOSE i \in DOMAIN checks :
           Objects(checks[i]) /\ \A j \in 1 .. i - 1 : ~Objects(checks[j])]
Block(checks) == Outcome(Blocked, FirstToObject(checks)[1], FirstToObject(checks)[2])

(* Any malformed or unsupported result marker on the issue, whatever       *)
(* request it names, and any comment that belongs elsewhere.  (The later   *)
(* identity check on "surface" compares the same attribute as the outer    *)
(* one, so it can never be the one to object.)                             *)
ThreadChecks(comments) ==
  << <<"MALFORMED_EVIDENCE", OfKind(comments, "malformed")>>,
     <<"UNSUPPORTED_PROTOCOL", OfKind(comments, "unsupported")>>,
     <<"REPOSITORY_MISMATCH", Outside(comments, "repository")>>,
     <<"ISSUE_MISMATCH", Outside(comments, "issue")>>,
     <<"SURFACE_MISMATCH", Outside(comments, "surface")>> >>

(* Mutants: the author does not matter; several results are not a conflict.*)
AnyAuthorChecks(request, candidates, trusted) ==
  << <<"REPOSITORY_MISMATCH", Mismatching(request, candidates, "repository")>>,
     <<"HEAD_MISMATCH", Mismatching(request, candidates, "head")>> >>
SingleChecks(request, candidates, trusted) ==
  << <<"UNTRUSTED_AUTHOR", {c \in candidates : c.author \notin trusted}>> >>

(* The candidates that name the request.                                   *)
CandidateChecks(request, candidates, trusted) ==
  << <<"UNTRUSTED_AUTHOR", {c \in candidates : c.author \notin trusted}>>,
     <<"REPOSITORY_MISMATCH", Mismatching(request, candidates, "repository")>>,
     <<"ISSUE_MISMATCH", Mismatching(request, candidates, "issue")>>,
     <<"ACTION_MISMATCH", Mismatching(request, candidates, "action")>>,
     <<"BRANCH_MISMATCH", Mismatching(request, candidates, "branch")>>,
     <<"HEAD_MISMATCH", Mismatching(request, candidates, "head")>>,
     <<"UNSUPPORTED_TERMINAL_RESULT",
       {c \in candidates : c.result \notin TerminalResults}>>,
     <<"CONFLICTING_EVIDENCE",
       {c \in candidates : \E a, b \in candidates : a.result # b.result}>>,
     <<"MULTIPLE_MATCHING_COMPLETIONS",
       {c \in candidates : \E d \in candidates : c # d}>> >>

ResolveCandidates(request, candidates, trusted) ==
  LET checks == CandidateChecks(request, candidates, trusted)
  IN IF Fails(checks) THEN Block(checks)
     ELSE IF \A c \in candidates : c.result \in NonSuccessResults
     THEN Outcome(SettledNonSuccess, "EXACTLY_ONE_TRUSTED_NON_SUCCESS_MATCH", candidates)
     ELSE Outcome(Completed, "EXACTLY_ONE_TRUSTED_MATCH", candidates)

(* resolve_durable_completion: a failed read is an ERROR, and only a thread*)
(* without objections is searched for the request.                         *)
Resolve(request, status, comments, trusted) ==
  LET checks == ThreadChecks(comments)
      candidates == SameRequest(request, comments)
  IN IF status # "COMPLETE" THEN Outcome(Error, StatusReason[status], {})
     ELSE IF Fails(checks) THEN Block(checks)
     ELSE IF candidates = {} THEN Outcome(NotFound, "ZERO_MATCHING_COMPLETIONS", {})
     ELSE ResolveCandidates(request, candidates, trusted)
=============================================================================
