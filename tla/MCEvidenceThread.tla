--------------------------- MODULE MCEvidenceThread ---------------------------
EXTENDS EvidenceThread, TLC

Same == [f \in IdentityFields |-> "same"]
MCRequest == [id |-> "r1", identity |-> Same]

(* The trusted success of the request, and every comment that differs from *)
(* it in one attribute: in one identity field, or in the shape of its body.*)
Plain == [author |-> "owner", outer |-> "match", body |-> ResultBody,
          request |-> "r1", identity |-> Same, result |-> "success"]
BodyVariants ==
  UNION {{[ResultBody EXCEPT !.header = h] : h \in Headers},
         {[ResultBody EXCEPT !.payload = p] : p \in Payloads},
         {[ResultBody EXCEPT !.protocol = "foreign"]},
         {[ResultBody EXCEPT !.fields = f] : f \in {"missing", "invalid"}}}
Variants ==
  UNION {{[Plain EXCEPT !.author = "stranger"], [Plain EXCEPT !.request = "r2"]},
         {[Plain EXCEPT !.outer = o] : o \in OuterFields},
         {[Plain EXCEPT !.body = b] : b \in BodyVariants},
         {[Plain EXCEPT !.identity[f] = "other"] : f \in IdentityFields},
         {[Plain EXCEPT !.result = r] : r \in {"failure", "blocked", "maybe"}}}

MCCommentSpace ==
  {[id |-> i] @@ c : i \in 1 .. MaxComments, c \in Variants \cup {Plain}}
=============================================================================
