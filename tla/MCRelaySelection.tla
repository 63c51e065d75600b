--------------------------- MODULE MCRelaySelection ---------------------------
EXTENDS RelaySelection

(* Current and soon expiring requests under two ids, a second identity for *)
(* one of the ids, and every way in which a marker can differ from them.   *)
Plain == [id |-> "a", form |-> "ok", author |-> "owner", repo |-> "ours",
          fields |-> "valid", expires |-> 2, identity |-> "x"]
MCMarkerSpace ==
  UNION {{Plain, [Plain EXCEPT !.identity = "y"], [Plain EXCEPT !.fields = "invalid"]},
         {[Plain EXCEPT !.id = i, !.expires = e] : i \in {"a", "b"}, e \in {1, 2}},
         {[Plain EXCEPT !.author = "stranger", !.expires = e] : e \in {1, 2}},
         {[Plain EXCEPT !.repo = "theirs", !.author = a] : a \in {"owner", "stranger"}},
         {[Plain EXCEPT !.form = f, !.author = a, !.expires = 1] :
            f \in {"malformed", "no_expiry"}, a \in {"owner", "stranger"}}}
=============================================================================
