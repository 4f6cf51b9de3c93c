--------------------------- MODULE MCRequestPipeline ---------------------------
(***************************************************************************)
(* Values for TLC: one request of each kind the pipeline tells apart.      *)
(***************************************************************************)
EXTENDS RequestPipeline, TLC

CONSTANT c1

OneClientId == {c1}

Plain == [id |-> None, declared |-> {}, size |-> 0, routed |-> TRUE, body |-> "valid",
          token |-> "valid", result |-> "success"]
Sized(n) == [Plain EXCEPT !.declared = {n}, !.size = n]
Body(b, t) == [Plain EXCEPT !.body = b, !.token = t]

\* With a limit of 2: bodies at the limit, beyond it, and beyond it undeclared.
AllInputs ==
    {Plain, [Sized(2) EXCEPT !.id = c1], [Sized(3) EXCEPT !.id = c1], Sized(0),
     [Plain EXCEPT !.size = 3], [Plain EXCEPT !.routed = FALSE]}
    \union {Body(b, t) : b \in {"unreadable", "malformed", "invalid"},
                         t \in {"absent", "valid"}}
    \union {Body("unencodable", "valid")}
    \union {[Body("valid", t) EXCEPT !.id = c1] : t \in Tokens \ {"valid"}}
    \union {[Plain EXCEPT !.result = x] : x \in Results}

AnyOrder == Permutations(Requests)
===============================================================================
