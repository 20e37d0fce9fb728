-------------------------- MODULE ReadViewService --------------------------
(***************************************************************************)
(* What the declarative read views promise, whatever the engine does       *)
(* inside: a forward reads a request through the view its accepted output  *)
(* stream has declared so far (parse at step t, effect at step t+1), or    *)
(* through the global view when the request is forced to it.               *)
(***************************************************************************)
CONSTANTS Requests, Views, Global, NoTag

VARIABLES
    declared,   \* the view the accepted output of each request stands for
    shown,      \* the view of each request's last forward
    fresh,      \* rows whose sampled token is not yet accepted or dropped
    forced      \* requests that read globally whatever they declare

vars == <<declared, shown, fresh, forced>>

Init ==
    /\ declared = [r \in Requests |-> Global]
    /\ shown = [r \in Requests |-> Global]
    /\ fresh = {}
    /\ forced = {}

\* A request is admitted before its first token, forced or not.
Admit(r) ==
    /\ declared[r] = Global
    /\ forced' = forced \cup {r}
    /\ UNCHANGED <<declared, shown, fresh>>

\* One forward over the batch B; the rows in S sample a token.
Forward(B, S) ==
    /\ S \subseteq B
    /\ shown' = [r \in Requests |->
                   IF r \notin B THEN shown[r]
                   ELSE IF r \in forced THEN Global ELSE declared[r]]
    /\ fresh' = S
    /\ UNCHANGED <<declared, forced>>

\* The tokens of A are accepted, the other sampled tokens are dropped.
Accept(A, tok) ==
    /\ A \subseteq fresh
    /\ declared' = [r \in Requests |->
                      IF r \in A /\ tok[r] # NoTag THEN tok[r] ELSE declared[r]]
    /\ fresh' = {}
    /\ UNCHANGED <<shown, forced>>

Next ==
    \/ \E r \in Requests : Admit(r)
    \/ \E B, S \in SUBSET Requests : Forward(B, S)
    \/ \E A \in SUBSET Requests, tok \in [Requests -> Views \cup {NoTag}] :
          Accept(A, tok)

Spec == Init /\ [][Next]_vars
=============================================================================
