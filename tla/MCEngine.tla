------------------------------ MODULE MCEngine ------------------------------
(* An instance of the engine: three links with room for
   two, two paths over them, three rules. *)
EXTENDS Engine

MCCapacity == [e \in Edge |-> 4 - e]
MCHopLists == {<<1>>, <<1, 2>>, <<2, 1>>}
MCDomains == {[i \in Side |-> i], [i \in Side |-> 0]}

rule(o, a, b, k, g) ==
  [owner |-> o, named |-> [i \in Side |-> IF i = 0 THEN a ELSE b], allow |-> k # "refuse",
   degraded |-> k = "degraded", gen |-> g]
MCPolicyRule ==
  {rule(o, "own", "own", k, g) : o \in Side, k \in {"refuse", "allow", "degraded"}, g \in 1..2}
    \cup {rule(o, "any", "any", k, 1) : o \in Side, k \in {"refuse", "degraded"}}
    \cup {rule(2, "any", "any", "refuse", 1), rule(0, "other", "any", "refuse", 1),
          rule(1, "own", "any", "allow", 2)}

allow(E) == [q \in Request |-> Cardinality({i \in DOMAIN E : E[i] = q})]

(* The pair is joined by a path over one link, and allowed by one domain or by
   both. *)
Half == [links |-> [e \in Edge |-> IF e = 1 THEN [kind |-> "LoopbackTcp", state |-> "Up"] ELSE None],
         paths |-> [p \in PathId |->
           IF p = 1 THEN [hops |-> <<1>>, here |-> TRUE, state |-> "Up", unsupported |-> FALSE,
                          bottleneck |-> MCCapacity[1]] ELSE None],
         rules |-> [i \in RuleId |-> IF i = 1 THEN rule(0, "own", "own", "degraded", 1) ELSE None],
         pol |-> [i \in Side |-> 1]]
Joined == [Half EXCEPT !.rules[2] = rule(1, "any", "any", "degraded", 1)]
begin(r, E) == [registry |-> r, budget |-> allow(E)]

MCBegins ==
  {begin(Joined, <<"link", "link", "crash">>),
   begin(Joined, <<"link", "path", "state", "crash">>),
   begin(Joined, <<"link", "state", "fail", "crash">>),
   begin(Joined, <<"state", "unlink", "fail", "compact", "crash">>),
   begin(Joined, <<"path", "unpath", "fail">>),
   begin(Joined, <<"rule", "unrule", "repolicy", "fail">>),
   begin(Half, <<"rule", "rule">>)}
=============================================================================
