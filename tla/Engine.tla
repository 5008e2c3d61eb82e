------------------------------- MODULE Engine -------------------------------
(***************************************************************************)
(* What decide() answers for one pair of endpoint scopes, and the registry *)
(* it answers from: links, the paths over them whose state is derived from *)
(* the links, and the policy rules of the authority domains.  The operator *)
(* changes them, agents report, the process is killed and recovers what    *)
(* the store holds.  A contract with a usable grant is abstracted to the   *)
(* policy generations it is bound to; the Fabric is about how it came to   *)
(* be and how it is fenced.                                                *)
(***************************************************************************)
EXTENDS Integers, Sequences, FiniteSets, SequencesExt

CONSTANTS
  Edge,          \* identities of links, in the order of the registry
  PathId,        \* identities of paths, in the order of the registry
  RuleId,        \* identities of policy rules
  Capacity,      \* the capacity each link is declared with
  HopLists,      \* the sequences of hops paths are declared with
  PolicyRule,    \* the rules that may be put
  Domains,       \* the authority domains of the source and the target, one choice of several
  kMaxEdges, kMaxPaths, kMaxPolicyRules,
  Begins         \* what the registry holds at first and how often each request and fault
                 \* happens after that, one choice of several

Side == {0, 1}   \* the source and the target cluster of the query
Request == {"link", "state", "unlink", "path", "unpath", "rule", "unrule", "repolicy",
            "fail", "compact", "crash"}

ASSUME EngineAssumption ==
  /\ Edge \subseteq Nat /\ PathId \subseteq Nat /\ IsFiniteSet(Edge) /\ IsFiniteSet(PathId)
  /\ Capacity \in [Edge -> Nat] /\ HopLists \subseteq Seq(Edge) \ {<<>>}
  /\ \A b \in Begins : b.budget \in [Request -> Nat]

LinkKind == {"LoopbackTcp", "SyntheticModel", "OpticalInterconnect"}
LinkState == {"Unknown", "Up", "Degraded", "Down", "Unsupported"}
PathState == {"Unknown", "Up", "Degraded", "Down"}
LinkRecord == [kind : LinkKind, state : LinkState]
PathRecord == [hops : HopLists, here : BOOLEAN, state : PathState, unsupported : BOOLEAN,
               bottleneck : Nat]
None == [none |-> TRUE]
NoGrant == [usable |-> FALSE, pol |-> [i \in Side |-> 0]]

(* What the registry holds and the store keeps; pol is the policy generation
   of each cluster. *)
Registry == [links : [Edge -> LinkRecord \cup {None}], paths : [PathId -> PathRecord \cup {None}],
             rules : [RuleId -> PolicyRule \cup {None}], pol : [Side -> Nat]]

VARIABLES
  reg,        \* the registry in memory
  disk,       \* the registry that opening the store would recover
  opens,      \* the store's log can be decoded
  running,    \* the process is up
  domain,     \* the authority domain of each cluster
  reported,   \* the clusters whose agent has reported since the start
  grant,      \* whether there is a usable grant, and the policy generations it is bound to
  stale,      \* history: the links changed since the path states were computed
  failed,     \* history: an append has failed
  budget

vars == <<reg, disk, opens, running, domain, reported, grant, stale, failed, budget>>

present(f) == {i \in DOMAIN f : f[i] # None}

TypeOK ==
  /\ reg \in Registry /\ disk \in Registry
  /\ Cardinality(present(reg.links)) <= kMaxEdges
  /\ Cardinality(present(reg.paths)) <= kMaxPaths
  /\ Cardinality(present(reg.rules)) <= kMaxPolicyRules
  /\ opens \in BOOLEAN /\ running \in BOOLEAN
  /\ domain \in Domains /\ reported \subseteq Side
  /\ grant \in [usable : BOOLEAN, pol : [Side -> Nat]]
  /\ stale \subseteq Edge /\ failed \in BOOLEAN
  /\ budget \in [Request -> Nat]

Init ==
  /\ \E b \in Begins : reg = b.registry /\ budget = b.budget
  /\ disk = reg
  /\ opens = TRUE /\ running = TRUE
  /\ domain \in Domains
  /\ reported = Side /\ grant = NoGrant
  /\ stale = {} /\ failed = FALSE

(***************************************************************************)
(* recompute_path_states: the hops of a path are walked until one settles  *)
(* the state of the path.                                                  *)
(***************************************************************************)
link_kind_supported(k) == k \in {"LoopbackTcp", "SyntheticModel"}

(* Fault: a degraded link hides one of unknown state before it. *)
worse_unknown_last(s, l) ==
  CASE l \in {"Down", "Unsupported"} -> "Down"
    [] l = "Unknown" -> "Unknown"
    [] l = "Degraded" /\ s # "Down" -> "Degraded"
    [] OTHER -> s

worse(s, l) ==
  CASE l \in {"Down", "Unsupported"} -> "Down"
    [] l = "Unknown" /\ s # "Down" -> "Unknown"
    [] l = "Degraded" /\ s \notin {"Down", "Unknown"} -> "Degraded"
    [] OTHER -> s

walk_hop(links, w, e) ==
  IF w.done THEN w
  ELSE IF links[e] = None THEN [w EXCEPT !.state = "Unknown", !.done = TRUE]
  ELSE IF ~link_kind_supported(links[e].kind)
       THEN [w EXCEPT !.state = "Down", !.unsupported = TRUE, !.done = TRUE]
  ELSE LET s == worse(w.state, links[e].state)
       IN  IF s = "Down"
           THEN [w EXCEPT !.state = s, !.done = TRUE,
                          !.unsupported = links[e].state = "Unsupported"]
           ELSE [w EXCEPT !.state = s, !.first = FALSE,
                          !.bottleneck = IF w.first \/ Capacity[e] < @ THEN Capacity[e] ELSE @]

derive(links, path) ==
  LET start == [state |-> "Up", unsupported |-> FALSE, bottleneck |-> 0, first |-> TRUE,
                done |-> FALSE]
      end == FoldLeft(LAMBDA w, e : walk_hop(links, w, e), start, path.hops)
  IN  [path EXCEPT !.state = end.state, !.unsupported = end.unsupported,
                   !.bottleneck = end.bottleneck]

recompute_path_states(r) ==
  [r EXCEPT !.paths = [p \in PathId |-> IF @[p] = None THEN None ELSE derive(r.links, @[p])]]

(***************************************************************************)
(* evaluate_policy: each domain has to allow the pair by a rule of the     *)
(* present policy generation, and neither may refuse it by one.            *)
(***************************************************************************)
owners == {domain[i] : i \in Side}
matches(x) == \A i \in Side : x.named[i] # "other"

(* A rule speaks for a generation where it names its owner's own cluster. *)
generation_current(r, x) ==
  \A i \in Side : x.owner = domain[i] /\ x.named[i] = "own" => x.gen = r.pol[i]

matching(r) == {i \in present(r.rules) : r.rules[i].owner \in owners /\ matches(r.rules[i])}

(* Fault: a rule of a superseded generation still allows. *)
absorb_superseded(r, d) ==
  LET mine == {r.rules[i] : i \in {j \in matching(r) : r.rules[j].owner = d}}
      current == {x \in mine : generation_current(r, x)}
  IN  [refuse |-> \E x \in current : ~x.allow, allow |-> \E x \in mine : x.allow,
       stale |-> mine # current, degraded |-> \A x \in current : x.allow => x.degraded]

absorb(r, d) ==
  LET mine == {r.rules[i] : i \in {j \in matching(r) : r.rules[j].owner = d}}
      current == {x \in mine : generation_current(r, x)}
  IN  [refuse |-> \E x \in current : ~x.allow, allow |-> \E x \in current : x.allow,
       stale |-> mine # current, degraded |-> \A x \in current : x.allow => x.degraded]

evaluate_policy(r) ==
  LET missing == {d \in owners : ~absorb(r, d).allow}
  IN  IF \E d \in owners : absorb(r, d).refuse THEN "RefusedExplicitly"
      ELSE IF \E d \in missing : absorb(r, d).stale THEN "StaleGeneration"
      ELSE IF missing # {} THEN "MissingAllowRule"
      ELSE "Allowed"

(***************************************************************************)
(* evaluate_paths and decide.  asked: the query and both endpoint scopes   *)
(* permit a degraded path.                                                 *)
(***************************************************************************)
evaluate_paths(r) ==
  LET between == {r.paths[p] : p \in {q \in present(r.paths) : r.paths[q].here}}
      seen == {p.state : p \in {q \in between : ~q.unsupported}}
  IN  IF "Up" \in seen THEN "Up"
      ELSE IF "Degraded" \in seen THEN "Degraded"
      ELSE IF "Unknown" \in seen THEN "Unknown"
      ELSE IF \E p \in between : p.unsupported THEN "Unsupported"
      ELSE "Partitioned"

decide(r, asked) ==
  LET policy == evaluate_policy(r)
      path == evaluate_paths(r)
      permitted == asked /\ \A d \in owners : absorb(r, d).degraded
  IN  IF policy # "Allowed" THEN policy
      ELSE IF path \notin {"Up", "Degraded"} THEN path
      ELSE IF grant # [usable |-> TRUE, pol |-> r.pol] THEN "Unauthorized"
      ELSE IF path = "Up" THEN "Ok"
      ELSE IF permitted THEN "DegradedAuthorized"
      ELSE "Unauthorized"

----------------------------------------------------------------------------
(* A request is paid for from the budget, and so are the faults it meets. *)
spend(Q) ==
  /\ \A q \in Q : budget[q] > 0
  /\ budget' = [q \in Request |-> budget[q] - (IF q \in Q THEN 1 ELSE 0)]
  /\ failed' = (failed \/ "fail" \in Q)
pay(q, ok) == spend({q} \cup {f \in {"fail"} : ~ok})

(* Fault: one record too many is inserted. *)
fits_one_over(f, i, bound) == i \in present(f) \/ Cardinality(present(f)) <= bound

fits(f, i, bound) == i \in present(f) \/ Cardinality(present(f)) < bound
kept == UNCHANGED <<running, domain, reported>>

(* Fault: the record of the request is logged, not the one in the registry. *)
logged_link_as_requested(rec, put) == rec

logged_link(rec, put) == put

(* UpsertLink.  A synthetic link of unknown state is taken to be up; the paths
   are computed anew in memory only. *)
upsert_link(e, rec) == \E ok \in BOOLEAN :
  LET put == IF rec.state = "Unknown" /\ rec.kind = "SyntheticModel"
             THEN [rec EXCEPT !.state = "Up"] ELSE rec
      r == [reg EXCEPT !.links[e] = put]
  IN  /\ running /\ pay("link", ok)
      /\ link_kind_supported(rec.kind) /\ fits(reg.links, e, kMaxEdges)
      /\ reg' = IF ok THEN recompute_path_states(r) ELSE r
      /\ disk' = IF ok THEN [disk EXCEPT !.links[e] = logged_link(rec, put)] ELSE disk
      /\ stale' = IF ok THEN {} ELSE stale \cup {e}
      /\ UNCHANGED <<opens, grant>> /\ kept

(* The process dies: what the store holds is what the next start recovers,
   and everything that was granted is fenced then. *)
dies ==
  /\ running' = FALSE /\ reg' = disk' /\ reported' = {} /\ grant' = NoGrant /\ stale' = {}

(* SetLinkState logs the link, then every path in order; the process may die
   or the next append fail after any number of them. *)
set_link_state_logged(e, s, written) ==
  LET r == recompute_path_states([reg EXCEPT !.links[e].state = s])
      all == present(reg.paths) \subseteq written
      putting == [disk EXCEPT !.links[e] = r.links[e],
                              !.paths = [p \in PathId |-> IF p \in written THEN r.paths[p] ELSE @[p]]]
  IN  /\ disk' = putting
      /\ \/ /\ pay("state", all)
            /\ reg' = r /\ stale' = {} /\ UNCHANGED grant /\ kept
         \/ /\ ~all /\ spend({"state", "crash"})
            /\ dies /\ UNCHANGED domain

set_link_state(e, s) ==
  /\ running /\ e \in present(reg.links)
  /\ \/ \E last \in {0} \cup PathId :
          set_link_state_logged(e, s, {p \in present(reg.paths) : p <= last})
     \/ /\ pay("state", FALSE)
        /\ reg' = [reg EXCEPT !.links[e].state = s]
        /\ stale' = stale \cup {e}
        /\ UNCHANGED <<disk, grant>> /\ kept
  /\ UNCHANGED opens

(* DeleteLink leaves the paths as they are.  The record of a deletion is one
   that the store does not decode, until a compaction replaces the log. *)
delete_link(e) == \E ok \in BOOLEAN :
  /\ running /\ pay("unlink", ok) /\ e \in present(reg.links)
  /\ reg' = [reg EXCEPT !.links[e] = None]
  /\ disk' = IF ok THEN [disk EXCEPT !.links[e] = None] ELSE disk
  /\ opens' = (opens /\ ~ok)
  /\ stale' = stale \cup {e}
  /\ UNCHANGED grant /\ kept

(* UpsertPath: whatever state is declared, the registry computes its own. *)
upsert_path(p, hops, here) == \E ok \in BOOLEAN :
  LET declared == [hops |-> hops, here |-> here, state |-> "Unknown", unsupported |-> FALSE,
                   bottleneck |-> 0]
      r == recompute_path_states([reg EXCEPT !.paths[p] = declared])
  IN  /\ running /\ pay("path", ok) /\ fits(reg.paths, p, kMaxPaths)
      /\ reg' = r
      /\ disk' = IF ok THEN [disk EXCEPT !.paths[p] = r.paths[p]] ELSE disk
      /\ stale' = {}
      /\ UNCHANGED <<opens, grant>> /\ kept

delete_path(p) == \E ok \in BOOLEAN :
  /\ running /\ pay("unpath", ok) /\ p \in present(reg.paths)
  /\ reg' = [reg EXCEPT !.paths[p] = None]
  /\ disk' = IF ok THEN [disk EXCEPT !.paths[p] = None] ELSE disk
  /\ opens' = (opens /\ ~ok)
  /\ UNCHANGED <<grant, stale>> /\ kept

(* A rule that names a cluster of the pair fences its grants. *)
upsert_policy(i, x) == \E ok \in BOOLEAN :
  /\ running /\ pay("rule", ok) /\ fits(reg.rules, i, kMaxPolicyRules)
  /\ reg' = [reg EXCEPT !.rules[i] = x]
  /\ disk' = IF ok THEN [disk EXCEPT !.rules[i] = x] ELSE disk
  /\ grant' = IF ok /\ \E j \in Side : x.named[j] = "own" THEN NoGrant ELSE grant
  /\ UNCHANGED <<opens, stale>> /\ kept

delete_policy(i) == \E ok \in BOOLEAN :
  /\ running /\ pay("unrule", ok) /\ i \in present(reg.rules)
  /\ reg' = [reg EXCEPT !.rules[i] = None]
  /\ disk' = IF ok THEN [disk EXCEPT !.rules[i] = None] ELSE disk
  /\ opens' = (opens /\ ~ok)
  /\ UNCHANGED <<grant, stale>> /\ kept

(* Fault: a report is taken without a look at the paths. *)
report_without_paths(i, pol) == \E ok \in BOOLEAN :
  LET r == [reg EXCEPT !.pol[i] = pol]
  IN  /\ running /\ pol >= reg.pol[i]
      /\ spend({q \in {"repolicy"} : pol > reg.pol[i]} \cup {f \in {"fail"} : ~ok})
      /\ reg' = r
      /\ disk' = IF ok THEN [disk EXCEPT !.pol[i] = pol] ELSE disk
      /\ reported' = IF ok THEN reported \cup {i} ELSE reported
      /\ grant' = IF ok /\ pol > reg.pol[i] THEN NoGrant ELSE grant
      /\ UNCHANGED <<opens, running, domain, stale>>

(* on_report_cluster, as far as it concerns decisions: the policy generation
   is the agent's, a new one fences, and the paths are computed anew. *)
on_report_cluster(i, pol) == \E ok \in BOOLEAN :
  LET r == [reg EXCEPT !.pol[i] = pol]
  IN  /\ running /\ pol >= reg.pol[i]
      /\ spend({q \in {"repolicy"} : pol > reg.pol[i]} \cup {f \in {"fail"} : ~ok})
      /\ reg' = IF ok THEN recompute_path_states(r) ELSE r
      /\ disk' = IF ok THEN [disk EXCEPT !.pol[i] = pol] ELSE disk
      /\ reported' = IF ok THEN reported \cup {i} ELSE reported
      /\ grant' = IF ok /\ pol > reg.pol[i] THEN NoGrant ELSE grant
      /\ stale' = IF ok THEN {} ELSE stale
      /\ UNCHANGED <<opens, running, domain>>

(* A grant is committed for the pair.  The acceptances and acknowledgements
   follow the reports of both agents on their connections, so that each has
   reported since the start. *)
finalise_grant ==
  /\ running /\ reported = Side
  /\ grant' = [usable |-> TRUE, pol |-> reg.pol]
  /\ UNCHANGED <<reg, disk, opens, stale, failed, budget>> /\ kept

compact ==
  /\ running /\ spend({"compact"})
  /\ disk' = reg /\ opens' = TRUE
  /\ UNCHANGED <<reg, grant, stale>> /\ kept

crash ==
  /\ running /\ spend({"crash"})
  /\ UNCHANGED <<disk, opens, domain>>
  /\ dies

(* The paths are taken from the store as they were written. *)
start ==
  /\ ~running /\ opens
  /\ running' = TRUE
  /\ UNCHANGED <<reg, disk, opens, domain, reported, grant, stale, failed, budget>>

Next ==
  \/ \E e \in Edge, rec \in LinkRecord : upsert_link(e, rec)
  \/ \E e \in Edge, s \in LinkState : set_link_state(e, s)
  \/ \E e \in Edge : delete_link(e)
  \/ \E p \in PathId, hops \in HopLists, here \in BOOLEAN : upsert_path(p, hops, here)
  \/ \E p \in PathId : delete_path(p)
  \/ \E i \in RuleId, x \in PolicyRule : upsert_policy(i, x)
  \/ \E i \in RuleId : delete_policy(i)
  \/ \E i \in Side : \E pol \in reg.pol[i]..(reg.pol[i] + 1) : on_report_cluster(i, pol)
  \/ finalise_grant \/ compact \/ crash \/ start

Spec == Init /\ [][Next]_vars

----------------------------------------------------------------------------
(* What a path is worth, without the walk: the first hop that is missing or not
   usable settles it, and otherwise the worst state of any hop, with the
   smallest capacity of the hops before the one that settled it
   (recompute_path_states). *)
WorstHop ==
  \A h \in HopLists :
    LET settles == {i \in DOMAIN h : \/ reg.links[h[i]] = None
                                     \/ ~link_kind_supported(reg.links[h[i]].kind)
                                     \/ reg.links[h[i]].state \in {"Down", "Unsupported"}}
        open == {i \in DOMAIN h : \A j \in settles : i < j}
        states == {reg.links[h[i]].state : i \in open}
        last == h[CHOOSE i \in settles : \A j \in settles : i <= j]
        d == derive(reg.links, [hops |-> h, state |-> "Up", unsupported |-> FALSE, bottleneck |-> 0])
    IN  /\ d.state = IF settles # {} THEN IF reg.links[last] = None THEN "Unknown" ELSE "Down"
                     ELSE IF "Unknown" \in states THEN "Unknown"
                     ELSE IF "Degraded" \in states THEN "Degraded" ELSE "Up"
        /\ d.unsupported = (/\ settles # {} /\ reg.links[last] # None
                            /\ reg.links[last].state # "Down")
        /\ \A i \in open : d.bottleneck <= Capacity[h[i]]
        /\ open # {} => \E i \in open : d.bottleneck = Capacity[h[i]]

Authorizes(asked) == decide(reg, asked) \in {"Ok", "DegradedAuthorized"}

(* What decide() authorizes runs over hops that are registered and up, or at
   least degraded where the answer says so, after any restart from paths that
   were never written back and any interrupted sequence of appends; except for
   links that were deleted, or whose change could not be logged, since the
   paths were last computed (recompute_path_states, evaluate_paths). *)
AuthorizedOverLiveHops ==
  running => \A asked \in BOOLEAN : Authorizes(asked) =>
    \E p \in present(reg.paths) :
      /\ reg.paths[p].here
      /\ \A e \in ToSet(reg.paths[p].hops) \ stale :
           /\ reg.links[e] # None /\ link_kind_supported(reg.links[e].kind)
           /\ reg.links[e].state \in {"Up"} \cup {s \in {"Degraded"} : decide(reg, asked) # "Ok"}

(* Policy is two-sided and of the present: what is authorized, the domain of
   each cluster allows by a rule that covers the pair, neither refuses it, no
   rule counted names a cluster of its owner at another policy generation than
   the cluster has now, and the grant is of these generations
   (evaluate_policy, upsert_policy, on_report_cluster). *)
AllowedByBothNow ==
  running /\ (\E asked \in BOOLEAN : Authorizes(asked)) =>
    LET counts(x) == /\ x # None /\ \A i \in Side : x.named[i] \in {"any", "own"}
                     /\ \A i \in Side : x.owner = domain[i] /\ x.named[i] = "own"
                                           => x.gen = grant.pol[i]
    IN  \A i \in Side :
          /\ \E j \in RuleId : counts(reg.rules[j]) /\ reg.rules[j].owner = domain[i] /\ reg.rules[j].allow
          /\ \A j \in RuleId : counts(reg.rules[j]) /\ reg.rules[j].owner = domain[i] => reg.rules[j].allow

(* As long as no append failed, the store holds the links, rules and policy
   generations of the registry and the same paths over the same hops: only
   derived state may differ (handle_admin, on_report_cluster). *)
RecoversTopology ==
  ~failed =>
    /\ disk.links = reg.links /\ disk.rules = reg.rules /\ disk.pol = reg.pol
    /\ \A p \in PathId : IF reg.paths[p] = None THEN disk.paths[p] = None
                          ELSE disk.paths[p] # None /\ disk.paths[p].hops = reg.paths[p].hops
=============================================================================
