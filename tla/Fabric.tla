------------------------------- MODULE Fabric -------------------------------
(***************************************************************************)
(* The whole fabric: one coordinator, the agents of the clusters, the      *)
(* connections between them, their operators and the faults of the world.  *)
(* Messages, timers and reconnections happen at any time; what operators   *)
(* ask for and what the world breaks is drawn from a budget, so that the   *)
(* runs are finite.                                                        *)
(***************************************************************************)
EXTENDS Coordinator, Agent

CONSTANTS
  Budgets,    \* how often each event of the environment may happen, one choice of several
  Configured  \* the generations an agent's configuration may carry when it starts

Event == {"propose", "issue", "revalidate", "fence", "withdraw", "restore", "resolve",
          "state", "policy", "upsert", "delete", "local_state", "local_withdraw", "local_restore",
          "local_fence", "bump", "repolicy", "break", "deadline", "handshake", "lapse",
          "crash", "agent_crash"}

ASSUME FabricAssumption ==
  /\ Budgets \subseteq [Event -> Nat]
  /\ Configured \subseteq Nat

VARIABLE budget

vars == <<worldVars, coordVars, agentVars, budget>>

Init == LinksInit /\ CoordInit /\ AgentInit /\ budget \in Budgets

TypeOK == LinksTypeOK /\ CoordTypeOK /\ AgentTypeOK /\ budget \in [Event -> Nat]

spend(e) == budget[e] > 0 /\ budget' = [budget EXCEPT ![e] = @ - 1]

----------------------------------------------------------------------------
(* Who changes what. *)
coordinator_only == UNCHANGED <<serving, lapsed, agentVars>>
agents_only == UNCHANGED <<serving, lapsed, coordVars>>
free == UNCHANGED budget

Coordinator_Message(n) == handle_message(n) /\ coordinator_only /\ free
Coordinator_Disconnect(n) == handle_disconnect(n) /\ coordinator_only /\ free
Coordinator_Tick == tick({}) /\ coordinator_only /\ free
Coordinator_Overdue == \E F \in SUBSET Grant \ {{}} :
  tick(F) /\ spend("deadline") /\ coordinator_only
Coordinator_Crash == crash /\ spend("crash") /\ UNCHANGED agentVars
Coordinator_Start == begin_incarnation /\ free /\ UNCHANGED agentVars

Operator ==
  /\ coordinator_only
  /\ \/ spend("propose") /\ \E k \in Contract : apply_contract_proposal(k)
     \/ spend("issue") /\ \E g \in Grant, k \in Contract : apply_grant_issue(g, k)
     \/ spend("revalidate") /\ \E g \in Grant : apply_grant_revalidation(g)
     \/ spend("fence") /\ \E g \in Grant : fence_grant(g)
     \/ spend("withdraw") /\ \E c \in Cluster : withdraw_consent(c)
     \/ spend("restore") /\ \E c \in Cluster : restore_consent(c)
     \/ spend("resolve") /\ \E c \in Cluster : apply_conflict_resolution(c, cluster[c].id.gen + 1)
     \/ spend("state") /\ \E c \in Cluster, s \in ClusterState : set_registered_state(c, s)
     \/ spend("policy") /\ \E c \in Cluster : upsert_policy(c)
     \/ spend("upsert") /\ \E c \in Cluster : upsert_cluster(c, agent[c].id, "Active")
     \/ spend("delete") /\ \E c \in Cluster : delete_cluster(c)

Agent_Connect(c) == connect_to_coordinator(c) /\ agents_only /\ free
Agent_Disconnect(c) == agent_disconnect(c) /\ agents_only /\ free
Agent_Message(c) == agent_handle_message(c) /\ agents_only /\ free
Agent_Tick(c) == agent_tick(c) /\ agents_only /\ free
Agent_Handshake_Deadline(c) == handshake_deadline(c) /\ spend("handshake") /\ agents_only
Agent_Crash(c) == agent_crash(c) /\ spend("agent_crash") /\ agents_only
Agent_Start(c) == \E configured \in Configured :
  agent_begin_incarnation(c, configured) /\ agents_only /\ free

Local_Operator(c) ==
  /\ agents_only
  /\ \/ spend("local_state") /\ \E s \in {"Active", "Suspended"} : set_cluster_state(c, s)
     \/ spend("local_withdraw") /\ withdraw_locally(c)
     \/ spend("local_restore") /\ restore_locally(c)
     \/ spend("local_fence") /\ \E g \in Grant : fence_local_grant(c, g)
     \/ spend("bump") /\ bump_generation(c)
     \/ spend("repolicy") /\ set_policy_generation(c)

Break(n) == break(n) /\ spend("break") /\ UNCHANGED <<coordVars, agentVars>>

(* Time passes the end of a lease. *)
Lapse ==
  /\ spend("lapse")
  /\ \E a \in 1..minted : a \notin lapsed /\ lapsed' = lapsed \cup {a}
  /\ UNCHANGED <<link, serving, coordVars, agentVars>>

Next ==
  \/ \E n \in Conn : Coordinator_Message(n) \/ Coordinator_Disconnect(n) \/ Break(n)
  \/ Coordinator_Tick \/ Coordinator_Overdue \/ Coordinator_Crash \/ Coordinator_Start
  \/ Operator
  \/ \E c \in Cluster :
       \/ Agent_Connect(c) \/ Agent_Disconnect(c) \/ Agent_Message(c) \/ Agent_Tick(c)
       \/ Agent_Handshake_Deadline(c) \/ Agent_Crash(c) \/ Agent_Start(c) \/ Local_Operator(c)
  \/ Lapse

Spec == Init /\ [][Next]_vars

(***************************************************************************)
(* Fairness: each process keeps running its event loop, so a frame that    *)
(* arrived is handled, the end of a connection is noticed, timers fire,    *)
(* and an agent without a connection dials again.  Nothing is assumed of   *)
(* operators or of faults.                                                 *)
(***************************************************************************)
Fairness ==
  /\ \A n \in Conn : WF_vars(Coordinator_Message(n)) /\ WF_vars(Coordinator_Disconnect(n))
  /\ WF_vars(Coordinator_Tick) /\ WF_vars(Coordinator_Start)
  /\ \A c \in Cluster :
       /\ WF_vars(Agent_Connect(c)) /\ WF_vars(Agent_Disconnect(c))
       /\ WF_vars(Agent_Message(c)) /\ WF_vars(Agent_Tick(c)) /\ WF_vars(Agent_Start(c))

----------------------------------------------------------------------------
(* A usable grant belongs to the term of the running coordinator: whatever an
   earlier incarnation committed, or an earlier session acknowledges late,
   carries no authority (begin_incarnation, on_grant_committed,
   on_status_report). *)
UsableInCurrentTerm ==
  \A g \in Grant : usable_state(grant[g]) => grant[g].term = term

(* A side the coordinator counts as acknowledged has really enforced the
   attempt the grant now names, whatever was lost, repeated or reordered
   between them (on_grant_committed, on_status_report, and the new attempt
   that apply_grant_revalidation draws). *)
AcknowledgedMeansInstalled ==
  \A g \in Grant, i \in Side : grant[g].ack[i] => <<grant[g].attempt, i>> \in installed

(* Every frame after the handshake finds its session: the coordinator never
   refuses an agent for want of one (require_session), whatever was closed,
   redialled or refused in between (on_hello, handle_disconnect, the order in
   which an agent sends). *)
SpeaksInSession ==
  \A n \in Conn :
    link[n].coordEnd = "open" /\ link[n].toCoord # <<>> /\ Head(link[n].toCoord).type # "Hello"
      => session[n].on /\ session[n].cluster = link[n].owner

(* What decide() authorizes, both clusters have accepted on the terms of the
   contract and have enforced, under the very identities the registry holds
   for them now. *)
AuthorizedMeansBothAgreed ==
  \A k \in Contract : decide(k) =>
    \A i \in Side :
      LET c == Party[k][i]
      IN  /\ accepted[c][k] = contract[k].terms
          /\ contract[k].terms[i] = cluster[c].id
          /\ \E g \in latest_grant(k) : <<grant[g].attempt, i>> \in installed

(* A usable grant holds a unit of both its endpoint scopes: no release of the
   reservations of other grants, or of this one while it is being fenced,
   leaves it usable without them (reserve_capacity, fence_plan_apply,
   expire_grants). *)
UsableHoldsCapacity ==
  \A g \in Grant : usable_state(grant[g]) =>
    \A c \in parties(grant[g].contract) : resv[g][c] >= 1

(* "the decision never over-commits" (README.md): the grants in use on an
   endpoint scope fit in its capacity (reserve_capacity, on_report_cluster). *)
InUse(c) == {g \in Grant : usable_state(grant[g]) /\ c \in parties(grant[g].contract)}
NeverOvercommitted == \A c \in Cluster : Cardinality(InUse(c)) <= Capacity[c]

(* As long as the counter of an endpoint scope covers the reservations held on it,
   no step commits more grants than fit, and the counter goes on covering them,
   through every release, half-made reservation and fence, until a report or the
   operator replaces it by zero (reserve_capacity, release_counters,
   finalise_grant). *)
Covered(c) == held(resv, Grant, c) <= cluster[c].reserved
CoveredNeverOvercommits ==
  [][\A c \in Cluster : Covered(c) =>
       /\ Cardinality(InUse(c)') <= Capacity[c]
       /\ Covered(c)' \/ cluster'[c].reserved = 0]_vars

(* Nothing is in flight, everyone is connected and no flow is running. *)
Settled ==
  /\ serving
  /\ \A c \in Cluster : agent[c].up /\ agent[c].ready /\ alive(link[agent[c].conn])
  /\ \A n \in Conn : link[n].toCoord = <<>> /\ link[n].toAgent = <<>>
                     /\ (link[n].coordEnd = "open" => alive(link[n]))
  /\ \A g \in Grant : ~pending[g].on

(* Once everything has settled, a cluster that withdrew its consent at its own
   agent is not authorized, even when the withdrawal happened out of reach of
   the coordinator (withdraw_consent, on_withdraw, on_report_cluster). *)
WithdrawnNotAuthorizedOnceSettled ==
  Settled => \A k \in Contract : decide(k) =>
    \A i \in Side : ~agent[Party[k][i]].withdrawn

(* No connection has been lost or closed so far. *)
Unbroken == \A n \in Conn : link[n].owner # NoCluster => alive(link[n])

(* "both cluster agents prepared the same attempt" (commit_grant): as long as no
   connection is lost, both agents have promised the very attempt that is being
   committed, whatever the operator revalidates, fences or suspends while
   acceptances of earlier attempts are on their way (on_prepare_ack,
   apply_grant_revalidation). *)
CommitMeansBothPrepared ==
  Unbroken => \A g \in Grant : grant[g].state = "Prepared" =>
    \A i \in Side : <<grant[g].attempt, i>> \in promised

(* As long as no connection is lost, an agent has stopped enforcing what the
   coordinator fenced once everything has settled, although the fence may have
   crossed a commit of the same grant on its way (broadcast_fence, on_fence,
   on_status_report). *)
FencedNotEnforcedOnceSettled ==
  Settled /\ Unbroken =>
    \A c \in Cluster, g \in Grant : grant[g].state = "Fenced" => ~enforces(c, g)

(***************************************************************************)
(* The fabric implements the abstract authority: what carries authority is *)
(* the usable grants of the coordinator's table, what is installed is what *)
(* the agents have ever enforced.                                          *)
(***************************************************************************)
usable_attempts == {<<grant[g].attempt, grant[g].term>> : g \in {h \in Grant : usable_state(grant[h])}}

A == INSTANCE Authority WITH Parties <- Side, usable <- usable_attempts

(* An attempt becomes usable only in the term that made it and after both
   sides have enforced it, and a new term starts with nothing usable
   (finalise_grant, begin_incarnation). *)
ImplementsAuthority == A!Spec

(* A grant whose commit was sent, or whose agent was lost on the way, does not
   stay in doubt: an acknowledgement, the status exchange of the next session
   or the deadline of the flow settles it (on_status_report,
   retry_pending_flows). *)
InDoubt(g) == grant[g].state \in {"Prepared", "Indeterminate"}

(* An agent that lost its session gets a new one, until all of them have one
   at the same time (connect_to_coordinator, handle_disconnect, on_hello_ack). *)
AllReady == \A c \in Cluster : agent[c].ready
Reconnects == ~AllReady ~> AllReady

(* When a lease has lapsed, neither the coordinator nor an agent goes on
   holding the grant as usable (expire_grants, reevaluate_enforcement). *)
outlives_lease(r) == usable_state(r) /\ r.attempt \in lapsed
Overheld == \E g \in Grant : outlives_lease(grant[g]) \/ \E c \in Cluster : outlives_lease(local[c][g])
LeaseEnds == Overheld ~> ~Overheld

----------------------------------------------------------------------------
(* What the documents and comments of the repository say, and the code does
   not keep. *)

(* "a fenced grant is never revived; issue a new grant instead"
   (apply_grant_revalidation); on_grant_committed does not look at the state. *)
NeverRevived ==
  [][\A g \in Grant : grant[g].state = "Fenced" => grant'[g].state = "Fenced"]_vars
=============================================================================
