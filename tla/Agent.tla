------------------------------- MODULE Agent -------------------------------
(***************************************************************************)
(* The cluster agents.  Each keeps its own identity and state, the terms   *)
(* it accepted and the grants it was asked to enforce, all of them durable *)
(* (every handler writes what it changes before it answers), and holds at  *)
(* most one connection to the coordinator.  An agent without a coordinator *)
(* keeps enforcing until the lease of the grant lapses.                    *)
(***************************************************************************)
EXTENDS Links

(* cterm: the coordinator term of the last handshake.  conn: the connection
   to the coordinator; ready: its handshake is complete. *)
AgentRecord == [up : BOOLEAN, id : Identity, state : ClusterState, withdrawn : BOOLEAN,
                cterm : Nat, conn : Conn \cup {NoConn}, ready : BOOLEAN]

VARIABLES
  agent,     \* the agents
  accepted,  \* the terms each agent accepted for each contract
  local,     \* the grant records each agent holds
  promised,  \* history: the attempts each side has ever prepared
  installed  \* history: the attempts each side has ever enforced

agentVars == <<agent, accepted, local, promised, installed>>
historyVars == <<promised, installed>>

FirstIdentity == [inc |-> 1, gen |-> 1, pol |-> 1]

AgentInit ==
  /\ agent = [c \in Cluster |-> [up |-> TRUE, id |-> FirstIdentity, state |-> "Active",
                                 withdrawn |-> FALSE, cterm |-> 0, conn |-> NoConn,
                                 ready |-> FALSE]]
  /\ accepted = [c \in Cluster |-> [k \in Contract |-> NoTerms]]
  /\ local = [c \in Cluster |-> [g \in Grant |-> NoGrant]]
  /\ promised = {} /\ installed = {}

AgentTypeOK ==
  /\ agent \in [Cluster -> AgentRecord]
  /\ accepted \in [Cluster -> [Contract -> Terms]]
  /\ local \in [Cluster -> [Grant -> GrantRecord]]
  /\ promised \subseteq Nat \X Side
  /\ installed \subseteq Nat \X Side

----------------------------------------------------------------------------
(* The side of the contract of a grant record that cluster c holds. *)
my_bind(c, r) == r.bind[side_of(c, r.contract)]

grant_enforceable(a, c, r) ==
  /\ r.state = "Active"
  /\ my_bind(c, r) = a.id
  /\ r.term = a.cterm
  /\ r.attempt \notin lapsed
  /\ ~a.withdrawn /\ a.state = "Active"

enforces(c, g) == agent[c].up /\ grant_enforceable(agent[c], c, local[c][g])

set_local(c, G, s) ==
  [local EXCEPT ![c] = [g \in Grant |-> IF g \in G THEN [@[g] EXCEPT !.state = s] ELSE @[g]]]

(* An installed grant whose lease lapsed expires; one that is enforced and is
   no longer enforceable, seen with the agent's new record a, is fenced. *)
reevaluated(a, c, r) ==
  IF usable_state(r) /\ r.attempt \in lapsed THEN [r EXCEPT !.state = "Expired"]
  ELSE IF r.state = "Active" /\ ~grant_enforceable(a, c, r) THEN [r EXCEPT !.state = "Fenced"]
  ELSE r
reevaluate_enforcement(a, c) ==
  local' = [local EXCEPT ![c] = [g \in Grant |-> reevaluated(a, c, @[g])]]

(* send_message on the agent's connection. *)
send(c, lk, m) ==
  IF agent[c].conn = NoConn THEN lk ELSE [lk EXCEPT ![agent[c].conn] = to_coord(@, <<m>>)]
report_cluster(c, a, lk) == send(c, lk, ReportCluster(a.id, a.state, a.withdrawn))
report_if_ready(c, a) == link' = IF a.ready THEN report_cluster(c, a, link) ELSE link

recv_by(c, type) ==
  LET n == agent[c].conn
  IN  /\ agent[c].up /\ n # NoConn
      /\ link[n].agentEnd = "open" /\ ~link[n].cut
      /\ link[n].toAgent # <<>> /\ Head(link[n].toAgent).type = type
msg_of(c) == Head(link[agent[c].conn].toAgent)
read_of(c) == [link EXCEPT ![agent[c].conn] = read_by_agent(@)]
reply(c, m) == link' = send(c, read_of(c), m)

----------------------------------------------------------------------------
(* The listener is bound: a new connection opens and carries the handshake. *)
connect_to_coordinator(c) ==
  /\ agent[c].up /\ agent[c].conn = NoConn /\ serving
  /\ \E n \in Conn :
       /\ link[n].owner = NoCluster
       /\ \A m \in Conn : m < n => link[m].owner # NoCluster
       /\ link' = [link EXCEPT ![n] =
            [NoLink EXCEPT !.owner = c, !.agentEnd = "open", !.coordEnd = "open",
                           !.toCoord = <<Hello(agent[c].id, agent[c].state)>>]]
       /\ agent' = [agent EXCEPT ![c].conn = n, ![c].ready = FALSE]
  /\ UNCHANGED <<accepted, local, historyVars>>

(* Fault: the agent goes on holding the connection that ended. *)
agent_disconnect_keeps_conn(c) ==
  LET n == agent[c].conn
  IN  /\ agent[c].up /\ n # NoConn
      /\ link[n].agentEnd = "closed" \/ ended_for_agent(link[n])
      /\ link' = [link EXCEPT ![n] = close_agent(@)]
      /\ agent' = [agent EXCEPT ![c].ready = FALSE]
      /\ UNCHANGED <<accepted, local, historyVars>>

agent_disconnect(c) ==
  LET n == agent[c].conn
  IN  /\ agent[c].up /\ n # NoConn
      /\ link[n].agentEnd = "closed" \/ ended_for_agent(link[n])
      /\ link' = [link EXCEPT ![n] = close_agent(@)]
      /\ agent' = [agent EXCEPT ![c].conn = NoConn, ![c].ready = FALSE]
      /\ UNCHANGED <<accepted, local, historyVars>>

(* A refused handshake closes the connection.  An accepted one brings the
   current term: what was prepared or enforced under another is fenced. *)
on_hello_ack(c) ==
  LET m == msg_of(c)
      a == [agent[c] EXCEPT !.cterm = m.term, !.ready = TRUE]
      fenced == {g \in Grant : /\ local[c][g].state \in {"Active", "Committed", "Indeterminate", "Prepared"}
                               /\ local[c][g].term # m.term}
  IN  /\ recv_by(c, "HelloAck")
      /\ IF m.ok
         THEN /\ agent' = [agent EXCEPT ![c] = a]
              /\ local' = set_local(c, fenced, "Fenced")
              /\ link' = report_cluster(c, a, read_of(c))
         ELSE /\ link' = [link EXCEPT ![agent[c].conn] = close_agent(@)]
              /\ UNCHANGED <<agent, local>>
      /\ UNCHANGED <<accepted, historyVars>>

(* The agent accepts terms that name its present identity, while it is
   active and has not withdrawn. *)
on_propose_contract(c) ==
  LET m == msg_of(c)
      a == agent[c]
      ok == /\ c \in parties(m.contract)
            /\ m.terms[side_of(c, m.contract)] = a.id
            /\ ~a.withdrawn /\ a.state = "Active"
  IN  /\ recv_by(c, "ProposeContract")
      /\ accepted' = IF ok THEN [accepted EXCEPT ![c][m.contract] = m.terms] ELSE accepted
      /\ reply(c, ContractConsent(m.contract, m.terms, a.id, IF ok THEN "Accepted" ELSE "Refused"))
      /\ UNCHANGED <<agent, local, historyVars>>

(* The agent records the grant as prepared when it covers the terms it
   accepted and is bound to its identity and to the term it knows.  Whatever
   it held under that identifier is overwritten. *)
on_prepare_grant(c) ==
  LET m == msg_of(c)
      r == m.record
      a == agent[c]
      ok == /\ c \in parties(r.contract)
            /\ accepted[c][r.contract] # NoTerms
            /\ accepted[c][r.contract] = m.terms
            /\ my_bind(c, r) = a.id
            /\ r.term = a.cterm
  IN  /\ recv_by(c, "PrepareGrant")
      /\ local' = IF ok THEN [local EXCEPT ![c][m.grant] = [r EXCEPT !.state = "Prepared"]] ELSE local
      /\ reply(c, GrantPrepared(m.grant, r.attempt, ok))
      /\ promised' = promised \cup {x \in {<<r.attempt, side_of(c, r.contract)>>} : ok}
      /\ UNCHANGED <<agent, accepted, installed>>

on_commit_grant(c) ==
  LET m == msg_of(c)
      r == local[c][m.grant]
      ok == r.attempt = m.attempt /\ r.state \in {"Prepared", "Active"}
  IN  /\ recv_by(c, "CommitGrant")
      /\ local' = IF ok THEN set_local(c, {m.grant}, "Active") ELSE local
      /\ reply(c, GrantCommitted(m.grant, m.attempt, ok))
      /\ installed' = installed \cup {x \in {<<r.attempt, side_of(c, r.contract)>>} : ok}
      /\ UNCHANGED <<agent, accepted, promised>>

held_locally(c) == {g \in Grant : local[c][g].state # "None"}

on_fence(c) ==
  /\ recv_by(c, "Fence")
  /\ local' = set_local(c, msg_of(c).grants \cap held_locally(c), "Fenced")
  /\ link' = read_of(c)
  /\ UNCHANGED <<agent, accepted, historyVars>>

on_status_request(c) ==
  /\ recv_by(c, "StatusRequest")
  /\ reply(c, StatusReport([g \in Grant |-> [attempt |-> local[c][g].attempt,
                                             state |-> local[c][g].state]]))
  /\ UNCHANGED agentVars

agent_handle_message(c) ==
  \/ on_hello_ack(c)
  \/ on_propose_contract(c)
  \/ on_prepare_grant(c)
  \/ on_commit_grant(c)
  \/ on_fence(c)
  \/ on_status_request(c)

(* The handshake deadline passes: the agent gives the connection up. *)
handshake_deadline(c) ==
  /\ agent[c].up /\ agent[c].conn # NoConn /\ ~agent[c].ready
  /\ link[agent[c].conn].agentEnd = "open"
  /\ link' = [link EXCEPT ![agent[c].conn] = close_agent(@)]
  /\ UNCHANGED agentVars

----------------------------------------------------------------------------
(* The local operator's requests, and the housekeeping tick. *)
set_cluster_state(c, s) ==
  LET a == [agent[c] EXCEPT !.state = s]
  IN  /\ agent[c].up
      /\ agent' = [agent EXCEPT ![c] = a]
      /\ reevaluate_enforcement(a, c)
      /\ report_if_ready(c, a)
      /\ UNCHANGED <<accepted, historyVars>>

withdraw_locally(c) ==
  LET a == [agent[c] EXCEPT !.withdrawn = TRUE]
  IN  /\ agent[c].up
      /\ agent' = [agent EXCEPT ![c] = a]
      /\ reevaluate_enforcement(a, c)
      /\ link' = IF a.ready THEN send(c, link, Withdraw(a.id)) ELSE link
      /\ UNCHANGED <<accepted, historyVars>>

(* The coordinator is not told. *)
restore_locally(c) ==
  /\ agent[c].up
  /\ agent' = [agent EXCEPT ![c].withdrawn = FALSE]
  /\ UNCHANGED <<link, accepted, local, historyVars>>

fence_local_grant(c, g) ==
  /\ agent[c].up /\ g \in held_locally(c)
  /\ local' = set_local(c, {g}, "Fenced")
  /\ UNCHANGED <<link, agent, accepted, historyVars>>

(* The content of the cluster changed.  The agent's own term, which counts
   its incarnations, stands in for the coordinator's: a grant prepared under
   a coordinator term of the same number is not fenced. *)
bump_generation(c) ==
  LET a == [agent[c] EXCEPT !.id.gen = @ + 1]
      fenced == {g \in Grant : \/ usable_state(local[c][g])
                               \/ /\ local[c][g].state \in {"Prepared", "Indeterminate"}
                                  /\ local[c][g].term # a.id.inc}
  IN  /\ agent[c].up
      /\ agent' = [agent EXCEPT ![c] = a]
      /\ local' = set_local(c, fenced, "Fenced")
      /\ report_if_ready(c, a)
      /\ UNCHANGED <<accepted, historyVars>>

set_policy_generation(c) ==
  LET a == [agent[c] EXCEPT !.id.pol = @ + 1]
  IN  /\ agent[c].up
      /\ agent' = [agent EXCEPT ![c] = a]
      /\ reevaluate_enforcement(a, c)
      /\ report_if_ready(c, a)
      /\ UNCHANGED <<accepted, historyVars>>

agent_tick(c) ==
  /\ agent[c].up
  /\ reevaluate_enforcement(agent[c], c)
  /\ UNCHANGED <<link, agent, accepted, historyVars>>

(***************************************************************************)
(* The process dies.  The next incarnation refuses to start below the      *)
(* recorded generation, advances it when the configuration did not, and    *)
(* fences every grant it recovers.                                         *)
(***************************************************************************)
agent_crash(c) ==
  /\ agent[c].up
  /\ agent' = [agent EXCEPT ![c] = [@ EXCEPT !.up = FALSE, !.conn = NoConn, !.ready = FALSE,
                                             !.cterm = 0]]
  /\ link' = [n \in Conn |-> IF n = agent[c].conn THEN close_agent(link[n]) ELSE link[n]]
  /\ UNCHANGED <<accepted, local, historyVars>>

agent_begin_incarnation(c, configured) ==
  LET old == agent[c].id
      id == [old EXCEPT !.inc = old.inc + 1,
                        !.gen = IF configured = old.gen THEN old.gen + 1 ELSE configured]
  IN  /\ ~agent[c].up
      /\ configured >= old.gen
      /\ agent' = [agent EXCEPT ![c] = [@ EXCEPT !.up = TRUE, !.id = id]]
      /\ local' = set_local(c, {g \in Grant : local[c][g].state \in
                    {"Active", "Committed", "Prepared", "Preparing", "Indeterminate"}}, "Fenced")
      /\ UNCHANGED <<link, accepted, historyVars>>
=============================================================================
