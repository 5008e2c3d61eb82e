---------------------------- MODULE FabricTypes ----------------------------
(***************************************************************************)
(* Every action of an agent and every handler of the coordinator keeps the *)
(* types of its state.                                                     *)
(***************************************************************************)
EXTENDS FabricLemmas, FiniteSetTheorems

(* Every leaf may take this long. *)
USE SMTT(30), ZenonT(10)

(***************************************************************************)
(* The agents.                                                             *)
(***************************************************************************)
AgentsTyped == link \in [Conn -> Link] /\ AgentTypeOK /\ LocalsMine

(* Changing the state of grants an agent holds keeps its table well typed    *)
(* and its own.                                                              *)
LEMMA SetLocal ==
  ASSUME AgentTypeOK, LocalsMine, NEW c \in Cluster, NEW s \in GrantState,
         NEW G, \A g \in G \cap Grant : local[c][g].state # "None", local' = set_local(c, G, s)
  PROVE  local' \in [Cluster -> [Grant -> GrantRecord]] /\ LocalsMine'
<1>1. local \in [Cluster -> [Grant -> GrantRecord]] BY DEF AgentTypeOK
<1> DEFINE f == [g \in Grant |-> IF g \in G THEN [local[c][g] EXCEPT !.state = s] ELSE local[c][g]]
<1>2. local' = [local EXCEPT ![c] = f] BY DEF set_local
<1>3. f \in [Grant -> GrantRecord]
  <2>1. \A g \in Grant : local[c][g] \in GrantRecord BY <1>1
  <2>2. \A g \in Grant : [local[c][g] EXCEPT !.state = s] \in GrantRecord BY <2>1 DEF GrantRecord
  <2> QED BY <2>1, <2>2
<1>4. \A g \in Grant : f[g].contract = local[c][g].contract BY <1>1 DEF GrantRecord
<1>5. \A g \in Grant : local[c][g].state = "None" => f[g] = local[c][g] OBVIOUS
<1> HIDE DEF f
<1>6. local' \in [Cluster -> [Grant -> GrantRecord]] BY <1>1, <1>2, <1>3
<1>7. LocalsMine' BY <1>1, <1>2, <1>4, <1>5 DEF LocalsMine
<1> QED BY <1>6, <1>7

(* reevaluate_enforcement keeps the table of grants well typed and its own.  *)
LEMMA Reevaluates ==
  ASSUME AgentTypeOK, LocalsMine, NEW c \in Cluster, NEW a, reevaluate_enforcement(a, c)
  PROVE  local' \in [Cluster -> [Grant -> GrantRecord]] /\ LocalsMine'
<1>1. local \in [Cluster -> [Grant -> GrantRecord]] BY DEF AgentTypeOK
<1> DEFINE f == [g \in Grant |-> reevaluated(a, c, local[c][g])]
<1>2. local' = [local EXCEPT ![c] = f] BY DEF reevaluate_enforcement
<1>3. \A g \in Grant : /\ f[g] \in GrantRecord
                       /\ f[g].contract = local[c][g].contract
                       /\ local[c][g].state = "None" => f[g] = local[c][g]
  <2> TAKE g \in Grant
  <2>1. local[c][g] \in GrantRecord BY <1>1
  <2> QED BY <2>1 DEF reevaluated, usable_state, GrantRecord, GrantState
<1>4. f \in [Grant -> GrantRecord] BY <1>3
<1> HIDE DEF f
<1>5. local' \in [Cluster -> [Grant -> GrantRecord]] BY <1>1, <1>2, <1>4
<1>6. LocalsMine' BY <1>1, <1>2, <1>3 DEF LocalsMine
<1> QED BY <1>5, <1>6

(* What an agent sends. *)
LEMMA AgentSends ==
  ASSUME AgentTypeOK, NEW c \in Cluster, NEW lk \in [Conn -> Link], NEW m \in ToCoord
  PROVE  send(c, lk, m) \in [Conn -> Link]
<1>1. agent[c].conn \in Conn \cup {NoConn} BY DEF AgentTypeOK, AgentRecord
<1>2. CASE agent[c].conn = NoConn BY <1>2 DEF send
<1>3. CASE agent[c].conn \in Conn
  <2>1. to_coord(lk[agent[c].conn], <<m>>) \in Link BY <1>3, OneElement, LinkWrites, Zenon
  <2> QED BY <2>1, Zenon DEF send
<1> QED BY <1>1, <1>2, <1>3

(* report_cluster sends a well-formed frame and leaves a well-typed agent.   *)
LEMMA Reports ==
  ASSUME LinksTypeOK, AgentTypeOK, NEW c \in Cluster, NEW a \in AgentRecord
  PROVE  /\ \A lk \in [Conn -> Link] : report_cluster(c, a, lk) \in [Conn -> Link]
         /\ report_if_ready(c, a) => link' \in [Conn -> Link]
<1>1. ReportCluster(a.id, a.state, a.withdrawn) \in ToCoord
  BY DEF ReportCluster, ToCoord, AgentRecord
<1>2. \A lk \in [Conn -> Link] : report_cluster(c, a, lk) \in [Conn -> Link]
  BY <1>1, AgentSends DEF report_cluster
<1> QED BY <1>2 DEF report_if_ready, LinksTypeOK

(* An agent takes a frame of ToAgent off the link it is connected by.        *)
LEMMA AgentFrames ==
  ASSUME LinksTypeOK, AgentTypeOK, NEW c \in Cluster, NEW type, recv_by(c, type)
  PROVE  /\ read_of(c) \in [Conn -> Link] /\ msg_of(c) \in ToAgent /\ msg_of(c).type = type
         /\ agent[c].conn \in Conn
         /\ [link EXCEPT ![agent[c].conn] = close_agent(@)] \in [Conn -> Link]
<1>1. agent[c].conn \in Conn BY DEF recv_by, AgentTypeOK, AgentRecord
<1>2. link[agent[c].conn] \in Link BY <1>1 DEF LinksTypeOK
<1>3. /\ read_by_agent(link[agent[c].conn]) \in Link
      /\ msg_of(c) \in ToAgent
      /\ close_agent(link[agent[c].conn]) \in Link
  BY <1>2, LinkReads DEF recv_by, msg_of
<1> QED BY <1>1, <1>3 DEF read_of, LinksTypeOK, recv_by, msg_of

(***************************************************************************)
(* The handlers of the coordinator's messages.                             *)
(***************************************************************************)
LEMMA HelloAckTypes ==
  ASSUME LinksTypeOK, AgentTypeOK, LocalsMine, NEW c \in Cluster, on_hello_ack(c)
  PROVE  AgentsTyped'
<1> DEFINE m == msg_of(c)
           a == [agent[c] EXCEPT !.cterm = m.term, !.ready = TRUE]
           G == {g \in Grant : /\ local[c][g].state \in {"Active", "Committed", "Indeterminate", "Prepared"}
                               /\ local[c][g].term # m.term}
<1>1. recv_by(c, "HelloAck") BY DEF on_hello_ack
<1>2. /\ read_of(c) \in [Conn -> Link] /\ m \in ToAgent /\ m.type = "HelloAck"
      /\ [link EXCEPT ![agent[c].conn] = close_agent(@)] \in [Conn -> Link]
  BY <1>1, AgentFrames
<1>3. m.ok \in BOOLEAN /\ m.term \in Nat BY <1>2, ToAgentFields
<1> HIDE DEF m
<1>4. a \in AgentRecord BY <1>3, Zenon DEF AgentTypeOK, AgentRecord
<1>5. CASE m.ok
  <2>1. /\ agent' = [agent EXCEPT ![c] = a]
        /\ local' = set_local(c, G, "Fenced")
        /\ link' = report_cluster(c, a, read_of(c))
        /\ UNCHANGED <<accepted, historyVars>>
    BY <1>5 DEF on_hello_ack, m
  <2>0. \A g \in G \cap Grant : local[c][g].state # "None" OBVIOUS
  <2> HIDE DEF a, G
  <2>2. local' \in [Cluster -> [Grant -> GrantRecord]] /\ LocalsMine'
    BY <2>0, <2>1, SetLocal DEF GrantState
  <2>3. link' \in [Conn -> Link] BY <1>2, <1>4, <2>1, Reports
  <2> QED BY <1>4, <2>1, <2>2, <2>3 DEF AgentsTyped, AgentTypeOK, historyVars
<1>6. CASE ~m.ok
  <2>1. /\ link' = [link EXCEPT ![agent[c].conn] = close_agent(@)]
        /\ UNCHANGED <<agent, local, accepted, historyVars>>
    BY <1>6 DEF on_hello_ack, m
  <2> QED BY <1>2, <2>1 DEF AgentsTyped, AgentTypeOK, LocalsMine, historyVars
<1> QED BY <1>5, <1>6

(* on_propose_contract keeps the types.                                      *)
LEMMA ProposeTypes ==
  ASSUME LinksTypeOK, AgentTypeOK, LocalsMine, NEW c \in Cluster, on_propose_contract(c)
  PROVE  AgentsTyped'
<1> DEFINE m == msg_of(c)
<1>1. recv_by(c, "ProposeContract") BY DEF on_propose_contract
<1>2. read_of(c) \in [Conn -> Link] /\ m \in ToAgent /\ m.type = "ProposeContract"
  BY <1>1, AgentFrames
<1>3. m.contract \in Contract /\ m.terms \in Terms BY <1>2, ToAgentFields
<1> HIDE DEF m
<1>4. agent[c].id \in Identity BY DEF AgentTypeOK, AgentRecord
<1>5. PICK d \in Decision : link' = send(c, read_of(c), ContractConsent(m.contract, m.terms, agent[c].id, d))
  BY DEF on_propose_contract, reply, Decision, m
<1>6. ContractConsent(m.contract, m.terms, agent[c].id, d) \in ToCoord
  BY <1>3, <1>4 DEF ContractConsent, ToCoord
<1>7. link' \in [Conn -> Link] BY <1>2, <1>5, <1>6, AgentSends
<1>8. accepted' = accepted \/ accepted' = [accepted EXCEPT ![c][m.contract] = m.terms]
  BY DEF on_propose_contract, m
<1>9. accepted' \in [Cluster -> [Contract -> Terms]]
  <2>1. accepted[c] \in [Contract -> Terms] BY DEF AgentTypeOK
  <2>2. [accepted[c] EXCEPT ![m.contract] = m.terms] \in [Contract -> Terms] BY <1>3, <2>1
  <2> QED BY <1>8, <2>2, Zenon DEF AgentTypeOK
<1> QED BY <1>7, <1>9 DEF on_propose_contract, AgentsTyped, AgentTypeOK, LocalsMine, historyVars

(* on_prepare_grant keeps the types and records only grants of contracts the *)
(* cluster is a party of.                                                    *)
LEMMA PrepareGrantTypes ==
  ASSUME LinksTypeOK, AgentTypeOK, LocalsMine, NEW c \in Cluster, on_prepare_grant(c)
  PROVE  AgentsTyped'
<1> DEFINE m == msg_of(c)
           r == m.record
           i == side_of(c, r.contract)
           p == [r EXCEPT !.state = "Prepared"]
<1>1. recv_by(c, "PrepareGrant") BY DEF on_prepare_grant
<1>2. read_of(c) \in [Conn -> Link] /\ m \in ToAgent /\ m.type = "PrepareGrant"
  BY <1>1, AgentFrames
<1>3. m.grant \in Grant /\ r \in GrantRecord BY <1>2, ToAgentFields
<1>4. p \in GrantRecord /\ p.contract = r.contract /\ r.attempt \in Nat
  BY <1>3 DEF GrantRecord, GrantState
<1>5. PICK ok \in BOOLEAN :
        /\ ok => c \in parties(r.contract)
        /\ local' = IF ok THEN [local EXCEPT ![c][m.grant] = p] ELSE local
        /\ link' = send(c, read_of(c), GrantPrepared(m.grant, r.attempt, ok))
        /\ promised' = promised \cup {x \in {<<r.attempt, i>>} : ok}
        /\ UNCHANGED <<agent, accepted, installed>>
  <2> DEFINE ok == /\ c \in parties(r.contract)
                   /\ accepted[c][r.contract] # NoTerms
                   /\ accepted[c][r.contract] = m.terms
                   /\ my_bind(c, r) = agent[c].id
                   /\ r.term = agent[c].cterm
  <2>1. ok \in BOOLEAN OBVIOUS
  <2>2. /\ local' = IF ok THEN [local EXCEPT ![c][m.grant] = p] ELSE local
        /\ link' = send(c, read_of(c), GrantPrepared(m.grant, r.attempt, ok))
        /\ promised' = promised \cup {x \in {<<r.attempt, i>>} : ok}
        /\ UNCHANGED <<agent, accepted, installed>>
    BY DEF on_prepare_grant, reply
  <2>3. ok => c \in parties(r.contract) OBVIOUS
  <2> HIDE DEF ok
  <2> QED BY <2>1, <2>2, <2>3
<1> HIDE DEF m, p
<1>6. GrantPrepared(m.grant, r.attempt, ok) \in ToCoord BY <1>3, <1>4 DEF GrantPrepared, ToCoord
<1>7. link' \in [Conn -> Link] BY <1>2, <1>5, <1>6, AgentSends
<1>8. local' \in [Cluster -> [Grant -> GrantRecord]] BY <1>3, <1>4, <1>5 DEF AgentTypeOK
<1>9. promised' \subseteq Nat \X Side
  <2>1. ok => <<r.attempt, i>> \in Nat \X Side BY <1>4, <1>5, Sides
  <2> QED BY <1>5, <2>1 DEF AgentTypeOK
<1>10. LocalsMine'
  <2> SUFFICES ASSUME NEW d \in Cluster, NEW g \in Grant, local'[d][g].state # "None"
               PROVE  d \in parties(local'[d][g].contract) BY DEF LocalsMine
  <2>1. CASE ok /\ d = c /\ g = m.grant
    <3>1. local'[d][g] = p BY <1>3, <1>5, <2>1 DEF AgentTypeOK
    <3> QED BY <1>4, <1>5, <2>1, <3>1
  <2>2. CASE ~(ok /\ d = c /\ g = m.grant)
    <3>1. local'[d][g] = local[d][g] BY <1>3, <1>5, <2>2 DEF AgentTypeOK
    <3> QED BY <3>1 DEF LocalsMine
  <2> QED BY <2>1, <2>2
<1> QED BY <1>5, <1>7, <1>8, <1>9, <1>10 DEF AgentsTyped, AgentTypeOK

(* on_commit_grant keeps the types.                                          *)
LEMMA CommitGrantTypes ==
  ASSUME LinksTypeOK, AgentTypeOK, LocalsMine, NEW c \in Cluster, on_commit_grant(c)
  PROVE  AgentsTyped'
<1> DEFINE m == msg_of(c)
           r == local[c][m.grant]
           ok == r.attempt = m.attempt /\ r.state \in {"Prepared", "Active"}
           i == side_of(c, r.contract)
<1>1. recv_by(c, "CommitGrant") BY DEF on_commit_grant
<1>2. read_of(c) \in [Conn -> Link] /\ m \in ToAgent /\ m.type = "CommitGrant"
  BY <1>1, AgentFrames
<1>3. m.grant \in Grant /\ m.attempt \in Nat BY <1>2, ToAgentFields
<1>4. /\ local' = IF ok THEN set_local(c, {m.grant}, "Active") ELSE local
      /\ link' = send(c, read_of(c), GrantCommitted(m.grant, m.attempt, ok))
      /\ installed' = installed \cup {x \in {<<r.attempt, i>>} : ok}
      /\ UNCHANGED <<agent, accepted, promised>>
  BY DEF on_commit_grant, reply
<1>5. r \in GrantRecord BY <1>3 DEF AgentTypeOK
<1>6. ok => r.state # "None" OBVIOUS
<1>7. ok => c \in parties(r.contract) BY <1>3, <1>6 DEF LocalsMine
<1>8. ok \in BOOLEAN OBVIOUS
<1> HIDE DEF ok, m
<1>9. GrantCommitted(m.grant, m.attempt, ok) \in ToCoord
  BY <1>3, <1>8 DEF GrantCommitted, ToCoord
<1>10. link' \in [Conn -> Link] BY <1>2, <1>4, <1>9, AgentSends
<1>11. local' \in [Cluster -> [Grant -> GrantRecord]] /\ LocalsMine'
  <2>1. CASE ok
    <3>1. local' = set_local(c, {m.grant}, "Active") BY <1>4, <2>1
    <3>2. \A g \in {m.grant} \cap Grant : local[c][g].state # "None" BY <1>6, <2>1
    <3>3. "Active" \in GrantState BY DEF GrantState
    <3> QED BY <3>1, <3>2, <3>3, SetLocal, Zenon
  <2>2. CASE ~ok BY <1>4, <2>2 DEF AgentTypeOK, LocalsMine
  <2> QED BY <2>1, <2>2
<1>12. installed' \subseteq Nat \X Side
  <2>1. ok => <<r.attempt, i>> \in Nat \X Side BY <1>5, <1>7, Sides DEF GrantRecord
  <2> QED BY <1>4, <2>1 DEF AgentTypeOK
<1> QED BY <1>4, <1>10, <1>11, <1>12, Zenon DEF AgentsTyped, AgentTypeOK

(* on_fence keeps the types.                                                 *)
LEMMA FenceMessageTypes ==
  ASSUME LinksTypeOK, AgentTypeOK, LocalsMine, NEW c \in Cluster, on_fence(c)
  PROVE  AgentsTyped'
<1> DEFINE G == msg_of(c).grants \cap held_locally(c)
<1>1. read_of(c) \in [Conn -> Link] BY AgentFrames DEF on_fence
<1>2. local' = set_local(c, G, "Fenced") BY DEF on_fence
<1>3. \A g \in G \cap Grant : local[c][g].state # "None" BY DEF held_locally
<1> HIDE DEF G
<1>4. local' \in [Cluster -> [Grant -> GrantRecord]] /\ LocalsMine'
  BY <1>2, <1>3, SetLocal DEF GrantState
<1> QED BY <1>1, <1>4, Zenon DEF on_fence, AgentsTyped, AgentTypeOK, historyVars

(* on_status_request keeps the types.                                        *)
LEMMA StatusRequestTypes ==
  ASSUME LinksTypeOK, AgentTypeOK, LocalsMine, NEW c \in Cluster, on_status_request(c)
  PROVE  AgentsTyped'
<1> DEFINE e == [g \in Grant |-> [attempt |-> local[c][g].attempt, state |-> local[c][g].state]]
<1>1. read_of(c) \in [Conn -> Link] BY AgentFrames DEF on_status_request
<1>2. \A g \in Grant : local[c][g] \in GrantRecord BY DEF AgentTypeOK
<1>3. e \in [Grant -> StatusEntry] BY <1>2 DEF StatusEntry, GrantRecord
<1>4. link' = send(c, read_of(c), StatusReport(e)) BY DEF on_status_request, reply
<1> HIDE DEF e
<1>5. StatusReport(e) \in ToCoord BY <1>3 DEF StatusReport, ToCoord
<1>6. link' \in [Conn -> Link] BY <1>1, <1>4, <1>5, AgentSends
<1> QED BY <1>6 DEF on_status_request, AgentsTyped, AgentTypeOK, LocalsMine, agentVars

(***************************************************************************)
(* Connections, the local operator, crash and restart.                     *)
(***************************************************************************)
LEMMA AgentConnectionTypes ==
  ASSUME LinksTypeOK, AgentTypeOK, LocalsMine, NEW c \in Cluster,
         connect_to_coordinator(c) \/ agent_disconnect(c) \/ handshake_deadline(c)
  PROVE  AgentsTyped'
<1>1. agent[c] \in AgentRecord BY DEF AgentTypeOK
<1>2. \A n \in Conn : close_agent(link[n]) \in Link BY LinkReads DEF LinksTypeOK
<1>3. CASE connect_to_coordinator(c)
  <2> DEFINE h == Hello(agent[c].id, agent[c].state)
             l == [NoLink EXCEPT !.owner = c, !.agentEnd = "open", !.coordEnd = "open",
                                 !.toCoord = <<h>>]
  <2>1. PICK n \in Conn : /\ link' = [link EXCEPT ![n] = l]
                          /\ agent' = [agent EXCEPT ![c].conn = n, ![c].ready = FALSE]
    BY <1>3, Zenon DEF connect_to_coordinator
  <2>2. h \in ToCoord BY <1>1 DEF Hello, ToCoord, AgentRecord
  <2> HIDE DEF h
  <2>3. <<h>> \in Seq(ToCoord) /\ <<>> \in Seq(ToAgent) BY <2>2, OneElement
  <2>4. l \in Link BY <2>3, Zenon DEF Link, NoLink, End
  <2> HIDE DEF l
  <2>5. link' \in [Conn -> Link] BY <2>1, <2>4 DEF LinksTypeOK
  <2>6. [agent[c] EXCEPT !.conn = n, !.ready = FALSE] \in AgentRecord BY <1>1, Zenon DEF AgentRecord
  <2>7. agent' = [agent EXCEPT ![c] = [agent[c] EXCEPT !.conn = n, !.ready = FALSE]]
    BY <1>1, <2>1, Zenon DEF AgentTypeOK, AgentRecord
  <2>8. agent' \in [Cluster -> AgentRecord] BY <2>6, <2>7 DEF AgentTypeOK
  <2> QED BY <1>3, <2>5, <2>8, Zenon
          DEF connect_to_coordinator, AgentsTyped, AgentTypeOK, LocalsMine, historyVars
<1>4. CASE agent_disconnect(c)
  <2>1. agent[c].conn \in Conn BY <1>1, <1>4 DEF agent_disconnect, AgentRecord
  <2>2. link' \in [Conn -> Link] BY <1>2, <1>4, <2>1 DEF agent_disconnect, LinksTypeOK
  <2>3. agent' = [agent EXCEPT ![c].conn = NoConn, ![c].ready = FALSE] BY <1>4 DEF agent_disconnect
  <2>4. [agent[c] EXCEPT !.conn = NoConn, !.ready = FALSE] \in AgentRecord BY <1>1, Zenon DEF AgentRecord
  <2>5. agent' = [agent EXCEPT ![c] = [agent[c] EXCEPT !.conn = NoConn, !.ready = FALSE]]
    BY <1>1, <2>3, Zenon DEF AgentTypeOK, AgentRecord
  <2>6. agent' \in [Cluster -> AgentRecord] BY <2>4, <2>5 DEF AgentTypeOK
  <2> QED BY <1>4, <2>2, <2>6
          DEF agent_disconnect, AgentsTyped, AgentTypeOK, LocalsMine, historyVars
<1>5. CASE handshake_deadline(c)
  <2>1. agent[c].conn \in Conn BY <1>1, <1>5 DEF handshake_deadline, AgentRecord
  <2>2. link' \in [Conn -> Link] BY <1>2, <1>5, <2>1 DEF handshake_deadline, LinksTypeOK
  <2> QED BY <1>5, <2>2 DEF handshake_deadline, AgentsTyped, AgentTypeOK, LocalsMine, agentVars
<1> QED BY <1>3, <1>4, <1>5

(* The requests of the local operator, and the ticks, keep the types.        *)
LEMMA LocalOperatorTypes ==
  ASSUME LinksTypeOK, AgentTypeOK, LocalsMine, NEW c \in Cluster,
         \/ \E s \in {"Active", "Suspended"} : set_cluster_state(c, s)
         \/ withdraw_locally(c) \/ restore_locally(c)
         \/ \E g \in Grant : fence_local_grant(c, g)
         \/ bump_generation(c) \/ set_policy_generation(c) \/ agent_tick(c)
  PROVE  AgentsTyped'
<1> USE DEF historyVars
<1>1. agent[c] \in AgentRecord /\ agent[c].id \in Identity BY DEF AgentTypeOK, AgentRecord
<1>2. "Fenced" \in GrantState BY DEF GrantState
<1>3. ASSUME NEW s \in {"Active", "Suspended"}, set_cluster_state(c, s) PROVE AgentsTyped'
  <2> DEFINE a == [agent[c] EXCEPT !.state = s]
  <2>1. a \in AgentRecord BY <1>1 DEF AgentRecord, ClusterState
  <2>2. /\ agent' = [agent EXCEPT ![c] = a] /\ reevaluate_enforcement(a, c)
        /\ report_if_ready(c, a) /\ UNCHANGED <<accepted, historyVars>>
    BY <1>3 DEF set_cluster_state
  <2> HIDE DEF a
  <2> QED BY <2>1, <2>2, Reevaluates, Reports DEF AgentsTyped, AgentTypeOK
<1>4. CASE withdraw_locally(c)
  <2> DEFINE a == [agent[c] EXCEPT !.withdrawn = TRUE]
  <2>1. a \in AgentRecord BY <1>1, Zenon DEF AgentRecord
  <2>2. /\ agent' = [agent EXCEPT ![c] = a] /\ reevaluate_enforcement(a, c)
        /\ link' = (IF a.ready THEN send(c, link, Withdraw(a.id)) ELSE link)
        /\ UNCHANGED <<accepted, historyVars>>
    BY <1>4 DEF withdraw_locally
  <2> HIDE DEF a
  <2>3. Withdraw(a.id) \in ToCoord BY <2>1 DEF Withdraw, ToCoord, AgentRecord
  <2>4. link' \in [Conn -> Link] BY <2>2, <2>3, AgentSends DEF LinksTypeOK
  <2> QED BY <2>1, <2>2, <2>4, Reevaluates DEF AgentsTyped, AgentTypeOK
<1>5. CASE restore_locally(c)
  <2>1. [agent[c] EXCEPT !.withdrawn = FALSE] \in AgentRecord BY <1>1, Zenon DEF AgentRecord
  <2> QED BY <1>5, <2>1 DEF restore_locally, AgentsTyped, AgentTypeOK, LocalsMine, LinksTypeOK
<1>6. ASSUME NEW g \in Grant, fence_local_grant(c, g) PROVE AgentsTyped'
  <2>1. /\ local' = set_local(c, {g}, "Fenced")
        /\ UNCHANGED <<link, agent, accepted, historyVars>>
    BY <1>6 DEF fence_local_grant
  <2>2. \A h \in {g} \cap Grant : local[c][h].state # "None"
    BY <1>6 DEF fence_local_grant, held_locally
  <2>3. local' \in [Cluster -> [Grant -> GrantRecord]] /\ LocalsMine'
    BY <1>2, <2>1, <2>2, SetLocal, Zenon
  <2> QED BY <2>1, <2>3, Zenon DEF AgentsTyped, AgentTypeOK, LinksTypeOK
<1>7. CASE bump_generation(c)
  <2> DEFINE id == [agent[c].id EXCEPT !.gen = agent[c].id.gen + 1]
             a == [agent[c] EXCEPT !.id = id]
             G == {g \in Grant : \/ usable_state(local[c][g])
                                 \/ /\ local[c][g].state \in {"Prepared", "Indeterminate"}
                                    /\ local[c][g].term # a.id.inc}
  <2>1. id \in Identity BY <1>1 DEF Identity
  <2>2. /\ agent' = [agent EXCEPT ![c] = a] /\ local' = set_local(c, G, "Fenced")
        /\ report_if_ready(c, a) /\ UNCHANGED <<accepted, historyVars>>
    BY <1>7 DEF bump_generation
  <2>3. \A g \in G \cap Grant : local[c][g].state # "None" BY DEF usable_state
  <2> HIDE DEF id, G
  <2>4. a \in AgentRecord BY <1>1, <2>1 DEF AgentRecord
  <2> HIDE DEF a
  <2>5. local' \in [Cluster -> [Grant -> GrantRecord]] /\ LocalsMine'
    BY <1>2, <2>2, <2>3, SetLocal
  <2> QED BY <2>2, <2>4, <2>5, Reports DEF AgentsTyped, AgentTypeOK
<1>8. CASE set_policy_generation(c)
  <2> DEFINE id == [agent[c].id EXCEPT !.pol = agent[c].id.pol + 1]
             a == [agent[c] EXCEPT !.id = id]
  <2>1. id \in Identity BY <1>1 DEF Identity
  <2>2. /\ agent' = [agent EXCEPT ![c] = a] /\ reevaluate_enforcement(a, c)
        /\ report_if_ready(c, a) /\ UNCHANGED <<accepted, historyVars>>
    BY <1>8 DEF set_policy_generation
  <2> HIDE DEF id
  <2>3. a \in AgentRecord BY <1>1, <2>1 DEF AgentRecord
  <2> HIDE DEF a
  <2> QED BY <2>2, <2>3, Reevaluates, Reports DEF AgentsTyped, AgentTypeOK
<1>9. CASE agent_tick(c)
  BY <1>9, Reevaluates DEF agent_tick, AgentsTyped, AgentTypeOK, LinksTypeOK
<1> QED BY <1>3, <1>4, <1>5, <1>6, <1>7, <1>8, <1>9

(* A crash and a new incarnation of an agent keep the types.                 *)
LEMMA AgentCrashTypes ==
  ASSUME LinksTypeOK, AgentTypeOK, LocalsMine, NEW c \in Cluster,
         agent_crash(c) \/ \E n \in Nat : agent_begin_incarnation(c, n)
  PROVE  AgentsTyped'
<1> USE DEF historyVars
<1>1. agent[c] \in AgentRecord /\ agent[c].id \in Identity BY DEF AgentTypeOK, AgentRecord
<1>2. CASE agent_crash(c)
  <2> DEFINE a == [agent[c] EXCEPT !.up = FALSE, !.conn = NoConn, !.ready = FALSE, !.cterm = 0]
  <2>1. a \in AgentRecord BY <1>1, Zenon DEF AgentRecord
  <2>2. agent' = [agent EXCEPT ![c] = a] BY <1>2 DEF agent_crash
  <2> HIDE DEF a
  <2>3. \A n \in Conn : close_agent(link[n]) \in Link BY LinkReads DEF LinksTypeOK
  <2>4. link' \in [Conn -> Link] BY <1>2, <2>3 DEF agent_crash, LinksTypeOK
  <2>5. UNCHANGED <<accepted, local, historyVars>> BY <1>2 DEF agent_crash
  <2> QED BY <2>1, <2>2, <2>4, <2>5 DEF AgentsTyped, AgentTypeOK, LocalsMine
<1>3. ASSUME NEW n \in Nat, agent_begin_incarnation(c, n) PROVE AgentsTyped'
  <2> DEFINE gen == IF n = agent[c].id.gen THEN agent[c].id.gen + 1 ELSE n
             id == [agent[c].id EXCEPT !.inc = agent[c].id.inc + 1, !.gen = gen]
             a == [agent[c] EXCEPT !.up = TRUE, !.id = id]
             G == {g \in Grant : local[c][g].state \in
                     {"Active", "Committed", "Prepared", "Preparing", "Indeterminate"}}
  <2>1. gen \in Nat /\ agent[c].id.inc + 1 \in Nat BY <1>1 DEF Identity
  <2>2. id \in Identity BY <1>1, <2>1, Zenon DEF Identity
  <2>3. /\ agent' = [agent EXCEPT ![c] = a]
        /\ local' = set_local(c, G, "Fenced")
        /\ UNCHANGED <<link, accepted, historyVars>>
    BY <1>3, Zenon DEF agent_begin_incarnation
  <2>4. \A g \in G \cap Grant : local[c][g].state # "None" OBVIOUS
  <2> HIDE DEF id, G
  <2>5. a \in AgentRecord BY <1>1, <2>2, Zenon DEF AgentRecord
  <2> HIDE DEF a
  <2>6. "Fenced" \in GrantState BY DEF GrantState
  <2>7. local' \in [Cluster -> [Grant -> GrantRecord]] /\ LocalsMine'
    BY <2>3, <2>4, <2>6, SetLocal
  <2> QED BY <2>3, <2>5, <2>7 DEF AgentsTyped, AgentTypeOK, LinksTypeOK
<1> QED BY <1>2, <1>3

(***************************************************************************)
(* The coordinator: its records.                                           *)
(***************************************************************************)

(* What store_.append writes for the grants of a step are grant records.     *)
LEMMA Persists ==
  ASSUME persist_grants, grant' \in [Grant -> GrantRecord], stored \in [Grant -> GrantRecord]
  PROVE  stored' \in [Grant -> GrantRecord]
BY DEF persist_grants

(* Releasing counters never takes a reservation or an in-use count below     *)
(* zero.                                                                     *)
LEMMA Releases ==
  ASSUME NEW cl \in [Cluster -> ClusterRecord], NEW rv \in [Grant -> [Cluster -> Nat]], NEW G
  PROVE  /\ release_counters(cl, rv, G) \in [Cluster -> ClusterRecord]
         /\ release_reservations(rv, G) \in [Grant -> [Cluster -> Nat]]
<1>1. \A a \in Nat : \A b : minus(a, b) \in Nat BY DEF minus
<1>2. \A c \in Cluster : minus(cl[c].reserved, held(rv, G, c)) \in Nat BY <1>1 DEF ClusterRecord
<1>3. release_counters(cl, rv, G) \in [Cluster -> ClusterRecord]
  BY <1>2 DEF release_counters, ClusterRecord
<1> QED BY <1>3 DEF release_reservations

RegistryTyped ==
  /\ cluster \in [Cluster -> ClusterRecord]
  /\ contract \in [Contract -> ContractRecord]
  /\ grant \in [Grant -> GrantRecord]
  /\ stored \in [Grant -> GrantRecord]
  /\ resv \in [Grant -> [Cluster -> Nat]]

(* fence_cluster and its fence plan leave a well-typed registry, contracts,  *)
(* grants and reservations.                                                  *)
LEMMA FenceTypes ==
  ASSUME CoordTypeOK, NEW c, NEW closed \in {"Fenced", "Withdrawn"},
         NEW cl \in [Cluster -> ClusterRecord], fence_cluster(c, closed, cl)
  PROVE  RegistryTyped'
<1> USE DEF CoordTypeOK
<1>1. grant' \in [Grant -> GrantRecord] BY SetState DEF fence_cluster, GrantState
<1>2. stored' \in [Grant -> GrantRecord] BY <1>1, Persists DEF fence_cluster
<1>3. contract' \in [Contract -> ContractRecord]
  BY Zenon DEF fence_cluster, ContractRecord, ContractState
<1>4. cluster' \in [Cluster -> ClusterRecord] /\ resv' \in [Grant -> [Cluster -> Nat]]
  BY Releases, Zenon DEF fence_cluster
<1> QED BY <1>1, <1>2, <1>3, <1>4 DEF RegistryTyped

(* The fences a fence plan sends go to well-formed links.                    *)
LEMMA FenceBroadcasts ==
  ASSUME NEW lk \in [Conn -> Link], NEW c
  PROVE  broadcast_fence(lk, fenced_by(c)) \in [Conn -> Link]
BY Broadcasts DEF fenced_by

(* The HelloAck, Fence and StatusRequest of on_hello go to well-formed       *)
(* links.                                                                    *)
LEMMA Greetings ==
  ASSUME CoordTypeOK, NEW lk \in [Conn -> Link], NEW n \in Conn, NEW ok \in BOOLEAN,
         NEW G \in SUBSET Grant
  PROVE  greet(lk, n, ok, G) \in [Conn -> Link]
<1> DEFINE dropped == IF G = {} THEN <<>> ELSE <<Fence(G)>>
<1>1. HelloAck(ok, term) \in ToAgent /\ StatusRequest \in ToAgent /\ Fence(G) \in ToAgent
  BY DEF ToAgent, HelloAck, StatusRequest, Fence, CoordTypeOK
<1>2. <<HelloAck(ok, term)>> \in Seq(ToAgent) /\ <<StatusRequest>> \in Seq(ToAgent)
      /\ dropped \in Seq(ToAgent) BY <1>1
<1> HIDE DEF dropped
<1>3. <<HelloAck(ok, term)>> \o dropped \in Seq(ToAgent) BY <1>2, ConcatProperties
<1>4. (<<HelloAck(ok, term)>> \o dropped) \o <<StatusRequest>> \in Seq(ToAgent)
  BY <1>2, <1>3, ConcatProperties
<1>5. to_agent(lk[n], (<<HelloAck(ok, term)>> \o dropped) \o <<StatusRequest>>) \in Link
  BY <1>4, LinkWrites, Zenon
<1> QED BY <1>5 DEF greet, dropped

(* on_hello opens a well-typed session.                                      *)
LEMMA OpenSessions ==
  ASSUME CoordTypeOK, LinksTypeOK, NEW n \in Conn, NEW id \in Identity,
         open_session(n, link[n].owner, id)
  PROVE  session' \in [Conn -> PeerSession] /\ greeted' \in Nat
<1>1. link[n].owner \in Cluster \cup {NoCluster} BY DEF LinksTypeOK, Link
<1>2. [on |-> TRUE, cluster |-> link[n].owner, id |-> id, since |-> greeted + 1] \in PeerSession
  BY <1>1 DEF PeerSession, CoordTypeOK
<1> QED BY <1>2 DEF open_session, CoordTypeOK

(* The digest of what a cluster reports is a digest.                         *)
LEMMA DigestTypes ==
  ASSUME NEW id \in Identity, NEW s \in ClusterState
  PROVE  digest_of(id, s) \in Digest
BY DEF digest_of, Digest

(* The absent cluster record is a record.                                    *)
LEMMA NoClusterTypes == NoClusterRecord \in ClusterRecord /\ NoIdentity \in Identity
BY DEF NoClusterRecord, ClusterRecord, NoDigest, digest_of, Digest, NoIdentity, Identity,
       ClusterState

(* Changes of one field of a cluster's record. *)
LEMMA ClusterEdits ==
  ASSUME NEW cl \in [Cluster -> ClusterRecord], NEW c
  PROVE  /\ \A p \in Nat : [cl EXCEPT ![c].id.pol = p] \in [Cluster -> ClusterRecord]
         /\ \A x \in Nat : [cl EXCEPT ![c].conflict = FALSE, ![c].id.gen = x]
                             \in [Cluster -> ClusterRecord]
         /\ \A b \in BOOLEAN : /\ [cl EXCEPT ![c].withdrawn = b] \in [Cluster -> ClusterRecord]
                               /\ [cl EXCEPT ![c].conflict = b] \in [Cluster -> ClusterRecord]
         /\ \A s \in ClusterState : [cl EXCEPT ![c].state = s] \in [Cluster -> ClusterRecord]
<1>1. ASSUME NEW p \in Nat PROVE [cl EXCEPT ![c].id.pol = p] \in [Cluster -> ClusterRecord]
  <2>1. CASE c \in Cluster
    <3>1. cl[c] \in ClusterRecord /\ cl[c].id \in Identity BY <2>1 DEF ClusterRecord
    <3>2. [cl[c].id EXCEPT !.pol = p] \in Identity BY <3>1 DEF Identity
    <3>3. [cl[c] EXCEPT !.id = [cl[c].id EXCEPT !.pol = p]] \in ClusterRecord
      BY <3>1, <3>2 DEF ClusterRecord
    <3> QED BY <3>3, Zenon
  <2>2. CASE c \notin Cluster BY <2>2, Zenon
  <2> QED BY <2>1, <2>2
<1>2. ASSUME NEW x \in Nat
      PROVE  [cl EXCEPT ![c].conflict = FALSE, ![c].id.gen = x] \in [Cluster -> ClusterRecord]
  <2>1. CASE c \in Cluster
    <3>1. cl[c] \in ClusterRecord /\ cl[c].id \in Identity BY <2>1 DEF ClusterRecord
    <3>2. [cl[c].id EXCEPT !.gen = x] \in Identity BY <3>1 DEF Identity
    <3>3. [cl[c] EXCEPT !.conflict = FALSE, !.id = [cl[c].id EXCEPT !.gen = x]] \in ClusterRecord
      BY <3>1, <3>2, Zenon DEF ClusterRecord
    <3>4. [cl EXCEPT ![c].conflict = FALSE, ![c].id.gen = x] =
          [cl EXCEPT ![c] = [cl[c] EXCEPT !.conflict = FALSE, !.id = [cl[c].id EXCEPT !.gen = x]]]
      BY <2>1, <3>1, Zenon DEF ClusterRecord
    <3> QED BY <3>3, <3>4, Zenon
  <2>2. CASE c \notin Cluster BY <2>2, Zenon
  <2> QED BY <2>1, <2>2
<1>3. ASSUME NEW b \in BOOLEAN
      PROVE  /\ [cl EXCEPT ![c].withdrawn = b] \in [Cluster -> ClusterRecord]
             /\ [cl EXCEPT ![c].conflict = b] \in [Cluster -> ClusterRecord]
  BY Zenon DEF ClusterRecord
<1>4. ASSUME NEW s \in ClusterState PROVE [cl EXCEPT ![c].state = s] \in [Cluster -> ClusterRecord]
  BY Zenon DEF ClusterRecord
<1> QED BY <1>1, <1>2, <1>3, <1>4, Zenon

(***************************************************************************)
(* The coordinator's handlers.                                             *)
(***************************************************************************)
CoordinatorTyped == link \in [Conn -> Link] /\ CoordTypeOK

(* on_hello keeps the types, on each of its outcomes.                        *)
LEMMA HelloTypes ==
  ASSUME LinksTypeOK, CoordTypeOK, NEW n \in Conn, on_hello(n)
  PROVE  CoordinatorTyped'
<1> DEFINE c == link[n].owner
           m == msg(n)
<1>1. link[n].toCoord # <<>> /\ m.type = "Hello"
  BY Zenon DEF on_hello, on_hello_refused, on_hello_registers, on_hello_reincarnates,
         on_hello_advances_policy, on_hello_accepts, recv, msg
<1>2. read(n) \in [Conn -> Link] /\ m \in ToCoord BY <1>1, Frames
<1>3. m.id \in Identity /\ m.state \in ClusterState BY <1>1, <1>2, ToCoordFields
<1>4. digest_of(m.id, m.state) \in Digest BY <1>3, DigestTypes
<1> HIDE DEF m
<1>5. CASE on_hello_refused(n)
  <2> DEFINE a == HelloAck(FALSE, term)
  <2>1. a \in ToAgent BY DEF ToAgent, HelloAck, CoordTypeOK
  <2> HIDE DEF a
  <2>2. to_agent(read(n)[n], <<a>>) \in Link BY <1>2, <2>1, OneElement, LinkWrites, Zenon
  <2>3. link' \in [Conn -> Link] BY <1>2, <1>5, <2>2 DEF on_hello_refused, a
  <2> QED BY <1>5, <2>3 DEF on_hello_refused, CoordinatorTyped, CoordTypeOK, coordVars
<1>6. CASE on_hello_registers(n)
  <2>1. link' \in [Conn -> Link] BY <1>2, <1>6, Greetings, Zenon DEF on_hello_registers
  <2>2. session' \in [Conn -> PeerSession] /\ greeted' \in Nat
    BY <1>3, <1>6, OpenSessions DEF on_hello_registers, m
  <2>3. [NoClusterRecord EXCEPT !.known = TRUE, !.id = m.id, !.digest = digest_of(m.id, m.state)]
          \in ClusterRecord BY <1>3, <1>4, NoClusterTypes, Zenon DEF ClusterRecord
  <2>4. cluster' \in [Cluster -> ClusterRecord]
    BY <1>6, <2>3, Zenon DEF on_hello_registers, CoordTypeOK, m
  <2> QED BY <1>6, <2>1, <2>2, <2>4, Zenon DEF on_hello_registers, CoordinatorTyped, CoordTypeOK
<1>7. CASE on_hello_reincarnates(n)
  <2> DEFINE id == [m.id EXCEPT !.pol = cluster[c].id.pol]
             r == [cluster[c] EXCEPT !.id = id, !.digest = digest_of(m.id, m.state),
                                     !.conflict = FALSE]
             cl == [cluster EXCEPT ![c] = r]
  <2>1. cl \in [Cluster -> ClusterRecord]
    <3>1. CASE c \in Cluster
      <4>1. cluster[c] \in ClusterRecord BY <3>1 DEF CoordTypeOK
      <4>2. id \in Identity BY <1>3, <4>1 DEF ClusterRecord, Identity
      <4> HIDE DEF id
      <4>3. r \in ClusterRecord BY <1>4, <4>1, <4>2, Zenon DEF ClusterRecord
      <4> HIDE DEF r
      <4> QED BY <4>3, Zenon DEF CoordTypeOK
    <3>2. CASE c \notin Cluster BY <3>2, Zenon DEF CoordTypeOK
    <3> QED BY <3>1, <3>2
  <2>2. fence_cluster(c, "Fenced", cl) BY <1>7 DEF on_hello_reincarnates, m
  <2> HIDE DEF cl
  <2>3. RegistryTyped' BY <2>1, <2>2, FenceTypes
  <2>4. session' \in [Conn -> PeerSession] /\ greeted' \in Nat
    BY <1>3, <1>7, OpenSessions DEF on_hello_reincarnates, m
  <2>5. broadcast_fence(read(n), fenced_by(c)) \in [Conn -> Link] BY <1>2, FenceBroadcasts
  <2>6. link' \in [Conn -> Link] BY <1>7, <2>5, Greetings, Zenon DEF on_hello_reincarnates
  <2> QED BY <1>7, <2>3, <2>4, <2>6, Zenon
          DEF on_hello_reincarnates, CoordinatorTyped, CoordTypeOK, RegistryTyped
<1>8. CASE on_hello_advances_policy(n)
  <2> DEFINE cl == [cluster EXCEPT ![c].id.pol = m.id.pol]
  <2>1. cl \in [Cluster -> ClusterRecord] BY <1>3, ClusterEdits, Zenon DEF CoordTypeOK, Identity
  <2>2. fence_cluster(c, "Fenced", cl) BY <1>8 DEF on_hello_advances_policy, m
  <2> HIDE DEF cl
  <2>3. RegistryTyped' BY <2>1, <2>2, FenceTypes
  <2>4. session' \in [Conn -> PeerSession] /\ greeted' \in Nat
    BY <1>3, <1>8, OpenSessions DEF on_hello_advances_policy, m
  <2>5. broadcast_fence(read(n), fenced_by(c)) \in [Conn -> Link] BY <1>2, FenceBroadcasts
  <2>6. link' \in [Conn -> Link] BY <1>8, <2>5, Greetings, Zenon DEF on_hello_advances_policy
  <2> QED BY <1>8, <2>3, <2>4, <2>6, Zenon
          DEF on_hello_advances_policy, CoordinatorTyped, CoordTypeOK, RegistryTyped
<1>9. CASE on_hello_accepts(n)
  <2>1. link' \in [Conn -> Link] BY <1>2, <1>9, Greetings, Zenon DEF on_hello_accepts
  <2>2. session' \in [Conn -> PeerSession] /\ greeted' \in Nat
    BY <1>3, <1>9, OpenSessions, Zenon DEF on_hello_accepts, m
  <2> QED BY <1>9, <2>1, <2>2, Zenon DEF on_hello_accepts, CoordinatorTyped, CoordTypeOK
<1> QED BY <1>5, <1>6, <1>7, <1>8, <1>9 DEF on_hello

(* on_report_cluster keeps the types, on each of its outcomes.               *)
LEMMA ReportTypes ==
  ASSUME LinksTypeOK, CoordTypeOK, NEW n \in Conn, on_report_cluster(n)
  PROVE  CoordinatorTyped'
<1> DEFINE c == session[n].cluster
           m == msg(n)
<1>1. link[n].toCoord # <<>> /\ m.type = "ReportCluster"
  BY Zenon DEF on_report_cluster, on_report_dropped, on_report_conflicts, on_report_accepted,
         recv_in_session, recv, msg
<1>2. read(n) \in [Conn -> Link] /\ m \in ToCoord BY <1>1, Frames
<1>3. m.id \in Identity /\ m.state \in ClusterState /\ m.withdrawn \in BOOLEAN
  BY <1>1, <1>2, ToCoordFields
<1>4. digest_of(m.id, m.state) \in Digest BY <1>3, DigestTypes
<1> HIDE DEF m
<1>5. CASE on_report_dropped(n)
  BY <1>2, <1>5, Zenon DEF on_report_dropped, CoordinatorTyped, CoordTypeOK, coordVars
<1>6. CASE on_report_conflicts(n)
  <2> DEFINE cl == [cluster EXCEPT ![c].conflict = TRUE]
  <2>1. cl \in [Cluster -> ClusterRecord] BY ClusterEdits, Zenon DEF CoordTypeOK
  <2>2. fence_cluster(c, "Fenced", cl) BY <1>6 DEF on_report_conflicts
  <2> HIDE DEF cl
  <2>3. RegistryTyped' BY <2>1, <2>2, FenceTypes
  <2>4. link' \in [Conn -> Link] BY <1>2, <1>6, FenceBroadcasts DEF on_report_conflicts
  <2>5. session' \in [Conn -> PeerSession]
    <3>1. session[n] \in PeerSession /\ session[n].id \in Identity BY DEF CoordTypeOK, PeerSession
    <3>2. [session[n].id EXCEPT !.gen = m.id.gen] \in Identity BY <1>3, <3>1 DEF Identity
    <3>3. [session[n] EXCEPT !.id = [session[n].id EXCEPT !.gen = m.id.gen]] \in PeerSession
      BY <3>1, <3>2 DEF PeerSession
    <3> QED BY <1>6, <3>3 DEF on_report_conflicts, CoordTypeOK, m
  <2> QED BY <1>6, <2>3, <2>4, <2>5
          DEF on_report_conflicts, CoordinatorTyped, CoordTypeOK, RegistryTyped
<1>7. CASE on_report_accepted(n)
  <2> DEFINE cl == [cluster EXCEPT ![c] = reported(m)]
  <2>1. reported(m) \in ClusterRecord BY <1>3, <1>4, Zenon DEF reported, ClusterRecord
  <2>2. cl \in [Cluster -> ClusterRecord] BY <2>1, Zenon DEF CoordTypeOK
  <2> HIDE DEF cl
  <2>3. session' \in [Conn -> PeerSession]
    <3> DEFINE id == [session[n].id EXCEPT !.gen = m.id.gen, !.pol = m.id.pol]
    <3>1. session[n] \in PeerSession /\ session[n].id \in Identity BY DEF CoordTypeOK, PeerSession
    <3>2. id \in Identity BY <1>3, <3>1, Zenon DEF Identity
    <3>3. [session[n] EXCEPT !.id = id] \in PeerSession BY <3>1, <3>2 DEF PeerSession
    <3>4. [session EXCEPT ![n].id.gen = m.id.gen, ![n].id.pol = m.id.pol] =
          [session EXCEPT ![n] = [session[n] EXCEPT !.id = id]]
      BY <3>1, Zenon DEF PeerSession, Identity, CoordTypeOK
    <3> HIDE DEF id
    <3> QED BY <1>7, <3>3, <3>4, Zenon DEF on_report_accepted, CoordTypeOK, m
  <2>4. RegistryTyped' /\ link' \in [Conn -> Link]
    <3>1. CASE m.id.pol > cluster[c].id.pol
      <4>1. fence_cluster(c, "Fenced", cl) /\ link' = broadcast_fence(read(n), fenced_by(c))
        BY <1>7, <3>1 DEF on_report_accepted, m, cl
      <4> QED BY <1>2, <2>2, <4>1, FenceTypes, FenceBroadcasts
    <3>2. CASE ~(m.id.pol > cluster[c].id.pol)
      <4>1. cluster' = cl /\ link' = read(n) /\ UNCHANGED <<contract, grant, stored, resv>>
        BY <1>7, <3>2 DEF on_report_accepted, m, cl
      <4> QED BY <1>2, <2>2, <4>1 DEF RegistryTyped, CoordTypeOK
    <3> QED BY <3>1, <3>2
  <2> QED BY <1>7, <2>3, <2>4
          DEF on_report_accepted, CoordinatorTyped, CoordTypeOK, RegistryTyped
<1> QED BY <1>5, <1>6, <1>7 DEF on_report_cluster

(* on_contract_consent keeps the types.                                      *)
LEMMA ConsentTypes ==
  ASSUME LinksTypeOK, CoordTypeOK, NEW n \in Conn, on_contract_consent(n)
  PROVE  CoordinatorTyped'
<1> DEFINE m == msg(n)
           k == contract[m.contract]
           i == side_of(session[n].cluster, m.contract)
           new == [k EXCEPT !.consents[i] = [decision |-> m.decision, id |-> m.id]]
           r == [new EXCEPT !.state = consented_state(new, m.decision)]
<1>1. link[n].toCoord # <<>> /\ m.type = "ContractConsent"
  BY Zenon DEF on_contract_consent, recv_in_session, recv, msg
<1>2. read(n) \in [Conn -> Link] /\ m \in ToCoord BY <1>1, Frames
<1>3. m.contract \in Contract /\ m.id \in Identity /\ m.decision \in Decision
  BY <1>1, <1>2, ToCoordFields
<1>4. k \in ContractRecord BY <1>3 DEF CoordTypeOK
<1>5. [decision |-> m.decision, id |-> m.id] \in Consent BY <1>3 DEF Consent
<1>6. new \in ContractRecord BY <1>4, <1>5 DEF ContractRecord
<1>7. consented_state(new, m.decision) \in ContractState BY DEF consented_state, ContractState
<1> HIDE DEF new
<1>8. r \in ContractRecord BY <1>6, <1>7 DEF ContractRecord
<1>9. contract' = contract \/ contract' = [contract EXCEPT ![m.contract] = r]
  BY Zenon DEF on_contract_consent, new
<1> HIDE DEF r
<1>10. contract' \in [Contract -> ContractRecord] BY <1>3, <1>8, <1>9 DEF CoordTypeOK
<1> QED BY <1>2, <1>10, Zenon DEF on_contract_consent, CoordinatorTyped, CoordTypeOK

(***************************************************************************)
(* The grant flow.                                                         *)
(***************************************************************************)
LEMMA NoFlowTypes == NoFlow \in PendingGrant
BY DEF NoFlow, PendingGrant

(* Erasing entries of pending_ leaves pending flows.                         *)
LEMMA EndFlows ==
  ASSUME CoordTypeOK, NEW G
  PROVE  end_flows(G) \in [Grant -> PendingGrant]
BY NoFlowTypes DEF end_flows, CoordTypeOK

(* on_grant_prepared keeps the types, on each of its outcomes.               *)
LEMMA PreparedTypes ==
  ASSUME LinksTypeOK, CoordTypeOK, NEW n \in Conn, on_grant_prepared(n)
  PROVE  CoordinatorTyped'
<1> DEFINE m == msg(n)
           g == m.grant
<1>1. link[n].toCoord # <<>> /\ m.type = "GrantPrepared"
  BY Zenon DEF on_grant_prepared, on_grant_prepared_dropped, on_grant_prepared_refused,
         on_grant_prepared_accepted, recv_in_session, recv, msg
<1>2. read(n) \in [Conn -> Link] /\ m \in ToCoord BY <1>1, Frames
<1>3. g \in Grant BY <1>1, <1>2, ToCoordFields
<1>4. CASE on_grant_prepared_dropped(n)
  BY <1>2, <1>4 DEF on_grant_prepared_dropped, CoordinatorTyped, CoordTypeOK, coordVars
<1>5. CASE on_grant_prepared_refused(n)
  <2>1. grant' \in [Grant -> GrantRecord]
    BY <1>5, Aborts DEF on_grant_prepared_refused, CoordTypeOK
  <2>2. stored' \in [Grant -> GrantRecord]
    BY <1>5, <2>1, Persists, Zenon DEF on_grant_prepared_refused, CoordTypeOK
  <2>3. pending' \in [Grant -> PendingGrant] BY <1>5, EndFlows, Zenon DEF on_grant_prepared_refused
  <2> QED BY <1>2, <1>5, <2>1, <2>2, <2>3, Zenon
          DEF on_grant_prepared_refused, CoordinatorTyped, CoordTypeOK
<1>6. CASE on_grant_prepared_accepted(n)
  <2> DEFINE i == side_of(session[n].cluster, grant[g].contract)
             flow == [pending[g] EXCEPT !.prepared[i] = TRUE]
             failed == \E j \in Side : ~can_send(read(n), flow.targets[j])
             a == CommitGrant(g, grant[g].attempt)
  <2>1. pending[g] \in PendingGrant /\ grant[g] \in GrantRecord BY <1>3 DEF CoordTypeOK
  <2>2. flow \in PendingGrant BY <2>1, Zenon DEF PendingGrant
  <2>3. a \in ToAgent BY <1>3, <2>1, Zenon DEF ToAgent, CommitGrant, GrantRecord
  <2>4. flow.targets \in [Side -> Conn \cup {NoConn}] BY <2>2 DEF PendingGrant
  <2>5. pending' = [pending EXCEPT ![g] = flow] BY <1>6 DEF on_grant_prepared_accepted
  <2>6. \/ grant' = grant
        \/ grant' = set_state(grant, {g}, "Prepared")
        \/ grant' = set_state(grant, {g}, "Indeterminate")
    BY <1>6, Zenon DEF on_grant_prepared_accepted
  <2>7. link' = read(n) \/ link' = close_on(failed, send_both(read(n), flow.targets, a), n)
    BY <1>6, Zenon DEF on_grant_prepared_accepted
  <2> HIDE DEF flow, a, failed, g
  <2>8. pending' \in [Grant -> PendingGrant] BY <1>3, <2>2, <2>5 DEF CoordTypeOK
  <2>9. grant' \in [Grant -> GrantRecord] BY <2>6, SetState DEF CoordTypeOK, GrantState
  <2>10. stored' \in [Grant -> GrantRecord]
    BY <1>6, <2>9, Persists, Zenon DEF on_grant_prepared_accepted, CoordTypeOK
  <2>11. link' \in [Conn -> Link] BY <1>2, <2>3, <2>4, <2>7, Sends, Closes
  <2> QED BY <1>6, <2>8, <2>9, <2>10, <2>11, Zenon
          DEF on_grant_prepared_accepted, CoordinatorTyped, CoordTypeOK
<1> QED BY <1>4, <1>5, <1>6 DEF on_grant_prepared

(* on_withdraw keeps the types.                                              *)
LEMMA WithdrawTypes ==
  ASSUME LinksTypeOK, CoordTypeOK, NEW n \in Conn, on_withdraw(n)
  PROVE  CoordinatorTyped'
<1> DEFINE c == session[n].cluster
           cl == [cluster EXCEPT ![c].withdrawn = TRUE]
<1>1. link[n].toCoord # <<>> BY DEF on_withdraw, recv_in_session, recv
<1>2. read(n) \in [Conn -> Link] BY <1>1, Frames
<1>3. cl \in [Cluster -> ClusterRecord] BY ClusterEdits, Zenon DEF CoordTypeOK
<1>4. \/ fence_cluster(c, "Withdrawn", cl) /\ link' = broadcast_fence(read(n), fenced_by(c))
      \/ link' = read(n) /\ UNCHANGED <<cluster, contract, grant, stored, resv>>
  BY DEF on_withdraw
<1> HIDE DEF cl
<1>5. RegistryTyped' /\ link' \in [Conn -> Link]
  BY <1>2, <1>3, <1>4, FenceTypes, FenceBroadcasts, Zenon DEF RegistryTyped, CoordTypeOK
<1> QED BY <1>5 DEF on_withdraw, CoordinatorTyped, CoordTypeOK, RegistryTyped

(* handle_disconnect keeps the types.                                        *)
LEMMA DisconnectTypes ==
  ASSUME LinksTypeOK, CoordTypeOK, NEW n \in Conn, handle_disconnect(n)
  PROVE  CoordinatorTyped'
<1>1. link' \in [Conn -> Link]
  <2>1. close_coord(link[n]) \in Link BY LinkReads DEF LinksTypeOK
  <2> QED BY <2>1 DEF handle_disconnect, LinksTypeOK
<1>2. NoSession \in PeerSession BY NoClusterTypes DEF NoSession, PeerSession
<1>3. session' \in [Conn -> PeerSession] BY <1>2 DEF handle_disconnect, CoordTypeOK
<1>4. CASE session[n].on
  <2>1. grant' \in [Grant -> GrantRecord]
    BY <1>4, SetState DEF handle_disconnect, CoordTypeOK, GrantState
  <2>2. stored' \in [Grant -> GrantRecord]
    BY <1>4, <2>1, Persists DEF handle_disconnect, CoordTypeOK
  <2>3. pending' \in [Grant -> PendingGrant]
    <3> DEFINE t(g) == [i \in Side |-> IF pending[g].targets[i] = n THEN NoConn
                                      ELSE pending[g].targets[i]]
    <3>1. pending' = [g \in Grant |-> [pending[g] EXCEPT !.targets = t(g)]]
      BY <1>4 DEF handle_disconnect
    <3>2. \A g \in Grant : pending[g] \in PendingGrant BY DEF CoordTypeOK
    <3>3. \A g \in Grant : t(g) \in [Side -> Conn \cup {NoConn}] BY <3>2 DEF PendingGrant
    <3> HIDE DEF t
    <3>4. \A g \in Grant : [pending[g] EXCEPT !.targets = t(g)] \in PendingGrant
      BY <3>2, <3>3 DEF PendingGrant
    <3> QED BY <3>1, <3>4, Zenon
  <2> QED BY <1>1, <1>3, <2>1, <2>2, <2>3 DEF handle_disconnect, CoordinatorTyped, CoordTypeOK
<1>5. CASE ~session[n].on
  BY <1>1, <1>3, <1>5 DEF handle_disconnect, CoordinatorTyped, CoordTypeOK
<1> QED BY <1>4, <1>5

(* The terms of a contract not yet proposed are terms.                       *)
LEMMA NoTermsTypes == NoTerms \in Terms
BY NoClusterTypes DEF NoTerms, Terms

(* apply_contract_proposal keeps the types.                                  *)
LEMMA ProposalTypes ==
  ASSUME LinksTypeOK, CoordTypeOK, NEW k \in Contract, apply_contract_proposal(k)
  PROVE  CoordinatorTyped'
<1> DEFINE t == [i \in Side |-> target_for(Party[k][i])]
           terms == [i \in Side |-> cluster[Party[k][i]].id]
           p == ProposeContract(k, terms)
           r == [NoContract EXCEPT !.state = "Proposed", !.terms = terms]
<1>1. terms \in Terms BY BindTypes
<1>2. t \in [Side -> Conn \cup {NoConn}] BY Targets DEF CoordTypeOK
<1>3. link' = send_one(link, t[1], p) \/ link' = send_both(link, t, p)
  BY DEF apply_contract_proposal
<1>4. contract' = [contract EXCEPT ![k] = r] BY DEF apply_contract_proposal
<1> HIDE DEF terms, t
<1>5. p \in ToAgent BY <1>1 DEF ToAgent, ProposeContract
<1>6. NoContract \in ContractRecord
  BY NoTermsTypes, NoClusterTypes DEF NoContract, ContractRecord, ContractState, NoConsent, Consent
<1>7. r \in ContractRecord BY <1>1, <1>6, Zenon DEF ContractRecord, ContractState
<1> HIDE DEF p, r
<1>8. t[1] \in Conn \cup {NoConn} BY <1>2 DEF Side
<1>9. link' \in [Conn -> Link] BY <1>2, <1>3, <1>5, <1>8, Sends DEF LinksTypeOK
<1>10. contract' \in [Contract -> ContractRecord] BY <1>4, <1>7 DEF CoordTypeOK
<1> QED BY <1>9, <1>10, Zenon DEF apply_contract_proposal, CoordinatorTyped, CoordTypeOK

(* The shared part of issuing and revalidating a grant keeps the types.      *)
LEMMA PrepareTypes ==
  ASSUME LinksTypeOK, CoordTypeOK, NEW g \in Grant, NEW r \in GrantRecord,
         r.contract \in Contract, prepare_grant(g, r)
  PROVE  /\ link' \in [Conn -> Link] /\ pending' \in [Grant -> PendingGrant]
         /\ grant' \in [Grant -> GrantRecord] /\ stored' \in [Grant -> GrantRecord]
<1> DEFINE t == [i \in Side |-> target_for(Party[r.contract][i])]
           flow == [NoFlow EXCEPT !.on = TRUE, !.targets = t]
           p == prepare_message(g, r)
<1>1. t \in [Side -> Conn \cup {NoConn}] BY Targets DEF CoordTypeOK
<1>2. contract[r.contract].terms \in Terms BY DEF CoordTypeOK, ContractRecord
<1>3. p \in ToAgent BY <1>2 DEF prepare_message, PrepareGrant, ToAgent
<1>4. \/ /\ stored' = [stored EXCEPT ![g] = r]
         /\ pending' = [pending EXCEPT ![g] = flow]
         /\ link' = send_both(link, t, p)
      \/ UNCHANGED <<stored, pending, link>>
  BY DEF prepare_grant
<1> HIDE DEF t, p
<1>5. flow \in PendingGrant BY <1>1, NoFlowTypes, Zenon DEF PendingGrant
<1> HIDE DEF flow
<1>6. link' \in [Conn -> Link] BY <1>1, <1>3, <1>4, Sends DEF LinksTypeOK
<1>7. pending' \in [Grant -> PendingGrant] /\ stored' \in [Grant -> GrantRecord]
  BY <1>4, <1>5, Zenon DEF CoordTypeOK
<1>8. grant' \in [Grant -> GrantRecord] BY DEF prepare_grant, CoordTypeOK
<1> QED BY <1>6, <1>7, <1>8

(* apply_grant_issue keeps the types.                                        *)
LEMMA IssueTypes ==
  ASSUME LinksTypeOK, CoordTypeOK, NEW g \in Grant, NEW k \in Contract, apply_grant_issue(g, k)
  PROVE  CoordinatorTyped'
<1>1. prepare_grant(g, issued(k)) BY DEF apply_grant_issue, issued
<1>2. issued(k).contract = k BY DEF issued
<1>3. /\ link' \in [Conn -> Link] /\ pending' \in [Grant -> PendingGrant]
      /\ grant' \in [Grant -> GrantRecord] /\ stored' \in [Grant -> GrantRecord]
  BY <1>1, <1>2, NewRecords, PrepareTypes
<1>4. minted' = minted + 1 /\ UNCHANGED <<term, cluster, contract, resv, session, greeted>>
  BY Zenon DEF apply_grant_issue
<1> QED BY <1>3, <1>4 DEF CoordinatorTyped, CoordTypeOK

(* apply_grant_revalidation keeps the types.                                 *)
LEMMA RevalidationTypes ==
  ASSUME LinksTypeOK, CoordTypeOK, NEW g \in Grant, apply_grant_revalidation(g),
         grant[g].state # "None" => grant[g].contract \in Contract
  PROVE  CoordinatorTyped'
<1>1. prepare_grant(g, revalidated(g)) BY DEF apply_grant_revalidation, revalidated
<1>2. revalidated(g).contract = grant[g].contract
  BY DEF revalidated, CoordTypeOK, GrantRecord
<1>3. grant[g].contract \in Contract BY DEF apply_grant_revalidation
<1>4. /\ link' \in [Conn -> Link] /\ pending' \in [Grant -> PendingGrant]
      /\ grant' \in [Grant -> GrantRecord] /\ stored' \in [Grant -> GrantRecord]
  BY <1>1, <1>2, <1>3, NewRecords, PrepareTypes
<1>5. minted' = minted + 1 /\ UNCHANGED <<term, cluster, contract, resv, session, greeted>>
  BY DEF apply_grant_revalidation
<1> QED BY <1>4, <1>5 DEF CoordinatorTyped, CoordTypeOK

(* fence_grant keeps the types.                                              *)
LEMMA FenceGrantTypes ==
  ASSUME LinksTypeOK, CoordTypeOK, NEW g \in Grant, fence_grant(g)
  PROVE  CoordinatorTyped'
<1>1. grant' \in [Grant -> GrantRecord] BY SetState DEF fence_grant, CoordTypeOK, GrantState
<1>2. stored' \in [Grant -> GrantRecord] BY <1>1, Persists DEF fence_grant, CoordTypeOK
<1>3. cluster' \in [Cluster -> ClusterRecord] /\ resv' \in [Grant -> [Cluster -> Nat]]
  BY Releases, Zenon DEF fence_grant, CoordTypeOK
<1>4. link' \in [Conn -> Link] BY Broadcasts, Zenon DEF fence_grant, LinksTypeOK
<1> QED BY <1>1, <1>2, <1>3, <1>4, Zenon DEF fence_grant, CoordinatorTyped, CoordTypeOK

(* The operator requests about one cluster keep the types.                   *)
LEMMA ClusterRequestTypes ==
  ASSUME LinksTypeOK, CoordTypeOK, NEW c \in Cluster,
         \/ withdraw_consent(c) \/ restore_consent(c) \/ upsert_policy(c) \/ delete_cluster(c)
         \/ \E gen \in Nat : apply_conflict_resolution(c, gen)
         \/ \E s \in ClusterState : set_registered_state(c, s)
         \/ \E id \in Identity : upsert_cluster(c, id, "Active")
  PROVE  CoordinatorTyped'
<1> USE DEF LinksTypeOK
<1>1. ASSUME NEW cl \in [Cluster -> ClusterRecord], NEW closed \in {"Fenced", "Withdrawn"},
             fence_cluster(c, closed, cl), link' = broadcast_fence(link, fenced_by(c)),
             UNCHANGED <<term, session, pending, minted, greeted>>
      PROVE  CoordinatorTyped'
  BY <1>1, FenceTypes, FenceBroadcasts, Zenon DEF CoordinatorTyped, CoordTypeOK, RegistryTyped
<1>2. ASSUME cluster' \in [Cluster -> ClusterRecord],
             UNCHANGED <<link, term, contract, grant, stored, resv, session, pending, minted, greeted>>
      PROVE  CoordinatorTyped'
  BY <1>2 DEF CoordinatorTyped, CoordTypeOK
<1>3. cluster \in [Cluster -> ClusterRecord] BY DEF CoordTypeOK
<1>4. CASE withdraw_consent(c)
  BY <1>1, <1>3, <1>4, ClusterEdits, Zenon DEF withdraw_consent
<1>5. CASE restore_consent(c)
  BY <1>2, <1>3, <1>5, ClusterEdits, Zenon DEF restore_consent
<1>6. CASE upsert_policy(c)
  BY <1>1, <1>3, <1>6 DEF upsert_policy
<1>7. CASE delete_cluster(c)
  <2>1. cluster' \in [Cluster -> ClusterRecord] BY <1>3, <1>7, NoClusterTypes DEF delete_cluster
  <2> QED BY <1>2, <1>7, <2>1 DEF delete_cluster
<1>8. ASSUME NEW gen \in Nat, apply_conflict_resolution(c, gen) PROVE CoordinatorTyped'
  BY <1>1, <1>3, <1>8, ClusterEdits, Zenon DEF apply_conflict_resolution
<1>9. ASSUME NEW s \in ClusterState, set_registered_state(c, s) PROVE CoordinatorTyped'
  <2> DEFINE cl == [cluster EXCEPT ![c].state = s]
  <2>1. cl \in [Cluster -> ClusterRecord] BY <1>3, ClusterEdits, Zenon
  <2>2. CASE s = "Retired" BY <1>1, <1>9, <2>1, <2>2, Zenon DEF set_registered_state
  <2>3. CASE s # "Retired" BY <1>2, <1>9, <2>1, <2>3 DEF set_registered_state
  <2> QED BY <2>2, <2>3
<1>10. ASSUME NEW id \in Identity, upsert_cluster(c, id, "Active") PROVE CoordinatorTyped'
  <2> DEFINE r == [NoClusterRecord EXCEPT !.known = TRUE, !.id = id, !.state = "Active",
                                          !.endpoint = TRUE]
  <2>1. r \in ClusterRecord BY NoClusterTypes, Zenon DEF ClusterRecord, ClusterState
  <2>2. cluster' = [cluster EXCEPT ![c] = r] BY <1>10, Zenon DEF upsert_cluster
  <2> HIDE DEF r
  <2>3. cluster' \in [Cluster -> ClusterRecord] BY <1>3, <2>1, <2>2
  <2> QED BY <1>2, <1>10, <2>3, Zenon DEF upsert_cluster
<1> QED BY <1>4, <1>5, <1>6, <1>7, <1>8, <1>9, <1>10

(***************************************************************************)
(* Crash and restart of the coordinator.                                   *)
(***************************************************************************)
LEMMA CrashTypes ==
  ASSUME LinksTypeOK, CoordTypeOK, crash \/ begin_incarnation
  PROVE  CoordinatorTyped' /\ LinksTypeOK'
<1>1. CASE crash
  <2>1. \A n \in Conn : close_coord(link[n]) \in Link BY LinkReads DEF LinksTypeOK
  <2>2. link' \in [Conn -> Link] BY <1>1, <2>1 DEF crash
  <2>3. NoSession \in PeerSession BY NoClusterTypes DEF NoSession, PeerSession
  <2>4. session' \in [Conn -> PeerSession] BY <1>1, <2>3 DEF crash
  <2>5. pending' \in [Grant -> PendingGrant] BY <1>1, NoFlowTypes DEF crash
  <2> QED BY <1>1, <2>2, <2>4, <2>5, Zenon DEF crash, CoordinatorTyped, CoordTypeOK, LinksTypeOK
<1>2. CASE begin_incarnation
  <2>1. grant' \in [Grant -> GrantRecord]
    BY <1>2, SetState DEF begin_incarnation, CoordTypeOK, GrantState
  <2>2. cluster' \in [Cluster -> ClusterRecord] /\ resv' \in [Grant -> [Cluster -> Nat]]
    BY <1>2, Releases, Zenon DEF begin_incarnation, CoordTypeOK
  <2> QED BY <1>2, <2>1, <2>2 DEF begin_incarnation, CoordinatorTyped, CoordTypeOK, LinksTypeOK
<1> QED BY <1>1, <1>2

(***************************************************************************)
(* The steps of the grant flow that count grants: the acknowledgements,    *)
(* the status report and the tick.                                         *)
(***************************************************************************)

(* A set of grants is finite.                                                *)
LEMMA FiniteGrants ==
  \A G \in SUBSET Grant : IsFiniteSet(G) /\ Cardinality(G) \in Nat
<1>1. IsFiniteSet(Grant) BY LinksAssumption, FS_Interval DEF Grant
<1> QED BY <1>1, FS_Subset, FS_CardinalityType

(* Finalising grants keeps the types.                                        *)
LEMMA FinaliseTypes ==
  ASSUME CoordTypeOK, NEW n \in Conn, NEW lk \in [Conn -> Link],
         NEW ready \in SUBSET Grant, NEW gr \in [Grant -> GrantRecord],
         NEW cl \in [Cluster -> ClusterRecord], NEW rv \in [Grant -> [Cluster -> Nat]],
         finalise_grants(ready, gr, cl, rv, n, lk), persist_grants
  PROVE  /\ grant' \in [Grant -> GrantRecord] /\ stored' \in [Grant -> GrantRecord]
         /\ pending' \in [Grant -> PendingGrant] /\ resv' \in [Grant -> [Cluster -> Nat]]
         /\ cluster' \in [Cluster -> ClusterRecord] /\ link' \in [Conn -> Link]
<1> DEFINE takes(done, bad, g, c) ==
             \/ g \in done /\ c \in parties(gr[g].contract)
             \/ g \in bad /\ c = Party[gr[g].contract][0] /\ fits(gr, cl, done \cup bad, c)
<1>1. PICK done \in SUBSET ready, bad \in SUBSET ready :
        /\ grant' = abort_grant(set_state(gr, done, "Committed"), bad)
        /\ pending' = end_flows(done \cup bad)
        /\ resv' = [g \in Grant |-> [c \in Cluster |->
             IF takes(done, bad, g, c) THEN rv[g][c] + 1 ELSE rv[g][c]]]
        /\ cluster' = [c \in Cluster |-> [cl[c] EXCEPT
             !.reserved = @ + Cardinality({g \in done \cup bad : takes(done, bad, g, c)})]]
        /\ link' = close_on(bad # {}, lk, n)
  BY Zenon DEF finalise_grants
<1> HIDE DEF takes
<1>2. set_state(gr, done, "Committed") \in [Grant -> GrantRecord] BY SetState DEF GrantState
<1>3. grant' \in [Grant -> GrantRecord] BY <1>1, <1>2, Aborts
<1>4. stored' \in [Grant -> GrantRecord] BY <1>3, Persists DEF CoordTypeOK
<1>5. pending' \in [Grant -> PendingGrant] BY <1>1, EndFlows
<1>6. resv' \in [Grant -> [Cluster -> Nat]] BY <1>1
<1>7. cluster' \in [Cluster -> ClusterRecord]
  <2>1. ASSUME NEW c \in Cluster
        PROVE  cl[c].reserved + Cardinality({g \in done \cup bad : takes(done, bad, g, c)}) \in Nat
    <3>1. {g \in done \cup bad : takes(done, bad, g, c)} \in SUBSET Grant OBVIOUS
    <3>2. Cardinality({g \in done \cup bad : takes(done, bad, g, c)}) \in Nat
      BY <3>1, FiniteGrants
    <3>3. cl[c].reserved \in Nat BY DEF ClusterRecord
    <3> QED BY <3>2, <3>3
  <2> DEFINE total(c) == cl[c].reserved + Cardinality({g \in done \cup bad : takes(done, bad, g, c)})
  <2>2. cluster' = [c \in Cluster |-> [cl[c] EXCEPT !.reserved = total(c)]] BY <1>1
  <2>3. \A c \in Cluster : total(c) \in Nat BY <2>1
  <2> HIDE DEF total
  <2> QED BY <2>2, <2>3 DEF ClusterRecord
<1>8. link' \in [Conn -> Link] BY <1>1, Closes
<1> QED BY <1>3, <1>4, <1>5, <1>6, <1>7, <1>8

(* on_grant_committed keeps the types.                                       *)
LEMMA CommittedTypes ==
  ASSUME LinksTypeOK, CoordTypeOK, NEW n \in Conn, on_grant_committed(n)
  PROVE  CoordinatorTyped'
<1> DEFINE m == msg(n)
<1>1. link[n].toCoord # <<>> /\ m.type = "GrantCommitted"
  BY Zenon DEF on_grant_committed, on_grant_committed_dropped, on_grant_committed_refused,
         on_grant_committed_installed, recv_in_session, recv, msg
<1>2. read(n) \in [Conn -> Link] /\ m \in ToCoord BY <1>1, Frames
<1>3. m.grant \in Grant BY <1>1, <1>2, ToCoordFields
<1>4. CASE on_grant_committed_dropped(n)
  BY <1>2, <1>4 DEF on_grant_committed_dropped, CoordinatorTyped, CoordTypeOK, coordVars
<1>5. CASE on_grant_committed_refused(n)
  <2>1. grant' \in [Grant -> GrantRecord]
    BY <1>5, Aborts DEF on_grant_committed_refused, CoordTypeOK
  <2>2. stored' \in [Grant -> GrantRecord]
    BY <1>5, <2>1, Persists, Zenon DEF on_grant_committed_refused, CoordTypeOK
  <2>3. pending' \in [Grant -> PendingGrant] BY <1>5, EndFlows DEF on_grant_committed_refused
  <2> QED BY <1>2, <1>5, <2>1, <2>2, <2>3, Zenon
          DEF on_grant_committed_refused, CoordinatorTyped, CoordTypeOK
<1>6. CASE on_grant_committed_installed(n)
  <2> DEFINE i == side_of(session[n].cluster, grant[m.grant].contract)
             gr == [grant EXCEPT ![m.grant].ack[i] = TRUE]
             ready == {g \in {m.grant} : both_acknowledged(gr[g]) /\ ~usable_state(gr[g])}
  <2>1. gr \in [Grant -> GrantRecord]
    <3>1. grant[m.grant] \in GrantRecord BY <1>3 DEF CoordTypeOK
    <3>2. [grant[m.grant] EXCEPT !.ack[i] = TRUE] \in GrantRecord BY <3>1, Zenon DEF GrantRecord
    <3> QED BY <3>2, Zenon DEF CoordTypeOK
  <2>2. finalise_grants(ready, gr, cluster, resv, n, read(n)) /\ persist_grants
    BY <1>6 DEF on_grant_committed_installed
  <2>3. ready \in SUBSET Grant BY <1>3
  <2> HIDE DEF gr, ready
  <2>4. /\ grant' \in [Grant -> GrantRecord] /\ stored' \in [Grant -> GrantRecord]
        /\ pending' \in [Grant -> PendingGrant] /\ resv' \in [Grant -> [Cluster -> Nat]]
        /\ cluster' \in [Cluster -> ClusterRecord] /\ link' \in [Conn -> Link]
    BY <1>2, <2>1, <2>2, <2>3, FinaliseTypes, Zenon DEF CoordTypeOK
  <2> QED BY <1>6, <2>4 DEF on_grant_committed_installed, CoordinatorTyped, CoordTypeOK
<1> QED BY <1>4, <1>5, <1>6 DEF on_grant_committed

(* on_status_report keeps the types.                                         *)
LEMMA StatusTypes ==
  ASSUME LinksTypeOK, CoordTypeOK, NEW n \in Conn, on_status_report(n)
  PROVE  CoordinatorTyped'
<1>1. link[n].toCoord # <<>> BY Zenon DEF on_status_report, recv_in_session, recv
<1>2. read(n) \in [Conn -> Link] BY <1>1, Frames
<1>3. PICK to_fence \in SUBSET Grant, acks \in SUBSET Grant, ready \in SUBSET Grant,
           told \in SUBSET Grant :
        /\ finalise_grants(ready, Settles(n, to_fence, acks),
                           release_counters(cluster, resv, to_fence),
                           release_reservations(resv, to_fence), n,
                           broadcast_fence(read(n), told))
        /\ persist_grants
  BY StatusEffect, Zenon
<1> DEFINE gr == Settles(n, to_fence, acks)
<1>4. Acked(n, acks) \in [Grant -> GrantRecord] BY Zenon DEF Acked, CoordTypeOK, GrantRecord
<1>5. gr \in [Grant -> GrantRecord] BY <1>4, SetState DEF Settles, GrantState
<1> HIDE DEF gr
<1>6. finalise_grants(ready, gr, release_counters(cluster, resv, to_fence),
                      release_reservations(resv, to_fence), n, broadcast_fence(read(n), told))
  BY <1>3 DEF gr
<1>7. /\ release_counters(cluster, resv, to_fence) \in [Cluster -> ClusterRecord]
      /\ release_reservations(resv, to_fence) \in [Grant -> [Cluster -> Nat]]
  BY Releases, Zenon DEF CoordTypeOK
<1>8. broadcast_fence(read(n), told) \in [Conn -> Link] BY <1>2, Broadcasts
<1>9. persist_grants BY <1>3
<1>10. /\ grant' \in [Grant -> GrantRecord] /\ stored' \in [Grant -> GrantRecord]
       /\ pending' \in [Grant -> PendingGrant] /\ resv' \in [Grant -> [Cluster -> Nat]]
       /\ cluster' \in [Cluster -> ClusterRecord] /\ link' \in [Conn -> Link]
  BY <1>5, <1>6, <1>7, <1>8, <1>9, FinaliseTypes, Zenon
<1> QED BY <1>10, Zenon DEF on_status_report, CoordinatorTyped, CoordTypeOK

(* The order in which tick visits a set of flows is a sequence of them.      *)
LEMMA SomeOrder ==
  ASSUME NEW G \in SUBSET Grant
  PROVE  in_some_order(G) \in Seq(G) /\ in_some_order(G) \in [1..Cardinality(G) -> G]
<1> DEFINE n == Cardinality(G)
<1>1. n \in Nat /\ ExistsBijection(1..n, G) BY FiniteGrants, FS_CardinalityType
<1>2. PICK f \in Bijection(1..n, G) : TRUE BY <1>1 DEF ExistsBijection
<1>3. f \in [1..n -> G] /\ \A g \in G : \E i \in DOMAIN f : f[i] = g
  BY <1>2 DEF Bijection, Surjection
<1>4. in_some_order(G) \in [1..n -> G] BY <1>3, Zenon DEF in_some_order
<1> QED BY <1>1, <1>4

(* The frames tick sends again are prepares of flows that are still open.    *)
LEMMA Resends ==
  ASSUME LinksTypeOK, CoordTypeOK, NEW F, tick(F),
         \A g \in Grant : grant[g].state # "None" => grant[g].contract \in Contract
  PROVE  \E q \in [Conn -> Seq(ToAgent)] :
           /\ \A n \in Conn : \A j \in DOMAIN q[n] :
                \E g \in Grant : q[n][j] = prepare_message(g, grant'[g])
           /\ link' = [n \in Conn |-> to_agent(broadcast_fence(link, expired_grants)[n], q[n])]
<1> DEFINE flows == {g \in Grant : pending[g].on}
           timed_out == {g \in flows : g \in F \/ pending[g].attempts >= MaxRevalidateAttempts}
           retry == flows \ timed_out
           gr == abort_grant(set_state(grant, expired_grants, "Expired"), timed_out)
           S(n) == {g \in retry :
                      /\ gr[g].state = "Preparing"
                      /\ \E i \in Side : retried(g).targets[i] = n /\ ~pending[g].prepared[i]}
           msgs(n) == [j \in DOMAIN in_some_order(S(n)) |->
                         prepare_message(in_some_order(S(n))[j], gr[in_some_order(S(n))[j]])]
<1>1. gr \in [Grant -> GrantRecord]
  <2>1. set_state(grant, expired_grants, "Expired") \in [Grant -> GrantRecord]
    BY SetState DEF CoordTypeOK, GrantState
  <2> QED BY <2>1, Aborts
<1>2. grant' = gr BY Zenon DEF tick
<1>3. \A g \in Grant : gr[g].state = "Preparing" =>
        gr[g].contract \in Contract /\ gr[g] \in GrantRecord
  <2>1. \A g \in Grant : gr[g].state = "Preparing" => gr[g] = grant[g]
    BY DEF abort_grant, set_state, CoordTypeOK, GrantRecord
  <2>2. \A g \in Grant : grant[g].state = "Preparing" => grant[g].contract \in Contract
    BY SMTT(30)
  <2> QED BY <1>1, <2>1, <2>2, Zenon
<1> HIDE DEF gr, timed_out
<1>4. \A g \in Grant : gr[g].state = "Preparing" => prepare_message(g, gr[g]) \in ToAgent
  <2> SUFFICES ASSUME NEW g \in Grant, gr[g].state = "Preparing"
               PROVE  prepare_message(g, gr[g]) \in ToAgent BY SMTT(30)
  <2>1. contract[gr[g].contract].terms \in Terms BY <1>3, Zenon DEF CoordTypeOK, ContractRecord
  <2> QED BY <1>3, <2>1, Zenon DEF prepare_message, PrepareGrant, ToAgent
<1>5. \A n \in Conn : /\ msgs(n) \in Seq(ToAgent)
                     /\ \A j \in DOMAIN msgs(n) :
                          \E g \in Grant : msgs(n)[j] = prepare_message(g, gr[g])
  <2> TAKE n \in Conn
  <2>1. S(n) \in SUBSET Grant BY SMTT(30)
  <2>2. \A g \in S(n) : prepare_message(g, gr[g]) \in ToAgent BY <1>4, Zenon
  <2> DEFINE s == in_some_order(S(n))
  <2>3. s \in [1..Cardinality(S(n)) -> S(n)] /\ Cardinality(S(n)) \in Nat
    BY <2>1, SomeOrder, FiniteGrants, Zenon
  <2>4. msgs(n) = [j \in DOMAIN s |-> prepare_message(s[j], gr[s[j]])] BY Zenon
  <2> HIDE DEF s, S, msgs
  <2>5. msgs(n) \in Seq(ToAgent) BY <2>2, <2>3, <2>4
  <2>6. \A j \in DOMAIN msgs(n) : /\ s[j] \in Grant
                                  /\ msgs(n)[j] = prepare_message(s[j], gr[s[j]])
    BY <2>1, <2>3, <2>4
  <2> QED BY <2>5, <2>6
<1>6. link' = [n \in Conn |-> to_agent(broadcast_fence(link, expired_grants)[n], msgs(n))]
  BY Zenon DEF tick, gr, timed_out
<1> HIDE DEF msgs
<1> DEFINE q == [n \in Conn |-> msgs(n)]
<1>7. /\ q \in [Conn -> Seq(ToAgent)]
      /\ \A n \in Conn : \A j \in DOMAIN q[n] : \E g \in Grant : q[n][j] = prepare_message(g, gr[g])
  BY <1>5
<1>8. link' = [n \in Conn |-> to_agent(broadcast_fence(link, expired_grants)[n], q[n])]
  BY <1>6
<1> HIDE DEF q
<1> QED BY <1>2, <1>7, <1>8, Zenon

(* tick keeps the types.                                                     *)
LEMMA TickTypes ==
  ASSUME LinksTypeOK, CoordTypeOK, NEW F, tick(F),
         \A g \in Grant : grant[g].state # "None" => grant[g].contract \in Contract
  PROVE  CoordinatorTyped'
<1> DEFINE flows == {g \in Grant : pending[g].on}
           timed_out == {g \in flows : g \in F \/ pending[g].attempts >= MaxRevalidateAttempts}
           retry == flows \ timed_out
           gr == abort_grant(set_state(grant, expired_grants, "Expired"), timed_out)
<1>1. gr \in [Grant -> GrantRecord]
  <2>1. set_state(grant, expired_grants, "Expired") \in [Grant -> GrantRecord]
    BY SetState DEF CoordTypeOK, GrantState
  <2> QED BY <2>1, Aborts
<1>2. grant' = gr BY Zenon DEF tick
<1>3. stored' \in [Grant -> GrantRecord] BY <1>1, <1>2, Persists, Zenon DEF tick, CoordTypeOK
<1>4. /\ cluster' \in [Cluster -> ClusterRecord]
      /\ resv' \in [Grant -> [Cluster -> Nat]]
  BY Releases, Zenon DEF tick, CoordTypeOK
<1>5. \A g \in Grant : retried(g) \in PendingGrant
  <2> TAKE g \in Grant
  <2> DEFINE t == [i \in Side |-> IF pending[g].targets[i] # NoConn THEN pending[g].targets[i]
                                  ELSE target_for(Party[grant[g].contract][i])]
  <2>1. pending[g] \in PendingGrant BY DEF CoordTypeOK
  <2>2. t \in [Side -> Conn \cup {NoConn}] BY <2>1, Targets, Zenon DEF PendingGrant, CoordTypeOK
  <2>3. retried(g) = [pending[g] EXCEPT !.targets = t, !.attempts = pending[g].attempts + 1]
    BY DEF retried
  <2>4. pending[g].attempts + 1 \in Nat BY <2>1 DEF PendingGrant
  <2> DEFINE a == pending[g].attempts + 1
  <2> HIDE DEF t, a
  <2>5. [pending[g] EXCEPT !.targets = t, !.attempts = a] \in PendingGrant
    BY <2>1, <2>2, <2>4, Zenon DEF PendingGrant, a
  <2> QED BY <2>3, <2>5 DEF a
<1>6. pending' \in [Grant -> PendingGrant] BY <1>5, NoFlowTypes, Zenon DEF tick, CoordTypeOK
<1>7. PICK q \in [Conn -> Seq(ToAgent)] :
        link' = [n \in Conn |-> to_agent(broadcast_fence(link, expired_grants)[n], q[n])]
  BY Resends, Zenon
<1>8. broadcast_fence(link, expired_grants) \in [Conn -> Link]
  BY Broadcasts, Zenon DEF LinksTypeOK, expired_grants
<1>9. link' \in [Conn -> Link] BY <1>7, <1>8, LinkWrites
<1> QED BY <1>1, <1>2, <1>3, <1>4, <1>6, <1>9, Zenon DEF tick, CoordinatorTyped, CoordTypeOK
=============================================================================
