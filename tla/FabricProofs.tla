--------------------------- MODULE FabricProofs ----------------------------
(***************************************************************************)
(* What holds in every reachable state of the fabric, whatever the number  *)
(* of clusters, contracts, grants and connections and however often the    *)
(* operators and the faults of the world strike: usable grants hold their  *)
(* capacity, are of the present term and are enforced by both sides, and   *)
(* so the fabric implements the abstract authority.                        *)
(***************************************************************************)
EXTENDS FabricTypes, CoordinatorCapacity, AgentAuthority, CoordinatorAuthority

(* Every leaf may take this long. *)
USE SMTT(30), ZenonT(10)

(* Spending from the budget of the bounded events leaves budgets.            *)
LEMMA BudgetTyped ==
  ASSUME budget \in [Event -> Nat], NEW e, spend(e) \/ free
  PROVE  budget' \in [Event -> Nat]
BY DEF spend, free

(* A step of the coordinator alone keeps IndInv when it keeps the parts it   *)
(* can change.                                                               *)
LEMMA CoordinatorStep ==
  ASSUME IndInv, coordinator_only, budget' \in [Event -> Nat], CoordinatorTyped', CapacityInv'
  PROVE  IndInv'
<1>1. LinksTypeOK' BY DEF IndInv, TypeOK, LinksTypeOK, coordinator_only, CoordinatorTyped
<1>2. AgentTypeOK' /\ LocalsMine'
  BY DEF IndInv, TypeOK, AgentTypeOK, LocalsMine, coordinator_only, agentVars
<1> QED BY <1>1, <1>2 DEF IndInv, TypeOK, CoordinatorTyped

(* A step of one agent alone keeps IndInv when it keeps the parts it can     *)
(* change.                                                                   *)
LEMMA AgentStep ==
  ASSUME IndInv, agents_only, budget' \in [Event -> Nat], AgentsTyped'
  PROVE  IndInv'
<1>1. LinksTypeOK' BY DEF IndInv, TypeOK, LinksTypeOK, agents_only, AgentsTyped
<1>2. CoordTypeOK' BY DEF IndInv, TypeOK, CoordTypeOK, agents_only, coordVars
<1>3. CapacityInv'
  BY IdleStep DEF IndInv, agents_only, coordVars
<1> QED BY <1>1, <1>2, <1>3 DEF IndInv, TypeOK, AgentsTyped

(* The coordinator handling a frame keeps IndInv.                            *)
LEMMA MessageKeeps ==
  ASSUME IndInv, NEW n \in Conn, Coordinator_Message(n)
  PROVE  IndInv'
<1>1. /\ LinksTypeOK /\ CoordTypeOK /\ CapacityInv /\ handle_message(n) /\ coordinator_only
      /\ budget' \in [Event -> Nat]
  BY DEF IndInv, TypeOK, Coordinator_Message, free
<1>2. CoordinatorTyped'
  BY <1>1, HelloTypes, ReportTypes, ConsentTypes, PreparedTypes, CommittedTypes, WithdrawTypes,
     StatusTypes
  DEF handle_message
<1>3. on_grant_committed(n) => msg(n).grant \in Grant
  <2> SUFFICES ASSUME on_grant_committed(n) PROVE msg(n).grant \in Grant BY SMTT(30)
  <2>1. link[n].toCoord # <<>> /\ msg(n).type = "GrantCommitted"
    BY Zenon DEF on_grant_committed, on_grant_committed_dropped, on_grant_committed_refused,
           on_grant_committed_installed, recv_in_session, recv, msg
  <2> QED BY <1>1, <2>1, Frames, ToCoordFields
<1>4. CapacityInv' BY <1>1, <1>3, MessageStep
<1> QED BY <1>1, <1>2, <1>4, CoordinatorStep

(* A disconnect and the ticks at the coordinator keep IndInv.                *)
LEMMA TimerKeeps ==
  ASSUME IndInv,
         \/ \E n \in Conn : Coordinator_Disconnect(n)
         \/ Coordinator_Tick \/ Coordinator_Overdue
  PROVE  IndInv'
<1>1. /\ LinksTypeOK /\ CoordTypeOK /\ CapacityInv /\ coordinator_only
      /\ budget' \in [Event -> Nat]
      /\ (\E n \in Conn : handle_disconnect(n)) \/ (\E F : tick(F))
  BY BudgetTyped DEF IndInv, TypeOK, Coordinator_Disconnect, Coordinator_Tick, Coordinator_Overdue
<1>2. \A g \in Grant : grant[g].state # "None" => grant[g].contract \in Contract
  BY <1>1 DEF CapacityInv, Named
<1>3. CoordinatorTyped' BY <1>1, <1>2, DisconnectTypes, TickTypes
<1>4. CapacityInv' BY <1>1, DisconnectStep, TickStep
<1> QED BY <1>1, <1>3, <1>4, CoordinatorStep

(* A crash and a restart of the coordinator keep IndInv.                     *)
LEMMA RestartKeeps ==
  ASSUME IndInv, Coordinator_Crash \/ Coordinator_Start
  PROVE  IndInv'
<1>1. /\ LinksTypeOK /\ CoordTypeOK /\ CapacityInv /\ (crash \/ begin_incarnation)
      /\ budget' \in [Event -> Nat] /\ UNCHANGED agentVars
  BY BudgetTyped DEF IndInv, TypeOK, Coordinator_Crash, Coordinator_Start
<1>2. CoordinatorTyped' /\ LinksTypeOK' BY <1>1, CrashTypes
<1>3. CapacityInv' BY <1>1, RestartStep
<1>4. AgentTypeOK' /\ LocalsMine' BY <1>1 DEF IndInv, TypeOK, AgentTypeOK, LocalsMine, agentVars
<1> QED BY <1>1, <1>2, <1>3, <1>4 DEF IndInv, TypeOK, CoordinatorTyped

(* Every request of the operator keeps IndInv.                               *)
LEMMA OperatorKeeps ==
  ASSUME IndInv, Operator
  PROVE  IndInv'
<1>1. /\ LinksTypeOK /\ CoordTypeOK /\ CapacityInv /\ coordinator_only
      /\ budget' \in [Event -> Nat]
  BY BudgetTyped DEF IndInv, TypeOK, Operator
<1>2. \A g \in Grant : grant[g].state # "None" => grant[g].contract \in Contract
  BY <1>1 DEF CapacityInv, Named
<1>3. CASE \E k \in Contract : apply_contract_proposal(k)
  BY <1>1, <1>3, ProposalTypes, ClusterRequestStep, CoordinatorStep
<1>4. CASE \E g \in Grant, k \in Contract : apply_grant_issue(g, k)
  BY <1>1, <1>4, IssueTypes, IssueStep, CoordinatorStep
<1>5. CASE \E g \in Grant : apply_grant_revalidation(g)
  <2>1. PICK g \in Grant : apply_grant_revalidation(g) BY <1>5
  <2>2. CoordinatorTyped' BY <1>1, <1>2, <2>1, RevalidationTypes
  <2>3. CapacityInv'
    <3>1. grant[g].contract \in Contract BY <1>2, <2>1 DEF apply_grant_revalidation
    <3> QED BY <1>1, <2>1, <3>1, IssueStep
  <2> QED BY <1>1, <2>2, <2>3, CoordinatorStep
<1>6. CASE \E g \in Grant : fence_grant(g)
  BY <1>1, <1>6, FenceGrantTypes, FenceGrantStep, CoordinatorStep
<1>7. CASE \E c \in Cluster : \/ withdraw_consent(c) \/ restore_consent(c)
                              \/ upsert_policy(c) \/ delete_cluster(c)
  BY <1>1, <1>7, ClusterRequestTypes, ClusterRequestStep, CoordinatorStep
<1>8. CASE \E c \in Cluster : apply_conflict_resolution(c, cluster[c].id.gen + 1)
  <2>1. PICK c \in Cluster : apply_conflict_resolution(c, cluster[c].id.gen + 1) BY <1>8
  <2>2. cluster[c].id.gen + 1 \in Nat BY <1>1 DEF CoordTypeOK, ClusterRecord, Identity
  <2>3. CoordinatorTyped' BY <1>1, <2>1, <2>2, ClusterRequestTypes
  <2>4. CapacityInv' BY <1>1, <2>1, ClusterRequestStep
  <2> QED BY <1>1, <2>3, <2>4, CoordinatorStep
<1>9. CASE \E c \in Cluster, s \in ClusterState : set_registered_state(c, s)
  BY <1>1, <1>9, ClusterRequestTypes, ClusterRequestStep, CoordinatorStep, Zenon
<1>10. CASE \E c \in Cluster : upsert_cluster(c, agent[c].id, "Active")
  <2>1. PICK c \in Cluster : upsert_cluster(c, agent[c].id, "Active") BY <1>10
  <2>2. agent[c].id \in Identity BY DEF IndInv, TypeOK, AgentTypeOK, AgentRecord
  <2>3. CoordinatorTyped' BY <1>1, <2>1, <2>2, ClusterRequestTypes
  <2>4. CapacityInv' BY <1>1, <2>1, ClusterRequestStep
  <2> QED BY <1>1, <2>3, <2>4, CoordinatorStep
<1> QED BY <1>3, <1>4, <1>5, <1>6, <1>7, <1>8, <1>9, <1>10 DEF Operator

(* Every step of an agent keeps IndInv.                                      *)
LEMMA AgentKeeps ==
  ASSUME IndInv, NEW c \in Cluster,
         \/ Agent_Connect(c) \/ Agent_Disconnect(c) \/ Agent_Message(c) \/ Agent_Tick(c)
         \/ Agent_Handshake_Deadline(c) \/ Agent_Crash(c) \/ Agent_Start(c) \/ Local_Operator(c)
  PROVE  IndInv'
<1>1. LinksTypeOK /\ AgentTypeOK /\ LocalsMine BY DEF IndInv, TypeOK
<1>2. agents_only /\ budget' \in [Event -> Nat]
  BY BudgetTyped DEF IndInv, TypeOK, Agent_Connect, Agent_Disconnect, Agent_Message, Agent_Tick,
     Agent_Handshake_Deadline, Agent_Crash, Agent_Start, Local_Operator
<1>3. CASE Agent_Connect(c) \/ Agent_Disconnect(c) \/ Agent_Handshake_Deadline(c)
  <2>1. AgentsTyped'
    BY <1>1, <1>3, AgentConnectionTypes
    DEF Agent_Connect, Agent_Disconnect, Agent_Handshake_Deadline
  <2> QED BY <1>2, <2>1, AgentStep
<1>4. CASE Agent_Message(c)
  <2>1. AgentsTyped'
    BY <1>1, <1>4, HelloAckTypes, ProposeTypes, PrepareGrantTypes, CommitGrantTypes,
       FenceMessageTypes, StatusRequestTypes
    DEF Agent_Message, agent_handle_message
  <2> QED BY <1>2, <2>1, AgentStep
<1>5. CASE Agent_Tick(c) \/ Local_Operator(c)
  <2>1. AgentsTyped' BY <1>1, <1>5, LocalOperatorTypes DEF Agent_Tick, Local_Operator
  <2> QED BY <1>2, <2>1, AgentStep
<1>6. CASE Agent_Crash(c) \/ Agent_Start(c)
  <2>1. AgentsTyped'
    BY <1>1, <1>6, AgentCrashTypes, FabricAssumption DEF Agent_Crash, Agent_Start
  <2> QED BY <1>2, <2>1, AgentStep
<1> QED BY <1>3, <1>4, <1>5, <1>6

(* A broken connection and the lapse of leases keep IndInv.                  *)
LEMMA WorldKeeps ==
  ASSUME IndInv, (\E n \in Conn : Break(n)) \/ Lapse
  PROVE  IndInv'
<1>1. UNCHANGED <<coordVars, agentVars>> /\ budget' \in [Event -> Nat]
  BY BudgetTyped DEF IndInv, TypeOK, Break, Lapse
<1>2. CoordTypeOK' /\ AgentTypeOK' /\ LocalsMine'
  BY <1>1 DEF IndInv, TypeOK, CoordTypeOK, AgentTypeOK, LocalsMine, coordVars, agentVars
<1>3. CapacityInv' BY <1>1, IdleStep DEF IndInv, coordVars
<1>4. CASE \E n \in Conn : Break(n)
  <2>1. PICK n \in Conn : break(n) BY <1>4 DEF Break
  <2>2. link[n] \in Link /\ link \in [Conn -> Link] BY DEF IndInv, TypeOK, LinksTypeOK
  <2>3. [link[n] EXCEPT !.cut = TRUE, !.toCoord = <<>>, !.toAgent = <<>>] \in Link
    <3>1. <<>> \in Seq(ToCoord) /\ <<>> \in Seq(ToAgent) OBVIOUS
    <3> QED BY <2>2, <3>1, Zenon DEF Link
  <2>4. LinksTypeOK' BY <2>1, <2>2, <2>3 DEF break, LinksTypeOK, IndInv, TypeOK
  <2> QED BY <1>1, <1>2, <1>3, <2>4 DEF IndInv, TypeOK
<1>5. CASE Lapse
  <2>1. LinksTypeOK' BY <1>5 DEF Lapse, IndInv, TypeOK, LinksTypeOK, CoordTypeOK
  <2> QED BY <1>1, <1>2, <1>3, <2>1 DEF IndInv, TypeOK
<1> QED BY <1>4, <1>5

(* The initial states satisfy IndInv.                                        *)
LEMMA InitialState == Init => IndInv
<1> SUFFICES ASSUME Init PROVE IndInv OBVIOUS
<1>1. NoIdentity \in Identity /\ NoGrant \in GrantRecord /\ NoTerms \in Terms
  BY DEF NoIdentity, Identity, NoGrant, GrantRecord, NoTerms, Terms, GrantState
<1>2. LinksTypeOK
  <2>1. NoLink \in Link BY DEF NoLink, Link, End
  <2> QED BY <2>1 DEF Init, LinksInit, LinksTypeOK
<1>3. CoordTypeOK
  <2>1. NoClusterRecord \in ClusterRecord BY NoClusterTypes
  <2>2. NoContract \in ContractRecord
    BY <1>1 DEF NoContract, ContractRecord, ContractState, NoConsent, Consent
  <2>3. NoSession \in PeerSession BY <1>1 DEF NoSession, PeerSession
  <2>4. NoFlow \in PendingGrant BY NoFlowTypes
  <2> QED BY <1>1, <2>1, <2>2, <2>3, <2>4 DEF Init, CoordInit, CoordTypeOK
<1>4. AgentTypeOK
  <2>1. FirstIdentity \in Identity BY DEF FirstIdentity, Identity
  <2>2. agent \in [Cluster -> AgentRecord]
    BY <2>1 DEF Init, AgentInit, AgentRecord, ClusterState
  <2> QED BY <1>1, <2>2, Zenon DEF Init, AgentInit, AgentTypeOK
<1>5. LocalsMine BY DEF Init, AgentInit, LocalsMine, NoGrant
<1>6. CapacityInv
  BY DEF Init, CoordInit, CapacityInv, Named, Holds, StoredDiffers, NoGrant, NoFlow, usable_state
<1>7. budget \in [Event -> Nat] BY FabricAssumption DEF Init
<1> QED BY <1>2, <1>3, <1>4, <1>5, <1>6, <1>7 DEF IndInv, TypeOK

(* A stuttering step keeps IndInv.                                           *)
LEMMA StutterKeeps ==
  ASSUME IndInv, UNCHANGED vars
  PROVE  IndInv'
<1>1. LinksTypeOK' /\ CoordTypeOK' /\ AgentTypeOK' /\ budget' \in [Event -> Nat]
  BY DEF IndInv, TypeOK, vars, worldVars, coordVars, agentVars, LinksTypeOK, CoordTypeOK, AgentTypeOK
<1>2. LocalsMine' BY DEF IndInv, vars, agentVars, LocalsMine
<1>3. CapacityInv' BY IdleStep DEF IndInv, vars, coordVars
<1> QED BY <1>1, <1>2, <1>3 DEF IndInv, TypeOK

(* IndInv holds in every reachable state of the fabric: the records that     *)
(* Coordinator, Agent and their connections hold are well typed, an agent    *)
(* holds only grants of contracts its cluster is a party of, and the books   *)
(* that finalize_commit, the fence plan and recovery keep are such that a    *)
(* usable grant has its capacity reserved.                                   *)
THEOREM Invariance == Spec => []IndInv
<1>1. IndInv /\ [Next]_vars => IndInv'
  <2> SUFFICES ASSUME IndInv, [Next]_vars PROVE IndInv' OBVIOUS
  <2>1. CASE Next
    BY <2>1, MessageKeeps, TimerKeeps, RestartKeeps, OperatorKeeps, AgentKeeps, WorldKeeps DEF Next
  <2>2. CASE UNCHANGED vars BY <2>2, StutterKeeps
  <2> QED BY <2>1, <2>2
<1> QED BY <1>1, InitialState, PTL DEF Spec

(* Every reachable state of the fabric is well typed: in particular no
   reservation counter goes below zero, and no message names a grant, a
   contract or an identity that does not exist. *)
THEOREM Typing == Spec => []TypeOK
<1>1. IndInv => TypeOK BY DEF IndInv
<1> QED BY <1>1, Invariance, PTL

(* A usable grant holds a unit of both its endpoint scopes, in every reachable
   state: no fence, expiry, abort, revalidation, recovery or late
   acknowledgement leaves one usable without its reservations. *)
THEOREM Capacity_Held == Spec => []UsableHoldsCapacity
<1>1. IndInv => UsableHoldsCapacity BY DEF IndInv, CapacityInv, Holds, UsableHoldsCapacity
<1> QED BY <1>1, Invariance, PTL

(* tick keeps AuthInv: what it sends again is what the table holds.          *)
LEMMA TickAuth ==
  ASSUME IndInv, AuthInv, coordinator_only, NEW F, tick(F)
  PROVE  AuthInv'
<1> DEFINE timed_out == {g \in {h \in Grant : pending[h].on} :
                           g \in F \/ pending[g].attempts >= MaxRevalidateAttempts}
           f == Fence(expired_grants)
           lk == broadcast_fence(link, expired_grants)
<1>1. /\ UNCHANGED <<term, minted, session>> /\ UNCHANGED <<serving, agentVars>>
      /\ grant' = abort_grant(set_state(grant, expired_grants, "Expired"), timed_out)
      /\ persist_grants
  BY Zenon DEF tick, coordinator_only
<1>2. \A g \in Grant :
        \/ grant'[g] = grant[g]
        \/ \E s \in Closing : /\ grant'[g] = [grant[g] EXCEPT !.state = s]
                              /\ s \in Fenceable => grant[g].state \in Fenceable
  <2> HIDE DEF timed_out
  <2> TAKE g \in Grant
  <2>1. \A x : [[grant[g] EXCEPT !.state = x] EXCEPT !.state = "Aborted"]
                 = [grant[g] EXCEPT !.state = "Aborted"]
    BY Zenon
  <2>2. \/ grant'[g] = grant[g]
        \/ grant'[g] = [grant[g] EXCEPT !.state = "Expired"]
        \/ grant'[g] = [grant[g] EXCEPT !.state = "Aborted"]
    BY <1>1, <2>1, Zenon DEF abort_grant, set_state
  <2> QED BY <2>2 DEF Closing, Fenceable
<1>3. \A g \in Grant : Recorded(g) BY <1>1, <1>2, Retires
<1>4. PICK q \in [Conn -> Seq(ToAgent)] :
        /\ \A n \in Conn : \A j \in DOMAIN q[n] :
             \E g \in Grant : q[n][j] = prepare_message(g, grant'[g])
        /\ link' = [n \in Conn |-> to_agent(lk[n], q[n])]
  BY Resends, Zenon DEF IndInv, TypeOK, CapacityInv, Named
<1> DEFINE S == {f} \cup {prepare_message(g, grant'[g]) : g \in Grant}
<1>5. \A m \in S : Issued(m)
  <2>1. \A g \in Grant : Issued(prepare_message(g, grant'[g]))
    BY DEF Issued, prepare_message, PrepareGrant
  <2> QED BY <2>1, Harmless, Zenon
<1>6. lk \in [Conn -> Link] /\ Moved(link, lk, {f})
  <2>1. expired_grants \in SUBSET Grant BY Zenon DEF expired_grants
  <2> QED BY <2>1, Broadcasts, MovedBroadcast, Zenon DEF IndInv, TypeOK, LinksTypeOK
<1>7. Moved(lk, link', S)
  <2> SUFFICES ASSUME NEW n \in Conn
               PROVE  /\ link'[n].owner = lk[n].owner
                      /\ link'[n].coordEnd = "open" => lk[n].coordEnd = "open"
                      /\ In(link'[n].toCoord) \subseteq In(lk[n].toCoord)
                      /\ In(link'[n].toAgent) \subseteq In(lk[n].toAgent) \cup S
    BY DEF Moved
  <2>1. In(q[n]) \subseteq S BY <1>4 DEF In
  <2>2. link'[n] = to_agent(lk[n], q[n]) BY <1>4
  <2> HIDE DEF S, lk
  <2>3. lk[n] \in Link /\ q[n] \in Seq(ToAgent) BY <1>6, Zenon
  <2>4. /\ link'[n].owner = lk[n].owner /\ link'[n].coordEnd = lk[n].coordEnd
        /\ link'[n].toCoord = lk[n].toCoord
        /\ In(link'[n].toAgent) \subseteq In(lk[n].toAgent) \cup In(q[n])
    BY <2>2, <2>3, MovedWrite
  <2> QED BY <2>1, <2>4, Zenon
<1>8. Moved(link, link', S)
  <2>1. {f} \subseteq S OBVIOUS
  <2> HIDE DEF S, f, lk
  <2> QED BY <1>6, <1>7, <2>1, MovedOn
<1>9. \A n \in Conn : session'[n].on =>
        session'[n].cluster = link[n].owner /\ link[n].owner # NoCluster
  BY <1>1, SessionsKept
<1> HIDE DEF S, timed_out
<1>c. Coordinated(S) BY <1>1, <1>3, <1>5, <1>8, <1>9 DEF Coordinated
<1> QED BY <1>c, CoordinatorKeeps, Zenon

(* Every step of the coordinator keeps AuthInv.                              *)
LEMMA CoordinatorAuth ==
  ASSUME IndInv, AuthInv,
         \/ \E n \in Conn : Coordinator_Message(n) \/ Coordinator_Disconnect(n)
         \/ Coordinator_Tick \/ Coordinator_Overdue \/ Operator
  PROVE  AuthInv'
<1>1. coordinator_only
  BY DEF Coordinator_Message, Coordinator_Disconnect, Coordinator_Tick, Coordinator_Overdue, Operator
<1>2. ASSUME NEW n \in Conn, Coordinator_Message(n) PROVE AuthInv'
  BY <1>1, <1>2, HelloAuth, ReportAuth, PreparedAuth, CommittedAuth, StatusAuth
  DEF Coordinator_Message, handle_message
<1>3. ASSUME NEW n \in Conn, Coordinator_Disconnect(n) PROVE AuthInv'
  BY <1>1, <1>3, DisconnectAuth DEF Coordinator_Disconnect
<1>4. CASE Coordinator_Tick \/ Coordinator_Overdue
  BY <1>1, <1>4, TickAuth DEF Coordinator_Tick, Coordinator_Overdue
<1>5. CASE Operator
  <2>1. CASE (\E k \in Contract : apply_contract_proposal(k)) \/ \E g \in Grant : fence_grant(g)
    BY <1>1, <2>1, RequestAuth
  <2>2. CASE (\E g \in Grant, k \in Contract : apply_grant_issue(g, k))
               \/ \E g \in Grant : apply_grant_revalidation(g)
    BY <1>1, <2>2, IssueAuth
  <2>3. ASSUME NEW c, NEW gen, NEW s, NEW id,
               \/ withdraw_consent(c) \/ restore_consent(c) \/ apply_conflict_resolution(c, gen)
               \/ set_registered_state(c, s) \/ upsert_policy(c) \/ upsert_cluster(c, id, s)
               \/ delete_cluster(c)
        PROVE  AuthInv'
    BY <1>1, <2>3, ClusterRequestAuth
  <2> QED BY <1>5, <2>1, <2>2, <2>3, Zenon DEF Operator
<1> QED BY <1>2, <1>3, <1>4, <1>5

(* What the coordinator counts on holds in every reachable state: the        *)
(* attempt identifiers that the tables, the store, the agents and the frames *)
(* in flight carry are about the same attempts, and a connection that is     *)
(* still served carries nothing of an earlier term (on_hello,                *)
(* begin_incarnation, on_commit_grant, on_status_report).                    *)
THEOREM AuthorityInvariance == Spec => []AuthInv
<1>1. Init => AuthInv BY InitAuth
<1>2. IndInv /\ AuthInv /\ [Next]_vars => AuthInv'
  <2> SUFFICES ASSUME IndInv, AuthInv, [Next]_vars PROVE AuthInv' OBVIOUS
  <2>1. CASE Next
    <3>1. CASE Coordinator_Crash BY <3>1, CrashAuth DEF Coordinator_Crash
    <3>2. CASE Coordinator_Start BY <3>2, BeginAuth DEF Coordinator_Start
    <3> QED BY <2>1, <3>1, <3>2, CoordinatorAuth, AgentAuth, WorldAuth DEF Next
  <2>2. CASE UNCHANGED vars BY <2>2, WorldAuth
  <2> QED BY <2>1, <2>2
<1> QED BY <1>1, <1>2, Invariance, PTL DEF Spec

(* A grant the coordinator holds as usable is of its present term, in every
   reachable state (finalise_grant, begin_incarnation). *)
THEOREM Term_Current == Spec => []UsableInCurrentTerm
<1>1. AuthInv => UsableInCurrentTerm
  BY DEF AuthInv, Tables, Rightful, UsableInCurrentTerm, usable_state, Fenceable
<1> QED BY <1>1, AuthorityInvariance, PTL

(* A side the coordinator counts as acknowledged has enforced the attempt the
   grant names, in every reachable state (on_grant_committed, on_status_report). *)
THEOREM Acknowledged_Installed == Spec => []AcknowledgedMeansInstalled
<1>1. AuthInv => AcknowledgedMeansInstalled
  BY DEF AuthInv, Tables, Rightful, AcknowledgedMeansInstalled
<1> QED BY <1>1, AuthorityInvariance, PTL

(* The fabric implements the abstract authority: an attempt becomes usable
   only in the term that made it and after both sides have enforced it, and a
   new term starts with nothing usable (finalise_grant, begin_incarnation). *)
THEOREM Authority_Implemented == Spec => ImplementsAuthority
<1>1. Init => A!Init
  <2> SUFFICES ASSUME Init PROVE A!Init OBVIOUS
  <2>1. term = 1 /\ installed = {} /\ \A g \in Grant : ~usable_state(grant[g])
    BY DEF Init, CoordInit, AgentInit, NoGrant, usable_state
  <2> QED BY <2>1 DEF A!Init, usable_attempts
<1>2. AuthInv' /\ [Next]_vars => [A!Next]_<<term, installed, usable_attempts>>
  <2> SUFFICES ASSUME AuthInv', [Next]_vars
               PROVE  [A!Next]_<<term, installed, usable_attempts>>
    OBVIOUS
  <2>1. ASSUME UNCHANGED <<term, installed>> PROVE A!Decide
    <3>1. \A g \in Grant : usable_state(grant'[g]) =>
            grant'[g].term = term /\ \A i \in Side : <<grant'[g].attempt, i>> \in installed
      BY <2>1 DEF AuthInv, Tables, Rightful, usable_state, both_acknowledged, Fenceable
    <3>2. \A u \in usable_attempts' : A!Entitled(u) BY <3>1 DEF usable_attempts, A!Entitled
    <3> QED BY <2>1, <3>2 DEF A!Decide
  <2>2. ASSUME UNCHANGED <<term, grant>>, installed \subseteq installed' PROVE A!Install
    BY <2>2 DEF A!Install, usable_attempts
  <2>3. CASE Coordinator_Start
    <3>1. term' = term + 1 /\ UNCHANGED installed /\
          grant' = set_state(grant, {g \in Grant : grant[g].state \in Fenceable}, "Fenced")
      BY <2>3 DEF Coordinator_Start, begin_incarnation, agentVars
    <3>2. \A g \in Grant : ~usable_state(grant'[g])
      BY <3>1 DEF set_state, usable_state, Fenceable
    <3>3. usable_attempts' = {} BY <3>2 DEF usable_attempts
    <3> QED BY <3>1, <3>3 DEF A!Next, A!NewTerm
  <2>4. CASE UNCHANGED <<term, installed>> BY <2>1, <2>4 DEF A!Next
  <2>5. CASE UNCHANGED <<term, grant>> /\ installed \subseteq installed'
    BY <2>2, <2>5 DEF A!Next
  <2>6. CASE (\E n \in Conn : Break(n)) \/ Lapse \/ UNCHANGED vars
    <3>1. UNCHANGED <<term, installed>>
      BY <2>6 DEF Break, Lapse, vars, coordVars, agentVars
    <3> QED BY <2>4, <3>1
  <2> QED BY <2>3, <2>4, <2>5, <2>6, TermKept, AgentsInstall DEF Next
<1> QED BY <1>1, <1>2, AuthorityInvariance, PTL DEF Spec, ImplementsAuthority, A!Spec
=============================================================================
