-------------------------- MODULE AgentAuthority ---------------------------
(***************************************************************************)
(* Every step of an agent, and of the network between, keeps AuthInv: what *)
(* an acknowledgement rests on.                                            *)
(***************************************************************************)
EXTENDS FabricLemmas

(* Every leaf may take this long. *)
USE SMTT(30), ZenonT(10)

(***************************************************************************)
(* What a step of an agent does: it reads and closes, or opens a           *)
(* connection; what it answers is about its own record of the grant; and   *)
(* it replaces a record only by one that it was asked to prepare.          *)
(***************************************************************************)
Answer(n, m) ==
  LET c == link[n].owner
  IN  /\ c \in Cluster
      /\ m.type = "GrantCommitted" =>
           /\ \E d \in In(link[n].toAgent) :
                d.type = "CommitGrant" /\ d.grant = m.grant /\ d.attempt = m.attempt
           /\ m.installed =>
                /\ local[c][m.grant].attempt = m.attempt
                /\ <<m.attempt, side_of(c, local[c][m.grant].contract)>> \in installed'
      /\ m.type = "StatusReport" => \A g \in Grant :
           /\ m.grants[g].attempt = local[c][g].attempt
           /\ m.grants[g].state = local[c][g].state

Served(n) ==
  /\ link'[n].owner = link[n].owner
  /\ link'[n].coordEnd = "open" => link[n].coordEnd = "open"
  /\ In(link'[n].toAgent) \subseteq In(link[n].toAgent)
  /\ \A m \in In(link'[n].toCoord) : m \in In(link[n].toCoord) \/ Answer(n, m)

Opened(n) ==
  /\ serving
  /\ link[n].owner = NoCluster /\ link'[n].owner # NoCluster
  /\ In(link'[n].toAgent) = {}
  /\ \A m \in In(link'[n].toCoord) : m.type = "Hello"

Kept(c, g) ==
  \/ /\ local'[c][g].attempt = local[c][g].attempt
     /\ local'[c][g].contract = local[c][g].contract
     /\ usable_state(local'[c][g]) =>
          \/ usable_state(local[c][g])
          \/ <<local[c][g].attempt, side_of(c, local[c][g].contract)>> \in installed'
  \/ /\ ~usable_state(local'[c][g])
     /\ \E n \in Conn : \E d \in In(link[n].toAgent) :
          /\ d.type = "PrepareGrant" /\ d.grant = g
          /\ local'[c][g].attempt = d.record.attempt
          /\ local'[c][g].contract = d.record.contract

(* Such a step of an agent keeps AuthInv.                                    *)
LEMMA AgentsKeep ==
  ASSUME IndInv, AuthInv, UNCHANGED <<serving, coordVars>>, installed \subseteq installed',
         \A n \in Conn : Served(n) \/ Opened(n),
         \A c \in Cluster, g \in Grant : Kept(c, g),
         \A c \in Cluster : \/ agent'[c].conn \in {agent[c].conn, NoConn}
                            \/ link'[agent'[c].conn].owner = c
  PROVE  AuthInv'
<1>1. UNCHANGED <<serving, term, minted, grant, stored, session>> BY DEF coordVars
<1>2. \A n \in Conn : /\ \A m \in In(link[n].toAgent) : m \in ToAgent
                      /\ \A m \in In(link[n].toCoord) : m \in ToCoord
  <2> TAKE n \in Conn
  <2>1. link[n].toAgent \in Seq(ToAgent) /\ link[n].toCoord \in Seq(ToCoord)
    BY DEF IndInv, TypeOK, LinksTypeOK, Link
  <2> QED BY <2>1, Queues
<1>3. Ends'
  <2>1. \A n \in Conn : /\ link'[n].owner # link[n].owner => Opened(n)
                        /\ link[n].owner # NoCluster => link'[n].owner = link[n].owner
    BY DEF Served, Opened
  <2>2. (~serving => \A n \in Conn : link[n].coordEnd # "open")'
    BY <1>1 DEF AuthInv, Ends, Served, Opened
  <2>3. (\A n \in Conn : link[n].coordEnd = "open" => link[n].owner # NoCluster)'
    BY DEF AuthInv, Ends, Served, Opened
  <2>4. (\A n \in Conn : session[n].on =>
           session[n].cluster = link[n].owner /\ link[n].owner # NoCluster)'
    BY <1>1, <2>1 DEF AuthInv, Ends
  <2>5. (\A c \in Cluster : agent[c].conn # NoConn => link[agent[c].conn].owner = c)'
    <3> SUFFICES ASSUME NEW c \in Cluster, agent'[c].conn # NoConn
                 PROVE  link'[agent'[c].conn].owner = c OBVIOUS
    <3>1. CASE agent'[c].conn = agent[c].conn
      <4>1. agent[c].conn \in Conn BY <3>1 DEF IndInv, TypeOK, AgentTypeOK, AgentRecord
      <4>2. link[agent[c].conn].owner = c BY <3>1 DEF AuthInv, Ends
      <4> QED BY <2>1, <3>1, <4>1, <4>2, LinksAssumption
    <3> QED BY <3>1
  <2> QED BY <2>2, <2>3, <2>4, <2>5 DEF Ends
<1>4. ASSUME NEW c \in Cluster, NEW g \in Grant
      PROVE  /\ Agree(local'[c][g], grant[g]) /\ Agree(local'[c][g], stored[g])
             /\ local'[c][g].attempt <= minted
             /\ usable_state(local'[c][g]) =>
                  <<local'[c][g].attempt, side_of(c, local'[c][g].contract)>> \in installed'
  <2>1. Kept(c, g) OBVIOUS
  <2>2. CASE /\ local'[c][g].attempt = local[c][g].attempt
             /\ local'[c][g].contract = local[c][g].contract
             /\ usable_state(local'[c][g]) =>
                  \/ usable_state(local[c][g])
                  \/ <<local[c][g].attempt, side_of(c, local[c][g].contract)>> \in installed'
    <3>1. /\ Agree(local[c][g], grant[g]) /\ Agree(local[c][g], stored[g])
          /\ local[c][g].attempt <= minted
          /\ usable_state(local[c][g]) =>
               <<local[c][g].attempt, side_of(c, local[c][g].contract)>> \in installed
      BY DEF AuthInv, Tables, Locals
    <3> QED BY <2>2, <3>1 DEF Agree
  <2>3. CASE /\ ~usable_state(local'[c][g])
             /\ \E n \in Conn : \E d \in In(link[n].toAgent) :
                  /\ d.type = "PrepareGrant" /\ d.grant = g
                  /\ local'[c][g].attempt = d.record.attempt
                  /\ local'[c][g].contract = d.record.contract
    BY <2>3 DEF AuthInv, InFlight, DownOK, Agree
  <2> QED BY <2>1, <2>2, <2>3 DEF Kept
<1>5. Tables'
  <2>1. \A g \in Grant : Rightful(grant[g])' /\ Rightful(stored[g])'
    BY <1>1 DEF AuthInv, Tables, Rightful
  <2>2. \A g \in Grant : Agree(stored'[g], grant'[g]) BY <1>1 DEF AuthInv, Tables
  <2> QED BY <1>1, <1>4, <2>1, <2>2, Zenon DEF Tables
<1>6. Locals' BY <1>1, <1>4 DEF Locals
<1>7. ASSUME NEW n \in Conn
      PROVE  /\ \A m \in In(link'[n].toAgent) : DownOK(m)'
             /\ link'[n].coordEnd = "open" => \A m \in In(link'[n].toAgent) : CommitOK(m)'
  <2>1. In(link'[n].toAgent) \subseteq In(link[n].toAgent) BY DEF Served, Opened
  <2>2. CASE Served(n) BY <1>1, <2>1, <2>2 DEF AuthInv, InFlight, Served, DownOK, CommitOK
  <2>3. CASE Opened(n) BY <2>3 DEF Opened
  <2> QED BY <2>2, <2>3
<1>8. ASSUME NEW n \in Conn, link'[n].coordEnd = "open", NEW m \in In(link'[n].toCoord)
      PROVE  UpOK(link[n].owner, m)'
  <2>1. CASE Opened(n) BY <1>8, <2>1 DEF Opened, UpOK
  <2>2. CASE Served(n) /\ m \in In(link[n].toCoord)
    <3>1. UpOK(link[n].owner, m) /\ link'[n].owner = link[n].owner
      BY <1>8, <2>2 DEF AuthInv, InFlight, Served
    <3> QED BY <1>1, <3>1 DEF UpOK
  <2>3. CASE Served(n) /\ Answer(n, m)
    <3> DEFINE c == link[n].owner
    <3>1. /\ link'[n].owner = c /\ link[n].coordEnd = "open" /\ c \in Cluster
      BY <1>8, <2>3, Zenon DEF Served, Answer
    <3> HIDE DEF c
    <3>2. CASE m.type = "GrantCommitted"
      <4>1. PICK d \in In(link[n].toAgent) :
              d.type = "CommitGrant" /\ d.grant = m.grant /\ d.attempt = m.attempt
        BY <2>3, <3>2 DEF Answer
      <4>2. d \in ToAgent /\ DownOK(d) /\ CommitOK(d) BY <1>2, <3>1 DEF AuthInv, InFlight
      <4>3. d.grant \in Grant BY <4>1, <4>2, ToAgentFields
      <4>4. m.grant \in Grant /\ m.attempt <= minted BY <4>1, <4>2, <4>3 DEF DownOK
      <4>5. m.attempt = grant[m.grant].attempt => grant[m.grant].term = term
        BY <4>1, <4>2 DEF CommitOK
      <4>6. m.installed => /\ local[c][m.grant].attempt = m.attempt
                           /\ <<m.attempt, side_of(c, local[c][m.grant].contract)>> \in installed'
        BY <2>3, <3>2 DEF Answer, c
      <4>7. Agree(local[c][m.grant], grant[m.grant]) BY <3>1, <4>4 DEF AuthInv, Tables
      <4>8. m.installed /\ m.attempt = grant[m.grant].attempt =>
              <<m.attempt, side_of(c, grant[m.grant].contract)>> \in installed'
        BY <4>6, <4>7 DEF Agree
      <4> QED BY <1>1, <3>1, <3>2, <4>4, <4>5, <4>8 DEF UpOK
    <3>3. CASE m.type = "StatusReport"
      <4>1. \A g \in Grant : /\ m.grants[g].attempt = local[c][g].attempt
                             /\ m.grants[g].state = local[c][g].state
        BY <2>3, <3>3 DEF Answer, c
      <4>2. \A g \in Grant :
              /\ local[c][g].attempt <= minted /\ Agree(local[c][g], grant[g])
              /\ usable_state(local[c][g]) =>
                   <<local[c][g].attempt, side_of(c, local[c][g].contract)>> \in installed'
        BY <3>1 DEF AuthInv, Tables, Locals
      <4>3. \A g \in Grant : m.grants[g].attempt <= minted BY <4>1, <4>2, Zenon
      <4>4. ASSUME NEW g \in Grant, usable_state(m.grants[g]), m.grants[g].attempt = grant[g].attempt
            PROVE  <<grant[g].attempt, side_of(c, grant[g].contract)>> \in installed'
        <5>1. usable_state(local[c][g]) BY <4>1, <4>4 DEF usable_state
        <5>2. local[c][g].attempt = grant[g].attempt /\ local[c][g].contract = grant[g].contract
          BY <4>1, <4>2, <4>4, Zenon DEF Agree
        <5> QED BY <4>2, <5>1, <5>2
      <4> QED BY <1>1, <3>1, <3>3, <4>3, <4>4 DEF UpOK
    <3>4. CASE m.type \notin {"GrantCommitted", "StatusReport"} BY <3>4 DEF UpOK
    <3> QED BY <3>2, <3>3, <3>4
  <2> QED BY <1>8, <2>1, <2>2, <2>3 DEF Served
<1>9. InFlight' BY <1>7, <1>8 DEF InFlight
<1> QED BY <1>3, <1>5, <1>6, <1>9 DEF AuthInv

(* The initial states satisfy AuthInv.                                       *)
LEMMA InitAuth ==
  ASSUME Init
  PROVE  AuthInv
<1>1. /\ link = [n \in Conn |-> NoLink] /\ serving /\ session = [n \in Conn |-> NoSession]
      /\ grant = [g \in Grant |-> NoGrant] /\ stored = grant /\ minted = 0
      /\ local = [c \in Cluster |-> [g \in Grant |-> NoGrant]]
      /\ \A c \in Cluster : agent[c].conn = NoConn
  BY DEF Init, LinksInit, CoordInit, AgentInit
<1>2. In(<<>>) = {} BY DEF In
<1>3. Ends BY <1>1 DEF Ends, NoLink, NoSession
<1>4. Tables /\ Locals
  BY <1>1 DEF Tables, Locals, Rightful, Agree, NoGrant, usable_state, Fenceable
<1>5. InFlight BY <1>1, <1>2 DEF InFlight, NoLink
<1> QED BY <1>3, <1>4, <1>5 DEF AuthInv

(***************************************************************************)
(* The steps of the agents.                                                *)
(***************************************************************************)

(* A step on one connection that only reads, closes or answers.              *)
LEMMA Serves ==
  ASSUME IndInv, NEW n \in Conn, NEW l, link' = [link EXCEPT ![n] = l],
         l.owner = link[n].owner, l.coordEnd = link[n].coordEnd,
         In(l.toAgent) \subseteq In(link[n].toAgent),
         \A m \in In(l.toCoord) : m \in In(link[n].toCoord) \/ Answer(n, m)
  PROVE  \A x \in Conn : Served(x)
<1> TAKE x \in Conn
<1>1. link \in [Conn -> Link] BY DEF IndInv, TypeOK, LinksTypeOK
<1>2. CASE x = n BY <1>1, <1>2 DEF Served
<1>3. CASE x # n
  <2>1. link'[x] = link[x] BY <1>1, <1>3
  <2> QED BY <2>1 DEF Served
<1> QED BY <1>2, <1>3

(* The connection of an agent is its own; closing it discards frames.        *)
LEMMA OwnConnection ==
  ASSUME IndInv, AuthInv, NEW c \in Cluster
  PROVE  /\ agent[c].conn \in Conn \cup {NoConn}
         /\ agent[c].conn # NoConn =>
              /\ link[agent[c].conn].owner = c /\ link[agent[c].conn] \in Link
              /\ link' = [link EXCEPT ![agent[c].conn] = close_agent(@)] =>
                   \A x \in Conn : Served(x)
<1>1. agent[c].conn \in Conn \cup {NoConn}
  BY DEF IndInv, TypeOK, AgentTypeOK, AgentRecord
<1>2. ASSUME agent[c].conn # NoConn
      PROVE  link[agent[c].conn].owner = c /\ link[agent[c].conn] \in Link
  BY <1>1, <1>2 DEF AuthInv, Ends, IndInv, TypeOK, LinksTypeOK
<1>3. ASSUME agent[c].conn # NoConn,
             link' = [link EXCEPT ![agent[c].conn] = close_agent(@)]
      PROVE  \A x \in Conn : Served(x)
  <2> DEFINE n == agent[c].conn
             l == close_agent(link[n])
  <2>1. n \in Conn /\ link[n] \in Link BY <1>1, <1>2, <1>3
  <2>2. /\ l.owner = link[n].owner /\ l.coordEnd = link[n].coordEnd
        /\ l.toCoord = link[n].toCoord /\ l.toAgent = <<>>
    BY <2>1 DEF close_agent, Link
  <2>3. link' = [link EXCEPT ![n] = l] BY <1>3
  <2>4. In(l.toAgent) \subseteq In(link[n].toAgent) BY <2>2 DEF In
  <2> HIDE DEF l
  <2> QED BY <2>1, <2>2, <2>3, <2>4, Serves, Zenon
<1> QED BY <1>1, <1>2, <1>3

(* What an agent finds when it handles a frame.                              *)
LEMMA Delivered ==
  ASSUME IndInv, AuthInv, NEW c \in Cluster, NEW type, recv_by(c, type)
  PROVE  LET n == agent[c].conn
             l == read_by_agent(link[n])
         IN  /\ n \in Conn /\ n # NoConn /\ link[n].owner = c
             /\ msg_of(c) \in In(link[n].toAgent) /\ msg_of(c) \in ToAgent
             /\ msg_of(c).type = type
             /\ read_of(c) = [link EXCEPT ![n] = l] /\ l \in Link
             /\ l.owner = link[n].owner /\ l.coordEnd = link[n].coordEnd
             /\ l.toCoord = link[n].toCoord /\ In(l.toAgent) \subseteq In(link[n].toAgent)
<1> DEFINE n == agent[c].conn
<1>1. n # NoConn /\ link[n].toAgent # <<>> /\ Head(link[n].toAgent).type = type BY DEF recv_by
<1>2. n \in Conn /\ link[n].owner = c /\ link[n] \in Link BY <1>1, OwnConnection
<1>3. link[n].toAgent \in Seq(ToAgent) BY <1>2 DEF Link
<1>4. /\ Head(link[n].toAgent) \in In(link[n].toAgent)
      /\ In(Tail(link[n].toAgent)) \subseteq In(link[n].toAgent)
      /\ Head(link[n].toAgent) \in ToAgent
  BY <1>1, <1>3, Queues
<1>5. read_by_agent(link[n]) \in Link BY <1>1, <1>2, LinkReads
<1>6. LET l == read_by_agent(link[n])
      IN  /\ l.owner = link[n].owner /\ l.coordEnd = link[n].coordEnd
          /\ l.toCoord = link[n].toCoord /\ l.toAgent = Tail(link[n].toAgent)
  BY <1>2 DEF read_by_agent, Link
<1> QED BY <1>1, <1>2, <1>4, <1>5, <1>6, Zenon DEF msg_of, read_of

(* An answer is added to the connection of the agent, if it has one.         *)
LEMMA Replies ==
  ASSUME IndInv, AuthInv, NEW c \in Cluster, NEW m \in ToCoord, NEW lk,
         agent[c].conn # NoConn => Answer(agent[c].conn, m),
         lk = link \/ (lk = read_of(c) /\ \E type : recv_by(c, type)),
         link' = send(c, lk, m)
  PROVE  \A x \in Conn : Served(x)
<1> DEFINE n == agent[c].conn
<1>1. CASE n = NoConn
  <2>1. ~ \E type : recv_by(c, type) BY <1>1 DEF recv_by
  <2>2. link' = link BY <1>1, <2>1 DEF send
  <2> QED BY <2>2 DEF Served
<1>2. CASE n # NoConn
  <2>1. n \in Conn /\ link[n] \in Link /\ link \in [Conn -> Link]
    BY <1>2, OwnConnection DEF IndInv, TypeOK, LinksTypeOK
  <2>2. PICK l \in Link :
          /\ lk = [link EXCEPT ![n] = l]
          /\ l.owner = link[n].owner /\ l.coordEnd = link[n].coordEnd
          /\ l.toCoord = link[n].toCoord /\ In(l.toAgent) \subseteq In(link[n].toAgent)
    <3>1. CASE lk = link
      <4>1. lk = [link EXCEPT ![n] = link[n]] BY <2>1, <3>1
      <4> QED BY <2>1, <4>1, Zenon
    <3>2. CASE lk = read_of(c) /\ \E type : recv_by(c, type) BY <3>2, Delivered
    <3> QED BY <3>1, <3>2
  <2> DEFINE k == to_coord(l, <<m>>)
  <2>3. /\ k.owner = l.owner /\ k.coordEnd = l.coordEnd /\ k.toAgent = l.toAgent
        /\ In(k.toCoord) \subseteq In(l.toCoord) \cup {m}
    <3>1. l.toCoord \in Seq(ToCoord) BY DEF Link
    <3>2. In(l.toCoord \o <<m>>) \subseteq In(l.toCoord) \cup {m} BY <3>1, Queues
    <3>3. k = l \/ k = [l EXCEPT !.toCoord = l.toCoord \o <<m>>] BY DEF to_coord
    <3> HIDE DEF k
    <3> QED BY <3>2, <3>3, Zenon DEF Link
  <2>4. link' = [link EXCEPT ![n] = k]
    <3>1. lk[n] = l BY <2>1, <2>2
    <3>2. link' = [lk EXCEPT ![n] = to_coord(lk[n], <<m>>)] BY <1>2 DEF send
    <3> QED BY <2>1, <2>2, <3>1, <3>2, Zenon
  <2> HIDE DEF k
  <2>5. \A x \in In(k.toCoord) : x \in In(link[n].toCoord) \/ Answer(n, x)
    BY <1>2, <2>2, <2>3
  <2> QED BY <2>1, <2>2, <2>3, <2>4, <2>5, Serves, Zenon
<1> QED BY <1>1, <1>2

(* A frame that is neither an acknowledgement of a commit nor a status       *)
(* report may always be sent.                                                *)
LEMMA Plain ==
  ASSUME IndInv, AuthInv, NEW c \in Cluster, agent[c].conn # NoConn
  PROVE  \A m : m.type \notin {"GrantCommitted", "StatusReport"} => Answer(agent[c].conn, m)
<1>1. link[agent[c].conn].owner = c BY OwnConnection
<1> QED BY <1>1 DEF Answer

(* A step that at most takes grants out of the agents' use keeps AuthInv.    *)
LEMMA QuietAuth ==
  ASSUME IndInv, AuthInv, UNCHANGED <<serving, coordVars>>, UNCHANGED installed,
         \A n \in Conn : Served(n),
         \A c \in Cluster, g \in Grant :
           \/ local'[c][g] = local[c][g]
           \/ \E s \in Closing : local'[c][g] = [local[c][g] EXCEPT !.state = s],
         \A c \in Cluster : agent'[c].conn \in {agent[c].conn, NoConn}
  PROVE  AuthInv'
<1>1. \A c \in Cluster, g \in Grant : Kept(c, g)
  <2> TAKE c \in Cluster, g \in Grant
  <2>1. local[c][g] \in GrantRecord BY DEF IndInv, TypeOK, AgentTypeOK
  <2>2. CASE local'[c][g] = local[c][g] BY <2>2 DEF Kept
  <2>3. CASE \E s \in Closing : local'[c][g] = [local[c][g] EXCEPT !.state = s]
    <3>1. PICK s \in Closing : local'[c][g] = [local[c][g] EXCEPT !.state = s] BY <2>3
    <3>2. /\ local'[c][g].attempt = local[c][g].attempt
          /\ local'[c][g].contract = local[c][g].contract /\ local'[c][g].state = s
      BY <2>1, <3>1 DEF GrantRecord
    <3>3. ~usable_state(local'[c][g]) BY <3>2 DEF usable_state, Closing
    <3> QED BY <3>2, <3>3 DEF Kept
  <2> QED BY <2>2, <2>3, Zenon
<1> QED BY <1>1, AgentsKeep

(* set_local and reevaluate_enforcement take grants out of use.              *)
LEMMA LocalRetires ==
  ASSUME IndInv, NEW c \in Cluster,
         \/ \E G : local' = set_local(c, G, "Fenced")
         \/ \E a : reevaluate_enforcement(a, c)
         \/ UNCHANGED local
  PROVE  \A d \in Cluster, g \in Grant :
           \/ local'[d][g] = local[d][g]
           \/ \E s \in Closing : local'[d][g] = [local[d][g] EXCEPT !.state = s]
<1>1. local \in [Cluster -> [Grant -> GrantRecord]] BY DEF IndInv, TypeOK, AgentTypeOK
<1>2. CASE \E G : local' = set_local(c, G, "Fenced") BY <1>1, <1>2 DEF set_local, Closing
<1>3. ASSUME NEW a, reevaluate_enforcement(a, c)
      PROVE  \A d \in Cluster, g \in Grant :
               \/ local'[d][g] = local[d][g]
               \/ \E s \in Closing : local'[d][g] = [local[d][g] EXCEPT !.state = s]
  <2>1. local' = [local EXCEPT ![c] = [g \in Grant |-> reevaluated(a, c, local[c][g])]]
    BY <1>3 DEF reevaluate_enforcement
  <2>2. \A r : reevaluated(a, c, r) = r \/ \E s \in Closing : reevaluated(a, c, r) = [r EXCEPT !.state = s]
    BY DEF reevaluated, Closing
  <2> QED BY <1>1, <2>1, <2>2
<1> QED BY <1>2, <1>3

(* Dialling, and giving a connection up, keep AuthInv.                       *)
LEMMA ConnectionAuth ==
  ASSUME IndInv, AuthInv, agents_only, NEW c \in Cluster,
         \/ connect_to_coordinator(c) \/ agent_disconnect(c) \/ handshake_deadline(c)
         \/ agent_crash(c)
  PROVE  AuthInv'
<1>1. UNCHANGED <<serving, coordVars>> /\ UNCHANGED installed /\ UNCHANGED local
  BY DEF agents_only, connect_to_coordinator, agent_disconnect, handshake_deadline, agent_crash,
         agentVars, historyVars
<1>2. link \in [Conn -> Link] /\ agent \in [Cluster -> AgentRecord]
  BY DEF IndInv, TypeOK, LinksTypeOK, AgentTypeOK
<1>3. CASE connect_to_coordinator(c)
  <2> DEFINE h == Hello(agent[c].id, agent[c].state)
             l == [NoLink EXCEPT !.owner = c, !.agentEnd = "open", !.coordEnd = "open",
                                 !.toCoord = <<h>>]
  <2>1. PICK n \in Conn : /\ link[n].owner = NoCluster /\ link' = [link EXCEPT ![n] = l]
                          /\ agent' = [agent EXCEPT ![c].conn = n, ![c].ready = FALSE]
    BY <1>3, Zenon DEF connect_to_coordinator
  <2>2. serving BY <1>3 DEF connect_to_coordinator
  <2>3. l.owner = c /\ l.toAgent = <<>> /\ l.toCoord = <<h>> /\ h.type = "Hello"
    BY DEF NoLink, Hello
  <2>4. c # NoCluster BY LinksAssumption
  <2> HIDE DEF l, h
  <2>5. In(l.toAgent) = {} /\ \A m \in In(l.toCoord) : m.type = "Hello" BY <2>3 DEF In
  <2>6. \A x \in Conn : Served(x) \/ Opened(x)
    <3> TAKE x \in Conn
    <3>1. CASE x = n
      <4>1. link'[x] = l BY <1>2, <2>1, <3>1
      <4> QED BY <2>1, <2>2, <2>3, <2>4, <2>5, <3>1, <4>1 DEF Opened
    <3>2. CASE x # n
      <4>1. link'[x] = link[x] BY <1>2, <2>1, <3>2
      <4> QED BY <4>1 DEF Served
    <3> QED BY <3>1, <3>2
  <2>7. \A d \in Cluster : \/ agent'[d].conn \in {agent[d].conn, NoConn}
                           \/ link'[agent'[d].conn].owner = d
    <3> TAKE d \in Cluster
    <3>1. CASE d # c BY <1>2, <2>1, <3>1
    <3>2. CASE d = c
      <4>1. agent'[d].conn = n BY <1>2, <2>1, <3>2 DEF AgentRecord
      <4> QED BY <1>2, <2>1, <2>3, <3>2, <4>1
    <3> QED BY <3>1, <3>2
  <2>8. \A d \in Cluster, g \in Grant : Kept(d, g) BY <1>1 DEF Kept
  <2> QED BY <1>1, <2>6, <2>7, <2>8, AgentsKeep
<1>4. ASSUME \A x \in Conn : Served(x),
             \A d \in Cluster : agent'[d].conn \in {agent[d].conn, NoConn}
      PROVE  AuthInv'
  BY <1>1, <1>4, QuietAuth
<1>5. CASE agent_disconnect(c)
  <2>1. /\ agent[c].conn # NoConn
        /\ link' = [link EXCEPT ![agent[c].conn] = close_agent(@)]
        /\ agent' = [agent EXCEPT ![c].conn = NoConn, ![c].ready = FALSE]
    BY <1>5 DEF agent_disconnect
  <2>2. \A x \in Conn : Served(x) BY <2>1, OwnConnection, Zenon
  <2>3. \A d \in Cluster : agent'[d].conn \in {agent[d].conn, NoConn}
    BY <1>2, <2>1 DEF AgentRecord
  <2> QED BY <1>4, <2>2, <2>3
<1>6. CASE handshake_deadline(c)
  <2>1. /\ agent[c].conn # NoConn /\ UNCHANGED agent
        /\ link' = [link EXCEPT ![agent[c].conn] = close_agent(@)]
    BY <1>6 DEF handshake_deadline, agentVars
  <2>2. \A x \in Conn : Served(x) BY <2>1, OwnConnection, Zenon
  <2> QED BY <1>4, <2>1, <2>2
<1>7. CASE agent_crash(c)
  <2>1. /\ agent' = [agent EXCEPT ![c] = [agent[c] EXCEPT !.up = FALSE, !.conn = NoConn,
                                                         !.ready = FALSE, !.cterm = 0]]
        /\ link' = [n \in Conn |-> IF n = agent[c].conn THEN close_agent(link[n]) ELSE link[n]]
    BY <1>7 DEF agent_crash
  <2>2. \A d \in Cluster : agent'[d].conn \in {agent[d].conn, NoConn}
    BY <1>2, <2>1 DEF AgentRecord
  <2>3. \A x \in Conn : Served(x)
    <3>1. CASE agent[c].conn = NoConn
      <4>1. NoConn \notin Conn BY LinksAssumption DEF Conn, NoConn
      <4>2. \A x \in Conn : link'[x] = link[x] BY <2>1, <3>1, <4>1
      <4> QED BY <4>2 DEF Served
    <3>2. CASE agent[c].conn # NoConn
      <4>1. agent[c].conn \in Conn BY <3>2, OwnConnection
      <4>2. link' = [link EXCEPT ![agent[c].conn] = close_agent(@)] BY <1>2, <2>1, <4>1, Zenon
      <4> QED BY <3>2, <4>2, OwnConnection, Zenon
    <3> QED BY <3>1, <3>2
  <2> QED BY <1>4, <2>2, <2>3
<1> QED BY <1>3, <1>5, <1>6, <1>7

(* on_prepare_grant keeps AuthInv: the record it stores is the one it was    *)
(* sent.                                                                     *)
LEMMA PrepareGrantAuth ==
  ASSUME IndInv, AuthInv, agents_only, NEW c \in Cluster, on_prepare_grant(c)
  PROVE  AuthInv'
<1> DEFINE n == agent[c].conn
           m == msg_of(c)
           r == m.record
<1>1. recv_by(c, "PrepareGrant") BY DEF on_prepare_grant
<1>2. /\ n \in Conn /\ n # NoConn /\ m \in In(link[n].toAgent) /\ m \in ToAgent
      /\ m.type = "PrepareGrant"
  BY <1>1, Delivered
<1>3. m.grant \in Grant /\ r \in GrantRecord BY <1>2, ToAgentFields
<1>4. PICK ok \in BOOLEAN :
        /\ local' = IF ok THEN [local EXCEPT ![c][m.grant] = [r EXCEPT !.state = "Prepared"]] ELSE local
        /\ link' = send(c, read_of(c), GrantPrepared(m.grant, r.attempt, ok))
  BY Zenon DEF on_prepare_grant, reply
<1>5. UNCHANGED <<serving, coordVars>> /\ UNCHANGED installed /\ UNCHANGED agent
  BY DEF agents_only, on_prepare_grant
<1> DEFINE a == GrantPrepared(m.grant, r.attempt, ok)
<1>6. a \in ToCoord /\ a.type = "GrantPrepared"
  BY <1>3 DEF ToCoord, GrantPrepared, GrantRecord
<1>7. Answer(n, a) BY <1>2, <1>6, Plain
<1>8. link' = send(c, read_of(c), a) BY <1>4
<1> HIDE DEF a
<1>9. \A x \in Conn : Served(x) BY <1>1, <1>6, <1>7, <1>8, Replies
<1>10. \A d \in Cluster, g \in Grant : Kept(d, g)
  <2> TAKE d \in Cluster, g \in Grant
  <2>1. local \in [Cluster -> [Grant -> GrantRecord]] BY DEF IndInv, TypeOK, AgentTypeOK
  <2>2. CASE local'[d][g] = local[d][g] BY <2>2 DEF Kept
  <2>3. CASE local'[d][g] # local[d][g]
    <3>1. g = m.grant /\ local'[d][g] = [r EXCEPT !.state = "Prepared"] BY <1>4, <2>1, <2>3
    <3>2. /\ local'[d][g].attempt = r.attempt /\ local'[d][g].contract = r.contract
          /\ local'[d][g].state = "Prepared"
      BY <1>3, <3>1 DEF GrantRecord
    <3>3. ~usable_state(local'[d][g]) BY <3>2 DEF usable_state
    <3> QED BY <1>2, <3>1, <3>2, <3>3 DEF Kept
  <2> QED BY <2>2, <2>3
<1> QED BY <1>5, <1>9, <1>10, AgentsKeep

(* on_commit_grant keeps AuthInv: it installs what it answers for.           *)
LEMMA CommitGrantAuth ==
  ASSUME IndInv, AuthInv, agents_only, NEW c \in Cluster, on_commit_grant(c)
  PROVE  AuthInv'
<1> DEFINE n == agent[c].conn
           m == msg_of(c)
           r == local[c][m.grant]
           x == <<r.attempt, side_of(c, r.contract)>>
<1>1. recv_by(c, "CommitGrant") BY Zenon DEF on_commit_grant
<1>2. /\ n \in Conn /\ n # NoConn /\ m \in In(link[n].toAgent) /\ m \in ToAgent
      /\ m.type = "CommitGrant" /\ link[n].owner = c
  BY <1>1, Delivered
<1>3. m.grant \in Grant /\ m.attempt \in Nat BY <1>2, ToAgentFields
<1>4. PICK ok \in BOOLEAN :
        /\ ok => r.attempt = m.attempt
        /\ local' = IF ok THEN set_local(c, {m.grant}, "Active") ELSE local
        /\ link' = send(c, read_of(c), GrantCommitted(m.grant, m.attempt, ok))
        /\ installed' = installed \cup {y \in {x} : ok}
  BY Zenon DEF on_commit_grant, reply
<1>5. UNCHANGED <<serving, coordVars>> /\ UNCHANGED agent BY DEF agents_only, on_commit_grant
<1>6. installed \subseteq installed' /\ (ok => x \in installed') BY <1>4
<1> DEFINE a == GrantCommitted(m.grant, m.attempt, ok)
<1>7. /\ a \in ToCoord /\ a.type = "GrantCommitted" /\ a.grant = m.grant
      /\ a.attempt = m.attempt /\ a.installed = ok
  BY <1>3 DEF ToCoord, GrantCommitted
<1>8. link' = send(c, read_of(c), a) BY <1>4
<1> HIDE DEF a
<1>9. Answer(n, a) BY <1>2, <1>4, <1>6, <1>7, Zenon DEF Answer
<1>10. \A y \in Conn : Served(y) BY <1>1, <1>7, <1>8, <1>9, Replies
<1>11. \A d \in Cluster, g \in Grant : Kept(d, g)
  <2> TAKE d \in Cluster, g \in Grant
  <2>1. local \in [Cluster -> [Grant -> GrantRecord]] BY DEF IndInv, TypeOK, AgentTypeOK
  <2>2. CASE local'[d][g] = local[d][g] BY <2>2 DEF Kept
  <2>3. CASE local'[d][g] # local[d][g]
    <3>1. d = c /\ g = m.grant /\ ok /\ local'[d][g] = [r EXCEPT !.state = "Active"]
      BY <1>4, <2>1, <2>3 DEF set_local
    <3>2. local'[d][g].attempt = r.attempt /\ local'[d][g].contract = r.contract
      BY <1>3, <2>1, <3>1 DEF GrantRecord
    <3> QED BY <1>6, <3>1, <3>2 DEF Kept
  <2> QED BY <2>2, <2>3
<1> QED BY <1>5, <1>6, <1>10, <1>11, AgentsKeep

(* The other handlers of the agents keep AuthInv.                            *)
LEMMA AgentMessageAuth ==
  ASSUME IndInv, AuthInv, agents_only, NEW c \in Cluster,
         on_hello_ack(c) \/ on_propose_contract(c) \/ on_fence(c) \/ on_status_request(c)
  PROVE  AuthInv'
<1> DEFINE n == agent[c].conn
           m == msg_of(c)
<1>1. UNCHANGED <<serving, coordVars>> /\ UNCHANGED installed
  BY DEF agents_only, on_hello_ack, on_propose_contract, on_fence, on_status_request,
         agentVars, historyVars
<1>2. agent[c] \in AgentRecord /\ agent \in [Cluster -> AgentRecord]
  BY DEF IndInv, TypeOK, AgentTypeOK
<1>3. CASE on_hello_ack(c)
  <2> DEFINE a == [agent[c] EXCEPT !.cterm = m.term, !.ready = TRUE]
             q == ReportCluster(a.id, a.state, a.withdrawn)
  <2>1. recv_by(c, "HelloAck") BY <1>3 DEF on_hello_ack
  <2>2. n \in Conn /\ n # NoConn /\ m \in ToAgent BY <2>1, Delivered, Zenon
  <2>3. CASE m.ok
    <3>1. /\ agent' = [agent EXCEPT ![c] = a] /\ link' = report_cluster(c, a, read_of(c))
          /\ \E G : local' = set_local(c, G, "Fenced")
      BY <1>3, <2>3, Zenon DEF on_hello_ack
    <3>2. a.conn = agent[c].conn /\ q \in ToCoord /\ q.type = "ReportCluster"
      BY <1>2 DEF AgentRecord, ToCoord, ReportCluster
    <3>3. link' = send(c, read_of(c), q) BY <3>1 DEF report_cluster
    <3> HIDE DEF q, a
    <3>4. Answer(n, q) BY <2>2, <3>2, Plain
    <3>5. \A x \in Conn : Served(x) BY <2>1, <3>2, <3>3, <3>4, Replies
    <3>6. \A d \in Cluster : agent'[d].conn \in {agent[d].conn, NoConn} BY <1>2, <3>1, <3>2
    <3> QED BY <1>1, <3>1, <3>5, <3>6, LocalRetires, QuietAuth
  <2>4. CASE ~m.ok
    <3>1. /\ link' = [link EXCEPT ![n] = close_agent(@)] /\ UNCHANGED <<agent, local>>
      BY <1>3, <2>4 DEF on_hello_ack
    <3>2. \A x \in Conn : Served(x) BY <2>2, <3>1, OwnConnection, Zenon
    <3> QED BY <1>1, <3>1, <3>2, QuietAuth
  <2> QED BY <2>3, <2>4
<1>4. CASE on_propose_contract(c)
  <2>1. recv_by(c, "ProposeContract") BY <1>4 DEF on_propose_contract
  <2>2. n \in Conn /\ n # NoConn /\ m \in ToAgent /\ m.type = "ProposeContract"
    BY <2>1, Delivered, Zenon
  <2>3. PICK d \in {"Accepted", "Refused"} :
          link' = send(c, read_of(c), ContractConsent(m.contract, m.terms, agent[c].id, d))
    BY <1>4 DEF on_propose_contract, reply
  <2> DEFINE q == ContractConsent(m.contract, m.terms, agent[c].id, d)
  <2>4. q \in ToCoord /\ q.type = "ContractConsent"
    BY <1>2, <2>2, ToAgentFields, Zenon DEF ToCoord, ContractConsent, Decision, AgentRecord
  <2>5. link' = send(c, read_of(c), q) BY <2>3
  <2> HIDE DEF q
  <2>6. Answer(n, q) BY <2>2, <2>4, Plain
  <2>7. \A x \in Conn : Served(x) BY <2>1, <2>4, <2>5, <2>6, Replies
  <2>8. UNCHANGED <<agent, local>> BY <1>4 DEF on_propose_contract
  <2> QED BY <1>1, <2>7, <2>8, QuietAuth
<1>5. CASE on_fence(c)
  <2> DEFINE l == read_by_agent(link[n])
  <2>1. recv_by(c, "Fence") BY <1>5 DEF on_fence
  <2>2. /\ n \in Conn /\ read_of(c) = [link EXCEPT ![n] = l]
        /\ l.owner = link[n].owner /\ l.coordEnd = link[n].coordEnd
        /\ l.toCoord = link[n].toCoord /\ In(l.toAgent) \subseteq In(link[n].toAgent)
    BY <2>1, Delivered, Zenon
  <2>3. /\ link' = read_of(c) /\ UNCHANGED agent
        /\ \E G : local' = set_local(c, G, "Fenced")
    BY <1>5, Zenon DEF on_fence
  <2> HIDE DEF l
  <2>4. \A x \in Conn : Served(x) BY <2>2, <2>3, Serves, Zenon
  <2> QED BY <1>1, <2>3, <2>4, LocalRetires, QuietAuth
<1>6. CASE on_status_request(c)
  <2> DEFINE e == [g \in Grant |-> [attempt |-> local[c][g].attempt, state |-> local[c][g].state]]
             q == StatusReport(e)
  <2>1. recv_by(c, "StatusRequest") BY <1>6 DEF on_status_request
  <2>2. n \in Conn /\ n # NoConn /\ link[n].owner = c BY <2>1, Delivered
  <2>3. link' = send(c, read_of(c), q) /\ UNCHANGED <<agent, local>>
    BY <1>6 DEF on_status_request, reply, agentVars
  <2>4. e \in [Grant -> StatusEntry]
    BY DEF IndInv, TypeOK, AgentTypeOK, GrantRecord, StatusEntry
  <2>5. \A g \in Grant : e[g].attempt = local[c][g].attempt /\ e[g].state = local[c][g].state
    OBVIOUS
  <2> HIDE DEF e
  <2>6. q \in ToCoord /\ q.type = "StatusReport" /\ q.grants = e
    BY <2>4 DEF ToCoord, StatusReport
  <2> HIDE DEF q
  <2>7. Answer(n, q) BY <2>2, <2>5, <2>6, Zenon DEF Answer
  <2>8. \A x \in Conn : Served(x) BY <2>1, <2>3, <2>6, <2>7, Replies
  <2> QED BY <1>1, <2>3, <2>8, QuietAuth
<1> QED BY <1>3, <1>4, <1>5, <1>6

(* A new record of an agent, and the report of it.                           *)
LEMMA LocalChange ==
  ASSUME IndInv, AuthInv, agents_only, UNCHANGED installed, NEW c \in Cluster,
         NEW a \in AgentRecord, a.conn = agent[c].conn, agent' = [agent EXCEPT ![c] = a],
         report_if_ready(c, a) \/ (\E id \in Identity : link' = send(c, link, Withdraw(id))) \/ UNCHANGED link,
         \/ \E G : local' = set_local(c, G, "Fenced")
         \/ \E b : reevaluate_enforcement(b, c)
         \/ UNCHANGED local
  PROVE  AuthInv'
<1>1. UNCHANGED <<serving, coordVars>> BY DEF agents_only
<1>2. \A x \in Conn : Served(x)
  <2>1. CASE link' = link BY <2>1 DEF Served
  <2>2. ASSUME NEW m \in ToCoord, m.type \in {"ReportCluster", "Withdraw"}, link' = send(c, link, m)
        PROVE  \A x \in Conn : Served(x)
    <3>1. agent[c].conn # NoConn => Answer(agent[c].conn, m) BY <2>2, Plain
    <3> QED BY <2>2, <3>1, Replies
  <2>3. ReportCluster(a.id, a.state, a.withdrawn) \in ToCoord
    BY Zenon DEF ToCoord, ReportCluster, AgentRecord
  <2>4. CASE report_if_ready(c, a)
    <3>1. ReportCluster(a.id, a.state, a.withdrawn).type = "ReportCluster" BY DEF ReportCluster
    <3> QED BY <2>1, <2>2, <2>3, <2>4, <3>1 DEF report_if_ready, report_cluster
  <2>5. ASSUME NEW id \in Identity, link' = send(c, link, Withdraw(id))
        PROVE  \A x \in Conn : Served(x)
    <3>1. Withdraw(id) \in ToCoord /\ Withdraw(id).type = "Withdraw" BY Zenon DEF ToCoord, Withdraw
    <3> QED BY <2>2, <2>5, <3>1
  <2> QED BY <2>1, <2>4, <2>5
<1>3. \A d \in Cluster : agent'[d].conn \in {agent[d].conn, NoConn}
  BY DEF IndInv, TypeOK, AgentTypeOK
<1> QED BY <1>1, <1>2, <1>3, LocalRetires, QuietAuth, Zenon

(* The requests of the local operator, the agent's tick and its start keep   *)
(* AuthInv.                                                                  *)
LEMMA LocalOperatorAuth ==
  ASSUME IndInv, AuthInv, agents_only, NEW c \in Cluster,
         \/ \E s \in {"Active", "Suspended"} : set_cluster_state(c, s)
         \/ withdraw_locally(c) \/ restore_locally(c)
         \/ \E g \in Grant : fence_local_grant(c, g)
         \/ bump_generation(c) \/ set_policy_generation(c) \/ agent_tick(c)
         \/ \E configured \in Nat : agent_begin_incarnation(c, configured)
  PROVE  AuthInv'
<1> USE DEF historyVars
<1>1. agent[c] \in AgentRecord /\ agent[c].id \in Identity
  BY DEF IndInv, TypeOK, AgentTypeOK, AgentRecord
<1>2. agent = [agent EXCEPT ![c] = agent[c]] BY DEF IndInv, TypeOK, AgentTypeOK
<1>3. ASSUME NEW s \in {"Active", "Suspended"}, set_cluster_state(c, s) PROVE AuthInv'
  <2> DEFINE a == [agent[c] EXCEPT !.state = s]
  <2>1. a \in AgentRecord /\ a.conn = agent[c].conn BY <1>1 DEF AgentRecord, ClusterState
  <2>2. /\ agent' = [agent EXCEPT ![c] = a] /\ reevaluate_enforcement(a, c)
        /\ report_if_ready(c, a) /\ UNCHANGED installed
    BY <1>3 DEF set_cluster_state
  <2> HIDE DEF a
  <2> QED BY <2>1, <2>2, LocalChange, Zenon
<1>4. CASE withdraw_locally(c)
  <2> DEFINE a == [agent[c] EXCEPT !.withdrawn = TRUE]
  <2>1. a \in AgentRecord /\ a.conn = agent[c].conn /\ a.id \in Identity
    BY <1>1, Zenon DEF AgentRecord
  <2>2. /\ agent' = [agent EXCEPT ![c] = a] /\ reevaluate_enforcement(a, c)
        /\ link' = send(c, link, Withdraw(a.id)) \/ link' = link
        /\ UNCHANGED installed
    BY <1>4 DEF withdraw_locally
  <2> HIDE DEF a
  <2> QED BY <2>1, <2>2, LocalChange, Zenon
<1>5. CASE restore_locally(c)
  <2> DEFINE a == [agent[c] EXCEPT !.withdrawn = FALSE]
  <2>1. a \in AgentRecord /\ a.conn = agent[c].conn BY <1>1, Zenon DEF AgentRecord
  <2>2. agent' = [agent EXCEPT ![c] = a] /\ UNCHANGED <<link, local, installed>>
    BY <1>5 DEF restore_locally
  <2> HIDE DEF a
  <2> QED BY <2>1, <2>2, LocalChange, Zenon
<1>6. ASSUME NEW g \in Grant, fence_local_grant(c, g) PROVE AuthInv'
  <2>1. local' = set_local(c, {g}, "Fenced") /\ UNCHANGED <<link, agent, installed>>
    BY <1>6 DEF fence_local_grant
  <2> QED BY <1>1, <1>2, <2>1, LocalChange
<1>7. CASE bump_generation(c)
  <2> DEFINE id == [agent[c].id EXCEPT !.gen = agent[c].id.gen + 1]
             a == [agent[c] EXCEPT !.id = id]
  <2>1. id \in Identity BY <1>1 DEF Identity
  <2>2. /\ agent' = [agent EXCEPT ![c] = a] /\ \E G : local' = set_local(c, G, "Fenced")
        /\ report_if_ready(c, a) /\ UNCHANGED installed
    BY <1>7, Zenon DEF bump_generation
  <2> HIDE DEF id
  <2>3. a \in AgentRecord /\ a.conn = agent[c].conn BY <1>1, <2>1 DEF AgentRecord
  <2> HIDE DEF a
  <2> QED BY <2>2, <2>3, LocalChange, Zenon
<1>8. CASE set_policy_generation(c)
  <2> DEFINE id == [agent[c].id EXCEPT !.pol = agent[c].id.pol + 1]
             a == [agent[c] EXCEPT !.id = id]
  <2>1. id \in Identity BY <1>1 DEF Identity
  <2>2. /\ agent' = [agent EXCEPT ![c] = a] /\ reevaluate_enforcement(a, c)
        /\ report_if_ready(c, a) /\ UNCHANGED installed
    BY <1>8 DEF set_policy_generation
  <2> HIDE DEF id
  <2>3. a \in AgentRecord /\ a.conn = agent[c].conn BY <1>1, <2>1 DEF AgentRecord
  <2> HIDE DEF a
  <2> QED BY <2>2, <2>3, LocalChange, Zenon
<1>9. CASE agent_tick(c)
  <2>1. reevaluate_enforcement(agent[c], c) /\ UNCHANGED <<link, agent, installed>>
    BY <1>9 DEF agent_tick
  <2> QED BY <1>1, <1>2, <2>1, LocalChange
<1>10. ASSUME NEW n \in Nat, agent_begin_incarnation(c, n) PROVE AuthInv'
  <2> DEFINE gen == IF n = agent[c].id.gen THEN agent[c].id.gen + 1 ELSE n
             id == [agent[c].id EXCEPT !.inc = agent[c].id.inc + 1, !.gen = gen]
             a == [agent[c] EXCEPT !.up = TRUE, !.id = id]
  <2>1. gen \in Nat /\ agent[c].id.inc + 1 \in Nat
    <3>1. agent[c].id.gen \in Nat /\ agent[c].id.inc \in Nat BY <1>1 DEF Identity
    <3>2. \A x \in Nat : x + 1 \in Nat OBVIOUS
    <3> QED BY <3>1, <3>2, Zenon
  <2>2. id \in Identity BY <1>1, <2>1, Zenon DEF Identity
  <2>3. /\ agent' = [agent EXCEPT ![c] = a] /\ \E G : local' = set_local(c, G, "Fenced")
        /\ UNCHANGED <<link, installed>>
    BY <1>10, Zenon DEF agent_begin_incarnation
  <2> HIDE DEF id
  <2>4. a \in AgentRecord /\ a.conn = agent[c].conn BY <1>1, <2>2, Zenon DEF AgentRecord
  <2> HIDE DEF a
  <2> QED BY <2>3, <2>4, LocalChange, Zenon
<1> QED BY <1>3, <1>4, <1>5, <1>6, <1>7, <1>8, <1>9, <1>10

(***************************************************************************)
(* Every step of the agents and of the world.                              *)
(***************************************************************************)

(* A broken connection, the lapse of a lease and a stuttering step keep      *)
(* AuthInv.                                                                  *)
LEMMA WorldAuth ==
  ASSUME IndInv, AuthInv, (\E n \in Conn : Break(n)) \/ Lapse \/ UNCHANGED vars
  PROVE  AuthInv'
<1>1. UNCHANGED <<serving, coordVars>> /\ UNCHANGED <<agent, local, installed>>
  BY Zenon DEF Break, break, Lapse, vars, worldVars, agentVars
<1>2. \A x \in Conn : Served(x)
  <2>1. CASE link' = link BY <2>1 DEF Served
  <2>2. ASSUME NEW n \in Conn, Break(n) PROVE \A x \in Conn : Served(x)
    <3> DEFINE l == [link[n] EXCEPT !.cut = TRUE, !.toCoord = <<>>, !.toAgent = <<>>]
    <3>1. link[n] \in Link BY DEF IndInv, TypeOK, LinksTypeOK
    <3>2. link' = [link EXCEPT ![n] = l] BY <2>2, Zenon DEF Break, break
    <3>3. /\ l.owner = link[n].owner /\ l.coordEnd = link[n].coordEnd
          /\ l.toCoord = <<>> /\ l.toAgent = <<>>
      BY <3>1 DEF Link
    <3> HIDE DEF l
    <3>4. In(l.toAgent) = {} /\ In(l.toCoord) = {} BY <3>3 DEF In
    <3> QED BY <3>2, <3>3, <3>4, Serves, Zenon
  <2> QED BY <2>1, <2>2 DEF Lapse, vars, worldVars
<1> QED BY <1>1, <1>2, QuietAuth

(* Every step of an agent keeps AuthInv.                                     *)
LEMMA AgentAuth ==
  ASSUME IndInv, AuthInv, NEW c \in Cluster,
         \/ Agent_Connect(c) \/ Agent_Disconnect(c) \/ Agent_Message(c) \/ Agent_Tick(c)
         \/ Agent_Handshake_Deadline(c) \/ Agent_Crash(c) \/ Agent_Start(c) \/ Local_Operator(c)
  PROVE  AuthInv'
<1>1. agents_only
  BY DEF Agent_Connect, Agent_Disconnect, Agent_Message, Agent_Tick,
         Agent_Handshake_Deadline, Agent_Crash, Agent_Start, Local_Operator
<1>2. CASE \/ Agent_Connect(c) \/ Agent_Disconnect(c) \/ Agent_Handshake_Deadline(c)
           \/ Agent_Crash(c)
  BY <1>1, <1>2, ConnectionAuth
  DEF Agent_Connect, Agent_Disconnect, Agent_Handshake_Deadline, Agent_Crash
<1>3. CASE Agent_Message(c)
  BY <1>1, <1>3, AgentMessageAuth, PrepareGrantAuth, CommitGrantAuth
  DEF Agent_Message, agent_handle_message
<1>4. CASE Agent_Tick(c) BY <1>1, <1>4, LocalOperatorAuth DEF Agent_Tick
<1>5. CASE Agent_Start(c) BY <1>1, <1>5, LocalOperatorAuth, FabricAssumption DEF Agent_Start
<1>6. CASE Local_Operator(c) BY <1>1, <1>6, LocalOperatorAuth DEF Local_Operator
<1> QED BY <1>2, <1>3, <1>4, <1>5, <1>6

(* Agents only add to what they have installed.                              *)
LEMMA AgentsInstall ==
  ASSUME NEW c \in Cluster,
         \/ Agent_Connect(c) \/ Agent_Disconnect(c) \/ Agent_Message(c) \/ Agent_Tick(c)
         \/ Agent_Handshake_Deadline(c) \/ Agent_Crash(c) \/ Agent_Start(c) \/ Local_Operator(c)
  PROVE  UNCHANGED <<term, grant>> /\ installed \subseteq installed'
<1>1. UNCHANGED <<term, grant>>
  BY Zenon DEF Agent_Connect, Agent_Disconnect, Agent_Message, Agent_Tick, Agent_Handshake_Deadline,
     Agent_Crash, Agent_Start, Local_Operator, agents_only, coordVars
<1>2. on_hello_ack(c) \/ on_propose_contract(c) \/ on_fence(c) \/ on_status_request(c)
        => UNCHANGED installed
  BY DEF on_hello_ack, on_propose_contract, on_fence, on_status_request, agentVars, historyVars
<1>3. on_prepare_grant(c) => UNCHANGED installed BY DEF on_prepare_grant
<1>4. on_commit_grant(c) => installed \subseteq installed' BY Zenon DEF on_commit_grant
<1>5. CASE Agent_Message(c)
  BY <1>1, <1>2, <1>3, <1>4, <1>5 DEF Agent_Message, agent_handle_message
<1>6. CASE \/ Agent_Connect(c) \/ Agent_Disconnect(c) \/ Agent_Tick(c)
           \/ Agent_Handshake_Deadline(c) \/ Agent_Crash(c) \/ Agent_Start(c)
  <2>1. (connect_to_coordinator(c) \/ agent_disconnect(c) \/ agent_tick(c)
           \/ handshake_deadline(c) \/ agent_crash(c)) => UNCHANGED installed
    BY DEF connect_to_coordinator, agent_disconnect, agent_tick, handshake_deadline, agent_crash,
           agentVars, historyVars
  <2>2. \A x : agent_begin_incarnation(c, x) => UNCHANGED installed
    BY DEF agent_begin_incarnation, historyVars
  <2> QED
    BY <1>1, <1>6, <2>1, <2>2
    DEF Agent_Connect, Agent_Disconnect, Agent_Tick, Agent_Handshake_Deadline, Agent_Crash,
        Agent_Start
<1>7. CASE Local_Operator(c)
  <2>1. withdraw_locally(c) \/ restore_locally(c) => UNCHANGED installed
    BY DEF withdraw_locally, restore_locally, historyVars
  <2>2. bump_generation(c) \/ set_policy_generation(c) => UNCHANGED installed
    BY DEF bump_generation, set_policy_generation, historyVars
  <2>3. \A x : set_cluster_state(c, x) \/ fence_local_grant(c, x) => UNCHANGED installed
    BY DEF set_cluster_state, fence_local_grant, historyVars
  <2> QED BY <1>1, <1>7, <2>1, <2>2, <2>3 DEF Local_Operator
<1> QED BY <1>5, <1>6, <1>7
=============================================================================
