----------------------- MODULE CoordinatorAuthority ------------------------
(***************************************************************************)
(* Every step of the coordinator keeps AuthInv: what an acknowledgement    *)
(* rests on.                                                               *)
(***************************************************************************)
EXTENDS FabricLemmas

(* Every leaf may take this long. *)
USE SMTT(30), ZenonT(10)

(* A step of the coordinator from the connections lk to the connections kl:  *)
(* it closes and reads, and adds frames of S for the agents.                 *)
Moved(lk, kl, S) ==
  \A n \in Conn :
    /\ kl[n].owner = lk[n].owner
    /\ kl[n].coordEnd = "open" => lk[n].coordEnd = "open"
    /\ In(kl[n].toCoord) \subseteq In(lk[n].toCoord)
    /\ In(kl[n].toAgent) \subseteq In(lk[n].toAgent) \cup S

(* Steps on connections follow one another.                                  *)
LEMMA MovedOn ==
  ASSUME NEW a, NEW b, NEW c, NEW S, NEW T, NEW U, Moved(a, b, S), Moved(b, c, T),
         S \subseteq U, T \subseteq U
  PROVE  Moved(a, c, U)
BY DEF Moved

(* A step that changes nothing.                                              *)
LEMMA MovedNot ==
  ASSUME NEW lk, NEW S
  PROVE  Moved(lk, lk, S)
BY DEF Moved

(* A write to the agent's end of one connection.                             *)
LEMMA MovedWrite ==
  ASSUME NEW l \in Link, NEW msgs \in Seq(ToAgent)
  PROVE  LET k == to_agent(l, msgs)
         IN  /\ k.owner = l.owner /\ k.coordEnd = l.coordEnd /\ k.toCoord = l.toCoord
             /\ In(k.toAgent) \subseteq In(l.toAgent) \cup In(msgs)
<1>1. l.toAgent \in Seq(ToAgent) BY DEF Link
<1>2. In(l.toAgent \o msgs) \subseteq In(l.toAgent) \cup In(msgs) BY <1>1, Queues
<1>3. CASE alive(l)
  <2>1. to_agent(l, msgs) = [l EXCEPT !.toAgent = l.toAgent \o msgs] BY <1>3 DEF to_agent
  <2> QED BY <1>2, <2>1 DEF Link
<1>4. CASE ~alive(l) BY <1>4 DEF to_agent
<1> QED BY <1>3, <1>4

(* The coordinator reads a frame, closes a connection, sends a frame to one  *)
(* agent or to two, or to all of them.                                       *)
LEMMA MovedSends ==
  ASSUME NEW lk \in [Conn -> Link], NEW m \in ToAgent
  PROVE  /\ \A n \in Conn \cup {NoConn} : Moved(lk, send_one(lk, n, m), {m})
         /\ \A t \in [Side -> Conn \cup {NoConn}] : Moved(lk, send_both(lk, t, m), {m})
<1>1. <<m>> \in Seq(ToAgent) /\ In(<<m>>) = {m} BY DEF In
<1>2. ASSUME NEW l \in [Conn -> Link], NEW n \in Conn \cup {NoConn}
      PROVE  Moved(l, send_one(l, n, m), {m}) /\ send_one(l, n, m) \in [Conn -> Link]
  <2>1. send_one(l, n, m) \in [Conn -> Link] BY Sends
  <2>2. CASE n = NoConn BY <2>1, <2>2, MovedNot DEF send_one, can_send
  <2>3. CASE n \in Conn
    <3> DEFINE k == to_agent(l[n], <<m>>)
    <3>1. /\ k.owner = l[n].owner /\ k.coordEnd = l[n].coordEnd /\ k.toCoord = l[n].toCoord
          /\ In(k.toAgent) \subseteq In(l[n].toAgent) \cup {m}
      BY <1>1, <2>3, MovedWrite, Zenon
    <3>2. send_one(l, n, m) = l \/ send_one(l, n, m) = [l EXCEPT ![n] = k] BY DEF send_one
    <3> HIDE DEF k
    <3>3. Moved(l, [l EXCEPT ![n] = k], {m}) BY <2>3, <3>1 DEF Moved
    <3> QED BY <2>1, <3>2, <3>3, MovedNot, Zenon
  <2> QED BY <2>2, <2>3
<1>3. ASSUME NEW t \in [Side -> Conn \cup {NoConn}] PROVE Moved(lk, send_both(lk, t, m), {m})
  <2>1. t[0] \in Conn \cup {NoConn} /\ t[1] \in Conn \cup {NoConn} BY DEF Side
  <2>2. /\ Moved(lk, send_one(lk, t[0], m), {m})
        /\ send_one(lk, t[0], m) \in [Conn -> Link]
    BY <1>2, <2>1, Zenon
  <2>3. Moved(send_one(lk, t[0], m), send_one(send_one(lk, t[0], m), t[1], m), {m})
    BY <1>2, <2>1, <2>2, Zenon
  <2>4. Moved(lk, send_one(send_one(lk, t[0], m), t[1], m), {m}) BY <2>2, <2>3, MovedOn
  <2> QED BY <2>4, MovedNot DEF send_both
<1> QED BY <1>2, <1>3, Zenon

(* broadcast_fence adds one Fence frame to the connections with a session.   *)
LEMMA MovedBroadcast ==
  ASSUME NEW lk \in [Conn -> Link], NEW G \in SUBSET Grant
  PROVE  Moved(lk, broadcast_fence(lk, G), {Fence(G)})
<1>1. <<Fence(G)>> \in Seq(ToAgent) /\ In(<<Fence(G)>>) = {Fence(G)} BY DEF ToAgent, Fence, In
<1>2. ASSUME NEW n \in Conn
      PROVE  LET k == to_agent(lk[n], <<Fence(G)>>)
             IN  /\ k.owner = lk[n].owner /\ k.coordEnd = lk[n].coordEnd
                 /\ k.toCoord = lk[n].toCoord
                 /\ In(k.toAgent) \subseteq In(lk[n].toAgent) \cup {Fence(G)}
  BY <1>1, MovedWrite, Zenon
<1>3. CASE G = {} BY <1>3, MovedNot DEF broadcast_fence
<1>4. CASE G # {} BY <1>2, <1>4 DEF broadcast_fence, Moved
<1> QED BY <1>3, <1>4

(* Reading and closing add nothing.                                          *)
LEMMA MovedReads ==
  ASSUME link \in [Conn -> Link], NEW n \in Conn, link[n].toCoord # <<>>
  PROVE  Moved(link, read(n), {})
<1>1. link[n] \in Link /\ link[n].toCoord \in Seq(ToCoord) BY DEF Link
<1>2. In(Tail(link[n].toCoord)) \subseteq In(link[n].toCoord) BY <1>1, Queues
<1> DEFINE t == Tail(link[n].toCoord)
<1>3. read(n) = [link EXCEPT ![n] = [link[n] EXCEPT !.toCoord = t]] BY DEF read, read_by_coord
<1> HIDE DEF t
<1> QED BY <1>1, <1>2, <1>3 DEF Moved, Link, t

(* Closing the coordinator's end adds nothing.                               *)
LEMMA MovedCloses ==
  ASSUME NEW lk \in [Conn -> Link], NEW n \in Conn
  PROVE  /\ Moved(lk, [lk EXCEPT ![n] = close_coord(@)], {})
         /\ \A failed : Moved(lk, close_on(failed, lk, n), {})
<1>1. lk[n] \in Link OBVIOUS
<1>2. In(<<>>) = {} BY DEF In
<1>3. Moved(lk, [lk EXCEPT ![n] = close_coord(@)], {}) BY <1>1, <1>2 DEF Moved, close_coord, Link
<1> QED BY <1>3, MovedNot, Zenon DEF close_on

(* Frames sent on one connection.                                            *)
LEMMA MovedOne ==
  ASSUME NEW lk \in [Conn -> Link], NEW n \in Conn, NEW msgs \in Seq(ToAgent)
  PROVE  Moved(lk, [lk EXCEPT ![n] = to_agent(@, msgs)], In(msgs))
<1> DEFINE k == to_agent(lk[n], msgs)
<1>1. /\ k.owner = lk[n].owner /\ k.coordEnd = lk[n].coordEnd /\ k.toCoord = lk[n].toCoord
      /\ In(k.toAgent) \subseteq In(lk[n].toAgent) \cup In(msgs)
  BY MovedWrite
<1> HIDE DEF k
<1>2. Moved(lk, [lk EXCEPT ![n] = k], In(msgs)) BY <1>1 DEF Moved
<1> QED BY <1>2 DEF k

(* The answer to a handshake.                                                *)
LEMMA MovedGreet ==
  ASSUME term \in Nat, NEW lk \in [Conn -> Link], NEW n \in Conn, NEW ok \in BOOLEAN,
         NEW G \in SUBSET Grant
  PROVE  Moved(lk, greet(lk, n, ok, G), {HelloAck(ok, term), Fence(G), StatusRequest})
<1> DEFINE a == HelloAck(ok, term)
           f == Fence(G)
           first == <<a>> \o (IF G = {} THEN <<>> ELSE <<f>>)
           msgs == first \o <<StatusRequest>>
<1>1. a \in ToAgent /\ f \in ToAgent /\ StatusRequest \in ToAgent
  BY DEF ToAgent, HelloAck, Fence, StatusRequest
<1>2. greet(lk, n, ok, G) = [lk EXCEPT ![n] = to_agent(@, msgs)] BY DEF greet
<1> HIDE DEF a, f
<1>3. <<a>> \in Seq(ToAgent) /\ In(<<a>>) = {a} BY <1>1 DEF In
<1>4. first \in Seq(ToAgent) /\ In(first) \subseteq {a, f}
  <2>1. CASE G = {}
    <3>1. first = <<a>> BY <2>1, <1>3
    <3> QED BY <1>3, <3>1, Zenon
  <2>2. CASE G # {}
    <3>1. first = <<a>> \o <<f>> BY <2>2
    <3>2. first \in Seq(ToAgent) BY <1>1, <1>3, <3>1
    <3>3. In(<<a>> \o <<f>>) \subseteq In(<<a>>) \cup {f} BY <1>1, <1>3, Queues, Zenon
    <3> QED BY <1>3, <3>1, <3>2, <3>3, Zenon
  <2> QED BY <2>1, <2>2, Zenon
<1> HIDE DEF first
<1>5. msgs \in Seq(ToAgent) /\ In(msgs) \subseteq {a, f, StatusRequest}
  BY <1>1, <1>4, Queues
<1> HIDE DEF msgs
<1>6. Moved(lk, [lk EXCEPT ![n] = to_agent(@, msgs)], In(msgs)) BY <1>5, MovedOne, Zenon
<1>7. Moved(lk, greet(lk, n, ok, G), {a, f, StatusRequest}) BY <1>2, <1>5, <1>6 DEF Moved
<1> QED BY <1>7 DEF a, f

(***************************************************************************)
(* What a step of the coordinator does to the record of a grant: it keeps  *)
(* the attempt, or draws a new one; it counts only acknowledgements of     *)
(* what is installed; and it writes the record or leaves the store alone.  *)
(***************************************************************************)
Recorded(g) ==
  /\ \/ /\ grant'[g].attempt = grant[g].attempt
        /\ grant'[g].contract = grant[g].contract
        /\ grant'[g].term = grant[g].term
     \/ /\ minted' = minted + 1 /\ grant'[g].attempt = minted + 1
        /\ grant'[g].term = term
  /\ grant'[g].state \in Fenceable => grant'[g].term = term
  /\ usable_state(grant'[g]) => both_acknowledged(grant'[g])
  /\ \A i \in Side : grant'[g].ack[i] => <<grant'[g].attempt, i>> \in installed
  /\ stored'[g] = stored[g] \/ stored'[g] = grant'[g]

(* A frame the coordinator sends names the attempt its table now has.        *)
Issued(m) ==
  /\ m.type = "PrepareGrant" =>
       /\ m.grant \in Grant
       /\ m.record.attempt = grant'[m.grant].attempt
       /\ m.record.contract = grant'[m.grant].contract
  /\ m.type = "CommitGrant" =>
       /\ m.grant \in Grant
       /\ m.attempt = grant'[m.grant].attempt /\ grant'[m.grant].term = term

(* A step that treats every grant so, sends only such frames, those of S, and  *)
(* has sessions only with the owners of their connections.                    *)
Coordinated(S) ==
  /\ UNCHANGED <<serving, agentVars, term>>
  /\ minted' = minted \/ minted' = minted + 1
  /\ Moved(link, link', S)
  /\ \A m \in S : Issued(m)
  /\ \A g \in Grant : Recorded(g)
  /\ \A n \in Conn : session'[n].on =>
       session'[n].cluster = link[n].owner /\ link[n].owner # NoCluster

(* Such a step of the coordinator keeps AuthInv.                             *)
LEMMA CoordinatorKeeps ==
  ASSUME IndInv, AuthInv, NEW S, Coordinated(S)
  PROVE  AuthInv'
<1>1. UNCHANGED <<serving, term, agent, local, installed>> BY Zenon DEF Coordinated, agentVars
<1>m. Moved(link, link', S) BY Zenon DEF Coordinated
<1>i. \A m \in S : Issued(m) BY Zenon DEF Coordinated
<1>r. \A g \in Grant : Recorded(g) BY Zenon DEF Coordinated
<1>s. \A n \in Conn : session'[n].on =>
        session'[n].cluster = link[n].owner /\ link[n].owner # NoCluster
  BY Zenon DEF Coordinated
<1>2. minted \in Nat /\ minted' \in Nat /\ minted <= minted'
  <2>1. minted \in Nat BY Zenon DEF IndInv, TypeOK, CoordTypeOK
  <2>2. minted' = minted \/ minted' = minted + 1 BY Zenon DEF Coordinated
  <2> QED BY <2>1, <2>2
<1>3. \A g \in Grant : /\ grant[g].attempt \in Nat /\ stored[g].attempt \in Nat
                       /\ \A c \in Cluster : local[c][g].attempt \in Nat
  <2>1. /\ grant \in [Grant -> GrantRecord] /\ stored \in [Grant -> GrantRecord]
        /\ local \in [Cluster -> [Grant -> GrantRecord]]
    BY Zenon DEF IndInv, TypeOK, CoordTypeOK, AgentTypeOK
  <2> QED BY <2>1 DEF GrantRecord
<1>4. \A n \in Conn : /\ \A m \in In(link[n].toAgent) : m \in ToAgent
                      /\ \A m \in In(link[n].toCoord) : m \in ToCoord
  <2> TAKE n \in Conn
  <2>1. link[n].toAgent \in Seq(ToAgent) /\ link[n].toCoord \in Seq(ToCoord)
    <3>1. link[n] \in Link BY Zenon DEF IndInv, TypeOK, LinksTypeOK
    <3> QED BY <3>1 DEF Link
  <2> QED BY <2>1, Queues
<1>5. Ends'
  <2>1. \A c \in Cluster : agent[c].conn \in Conn \cup {NoConn}
    <3>1. agent \in [Cluster -> AgentRecord] BY Zenon DEF IndInv, TypeOK, AgentTypeOK
    <3> QED BY <3>1 DEF AgentRecord
  <2>2. Ends BY Zenon DEF AuthInv
  <2> QED BY <1>1, <1>m, <1>s, <2>1, <2>2 DEF Ends, Moved
<1>6. Tables'
  <2> SUFFICES ASSUME NEW g \in Grant
               PROVE  /\ Rightful(grant[g])' /\ Rightful(stored[g])'
                      /\ Agree(stored'[g], grant'[g])
                      /\ \A c \in Cluster : /\ Agree(local'[c][g], grant'[g])
                                            /\ Agree(local'[c][g], stored'[g])
    BY DEF Tables
  <2>1. Recorded(g) BY <1>r
  <2>2. /\ Rightful(grant[g]) /\ Rightful(stored[g]) /\ Agree(stored[g], grant[g])
        /\ \A c \in Cluster : Agree(local[c][g], grant[g]) /\ Agree(local[c][g], stored[g])
    BY Zenon DEF AuthInv, Tables
  <2>3. grant'[g].attempt <= minted' /\ stored[g].attempt <= minted'
    BY <1>2, <1>3, <2>1, <2>2 DEF Recorded, Rightful
  <2>4. Rightful(grant[g])' BY <1>1, <2>1, <2>3 DEF Recorded, Rightful
  <2>5. Rightful(stored[g])'
    <3>1. CASE stored'[g] = stored[g] BY <1>1, <2>2, <2>3, <3>1 DEF Rightful
    <3>2. CASE stored'[g] = grant'[g] BY <2>4, <3>2 DEF Rightful
    <3> QED BY <2>1, <3>1, <3>2 DEF Recorded
  <2>6. ASSUME NEW x, x.attempt \in Nat, x.attempt <= minted, Agree(x, grant[g]), Agree(x, stored[g])
        PROVE  Agree(x, grant'[g]) /\ Agree(x, stored'[g])
    <3>1. Agree(x, grant'[g]) BY <1>2, <2>1, <2>6 DEF Recorded, Agree
    <3> QED BY <2>1, <2>6, <3>1 DEF Recorded
  <2>7. \A c \in Cluster : Agree(local[c][g], grant'[g]) /\ Agree(local[c][g], stored'[g])
    <3> TAKE c \in Cluster
    <3>1. local[c][g].attempt \in Nat /\ local[c][g].attempt <= minted
      BY <1>3, Zenon DEF AuthInv, Locals
    <3> QED BY <2>2, <2>6, <3>1
  <2>8. Agree(stored'[g], grant'[g])
    <3>1. Agree(stored[g], grant'[g])
      BY <1>2, <1>3, <2>1, <2>2 DEF Recorded, Agree, Rightful
    <3> QED BY <2>1, <3>1 DEF Recorded, Agree
  <2> QED BY <1>1, <2>4, <2>5, <2>7, <2>8
<1>7. Locals'
  <2>1. \A x \in Nat : x <= minted => x <= minted' BY <1>2
  <2>2. \A c \in Cluster, g \in Grant : local[c][g].attempt <= minted'
    BY <1>3, <2>1, Zenon DEF AuthInv, Locals
  <2>3. Locals BY Zenon DEF AuthInv
  <2> QED BY <1>1, <2>2, <2>3 DEF Locals
<1>8. ASSUME NEW n \in Conn, NEW m \in In(link'[n].toAgent)
      PROVE  DownOK(m)' /\ (link'[n].coordEnd = "open" => CommitOK(m)')
  <2>1. m \in In(link[n].toAgent) \/ m \in S BY <1>8, <1>m DEF Moved
  <2>2. link'[n].coordEnd = "open" => link[n].coordEnd = "open" BY <1>m DEF Moved
  <2>3. CASE m \in S
    <3>1. Issued(m) BY <1>i, <2>3
    <3>2. m.type \in {"PrepareGrant", "CommitGrant"} =>
            grant'[m.grant].attempt <= minted' /\ Agree(stored'[m.grant], grant'[m.grant])
      BY <1>6, <3>1 DEF Tables, Rightful, Issued
    <3>3. DownOK(m)' BY <3>1, <3>2 DEF Issued, DownOK, Agree
    <3>4. CommitOK(m)' BY <1>1, <3>1 DEF Issued, CommitOK
    <3> QED BY <3>3, <3>4
  <2>4. CASE m \in In(link[n].toAgent)
    <3>1. m \in ToAgent BY <1>4, <2>4
    <3>2. DownOK(m) /\ (link[n].coordEnd = "open" => CommitOK(m)) BY <2>4, Zenon DEF AuthInv, InFlight
    <3>3. CASE m.type = "PrepareGrant"
      <4>1. m.grant \in Grant /\ m.record.attempt \in Nat
        BY <3>1, <3>3, ToAgentFields DEF GrantRecord
      <4>2. Recorded(m.grant) BY <1>r, <4>1
      <4>3. /\ m.record.attempt <= minted
            /\ Agree(m.record, grant[m.grant]) /\ Agree(m.record, stored[m.grant])
        BY <3>2, <3>3 DEF DownOK
      <4>0. m.record.attempt # minted + 1 BY <1>2, <4>1, <4>3
      <4>4. Agree(m.record, grant'[m.grant])
        BY <4>0, <4>2, <4>3 DEF Recorded, Agree
      <4>5. Agree(m.record, stored'[m.grant]) BY <4>2, <4>3, <4>4 DEF Recorded
      <4>6. m.record.attempt <= minted' BY <1>2, <4>1, <4>3
      <4> QED BY <3>3, <4>4, <4>5, <4>6 DEF DownOK, CommitOK
    <3>4. CASE m.type = "CommitGrant"
      <4>1. m.grant \in Grant /\ m.attempt \in Nat BY <3>1, <3>4, ToAgentFields
      <4>2. Recorded(m.grant) /\ m.attempt <= minted BY <1>r, <3>2, <3>4, <4>1 DEF DownOK
      <4>3. DownOK(m)' BY <1>2, <3>4, <4>1, <4>2 DEF DownOK
      <4>4. link'[n].coordEnd = "open" => CommitOK(m)'
        BY <1>1, <1>2, <2>2, <3>2, <4>1, <4>2 DEF CommitOK, Recorded
      <4> QED BY <4>3, <4>4
    <3>5. CASE m.type \notin {"PrepareGrant", "CommitGrant"} BY <3>5 DEF DownOK, CommitOK
    <3> QED BY <3>3, <3>4, <3>5
  <2> QED BY <2>1, <2>3, <2>4
<1>9. ASSUME NEW n \in Conn, link'[n].coordEnd = "open", NEW m \in In(link'[n].toCoord)
      PROVE  UpOK(link[n].owner, m)'
  <2>1. link[n].coordEnd = "open" /\ m \in In(link[n].toCoord) /\ link'[n].owner = link[n].owner
    BY <1>9, <1>m DEF Moved
  <2>2. UpOK(link[n].owner, m) /\ m \in ToCoord BY <1>4, <2>1, Zenon DEF AuthInv, InFlight
  <2>0. ASSUME NEW g \in Grant, NEW x \in Nat, x <= minted, x = grant'[g].attempt
        PROVE  /\ grant'[g].attempt = grant[g].attempt /\ grant'[g].term = grant[g].term
               /\ grant'[g].contract = grant[g].contract
    BY <1>2, <1>r, <2>0 DEF Recorded
  <2>3. CASE m.type = "GrantCommitted"
    <3>1. m.grant \in Grant /\ m.attempt \in Nat BY <2>2, <2>3, ToCoordFields
    <3>2. /\ m.attempt <= minted
          /\ m.attempt = grant[m.grant].attempt =>
               /\ grant[m.grant].term = term
               /\ m.installed =>
                    <<m.attempt, side_of(link[n].owner, grant[m.grant].contract)>> \in installed
      BY <2>2, <2>3 DEF UpOK
    <3>3. m.attempt <= minted' BY <1>2, <3>1, <3>2
    <3>4. m.attempt = grant'[m.grant].attempt =>
            /\ grant'[m.grant].term = term'
            /\ m.installed =>
                 <<m.attempt, side_of(link'[n].owner, grant'[m.grant].contract)>> \in installed'
      BY <1>1, <2>0, <2>1, <3>1, <3>2, Zenon
    <3> QED BY <2>3, <3>3, <3>4 DEF UpOK
  <2>4. CASE m.type = "StatusReport"
    <3>1. \A g \in Grant : m.grants[g].attempt \in Nat
      BY <2>2, <2>4, ToCoordFields DEF StatusEntry
    <3>2. \A g \in Grant :
            /\ m.grants[g].attempt <= minted
            /\ usable_state(m.grants[g]) /\ m.grants[g].attempt = grant[g].attempt =>
                 <<grant[g].attempt, side_of(link[n].owner, grant[g].contract)>> \in installed
      BY <2>2, <2>4 DEF UpOK
    <3>3. \A g \in Grant : m.grants[g].attempt <= minted'
      <4>1. \A g \in Grant : m.grants[g].attempt <= minted BY <3>2, Zenon
      <4>2. \A x \in Nat : x <= minted => x <= minted' BY <1>2
      <4> QED BY <3>1, <4>1, <4>2
    <3>4. ASSUME NEW g \in Grant, usable_state(m.grants[g]), m.grants[g].attempt = grant'[g].attempt
          PROVE  <<grant'[g].attempt, side_of(link'[n].owner, grant'[g].contract)>> \in installed'
      BY <1>1, <2>0, <2>1, <3>1, <3>2, <3>4, Zenon
    <3> QED BY <2>4, <3>3, <3>4 DEF UpOK
  <2>5. CASE m.type \notin {"GrantCommitted", "StatusReport"} BY <2>5, Zenon DEF UpOK
  <2> QED BY <2>3, <2>4, <2>5
<1>10. InFlight' BY <1>8, <1>9 DEF InFlight
<1> QED BY <1>5, <1>6, <1>7, <1>10 DEF AuthInv

(***************************************************************************)
(* The coordinator dies and starts again.                                  *)
(***************************************************************************)
LEMMA CrashAuth ==
  ASSUME IndInv, AuthInv, crash, UNCHANGED agentVars
  PROVE  AuthInv'
<1>1. /\ grant' = stored /\ UNCHANGED <<stored, term, minted, agent, local, installed>>
      /\ link' = [n \in Conn |-> close_coord(link[n])] /\ session' = [n \in Conn |-> NoSession]
  BY DEF crash, agentVars
<1>2. \A n \in Conn : /\ link'[n].owner = link[n].owner /\ link'[n].coordEnd = "closed"
                      /\ link'[n].toAgent = link[n].toAgent
  <2> TAKE n \in Conn
  <2>1. link[n] \in Link BY DEF IndInv, TypeOK, LinksTypeOK
  <2> QED BY <1>1, <2>1, Zenon DEF close_coord, Link
<1>3. Ends'
  <2>1. \A c \in Cluster : agent[c].conn \in Conn \cup {NoConn}
    BY DEF IndInv, TypeOK, AgentTypeOK, AgentRecord
  <2> QED BY <1>1, <1>2, <2>1 DEF AuthInv, Ends, NoSession
<1>4. Tables' BY <1>1, Zenon DEF AuthInv, Tables, Rightful, Agree
<1>5. Locals' BY <1>1 DEF AuthInv, Locals
<1>6. InFlight' BY <1>1, <1>2, Zenon DEF AuthInv, InFlight, DownOK
<1> QED BY <1>3, <1>4, <1>5, <1>6 DEF AuthInv

(* begin_incarnation fences what is left of the earlier terms, and finds no  *)
(* connection of theirs.                                                     *)
LEMMA BeginAuth ==
  ASSUME IndInv, AuthInv, begin_incarnation, UNCHANGED agentVars
  PROVE  AuthInv'
<1> DEFINE G == {g \in Grant : grant[g].state \in Fenceable}
<1>1. /\ ~serving /\ grant' = set_state(grant, G, "Fenced") /\ stored' = grant'
      /\ UNCHANGED <<link, session, minted, agent, local, installed>>
  BY DEF begin_incarnation, agentVars
<1>2. \A n \in Conn : link[n].coordEnd # "open" BY <1>1 DEF AuthInv, Ends
<1>3. \A g \in Grant : /\ grant'[g].attempt = grant[g].attempt
                       /\ grant'[g].contract = grant[g].contract
                       /\ grant'[g].ack = grant[g].ack
                       /\ grant'[g].state \notin Fenceable
  <2> TAKE g \in Grant
  <2>1. grant[g] \in GrantRecord BY DEF IndInv, TypeOK, CoordTypeOK
  <2>2. CASE g \in G
    <3>1. grant'[g] = [grant[g] EXCEPT !.state = "Fenced"] BY <1>1, <2>2 DEF set_state
    <3> QED BY <2>1, <3>1 DEF GrantRecord, Fenceable
  <2>3. CASE g \notin G
    <3>1. grant'[g] = grant[g] BY <1>1, <2>3 DEF set_state
    <3> QED BY <2>3, <3>1
  <2> QED BY <2>2, <2>3
<1> HIDE DEF G
<1>4. Ends' BY <1>1, <1>2 DEF AuthInv, Ends
<1>5. Tables'
  <2>1. \A g \in Grant : ~usable_state(grant'[g]) BY <1>3 DEF usable_state, Fenceable
  <2>2. \A g \in Grant : Rightful(grant[g])' /\ Rightful(stored[g])'
    BY <1>1, <1>3, <2>1, Zenon DEF AuthInv, Tables, Rightful
  <2>3. \A g \in Grant : Agree(stored'[g], grant'[g]) /\ \A c \in Cluster :
          Agree(local'[c][g], grant'[g]) /\ Agree(local'[c][g], stored'[g])
    BY <1>1, <1>3 DEF AuthInv, Tables, Agree
  <2> QED BY <2>2, <2>3 DEF Tables
<1>6. Locals' BY <1>1 DEF AuthInv, Locals
<1>7. InFlight'
  <2>1. ASSUME NEW n \in Conn, NEW m \in In(link[n].toAgent) PROVE DownOK(m)'
    <3>1. link[n].toAgent \in Seq(ToAgent) BY DEF IndInv, TypeOK, LinksTypeOK, Link
    <3>2. m \in ToAgent BY <3>1, Queues
    <3>3. m.type = "PrepareGrant" => m.grant \in Grant BY <3>2, ToAgentFields
    <3>4. DownOK(m) BY DEF AuthInv, InFlight
    <3> QED BY <1>1, <1>3, <3>3, <3>4 DEF DownOK, Agree
  <2> QED BY <1>1, <1>2, <2>1 DEF InFlight
<1> QED BY <1>4, <1>5, <1>6, <1>7 DEF AuthInv

(***************************************************************************)
(* The handlers of the coordinator.                                        *)
(***************************************************************************)

(* A handler that leaves the grants alone, or takes some out of use.         *)
LEMMA Retires ==
  ASSUME IndInv, AuthInv, UNCHANGED minted,
         \A g \in Grant :
           \/ grant'[g] = grant[g]
           \/ \E s \in Closing :
                /\ grant'[g] = [grant[g] EXCEPT !.state = s]
                /\ s \in Fenceable => grant[g].state \in Fenceable,
         persist_grants \/ UNCHANGED stored
  PROVE  \A g \in Grant : Recorded(g)
<1> TAKE g \in Grant
<1>1. grant[g] \in GrantRecord BY DEF IndInv, TypeOK, CoordTypeOK
<1>2. Rightful(grant[g]) BY DEF AuthInv, Tables
<1>3. stored'[g] = stored[g] \/ stored'[g] = grant'[g] BY DEF persist_grants
<1>4. CASE grant'[g] = grant[g] BY <1>2, <1>3, <1>4 DEF Recorded, Rightful
<1>5. CASE \E s \in Closing :
             /\ grant'[g] = [grant[g] EXCEPT !.state = s]
             /\ s \in Fenceable => grant[g].state \in Fenceable
  <2>1. PICK s \in Closing : /\ grant'[g] = [grant[g] EXCEPT !.state = s]
                             /\ s \in Fenceable => grant[g].state \in Fenceable
    BY <1>5
  <2>2. /\ grant'[g].attempt = grant[g].attempt /\ grant'[g].contract = grant[g].contract
        /\ grant'[g].term = grant[g].term /\ grant'[g].ack = grant[g].ack
        /\ grant'[g].state = s
    BY <1>1, <2>1 DEF GrantRecord
  <2>3. ~usable_state(grant'[g]) BY <2>2 DEF usable_state, Closing
  <2> QED BY <1>2, <1>3, <2>1, <2>2, <2>3 DEF Recorded, Rightful
<1> QED BY <1>4, <1>5

(* No step makes a session of another cluster of one that is open.           *)
LEMMA SessionsKept ==
  ASSUME AuthInv,
         \A n \in Conn : session'[n].on => session[n].on /\ session'[n].cluster = session[n].cluster
  PROVE  \A n \in Conn : session'[n].on =>
           session'[n].cluster = link[n].owner /\ link[n].owner # NoCluster
BY DEF AuthInv, Ends

(* fence_cluster takes grants out of use.                                    *)
LEMMA FenceRecorded ==
  ASSUME IndInv, AuthInv, UNCHANGED minted, NEW c, NEW closed, NEW cl, fence_cluster(c, closed, cl)
  PROVE  \A g \in Grant : Recorded(g)
<1>1. grant' = set_state(grant, fenced_by(c), "Fenced") /\ persist_grants BY DEF fence_cluster
<1>2. \A g \in Grant :
        \/ grant'[g] = grant[g]
        \/ \E s \in Closing : /\ grant'[g] = [grant[g] EXCEPT !.state = s]
                              /\ s \in Fenceable => grant[g].state \in Fenceable
  BY <1>1 DEF set_state, Closing, Fenceable
<1> QED BY <1>1, <1>2, Retires

(* Frames that are neither a prepare nor a commit may always be sent.        *)
LEMMA Harmless ==
  /\ \A G : Issued(Fence(G))
  /\ \A ok, t : Issued(HelloAck(ok, t))
  /\ Issued(StatusRequest)
  /\ \A k, t : Issued(ProposeContract(k, t))
BY DEF Issued, Fence, HelloAck, StatusRequest, ProposeContract

(* What a handler finds when it runs on a frame.                             *)
LEMMA Received ==
  ASSUME IndInv, AuthInv, NEW n \in Conn, NEW type, recv(n, type)
  PROVE  /\ read(n) \in [Conn -> Link] /\ Moved(link, read(n), {})
         /\ link[n].coordEnd = "open" /\ link[n].owner # NoCluster
         /\ msg(n) \in In(link[n].toCoord) /\ msg(n) \in ToCoord /\ msg(n).type = type
         /\ UpOK(link[n].owner, msg(n))
<1>1. link[n].toCoord # <<>> /\ link[n].coordEnd = "open" /\ msg(n).type = type
  BY DEF recv, msg
<1>2. link \in [Conn -> Link] /\ LinksTypeOK BY DEF IndInv, TypeOK, LinksTypeOK
<1>3. link[n].toCoord \in Seq(ToCoord) BY <1>2 DEF Link
<1>4. msg(n) \in In(link[n].toCoord) BY <1>1, <1>3, Queues DEF msg
<1>5. read(n) \in [Conn -> Link] /\ msg(n) \in ToCoord BY <1>1, <1>2, Frames
<1>6. Moved(link, read(n), {}) BY <1>1, <1>2, MovedReads
<1> QED BY <1>1, <1>4, <1>5, <1>6, Zenon DEF AuthInv, Ends, InFlight

(* on_hello keeps AuthInv.                                                   *)
LEMMA HelloAuth ==
  ASSUME IndInv, AuthInv, NEW n \in Conn, on_hello(n), coordinator_only
  PROVE  AuthInv'
<1>1. recv(n, "Hello")
  BY Zenon DEF on_hello, on_hello_refused, on_hello_registers, on_hello_reincarnates,
         on_hello_advances_policy, on_hello_accepts
<1>2. /\ read(n) \in [Conn -> Link] /\ Moved(link, read(n), {}) /\ link[n].owner # NoCluster
  BY <1>1, Received
<1>3. UNCHANGED <<serving, agentVars>> BY DEF coordinator_only
<1>4. term \in Nat /\ session \in [Conn -> PeerSession] /\ grant \in [Grant -> GrantRecord]
  BY DEF IndInv, TypeOK, CoordTypeOK
<1>5. UNCHANGED <<term, minted>>
  BY Zenon DEF on_hello, on_hello_refused, on_hello_registers, on_hello_reincarnates,
         on_hello_advances_policy, on_hello_accepts, coordVars
<1>6. \A g \in Grant : Recorded(g)
  <2> DEFINE c == link[n].owner
  <2>1. \/ UNCHANGED <<grant, stored>>
        \/ \E cl : fence_cluster(c, "Fenced", cl)
    BY Zenon DEF on_hello, on_hello_refused, on_hello_registers, on_hello_reincarnates,
           on_hello_advances_policy, on_hello_accepts, coordVars
  <2>2. CASE UNCHANGED <<grant, stored>> BY <1>5, <2>2, Retires
  <2> HIDE DEF c
  <2>3. CASE \E cl : fence_cluster(c, "Fenced", cl) BY <1>5, <2>3, FenceRecorded
  <2> QED BY <2>1, <2>2, <2>3
<1>7. \A m \in Conn : session'[m].on =>
        session'[m].cluster = link[m].owner /\ link[m].owner # NoCluster
  <2>1. \/ UNCHANGED session
        \/ \E id, s : session' = [session EXCEPT ![n] =
             [on |-> TRUE, cluster |-> link[n].owner, id |-> id, since |-> s]]
    BY Zenon DEF on_hello, on_hello_refused, on_hello_registers, on_hello_reincarnates,
           on_hello_advances_policy, on_hello_accepts, coordVars, open_session
  <2>2. CASE UNCHANGED session BY <2>2, SessionsKept
  <2>3. CASE \E id, s : session' = [session EXCEPT ![n] =
               [on |-> TRUE, cluster |-> link[n].owner, id |-> id, since |-> s]]
    <3>1. /\ session'[n].cluster = link[n].owner
          /\ \A m \in Conn \ {n} : session'[m] = session[m]
      BY <1>4, <2>3
    <3> QED BY <1>2, <3>1 DEF AuthInv, Ends
  <2> QED BY <2>1, <2>2, <2>3
<1>8. \E S : Moved(link, link', S) /\ \A m \in S : Issued(m)
  <2> DEFINE G == fenced_by(link[n].owner)
             told == broadcast_fence(read(n), G)
  <2>1. \/ link' = [read(n) EXCEPT ![n] = to_agent(@, <<HelloAck(FALSE, term)>>)]
        \/ \E lk \in {read(n), told}, ok \in BOOLEAN, F \in SUBSET Grant :
             link' = greet(lk, n, ok, F)
    <3>1. (~cluster[link[n].owner].conflict) \in BOOLEAN BY SMTT(30)
    <3>2. CASE on_hello_refused(n) BY <3>2, Zenon DEF on_hello_refused
    <3>3. CASE on_hello_registers(n) BY <3>3, Zenon DEF on_hello_registers
    <3>4. CASE on_hello_reincarnates(n) BY <3>4, Zenon DEF on_hello_reincarnates
    <3>5. CASE on_hello_advances_policy(n)
      <4>1. link' = greet(told, n, ~cluster[link[n].owner].conflict, {})
        BY <3>5 DEF on_hello_advances_policy
      <4> QED BY <3>1, <4>1, Zenon
    <3>6. CASE on_hello_accepts(n)
      <4>1. link' = greet(read(n), n, ~cluster[link[n].owner].conflict, {})
        BY <3>6, Zenon DEF on_hello_accepts
      <4> QED BY <3>1, <4>1, Zenon
    <3> QED BY <3>2, <3>3, <3>4, <3>5, <3>6 DEF on_hello
  <2>2. G \in SUBSET Grant BY DEF fenced_by
  <2> HIDE DEF G
  <2>3. told \in [Conn -> Link] /\ Moved(link, told, {Fence(G)})
    <3>1. Moved(read(n), told, {Fence(G)}) BY <1>2, <2>2, MovedBroadcast
    <3>2. told \in [Conn -> Link] BY <1>2, <2>2, Broadcasts
    <3> QED BY <1>2, <3>1, <3>2, MovedOn
  <2> HIDE DEF told
  <2>4. CASE link' = [read(n) EXCEPT ![n] = to_agent(@, <<HelloAck(FALSE, term)>>)]
    <3> DEFINE a == HelloAck(FALSE, term)
    <3>0. a \in ToAgent /\ Issued(a) BY <1>4, Harmless DEF ToAgent, HelloAck
    <3> HIDE DEF a
    <3>1. <<a>> \in Seq(ToAgent) /\ In(<<a>>) = {a} BY <3>0 DEF In
    <3>2. Moved(read(n), link', {a}) BY <1>2, <2>4, <3>1, MovedOne, Zenon DEF a
    <3>3. Moved(link, link', {a}) BY <1>2, <3>2, MovedOn
    <3>4. \A m \in {a} : Issued(m) BY <3>0
    <3> QED BY <3>3, <3>4
  <2>5. CASE \E lk \in {read(n), told}, ok \in BOOLEAN, F \in SUBSET Grant :
               link' = greet(lk, n, ok, F)
    <3>1. PICK lk \in {read(n), told}, ok \in BOOLEAN, F \in SUBSET Grant :
            link' = greet(lk, n, ok, F)
      BY <2>5
    <3> DEFINE T == {HelloAck(ok, term), Fence(F), StatusRequest}
               S == T \cup {Fence(G)}
    <3>2. lk \in [Conn -> Link] /\ \E U \in SUBSET S : Moved(link, lk, U) BY <1>2, <2>3, <3>1
    <3>3. Moved(lk, link', T) BY <1>4, <3>1, <3>2, MovedGreet
    <3>4. \A m \in S : Issued(m) BY Harmless
    <3>5. T \subseteq S OBVIOUS
    <3> HIDE DEF S, T
    <3>6. Moved(link, link', S) BY <3>2, <3>3, <3>5, MovedOn
    <3> QED BY <3>4, <3>6
  <2> QED BY <2>1, <2>4, <2>5
<1>c. PICK S : Moved(link, link', S) /\ \A m \in S : Issued(m) BY <1>8
<1>d. Coordinated(S) BY <1>3, <1>5, <1>6, <1>7, <1>c, Zenon DEF Coordinated
<1> QED BY <1>d, CoordinatorKeeps

(* A handler that reads its frame, may fence a cluster and tell the agents,  *)
(* and opens no session keeps AuthInv.                                       *)
LEMMA FencingAuth ==
  ASSUME IndInv, AuthInv, coordinator_only, UNCHANGED <<term, minted>>,
         \A m \in Conn : session'[m].on => session[m].on /\ session'[m].cluster = session[m].cluster,
         NEW lk \in [Conn -> Link], Moved(link, lk, {}), NEW c,
         \/ UNCHANGED <<grant, stored>> /\ link' = lk
         \/ (\E closed, cl : fence_cluster(c, closed, cl)) /\ link' = broadcast_fence(lk, fenced_by(c))
  PROVE  AuthInv'
<1>1. UNCHANGED <<serving, agentVars>> BY DEF coordinator_only
<1>2. \A m \in Conn : session'[m].on =>
        session'[m].cluster = link[m].owner /\ link[m].owner # NoCluster
  BY SessionsKept
<1>3. CASE UNCHANGED <<grant, stored>> /\ link' = lk
  <2>1. \A g \in Grant : Recorded(g) BY <1>3, Retires
  <2>2. Moved(link, link', {}) BY <1>3
  <2>3. \A m \in {} : Issued(m) BY SMTT(30)
  <2>c. Coordinated({}) BY <1>1, <1>2, <2>1, <2>2, <2>3 DEF Coordinated
  <2> QED BY <2>c, CoordinatorKeeps
<1>4. CASE (\E closed, cl : fence_cluster(c, closed, cl)) /\ link' = broadcast_fence(lk, fenced_by(c))
  <2> DEFINE G == fenced_by(c)
  <2>1. \A g \in Grant : Recorded(g) BY <1>4, FenceRecorded
  <2>2. G \in SUBSET Grant BY DEF fenced_by
  <2>3. link' = broadcast_fence(lk, G) BY <1>4
  <2> HIDE DEF G
  <2>4. Moved(lk, link', {Fence(G)}) BY <2>2, <2>3, MovedBroadcast
  <2>5. Moved(link, link', {Fence(G)}) BY <2>4, MovedOn
  <2>6. \A m \in {Fence(G)} : Issued(m) BY Harmless
  <2>c. Coordinated({Fence(G)}) BY <1>1, <1>2, <2>1, <2>5, <2>6 DEF Coordinated
  <2> QED BY <2>c, CoordinatorKeeps
<1> QED BY <1>3, <1>4

(* on_report_cluster, on_contract_consent and on_withdraw keep AuthInv.      *)
LEMMA ReportAuth ==
  ASSUME IndInv, AuthInv, coordinator_only, NEW n \in Conn,
         on_report_cluster(n) \/ on_contract_consent(n) \/ on_withdraw(n)
  PROVE  AuthInv'
<1> DEFINE c == session[n].cluster
<1>1. \E type : recv(n, type)
  BY Zenon DEF on_report_cluster, on_report_dropped, on_report_conflicts, on_report_accepted,
         on_contract_consent, on_withdraw, recv_in_session
<1>2. read(n) \in [Conn -> Link] /\ Moved(link, read(n), {}) BY <1>1, Received
<1>3. session \in [Conn -> PeerSession] BY DEF IndInv, TypeOK, CoordTypeOK
<1>4. UNCHANGED <<term, minted>>
  BY Zenon DEF on_report_cluster, on_report_dropped, on_report_conflicts, on_report_accepted,
         on_contract_consent, on_withdraw, coordVars
<1>5. \A m \in Conn : session'[m].on => session[m].on /\ session'[m].cluster = session[m].cluster
  <2>1. \/ UNCHANGED session
        \/ \E id : session' = [session EXCEPT ![n].id = id]
    <3>1. CASE on_report_conflicts(n)
      <4>1. session' = [session EXCEPT ![n].id = [@ EXCEPT !.gen = msg(n).id.gen]]
        BY <3>1 DEF on_report_conflicts
      <4> QED BY <4>1, Zenon
    <3>2. CASE on_report_accepted(n)
      <4>1. session' = [session EXCEPT ![n].id =
              [[@ EXCEPT !.gen = msg(n).id.gen] EXCEPT !.pol = msg(n).id.pol]]
        <5>1. session[n] \in PeerSession BY <1>3
        <5>2. session' = [session EXCEPT ![n].id.gen = msg(n).id.gen, ![n].id.pol = msg(n).id.pol]
          BY <3>2 DEF on_report_accepted
        <5> QED BY <1>3, <5>1, <5>2, Zenon DEF PeerSession, Identity
      <4> QED BY <4>1, Zenon
    <3> QED BY <3>1, <3>2, Zenon
        DEF on_report_cluster, on_report_dropped, on_contract_consent, on_withdraw, coordVars
  <2>2. CASE \E id : session' = [session EXCEPT ![n].id = id]
    <3>1. PICK id : session' = [session EXCEPT ![n].id = id] BY <2>2, Zenon
    <3>2. session[n] \in PeerSession BY <1>3
    <3>3. \A m \in Conn \ {n} : session'[m] = session[m] BY <1>3, <3>1
    <3>4. session'[n] = [session[n] EXCEPT !.id = id] BY <1>3, <3>1
    <3>5. session'[n].on = session[n].on /\ session'[n].cluster = session[n].cluster
      BY <3>2, <3>4 DEF PeerSession
    <3> QED BY <3>3, <3>5
  <2> QED BY <2>1, <2>2
<1>6. \/ UNCHANGED <<grant, stored>> /\ link' = read(n)
      \/ /\ \E closed, cl : fence_cluster(c, closed, cl)
         /\ link' = broadcast_fence(read(n), fenced_by(c))
  <2>1. CASE on_report_accepted(n) BY <2>1 DEF on_report_accepted
  <2>2. CASE on_withdraw(n) BY <2>2 DEF on_withdraw
  <2>3. CASE on_report_conflicts(n) BY <2>3 DEF on_report_conflicts
  <2> QED BY <2>1, <2>2, <2>3, Zenon
      DEF on_report_cluster, on_report_dropped, on_contract_consent, coordVars
<1> HIDE DEF c
<1> QED BY <1>2, <1>4, <1>5, <1>6, FencingAuth, Zenon

(* The operator's requests about clusters keep AuthInv.                      *)
LEMMA ClusterRequestAuth ==
  ASSUME IndInv, AuthInv, coordinator_only, NEW c, NEW gen, NEW s, NEW id,
         \/ withdraw_consent(c) \/ restore_consent(c) \/ apply_conflict_resolution(c, gen)
         \/ set_registered_state(c, s) \/ upsert_policy(c) \/ upsert_cluster(c, id, s)
         \/ delete_cluster(c)
  PROVE  AuthInv'
<1>1. UNCHANGED <<term, minted, session>>
  BY DEF withdraw_consent, restore_consent, apply_conflict_resolution, set_registered_state,
         upsert_policy, upsert_cluster, delete_cluster
<1>2. link \in [Conn -> Link] /\ Moved(link, link, {})
  BY MovedNot DEF IndInv, TypeOK, LinksTypeOK
<1>3. \/ UNCHANGED <<grant, stored>> /\ link' = link
      \/ /\ \E closed, cl : fence_cluster(c, closed, cl)
         /\ link' = broadcast_fence(link, fenced_by(c))
  <2>1. CASE set_registered_state(c, s) BY <2>1 DEF set_registered_state
  <2>2. CASE withdraw_consent(c) BY <2>2 DEF withdraw_consent
  <2>3. CASE apply_conflict_resolution(c, gen) BY <2>3 DEF apply_conflict_resolution
  <2>4. CASE upsert_policy(c) BY <2>4 DEF upsert_policy
  <2>5. CASE restore_consent(c) \/ upsert_cluster(c, id, s) \/ delete_cluster(c)
    BY <2>5 DEF restore_consent, upsert_cluster, delete_cluster
  <2> QED BY <2>1, <2>2, <2>3, <2>4, <2>5
<1> QED BY <1>1, <1>2, <1>3, FencingAuth

(* fence_grant and apply_contract_proposal keep AuthInv.                     *)
LEMMA RequestAuth ==
  ASSUME IndInv, AuthInv, coordinator_only,
         (\E g \in Grant : fence_grant(g)) \/ (\E k \in Contract : apply_contract_proposal(k))
  PROVE  AuthInv'
<1>1. UNCHANGED <<term, minted, session>> /\ UNCHANGED <<serving, agentVars>>
  BY Zenon DEF fence_grant, apply_contract_proposal, coordinator_only
<1>2. link \in [Conn -> Link] BY DEF IndInv, TypeOK, LinksTypeOK
<1>3. \A m \in Conn : session'[m].on =>
        session'[m].cluster = link[m].owner /\ link[m].owner # NoCluster
  BY <1>1, SessionsKept
<1>4. ASSUME NEW g \in Grant, fence_grant(g) PROVE AuthInv'
  <2> DEFINE G == {h \in {g} : grant'[h].state = "Fenced"}
  <2>1. /\ grant' = set_state(grant, {h \in {g} : grant[h].state \notin {"Aborted", "Withdrawn"}},
                              "Fenced")
        /\ persist_grants /\ link' = broadcast_fence(link, G)
    BY <1>4, Zenon DEF fence_grant
  <2>2. \A h \in Grant :
          \/ grant'[h] = grant[h]
          \/ \E s \in Closing : /\ grant'[h] = [grant[h] EXCEPT !.state = s]
                                /\ s \in Fenceable => grant[h].state \in Fenceable
    BY <2>1 DEF set_state, Closing, Fenceable
  <2>3. \A h \in Grant : Recorded(h) BY <1>1, <2>1, <2>2, Retires
  <2>4. G \in SUBSET Grant BY SMTT(30)
  <2> HIDE DEF G
  <2>5. Moved(link, link', {Fence(G)}) BY <1>2, <2>1, <2>4, MovedBroadcast, Zenon
  <2>6. \A m \in {Fence(G)} : Issued(m) BY Harmless
  <2>c. Coordinated({Fence(G)}) BY <1>1, <1>3, <2>3, <2>5, <2>6 DEF Coordinated
  <2> QED BY <2>c, CoordinatorKeeps
<1>5. ASSUME NEW k \in Contract, apply_contract_proposal(k) PROVE AuthInv'
  <2> DEFINE target == [i \in Side |-> target_for(Party[k][i])]
             terms == [i \in Side |-> cluster[Party[k][i]].id]
             m == ProposeContract(k, terms)
  <2>1. /\ UNCHANGED <<grant, stored>>
        /\ link' = IF target[0] = NoConn THEN send_one(link, target[1], m)
                   ELSE send_both(link, target, m)
    BY <1>5, Zenon DEF apply_contract_proposal
  <2>2. \A g \in Grant : Recorded(g) BY <1>1, <2>1, Retires
  <2>3. terms \in Terms
    <3>1. \A i \in Side : Party[k][i] \in Cluster BY LinksAssumption
    <3> QED BY <3>1 DEF IndInv, TypeOK, CoordTypeOK, ClusterRecord, Terms
  <2> HIDE DEF terms
  <2>4. m \in ToAgent /\ Issued(m) BY <2>3, Harmless, Zenon DEF ToAgent, ProposeContract
  <2>5. session \in [Conn -> PeerSession] BY DEF IndInv, TypeOK, CoordTypeOK
  <2>6. target \in [Side -> Conn \cup {NoConn}] /\ target[1] \in Conn \cup {NoConn}
    BY <2>5, Targets DEF Side
  <2> HIDE DEF m, target
  <2>7. Moved(link, link', {m}) BY <1>2, <2>1, <2>4, <2>6, MovedSends
  <2>8. \A x \in {m} : Issued(x) BY <2>4, Zenon
  <2>c. Coordinated({m}) BY <1>1, <1>3, <2>2, <2>7, <2>8 DEF Coordinated
  <2> QED BY <2>c, CoordinatorKeeps
<1> QED BY <1>4, <1>5

(* handle_disconnect keeps AuthInv.                                          *)
LEMMA DisconnectAuth ==
  ASSUME IndInv, AuthInv, coordinator_only, NEW n \in Conn, handle_disconnect(n)
  PROVE  AuthInv'
<1> DEFINE lost == {g \in Grant : /\ involves(grant, g, session[n].cluster)
                                  /\ grant[g].state \in {"Preparing", "Prepared"}}
<1>0. UNCHANGED <<term, minted>> /\ UNCHANGED <<serving, agentVars>>
  BY DEF handle_disconnect, coordinator_only
<1>1. /\ link' = [link EXCEPT ![n] = close_coord(@)]
      /\ session' = [session EXCEPT ![n] = NoSession]
  BY DEF handle_disconnect, coordinator_only
<1>2. \/ UNCHANGED <<grant, stored>>
      \/ grant' = set_state(grant, lost, "Indeterminate") /\ persist_grants
  BY DEF handle_disconnect
<1>3. \A g \in Grant : Recorded(g)
  <2>1. CASE UNCHANGED <<grant, stored>> BY <1>0, <2>1, Retires
  <2>2. CASE grant' = set_state(grant, lost, "Indeterminate") /\ persist_grants
    <3>1. \A g \in Grant :
            \/ grant'[g] = grant[g]
            \/ \E s \in Closing : /\ grant'[g] = [grant[g] EXCEPT !.state = s]
                                  /\ s \in Fenceable => grant[g].state \in Fenceable
      BY <2>2, Zenon DEF set_state, Closing, Fenceable
    <3> QED BY <1>0, <2>2, <3>1, Retires
  <2> QED BY <1>2, <2>1, <2>2
<1>4. \A m \in Conn : session'[m].on =>
        session'[m].cluster = link[m].owner /\ link[m].owner # NoCluster
  <2>1. \A m \in Conn : session'[m] = IF m = n THEN NoSession ELSE session[m]
    BY <1>1 DEF IndInv, TypeOK, CoordTypeOK
  <2> QED BY <2>1 DEF AuthInv, Ends, NoSession
<1>5. Moved(link, link', {}) BY <1>1, MovedCloses, Zenon DEF IndInv, TypeOK, LinksTypeOK
<1>6. \A m \in {} : Issued(m) OBVIOUS
<1>c. Coordinated({}) BY <1>0, <1>3, <1>4, <1>5, <1>6 DEF Coordinated
<1> QED BY <1>c, CoordinatorKeeps

(* Aborting a flow takes its grant out of use.                               *)
LEMMA AbortRecorded ==
  ASSUME IndInv, AuthInv, UNCHANGED minted, NEW G, grant' = abort_grant(grant, G), persist_grants
  PROVE  \A g \in Grant : Recorded(g)
<1>1. \A g \in Grant :
        \/ grant'[g] = grant[g]
        \/ \E s \in Closing : /\ grant'[g] = [grant[g] EXCEPT !.state = s]
                              /\ s \in Fenceable => grant[g].state \in Fenceable
  BY DEF abort_grant, set_state, Closing, Fenceable
<1> QED BY <1>1, Retires

(* on_grant_prepared keeps AuthInv: a commit is sent only for an attempt of  *)
(* the present term.                                                         *)
LEMMA PreparedAuth ==
  ASSUME IndInv, AuthInv, coordinator_only, NEW n \in Conn, on_grant_prepared(n)
  PROVE  AuthInv'
<1> DEFINE m == msg(n)
           g == m.grant
<1>1. recv(n, "GrantPrepared")
  BY Zenon DEF on_grant_prepared, on_grant_prepared_dropped, on_grant_prepared_refused,
         on_grant_prepared_accepted, recv_in_session
<1>2. /\ read(n) \in [Conn -> Link] /\ Moved(link, read(n), {})
      /\ m \in ToCoord /\ m.type = "GrantPrepared"
  BY <1>1, Received
<1>3. g \in Grant BY <1>2, ToCoordFields
<1>4. UNCHANGED <<term, minted, session>> /\ UNCHANGED <<serving, agentVars>>
  BY Zenon DEF on_grant_prepared, on_grant_prepared_dropped, on_grant_prepared_refused,
         on_grant_prepared_accepted, coordVars, coordinator_only
<1>5. \A x \in Conn : session'[x].on =>
        session'[x].cluster = link[x].owner /\ link[x].owner # NoCluster
  BY <1>4, SessionsKept
<1>6. \A x \in {} : Issued(x) OBVIOUS
<1>7. CASE on_grant_prepared_dropped(n)
  <2>1. UNCHANGED <<grant, stored>> /\ link' = read(n)
    BY <1>7, Zenon DEF on_grant_prepared_dropped, coordVars
  <2>2. \A h \in Grant : Recorded(h) BY <1>4, <2>1, Retires
  <2>c. Coordinated({}) BY <1>2, <1>4, <1>5, <1>6, <2>1, <2>2 DEF Coordinated
  <2> QED BY <2>c, CoordinatorKeeps
<1>8. CASE on_grant_prepared_refused(n)
  <2>1. grant' = abort_grant(grant, {g}) /\ persist_grants /\ link' = read(n)
    BY <1>8, Zenon DEF on_grant_prepared_refused
  <2>2. \A h \in Grant : Recorded(h) BY <1>4, <2>1, AbortRecorded
  <2>c. Coordinated({}) BY <1>2, <1>4, <1>5, <1>6, <2>1, <2>2 DEF Coordinated
  <2> QED BY <2>c, CoordinatorKeeps
<1>9. CASE on_grant_prepared_accepted(n)
  <2> DEFINE i == side_of(session[n].cluster, grant[g].contract)
             flow == [pending[g] EXCEPT !.prepared[i] = TRUE]
             x == CommitGrant(g, grant[g].attempt)
             sent == send_both(read(n), flow.targets, x)
  <2>1. /\ grant[g].state \in {"Preparing", "Prepared"} /\ persist_grants
        /\ \/ grant' = grant
           \/ \E s \in {"Prepared", "Indeterminate"} : grant' = set_state(grant, {g}, s)
        /\ link' = read(n) \/ \E failed : link' = close_on(failed, sent, n)
    BY <1>9, Zenon DEF on_grant_prepared_accepted
  <2>2. \A h \in Grant :
          \/ grant'[h] = grant[h]
          \/ \E s \in Closing : /\ grant'[h] = [grant[h] EXCEPT !.state = s]
                                /\ s \in Fenceable => grant[h].state \in Fenceable
    BY <2>1 DEF set_state, Closing, Fenceable
  <2>3. \A h \in Grant : Recorded(h) BY <1>4, <2>1, <2>2, Retires, Zenon
  <2>4. grant'[g].attempt = grant[g].attempt /\ grant'[g].term = term
    <3>1. grant[g] \in GrantRecord BY <1>3 DEF IndInv, TypeOK, CoordTypeOK
    <3>2. grant[g].term = term BY <1>3, <2>1 DEF AuthInv, Tables, Rightful, Fenceable
    <3>3. grant'[g].attempt = grant[g].attempt /\ grant'[g].term = grant[g].term
      BY <1>3, <2>2, <3>1, Zenon DEF GrantRecord
    <3> QED BY <3>2, <3>3
  <2>5. x \in ToAgent /\ Issued(x)
    <3>1. grant[g].attempt \in Nat BY <1>3 DEF IndInv, TypeOK, CoordTypeOK, GrantRecord
    <3> QED BY <1>3, <2>4, <3>1, Zenon DEF ToAgent, CommitGrant, Issued
  <2>6. flow.targets \in [Side -> Conn \cup {NoConn}]
    <3>1. pending[g] \in PendingGrant BY <1>3 DEF IndInv, TypeOK, CoordTypeOK
    <3> QED BY <3>1 DEF PendingGrant
  <2> HIDE DEF x, flow
  <2>7. sent \in [Conn -> Link] /\ Moved(read(n), sent, {x})
    BY <1>2, <2>5, <2>6, Sends, MovedSends, Zenon
  <2> HIDE DEF sent
  <2>8. Moved(link, link', {x})
    <3>1. Moved(link, sent, {x}) BY <1>2, <2>7, MovedOn
    <3>2. \A failed : Moved(sent, close_on(failed, sent, n), {}) BY <2>7, MovedCloses, Zenon
    <3>3. \A failed : Moved(link, close_on(failed, sent, n), {x}) BY <3>1, <3>2, MovedOn
    <3>4. Moved(link, read(n), {x}) BY <1>2, Zenon DEF Moved
    <3> QED BY <2>1, <3>3, <3>4, Zenon
  <2>9. \A y \in {x} : Issued(y) BY <2>5
  <2>c. Coordinated({x}) BY <1>4, <1>5, <2>3, <2>8, <2>9 DEF Coordinated
  <2> QED BY <2>c, CoordinatorKeeps
<1> QED BY <1>7, <1>8, <1>9 DEF on_grant_prepared

(* Finalising: a grant becomes usable only with both acknowledgements, and   *)
(* only if its attempt is of the present term.                               *)
LEMMA FinaliseAuth ==
  ASSUME IndInv, AuthInv, UNCHANGED minted,
         NEW gr \in [Grant -> GrantRecord], NEW rv, NEW cl, NEW n \in Conn,
         NEW lk \in [Conn -> Link], NEW ready \in SUBSET Grant,
         \A g \in Grant :
           /\ gr[g].attempt = grant[g].attempt /\ gr[g].contract = grant[g].contract
           /\ gr[g].term = grant[g].term
           /\ gr[g].state = grant[g].state \/ gr[g].state = "Fenced"
           /\ \A i \in Side : grant[g].ack[i] => gr[g].ack[i]
           /\ \A i \in Side : gr[g].ack[i] => <<grant[g].attempt, i>> \in installed,
         \A g \in ready : both_acknowledged(gr[g]) /\ grant[g].term = term,
         finalise_grants(ready, gr, cl, rv, n, lk), persist_grants
  PROVE  (\A g \in Grant : Recorded(g)) /\ Moved(lk, link', {})
<1>1. PICK done \in SUBSET ready : \E bad \in SUBSET (ready \ done) :
        /\ grant' = abort_grant(set_state(gr, done, "Committed"), bad)
        /\ link' = close_on(bad # {}, lk, n)
  BY Zenon DEF finalise_grants
<1>2. PICK bad \in SUBSET (ready \ done) :
        /\ grant' = abort_grant(set_state(gr, done, "Committed"), bad)
        /\ link' = close_on(bad # {}, lk, n)
  BY <1>1, Zenon
<1>3. Moved(lk, link', {}) BY <1>2, MovedCloses, Zenon
<1>4. ASSUME NEW g \in Grant PROVE Recorded(g)
  <2>1. gr[g] \in GrantRecord BY Zenon
  <2>2. \/ grant'[g] = gr[g] /\ g \notin done
        \/ grant'[g] = [gr[g] EXCEPT !.state = "Committed"] /\ g \in done
        \/ grant'[g] = [gr[g] EXCEPT !.state = "Aborted"]
    BY <1>2 DEF abort_grant, set_state
  <2>3. /\ grant'[g].attempt = grant[g].attempt /\ grant'[g].contract = grant[g].contract
        /\ grant'[g].term = grant[g].term /\ grant'[g].ack = gr[g].ack
    BY <2>1, <2>2 DEF GrantRecord
  <2>4. grant'[g].state \in {"Aborted", "Fenced", grant[g].state} \/ g \in ready
    BY <2>1, <2>2 DEF GrantRecord
  <2>5. Rightful(grant[g]) BY Zenon DEF AuthInv, Tables
  <2>6. grant'[g].state \in Fenceable => grant'[g].term = term
    BY <2>3, <2>4, <2>5, Zenon DEF Rightful, Fenceable
  <2>7. usable_state(grant'[g]) => both_acknowledged(grant'[g])
    BY <2>3, <2>4, <2>5, Zenon DEF Rightful, usable_state, both_acknowledged
  <2>8. stored'[g] = stored[g] \/ stored'[g] = grant'[g] BY Zenon DEF persist_grants
  <2> QED BY <2>3, <2>6, <2>7, <2>8, Zenon DEF Recorded
<1> QED BY <1>3, <1>4, Zenon

(* on_grant_committed keeps AuthInv: the acknowledgement names an attempt    *)
(* of the present term that its sender has installed.                        *)
LEMMA CommittedAuth ==
  ASSUME IndInv, AuthInv, coordinator_only, NEW n \in Conn, on_grant_committed(n)
  PROVE  AuthInv'
<1> DEFINE m == msg(n)
           g == m.grant
<1>1. session[n].on /\ recv(n, "GrantCommitted")
  BY DEF on_grant_committed, on_grant_committed_dropped, on_grant_committed_refused,
         on_grant_committed_installed, recv_in_session
<1>2. /\ read(n) \in [Conn -> Link] /\ Moved(link, read(n), {})
      /\ m \in ToCoord /\ m.type = "GrantCommitted" /\ UpOK(link[n].owner, m)
  BY <1>1, Received, Zenon
<1>3. g \in Grant BY <1>2, ToCoordFields
<1>4. UNCHANGED <<term, minted, session>> /\ UNCHANGED <<serving, agentVars>>
  BY DEF on_grant_committed, on_grant_committed_dropped, on_grant_committed_refused,
         on_grant_committed_installed, coordVars, coordinator_only
<1>5. \A x \in Conn : session'[x].on =>
        session'[x].cluster = link[x].owner /\ link[x].owner # NoCluster
  BY <1>4, SessionsKept
<1>6. \A x \in {} : Issued(x) OBVIOUS
<1>7. CASE on_grant_committed_dropped(n)
  <2>1. UNCHANGED <<grant, stored>> /\ link' = read(n)
    BY <1>7, Zenon DEF on_grant_committed_dropped, coordVars
  <2>2. \A h \in Grant : Recorded(h) BY <1>4, <2>1, Retires
  <2>c. Coordinated({}) BY <1>2, <1>4, <1>5, <1>6, <2>1, <2>2 DEF Coordinated
  <2> QED BY <2>c, CoordinatorKeeps
<1>8. CASE on_grant_committed_refused(n)
  <2>1. grant' = abort_grant(grant, {g}) /\ persist_grants /\ link' = read(n)
    BY <1>8 DEF on_grant_committed_refused
  <2>2. \A h \in Grant : Recorded(h) BY <1>4, <2>1, AbortRecorded
  <2>c. Coordinated({}) BY <1>2, <1>4, <1>5, <1>6, <2>1, <2>2, Zenon DEF Coordinated
  <2> QED BY <2>c, CoordinatorKeeps
<1>9. CASE on_grant_committed_installed(n)
  <2> DEFINE i == side_of(session[n].cluster, grant[g].contract)
             gr == [grant EXCEPT ![g].ack[i] = TRUE]
             ready == {h \in {g} : both_acknowledged(gr[h]) /\ ~usable_state(gr[h])}
  <2>1. /\ m.attempt = grant[g].attempt /\ m.installed
        /\ involves(grant, g, session[n].cluster)
        /\ finalise_grants(ready, gr, cluster, resv, n, read(n)) /\ persist_grants
    BY <1>9, Zenon DEF on_grant_committed_installed, current_ack
  <2>2. grant[g].term = term /\ <<grant[g].attempt, i>> \in installed
    <3>1. session[n].cluster = link[n].owner BY <1>1 DEF AuthInv, Ends
    <3> QED BY <1>2, <2>1, <3>1 DEF UpOK
  <2>3. grant \in [Grant -> GrantRecord] /\ i \in Side
    BY <2>1, Sides DEF IndInv, TypeOK, CoordTypeOK, involves
  <2>4. ready \in SUBSET Grant /\ \A h \in ready : both_acknowledged(gr[h]) /\ grant[h].term = term
    BY <1>3, <2>2
  <2>5. gr = [grant EXCEPT ![g] = [grant[g] EXCEPT !.ack = [grant[g].ack EXCEPT ![i] = TRUE]]]
    BY <2>3
  <2> HIDE DEF gr, ready, i
  <2>6. gr \in [Grant -> GrantRecord]
    <3>1. [grant[g].ack EXCEPT ![i] = TRUE] \in [Side -> BOOLEAN]
      BY <1>3, <2>3 DEF GrantRecord
    <3>2. [grant[g] EXCEPT !.ack = [grant[g].ack EXCEPT ![i] = TRUE]] \in GrantRecord
      BY <1>3, <2>3, <3>1, Zenon DEF GrantRecord
    <3> QED BY <1>3, <2>3, <2>5, <3>2
  <2>7. \A h \in Grant :
          /\ gr[h].attempt = grant[h].attempt /\ gr[h].contract = grant[h].contract
          /\ gr[h].term = grant[h].term
          /\ gr[h].state = grant[h].state \/ gr[h].state = "Fenced"
          /\ \A j \in Side : grant[h].ack[j] => gr[h].ack[j]
          /\ \A j \in Side : gr[h].ack[j] => <<grant[h].attempt, j>> \in installed
    <3> TAKE h \in Grant
    <3>1. grant[h] \in GrantRecord /\ Rightful(grant[h]) BY <2>3 DEF AuthInv, Tables
    <3>2. CASE h # g BY <2>3, <2>5, <3>1, <3>2 DEF Rightful
    <3>3. CASE h = g
      <4> DEFINE a == [grant[g].ack EXCEPT ![i] = TRUE]
      <4>1. gr[h] = [grant[h] EXCEPT !.ack = a] BY <2>3, <2>5, <3>3, Zenon
      <4>2. \A j \in Side : a[j] = IF j = i THEN TRUE ELSE grant[h].ack[j]
        BY <3>1, <3>3, Zenon DEF GrantRecord
      <4> HIDE DEF a
      <4>3. gr[h].ack = a /\ gr[h].attempt = grant[h].attempt /\ gr[h].term = grant[h].term
            /\ gr[h].contract = grant[h].contract /\ gr[h].state = grant[h].state
        BY <3>1, <4>1 DEF GrantRecord
      <4> QED BY <2>2, <3>1, <3>3, <4>2, <4>3, Zenon DEF Rightful
    <3> QED BY <3>2, <3>3, Zenon
  <2>8. (\A h \in Grant : Recorded(h)) /\ Moved(read(n), link', {})
    BY <1>2, <1>4, <2>1, <2>4, <2>6, <2>7, FinaliseAuth, Zenon
  <2>9. Moved(link, link', {}) BY <1>2, <2>8, MovedOn
  <2>c. Coordinated({}) BY <1>4, <1>5, <1>6, <2>8, <2>9 DEF Coordinated
  <2> QED BY <2>c, CoordinatorKeeps
<1> QED BY <1>7, <1>8, <1>9 DEF on_grant_committed

(* apply_grant_issue and apply_grant_revalidation keep AuthInv: they draw a  *)
(* new attempt, which nothing names yet.                                     *)
LEMMA PrepareAuth ==
  ASSUME IndInv, AuthInv, UNCHANGED <<serving, agentVars, term, session>>, minted' = minted + 1,
         NEW g \in Grant, NEW r \in GrantRecord, prepare_grant(g, r), r.contract \in Contract,
         r.state = "Preparing", r.attempt = minted + 1, r.term = term,
         r.ack = [i \in Side |-> FALSE]
  PROVE  AuthInv'
<1> DEFINE t == [i \in Side |-> target_for(Party[r.contract][i])]
           p == prepare_message(g, r)
<1>1. /\ grant' = [grant EXCEPT ![g] = r]
      /\ stored' = [stored EXCEPT ![g] = r] \/ stored' = stored
      /\ link' = send_both(link, t, p) \/ link' = link
  BY DEF prepare_grant
<1>2. /\ grant \in [Grant -> GrantRecord] /\ stored \in [Grant -> GrantRecord]
      /\ session \in [Conn -> PeerSession] /\ link \in [Conn -> Link]
  BY Zenon DEF IndInv, TypeOK, CoordTypeOK, LinksTypeOK
<1>3. t \in [Side -> Conn \cup {NoConn}] BY <1>2, Targets, Zenon
<1>4. p \in ToAgent /\ p.grant = g /\ p.record = r /\ p.type = "PrepareGrant"
  <2>1. contract[r.contract].terms \in Terms
    BY Zenon DEF IndInv, TypeOK, CoordTypeOK, ContractRecord
  <2> QED BY <2>1, Zenon DEF prepare_message, PrepareGrant, ToAgent
<1> HIDE DEF t, p
<1>5. Moved(link, link', {p}) BY <1>1, <1>2, <1>3, <1>4, MovedSends, MovedNot, Zenon
<1>6. \A m \in {p} : Issued(m) BY <1>1, <1>2, <1>4, Zenon DEF Issued
<1>7. \A h \in Grant : Recorded(h)
  <2> TAKE h \in Grant
  <2>1. CASE h # g
    <3>1. grant'[h] = grant[h] /\ stored'[h] = stored[h] BY <1>1, <1>2, <2>1, Zenon
    <3>2. Rightful(grant[h]) BY DEF AuthInv, Tables
    <3> QED BY <3>1, <3>2, Zenon DEF Recorded, Rightful
  <2>2. CASE h = g
    <3>1. grant'[h] = r /\ (stored'[h] = r \/ stored'[h] = stored[h]) BY <1>1, <1>2, <2>2, Zenon
    <3>2. ~usable_state(r) BY DEF usable_state
    <3> QED BY <3>1, <3>2, Zenon DEF Recorded
  <2> QED BY <2>1, <2>2, Zenon
<1>8. \A n \in Conn : session'[n].on =>
        session'[n].cluster = link[n].owner /\ link[n].owner # NoCluster
  BY SessionsKept
<1>c. Coordinated({p}) BY <1>5, <1>6, <1>7, <1>8 DEF Coordinated
<1> QED BY <1>c, CoordinatorKeeps

(* apply_grant_issue and apply_grant_revalidation keep AuthInv.              *)
LEMMA IssueAuth ==
  ASSUME IndInv, AuthInv, coordinator_only, NEW g \in Grant,
         (\E k \in Contract : apply_grant_issue(g, k)) \/ apply_grant_revalidation(g)
  PROVE  AuthInv'
<1>1. UNCHANGED <<serving, agentVars, term, session>> /\ minted' = minted + 1
  BY Zenon DEF coordinator_only, apply_grant_issue, apply_grant_revalidation
<1>2. CoordTypeOK /\ grant[g] \in GrantRecord BY DEF IndInv, TypeOK, CoordTypeOK
<1>3. ASSUME NEW k \in Contract, apply_grant_issue(g, k) PROVE AuthInv'
  <2>1. prepare_grant(g, issued(k)) BY <1>3, Zenon DEF apply_grant_issue, issued
  <2>2. /\ issued(k).contract = k /\ issued(k).state = "Preparing" /\ issued(k).term = term
        /\ issued(k).attempt = minted + 1 /\ issued(k).ack = [i \in Side |-> FALSE]
    BY Zenon DEF issued
  <2>3. issued(k) \in GrantRecord BY <1>2, NewRecords
  <2> QED BY <1>1, <2>1, <2>2, <2>3, PrepareAuth, Zenon
<1>4. CASE apply_grant_revalidation(g)
  <2>1. prepare_grant(g, revalidated(g)) /\ grant[g].state # "None"
    BY <1>4 DEF apply_grant_revalidation, revalidated
  <2>2. /\ revalidated(g).contract = grant[g].contract /\ revalidated(g).state = "Preparing"
        /\ revalidated(g).term = term /\ revalidated(g).attempt = minted + 1
        /\ revalidated(g).ack = [i \in Side |-> FALSE]
    BY <1>2 DEF revalidated, GrantRecord
  <2>3. revalidated(g) \in GrantRecord /\ grant[g].contract \in Contract
    BY <1>2, <2>1, NewRecords, Zenon DEF IndInv, CapacityInv, Named
  <2> QED BY <1>1, <2>1, <2>2, <2>3, PrepareAuth, Zenon
<1> QED BY <1>3, <1>4

(* on_status_report keeps AuthInv: the acknowledgements it counts are of     *)
(* attempts the agent enforces, and what it finalises was left in doubt in   *)
(* the present term.                                                         *)
LEMMA StatusAuth ==
  ASSUME IndInv, AuthInv, coordinator_only, NEW n \in Conn, on_status_report(n)
  PROVE  AuthInv'
<1>1. /\ session[n].on /\ recv(n, "StatusReport")
      /\ UNCHANGED <<term, minted, session>> /\ UNCHANGED <<serving, agentVars>>
  BY Zenon DEF on_status_report, recv_in_session, coordinator_only
<1>2. /\ read(n) \in [Conn -> Link] /\ Moved(link, read(n), {})
      /\ msg(n).type = "StatusReport" /\ UpOK(link[n].owner, msg(n))
  BY <1>1, Received, Zenon
<1>3. session[n].cluster = link[n].owner BY <1>1 DEF AuthInv, Ends
<1>4. PICK to_fence \in SUBSET Grant, acks \in SUBSET Grant, ready \in SUBSET Grant,
           told \in SUBSET Grant :
        /\ \A g \in acks : /\ usable_state(msg(n).grants[g])
                           /\ msg(n).grants[g].attempt = grant[g].attempt
        /\ \A g \in ready : /\ Settles(n, to_fence, acks)[g].state = "Indeterminate"
                            /\ both_acknowledged(Settles(n, to_fence, acks)[g])
        /\ finalise_grants(ready, Settles(n, to_fence, acks),
                           release_counters(cluster, resv, to_fence),
                           release_reservations(resv, to_fence), n,
                           broadcast_fence(read(n), told))
        /\ persist_grants
  BY StatusEffect, Zenon
<1> DEFINE gr == Settles(n, to_fence, acks)
           side(g) == side_of(session[n].cluster, grant[g].contract)
           ack(g) == [grant[g].ack EXCEPT ![side(g)] = TRUE]
           lk == broadcast_fence(read(n), told)
<1>5. ASSUME NEW g \in Grant
      PROVE  /\ gr[g] \in GrantRecord
             /\ gr[g].attempt = grant[g].attempt /\ gr[g].contract = grant[g].contract
             /\ gr[g].term = grant[g].term
             /\ gr[g].state = grant[g].state \/ gr[g].state = "Fenced"
             /\ \A i \in Side : grant[g].ack[i] => gr[g].ack[i]
             /\ \A i \in Side : gr[g].ack[i] => <<grant[g].attempt, i>> \in installed
  <2>1. grant[g] \in GrantRecord /\ Rightful(grant[g])
    BY DEF IndInv, TypeOK, CoordTypeOK, AuthInv, Tables
  <2>2. g \in acks => <<grant[g].attempt, side(g)>> \in installed
    BY <1>2, <1>3, <1>4, Zenon DEF UpOK
  <2>3. /\ ack(g) \in [Side -> BOOLEAN]
        /\ \A i \in Side : ack(g)[i] = IF i = side(g) THEN TRUE ELSE grant[g].ack[i]
    BY <2>1, Zenon DEF GrantRecord
  <2> HIDE DEF ack
  <2>4. \E a \in {grant[g].ack, ack(g)} :
          /\ a = ack(g) => a = grant[g].ack \/ g \in acks
          /\ \/ gr[g] = [grant[g] EXCEPT !.ack = a]
             \/ gr[g] = [grant[g] EXCEPT !.ack = a, !.state = "Fenced"]
    <3>1. Acked(n, acks)[g] = IF g \in acks THEN [grant[g] EXCEPT !.ack = ack(g)] ELSE grant[g]
      BY DEF Acked, ack
    <3>2. grant[g] = [grant[g] EXCEPT !.ack = grant[g].ack] BY <2>1 DEF GrantRecord
    <3>3. \/ gr[g] = Acked(n, acks)[g]
          \/ gr[g] = [Acked(n, acks)[g] EXCEPT !.state = "Fenced"]
      BY DEF Settles, set_state
    <3>4. \A a : [[grant[g] EXCEPT !.ack = a] EXCEPT !.state = "Fenced"]
                   = [grant[g] EXCEPT !.ack = a, !.state = "Fenced"]
      OBVIOUS
    <3>5. CASE g \in acks BY <3>1, <3>3, <3>4, <3>5
    <3>6. CASE g \notin acks BY <3>1, <3>2, <3>3, <3>4, <3>6, Zenon
    <3> QED BY <3>5, <3>6
  <2> HIDE DEF gr
  <2>5. PICK a \in {grant[g].ack, ack(g)} :
          /\ a = ack(g) => a = grant[g].ack \/ g \in acks
          /\ \/ gr[g] = [grant[g] EXCEPT !.ack = a]
             \/ gr[g] = [grant[g] EXCEPT !.ack = a, !.state = "Fenced"]
    BY <2>4, Zenon
  <2>6. a \in [Side -> BOOLEAN] BY <2>1, <2>3, <2>5 DEF GrantRecord
  <2>7. /\ gr[g].attempt = grant[g].attempt /\ gr[g].contract = grant[g].contract
        /\ gr[g].term = grant[g].term /\ gr[g].ack = a
        /\ gr[g].state = grant[g].state \/ gr[g].state = "Fenced"
        /\ gr[g] \in GrantRecord
    BY <2>1, <2>5, <2>6, Zenon DEF GrantRecord, GrantState
  <2>8. \A i \in Side : grant[g].ack[i] => a[i] BY <2>3, <2>5, Zenon
  <2>9. \A i \in Side : a[i] => <<grant[g].attempt, i>> \in installed
    BY <2>1, <2>2, <2>3, <2>5, Zenon DEF Rightful
  <2> QED BY <2>7, <2>8, <2>9, Zenon
<1>6. \A g \in ready : both_acknowledged(gr[g]) /\ grant[g].term = term
  <2> SUFFICES ASSUME NEW g \in ready PROVE both_acknowledged(gr[g]) /\ grant[g].term = term
    BY Zenon
  <2>1. grant[g].state = "Indeterminate" BY <1>4, <1>5, Zenon
  <2>2. Rightful(grant[g]) BY Zenon DEF AuthInv, Tables
  <2> QED BY <1>4, <2>1, <2>2, Zenon DEF Rightful, Fenceable
<1>7. gr \in [Grant -> GrantRecord]
  <2>1. gr = [g \in Grant |-> gr[g]] BY DEF Settles, set_state, Acked
  <2> QED BY <1>5, <2>1
<1>8. lk \in [Conn -> Link] /\ Moved(read(n), lk, {Fence(told)})
  BY <1>2, Broadcasts, MovedBroadcast, Zenon
<1> HIDE DEF gr, lk
<1>9. (\A g \in Grant : Recorded(g)) /\ Moved(lk, link', {})
  <2>1. finalise_grants(ready, gr, release_counters(cluster, resv, to_fence),
                        release_reservations(resv, to_fence), n, lk) /\ persist_grants
    BY <1>4, Zenon DEF gr, lk
  <2>2. \A g \in Grant :
          /\ gr[g].attempt = grant[g].attempt /\ gr[g].contract = grant[g].contract
          /\ gr[g].term = grant[g].term
          /\ gr[g].state = grant[g].state \/ gr[g].state = "Fenced"
          /\ \A i \in Side : grant[g].ack[i] => gr[g].ack[i]
          /\ \A i \in Side : gr[g].ack[i] => <<grant[g].attempt, i>> \in installed
    BY <1>5, Zenon
  <2> QED BY <1>1, <1>6, <1>7, <1>8, <2>1, <2>2, FinaliseAuth, Zenon
<1>10. Moved(link, link', {Fence(told)})
  <2>1. Moved(link, lk, {Fence(told)}) BY <1>2, <1>8, MovedOn
  <2> QED BY <1>9, <2>1, MovedOn
<1>11. \A m \in {Fence(told)} : Issued(m) BY Harmless
<1>12. \A m \in Conn : session'[m].on =>
         session'[m].cluster = link[m].owner /\ link[m].owner # NoCluster
  BY <1>1, SessionsKept
<1>c. Coordinated({Fence(told)}) BY <1>1, <1>9, <1>10, <1>11, <1>12, Zenon DEF Coordinated
<1> QED BY <1>c, CoordinatorKeeps

(* No step but the start of the coordinator changes its term.                *)
LEMMA TermKept ==
  ASSUME \/ \E n \in Conn : Coordinator_Message(n) \/ Coordinator_Disconnect(n)
         \/ Coordinator_Tick \/ Coordinator_Overdue \/ Operator \/ Coordinator_Crash
  PROVE  UNCHANGED <<term, installed>>
<1>1. UNCHANGED installed
  BY Zenon DEF Coordinator_Message, Coordinator_Disconnect, Coordinator_Tick, Coordinator_Overdue,
         Operator, Coordinator_Crash, coordinator_only, agentVars
<1>2. ASSUME NEW n \in Conn, handle_message(n) PROVE UNCHANGED term
  <2>1. CASE on_hello(n)
    BY <2>1, Zenon DEF on_hello, on_hello_refused, on_hello_registers, on_hello_reincarnates,
                on_hello_advances_policy, on_hello_accepts, coordVars
  <2>2. CASE on_report_cluster(n)
    BY <2>2, Zenon DEF on_report_cluster, on_report_dropped, on_report_conflicts, on_report_accepted,
                coordVars
  <2>3. CASE on_contract_consent(n) \/ on_withdraw(n) \/ on_status_report(n)
    BY <2>3, Zenon DEF on_contract_consent, on_withdraw, on_status_report, coordVars
  <2>4. CASE on_grant_prepared(n)
    BY <2>4, Zenon DEF on_grant_prepared, on_grant_prepared_dropped, on_grant_prepared_refused,
                on_grant_prepared_accepted, coordVars
  <2>5. CASE on_grant_committed(n)
    BY <2>5 DEF on_grant_committed, on_grant_committed_dropped, on_grant_committed_refused,
                on_grant_committed_installed, coordVars
  <2> QED BY <1>2, <2>1, <2>2, <2>3, <2>4, <2>5 DEF handle_message
<1>3. \A k : apply_contract_proposal(k) => UNCHANGED term BY DEF apply_contract_proposal
<1>4. \A g, k : apply_grant_issue(g, k) => UNCHANGED term BY Zenon DEF apply_grant_issue
<1>5. \A g : apply_grant_revalidation(g) \/ fence_grant(g) => UNCHANGED term
  BY DEF apply_grant_revalidation, fence_grant
<1>6. \A c : withdraw_consent(c) \/ restore_consent(c) \/ upsert_policy(c) \/ delete_cluster(c)
               => UNCHANGED term
  BY DEF withdraw_consent, restore_consent, upsert_policy, delete_cluster, coordVars
<1>7. \A c, x : apply_conflict_resolution(c, x) \/ set_registered_state(c, x) => UNCHANGED term
  BY DEF apply_conflict_resolution, set_registered_state
<1>8. \A c, id, x : upsert_cluster(c, id, x) => UNCHANGED term BY DEF upsert_cluster
<1>9. CASE Operator
  <2>1. \/ \E k : apply_contract_proposal(k)
        \/ \E g, k : apply_grant_issue(g, k)
        \/ \E g : apply_grant_revalidation(g) \/ fence_grant(g)
        \/ \E c : withdraw_consent(c) \/ restore_consent(c) \/ upsert_policy(c) \/ delete_cluster(c)
        \/ \E c, x : apply_conflict_resolution(c, x) \/ set_registered_state(c, x)
        \/ \E c, id, x : upsert_cluster(c, id, x)
    BY <1>9, Zenon DEF Operator
  <2> QED BY <1>1, <1>3, <1>4, <1>5, <1>6, <1>7, <1>8, <2>1
<1>10. \A n : handle_disconnect(n) => UNCHANGED term BY DEF handle_disconnect
<1>11. \A F : tick(F) => UNCHANGED term BY Zenon DEF tick
<1>12. crash => UNCHANGED term BY DEF crash
<1> QED
  BY <1>1, <1>2, <1>9, <1>10, <1>11, <1>12
  DEF Coordinator_Message, Coordinator_Disconnect, Coordinator_Tick, Coordinator_Overdue,
      Coordinator_Crash
=============================================================================
