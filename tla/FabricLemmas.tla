--------------------------- MODULE FabricLemmas ----------------------------
(***************************************************************************)
(* Facts about the operators that the model is built from: messages,       *)
(* connections, records of grants.  The other proof modules rest on them.  *)
(***************************************************************************)
EXTENDS Invariants, TLAPS

(* Every leaf may take this long. *)
USE SMTT(30), ZenonT(10)

(***************************************************************************)
(* Messages.                                                               *)
(***************************************************************************)
LEMMA ToCoordFields ==
  ASSUME NEW m \in ToCoord
  PROVE  /\ m.type = "Hello" => m.id \in Identity /\ m.state \in ClusterState
         /\ m.type = "ReportCluster" =>
              m.id \in Identity /\ m.state \in ClusterState /\ m.withdrawn \in BOOLEAN
         /\ m.type = "ContractConsent" =>
              /\ m.contract \in Contract /\ m.terms \in Terms /\ m.id \in Identity
              /\ m.decision \in Decision
         /\ m.type = "GrantPrepared" =>
              m.grant \in Grant /\ m.attempt \in Nat /\ m.accepted \in BOOLEAN
         /\ m.type = "GrantCommitted" =>
              m.grant \in Grant /\ m.attempt \in Nat /\ m.installed \in BOOLEAN
         /\ m.type = "Withdraw" => m.id \in Identity
         /\ m.type = "StatusReport" => m.grants \in [Grant -> StatusEntry]
  BY DEF ToCoord

(* The fields of a frame to an agent, by its type.                           *)
LEMMA ToAgentFields ==
  ASSUME NEW m \in ToAgent
  PROVE  /\ m.type = "HelloAck" => m.ok \in BOOLEAN /\ m.term \in Nat
         /\ m.type = "Fence" => m.grants \in SUBSET Grant
         /\ m.type = "ProposeContract" => m.contract \in Contract /\ m.terms \in Terms
         /\ m.type = "PrepareGrant" =>
              m.grant \in Grant /\ m.record \in GrantRecord /\ m.terms \in Terms
         /\ m.type = "CommitGrant" => m.grant \in Grant /\ m.attempt \in Nat
  BY DEF ToAgent

(* Every frame constructor used by the agents makes a frame of ToCoord.      *)
LEMMA ToCoordMade ==
  ASSUME NEW id \in Identity, NEW s \in ClusterState, NEW ok \in BOOLEAN, NEW a \in Nat,
         NEW g \in Grant, NEW k \in Contract, NEW t \in Terms, NEW d \in Decision,
         NEW e \in [Grant -> StatusEntry]
  PROVE  /\ Hello(id, s) \in ToCoord
         /\ ReportCluster(id, s, ok) \in ToCoord
         /\ ContractConsent(k, t, id, d) \in ToCoord
         /\ GrantPrepared(g, a, ok) \in ToCoord
         /\ GrantCommitted(g, a, ok) \in ToCoord
         /\ Withdraw(id) \in ToCoord
         /\ StatusReport(e) \in ToCoord
  BY DEF ToCoord, Hello, ReportCluster, ContractConsent, GrantPrepared, GrantCommitted,
         Withdraw, StatusReport

(* Every frame constructor used by the coordinator makes a frame of ToAgent. *)
LEMMA ToAgentMade ==
  ASSUME NEW ok \in BOOLEAN, NEW a \in Nat, NEW g \in Grant, NEW G \in SUBSET Grant,
         NEW k \in Contract, NEW t \in Terms, NEW r \in GrantRecord
  PROVE  /\ HelloAck(ok, a) \in ToAgent
         /\ Fence(G) \in ToAgent
         /\ StatusRequest \in ToAgent
         /\ ProposeContract(k, t) \in ToAgent
         /\ PrepareGrant(g, r, t) \in ToAgent
         /\ CommitGrant(g, a) \in ToAgent
  BY DEF ToAgent, HelloAck, Fence, StatusRequest, ProposeContract, PrepareGrant, CommitGrant

(* Queues of messages. *)
LEMMA OneElement ==
  ASSUME NEW S, NEW x \in S
  PROVE  <<x>> \in Seq(S)
OBVIOUS

(* Two sequences over one set put together are a sequence over it.           *)
LEMMA ConcatProperties ==
  ASSUME NEW S, NEW s \in Seq(S), NEW t \in Seq(S)
  PROVE  s \o t \in Seq(S)
OBVIOUS

(* A non-empty queue has a first frame, and a queue is left without it.      *)
LEMMA HeadTailProperties ==
  ASSUME NEW S, NEW s \in Seq(S), s # <<>>
  PROVE  Head(s) \in S /\ Tail(s) \in Seq(S)
OBVIOUS

(***************************************************************************)
(* Connections.                                                            *)
(***************************************************************************)
LEMMA LinkWrites ==
  ASSUME NEW l \in Link
  PROVE  /\ \A msgs \in Seq(ToAgent) : to_agent(l, msgs) \in Link
         /\ \A msgs \in Seq(ToCoord) : to_coord(l, msgs) \in Link
<1>1. ASSUME NEW msgs \in Seq(ToAgent) PROVE to_agent(l, msgs) \in Link
  <2>1. l.toAgent \o msgs \in Seq(ToAgent) BY ConcatProperties DEF Link
  <2>2. [l EXCEPT !.toAgent = l.toAgent \o msgs] \in Link BY <2>1, Zenon DEF Link
  <2> QED BY <2>2 DEF to_agent
<1>2. ASSUME NEW msgs \in Seq(ToCoord) PROVE to_coord(l, msgs) \in Link
  <2>1. l.toCoord \o msgs \in Seq(ToCoord) BY ConcatProperties DEF Link
  <2>2. [l EXCEPT !.toCoord = l.toCoord \o msgs] \in Link BY <2>1, Zenon DEF Link
  <2> QED BY <2>2 DEF to_coord
<1> QED BY <1>1, <1>2

(* Taking the first frame off, or closing either end, leaves a link.         *)
LEMMA LinkReads ==
  ASSUME NEW l \in Link
  PROVE  /\ l.toCoord # <<>> => read_by_coord(l) \in Link /\ Head(l.toCoord) \in ToCoord
         /\ l.toAgent # <<>> => read_by_agent(l) \in Link /\ Head(l.toAgent) \in ToAgent
         /\ close_coord(l) \in Link
         /\ close_agent(l) \in Link
<1>1. ASSUME l.toCoord # <<>> PROVE read_by_coord(l) \in Link /\ Head(l.toCoord) \in ToCoord
  <2>1. Tail(l.toCoord) \in Seq(ToCoord) /\ Head(l.toCoord) \in ToCoord
    BY <1>1, HeadTailProperties DEF Link
  <2> QED BY <2>1, Zenon DEF read_by_coord, Link
<1>2. ASSUME l.toAgent # <<>> PROVE read_by_agent(l) \in Link /\ Head(l.toAgent) \in ToAgent
  <2>1. Tail(l.toAgent) \in Seq(ToAgent) /\ Head(l.toAgent) \in ToAgent
    BY <1>2, HeadTailProperties DEF Link
  <2> QED BY <2>1, Zenon DEF read_by_agent, Link
<1>3. <<>> \in Seq(ToCoord) /\ <<>> \in Seq(ToAgent) OBVIOUS
<1>4. close_coord(l) \in Link BY <1>3, Zenon DEF close_coord, Link, End
<1>5. close_agent(l) \in Link BY <1>3, Zenon DEF close_agent, Link, End
<1> QED BY <1>1, <1>2, <1>4, <1>5

(* What is in a queue after a frame is added or taken.                       *)
LEMMA Queues ==
  ASSUME NEW T, NEW q \in Seq(T)
  PROVE  /\ In(q) \subseteq T
         /\ \A r \in Seq(T) : In(q \o r) \subseteq In(q) \cup In(r)
         /\ \A x \in T : In(q \o <<x>>) \subseteq In(q) \cup {x}
         /\ q # <<>> => Head(q) \in In(q) /\ In(Tail(q)) \subseteq In(q)
         /\ In(<<>>) = {}
<1>1. In(q) \subseteq T BY DEF In
<1>2. ASSUME NEW r \in Seq(T) PROVE In(q \o r) \subseteq In(q) \cup In(r)
  <2> SUFFICES ASSUME NEW i \in DOMAIN (q \o r) PROVE (q \o r)[i] \in In(q) \cup In(r) BY DEF In
  <2>1. i \in 1..(Len(q) + Len(r)) BY DEF In
  <2>2. CASE i <= Len(q)
    <3>1. (q \o r)[i] = q[i] /\ i \in DOMAIN q BY <2>1, <2>2
    <3> QED BY <3>1 DEF In
  <2>3. CASE i > Len(q)
    <3>1. (q \o r)[i] = r[i - Len(q)] /\ (i - Len(q)) \in DOMAIN r BY <2>1, <2>3
    <3> QED BY <3>1 DEF In
  <2> QED BY <2>1, <2>2, <2>3
<1>3. ASSUME NEW x \in T PROVE In(q \o <<x>>) \subseteq In(q) \cup {x}
  <2>1. <<x>> \in Seq(T) /\ In(<<x>>) = {x} BY DEF In
  <2> QED BY <1>2, <2>1, Zenon
<1>4. ASSUME q # <<>> PROVE Head(q) \in In(q) /\ In(Tail(q)) \subseteq In(q)
  <2>1. Len(q) \in Nat /\ Len(q) >= 1 /\ DOMAIN q = 1..Len(q) BY <1>4
  <2>2. Head(q) = q[1] /\ 1 \in DOMAIN q BY <1>4, <2>1
  <2>3. \A i \in DOMAIN Tail(q) : Tail(q)[i] = q[i + 1] /\ i + 1 \in DOMAIN q BY <1>4, <2>1
  <2> QED BY <2>2, <2>3 DEF In
<1>5. In(<<>>) = {} BY DEF In
<1> QED BY <1>1, <1>2, <1>3, <1>4, <1>5

(* A message sent on a connection, one after another, or to all sessions. *)
LEMMA Sends ==
  ASSUME NEW lk \in [Conn -> Link], NEW m \in ToAgent
  PROVE  /\ \A n \in Conn \cup {NoConn} : send_one(lk, n, m) \in [Conn -> Link]
         /\ \A t \in [Side -> Conn \cup {NoConn}] : send_both(lk, t, m) \in [Conn -> Link]
<1>1. <<m>> \in Seq(ToAgent) OBVIOUS
<1>2. ASSUME NEW l \in [Conn -> Link], NEW n \in Conn \cup {NoConn}
      PROVE  send_one(l, n, m) \in [Conn -> Link]
  <2>1. CASE n = NoConn BY <2>1 DEF send_one, can_send
  <2>2. CASE n \in Conn
    <3>1. to_agent(l[n], <<m>>) \in Link BY <1>1, <2>2, LinkWrites, Zenon
    <3> QED BY <2>2, <3>1 DEF send_one
  <2> QED BY <2>1, <2>2
<1>3. ASSUME NEW t \in [Side -> Conn \cup {NoConn}] PROVE send_both(lk, t, m) \in [Conn -> Link]
  <2>1. t[0] \in Conn \cup {NoConn} /\ t[1] \in Conn \cup {NoConn} BY DEF Side
  <2>2. send_one(lk, t[0], m) \in [Conn -> Link] BY <2>1, <1>2
  <2>3. send_one(send_one(lk, t[0], m), t[1], m) \in [Conn -> Link] BY <2>1, <2>2, <1>2
  <2> QED BY <2>3 DEF send_both
<1> QED BY <1>2, <1>3

(* broadcast_fence keeps every link well formed.                             *)
LEMMA Broadcasts ==
  ASSUME NEW lk \in [Conn -> Link], NEW G \in SUBSET Grant
  PROVE  broadcast_fence(lk, G) \in [Conn -> Link]
<1>1. <<Fence(G)>> \in Seq(ToAgent) BY DEF ToAgent, Fence
<1>2. \A n \in Conn : to_agent(lk[n], <<Fence(G)>>) \in Link BY <1>1, LinkWrites, Zenon
<1> QED BY <1>2 DEF broadcast_fence

(* Closing the session of a frame that was refused keeps every link well     *)
(* formed.                                                                   *)
LEMMA Closes ==
  ASSUME NEW lk \in [Conn -> Link], NEW n \in Conn, NEW failed
  PROVE  close_on(failed, lk, n) \in [Conn -> Link]
<1>1. close_coord(lk[n]) \in Link BY LinkReads
<1> QED BY <1>1 DEF close_on

(* target_for finds a session of the cluster or none.                        *)
LEMMA Targets ==
  ASSUME session \in [Conn -> PeerSession]
  PROVE  \A c : target_for(c) \in Conn \cup {NoConn}
BY DEF target_for

(***************************************************************************)
(* Records.                                                                *)
(***************************************************************************)
LEMMA SetState ==
  ASSUME NEW gr \in [Grant -> GrantRecord], NEW G, NEW s \in GrantState
  PROVE  set_state(gr, G, s) \in [Grant -> GrantRecord]
BY DEF set_state, GrantRecord

(* abort_grant leaves grant records.                                         *)
LEMMA Aborts ==
  ASSUME NEW gr \in [Grant -> GrantRecord], NEW G
  PROVE  abort_grant(gr, G) \in [Grant -> GrantRecord]
BY SetState DEF abort_grant, GrantState

(* handle_message takes a frame of ToCoord off the link.                     *)
LEMMA Frames ==
  ASSUME LinksTypeOK, NEW n \in Conn, link[n].toCoord # <<>>
  PROVE  read(n) \in [Conn -> Link] /\ msg(n) \in ToCoord
<1>1. link[n] \in Link BY DEF LinksTypeOK
<1>2. read_by_coord(link[n]) \in Link /\ msg(n) \in ToCoord BY <1>1, LinkReads DEF msg
<1> QED BY <1>2 DEF read, LinksTypeOK

(***************************************************************************)
(* Contracts, and the grants made of them.                                 *)
(***************************************************************************)
LEMMA PartyTypes ==
  ASSUME NEW k \in Contract, NEW i \in Side
  PROVE  Party[k][i] \in Cluster
BY LinksAssumption

(* The terms a contract binds from the two cluster records are terms.        *)
LEMMA BindTypes ==
  ASSUME CoordTypeOK, NEW k \in Contract
  PROVE  [i \in Side |-> cluster[Party[k][i]].id] \in Terms
BY PartyTypes DEF CoordTypeOK, ClusterRecord, Terms

issued(k) == [state |-> "Preparing", contract |-> k, attempt |-> minted + 1,
              term |-> term, bind |-> [i \in Side |-> cluster[Party[k][i]].id],
              ack |-> [i \in Side |-> FALSE]]

revalidated(g) == [grant[g] EXCEPT !.state = "Preparing", !.attempt = minted + 1,
                                   !.term = term, !.ack = [i \in Side |-> FALSE]]

(* The grant records made by issue and by revalidation are grant records.    *)
LEMMA NewRecords ==
  ASSUME CoordTypeOK
  PROVE  /\ \A k \in Contract : issued(k) \in GrantRecord
         /\ \A g \in Grant : revalidated(g) \in GrantRecord
<1>1. minted + 1 \in Nat /\ term \in Nat BY DEF CoordTypeOK
<1>2. [i \in Side |-> FALSE] \in [Side -> BOOLEAN] OBVIOUS
<1>3. ASSUME NEW k \in Contract PROVE issued(k) \in GrantRecord
  <2> DEFINE b == [i \in Side |-> cluster[Party[k][i]].id]
             x == minted + 1
  <2>1. b \in [Side -> Identity] BY BindTypes DEF Terms
  <2>2. k \in Nat BY LinksAssumption DEF Contract
  <2>3. issued(k) = [state |-> "Preparing", contract |-> k, attempt |-> x, term |-> term,
                     bind |-> b, ack |-> [i \in Side |-> FALSE]] BY DEF issued
  <2>4. x \in Nat BY <1>1
  <2> HIDE DEF b, x
  <2> QED BY <1>1, <1>2, <2>1, <2>2, <2>3, <2>4 DEF GrantRecord, GrantState
<1>4. ASSUME NEW g \in Grant PROVE revalidated(g) \in GrantRecord
  <2> DEFINE x == minted + 1
             f == [i \in Side |-> FALSE]
  <2>1. grant[g] \in GrantRecord BY DEF CoordTypeOK
  <2>2. revalidated(g) = [grant[g] EXCEPT !.state = "Preparing", !.attempt = x,
                                          !.term = term, !.ack = f] BY DEF revalidated
  <2>3. x \in Nat /\ f \in [Side -> BOOLEAN] BY <1>1, <1>2
  <2> HIDE DEF x, f
  <2> QED BY <1>1, <2>1, <2>2, <2>3, Zenon DEF GrantRecord, GrantState
<1> QED BY <1>3, <1>4

(* A party of a contract is on the side that side_of finds for it.           *)
LEMMA Sides ==
  ASSUME NEW c, NEW k, c \in parties(k)
  PROVE  side_of(c, k) \in Side /\ Party[k][side_of(c, k)] = c
BY DEF parties, side_of

(* The states of a grant that is out of use but not free. *)
Closing == {"Prepared", "Aborted", "Fenced", "Expired", "Indeterminate"}

(* The grants of the table with the acknowledgements of a status report. *)
Acked(n, acks) == [g \in Grant |->
  IF g \in acks THEN [grant[g] EXCEPT !.ack[side_of(session[n].cluster, grant[g].contract)] = TRUE]
  ELSE grant[g]]

Settles(n, to_fence, acks) ==
  set_state(Acked(n, acks), {g \in to_fence : grant[g].state \notin {"Aborted", "Withdrawn"}}, "Fenced")

(* on_status_report is a fencing of stale grants followed by the finalising  *)
(* of those with both acknowledgements.                                      *)
LEMMA StatusEffect ==
  ASSUME NEW n, on_status_report(n)
  PROVE  \E to_fence \in SUBSET Grant, acks \in SUBSET Grant, ready \in SUBSET Grant,
            told \in SUBSET Grant :
           /\ \A g \in to_fence : grant[g].state # "None"
           /\ \A g \in acks : /\ usable_state(msg(n).grants[g])
                               /\ msg(n).grants[g].attempt = grant[g].attempt
           /\ \A g \in ready : /\ Settles(n, to_fence, acks)[g].state = "Indeterminate"
                                /\ both_acknowledged(Settles(n, to_fence, acks)[g])
           /\ finalise_grants(ready, Settles(n, to_fence, acks),
                              release_counters(cluster, resv, to_fence),
                              release_reservations(resv, to_fence), n,
                              broadcast_fence(read(n), told))
           /\ persist_grants
<1> DEFINE c == session[n].cluster
           entry(g) == msg(n).grants[g]
           enforced(g) == entry(g).state \in {"Committed", "Active"}
           mine == {g \in Grant : involves(grant, g, c)}
           bound(g) == LET b == grant[g].bind[side_of(c, grant[g].contract)]
                       IN  b.inc = session[n].id.inc /\ b.gen = session[n].id.gen
           inst == {g \in mine : enforced(g) /\ entry(g).attempt = grant[g].attempt}
           stale == {g \in mine : enforced(g) /\ entry(g).attempt # grant[g].attempt}
           to_fence == stale \cup {g \in inst : ~bound(g)}
                         \cup {g \in mine \ (inst \cup stale) : usable_state(grant[g])}
           acks == {g \in Grant : g \in inst /\ bound(g)}
           fences == {g \in to_fence : grant[g].state \notin {"Aborted", "Withdrawn"}}
           acked == [g \in Grant |->
             IF g \in inst /\ bound(g)
             THEN [grant[g] EXCEPT !.ack[side_of(c, grant[g].contract)] = TRUE] ELSE grant[g]]
           gr == set_state(acked, fences, "Fenced")
           told == {g \in to_fence : gr[g].state = "Fenced"}
           ready == {g \in Grant : gr[g].state = "Indeterminate" /\ both_acknowledged(gr[g])}
<1>1. finalise_grants(ready, gr, release_counters(cluster, resv, to_fence),
                      release_reservations(resv, to_fence), n,
                      broadcast_fence(read(n), told)) /\ persist_grants
  BY Zenon DEF on_status_report
<1>2. /\ to_fence \in SUBSET Grant /\ acks \in SUBSET Grant
      /\ ready \in SUBSET Grant /\ told \in SUBSET Grant
  BY Zenon
<1>3. \A g \in to_fence : grant[g].state # "None" BY DEF involves
<1>4. /\ \A g \in ready : gr[g].state = "Indeterminate" /\ both_acknowledged(gr[g])
      /\ \A g \in acks : /\ usable_state(msg(n).grants[g])
                          /\ msg(n).grants[g].attempt = grant[g].attempt
  BY Zenon DEF usable_state
<1>5. acked = Acked(n, acks) BY DEF Acked
<1> HIDE DEF acked, acks
<1>6. gr = Settles(n, to_fence, acks) BY <1>5 DEF Settles
<1> HIDE DEF told, ready, to_fence, gr
<1> QED BY <1>1, <1>2, <1>3, <1>4, <1>6
=============================================================================
