---------------------------- MODULE Coordinator ----------------------------
(***************************************************************************)
(* The coordinator process: the registry of clusters, contracts, grants    *)
(* and reservations it keeps, the sessions of the connected agents, and    *)
(* the grant flows in progress.  One action is one handler run to its end  *)
(* by the single thread of the event loop, or one operator request, or one *)
(* housekeeping tick.                                                      *)
(*                                                                         *)
(* Every grant asks for one unit of capacity of the one endpoint scope its *)
(* contract names on each side.  Every change of a record is written to    *)
(* the durable store within the handler that makes it; the one exception   *)
(* is a grant whose prepare could not start, hence the variable stored.    *)
(* What a crash inside a handler leaves behind is the subject of the       *)
(* modules about the store.                                                *)
(***************************************************************************)
EXTENDS Links

CONSTANTS
  Capacity,               \* the capacity of each cluster's endpoint scope
  MaxRevalidateAttempts   \* ticks a grant flow is retried for

ASSUME CoordinatorAssumption ==
  /\ Capacity \in [Cluster -> Nat]
  /\ MaxRevalidateAttempts \in Nat

ContractState == {"None", "Proposed", "AwaitingConsent", "Consented", "Active", "Refused",
                  "Withdrawn", "Expired", "Fenced"}

ClusterRecord == [known : BOOLEAN, id : Identity, state : ClusterState, withdrawn : BOOLEAN,
                  conflict : BOOLEAN, digest : Digest, endpoint : BOOLEAN, reserved : Nat]
NoDigest == digest_of(NoIdentity, "Unknown")
NoClusterRecord ==
  [known |-> FALSE, id |-> NoIdentity, state |-> "Unknown", withdrawn |-> FALSE,
   conflict |-> FALSE, digest |-> NoDigest, endpoint |-> FALSE, reserved |-> 0]

Consent == [decision : Decision \cup {"None"}, id : Identity]
NoConsent == [decision |-> "None", id |-> NoIdentity]
ContractRecord == [state : ContractState, terms : Terms, consents : [Side -> Consent]]
NoContract == [state |-> "None", terms |-> NoTerms, consents |-> [i \in Side |-> NoConsent]]
both_consented(k) == \A i \in Side : k.consents[i].decision = "Accepted"

(* since orders the sessions by their handshakes. *)
PeerSession == [on : BOOLEAN, cluster : Cluster \cup {NoCluster}, id : Identity, since : Nat]
NoSession == [on |-> FALSE, cluster |-> NoCluster, id |-> NoIdentity, since |-> 0]

PendingGrant == [on : BOOLEAN, targets : [Side -> Conn \cup {NoConn}],
                 prepared : [Side -> BOOLEAN], attempts : Nat]
NoFlow == [on |-> FALSE, targets |-> [i \in Side |-> NoConn],
           prepared |-> [i \in Side |-> FALSE], attempts |-> 0]

VARIABLES
  term,      \* the authority term of this coordinator incarnation
  cluster,   \* the registry's clusters, with the reservation counter of their endpoint
  contract,  \* the registry's contracts
  grant,     \* the registry's grants
  stored,    \* the grants as the durable store has them
  resv,      \* the units of its clusters each grant holds in unreleased reservations
  session,   \* the session established on each connection
  pending,   \* the grant flows in progress
  minted,    \* how many attempt identifiers have been drawn
  greeted    \* how many sessions have been established

coordVars == <<term, cluster, contract, grant, stored, resv, session, pending, minted, greeted>>

CoordInit ==
  /\ term = 1
  /\ cluster = [c \in Cluster |-> NoClusterRecord]
  /\ contract = [k \in Contract |-> NoContract]
  /\ grant = [g \in Grant |-> NoGrant]
  /\ stored = grant
  /\ resv = [g \in Grant |-> [c \in Cluster |-> 0]]
  /\ session = [n \in Conn |-> NoSession]
  /\ pending = [g \in Grant |-> NoFlow]
  /\ minted = 0 /\ greeted = 0

CoordTypeOK ==
  /\ term \in Nat
  /\ cluster \in [Cluster -> ClusterRecord]
  /\ contract \in [Contract -> ContractRecord]
  /\ grant \in [Grant -> GrantRecord]
  /\ stored \in [Grant -> GrantRecord]
  /\ resv \in [Grant -> [Cluster -> Nat]]
  /\ session \in [Conn -> PeerSession]
  /\ pending \in [Grant -> PendingGrant]
  /\ minted \in Nat /\ greeted \in Nat

----------------------------------------------------------------------------
(* Grant states that still carry, or may come to carry, authority. *)
Fenceable == {"Preparing", "Prepared", "Committed", "Active", "Indeterminate"}

set_state(gr, G, s) == [g \in Grant |-> IF g \in G THEN [gr[g] EXCEPT !.state = s] ELSE gr[g]]
involves(gr, g, c) == gr[g].state # "None" /\ c \in parties(gr[g].contract)

(* A handler writes the grants it changed to the store. *)
persist_grants ==
  stored' = [g \in Grant |-> IF grant'[g] = grant[g] THEN stored[g] ELSE grant'[g]]

(* release_reservation(): the counter of the endpoint never goes below zero. *)
held(rv, G, c) ==
  LET upto[g \in 0..MaxGrant] ==
        IF g = 0 THEN 0 ELSE upto[g - 1] + (IF g \in G THEN rv[g][c] ELSE 0)
  IN  upto[MaxGrant]

(* Fault: a counter is lowered without looking whether it can be. *)
minus_unchecked(a, b) == a - b

minus(a, b) == IF b \in 0..a THEN a - b ELSE 0
release_counters(cl, rv, G) ==
  [c \in Cluster |-> [cl[c] EXCEPT !.reserved = minus(@, held(rv, G, c))]]

(* Fault: a release takes the reservations of every grant. *)
release_reservations_all(rv, G) == [g \in Grant |-> [c \in Cluster |-> 0]]

release_reservations(rv, G) ==
  [g \in Grant |-> IF g \in G THEN [c \in Cluster |-> 0] ELSE rv[g]]

(* The connection of the latest handshake of a cluster. *)
target_for(c) ==
  LET mine == {n \in Conn : session[n].on /\ session[n].cluster = c}
      latest == {n \in mine : \A m \in mine : session[m].since <= session[n].since}
  IN  IF latest = {} THEN NoConn ELSE CHOOSE n \in latest : TRUE

(* Fault: the loop over the connected agents stops after the first. *)
broadcast_fence_first(lk, G) ==
  IF G = {} THEN lk
  ELSE [n \in Conn |-> IF session[n].on /\ \A m \in Conn : session[m].on => n <= m
                       THEN to_agent(lk[n], <<Fence(G)>>) ELSE lk[n]]

(* Every connected agent is told of the grants a plan fenced. *)
broadcast_fence(lk, G) ==
  IF G = {} THEN lk
  ELSE [n \in Conn |-> IF session[n].on THEN to_agent(lk[n], <<Fence(G)>>) ELSE lk[n]]

(* Send one message per side; a closed connection stops the loop. *)
can_send(lk, n) == n # NoConn /\ lk[n].coordEnd = "open"
send_one(lk, n, m) == IF can_send(lk, n) THEN [lk EXCEPT ![n] = to_agent(@, <<m>>)] ELSE lk
send_both(lk, t, m) ==
  IF can_send(lk, t[0]) THEN send_one(send_one(lk, t[0], m), t[1], m) ELSE lk

(***************************************************************************)
(* plan_fence and fence_plan_apply for one cluster: the grants of its      *)
(* contracts that may carry authority are fenced, every reservation under  *)
(* its contracts is released, and the contracts that lost a grant close.   *)
(***************************************************************************)
fenced_by(c) == {g \in Grant : involves(grant, g, c) /\ grant[g].state \in Fenceable}

fence_cluster(c, closed, cl) ==
  LET bound == {g \in Grant : involves(grant, g, c)}
      affected == {grant[g].contract : g \in fenced_by(c)}
  IN  /\ grant' = set_state(grant, fenced_by(c), "Fenced")
      /\ contract' = [k \in Contract |->
           IF k \in affected /\ contract[k].state \notin {"Withdrawn", "Fenced"}
           THEN [contract[k] EXCEPT !.state = closed] ELSE contract[k]]
      /\ cluster' = release_counters(cl, resv, bound)
      /\ resv' = release_reservations(resv, bound)
      /\ persist_grants

----------------------------------------------------------------------------
(* The frame a handler runs on, and the connections once it is read. *)
recv(n, type) ==
  /\ serving /\ link[n].coordEnd = "open" /\ ~link[n].cut
  /\ link[n].toCoord # <<>> /\ Head(link[n].toCoord).type = type
(* require_session: every frame but the first needs the session. *)
recv_in_session(n, type) == session[n].on /\ recv(n, type)
msg(n) == Head(link[n].toCoord)
read(n) == [link EXCEPT ![n] = read_by_coord(@)]

(* A handler that fails closes the connection it was serving. *)
close_on(failed, lk, n) == IF failed THEN [lk EXCEPT ![n] = close_coord(@)] ELSE lk

(***************************************************************************)
(* on_hello                                                                *)
(***************************************************************************)
open_session(n, c, id) ==
  /\ greeted' = greeted + 1
  /\ session' = [session EXCEPT ![n] =
       [on |-> TRUE, cluster |-> c, id |-> id, since |-> greeted + 1]]

(* The acknowledgement, the fenced grants to drop, and the status request. *)
greet(lk, n, ok, fenced) ==
  [lk EXCEPT ![n] = to_agent(@,
     <<HelloAck(ok, term)>> \o (IF fenced = {} THEN <<>> ELSE <<Fence(fenced)>>)
        \o <<StatusRequest>>)]

stale_hello(r, id) ==
  /\ r.known
  /\ \/ id.gen < r.id.gen
     \/ id.inc # r.id.inc /\ id.gen = r.id.gen
     \/ id.inc = r.id.inc /\ id.pol < r.id.pol

on_hello_refused(n) ==
  /\ recv(n, "Hello")
  /\ stale_hello(cluster[link[n].owner], msg(n).id)
  /\ link' = [read(n) EXCEPT ![n] = to_agent(@, <<HelloAck(FALSE, term)>>)]
  /\ UNCHANGED coordVars

(* An unknown cluster is registered without endpoints. *)
on_hello_registers(n) ==
  LET c == link[n].owner
      m == msg(n)
  IN  /\ recv(n, "Hello")
      /\ ~cluster[c].known
      /\ cluster' = [cluster EXCEPT ![c] =
           [NoClusterRecord EXCEPT !.known = TRUE, !.id = m.id,
                                   !.digest = digest_of(m.id, m.state)]]
      /\ open_session(n, c, m.id)
      /\ link' = greet(read(n), n, TRUE, {})
      /\ UNCHANGED <<term, contract, grant, stored, resv, pending, minted>>

(* A new incarnation fences what the old one was bound to.  The policy
   generation of the record is left to the report that follows. *)
on_hello_reincarnates(n) ==
  LET c == link[n].owner
      m == msg(n)
      cl == [cluster EXCEPT ![c] =
              [@ EXCEPT !.id = [m.id EXCEPT !.pol = cluster[c].id.pol],
                        !.digest = digest_of(m.id, m.state), !.conflict = FALSE]]
  IN  /\ recv(n, "Hello")
      /\ cluster[c].known /\ ~stale_hello(cluster[c], m.id)
      /\ m.id.inc # cluster[c].id.inc
      /\ fence_cluster(c, "Fenced", cl)
      /\ link' = greet(broadcast_fence(read(n), fenced_by(c)), n, TRUE,
                       {g \in Grant : grant'[g].state = "Fenced"})
      /\ open_session(n, c, m.id)
      /\ UNCHANGED <<term, pending, minted>>

(* The same incarnation with a newer policy generation. *)
on_hello_advances_policy(n) ==
  LET c == link[n].owner
      m == msg(n)
  IN  /\ recv(n, "Hello")
      /\ cluster[c].known /\ ~stale_hello(cluster[c], m.id)
      /\ m.id.inc = cluster[c].id.inc /\ m.id.pol > cluster[c].id.pol
      /\ fence_cluster(c, "Fenced", [cluster EXCEPT ![c].id.pol = m.id.pol])
      /\ link' = greet(broadcast_fence(read(n), fenced_by(c)), n, ~cluster[c].conflict, {})
      /\ open_session(n, c, m.id)
      /\ UNCHANGED <<term, pending, minted>>

(* Fault: a reconnect without news is answered and opens no session. *)
on_hello_accepts_sessionless(n) ==
  LET c == link[n].owner
  IN  /\ recv(n, "Hello")
      /\ cluster[c].known /\ ~stale_hello(cluster[c], msg(n).id)
      /\ msg(n).id.inc = cluster[c].id.inc /\ msg(n).id.pol = cluster[c].id.pol
      /\ link' = greet(read(n), n, ~cluster[c].conflict, {})
      /\ UNCHANGED coordVars

(* Nothing new: only the session is. *)
on_hello_accepts(n) ==
  LET c == link[n].owner
      m == msg(n)
  IN  /\ recv(n, "Hello")
      /\ cluster[c].known /\ ~stale_hello(cluster[c], m.id)
      /\ m.id.inc = cluster[c].id.inc /\ m.id.pol = cluster[c].id.pol
      /\ link' = greet(read(n), n, ~cluster[c].conflict, {})
      /\ open_session(n, c, m.id)
      /\ UNCHANGED <<term, cluster, contract, grant, stored, resv, pending, minted>>

on_hello(n) ==
  \/ on_hello_refused(n)
  \/ on_hello_registers(n)
  \/ on_hello_reincarnates(n)
  \/ on_hello_advances_policy(n)
  \/ on_hello_accepts(n)

(***************************************************************************)
(* on_report_cluster                                                       *)
(***************************************************************************)
(* Fault: a report of the generation that is known counts as superseded. *)
superseded_report_of_known(r, m) == m.id.gen <= r.id.gen \/ m.id.inc # r.id.inc

superseded_report(r, m) == m.id.gen < r.id.gen \/ m.id.inc # r.id.inc

(* Two different contents claim one generation. *)
conflicting_report(r, m) ==
  /\ ~superseded_report(r, m)
  /\ m.id.pol <= r.id.pol
  /\ m.id.gen = r.id.gen
  /\ r.digest # NoDigest
  /\ digest_of(m.id, m.state) # r.digest

on_report_dropped(n) ==
  LET r == cluster[session[n].cluster]
  IN  /\ recv_in_session(n, "ReportCluster")
      /\ \/ ~r.known
         \/ superseded_report(r, msg(n))
         \/ msg(n).id.pol < r.id.pol /\ ~conflicting_report(r, msg(n))
      /\ link' = read(n)
      /\ UNCHANGED coordVars

on_report_conflicts(n) ==
  LET c == session[n].cluster
  IN  /\ recv_in_session(n, "ReportCluster")
      /\ cluster[c].known /\ conflicting_report(cluster[c], msg(n))
      /\ session' = [session EXCEPT ![n].id.gen = msg(n).id.gen]
      /\ fence_cluster(c, "Fenced", [cluster EXCEPT ![c].conflict = TRUE])
      /\ link' = broadcast_fence(read(n), fenced_by(c))
      /\ UNCHANGED <<term, pending, minted, greeted>>

(* The agent's record replaces the registry's, the reservation counter of
   its endpoint included. *)
reported(m) ==
  [known |-> TRUE, id |-> m.id, state |-> m.state, withdrawn |-> m.withdrawn,
   conflict |-> FALSE, digest |-> digest_of(m.id, m.state), endpoint |-> TRUE, reserved |-> 0]

on_report_accepted(n) ==
  LET c == session[n].cluster
      m == msg(n)
      cl == [cluster EXCEPT ![c] = reported(m)]
  IN  /\ recv_in_session(n, "ReportCluster")
      /\ cluster[c].known /\ ~superseded_report(cluster[c], m)
      /\ ~conflicting_report(cluster[c], m) /\ m.id.pol >= cluster[c].id.pol
      /\ session' = [session EXCEPT ![n].id.gen = m.id.gen, ![n].id.pol = m.id.pol]
      /\ IF m.id.pol > cluster[c].id.pol
         THEN /\ fence_cluster(c, "Fenced", cl)
              /\ link' = broadcast_fence(read(n), fenced_by(c))
         ELSE /\ cluster' = cl
              /\ link' = read(n)
              /\ UNCHANGED <<contract, grant, stored, resv>>
      /\ UNCHANGED <<term, pending, minted, greeted>>

on_report_cluster(n) ==
  \/ on_report_dropped(n)
  \/ on_report_conflicts(n)
  \/ on_report_accepted(n)

(***************************************************************************)
(* on_contract_consent.  The state of the contract is not looked at.       *)
(***************************************************************************)
consented_state(k, d) ==
  IF d = "Refused" THEN "Refused"
  ELSE IF both_consented(k) THEN "Consented" ELSE "AwaitingConsent"

on_contract_consent(n) ==
  LET m == msg(n)
      k == contract[m.contract]
      i == side_of(session[n].cluster, m.contract)
      same == /\ k.consents[i].decision = m.decision
              /\ k.consents[i].id.gen = m.id.gen
      new == [k EXCEPT !.consents[i] = [decision |-> m.decision, id |-> m.id]]
  IN  /\ recv_in_session(n, "ContractConsent")
      /\ link' = read(n)
      /\ contract' = IF /\ session[n].cluster \in parties(m.contract)
                        /\ m.terms = k.terms
                        /\ m.id.inc = session[n].id.inc /\ m.id.gen = session[n].id.gen
                        /\ ~same
                     THEN [contract EXCEPT ![m.contract] =
                             [new EXCEPT !.state = consented_state(new, m.decision)]]
                     ELSE contract
      /\ UNCHANGED <<term, cluster, grant, stored, resv, session, pending, minted, greeted>>


(***************************************************************************)
(* The grant flow: abort_grant, commit_grant and finalise_grant.           *)
(***************************************************************************)
abort_grant(gr, G) ==
  set_state(gr, {g \in G : gr[g].state \notin {"Fenced", "Withdrawn"}}, "Aborted")
end_flows(G) == [g \in Grant |-> IF g \in G THEN NoFlow ELSE pending[g]]

(* Fault: an acknowledgement of any attempt counts. *)
current_ack_any_attempt(n, m) ==
  LET g == grant[m.grant]
      i == side_of(session[n].cluster, g.contract)
  IN  /\ involves(grant, m.grant, session[n].cluster)
      /\ g.bind[i].inc = session[n].id.inc
      /\ g.bind[i].gen = session[n].id.gen

(* An acknowledgement counts when it names the attempt and comes from the
   incarnation and generation the grant is bound to. *)
current_ack(n, m) ==
  LET g == grant[m.grant]
      i == side_of(session[n].cluster, g.contract)
  IN  /\ involves(grant, m.grant, session[n].cluster)
      /\ m.attempt = g.attempt
      /\ g.bind[i].inc = session[n].id.inc
      /\ g.bind[i].gen = session[n].id.gen

on_grant_prepared_dropped(n) ==
  LET m == msg(n)
  IN  /\ recv_in_session(n, "GrantPrepared")
      /\ \/ ~current_ack(n, m)
         \/ grant[m.grant].state \notin {"Preparing", "Prepared"}
         \/ m.accepted /\ ~pending[m.grant].on
      /\ link' = read(n)
      /\ UNCHANGED coordVars

on_grant_prepared_refused(n) ==
  LET m == msg(n)
  IN  /\ recv_in_session(n, "GrantPrepared")
      /\ current_ack(n, m) /\ grant[m.grant].state \in {"Preparing", "Prepared"}
      /\ ~m.accepted
      /\ grant' = abort_grant(grant, {m.grant})
      /\ pending' = end_flows({m.grant})
      /\ persist_grants
      /\ link' = read(n)
      /\ UNCHANGED <<term, cluster, contract, resv, session, minted, greeted>>

(* The second acceptance commits: both targets are told, unless one of them
   is gone. *)
on_grant_prepared_accepted(n) ==
  LET m == msg(n)
      g == m.grant
      i == side_of(session[n].cluster, grant[g].contract)
      flow == [pending[g] EXCEPT !.prepared[i] = TRUE]
      both == \A j \in Side : flow.prepared[j]
      reachable == \A j \in Side : flow.targets[j] # NoConn
      failed == \E j \in Side : ~can_send(read(n), flow.targets[j])
  IN  /\ recv_in_session(n, "GrantPrepared")
      /\ current_ack(n, m) /\ grant[g].state \in {"Preparing", "Prepared"}
      /\ m.accepted /\ pending[g].on
      /\ pending' = [pending EXCEPT ![g] = flow]
      /\ grant' = IF ~both THEN grant
                  ELSE set_state(grant, {g}, IF reachable THEN "Prepared" ELSE "Indeterminate")
      /\ link' = IF both /\ reachable
                 THEN close_on(failed,
                        send_both(read(n), flow.targets, CommitGrant(g, grant[g].attempt)), n)
                 ELSE read(n)
      /\ persist_grants
      /\ UNCHANGED <<term, cluster, contract, resv, session, minted, greeted>>

on_grant_prepared(n) ==
  \/ on_grant_prepared_dropped(n)
  \/ on_grant_prepared_refused(n)
  \/ on_grant_prepared_accepted(n)

(***************************************************************************)
(* finalise_grant for the grants in ready, which the registry visits in    *)
(* the order of their random identifiers: those in done found room on both *)
(* sides and are committed.  The first that does not is aborted, with the  *)
(* reservation of its first side made if there was room on that side; the  *)
(* handler then fails and closes its connection.                           *)
(***************************************************************************)
users(gr, G, c) == {g \in G : c \in parties(gr[g].contract)}

(* Fault: the capacity check is off by one. *)
fits_one_over(gr, cl, G, c) ==
  \/ users(gr, G, c) = {}
  \/ /\ cl[c].known /\ cl[c].endpoint
     /\ cl[c].reserved + Cardinality(users(gr, G, c)) <= Capacity[c] + 1

fits(gr, cl, G, c) ==
  \/ users(gr, G, c) = {}
  \/ /\ cl[c].known /\ cl[c].endpoint
     /\ cl[c].reserved + Cardinality(users(gr, G, c)) <= Capacity[c]
reservable(gr, cl, G) == \A c \in Cluster : fits(gr, cl, G, c)

finalise_grants(ready, gr, cl, rv, n, lk) ==
  \E done \in SUBSET ready : \E bad \in SUBSET (ready \ done) :
    LET tried == done \cup bad
        takes(g, c) ==
          \/ g \in done /\ c \in parties(gr[g].contract)
          \/ g \in bad /\ c = Party[gr[g].contract][0] /\ fits(gr, cl, tried, c)
    IN  /\ reservable(gr, cl, done)
        /\ \/ bad = {} /\ done = ready
           \/ Cardinality(bad) = 1 /\ ~reservable(gr, cl, tried)
        /\ grant' = abort_grant(set_state(gr, done, "Committed"), bad)
        /\ pending' = end_flows(tried)
        /\ resv' = [g \in Grant |-> [c \in Cluster |->
             IF takes(g, c) THEN rv[g][c] + 1 ELSE rv[g][c]]]
        /\ cluster' = [c \in Cluster |-> [cl[c] EXCEPT
             !.reserved = @ + Cardinality({g \in tried : takes(g, c)})]]
        /\ link' = close_on(bad # {}, lk, n)

(* on_grant_committed.  The state of the grant is not looked at. *)
on_grant_committed_dropped(n) ==
  /\ recv_in_session(n, "GrantCommitted")
  /\ ~current_ack(n, msg(n))
  /\ link' = read(n)
  /\ UNCHANGED coordVars

on_grant_committed_refused(n) ==
  LET m == msg(n)
  IN  /\ recv_in_session(n, "GrantCommitted")
      /\ current_ack(n, m) /\ ~m.installed
      /\ grant' = abort_grant(grant, {m.grant})
      /\ pending' = end_flows({m.grant})
      /\ persist_grants
      /\ link' = read(n)
      /\ UNCHANGED <<term, cluster, contract, resv, session, minted, greeted>>

on_grant_committed_installed(n) ==
  LET m == msg(n)
      i == side_of(session[n].cluster, grant[m.grant].contract)
      gr == [grant EXCEPT ![m.grant].ack[i] = TRUE]
      ready == {g \in {m.grant} : both_acknowledged(gr[g]) /\ ~usable_state(gr[g])}
  IN  /\ recv_in_session(n, "GrantCommitted")
      /\ current_ack(n, m) /\ m.installed
      /\ finalise_grants(ready, gr, cluster, resv, n, read(n))
      /\ persist_grants
      /\ UNCHANGED <<term, contract, session, minted, greeted>>

on_grant_committed(n) ==
  \/ on_grant_committed_dropped(n)
  \/ on_grant_committed_refused(n)
  \/ on_grant_committed_installed(n)

(***************************************************************************)
(* on_withdraw: an agent withdraws its cluster's consent.                  *)
(***************************************************************************)
on_withdraw(n) ==
  LET c == session[n].cluster
  IN  /\ recv_in_session(n, "Withdraw")
      /\ IF cluster[c].known /\ ~superseded_report(cluster[c], msg(n))
         THEN /\ fence_cluster(c, "Withdrawn", [cluster EXCEPT ![c].withdrawn = TRUE])
              /\ link' = broadcast_fence(read(n), fenced_by(c))
         ELSE /\ link' = read(n)
              /\ UNCHANGED <<cluster, contract, grant, stored, resv>>
      /\ UNCHANGED <<term, session, pending, minted, greeted>>

(***************************************************************************)
(* on_status_report: what the agent enforces settles what a lost           *)
(* acknowledgement left open.                                              *)
(***************************************************************************)
on_status_report(n) ==
  LET c == session[n].cluster
      entry(g) == msg(n).grants[g]
      enforced(g) == entry(g).state \in {"Committed", "Active"}
      mine == {g \in Grant : involves(grant, g, c)}
      bound(g) == LET b == grant[g].bind[side_of(c, grant[g].contract)]
                  IN  b.inc = session[n].id.inc /\ b.gen = session[n].id.gen
      installed == {g \in mine : enforced(g) /\ entry(g).attempt = grant[g].attempt}
      stale == {g \in mine : enforced(g) /\ entry(g).attempt # grant[g].attempt}
      to_fence == stale \cup {g \in installed : ~bound(g)}
                    \cup {g \in mine \ (installed \cup stale) : usable_state(grant[g])}
      acked == [g \in Grant |->
        IF g \in installed /\ bound(g)
        THEN [grant[g] EXCEPT !.ack[side_of(c, grant[g].contract)] = TRUE] ELSE grant[g]]
      gr == set_state(acked,
              {g \in to_fence : grant[g].state \notin {"Aborted", "Withdrawn"}}, "Fenced")
      told == {g \in to_fence : gr[g].state = "Fenced"}
      ready == {g \in Grant : gr[g].state = "Indeterminate" /\ both_acknowledged(gr[g])}
  IN  /\ recv_in_session(n, "StatusReport")
      /\ finalise_grants(ready, gr, release_counters(cluster, resv, to_fence),
                         release_reservations(resv, to_fence), n,
                         broadcast_fence(read(n), told))
      /\ persist_grants
      /\ UNCHANGED <<term, contract, session, minted, greeted>>

(***************************************************************************)
(* handle_disconnect: the end of a connection, seen by the coordinator.    *)
(***************************************************************************)
handle_disconnect(n) ==
  LET c == session[n].cluster
      lost == {g \in Grant : involves(grant, g, c) /\ grant[g].state \in {"Preparing", "Prepared"}}
  IN  /\ serving
      /\ IF link[n].coordEnd = "open" THEN ended_for_coord(link[n]) ELSE session[n].on
      /\ link' = [link EXCEPT ![n] = close_coord(@)]
      /\ session' = [session EXCEPT ![n] = NoSession]
      /\ IF session[n].on
         THEN /\ grant' = set_state(grant, lost, "Indeterminate")
              /\ pending' = [g \in Grant |-> [pending[g] EXCEPT !.targets =
                   [i \in Side |-> IF @[i] = n THEN NoConn ELSE @[i]]]]
              /\ persist_grants
         ELSE UNCHANGED <<grant, pending, stored>>
      /\ UNCHANGED <<term, cluster, contract, resv, minted, greeted>>

(***************************************************************************)
(* tick: expire_grants, then retry_pending_flows.  overdue are the flows   *)
(* the clock has taken past their deadline.                                *)
(***************************************************************************)
(* The flows are visited in the order of their random identifiers. *)
in_some_order(G) ==
  CHOOSE s \in [1..Cardinality(G) -> G] : \A g \in G : \E i \in DOMAIN s : s[i] = g

prepare_message(g, r) == PrepareGrant(g, r, contract[r.contract].terms)

(* Fault: expire_grants finds nothing. *)
expired_grants_none == {}

expired_grants == {g \in Grant : usable_state(grant[g]) /\ grant[g].attempt \in lapsed}

(* The targets a flow lost are looked up again, and the tick is counted. *)
retried(g) ==
  [pending[g] EXCEPT
     !.targets = [i \in Side |-> IF @[i] # NoConn THEN @[i]
                                 ELSE target_for(Party[grant[g].contract][i])],
     !.attempts = @ + 1]

tick(overdue) ==
  LET expired == expired_grants
      flows == {g \in Grant : pending[g].on}
      timed_out == {g \in flows : g \in overdue \/ pending[g].attempts >= MaxRevalidateAttempts}
      retry == flows \ timed_out
      gr == abort_grant(set_state(grant, expired, "Expired"), timed_out)
      resend(n) == in_some_order({g \in retry :
        /\ gr[g].state = "Preparing"
        /\ \E i \in Side : retried(g).targets[i] = n /\ ~pending[g].prepared[i]})
  IN  /\ serving
      /\ overdue \subseteq flows
      /\ grant' = gr
      /\ cluster' = release_counters(cluster, resv, expired)
      /\ resv' = release_reservations(resv, expired)
      /\ pending' = [g \in Grant |->
           IF g \in retry THEN retried(g) ELSE IF g \in timed_out THEN NoFlow ELSE pending[g]]
      /\ link' = [n \in Conn |->
           to_agent(broadcast_fence(link, expired)[n],
                    [j \in DOMAIN resend(n) |-> prepare_message(resend(n)[j], gr[resend(n)[j]])])]
      /\ persist_grants
      /\ UNCHANGED <<term, contract, session, minted, greeted>>

(***************************************************************************)
(* handle_admin: the operator's requests.                                  *)
(***************************************************************************)
apply_contract_proposal(k) ==
  LET target == [i \in Side |-> target_for(Party[k][i])]
      terms == [i \in Side |-> cluster[Party[k][i]].id]
      proposal == ProposeContract(k, terms)
  IN  /\ serving
      /\ contract[k].state = "None"
      /\ \A i \in Side : cluster[Party[k][i]].known
      /\ contract' = [contract EXCEPT ![k] =
           [NoContract EXCEPT !.state = "Proposed", !.terms = terms]]
      /\ link' = IF target[0] = NoConn THEN send_one(link, target[1], proposal)
                 ELSE send_both(link, target, proposal)
      /\ UNCHANGED <<term, cluster, grant, stored, resv, session, pending, minted, greeted>>

(* prepare_grant: the record is already in the registry when it fails. *)
prepare_grant(g, r) ==
  LET target == [i \in Side |-> target_for(Party[r.contract][i])]
  IN  /\ grant' = [grant EXCEPT ![g] = r]
      /\ IF /\ contract[r.contract].state \in {"Consented", "Active"}
            /\ \A i \in Side : target[i] # NoConn
         THEN /\ stored' = [stored EXCEPT ![g] = r]
              /\ pending' = [pending EXCEPT ![g] = [NoFlow EXCEPT !.on = TRUE, !.targets = target]]
              /\ link' = send_both(link, target, prepare_message(g, r))
         ELSE UNCHANGED <<stored, pending, link>>

apply_grant_issue(g, k) ==
  /\ serving
  /\ grant[g].state = "None" /\ \A h \in Grant : h < g => grant[h].state # "None"
  /\ contract[k].state \in {"Consented", "Active"}
  /\ \A i \in Side : cluster[Party[k][i]].known
  /\ minted' = minted + 1
  /\ prepare_grant(g, [state |-> "Preparing", contract |-> k, attempt |-> minted + 1,
                       term |-> term, bind |-> [i \in Side |-> cluster[Party[k][i]].id],
                       ack |-> [i \in Side |-> FALSE]])
  /\ UNCHANGED <<term, cluster, contract, resv, session, greeted>>

(* The bindings are those of the issue; only a fenced grant is refused. *)
apply_grant_revalidation(g) ==
  /\ serving
  /\ grant[g].state \notin {"None", "Fenced"}
  /\ minted' = minted + 1
  /\ prepare_grant(g, [grant[g] EXCEPT !.state = "Preparing", !.attempt = minted + 1,
                                       !.term = term, !.ack = [i \in Side |-> FALSE]])
  /\ UNCHANGED <<term, cluster, contract, resv, session, greeted>>

fence_grant(g) ==
  /\ serving
  /\ grant[g].state # "None"
  /\ grant' = set_state(grant, {h \in {g} : grant[h].state \notin {"Aborted", "Withdrawn"}}, "Fenced")
  /\ cluster' = release_counters(cluster, resv, {g})
  /\ resv' = release_reservations(resv, {g})
  /\ link' = broadcast_fence(link, {h \in {g} : grant'[h].state = "Fenced"})
  /\ persist_grants
  /\ UNCHANGED <<term, contract, session, pending, minted, greeted>>

withdraw_consent(c) ==
  /\ serving /\ cluster[c].known
  /\ fence_cluster(c, "Withdrawn", [cluster EXCEPT ![c].withdrawn = TRUE])
  /\ link' = broadcast_fence(link, fenced_by(c))
  /\ UNCHANGED <<term, session, pending, minted, greeted>>

restore_consent(c) ==
  /\ serving /\ cluster[c].known
  /\ cluster' = [cluster EXCEPT ![c].withdrawn = FALSE]
  /\ UNCHANGED <<link, term, contract, grant, stored, resv, session, pending, minted, greeted>>

(* The operator names a generation above the disputed one. *)
apply_conflict_resolution(c, gen) ==
  /\ serving /\ cluster[c].known
  /\ cluster[c].conflict /\ gen > cluster[c].id.gen
  /\ fence_cluster(c, "Fenced", [cluster EXCEPT ![c].conflict = FALSE, ![c].id.gen = gen])
  /\ link' = broadcast_fence(link, fenced_by(c))
  /\ UNCHANGED <<term, session, pending, minted, greeted>>

set_registered_state(c, s) ==
  LET cl == [cluster EXCEPT ![c].state = s]
  IN  /\ serving /\ cluster[c].known
      /\ IF s = "Retired"
         THEN /\ fence_cluster(c, "Fenced", cl)
              /\ link' = broadcast_fence(link, fenced_by(c))
         ELSE /\ cluster' = cl
              /\ UNCHANGED <<link, contract, grant, stored, resv>>
      /\ UNCHANGED <<term, session, pending, minted, greeted>>

(* A policy rule that names cluster c fences what was bound to the old rules. *)
upsert_policy(c) ==
  /\ serving
  /\ fence_cluster(c, "Fenced", cluster)
  /\ link' = broadcast_fence(link, fenced_by(c))
  /\ UNCHANGED <<term, session, pending, minted, greeted>>

(* The operator declares a cluster: the record replaces the registry's, and
   no content digest comes with it. *)
upsert_cluster(c, id, s) ==
  /\ serving
  /\ cluster' = [cluster EXCEPT ![c] =
       [NoClusterRecord EXCEPT !.known = TRUE, !.id = id, !.state = s, !.endpoint = TRUE]]
  /\ UNCHANGED <<link, term, contract, grant, stored, resv, session, pending, minted, greeted>>

(* Deleting a cluster leaves its contracts, grants and sessions. *)
delete_cluster(c) ==
  /\ serving /\ cluster[c].known
  /\ cluster' = [cluster EXCEPT ![c] = NoClusterRecord]
  /\ UNCHANGED <<link, term, contract, grant, stored, resv, session, pending, minted, greeted>>

(***************************************************************************)
(* The process dies, and a new incarnation takes over the store: the term  *)
(* advances and everything recovered that may carry authority is fenced.   *)
(***************************************************************************)
crash ==
  /\ serving
  /\ serving' = FALSE
  /\ link' = [n \in Conn |-> close_coord(link[n])]
  /\ session' = [n \in Conn |-> NoSession]
  /\ pending' = [g \in Grant |-> NoFlow]
  /\ grant' = stored
  /\ UNCHANGED <<lapsed, term, cluster, contract, stored, resv, minted, greeted>>

(* Fault: the new incarnation forgets fence_recovered_state. *)
begin_incarnation_unfenced ==
  /\ ~serving
  /\ serving' = TRUE
  /\ term' = term + 1
  /\ cluster' = release_counters(cluster, resv, Grant)
  /\ resv' = release_reservations(resv, Grant)
  /\ UNCHANGED <<link, lapsed, contract, grant, stored, session, pending, minted, greeted>>

begin_incarnation ==
  /\ ~serving
  /\ serving' = TRUE
  /\ term' = term + 1
  /\ grant' = set_state(grant, {g \in Grant : grant[g].state \in Fenceable}, "Fenced")
  /\ stored' = grant'
  /\ cluster' = release_counters(cluster, resv, Grant)
  /\ resv' = release_reservations(resv, Grant)
  /\ UNCHANGED <<link, lapsed, contract, session, pending, minted, greeted>>

----------------------------------------------------------------------------
(* One frame handled. *)
handle_message(n) ==
  \/ on_hello(n)
  \/ on_report_cluster(n)
  \/ on_contract_consent(n)
  \/ on_grant_prepared(n)
  \/ on_grant_committed(n)
  \/ on_withdraw(n)
  \/ on_status_report(n)

(***************************************************************************)
(* The decision: connectivity under contract k is authorized.  check_grant *)
(* takes the grant of the contract that was issued last.                   *)
(***************************************************************************)
latest_grant(k) ==
  LET mine == {g \in Grant : grant[g].state # "None" /\ grant[g].contract = k}
  IN  {g \in mine : \A h \in mine : grant[h].attempt <= grant[g].attempt}

check_cluster(c) ==
  /\ cluster[c].known /\ cluster[c].state = "Active"
  /\ ~cluster[c].conflict /\ ~cluster[c].withdrawn /\ cluster[c].endpoint

(* Fault: a consent counts whatever identity gave it. *)
check_consents_any_identity(k) ==
  /\ contract[k].state \notin {"None", "Refused", "Withdrawn", "Fenced", "Expired"}
  /\ \A i \in Side : contract[k].consents[i].decision = "Accepted"

check_consents(k) ==
  /\ contract[k].state \notin {"None", "Refused", "Withdrawn", "Fenced", "Expired"}
  /\ \A i \in Side :
       /\ contract[k].consents[i].decision = "Accepted"
       /\ contract[k].consents[i].id = cluster[Party[k][i]].id

check_grant(g) ==
  /\ usable_state(grant[g])
  /\ grant[g].term = term
  /\ both_acknowledged(grant[g])
  /\ \A i \in Side : grant[g].bind[i] = cluster[Party[grant[g].contract][i]].id
  /\ grant[g].attempt \notin lapsed

decide(k) ==
  /\ \A i \in Side : check_cluster(Party[k][i])
  /\ check_consents(k)
  /\ \E g \in latest_grant(k) : check_grant(g)
=============================================================================
