------------------------ MODULE CoordinatorCapacity ------------------------
(***************************************************************************)
(* Every handler of the coordinator keeps usable grants in possession of   *)
(* their reservations.  The store matters too: after a crash its grants    *)
(* are the registry's, and the two differ only in a grant whose prepare    *)
(* could not start.                                                        *)
(***************************************************************************)
EXTENDS FabricLemmas

(* Every leaf may take this long. *)
USE SMTT(30), ZenonT(10)

(* The parties of a contract are clusters.                                   *)
LEMMA PartiesInCluster ==
  ASSUME NEW k \in Contract
  PROVE  parties(k) \subseteq Cluster
BY LinksAssumption DEF parties

(* A step that closes a set of grants in memory and releases the capacity of *)
(* those it names keeps CapacityInv.                                         *)
LEMMA ClosingStep ==
  ASSUME CoordTypeOK, CapacityInv, NEW G \in SUBSET Grant, NEW R,
         \A g \in G : /\ grant[g].state # "None"
                      /\ \E s \in Closing : grant'[g] = [grant[g] EXCEPT !.state = s],
         \A g \in Grant \ G : grant'[g] = grant[g],
         \A g \in R \cap Grant :
           g \in G \/ (~usable_state(grant[g]) /\ grant[g].state # "Preparing"),
         persist_grants, resv' = release_reservations(resv, R),
         \A g \in Grant : pending'[g].on => pending[g].on
  PROVE  CapacityInv'
<1> USE DEF CapacityInv
<1>1. \A g \in G : grant'[g].contract = grant[g].contract /\ grant'[g].state \in Closing
  <2> TAKE g \in G
  <2>1. PICK s \in Closing : grant'[g] = [grant[g] EXCEPT !.state = s] BY Zenon
  <2>2. grant[g] \in GrantRecord BY DEF CoordTypeOK
  <2> QED BY <2>1, <2>2 DEF GrantRecord
<1>2. \A g \in Grant : stored'[g] = IF grant'[g] = grant[g] THEN stored[g] ELSE grant'[g]
  BY DEF persist_grants
<1>3. \A g \in G : ~usable_state(grant'[g]) /\ stored'[g] = grant'[g]
  <2> TAKE g \in G
  <2>1. ~usable_state(grant'[g]) /\ grant'[g].state # "Preparing"
    BY <1>1 DEF usable_state, Closing
  <2>2. CASE grant'[g] = grant[g] BY <1>2, <2>1, <2>2 DEF StoredDiffers
  <2>3. CASE grant'[g] # grant[g] BY <1>2, <2>1, <2>3
  <2> QED BY <2>1, <2>2, <2>3
<1>4. \A g \in Grant \ G : stored'[g] = stored[g] BY <1>2
<1>5. Named'
  <2>1. \A g \in G : /\ grant'[g].state # "None" /\ grant'[g].contract \in Contract
                     /\ stored'[g] = grant'[g]
    BY <1>1, <1>3, Zenon DEF Named, Closing
  <2>2. \A g \in Grant \ G : /\ grant'[g] = grant[g] /\ stored'[g] = stored[g]
    BY <1>4
  <2> QED BY <2>1, <2>2 DEF Named
<1>6. StoredDiffers' BY <1>3, <1>4 DEF StoredDiffers
<1>7. \A g \in Grant \ R : resv'[g] = resv[g] BY DEF release_reservations
<1>8. \A g \in (Grant \ G) \cap R : ~usable_state(grant'[g]) /\ ~usable_state(stored'[g])
  BY <1>4 DEF StoredDiffers
<1>9. Holds(grant, resv)' BY <1>3, <1>7, <1>8 DEF Holds
<1>10. Holds(stored, resv)' BY <1>3, <1>4, <1>7, <1>8 DEF Holds
<1> QED BY <1>5, <1>6, <1>9, <1>10

(* A step that leaves grants, the store and the reservations alone, and      *)
(* opens no flow, keeps CapacityInv.                                         *)
LEMMA IdleStep ==
  ASSUME CapacityInv, UNCHANGED <<grant, stored, resv>>,
         \A g \in Grant : pending'[g].on => pending[g].on
  PROVE  CapacityInv'
BY DEF CapacityInv, Named, Holds, StoredDiffers

(* A fence plan closes every grant whose capacity it releases.               *)
LEMMA FenceStep ==
  ASSUME CoordTypeOK, CapacityInv, NEW c, NEW closed, NEW cl, fence_cluster(c, closed, cl),
         UNCHANGED pending
  PROVE  CapacityInv'
<1> DEFINE R == {g \in Grant : involves(grant, g, c)}
<1>1. /\ grant' = set_state(grant, fenced_by(c), "Fenced")
      /\ resv' = release_reservations(resv, R) /\ persist_grants
  BY DEF fence_cluster
<1>2. fenced_by(c) \in SUBSET Grant BY DEF fenced_by
<1>3. \A g \in fenced_by(c) : /\ grant[g].state # "None"
                              /\ \E s \in Closing : grant'[g] = [grant[g] EXCEPT !.state = s]
  BY <1>1 DEF fenced_by, involves, set_state, Closing
<1>4. \A g \in Grant \ fenced_by(c) : grant'[g] = grant[g] BY <1>1 DEF set_state
<1>5. \A g \in R \cap Grant :
        g \in fenced_by(c) \/ (~usable_state(grant[g]) /\ grant[g].state # "Preparing")
  BY DEF fenced_by, usable_state, Fenceable
<1> HIDE DEF R
<1> QED BY <1>1, <1>2, <1>3, <1>4, <1>5, ClosingStep, Zenon

(* A handler that changes the state of one grant and releases nothing. *)
LEMMA OneGrantStep ==
  ASSUME CoordTypeOK, CapacityInv, NEW g, NEW s \in Closing, grant[g].state # "None",
         grant' = set_state(grant, {g}, s) \/ grant' = grant, persist_grants,
         UNCHANGED resv, \A h \in Grant : pending'[h].on => pending[h].on
  PROVE  CapacityInv'
<1>1. resv' = release_reservations(resv, {}) BY DEF release_reservations, CoordTypeOK
<1>2. CASE grant' = set_state(grant, {g}, s)
  <2> DEFINE G == {g} \cap Grant
  <2>1. G \in SUBSET Grant OBVIOUS
  <2>2. \A h \in G : /\ grant[h].state # "None"
                     /\ \E x \in Closing : grant'[h] = [grant[h] EXCEPT !.state = x]
    BY <1>2 DEF set_state
  <2>3. \A h \in Grant \ G : grant'[h] = grant[h] BY <1>2 DEF set_state
  <2> HIDE DEF G
  <2> QED BY <1>1, <2>1, <2>2, <2>3, ClosingStep, Zenon
<1>3. CASE grant' = grant
  <2> DEFINE G == {}
  <2>1. /\ G \in SUBSET Grant
        /\ \A h \in G : /\ grant[h].state # "None"
                        /\ \E x \in Closing : grant'[h] = [grant[h] EXCEPT !.state = x]
        /\ \A h \in Grant \ G : grant'[h] = grant[h]
    BY <1>3
  <2> HIDE DEF G
  <2> QED BY <1>1, <2>1, ClosingStep, Zenon
<1> QED BY <1>2, <1>3

(* Aborting one prepare flow keeps CapacityInv.                              *)
LEMMA AbortStep ==
  ASSUME CoordTypeOK, CapacityInv, NEW g, grant[g].state # "None",
         grant' = abort_grant(grant, {g}), pending' = end_flows({g}), persist_grants,
         UNCHANGED resv
  PROVE  CapacityInv'
<1>1. grant' = set_state(grant, {g}, "Aborted") \/ grant' = grant
  <2>1. CASE grant[g].state \notin {"Fenced", "Withdrawn"}
    <3>1. {h \in {g} : grant[h].state \notin {"Fenced", "Withdrawn"}} = {g} BY <2>1
    <3> QED BY <3>1 DEF abort_grant
  <2>2. CASE grant[g].state \in {"Fenced", "Withdrawn"}
    <3>1. {h \in {g} : grant[h].state \notin {"Fenced", "Withdrawn"}} = {} BY <2>2
    <3> QED BY <3>1 DEF abort_grant, set_state, CoordTypeOK
  <2> QED BY <2>1, <2>2
<1>2. \A h \in Grant : pending'[h].on => pending[h].on BY DEF end_flows, NoFlow
<1>3. "Aborted" \in Closing BY DEF Closing
<1> QED BY <1>1, <1>2, <1>3, OneGrantStep

(***************************************************************************)
(* finalise_grants: a grant becomes usable as it gets its reservations.    *)
(***************************************************************************)
LEMMA FinaliseEffect ==
  ASSUME NEW gr, NEW rv \in [Grant -> [Cluster -> Nat]], NEW cl, NEW n, NEW lk,
         NEW ready \in SUBSET Grant, finalise_grants(ready, gr, cl, rv, n, lk)
  PROVE  \E done \in SUBSET ready, bad \in SUBSET ready :
           /\ done \cap bad = {}
           /\ grant' = abort_grant(set_state(gr, done, "Committed"), bad)
           /\ pending' = end_flows(done \cup bad)
           /\ resv' \in [Grant -> [Cluster -> Nat]]
           /\ \A g \in Grant, c \in Cluster : resv'[g][c] >= rv[g][c]
           /\ \A g \in done : \A c \in Cluster \cap parties(gr[g].contract) : resv'[g][c] >= 1
<1> DEFINE takes(done, bad, g, c) ==
             \/ g \in done /\ c \in parties(gr[g].contract)
             \/ g \in bad /\ c = Party[gr[g].contract][0] /\ fits(gr, cl, done \cup bad, c)
<1>1. PICK done \in SUBSET ready : \E bad \in SUBSET (ready \ done) :
        /\ grant' = abort_grant(set_state(gr, done, "Committed"), bad)
        /\ pending' = end_flows(done \cup bad)
        /\ resv' = [g \in Grant |-> [c \in Cluster |->
             IF takes(done, bad, g, c) THEN rv[g][c] + 1 ELSE rv[g][c]]]
  BY Zenon DEF finalise_grants
<1>2. PICK bad \in SUBSET (ready \ done) :
        /\ grant' = abort_grant(set_state(gr, done, "Committed"), bad)
        /\ pending' = end_flows(done \cup bad)
        /\ resv' = [g \in Grant |-> [c \in Cluster |->
             IF takes(done, bad, g, c) THEN rv[g][c] + 1 ELSE rv[g][c]]]
  BY <1>1, Zenon
<1>3. \A g \in done : \A c \in Cluster \cap parties(gr[g].contract) : resv'[g][c] >= 1 BY <1>2
<1> HIDE DEF takes
<1>4. resv' \in [Grant -> [Cluster -> Nat]] BY <1>2
<1>5. \A g \in Grant, c \in Cluster : resv'[g][c] >= rv[g][c] BY <1>2
<1>6. done \in SUBSET ready /\ bad \in SUBSET ready /\ done \cap bad = {} OBVIOUS
<1> QED BY <1>2, <1>3, <1>4, <1>5, <1>6, Zenon

(* Finalising grants reserves the capacity of each one that becomes usable   *)
(* before it is usable, in memory and in the store.                          *)
LEMMA FinaliseStep ==
  ASSUME CoordTypeOK, Named, StoredDiffers,
         NEW gr \in [Grant -> GrantRecord], NEW rv \in [Grant -> [Cluster -> Nat]], NEW cl,
         NEW n, NEW lk, NEW ready \in SUBSET Grant,
         \A g \in Grant : /\ gr[g].contract = grant[g].contract
                          /\ gr[g].state = "None" <=> grant[g].state = "None"
                          /\ gr[g].state = grant[g].state \/ gr[g].state = "Fenced",
         \A g \in ready : gr[g].state # "None" /\ ~usable_state(gr[g]),
         Holds(gr, rv),
         \A g \in Grant : gr[g] = grant[g] => (usable_state(stored[g]) =>
                            \A c \in parties(stored[g].contract) : rv[g][c] >= 1),
         finalise_grants(ready, gr, cl, rv, n, lk), persist_grants
  PROVE  CapacityInv'
<1>1. PICK done \in SUBSET ready, bad \in SUBSET ready :
        /\ done \cap bad = {}
        /\ grant' = abort_grant(set_state(gr, done, "Committed"), bad)
        /\ pending' = end_flows(done \cup bad)
        /\ resv' \in [Grant -> [Cluster -> Nat]]
        /\ \A g \in Grant, c \in Cluster : resv'[g][c] >= rv[g][c]
        /\ \A g \in done : \A c \in Cluster \cap parties(gr[g].contract) : resv'[g][c] >= 1
  BY FinaliseEffect, Zenon
<1>2. \A g \in Grant, c \in Cluster : resv'[g][c] >= rv[g][c] BY <1>1
<1>3. \A g \in done : \A c \in Cluster \cap parties(gr[g].contract) : resv'[g][c] >= 1 BY <1>1
<1>4. \A g \in done : grant'[g] = [gr[g] EXCEPT !.state = "Committed"]
  BY <1>1 DEF abort_grant, set_state
<1>5. \A g \in bad : grant'[g] = gr[g] \/ grant'[g] = [gr[g] EXCEPT !.state = "Aborted"]
  BY <1>1, Zenon DEF abort_grant, set_state
<1>6. \A g \in Grant \ (done \cup bad) : grant'[g] = gr[g] BY <1>1 DEF abort_grant, set_state
<1>7. \A g \in Grant : /\ grant'[g].contract = grant[g].contract
                       /\ (grant'[g].state = "None") <=> (grant[g].state = "None")
                       /\ usable_state(grant'[g]) =>
                            g \in done \/ (usable_state(gr[g]) /\ grant'[g] = gr[g])
                       /\ g \in done => grant'[g].state = "Committed"
                       /\ g \in bad => grant'[g] = gr[g] \/ grant'[g].state = "Aborted"
  <2> TAKE g \in Grant
  <2>1. gr[g] \in GrantRecord OBVIOUS
  <2>2. /\ gr[g].contract = grant[g].contract
        /\ g \in ready => gr[g].state # "None" /\ grant[g].state # "None" /\ ~usable_state(gr[g])
    OBVIOUS
  <2>3. CASE g \in done
    <3>1. grant'[g].state = "Committed" /\ grant'[g].contract = gr[g].contract
      BY <1>4, <2>1, <2>3, Zenon DEF GrantRecord
    <3> QED BY <1>1, <2>2, <2>3, <3>1
  <2>4. CASE g \in bad
    <3>1. CASE grant'[g] = gr[g] BY <1>1, <2>2, <2>4, <3>1
    <3>2. CASE grant'[g] = [gr[g] EXCEPT !.state = "Aborted"]
      <4>1. grant'[g].state = "Aborted" /\ grant'[g].contract = gr[g].contract
        BY <2>1, <3>2 DEF GrantRecord
      <4> QED BY <1>1, <2>2, <2>4, <4>1 DEF usable_state
    <3> QED BY <1>5, <2>4, <3>1, <3>2, Zenon
  <2>5. CASE g \notin done \cup bad BY <1>6, <2>5
  <2> QED BY <2>3, <2>4, <2>5
<1>8. \A g \in Grant : stored'[g] = IF grant'[g] = grant[g] THEN stored[g] ELSE grant'[g]
  BY DEF persist_grants
<1>9. \A g \in Grant : pending'[g].on => pending[g].on BY <1>1 DEF end_flows, NoFlow
<1>10. Named' BY <1>7, <1>8, <1>9 DEF Named
<1>11. StoredDiffers' BY <1>8 DEF StoredDiffers
<1>12. \A g \in Grant : grant[g].state # "None" => parties(grant[g].contract) \subseteq Cluster
  BY PartiesInCluster DEF Named
<1>13. \A g \in Grant : usable_state(grant'[g]) =>
         g \in done \/ (usable_state(gr[g]) /\ grant'[g] = gr[g])
  BY <1>7
<1>14. Holds(grant, resv)'
  <2> SUFFICES ASSUME NEW g \in Grant, usable_state(grant'[g]), NEW c \in parties(grant'[g].contract)
               PROVE  resv'[g][c] >= 1 BY DEF Holds
  <2>1. grant[g].state # "None" /\ c \in Cluster /\ c \in parties(gr[g].contract)
    BY <1>7, <1>12 DEF usable_state
  <2>2. CASE g \in done BY <1>3, <2>1, <2>2
  <2>3. CASE usable_state(gr[g])
    <3>1. rv[g][c] >= 1 BY <2>1, <2>3 DEF Holds
    <3>2. rv[g][c] \in Nat BY <2>1
    <3>3. resv'[g][c] \in Nat BY <1>1, <2>1
    <3> QED BY <1>2, <2>1, <3>1, <3>2, <3>3
  <2> QED BY <1>13, <2>2, <2>3
<1>15. Holds(stored, resv)'
  <2> SUFFICES ASSUME NEW g \in Grant, usable_state(stored'[g]), NEW c \in parties(stored'[g].contract)
               PROVE  resv'[g][c] >= 1 BY DEF Holds
  <2>1. CASE stored'[g] = grant'[g] BY <1>14, <2>1 DEF Holds
  <2>2. CASE stored'[g] # grant'[g]
    <3>1. stored'[g] = stored[g] /\ grant'[g] = grant[g] BY <1>8, <2>2
    <3>2. gr[g] = grant[g]
      <4>1. grant[g].state = "Preparing" BY <2>2, <3>1 DEF StoredDiffers
      <4>2. g \notin done BY <1>7, <3>1, <4>1
      <4>3. g \notin bad \/ grant'[g] = gr[g] BY <1>7, <3>1, <4>1
      <4> QED BY <1>6, <3>1, <4>2, <4>3
    <3>3. c \in Cluster BY <3>1, PartiesInCluster DEF Named, usable_state
    <3>4. rv[g][c] >= 1 BY <3>1, <3>2
    <3>5. rv[g][c] \in Nat /\ resv'[g][c] \in Nat BY <1>1, <3>3
    <3> QED BY <1>2, <3>3, <3>4, <3>5
  <2> QED BY <2>1, <2>2
<1> QED BY <1>10, <1>11, <1>14, <1>15 DEF CapacityInv

(* on_grant_committed keeps CapacityInv.                                     *)
LEMMA CommittedStep ==
  ASSUME CoordTypeOK, CapacityInv, NEW n \in Conn, on_grant_committed(n), msg(n).grant \in Grant
  PROVE  CapacityInv'
<1> DEFINE m == msg(n)
<1>1. CASE on_grant_committed_dropped(n)
  BY <1>1, IdleStep DEF on_grant_committed_dropped, coordVars
<1>2. CASE on_grant_committed_refused(n)
  BY <1>2, AbortStep, Zenon DEF on_grant_committed_refused, current_ack, involves
<1>3. CASE on_grant_committed_installed(n)
  <2> DEFINE i == side_of(session[n].cluster, grant[m.grant].contract)
             gr == [grant EXCEPT ![m.grant].ack[i] = TRUE]
             ready == {g \in {m.grant} : both_acknowledged(gr[g]) /\ ~usable_state(gr[g])}
  <2>1. finalise_grants(ready, gr, cluster, resv, n, read(n)) /\ persist_grants
        /\ grant[m.grant].state # "None"
    BY <1>3, Zenon DEF on_grant_committed_installed, current_ack, involves
  <2>2. gr \in [Grant -> GrantRecord]
    <3>1. grant[m.grant] \in GrantRecord BY DEF CoordTypeOK
    <3>2. [grant[m.grant] EXCEPT !.ack[i] = TRUE] \in GrantRecord BY <3>1, Zenon DEF GrantRecord
    <3> QED BY <3>2 DEF CoordTypeOK
  <2>3. \A g \in Grant : gr[g].contract = grant[g].contract /\ gr[g].state = grant[g].state
    <3> TAKE g \in Grant
    <3>1. grant \in [Grant -> GrantRecord] /\ grant[g] \in GrantRecord BY DEF CoordTypeOK
    <3> QED BY <3>1 DEF GrantRecord
  <2>4. ready \in SUBSET Grant /\ \A g \in ready : gr[g].state # "None" /\ ~usable_state(gr[g])
    BY <2>1, <2>3
  <2> HIDE DEF gr, ready
  <2>5. Holds(gr, resv) BY <2>3 DEF CapacityInv, Holds, usable_state
  <2>6. \A g \in Grant : gr[g] = grant[g] => (usable_state(stored[g]) =>
           \A c \in parties(stored[g].contract) : resv[g][c] >= 1)
    BY DEF CapacityInv, Holds
  <2>7. \A g \in Grant : /\ gr[g].contract = grant[g].contract
                         /\ (gr[g].state = "None") <=> (grant[g].state = "None")
                         /\ gr[g].state = grant[g].state \/ gr[g].state = "Fenced"
    BY <2>3
  <2>8. resv \in [Grant -> [Cluster -> Nat]] BY DEF CoordTypeOK
  <2> QED BY <2>1, <2>2, <2>4, <2>5, <2>6, <2>7, <2>8, FinaliseStep DEF CapacityInv
<1> QED BY <1>1, <1>2, <1>3 DEF on_grant_committed

(* on_status_report keeps CapacityInv.                                       *)
LEMMA StatusStep ==
  ASSUME CoordTypeOK, CapacityInv, NEW n \in Conn, on_status_report(n)
  PROVE  CapacityInv'
<1>1. PICK to_fence \in SUBSET Grant, acks \in SUBSET Grant, ready \in SUBSET Grant,
           told \in SUBSET Grant :
        /\ \A g \in to_fence : grant[g].state # "None"
        /\ \A g \in ready : Settles(n, to_fence, acks)[g].state = "Indeterminate"
        /\ finalise_grants(ready, Settles(n, to_fence, acks),
                           release_counters(cluster, resv, to_fence),
                           release_reservations(resv, to_fence), n,
                           broadcast_fence(read(n), told))
        /\ persist_grants
  BY StatusEffect
<1> DEFINE acked == Acked(n, acks)
           closed == {g \in to_fence : grant[g].state \notin {"Aborted", "Withdrawn"}}
           gr == set_state(acked, closed, "Fenced")
           rv == release_reservations(resv, to_fence)
<1>2. acked \in [Grant -> GrantRecord]
  <2> DEFINE i(g) == side_of(session[n].cluster, grant[g].contract)
  <2>1. \A g \in Grant : grant[g] \in GrantRecord BY DEF CoordTypeOK
  <2>2. \A g \in Grant : [grant[g] EXCEPT !.ack[i(g)] = TRUE] \in GrantRecord
    BY <2>1, Zenon DEF GrantRecord
  <2> HIDE DEF i
  <2> QED BY <2>1, <2>2 DEF Acked, i
<1>3. \A g \in Grant : /\ acked[g].contract = grant[g].contract
                       /\ acked[g].state = grant[g].state
  <2> TAKE g \in Grant
  <2>1. grant[g] \in GrantRecord BY DEF CoordTypeOK
  <2> QED BY <2>1 DEF GrantRecord, Acked
<1> HIDE DEF acked
<1>4. gr \in [Grant -> GrantRecord]
  <2>1. \A g \in Grant : [acked[g] EXCEPT !.state = "Fenced"] \in GrantRecord
    BY <1>2 DEF GrantRecord, GrantState
  <2> QED BY <1>2, <2>1 DEF set_state
<1>5. \A g \in Grant : /\ gr[g].contract = grant[g].contract
                       /\ gr[g].state = IF g \in closed THEN "Fenced" ELSE grant[g].state
  <2> TAKE g \in Grant
  <2>1. acked[g] \in GrantRecord BY <1>2
  <2> QED BY <1>3, <2>1 DEF set_state, GrantRecord
<1>6. rv \in [Grant -> [Cluster -> Nat]] BY DEF release_reservations, CoordTypeOK
<1>7. \A g \in Grant \ to_fence : rv[g] = resv[g] BY DEF release_reservations
<1>8. /\ \A g \in to_fence : grant[g].state # "None"
      /\ \A g \in ready : gr[g].state = "Indeterminate"
      /\ finalise_grants(ready, gr, release_counters(cluster, resv, to_fence), rv, n,
                         broadcast_fence(read(n), told))
      /\ persist_grants
  BY <1>1 DEF Settles, acked
<1> HIDE DEF gr, rv
<1>9. Holds(gr, rv) BY <1>5, <1>7 DEF Holds, usable_state, CapacityInv
<1>10. \A g \in Grant : gr[g] = grant[g] => (usable_state(stored[g]) =>
          \A c \in parties(stored[g].contract) : rv[g][c] >= 1)
  <2> SUFFICES ASSUME NEW g \in Grant, gr[g] = grant[g], usable_state(stored[g])
               PROVE  g \notin to_fence BY <1>7 DEF CapacityInv, Holds
  <2>1. g \in to_fence => grant[g].state \in {"Aborted", "Withdrawn", "Fenced"} BY <1>5
  <2> QED BY <2>1 DEF CapacityInv, StoredDiffers, usable_state
<1>11. \A g \in Grant : /\ gr[g].contract = grant[g].contract
                        /\ (gr[g].state = "None") <=> (grant[g].state = "None")
                        /\ gr[g].state = grant[g].state \/ gr[g].state = "Fenced"
  BY <1>5, <1>8
<1>12. \A g \in ready : gr[g].state # "None" /\ ~usable_state(gr[g]) BY <1>8 DEF usable_state
<1> QED BY <1>4, <1>6, <1>8, <1>9, <1>10, <1>11, <1>12, FinaliseStep DEF CapacityInv

(***************************************************************************)
(* The handlers and the operator's requests.                               *)
(***************************************************************************)
LEMMA HelloStep ==
  ASSUME CoordTypeOK, CapacityInv, NEW n \in Conn, on_hello(n)
  PROVE  CapacityInv'
<1>1. CASE on_hello_refused(n) BY <1>1, IdleStep DEF on_hello_refused, coordVars
<1>2. CASE on_hello_registers(n) BY <1>2, IdleStep DEF on_hello_registers
<1>3. CASE on_hello_reincarnates(n) BY <1>3, FenceStep DEF on_hello_reincarnates
<1>4. CASE on_hello_advances_policy(n) BY <1>4, FenceStep DEF on_hello_advances_policy
<1>5. CASE on_hello_accepts(n) BY <1>5, IdleStep, Zenon DEF on_hello_accepts
<1> QED BY <1>1, <1>2, <1>3, <1>4, <1>5 DEF on_hello

(* on_report_cluster keeps CapacityInv.                                      *)
LEMMA ReportStep ==
  ASSUME CoordTypeOK, CapacityInv, NEW n \in Conn, on_report_cluster(n)
  PROVE  CapacityInv'
<1>1. CASE on_report_dropped(n) BY <1>1, IdleStep, Zenon DEF on_report_dropped, coordVars
<1>2. CASE on_report_conflicts(n) BY <1>2, FenceStep DEF on_report_conflicts
<1>3. CASE on_report_accepted(n)
  <2> DEFINE c == session[n].cluster
             cl == [cluster EXCEPT ![c] = reported(msg(n))]
  <2>1. UNCHANGED pending BY <1>3 DEF on_report_accepted
  <2>2. \/ fence_cluster(c, "Fenced", cl)
        \/ UNCHANGED <<grant, stored, resv>>
    BY <1>3 DEF on_report_accepted
  <2> HIDE DEF c, cl
  <2> QED BY <2>1, <2>2, FenceStep, IdleStep
<1> QED BY <1>1, <1>2, <1>3 DEF on_report_cluster

(* on_grant_prepared keeps CapacityInv.                                      *)
LEMMA PreparedStep ==
  ASSUME CoordTypeOK, CapacityInv, NEW n \in Conn, on_grant_prepared(n)
  PROVE  CapacityInv'
<1> DEFINE m == msg(n)
<1>1. CASE on_grant_prepared_dropped(n)
  BY <1>1, IdleStep DEF on_grant_prepared_dropped, coordVars
<1>2. CASE on_grant_prepared_refused(n)
  BY <1>2, AbortStep, Zenon DEF on_grant_prepared_refused, current_ack, involves
<1>3. CASE on_grant_prepared_accepted(n)
  <2>1. /\ grant[m.grant].state # "None" /\ persist_grants /\ UNCHANGED resv
        /\ pending[m.grant].on
    BY <1>3 DEF on_grant_prepared_accepted
  <2>2. PICK s \in Closing : grant' = set_state(grant, {m.grant}, s) \/ grant' = grant
    BY <1>3, Zenon DEF on_grant_prepared_accepted, Closing
  <2>3. \A h \in Grant : pending'[h].on => pending[h].on
    <3>1. PICK p : pending' = [pending EXCEPT ![m.grant] = p]
      BY <1>3, Zenon DEF on_grant_prepared_accepted
    <3> QED BY <2>1, <3>1 DEF CoordTypeOK
  <2> QED BY <2>1, <2>2, <2>3, OneGrantStep, Zenon
<1> QED BY <1>1, <1>2, <1>3 DEF on_grant_prepared

(* handle_message keeps CapacityInv.                                         *)
LEMMA MessageStep ==
  ASSUME CoordTypeOK, CapacityInv, NEW n \in Conn, handle_message(n),
         on_grant_committed(n) => msg(n).grant \in Grant
  PROVE  CapacityInv'
<1>1. CASE on_contract_consent(n) BY <1>1, IdleStep, Zenon DEF on_contract_consent
<1>2. CASE on_withdraw(n)
  <2> DEFINE c == session[n].cluster
             cl == [cluster EXCEPT ![c].withdrawn = TRUE]
  <2>1. UNCHANGED pending BY <1>2 DEF on_withdraw
  <2>2. fence_cluster(c, "Withdrawn", cl) \/ UNCHANGED <<grant, stored, resv>>
    BY <1>2 DEF on_withdraw
  <2> HIDE DEF c, cl
  <2> QED BY <2>1, <2>2, FenceStep, IdleStep
<1> QED BY <1>1, <1>2, HelloStep, ReportStep, PreparedStep, CommittedStep, StatusStep
        DEF handle_message

(* handle_disconnect keeps CapacityInv.                                      *)
LEMMA DisconnectStep ==
  ASSUME CoordTypeOK, CapacityInv, NEW n \in Conn, handle_disconnect(n)
  PROVE  CapacityInv'
<1> DEFINE c == session[n].cluster
           lost == {g \in Grant : involves(grant, g, c) /\ grant[g].state \in {"Preparing", "Prepared"}}
<1>1. UNCHANGED resv BY DEF handle_disconnect
<1>2. CASE UNCHANGED <<grant, pending, stored>> BY <1>1, <1>2, IdleStep
<1>3. CASE session[n].on
  <2>1. grant' = set_state(grant, lost, "Indeterminate") /\ persist_grants
    BY <1>3 DEF handle_disconnect
  <2>2. \A g \in Grant : pending'[g].on = pending[g].on
    <3> TAKE g \in Grant
    <3>1. pending[g] \in PendingGrant BY DEF CoordTypeOK
    <3>2. PICK t : pending'[g] = [pending[g] EXCEPT !.targets = t]
      BY <1>3, Zenon DEF handle_disconnect
    <3> QED BY <3>1, <3>2 DEF PendingGrant
  <2>3. resv' = release_reservations(resv, {}) BY <1>1 DEF release_reservations, CoordTypeOK
  <2>4. \A g \in lost : /\ grant[g].state # "None"
                        /\ \E s \in Closing : grant'[g] = [grant[g] EXCEPT !.state = s]
    BY <2>1 DEF set_state, Closing
  <2>5. lost \in SUBSET Grant /\ \A g \in Grant \ lost : grant'[g] = grant[g]
    BY <2>1 DEF set_state
  <2> HIDE DEF lost
  <2> QED BY <2>1, <2>2, <2>3, <2>4, <2>5, ClosingStep, Zenon
<1> QED BY <1>2, <1>3 DEF handle_disconnect

(* tick, with any set of overdue flows, keeps CapacityInv.                   *)
LEMMA TickStep ==
  ASSUME CoordTypeOK, CapacityInv, NEW overdue, tick(overdue)
  PROVE  CapacityInv'
<1> DEFINE flows == {g \in Grant : pending[g].on}
           timed_out == {g \in flows : g \in overdue \/ pending[g].attempts >= MaxRevalidateAttempts}
           retry == flows \ timed_out
           expired == set_state(grant, expired_grants, "Expired")
           G == expired_grants \cup {g \in timed_out : expired[g].state \notin {"Fenced", "Withdrawn"}}
<1>1. /\ grant' = abort_grant(expired, timed_out)
      /\ resv' = release_reservations(resv, expired_grants) /\ persist_grants
  BY Zenon DEF tick
<1>2. pending' = [g \in Grant |->
        IF g \in retry THEN retried(g) ELSE IF g \in timed_out THEN NoFlow ELSE pending[g]]
  BY Zenon DEF tick
<1>3. \A g \in Grant : pending'[g].on => pending[g].on
  BY <1>2 DEF NoFlow
<1>4. expired_grants \subseteq Grant /\ timed_out \subseteq Grant BY DEF expired_grants
<1>5. \A g \in G : grant[g].state # "None"
  BY DEF expired_grants, usable_state, CapacityInv, Named
<1>6. \A g \in Grant \ G : grant'[g] = grant[g] BY <1>1 DEF abort_grant, set_state
<1>7. \A g \in G : \E s \in Closing : grant'[g] = [grant[g] EXCEPT !.state = s]
  <2> TAKE g \in G
  <2>1. grant[g] \in GrantRecord BY <1>4 DEF CoordTypeOK
  <2>2. expired[g] = IF g \in expired_grants THEN [grant[g] EXCEPT !.state = "Expired"] ELSE grant[g]
    BY <1>4 DEF set_state
  <2>3. grant'[g] = IF g \in timed_out /\ expired[g].state \notin {"Fenced", "Withdrawn"}
                    THEN [expired[g] EXCEPT !.state = "Aborted"] ELSE expired[g]
    BY <1>1, <1>4 DEF abort_grant, set_state
  <2>4. g \in expired_grants \/ (g \in timed_out /\ expired[g].state \notin {"Fenced", "Withdrawn"})
    OBVIOUS
  <2>5. [[grant[g] EXCEPT !.state = "Expired"] EXCEPT !.state = "Aborted"]
          = [grant[g] EXCEPT !.state = "Aborted"]
    BY <2>1, Zenon DEF GrantRecord
  <2> HIDE DEF expired, timed_out
  <2>6. \/ grant'[g] = [grant[g] EXCEPT !.state = "Expired"]
        \/ grant'[g] = [grant[g] EXCEPT !.state = "Aborted"]
    BY <2>2, <2>3, <2>4, <2>5
  <2> QED BY <2>6 DEF Closing
<1>8. G \in SUBSET Grant BY <1>4
<1>9. \A g \in expired_grants \cap Grant : g \in G OBVIOUS
<1> HIDE DEF G
<1> QED BY <1>1, <1>3, <1>5, <1>6, <1>7, <1>8, <1>9, ClosingStep, Zenon

(* A new attempt: the record is not usable until it is finalised, and when its
   prepare cannot start the store keeps the record before it. *)
LEMMA PrepareStep ==
  ASSUME CoordTypeOK, CapacityInv, NEW g \in Grant, NEW r, r.state = "Preparing",
         r.contract \in Contract, prepare_grant(g, r), UNCHANGED resv
  PROVE  CapacityInv'
<1>1. grant' = [grant EXCEPT ![g] = r] BY DEF prepare_grant
<1>2. grant'[g] = r /\ \A h \in Grant \ {g} : grant'[h] = grant[h] BY <1>1 DEF CoordTypeOK
<1>3. /\ stored'[g] = r \/ stored'[g] = stored[g]
      /\ \A h \in Grant \ {g} : stored'[h] = stored[h] /\ pending'[h] = pending[h]
  <2>1. \/ UNCHANGED <<stored, pending>>
        \/ \E p : stored' = [stored EXCEPT ![g] = r] /\ pending' = [pending EXCEPT ![g] = p]
    BY DEF prepare_grant
  <2> QED BY <2>1 DEF CoordTypeOK
<1>4. Named' BY <1>2, <1>3 DEF CapacityInv, Named
<1>5. StoredDiffers' BY <1>2, <1>3 DEF CapacityInv, StoredDiffers
<1>6. ~usable_state(r) BY DEF usable_state
<1>7. Holds(grant, resv)' BY <1>2, <1>6 DEF CapacityInv, Holds
<1>8. Holds(stored, resv)' BY <1>3, <1>6 DEF CapacityInv, Holds
<1> QED BY <1>4, <1>5, <1>7, <1>8 DEF CapacityInv

(* apply_grant_issue and apply_grant_revalidation keep CapacityInv.          *)
LEMMA IssueStep ==
  ASSUME CoordTypeOK, CapacityInv, NEW g \in Grant, NEW k \in Contract,
         apply_grant_issue(g, k) \/ apply_grant_revalidation(g)
  PROVE  CapacityInv'
<1>1. CASE apply_grant_issue(g, k)
  <2> DEFINE r == [state |-> "Preparing", contract |-> k, attempt |-> minted + 1,
                   term |-> term, bind |-> [i \in Side |-> cluster[Party[k][i]].id],
                   ack |-> [i \in Side |-> FALSE]]
  <2>1. prepare_grant(g, r) /\ UNCHANGED resv BY <1>1, Zenon DEF apply_grant_issue
  <2>2. r.state = "Preparing" /\ r.contract \in Contract OBVIOUS
  <2> HIDE DEF r
  <2> QED BY <2>1, <2>2, PrepareStep
<1>2. CASE apply_grant_revalidation(g)
  <2> DEFINE r == [grant[g] EXCEPT !.state = "Preparing", !.attempt = minted + 1,
                                   !.term = term, !.ack = [i \in Side |-> FALSE]]
  <2>1. prepare_grant(g, r) /\ UNCHANGED resv /\ grant[g].state # "None"
    BY <1>2 DEF apply_grant_revalidation
  <2>2. r.state = "Preparing" /\ r.contract \in Contract
    <3>1. grant[g] \in GrantRecord /\ grant[g].contract \in Contract
      BY <2>1 DEF CoordTypeOK, CapacityInv, Named
    <3> QED BY <3>1 DEF GrantRecord
  <2> HIDE DEF r
  <2> QED BY <2>1, <2>2, PrepareStep
<1> QED BY <1>1, <1>2

(* fence_grant keeps CapacityInv.                                            *)
LEMMA FenceGrantStep ==
  ASSUME CoordTypeOK, CapacityInv, NEW g \in Grant, fence_grant(g)
  PROVE  CapacityInv'
<1> DEFINE G == {h \in {g} : grant[h].state \notin {"Aborted", "Withdrawn"}}
<1>1. /\ grant[g].state # "None" /\ grant' = set_state(grant, G, "Fenced")
      /\ resv' = release_reservations(resv, {g}) /\ persist_grants /\ UNCHANGED pending
  BY DEF fence_grant
<1>2. G \in SUBSET Grant OBVIOUS
<1>3. \A h \in G : /\ grant[h].state # "None"
                   /\ \E s \in Closing : grant'[h] = [grant[h] EXCEPT !.state = s]
  BY <1>1 DEF set_state, Closing
<1>4. \A h \in Grant \ G : grant'[h] = grant[h] BY <1>1 DEF set_state
<1>5. \A h \in {g} \cap Grant :
        h \in G \/ (~usable_state(grant[h]) /\ grant[h].state # "Preparing")
  BY DEF usable_state
<1> HIDE DEF G
<1> QED BY <1>1, <1>2, <1>3, <1>4, <1>5, ClosingStep, Zenon

(* The operator requests about a contract or a cluster keep CapacityInv.     *)
LEMMA ClusterRequestStep ==
  ASSUME CoordTypeOK, CapacityInv, NEW c, NEW gen, NEW s, NEW id, NEW k,
         \/ apply_contract_proposal(k) \/ withdraw_consent(c) \/ restore_consent(c)
         \/ apply_conflict_resolution(c, gen) \/ set_registered_state(c, s)
         \/ upsert_policy(c) \/ upsert_cluster(c, id, s) \/ delete_cluster(c)
  PROVE  CapacityInv'
<1>1. CASE apply_contract_proposal(k) BY <1>1, IdleStep DEF apply_contract_proposal
<1>2. CASE withdraw_consent(c) BY <1>2, FenceStep DEF withdraw_consent
<1>3. CASE restore_consent(c) BY <1>3, IdleStep DEF restore_consent
<1>4. CASE apply_conflict_resolution(c, gen) BY <1>4, FenceStep DEF apply_conflict_resolution
<1>5. CASE set_registered_state(c, s)
  <2>1. UNCHANGED pending BY <1>5 DEF set_registered_state
  <2>2. \/ fence_cluster(c, "Fenced", [cluster EXCEPT ![c].state = s])
        \/ UNCHANGED <<grant, stored, resv>>
    BY <1>5 DEF set_registered_state
  <2> QED BY <2>1, <2>2, FenceStep, IdleStep
<1>6. CASE upsert_policy(c) BY <1>6, FenceStep DEF upsert_policy
<1>7. CASE upsert_cluster(c, id, s) BY <1>7, IdleStep DEF upsert_cluster
<1>8. CASE delete_cluster(c) BY <1>8, IdleStep DEF delete_cluster
<1> QED BY <1>1, <1>2, <1>3, <1>4, <1>5, <1>6, <1>7, <1>8

(* A crash and the recovery from the store keep CapacityInv.                 *)
LEMMA RestartStep ==
  ASSUME CoordTypeOK, CapacityInv, crash \/ begin_incarnation
  PROVE  CapacityInv'
<1>1. CASE crash
  <2>1. grant' = stored /\ UNCHANGED <<stored, resv>> /\ pending' = [g \in Grant |-> NoFlow]
    BY <1>1 DEF crash
  <2> QED BY <2>1 DEF CapacityInv, Named, Holds, StoredDiffers, NoFlow
<1>2. CASE begin_incarnation
  <2> DEFINE G == {g \in Grant : grant[g].state \in Fenceable}
  <2>1. grant' = set_state(grant, G, "Fenced") /\ stored' = grant' /\ UNCHANGED pending
    BY <1>2 DEF begin_incarnation
  <2>2. \A g \in Grant : /\ grant'[g].contract = grant[g].contract
                         /\ (grant'[g].state = "None") <=> (grant[g].state = "None")
                         /\ ~usable_state(grant'[g])
    <3> TAKE g \in Grant
    <3>1. grant[g] \in GrantRecord BY DEF CoordTypeOK
    <3>2. CASE g \in G
      <4>1. grant'[g] = [grant[g] EXCEPT !.state = "Fenced"] BY <2>1, <3>2 DEF set_state
      <4>2. grant'[g].state = "Fenced" /\ grant'[g].contract = grant[g].contract
        BY <3>1, <4>1 DEF GrantRecord
      <4>3. grant[g].state # "None" BY <3>2 DEF Fenceable
      <4> QED BY <4>2, <4>3 DEF usable_state
    <3>3. CASE g \notin G
      BY <2>1, <3>3 DEF set_state, usable_state, Fenceable
    <3> QED BY <3>2, <3>3
  <2> HIDE DEF G
  <2> QED BY <2>1, <2>2 DEF CapacityInv, Named, Holds, StoredDiffers
<1> QED BY <1>1, <1>2
=============================================================================
