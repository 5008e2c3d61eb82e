---------------------------- MODULE Invariants -----------------------------
(***************************************************************************)
(* The invariants that hold in every reachable state of the fabric and are *)
(* inductive: the types, with the capacity that usable grants hold, and    *)
(* what an acknowledgement rests on.                                       *)
(***************************************************************************)
EXTENDS Fabric

(* An agent holds grants of its own contracts only. *)
LocalsMine ==
  \A c \in Cluster, g \in Grant :
    local[c][g].state # "None" => c \in parties(local[c][g].contract)

(* A grant that exists names a contract, here and in the store, and only such
   a grant has a flow. *)
Named ==
  \A g \in Grant :
    /\ grant[g].state # "None" => grant[g].contract \in Contract
    /\ stored[g].state # "None" => stored[g].contract \in Contract
    /\ pending[g].on => grant[g].state # "None"

(* The usable grants of a table hold a unit of each of their scopes. *)
Holds(gr, rv) ==
  \A g \in Grant : usable_state(gr[g]) =>
    \A c \in parties(gr[g].contract) : rv[g][c] >= 1

(* The store lags only behind a grant whose prepare could not start. *)
StoredDiffers == \A g \in Grant : stored[g] = grant[g] \/ grant[g].state = "Preparing"

(* What the books of the coordinator and its store amount to. *)
CapacityInv == Named /\ Holds(grant, resv) /\ Holds(stored, resv) /\ StoredDiffers

(* The types and the books, together. *)
IndInv == TypeOK /\ LocalsMine /\ CapacityInv

(* The frames waiting in one direction of a connection. *)
In(q) == {q[i] : i \in DOMAIN q}

(***************************************************************************)
(* What an acknowledgement rests on.  An attempt identifier is drawn once, *)
(* so whatever names the attempt of a grant is about that attempt and its  *)
(* contract; and a connection the coordinator still serves carries nothing *)
(* of an earlier term.                                                     *)
(***************************************************************************)
Ends ==
  /\ ~serving => \A n \in Conn : link[n].coordEnd # "open"
  /\ \A n \in Conn : link[n].coordEnd = "open" => link[n].owner # NoCluster
  /\ \A n \in Conn : session[n].on =>
       session[n].cluster = link[n].owner /\ link[n].owner # NoCluster
  /\ \A c \in Cluster : agent[c].conn # NoConn => link[agent[c].conn].owner = c

(* A record of the coordinator's table or of its store. *)
Rightful(r) ==
  /\ r.attempt <= minted
  /\ r.state \in Fenceable => r.term = term
  /\ usable_state(r) => both_acknowledged(r)
  /\ \A i \in Side : r.ack[i] => <<r.attempt, i>> \in installed

(* Two records of one attempt are records of one contract. *)
Agree(x, y) == x.attempt = y.attempt => x.contract = y.contract

(* The coordinator's table, its store and the tables of the agents agree. *)
Tables ==
  \A g \in Grant :
    /\ Rightful(grant[g]) /\ Rightful(stored[g])
    /\ Agree(stored[g], grant[g])
    /\ \A c \in Cluster : Agree(local[c][g], grant[g]) /\ Agree(local[c][g], stored[g])

(* What an agent enforces it has installed. *)
Locals ==
  \A c \in Cluster, g \in Grant :
    /\ local[c][g].attempt <= minted
    /\ usable_state(local[c][g]) =>
         <<local[c][g].attempt, side_of(c, local[c][g].contract)>> \in installed

(* A frame on its way to an agent, whoever still serves the connection. *)
DownOK(m) ==
  /\ m.type = "PrepareGrant" =>
       /\ m.record.attempt <= minted
       /\ Agree(m.record, grant[m.grant]) /\ Agree(m.record, stored[m.grant])
  /\ m.type = "CommitGrant" => m.attempt <= minted

(* A commit on a connection the coordinator serves is of its term. *)
CommitOK(m) ==
  m.type = "CommitGrant" /\ m.attempt = grant[m.grant].attempt => grant[m.grant].term = term

(* A frame from the agent of c on a connection the coordinator serves. *)
UpOK(c, m) ==
  /\ m.type = "GrantCommitted" =>
       /\ m.attempt <= minted
       /\ m.attempt = grant[m.grant].attempt =>
            /\ grant[m.grant].term = term
            /\ m.installed => <<m.attempt, side_of(c, grant[m.grant].contract)>> \in installed
  /\ m.type = "StatusReport" => \A g \in Grant :
       /\ m.grants[g].attempt <= minted
       /\ usable_state(m.grants[g]) /\ m.grants[g].attempt = grant[g].attempt =>
            <<grant[g].attempt, side_of(c, grant[g].contract)>> \in installed

(* Every frame in flight is about an attempt that was drawn. *)
InFlight ==
  \A n \in Conn :
    /\ \A m \in In(link[n].toAgent) : DownOK(m)
    /\ link[n].coordEnd = "open" =>
         /\ \A m \in In(link[n].toAgent) : CommitOK(m)
         /\ \A m \in In(link[n].toCoord) : UpOK(link[n].owner, m)

(* What an acknowledgement rests on, in every reachable state. *)
AuthInv == Ends /\ Tables /\ Locals /\ InFlight
=============================================================================
