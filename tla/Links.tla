------------------------------- MODULE Links -------------------------------
(***************************************************************************)
(* The world the coordinator and the cluster agents share: the clusters,   *)
(* the contracts between pairs of them, the identity an agent binds to     *)
(* what it says, the messages, and the TCP connections that carry them.    *)
(*                                                                         *)
(* A connection is numbered in the order of its creation, as the event     *)
(* loop numbers them, and never reused.  Each direction is a FIFO queue.   *)
(* An end is closed by the process that owns it; the other end learns of   *)
(* it once it has read what was in flight.  A cut connection (reset by the *)
(* network or past its idle or handshake deadline) delivers nothing more.  *)
(***************************************************************************)
EXTENDS Integers, Sequences, FiniteSets

CONSTANTS
  Cluster,      \* the cluster identities
  NoCluster,    \* the owner of a connection number that is not in use
  MaxContract,  \* contracts that can be proposed
  MaxGrant,     \* grants that can be issued
  MaxConn,      \* connections that can be opened
  Party         \* the two clusters each contract names

Side == {0, 1}
Contract == 1..MaxContract
Grant == 1..MaxGrant
Conn == 1..MaxConn
NoConn == 0

ASSUME LinksAssumption ==
  /\ IsFiniteSet(Cluster)
  /\ NoCluster \notin Cluster
  /\ MaxContract \in Nat /\ MaxGrant \in Nat /\ MaxConn \in Nat
  /\ Party \in [Contract -> [Side -> Cluster]]
  /\ \A k \in Contract : Party[k][0] # Party[k][1]

(* What an agent signs everything with: the incarnation of its process,
   the generation of its content and the generation of its bind policy. *)
Identity == [inc : Nat, gen : Nat, pol : Nat]
NoIdentity == [inc |-> 0, gen |-> 0, pol |-> 0]

parties(k) == {Party[k][i] : i \in Side}
side_of(c, k) == CHOOSE i \in Side : Party[k][i] = c

(* The terms of a contract are its parties and the identities they had
   when it was proposed; the digest of the terms stands for the terms. *)
Terms == [Side -> Identity]
NoTerms == [i \in Side |-> NoIdentity]

ClusterState == {"Unknown", "Active", "Suspended", "Draining", "Retired"}
GrantState == {"None", "Preparing", "Prepared", "Committed", "Active",
               "Aborted", "Fenced", "Expired", "Indeterminate", "Withdrawn"}

(* The part of a grant record the two agents install and compare. *)
GrantRecord == [state : GrantState, contract : Nat, attempt : Nat, term : Nat,
                bind : [Side -> Identity], ack : [Side -> BOOLEAN]]
NoGrant == [state |-> "None", contract |-> 0, attempt |-> 0, term |-> 0,
            bind |-> NoTerms, ack |-> [i \in Side |-> FALSE]]

(* Fault: one acknowledgement is taken for both. *)
either_acknowledged(g) == \E i \in Side : g.ack[i]

both_acknowledged(g) == \A i \in Side : g.ack[i]
usable_state(g) == g.state \in {"Committed", "Active"}

(* The content an agent digests: its identity and its state. *)
Digest == [id : Identity, state : ClusterState]
digest_of(id, s) == [id |-> id, state |-> s]

(* From an agent to the coordinator. *)
Hello(id, s) == [type |-> "Hello", id |-> id, state |-> s]
ReportCluster(id, s, w) ==
  [type |-> "ReportCluster", id |-> id, state |-> s, withdrawn |-> w]
ContractConsent(k, terms, id, d) ==
  [type |-> "ContractConsent", contract |-> k, terms |-> terms, id |-> id, decision |-> d]
GrantPrepared(g, a, ok) ==
  [type |-> "GrantPrepared", grant |-> g, attempt |-> a, accepted |-> ok]
GrantCommitted(g, a, ok) ==
  [type |-> "GrantCommitted", grant |-> g, attempt |-> a, installed |-> ok]
Withdraw(id) == [type |-> "Withdraw", id |-> id]
StatusReport(entries) == [type |-> "StatusReport", grants |-> entries]

(* From the coordinator to an agent. *)
HelloAck(ok, t) == [type |-> "HelloAck", ok |-> ok, term |-> t]
Fence(G) == [type |-> "Fence", grants |-> G]
StatusRequest == [type |-> "StatusRequest"]
ProposeContract(k, terms) == [type |-> "ProposeContract", contract |-> k, terms |-> terms]
PrepareGrant(g, r, terms) ==
  [type |-> "PrepareGrant", grant |-> g, record |-> r, terms |-> terms]
CommitGrant(g, a) == [type |-> "CommitGrant", grant |-> g, attempt |-> a]

Decision == {"Accepted", "Refused"}
StatusEntry == [attempt : Nat, state : GrantState]

ToCoord ==
  [type : {"Hello"}, id : Identity, state : ClusterState]
    \cup [type : {"ReportCluster"}, id : Identity, state : ClusterState, withdrawn : BOOLEAN]
    \cup [type : {"ContractConsent"}, contract : Contract, terms : Terms, id : Identity,
          decision : Decision]
    \cup [type : {"GrantPrepared"}, grant : Grant, attempt : Nat, accepted : BOOLEAN]
    \cup [type : {"GrantCommitted"}, grant : Grant, attempt : Nat, installed : BOOLEAN]
    \cup [type : {"Withdraw"}, id : Identity]
    \cup [type : {"StatusReport"}, grants : [Grant -> StatusEntry]]

ToAgent ==
  [type : {"HelloAck"}, ok : BOOLEAN, term : Nat]
    \cup [type : {"Fence"}, grants : SUBSET Grant]
    \cup [type : {"StatusRequest"}]
    \cup [type : {"ProposeContract"}, contract : Contract, terms : Terms]
    \cup [type : {"PrepareGrant"}, grant : Grant, record : GrantRecord, terms : Terms]
    \cup [type : {"CommitGrant"}, grant : Grant, attempt : Nat]

(***************************************************************************)
(* A connection.  owner is the cluster whose agent opened it.              *)
(***************************************************************************)
End == {"open", "closed"}
Link == [owner : Cluster \cup {NoCluster}, agentEnd : End, coordEnd : End, cut : BOOLEAN,
         toCoord : Seq(ToCoord), toAgent : Seq(ToAgent)]
NoLink == [owner |-> NoCluster, agentEnd |-> "closed", coordEnd |-> "closed", cut |-> FALSE,
           toCoord |-> <<>>, toAgent |-> <<>>]

VARIABLES
  link,     \* the connections
  serving,  \* the coordinator process is up and its listener is bound
  lapsed    \* the attempts whose lease has run out, by the clock all processes read

worldVars == <<link, serving, lapsed>>

(* What reaches the other end of a connection that is written to: nothing
   when either end is closed or the connection is cut. *)
alive(l) == l.agentEnd = "open" /\ l.coordEnd = "open" /\ ~l.cut
to_agent(l, msgs) == IF alive(l) THEN [l EXCEPT !.toAgent = @ \o msgs] ELSE l
to_coord(l, msgs) == IF alive(l) THEN [l EXCEPT !.toCoord = @ \o msgs] ELSE l

(* The frame at the head of a queue is taken off before it is handled. *)
read_by_coord(l) == [l EXCEPT !.toCoord = Tail(@)]
read_by_agent(l) == [l EXCEPT !.toAgent = Tail(@)]

(* close(): what the closing process had not read is discarded. *)
close_coord(l) == [l EXCEPT !.coordEnd = "closed", !.toCoord = <<>>]
close_agent(l) == [l EXCEPT !.agentEnd = "closed", !.toAgent = <<>>]

(* What a process can see of the end of a connection: the connection is cut,
   or the peer closed it and everything it sent has been read. *)
ended_for_coord(l) == l.cut \/ (l.agentEnd = "closed" /\ l.toCoord = <<>>)
ended_for_agent(l) == l.cut \/ (l.coordEnd = "closed" /\ l.toAgent = <<>>)

LinksInit ==
  /\ link = [n \in Conn |-> NoLink]
  /\ serving = TRUE
  /\ lapsed = {}

(* The network resets a connection, or it runs past its deadline: whatever was
   in flight in either direction is lost. *)
break(n) ==
  /\ ~link[n].cut
  /\ link[n].agentEnd = "open" \/ link[n].coordEnd = "open"
  /\ link' = [link EXCEPT ![n] = [@ EXCEPT !.cut = TRUE, !.toCoord = <<>>, !.toAgent = <<>>]]
  /\ UNCHANGED <<serving, lapsed>>

LinksTypeOK ==
  /\ link \in [Conn -> Link]
  /\ serving \in BOOLEAN
  /\ lapsed \in SUBSET Nat
=============================================================================
