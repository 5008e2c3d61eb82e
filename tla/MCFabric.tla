------------------------------ MODULE MCFabric ------------------------------
(* Instances of the fabric: two clusters that make contracts with each other. *)
EXTENDS Fabric

CONSTANTS east, west

MCParty == [k \in Contract |-> [i \in Side |-> IF i = 0 THEN east ELSE west]]
MCCapacity == [c \in Cluster |-> IF c = east THEN 2 ELSE 1]

(* A budget that allows each event of the sequence E once, or more often when
   it is repeated. *)
allow(E) == [e \in Event |-> Cardinality({i \in DOMAIN E : E[i] = e})]

(* What happens in the runs; a run covers each of its alternatives. *)
BudgetsAuthority == {allow(<<"propose", "issue", "crash">>),
                     allow(<<"issue", "fence", "crash">>),
                     allow(<<"issue", "revalidate", "break">>)}
BudgetsConsent == {allow(<<"issue", "resolve", "bump">>),
                   allow(<<"issue", "repolicy">>),
                   allow(<<"issue", "local_state">>),
                   allow(<<"repolicy", "local_state">>),
                   allow(<<"issue", "agent_crash">>),
                   allow(<<"issue", "local_withdraw">>),
                   allow(<<"local_withdraw", "break">>),
                   allow(<<"issue", "state", "upsert">>)}
BudgetsCapacity == {allow(<<"issue", "issue">>),
                    allow(<<"issue", "fence">>),
                    allow(<<"issue", "policy", "delete">>),
                    allow(<<"issue", "withdraw", "restore">>),
                    allow(<<"issue", "local_restore", "local_fence">>)}
BudgetsGrants == BudgetsConsent \cup BudgetsCapacity
BudgetsProgress == {allow(<<"issue", "break">>),
                    allow(<<"handshake", "break">>),
                    allow(<<"issue", "lapse">>),
                    allow(<<"issue", "deadline">>)}
BudgetsRevived == {allow(<<"issue", "fence">>)}
BudgetsOvercommit == {allow(<<"issue", "local_state", "local_state">>)}

(* The generations a restarted agent may be configured with. *)
MCConfigured == 1..3

(* The grants that have been issued already: the alternatives about capacity
   begin with the grants they do not issue themselves. *)
Issued ==
  IF budget \in BudgetsConsent THEN {g \in {1} : budget["issue"] = 0}
  ELSE 1..(MaxGrant - budget["issue"])

(* Both agents are connected, the contract has both consents, and the issued
   grants have been committed.  Init leads here. *)
Established ==
  LET terms == [i \in Side |-> FirstIdentity]
      committed(acks, s) ==
        [g \in Grant |-> IF g \in Issued
           THEN [state |-> s, contract |-> 1, attempt |-> g, term |-> 1, bind |-> terms,
                 ack |-> [i \in Side |-> acks]]
           ELSE NoGrant]
      known == reported([id |-> FirstIdentity, state |-> "Active", withdrawn |-> FALSE])
  IN  /\ link = [n \in Conn |->
           IF n > 2 THEN NoLink
           ELSE [NoLink EXCEPT !.owner = IF n = 1 THEN east ELSE west,
                               !.agentEnd = "open", !.coordEnd = "open"]]
      /\ serving = TRUE /\ lapsed = {}
      /\ term = 1
      /\ cluster = [c \in Cluster |-> [known EXCEPT !.reserved = Cardinality(Issued)]]
      /\ contract = [k \in Contract |->
           [state |-> "Consented", terms |-> terms,
            consents |-> [i \in Side |-> [decision |-> "Accepted", id |-> FirstIdentity]]]]
      /\ grant = committed(TRUE, "Committed")
      /\ stored = grant
      /\ resv = [g \in Grant |-> [c \in Cluster |-> IF g \in Issued THEN 1 ELSE 0]]
      /\ session = [n \in Conn |->
           IF n > 2 THEN NoSession
           ELSE [on |-> TRUE, cluster |-> link[n].owner, id |-> FirstIdentity, since |-> n]]
      /\ pending = [g \in Grant |-> NoFlow]
      /\ minted = Cardinality(Issued) /\ greeted = 2
      /\ agent = [c \in Cluster |->
           [up |-> TRUE, id |-> FirstIdentity, state |-> "Active", withdrawn |-> FALSE,
            cterm |-> 1, conn |-> IF c = east THEN 1 ELSE 2, ready |-> TRUE]]
      /\ accepted = [c \in Cluster |-> [k \in Contract |-> terms]]
      /\ local = [c \in Cluster |-> committed(FALSE, "Active")]
      /\ promised = Issued \X Side /\ installed = Issued \X Side

(* The fabric begins empty where a contract is still to be proposed. *)
Begin ==
  /\ budget \in Budgets
  /\ IF budget["propose"] > 0 THEN LinksInit /\ CoordInit /\ AgentInit ELSE Established

SpecBegin == Begin /\ [][Next]_vars
FairBegin == SpecBegin /\ Fairness
=============================================================================
