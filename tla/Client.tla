------------------------------- MODULE Client -------------------------------
(***************************************************************************)
(* The blocking client of the operator tool, the benchmarks and the tests, *)
(* and the server's side of it: the coordinator, or the control channel of *)
(* an agent.  A call sends one frame and reads frames until it finds its   *)
(* reply or gives up; a client that gave up may be used again, with the    *)
(* late reply still on its way.                                            *)
(***************************************************************************)
EXTENDS Requests, Sequences

CONSTANTS
  Agents,       \* the callers that say in their Hello that they are an agent
  MaxEvents     \* bound on crashes, broken connections and messages the server sends unasked

ASSUME ClientAssumption ==
  /\ Agents \subseteq Caller
  /\ MaxEvents \in Nat

VARIABLES
  server,     \* what listens: the coordinator, or an agent's control channel
  serving,    \* its process is up
  session,    \* the callers it has an agent's session with
  line,       \* the state of each caller's connection
  toServer,   \* the frames on their way on it
  toClient,
  orphans,    \* requests on connections that are gone, which may still be handled
  pc,         \* where each caller is in the library
  events

clientVars == <<server, serving, session, line, toServer, toClient, orphans, pc, events>>
vars == <<absvars, clientVars>>

Waiting == {"query", "admin"}
Message ==
  [type : {"Hello", "HelloAck", "Ping", "Pong", "Error", "Other"}] \cup
  [type : {"Query", "Admin"}, req : Request] \cup
  [type : {"QueryResult", "AdminResult"}, req : Request, value : Value]

TypeOK ==
  /\ view \in Nat /\ since \in [Request -> Nat]
  /\ kind \in [Request -> Kind \cup {Unasked}] /\ effect \in [Request -> Value \cup {None}]
  /\ asked \in [Caller -> Request \cup {NoRequest}]
  /\ answer \in [Caller -> [req : Request, value : Value] \cup {None}]
  /\ server \in {"coordinator", "agent"} /\ serving \in BOOLEAN /\ session \subseteq Agents
  /\ line \in [Caller -> {"none", "open", "broken"}]
  /\ toServer \in [Caller -> Seq(Message)] /\ toClient \in [Caller -> Seq(Message)]
  /\ orphans \subseteq Request
  /\ pc \in [Caller -> {"off", "hello", "ready"} \cup Waiting]
  /\ \A c \in Caller : pc[c] \in Waiting <=> asked[c] # NoRequest
  /\ events \in Nat

Init ==
  /\ Begin
  /\ server \in {"coordinator", "agent"} /\ serving = TRUE /\ session = {}
  /\ line = [c \in Caller |-> "none"]
  /\ toServer = [c \in Caller |-> <<>>] /\ toClient = [c \in Caller |-> <<>>]
  /\ orphans = {}
  /\ pc = [c \in Caller |-> "off"]
  /\ events = 0

(* The coordinator refuses the administration of an agent. *)
refuses(c) == server = "coordinator" /\ c \in Agents

(* The requests of a caller that have not been handled and will not be refused. *)
requests(c) ==
  {toServer[c][i].req : i \in {j \in DOMAIN toServer[c] :
     toServer[c][j].type \in {"Query"} \cup {t \in {"Admin"} : ~refuses(c)}}}

(***************************************************************************)
(* The library.                                                            *)
(***************************************************************************)
send_frame(c, m) == toServer' = [toServer EXCEPT ![c] = IF line[c] = "open" THEN Append(@, m) ELSE @]

connect(c) ==
  /\ pc[c] = "off" /\ serving
  /\ pc' = [pc EXCEPT ![c] = "hello"]
  /\ line' = [line EXCEPT ![c] = "open"]
  /\ toServer' = [toServer EXCEPT ![c] = <<[type |-> "Hello"]>>]
  /\ toClient' = [toClient EXCEPT ![c] = <<>>]
  /\ UNCHANGED <<absvars, server, serving, session, orphans, events>>

(* The client is destroyed: what it sent is still with the server. *)
hang_up(c) ==
  /\ pc' = [pc EXCEPT ![c] = "off"]
  /\ line' = [line EXCEPT ![c] = "none"]
  /\ orphans' = orphans \cup requests(c)
  /\ session' = session \ {c}
  /\ toServer' = [toServer EXCEPT ![c] = <<>>]
  /\ toClient' = [toClient EXCEPT ![c] = <<>>]

close(c) ==
  /\ pc[c] = "ready" /\ hang_up(c)
  /\ UNCHANGED <<absvars, server, serving, events>>

(* query and admin up to the first receive_frame.  A frame sent on a connection
   that is gone is lost, or the call fails at once; identities are drawn at
   random, and taken in order here. *)
call(c, r, k) ==
  /\ pc[c] = "ready"
  /\ \A q \in Request : q < r => kind[q] # Unasked
  /\ Ask(c, r, k)
  /\ send_frame(c, [type |-> IF k = "query" THEN "Query" ELSE "Admin", req |-> r])
  /\ pc' = [pc EXCEPT ![c] = k]
  /\ UNCHANGED <<server, serving, session, line, toClient, orphans, events>>

(* Fault: a failed call leaves the caller waiting. *)
fails_waiting(c) ==
  /\ asked' = [asked EXCEPT ![c] = NoRequest]
  /\ answer' = [answer EXCEPT ![c] = None]
  /\ UNCHANGED <<view, kind, since, effect, pc>>

(* A call ends with a status and no result. *)
fails(c) ==
  /\ asked' = [asked EXCEPT ![c] = NoRequest]
  /\ answer' = [answer EXCEPT ![c] = None]
  /\ pc' = [pc EXCEPT ![c] = "ready"]
  /\ UNCHANGED <<view, kind, since, effect>>

returns(c, m) ==
  /\ asked' = [asked EXCEPT ![c] = NoRequest]
  /\ answer' = [answer EXCEPT ![c] = [req |-> asked[c], value |-> m.value]]
  /\ pc' = [pc EXCEPT ![c] = "ready"]
  /\ UNCHANGED <<view, kind, since, effect>>

(* Fault: the first reply of the right type is taken. *)
own_reply_any(c, m) == TRUE

own_reply(c, m) == m.req = asked[c]

reads(c) ==
  /\ toClient[c] # <<>>
  /\ toClient' = [toClient EXCEPT ![c] = Tail(@)]

(* connect reads one frame and looks at its type, not at the outcome in it. *)
receive_hello_ack(c) ==
  /\ pc[c] = "hello" /\ reads(c) /\ Head(toClient[c]).type = "HelloAck"
  /\ pc' = [pc EXCEPT ![c] = "ready"]
  /\ UNCHANGED <<absvars, server, serving, session, line, toServer, orphans, events>>

(* One turn of query's loop.  The reply to another request is skipped, or ends
   the call when the deadline has passed. *)
receive_query(c) ==
  LET m == Head(toClient[c])
  IN  /\ pc[c] = "query" /\ reads(c)
      /\ \/ /\ m.type = "Ping" /\ send_frame(c, [type |-> "Pong"])
            /\ UNCHANGED <<absvars, pc>>
         \/ m.type \notin {"Ping", "QueryResult"} /\ fails(c) /\ UNCHANGED toServer
         \/ m.type = "QueryResult" /\ own_reply(c, m) /\ returns(c, m) /\ UNCHANGED toServer
         \/ m.type = "QueryResult" /\ ~own_reply(c, m) /\ UNCHANGED <<absvars, pc, toServer>>
         \/ m.type = "QueryResult" /\ ~own_reply(c, m) /\ fails(c) /\ UNCHANGED toServer
      /\ UNCHANGED <<server, serving, session, line, orphans, events>>

(* One turn of admin's loop, which answers no Ping and has no deadline. *)
receive_admin(c) ==
  LET m == Head(toClient[c])
  IN  /\ pc[c] = "admin" /\ reads(c)
      /\ \/ m.type = "Ping" /\ UNCHANGED <<absvars, pc>>
         \/ m.type \notin {"Ping", "AdminResult"} /\ fails(c)
         \/ m.type = "AdminResult" /\ own_reply(c, m) /\ returns(c, m)
         \/ m.type = "AdminResult" /\ ~own_reply(c, m) /\ UNCHANGED <<absvars, pc>>
      /\ UNCHANGED <<server, serving, session, line, toServer, orphans, events>>

(* Fault: a call that got no reply is sent again. *)
give_up_resending(c) ==
  /\ \/ /\ pc[c] = "hello" /\ hang_up(c) /\ UNCHANGED <<absvars, events>>
     \/ /\ pc[c] \in Waiting /\ events < MaxEvents /\ events' = events + 1
        /\ send_frame(c, [type |-> IF pc[c] = "query" THEN "Query" ELSE "Admin", req |-> asked[c]])
        /\ UNCHANGED <<absvars, pc, line, toClient, orphans, session>>
     \/ /\ pc[c] \in Waiting /\ fails(c)
        /\ UNCHANGED <<line, toServer, toClient, orphans, session, events>>
  /\ UNCHANGED <<server, serving>>

(* Fault: the wait for a reply has no end. *)
give_up_never(c) ==
  /\ pc[c] = "hello" /\ hang_up(c)
  /\ UNCHANGED <<absvars, server, serving, events>>

(* receive_frame returns no frame: a quarter of a second passed in poll, or the
   connection was seen to fail, with a reply on its way or behind the failure
   or not. *)
give_up(c) ==
  /\ \/ /\ pc[c] = "hello" /\ hang_up(c) /\ UNCHANGED absvars
     \/ /\ pc[c] \in Waiting /\ fails(c)
        /\ UNCHANGED <<line, toServer, toClient, orphans, session>>
  /\ UNCHANGED <<server, serving, events>>

(***************************************************************************)
(* The server.                                                             *)
(***************************************************************************)
replies(c, m) ==
  /\ toServer' = [toServer EXCEPT ![c] = Tail(@)]
  /\ toClient' = [toClient EXCEPT ![c] = Append(@, m)]

(* The coordinator makes an agent of who says so. *)
on_hello(c) ==
  /\ server = "coordinator" /\ Head(toServer[c]).type = "Hello"
  /\ session' = IF refuses(c) THEN session \cup {c} ELSE session
  /\ replies(c, [type |-> "HelloAck"])
  /\ UNCHANGED absvars

(* The control channel tells an agent that it is not welcome, in an
   acknowledgement whose outcome the client does not read. *)
on_control_hello(c) ==
  /\ server = "agent" /\ Head(toServer[c]).type = "Hello"
  /\ replies(c, [type |-> "HelloAck"])
  /\ UNCHANGED <<absvars, session>>

(* A request is carried out whenever its frame is handled: the server does not
   remember which it has seen. *)
carry_out(r, v) ==
  /\ v \in {view} \cup {u \in {view + 1} : kind[r] = "admin"}
  /\ view' = v
  /\ effect' = [effect EXCEPT ![r] = [view |-> v]]
  /\ UNCHANGED <<kind, since, asked, answer>>

(* Whatever is asked for is read from the registry in one go. *)
handle_query(c, r) ==
  /\ carry_out(r, view)
  /\ replies(c, [type |-> "QueryResult", req |-> r, value |-> [view |-> view]])

(* An administrative request changes the registry or not, and is answered with
   the digest of what the registry is then. *)
handle_admin(c, r) ==
  \E v \in {view, view + 1} :
    /\ carry_out(r, v)
    /\ replies(c, [type |-> "AdminResult", req |-> r, value |-> [view |-> v]])

(* Neither server asks for a session before it answers a query. *)
on_query(c) ==
  /\ server = "coordinator" /\ Head(toServer[c]).type = "Query"
  /\ handle_query(c, Head(toServer[c]).req)
  /\ UNCHANGED session

on_control_query(c) ==
  /\ server = "agent" /\ Head(toServer[c]).type = "Query"
  /\ handle_query(c, Head(toServer[c]).req)
  /\ UNCHANGED session

on_admin(c) ==
  /\ server = "coordinator" /\ Head(toServer[c]).type = "Admin"
  /\ \/ c \in session /\ replies(c, [type |-> "Error"]) /\ UNCHANGED absvars
     \/ c \notin session /\ handle_admin(c, Head(toServer[c]).req)
  /\ UNCHANGED session

on_control_admin(c) ==
  /\ server = "agent" /\ Head(toServer[c]).type = "Admin"
  /\ handle_admin(c, Head(toServer[c]).req)
  /\ UNCHANGED session

on_pong(c) ==
  /\ Head(toServer[c]).type = "Pong"
  /\ toServer' = [toServer EXCEPT ![c] = Tail(@)]
  /\ UNCHANGED <<absvars, toClient, session>>

handle_message(c) ==
  /\ serving /\ line[c] = "open" /\ toServer[c] # <<>>
  /\ \/ on_hello(c) \/ on_query(c) \/ on_admin(c) \/ on_pong(c)
     \/ on_control_hello(c) \/ on_control_query(c) \/ on_control_admin(c)
  /\ UNCHANGED <<server, serving, line, orphans, pc, events>>

(* A frame that arrived before its connection ended is handled and the reply
   goes nowhere. *)
handle_orphan(r) ==
  /\ serving /\ r \in orphans
  /\ orphans' = orphans \ {r}
  /\ \E v \in {view, view + 1} : carry_out(r, v)
  /\ UNCHANGED <<server, serving, session, line, toServer, toClient, pc, events>>

(* To an agent's session the coordinator sends a Ping at every tick, and the
   messages of the grant flow. *)
speak(c) ==
  /\ serving /\ line[c] = "open" /\ c \in session /\ events < MaxEvents
  /\ events' = events + 1
  /\ \E t \in {"Ping", "Other"} : toClient' = [toClient EXCEPT ![c] = Append(@, [type |-> t])]
  /\ UNCHANGED <<absvars, server, serving, session, line, toServer, orphans, pc>>

(* A connection breaks: what was on its way may or may not have arrived. *)
break(c) ==
  /\ line[c] = "open" /\ events < MaxEvents
  /\ events' = events + 1
  /\ line' = [line EXCEPT ![c] = "broken"]
  /\ orphans' = orphans \cup requests(c)
  /\ toServer' = [toServer EXCEPT ![c] = <<>>]
  /\ \E kept \in BOOLEAN : toClient' = [toClient EXCEPT ![c] = IF kept THEN @ ELSE <<>>]
  /\ session' = session \ {c}
  /\ UNCHANGED <<absvars, server, serving, pc>>

crash ==
  /\ serving /\ events < MaxEvents
  /\ events' = events + 1
  /\ serving' = FALSE /\ session' = {} /\ orphans' = {}
  /\ line' = [c \in Caller |-> IF line[c] = "open" THEN "broken" ELSE line[c]]
  /\ toServer' = [c \in Caller |-> <<>>]
  /\ \E kept \in SUBSET Caller : toClient' = [c \in Caller |-> IF c \in kept THEN toClient[c] ELSE <<>>]
  /\ UNCHANGED <<absvars, server, pc>>

start ==
  /\ ~serving /\ serving' = TRUE
  /\ UNCHANGED <<absvars, server, session, line, toServer, toClient, orphans, pc, events>>

step(c) == receive_hello_ack(c) \/ receive_query(c) \/ receive_admin(c) \/ give_up(c)

Next ==
  \/ \E c \in Caller : connect(c) \/ close(c)
  \/ \E c \in Caller, r \in Request, k \in Kind : call(c, r, k)
  \/ \E c \in Caller : step(c)
  \/ \E c \in Caller : handle_message(c) \/ speak(c) \/ break(c)
  \/ \E r \in Request : handle_orphan(r)
  \/ crash \/ start

(* poll returns within its timeout and the process goes on; nothing is assumed
   of the server or the network. *)
Fairness == \A c \in Caller : WF_vars(step(c))

Spec == Init /\ [][Next]_vars /\ Fairness

----------------------------------------------------------------------------
(* What a call returned was found or done between the call and its return: it
   is no reply to an earlier call that was given up, and it is not older than
   anything that anyone was told before the call (Client::query, Client::admin:
   the comparison of request identities). *)
Fresh ==
  \A c \in Caller : answer[c] # None =>
    /\ effect[answer[c].req] = answer[c].value
    /\ since[answer[c].req] <= answer[c].value.view
    /\ answer[c].value.view <= view

(* The client, the connection and the server together keep what Requests says:
   a request takes effect at most once, whatever is lost, late or given up
   (Client::send_frame, Coordinator::on_admin, Agent::on_admin). *)
Promise == INSTANCE Requests
ImplementsRequests == Promise!Contract

(* Every call ends, even if the server never answers (Client::wait_readable). *)
CallEnds ==
  \A c \in Caller : pc[c] \in {"hello"} \cup Waiting ~> pc[c] \in {"off", "ready"}
=============================================================================
