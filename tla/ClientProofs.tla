---------------------------- MODULE ClientProofs ----------------------------
(***************************************************************************)
(* For any number of callers and requests: the client and its server       *)
(* implement Requests, and what a call returns is fresh.                   *)
(***************************************************************************)
EXTENDS Client, TLAPS

(* Every leaf may take this long. *)
USE SMTT(30), ZenonT(10)

(* A result is not the absence of one. *)
LEMMA ValueNotNone == \A v : [view |-> v] # None
  <1> SUFFICES ASSUME NEW v, [view |-> v] = None PROVE FALSE
    OBVIOUS
  <1>1. DOMAIN [view |-> v] = {"view"}
    OBVIOUS
  <1>2. DOMAIN None = {"none"}
    BY DEF None
  <1> QED
    BY <1>1, <1>2

(* What Head and Tail are of a queue that is not empty. *)
LEMMA QueueFacts ==
  ASSUME NEW S, NEW q \in Seq(S), q # <<>>
  PROVE  /\ Head(q) \in S /\ Tail(q) \in Seq(S)
         /\ Head(q) = q[1] /\ 1 \in DOMAIN q
         /\ \A i \in DOMAIN Tail(q) : i + 1 \in DOMAIN q /\ Tail(q)[i] = q[i + 1] /\ i \in Nat
  OBVIOUS

(* What Append is. *)
LEMMA AppendFacts ==
  ASSUME NEW S, NEW q \in Seq(S), NEW m \in S
  PROVE  /\ Append(q, m) \in Seq(S)
         /\ \A i \in DOMAIN Append(q, m) :
              \/ i \in DOMAIN q /\ Append(q, m)[i] = q[i]
              \/ i = Len(q) + 1 /\ Append(q, m)[i] = m
  OBVIOUS

(* A frame is added at the end of a caller's queue. *)
LEMMA Appended ==
  ASSUME NEW q \in [Caller -> Seq(Message)], NEW c \in Caller, NEW m \in Message,
         NEW p, p = [q EXCEPT ![c] = Append(@, m)]
  PROVE  \A d \in Caller : \A i \in DOMAIN p[d] :
           \/ i \in DOMAIN q[d] /\ p[d][i] = q[d][i]
           \/ d = c /\ i = Len(q[c]) + 1 /\ p[d][i] = m
  <1>1. \A i \in DOMAIN Append(q[c], m) :
          \/ i \in DOMAIN q[c] /\ Append(q[c], m)[i] = q[c][i]
          \/ i = Len(q[c]) + 1 /\ Append(q[c], m)[i] = m
    BY AppendFacts
  <1>2. \A d \in Caller : p[d] = IF d = c THEN Append(q[c], m) ELSE q[d]
    OBVIOUS
  <1> QED
    BY <1>1, <1>2

(* A frame is taken from the front of a caller's queue. *)
LEMMA Taken ==
  ASSUME NEW q \in [Caller -> Seq(Message)], NEW c \in Caller, q[c] # <<>>,
         NEW p, p = [q EXCEPT ![c] = Tail(@)]
  PROVE  \A d \in Caller : \A i \in DOMAIN p[d] :
           /\ i \in Nat
           /\ d # c => i \in DOMAIN q[d] /\ p[d][i] = q[d][i]
           /\ d = c => i + 1 \in DOMAIN q[d] /\ p[d][i] = q[d][i + 1]
  <1>1. \A i \in DOMAIN Tail(q[c]) :
          i + 1 \in DOMAIN q[c] /\ Tail(q[c])[i] = q[c][i + 1] /\ i \in Nat
    BY QueueFacts
  <1>2. \A d \in Caller : p[d] = IF d = c THEN Tail(q[c]) ELSE q[d]
    OBVIOUS
  <1>3. \A d \in Caller : \A i \in DOMAIN q[d] : i \in Nat
    OBVIOUS
  <1> QED
    BY <1>1, <1>2, <1>3

(* The fields a request and a reply have. *)
LEMMA MessageFields ==
  ASSUME NEW m \in Message
  PROVE  /\ m.type \in {"Query", "Admin"} => m.req \in Request
         /\ m.type \in {"QueryResult", "AdminResult"} => m.req \in Request /\ m.value \in Value
  BY DEF Message

(* The messages that are sent. *)
LEMMA Messages ==
  /\ \A t \in {"Hello", "HelloAck", "Ping", "Pong", "Error", "Other"} : [type |-> t] \in Message
  /\ \A t \in {"Query", "Admin"}, r \in Request : [type |-> t, req |-> r] \in Message
  /\ \A t \in {"QueryResult", "AdminResult"}, r \in Request, v \in Nat :
       [type |-> t, req |-> r, value |-> [view |-> v]] \in Message
  BY DEF Message, Value
----------------------------------------------------------------------------
(* The variables have their types. *)

(* The initial states are well typed.                                        *)
LEMMA TypeInit == Init => TypeOK
  BY RequestsAssumption DEF Init, Begin, TypeOK, NoRequest, Waiting

(* Sending a request on a line keeps the types.                              *)
LEMMA TypeCall ==
  ASSUME TypeOK, NEW c \in Caller, NEW r \in Request, NEW k \in Kind, call(c, r, k)
  PROVE  TypeOK'
  <1> DEFINE m == [type |-> IF k = "query" THEN "Query" ELSE "Admin", req |-> r]
  <1>1. m \in Message
    BY Messages DEF Kind
  <1>2. toServer' \in [Caller -> Seq(Message)]
    <2> HIDE DEF m
    <2> QED
      BY <1>1 DEF call, send_frame, TypeOK, m
  <1>3. k \in Waiting /\ r # NoRequest /\ k \in Kind \cup {Unasked}
    BY RequestsAssumption DEF Kind, Waiting, NoRequest
  <1>4. \A d \in Caller : pc'[d] \in Waiting <=> asked'[d] # NoRequest
    BY <1>3 DEF call, Ask, TypeOK
  <1> QED
    BY <1>2, <1>3, <1>4, Zenon DEF call, Ask, TypeOK

(* What the end of a call leaves typed. *)
LEMMA TypeEnds ==
  ASSUME TypeOK, NEW c \in Caller, fails(c) \/ \E m \in Message :
           pc[c] \in Waiting /\ m.type \in {"QueryResult", "AdminResult"} /\ returns(c, m)
  PROVE  /\ view' = view /\ kind' = kind /\ since' = since /\ effect' = effect
         /\ asked' \in [Caller -> Request \cup {NoRequest}]
         /\ answer' \in [Caller -> [req : Request, value : Value] \cup {None}]
         /\ pc' \in [Caller -> {"off", "hello", "ready"} \cup Waiting]
         /\ \A d \in Caller : pc'[d] \in Waiting <=> asked'[d] # NoRequest
  <1>1. CASE fails(c)
    BY <1>1 DEF fails, TypeOK, Waiting
  <1>2. ASSUME NEW m \in Message, pc[c] \in Waiting, m.type \in {"QueryResult", "AdminResult"},
               returns(c, m)
        PROVE  /\ view' = view /\ kind' = kind /\ since' = since /\ effect' = effect
               /\ asked' \in [Caller -> Request \cup {NoRequest}]
               /\ answer' \in [Caller -> [req : Request, value : Value] \cup {None}]
               /\ pc' \in [Caller -> {"off", "hello", "ready"} \cup Waiting]
               /\ \A d \in Caller : pc'[d] \in Waiting <=> asked'[d] # NoRequest
    <2>1. [req |-> asked[c], value |-> m.value] \in [req : Request, value : Value]
      BY <1>2, MessageFields DEF TypeOK
    <2> QED
      BY <1>2, <2>1 DEF returns, TypeOK, Waiting
  <1> QED
    BY <1>1, <1>2

(* What is left behind of a queue are requests. *)
LEMMA RequestsTyped ==
  ASSUME TypeOK, NEW c \in Caller
  PROVE  requests(c) \subseteq Request
  <1>1. \A j \in DOMAIN toServer[c] : toServer[c][j] \in Message
    BY DEF TypeOK
  <1> QED
    BY <1>1, MessageFields DEF requests

(* Closing the line of a caller keeps the types.                             *)
LEMMA TypeHangUp ==
  ASSUME TypeOK, NEW c \in Caller, hang_up(c), UNCHANGED <<absvars, server, serving, events>>,
         pc[c] \notin Waiting
  PROVE  TypeOK'
  <1>1. requests(c) \subseteq Request
    BY RequestsTyped
  <1> QED
    BY <1>1 DEF hang_up, absvars, TypeOK, Waiting

(* Every wait of a caller's pump keeps the types.                            *)
LEMMA TypeStepOf ==
  ASSUME TypeOK, NEW c \in Caller, step(c)
  PROVE  TypeOK'
  <1>1. CASE receive_hello_ack(c)
    BY <1>1, QueueFacts DEF receive_hello_ack, reads, absvars, TypeOK, Waiting
  <1>2. ASSUME reads(c)
        PROVE  toClient' \in [Caller -> Seq(Message)] /\ Head(toClient[c]) \in Message
    BY <1>2, QueueFacts DEF reads, TypeOK
  <1>3. CASE receive_query(c)
    <2> DEFINE m == Head(toClient[c])
    <2>1. m \in Message /\ toClient' \in [Caller -> Seq(Message)] /\ pc[c] \in Waiting
      BY <1>2, <1>3 DEF receive_query, Waiting
    <2>2. CASE /\ m.type = "Ping" /\ send_frame(c, [type |-> "Pong"]) /\ UNCHANGED <<absvars, pc>>
      <3>1. toServer' \in [Caller -> Seq(Message)]
        BY <2>2, Messages DEF send_frame, TypeOK
      <3> QED
        BY <1>3, <2>1, <2>2, <3>1 DEF receive_query, absvars, TypeOK
    <2>3. CASE UNCHANGED <<absvars, pc, toServer>>
      BY <1>3, <2>1, <2>3 DEF receive_query, absvars, TypeOK
    <2>4. CASE /\ fails(c) \/ (m.type = "QueryResult" /\ returns(c, m))
               /\ UNCHANGED toServer
      <3> HIDE DEF m
      <3>1. fails(c) \/ \E n \in Message :
              pc[c] \in Waiting /\ n.type \in {"QueryResult", "AdminResult"} /\ returns(c, n)
        BY <2>1, <2>4
      <3>2. UNCHANGED <<server, serving, session, line, orphans, events, toServer>>
        BY <1>3, <2>4 DEF receive_query
      <3> QED
        BY <2>1, <3>1, <3>2, TypeEnds DEF TypeOK
    <2> QED
      BY <1>3, <2>2, <2>3, <2>4 DEF receive_query
  <1>4. CASE receive_admin(c)
    <2> DEFINE m == Head(toClient[c])
    <2>1. m \in Message /\ toClient' \in [Caller -> Seq(Message)] /\ pc[c] \in Waiting
      BY <1>2, <1>4 DEF receive_admin, Waiting
    <2>2. CASE UNCHANGED <<absvars, pc>>
      BY <1>4, <2>1, <2>2 DEF receive_admin, absvars, TypeOK
    <2>3. CASE fails(c) \/ (m.type = "AdminResult" /\ returns(c, m))
      <3> HIDE DEF m
      <3>1. fails(c) \/ \E n \in Message :
              pc[c] \in Waiting /\ n.type \in {"QueryResult", "AdminResult"} /\ returns(c, n)
        BY <2>1, <2>3
      <3>2. UNCHANGED <<server, serving, session, line, orphans, events, toServer>>
        BY <1>4 DEF receive_admin
      <3> QED
        BY <2>1, <3>1, <3>2, TypeEnds DEF TypeOK
    <2> QED
      BY <1>4, <2>2, <2>3 DEF receive_admin
  <1>5. CASE give_up(c)
    <2>1. CASE pc[c] = "hello" /\ hang_up(c) /\ UNCHANGED absvars
      BY <1>5, <2>1, TypeHangUp DEF give_up, Waiting
    <2>2. CASE pc[c] \in Waiting /\ fails(c)
               /\ UNCHANGED <<line, toServer, toClient, orphans, session>>
      BY <1>5, <2>2, TypeEnds DEF give_up, TypeOK
    <2> QED
      BY <1>5, <2>1, <2>2 DEF give_up
  <1> QED
    BY <1>1, <1>3, <1>4, <1>5 DEF step
(* A request that is carried out. *)
LEMMA TypeCarryOut ==
  ASSUME TypeOK, NEW r \in Request, NEW v, carry_out(r, v)
  PROVE  /\ v \in Nat /\ view' \in Nat /\ view' = v
         /\ effect' \in [Request -> Value \cup {None}] /\ effect'[r] = [view |-> v]
         /\ kind' = kind /\ since' = since /\ asked' = asked /\ answer' = answer
  <1>1. v \in Nat
    BY DEF carry_out, TypeOK
  <1>2. [view |-> v] \in Value
    BY <1>1 DEF Value
  <1> QED
    BY <1>1, <1>2 DEF carry_out, TypeOK

(* The server's reply to a frame leaves queues of messages.                  *)
LEMMA TypeReplies ==
  ASSUME TypeOK, NEW c \in Caller, toServer[c] # <<>>, NEW m \in Message, replies(c, m)
  PROVE  toServer' \in [Caller -> Seq(Message)] /\ toClient' \in [Caller -> Seq(Message)]
  BY QueueFacts, AppendFacts DEF replies, TypeOK

(* The message at the head of a queue is answered in one of three ways. *)
LEMMA HandleCases ==
  ASSUME TypeOK, NEW c \in Caller, handle_message(c)
  PROVE  LET h == Head(toServer[c])
         IN  /\ toServer[c] # <<>> /\ h \in Message
             /\ UNCHANGED <<server, serving, line, orphans, pc, events>>
             /\ session' \subseteq Agents
             /\ \/ /\ h.type = "Pong" /\ UNCHANGED <<absvars, toClient>>
                   /\ toServer' = [toServer EXCEPT ![c] = Tail(@)]
                \/ \E t \in {"HelloAck", "Error"} : replies(c, [type |-> t]) /\ UNCHANGED absvars
                \/ /\ h.type \in {"Query", "Admin"} /\ h.req \in Request
                   /\ \E t \in {"QueryResult", "AdminResult"}, v \in {view, view + 1} :
                        /\ carry_out(h.req, v)
                        /\ replies(c, [type |-> t, req |-> h.req, value |-> [view |-> v]])
  <1> DEFINE h == Head(toServer[c])
  <1>1. toServer[c] # <<>> /\ h \in Message
    BY QueueFacts DEF handle_message, TypeOK
  <1>2. UNCHANGED <<server, serving, line, orphans, pc, events>>
    BY DEF handle_message
  <1>3. h.type \in {"Query", "Admin"} => h.req \in Request
    BY <1>1, MessageFields
  <1>4. session' \subseteq Agents
    BY DEF handle_message, on_hello, refuses, on_query, on_admin, on_pong, on_control_hello,
           on_control_query, on_control_admin, TypeOK
  <1>5. CASE on_hello(c) \/ on_control_hello(c)
    BY <1>1, <1>2, <1>4, <1>5 DEF on_hello, on_control_hello
  <1>6. CASE on_pong(c)
    BY <1>1, <1>2, <1>4, <1>6 DEF on_pong
  <1>7. CASE on_query(c) \/ on_control_query(c)
    BY <1>1, <1>2, <1>3, <1>4, <1>7 DEF on_query, on_control_query, handle_query
  <1>8. CASE on_admin(c) \/ on_control_admin(c)
    <2>1. CASE replies(c, [type |-> "Error"]) /\ UNCHANGED absvars
      BY <1>1, <1>2, <1>4, <2>1
    <2>2. CASE h.type = "Admin" /\ handle_admin(c, h.req)
      BY <1>1, <1>2, <1>3, <1>4, <2>2 DEF handle_admin
    <2> QED
      BY <1>8, <2>1, <2>2 DEF on_admin, on_control_admin
  <1> QED
    BY <1>5, <1>6, <1>7, <1>8 DEF handle_message

(* The server answering or refusing a frame keeps the types.                 *)
LEMMA TypeHandle ==
  ASSUME TypeOK, NEW c \in Caller, handle_message(c)
  PROVE  TypeOK'
  <1> DEFINE h == Head(toServer[c])
  <1>1. /\ toServer[c] # <<>> /\ h \in Message
        /\ UNCHANGED <<server, serving, line, orphans, pc, events>>
        /\ session' \subseteq Agents
    BY HandleCases, Zenon
  <1>2. CASE /\ UNCHANGED <<absvars, toClient>>
             /\ toServer' = [toServer EXCEPT ![c] = Tail(@)]
    BY <1>1, <1>2, QueueFacts DEF absvars, TypeOK
  <1>3. ASSUME NEW t \in {"HelloAck", "Error"}, replies(c, [type |-> t]), UNCHANGED absvars
        PROVE  TypeOK'
    <2>1. toServer' \in [Caller -> Seq(Message)] /\ toClient' \in [Caller -> Seq(Message)]
      BY <1>1, <1>3, Messages, TypeReplies
    <2> QED
      BY <1>1, <1>3, <2>1 DEF absvars, TypeOK
  <1>4. ASSUME NEW t \in {"QueryResult", "AdminResult"}, NEW v, h.req \in Request,
               carry_out(h.req, v),
               replies(c, [type |-> t, req |-> h.req, value |-> [view |-> v]])
        PROVE  TypeOK'
    <2> HIDE DEF h
    <2>1. /\ v \in Nat /\ view' \in Nat /\ effect' \in [Request -> Value \cup {None}]
          /\ kind' = kind /\ since' = since /\ asked' = asked /\ answer' = answer
      BY <1>4, TypeCarryOut
    <2>2. toServer' \in [Caller -> Seq(Message)] /\ toClient' \in [Caller -> Seq(Message)]
      BY <1>1, <1>4, <2>1, Messages, TypeReplies
    <2> QED
      BY <1>1, <2>1, <2>2 DEF TypeOK
  <1> QED
    BY <1>2, <1>3, <1>4, HandleCases, Zenon

(* Every step keeps the types.                                               *)
LEMMA TypeNext == TypeOK /\ [Next]_vars => TypeOK'
  <1> SUFFICES ASSUME TypeOK, [Next]_vars PROVE TypeOK'
    OBVIOUS
  <1>1. ASSUME NEW c \in Caller, connect(c) PROVE TypeOK'
    <2>1. <<[type |-> "Hello"]>> \in Seq(Message)
      BY Messages
    <2> QED
      BY <1>1, <2>1 DEF connect, absvars, TypeOK, Waiting
  <1>2. ASSUME NEW c \in Caller, close(c) PROVE TypeOK'
    BY <1>2, TypeHangUp DEF close, Waiting
  <1>3. ASSUME NEW c \in Caller, NEW r \in Request, NEW k \in Kind, call(c, r, k) PROVE TypeOK'
    BY <1>3, TypeCall
  <1>4. ASSUME NEW c \in Caller, step(c) PROVE TypeOK'
    BY <1>4, TypeStepOf
  <1>5. ASSUME NEW c \in Caller, handle_message(c) PROVE TypeOK'
    BY <1>5, TypeHandle
  <1>6. ASSUME NEW c \in Caller, speak(c) PROVE TypeOK'
    <2>1. toClient' \in [Caller -> Seq(Message)]
      BY <1>6, Messages DEF speak, TypeOK
    <2> QED
      BY <1>6, <2>1 DEF speak, absvars, TypeOK
  <1>7. ASSUME NEW c \in Caller, break(c) PROVE TypeOK'
    <2>1. requests(c) \subseteq Request
      BY RequestsTyped
    <2>2. toServer' \in [Caller -> Seq(Message)] /\ toClient' \in [Caller -> Seq(Message)]
      BY <1>7 DEF break, TypeOK
    <2> QED
      BY <1>7, <2>1, <2>2 DEF break, absvars, TypeOK
  <1>8. ASSUME NEW r \in Request, handle_orphan(r) PROVE TypeOK'
    BY <1>8, TypeCarryOut, Zenon DEF handle_orphan, TypeOK
  <1>9. CASE crash
    <2>1. toClient' \in [Caller -> Seq(Message)] /\ toServer' \in [Caller -> Seq(Message)]
      BY <1>9 DEF crash, TypeOK
    <2>2. line' \in [Caller -> {"none", "open", "broken"}]
      BY <1>9 DEF crash, TypeOK
    <2>3. /\ UNCHANGED <<absvars, server, pc>> /\ session' = {} /\ orphans' = {}
          /\ serving' = FALSE /\ events' \in Nat
      BY <1>9 DEF crash, TypeOK
    <2> QED
      BY <2>1, <2>2, <2>3, Zenon DEF absvars, TypeOK
  <1>10. CASE start
    BY <1>10 DEF start, absvars, TypeOK
  <1>11. CASE UNCHANGED vars
    BY <1>11 DEF vars, clientVars, absvars, TypeOK
  <1> QED
    BY <1>1, <1>2, <1>3, <1>4, <1>5, <1>6, <1>7, <1>8, <1>9, <1>10, <1>11 DEF Next
----------------------------------------------------------------------------
(***************************************************************************)
(* The inductive invariant.  A request that is on its way, or was left     *)
(* behind by a connection, has been asked and has not taken effect, and is *)
(* nowhere else; a reply that is on its way says what its request did.     *)
(***************************************************************************)
IsRequest(m) == m.type \in {"Query", "Admin"}
IsReply(m) == m.type \in {"QueryResult", "AdminResult"}
Pending(r) == kind[r] # Unasked /\ effect[r] = None

(* A request on its way can still take effect, and no other copy was left behind. *)
Sent ==
  \A c \in Caller : \A i \in DOMAIN toServer[c] :
    IsRequest(toServer[c][i]) =>
      Pending(toServer[c][i].req) /\ toServer[c][i].req \notin orphans

(* A request is on its way once. *)
Once ==
  \A c, d \in Caller : \A i \in DOMAIN toServer[c], j \in DOMAIN toServer[d] :
    IsRequest(toServer[c][i]) /\ IsRequest(toServer[d][j])
      /\ toServer[c][i].req = toServer[d][j].req => c = d /\ i = j

Orphaned == \A r \in orphans : Pending(r)

Replied ==
  \A c \in Caller : \A i \in DOMAIN toClient[c] :
    IsReply(toClient[c][i]) => effect[toClient[c][i].req] = toClient[c][i].value

(* A request that was not asked did nothing. *)
Unstarted == \A r \in Request : kind[r] = Unasked => effect[r] = None

IInv == TypeOK /\ Sent /\ Once /\ Orphaned /\ Replied /\ Unstarted
(* What IInv says of the two directions of the connections.                  *)
LEMMA Queues ==
  ASSUME IInv
  PROVE  /\ toServer \in [Caller -> Seq(Message)]
         /\ toClient \in [Caller -> Seq(Message)]
  BY Zenon DEF IInv, TypeOK
(* The initial states satisfy IInv.                                          *)
LEMMA InvInit == Init => IInv
  <1> SUFFICES ASSUME Init PROVE IInv
    OBVIOUS
  <1>1. TypeOK
    BY TypeInit
  <1>2. \A c \in Caller : toServer[c] = <<>> /\ toClient[c] = <<>>
    BY Zenon DEF Init
  <1>3. Sent /\ Once /\ Replied
    BY <1>2 DEF Sent, Once, Replied
  <1>4. Orphaned /\ Unstarted
    BY DEF Init, Begin, Orphaned, Unstarted
  <1> QED
    BY <1>1, <1>3, <1>4 DEF IInv

(* Where every request of the new queues was in the old ones, f[d] places further
   on, none is there twice and each was there. *)
LEMMA ShiftedOnce ==
  ASSUME TypeOK, TypeOK', Once, NEW f \in [Caller -> Nat],
         \A d \in Caller : \A i \in DOMAIN toServer'[d] : IsRequest(toServer'[d][i]) =>
           i + f[d] \in DOMAIN toServer[d] /\ toServer'[d][i] = toServer[d][i + f[d]]
  PROVE  Once'
  <1> SUFFICES ASSUME NEW c \in Caller, NEW d \in Caller, NEW i \in DOMAIN toServer'[c],
                      NEW j \in DOMAIN toServer'[d],
                      IsRequest(toServer'[c][i]), IsRequest(toServer'[d][j]),
                      toServer'[c][i].req = toServer'[d][j].req
               PROVE  c = d /\ i = j
    BY DEF Once, IsRequest
  <1>1. i \in Nat /\ j \in Nat /\ f[c] \in Nat /\ f[d] \in Nat
    <2>1. toServer'[c] \in Seq(Message) /\ toServer'[d] \in Seq(Message)
      BY DEF TypeOK
    <2> QED
      BY <2>1
  <1>2. /\ i + f[c] \in DOMAIN toServer[c] /\ toServer'[c][i] = toServer[c][i + f[c]]
        /\ j + f[d] \in DOMAIN toServer[d] /\ toServer'[d][j] = toServer[d][j + f[d]]
    OBVIOUS
  <1>3. c = d /\ i + f[c] = j + f[d]
    BY <1>2 DEF Once
  <1> QED
    BY <1>1, <1>3

(* Queues that only lose frames, or gain ones that are no requests, and a server
   that carries nothing out. *)
LEMMA NothingDone ==
  ASSUME IInv, TypeOK', kind' = kind, effect' = effect, NEW f \in [Caller -> Nat],
         \A d \in Caller : \A i \in DOMAIN toServer'[d] : IsRequest(toServer'[d][i]) =>
           i + f[d] \in DOMAIN toServer[d] /\ toServer'[d][i] = toServer[d][i + f[d]],
         \A d \in Caller : \A i \in DOMAIN toClient'[d] : IsReply(toClient'[d][i]) =>
           \E j \in DOMAIN toClient[d] : toClient'[d][i] = toClient[d][j],
         orphans' \subseteq orphans
  PROVE  IInv'
  <1>1. Once'
    BY ShiftedOnce DEF IInv
  <1>2. Sent'
    BY DEF IInv, Sent, Pending, IsRequest
  <1>3. Replied'
    BY DEF IInv, Replied, IsReply
  <1>4. Orphaned' /\ Unstarted'
    BY DEF IInv, Orphaned, Pending, Unstarted
  <1> QED
    BY <1>1, <1>2, <1>3, <1>4 DEF IInv

(* A connection that goes leaves its requests behind. *)
LEMMA LeftBehind ==
  ASSUME IInv, TypeOK', UNCHANGED absvars, NEW c \in Caller,
         orphans' = orphans \cup requests(c),
         toServer' = [toServer EXCEPT ![c] = <<>>],
         \A d \in Caller : toClient'[d] \in {toClient[d], <<>>}
  PROVE  IInv'
  <1>1. \A d \in Caller : toServer'[d] = IF d = c THEN <<>> ELSE toServer[d]
    BY DEF IInv, TypeOK
  <1>2. Once'
    BY <1>1 DEF IInv, Once, IsRequest
  <1>3. \A r \in requests(c) : \E i \in DOMAIN toServer[c] :
          IsRequest(toServer[c][i]) /\ toServer[c][i].req = r
    BY DEF requests, IsRequest
  <1>4. Orphaned'
    BY <1>3 DEF IInv, Sent, Orphaned, Pending, absvars
  <1>5. Sent'
    <2> SUFFICES ASSUME NEW d \in Caller, NEW i \in DOMAIN toServer'[d], IsRequest(toServer'[d][i])
                 PROVE  /\ kind'[toServer'[d][i].req] # Unasked /\ effect'[toServer'[d][i].req] = None
                        /\ toServer'[d][i].req \notin orphans'
      BY DEF Sent, IsRequest, Pending
    <2>1. d # c /\ toServer'[d] = toServer[d] /\ i \in DOMAIN toServer[d]
      BY <1>1
    <2>2. toServer[d][i].req \notin requests(c)
      BY <1>3, <2>1 DEF IInv, Once
    <2> QED
      BY <2>1, <2>2 DEF IInv, Sent, Pending, absvars
  <1>6. Replied'
    BY DEF IInv, Replied, IsReply, absvars
  <1>7. Unstarted'
    BY DEF IInv, Unstarted, absvars
  <1> QED
    BY <1>2, <1>4, <1>5, <1>6, <1>7 DEF IInv
(* A call: its request is new, so it is nowhere yet. *)
LEMMA InvCall ==
  ASSUME IInv, TypeOK', NEW c \in Caller, NEW r \in Request, NEW k \in Kind, call(c, r, k)
  PROVE  IInv'
  <1> DEFINE m == [type |-> IF k = "query" THEN "Query" ELSE "Admin", req |-> r]
  <1>0. m.req = r /\ m \in Message
    BY Messages DEF Kind
  <1>1. /\ kind[r] = Unasked /\ k # Unasked /\ toClient' = toClient /\ orphans' = orphans
        /\ effect' = effect /\ kind' = [kind EXCEPT ![r] = k] /\ effect[r] = None
    BY DEF call, Ask, Kind, Unasked, IInv, Unstarted
  <1> HIDE DEF m
  <1>2. \A q \in Request : kind'[q] = IF q = r THEN k ELSE kind[q]
    BY <1>1 DEF IInv, TypeOK
  <1>3. \A d \in Caller : \A i \in DOMAIN toServer[d] :
          IsRequest(toServer[d][i]) =>
            toServer[d][i].req # r /\ toServer[d][i].req \in Request
    <2>1. \A d \in Caller : \A i \in DOMAIN toServer[d] : toServer[d][i] \in Message
      BY Queues
    <2>2. Sent
      BY Zenon DEF IInv
    <2> QED
      BY <1>1, <2>1, <2>2, MessageFields DEF Sent, Pending, IsRequest
  <1>4. \A d \in Caller : \A i \in DOMAIN toServer'[d] :
          \/ i \in DOMAIN toServer[d] /\ toServer'[d][i] = toServer[d][i]
          \/ d = c /\ i = Len(toServer[c]) + 1 /\ toServer'[d][i] = m
    <2>2. toServer' = toServer \/ toServer' = [toServer EXCEPT ![c] = Append(@, m)]
      <3>1. toServer' = [toServer EXCEPT ![c] = IF line[c] = "open" THEN Append(@, m) ELSE @]
        BY DEF call, send_frame, m
      <3> QED
        BY <3>1, Queues, Zenon
    <2>3. CASE toServer' = toServer
      BY <2>3
    <2>4. CASE toServer' = [toServer EXCEPT ![c] = Append(@, m)]
      BY <1>0, <2>4, Appended, Queues
    <2> QED
      BY <2>2, <2>3, <2>4
  <1>5. Sent'
    <2> SUFFICES ASSUME NEW d \in Caller, NEW i \in DOMAIN toServer'[d], IsRequest(toServer'[d][i])
                 PROVE  /\ kind'[toServer'[d][i].req] # Unasked /\ effect'[toServer'[d][i].req] = None
                        /\ toServer'[d][i].req \notin orphans'
      BY DEF Sent, IsRequest, Pending
    <2>1. CASE i \in DOMAIN toServer[d] /\ toServer'[d][i] = toServer[d][i]
      <3>1. Sent
        BY Zenon DEF IInv
      <3> QED
        BY <1>1, <1>2, <1>3, <2>1, <3>1 DEF Sent, Pending
    <2>2. CASE toServer'[d][i] = m
      <3>1. Orphaned
        BY Zenon DEF IInv
      <3> QED
        BY <1>0, <1>1, <1>2, <2>2, <3>1 DEF Orphaned, Pending
    <2> QED
      BY <1>4, <2>1, <2>2
  <1>6. Once'
    <2> SUFFICES ASSUME NEW d \in Caller, NEW e \in Caller, NEW i \in DOMAIN toServer'[d],
                        NEW j \in DOMAIN toServer'[e],
                        IsRequest(toServer'[d][i]), IsRequest(toServer'[e][j]),
                        toServer'[d][i].req = toServer'[e][j].req
                 PROVE  d = e /\ i = j
      BY DEF Once, IsRequest
    <2> QED
      <3>1. Once
        BY Zenon DEF IInv
      <3> QED
        BY <1>0, <1>3, <1>4, <3>1 DEF Once
  <1>7. Orphaned'
    BY <1>1, <1>2, Zenon DEF IInv, Orphaned, Pending, TypeOK
  <1>8. Replied' /\ Unstarted'
    BY <1>1, <1>2 DEF IInv, Replied, IsReply, Unstarted
  <1> QED
    BY <1>5, <1>6, <1>7, <1>8 DEF IInv

(* One turn of a client: it reads frames, and sends at most a Pong. *)
LEMMA InvStepOf ==
  ASSUME IInv, TypeOK', NEW c \in Caller, step(c)
  PROVE  IInv'
  <1> DEFINE f == [d \in Caller |-> 0]
  <1>0. f \in [Caller -> Nat] /\ \A d \in Caller : f[d] = 0
    OBVIOUS
  <1> HIDE DEF f
  <1>t. \A d \in Caller : toServer[d] \in Seq(Message) /\ toClient[d] \in Seq(Message)
    BY Queues
  <1>1. CASE pc[c] = "hello" /\ hang_up(c) /\ UNCHANGED absvars
    <2>1. \A d \in Caller : toClient'[d] \in {toClient[d], <<>>}
      BY <1>1, Queues DEF hang_up
    <2> QED
      BY <1>1, <2>1, LeftBehind, Zenon DEF hang_up
  <1>2. ASSUME toClient' = toClient \/ reads(c),
               \/ toServer' = toServer
               \/ toServer' = [toServer EXCEPT ![c] = Append(@, [type |-> "Pong"])],
               kind' = kind, effect' = effect, orphans' = orphans
        PROVE  IInv'
    <2>1. \A d \in Caller : \A i \in DOMAIN toClient'[d] : IsReply(toClient'[d][i]) =>
            \E j \in DOMAIN toClient[d] : toClient'[d][i] = toClient[d][j]
      <3>1. CASE toClient' = toClient
        BY <3>1
      <3>2. CASE reads(c)
        BY <3>2, Queues, Taken DEF reads
      <3> QED
        BY <1>2, <3>1, <3>2
    <2>2. \A d \in Caller : \A i \in DOMAIN toServer'[d] : IsRequest(toServer'[d][i]) =>
            i + f[d] \in DOMAIN toServer[d] /\ toServer'[d][i] = toServer[d][i + f[d]]
      <3>1. CASE toServer' = toServer
        BY <1>0, <1>t, <3>1
      <3>2. CASE toServer' = [toServer EXCEPT ![c] = Append(@, [type |-> "Pong"])]
        <4> DEFINE m == [type |-> "Pong"]
        <4>1. m \in Message /\ ~IsRequest(m)
          BY Messages DEF IsRequest
        <4>2. toServer' = [toServer EXCEPT ![c] = Append(@, m)]
          BY <3>2
        <4> HIDE DEF m
        <4>3. \A d \in Caller : \A i \in DOMAIN toServer'[d] :
                \/ i \in DOMAIN toServer[d] /\ toServer'[d][i] = toServer[d][i]
                \/ toServer'[d][i] = m
          BY <4>1, <4>2, Appended, Queues
        <4>4. \A d \in Caller : \A i \in DOMAIN toServer[d] : i \in Nat
          BY <1>t
        <4> QED
          BY <1>0, <4>1, <4>3, <4>4
      <3> QED
        BY <1>2, <3>1, <3>2
    <2> QED
      BY <1>0, <1>2, <2>1, <2>2, NothingDone
  <1>3. ASSUME send_frame(c, [type |-> "Pong"])
        PROVE  \/ toServer' = toServer
               \/ toServer' = [toServer EXCEPT ![c] = Append(@, [type |-> "Pong"])]
    BY <1>3, Queues, Zenon DEF send_frame
  <1>4. CASE receive_hello_ack(c)
    BY <1>2, <1>4 DEF receive_hello_ack, absvars
  <1>5. CASE receive_query(c)
    BY <1>2, <1>3, <1>5 DEF receive_query, fails, returns, absvars
  <1>6. CASE receive_admin(c)
    BY <1>2, <1>6 DEF receive_admin, fails, returns, absvars
  <1>7. CASE give_up(c)
    BY <1>1, <1>2, <1>7 DEF give_up, fails, absvars
  <1> QED
    BY <1>4, <1>5, <1>6, <1>7 DEF step
(* What carrying out r with the view v does to what is on its way: nothing of r
   stays ahead of the server, and every reply is an old one or the one of r. *)
Carried(r, v, f) ==
  /\ \A d \in Caller : \A i \in DOMAIN toServer'[d] : IsRequest(toServer'[d][i]) =>
       /\ i + f[d] \in DOMAIN toServer[d] /\ toServer'[d][i] = toServer[d][i + f[d]]
       /\ toServer'[d][i].req # r
  /\ \A d \in Caller : \A i \in DOMAIN toClient'[d] : IsReply(toClient'[d][i]) =>
       \/ \E j \in DOMAIN toClient[d] : toClient'[d][i] = toClient[d][j]
       \/ toClient'[d][i].req = r /\ toClient'[d][i].value = [view |-> v]
  /\ orphans' \subseteq orphans \ {r}

(* What carrying out a pending request r leaves of the invariant, where r is in no
   queue afterwards. *)
LEMMA CarriedOut ==
  ASSUME IInv, TypeOK', NEW r \in Request, NEW v, Pending(r), carry_out(r, v),
         NEW f \in [Caller -> Nat], Carried(r, v, f)
  PROVE  IInv'
  <1>s. \A d \in Caller : \A i \in DOMAIN toServer'[d] : IsRequest(toServer'[d][i]) =>
           /\ i + f[d] \in DOMAIN toServer[d] /\ toServer'[d][i] = toServer[d][i + f[d]]
           /\ toServer'[d][i].req # r
    BY Zenon DEF Carried
  <1>c. \A d \in Caller : \A i \in DOMAIN toClient'[d] : IsReply(toClient'[d][i]) =>
          \/ \E j \in DOMAIN toClient[d] : toClient'[d][i] = toClient[d][j]
          \/ toClient'[d][i].req = r /\ toClient'[d][i].value = [view |-> v]
    BY Zenon DEF Carried
  <1>o. orphans' \subseteq orphans \ {r}
    BY Zenon DEF Carried
  <1>t. /\ toServer' \in [Caller -> Seq(Message)] /\ toClient' \in [Caller -> Seq(Message)]
    BY Zenon DEF TypeOK
  <1>1. /\ kind' = kind /\ effect'[r] = [view |-> v] /\ kind[r] # Unasked
        /\ \A q \in Request : q # r => effect'[q] = effect[q]
    BY Zenon DEF IInv, TypeOK, carry_out, Pending
  <1>2. Once'
    BY <1>s, ShiftedOnce, Zenon DEF IInv
  <1>3. Sent'
    <2> SUFFICES ASSUME NEW d \in Caller, NEW i \in DOMAIN toServer'[d], IsRequest(toServer'[d][i])
                 PROVE  /\ kind'[toServer'[d][i].req] # Unasked /\ effect'[toServer'[d][i].req] = None
                        /\ toServer'[d][i].req \notin orphans'
      BY Zenon DEF Sent, IsRequest, Pending
    <2>1. toServer'[d][i].req \in Request
      <3>1. toServer'[d][i] \in Message
        BY <1>t
      <3> QED
        BY <3>1, MessageFields, Zenon DEF IsRequest
    <2>2. Sent
      BY Zenon DEF IInv
    <2> QED
      BY <1>1, <1>o, <1>s, <2>1, <2>2 DEF Sent, Pending
  <1>4. Replied'
    <2> SUFFICES ASSUME NEW d \in Caller, NEW i \in DOMAIN toClient'[d], IsReply(toClient'[d][i])
                 PROVE  effect'[toClient'[d][i].req] = toClient'[d][i].value
      BY DEF Replied, IsReply
    <2>1. CASE toClient'[d][i].req = r /\ toClient'[d][i].value = [view |-> v]
      BY <1>1, <2>1, Zenon
    <2>2. ASSUME NEW j \in DOMAIN toClient[d], toClient'[d][i] = toClient[d][j]
          PROVE  effect'[toClient'[d][i].req] = toClient'[d][i].value
      <3>1. toClient'[d][i] \in Message
        BY <1>t
      <3>2. toClient'[d][i].req \in Request /\ toClient'[d][i].value \in Value
        BY <3>1, MessageFields, Zenon DEF IsReply
      <3>0. Replied
        BY Zenon DEF IInv
      <3>3. effect[toClient'[d][i].req] = toClient'[d][i].value
        BY <2>2, <3>0 DEF Replied
      <3>4. toClient'[d][i].value # None
        BY <3>2, ValueNotNone, Zenon DEF Value
      <3> QED
        BY <1>1, <3>2, <3>3, <3>4 DEF Pending
    <2> QED
      BY <1>c, <2>1, <2>2, Zenon
  <1>5. Orphaned'
    BY <1>1, <1>o, Zenon DEF IInv, Orphaned, Pending, TypeOK
  <1>6. Unstarted'
    BY <1>1, Zenon DEF IInv, Unstarted
  <1> QED
    BY <1>2, <1>3, <1>4, <1>5, <1>6, Zenon DEF IInv

(* The server carrying out a request at most once keeps IInv.                *)
LEMMA InvHandle ==
  ASSUME IInv, TypeOK', NEW c \in Caller, handle_message(c)
  PROVE  IInv'
  <1> DEFINE h == Head(toServer[c])
             f == [d \in Caller |-> IF d = c THEN 1 ELSE 0]
  <1>0. f \in [Caller -> Nat] /\ f[c] = 1 /\ \A d \in Caller : d # c => f[d] = 0
    BY SMTT(30)
  <1>1. /\ TypeOK /\ toServer[c] # <<>> /\ h \in Message /\ orphans' = orphans
        /\ h = toServer[c][1] /\ 1 \in DOMAIN toServer[c]
    BY HandleCases, QueueFacts, Zenon DEF IInv, TypeOK
  <1>2. \/ toClient' = toClient /\ toServer' = [toServer EXCEPT ![c] = Tail(@)] /\ UNCHANGED absvars
        \/ \E t \in {"HelloAck", "Error"} : replies(c, [type |-> t]) /\ UNCHANGED absvars
        \/ /\ h.type \in {"Query", "Admin"} /\ h.req \in Request
           /\ \E t \in {"QueryResult", "AdminResult"}, v \in {view, view + 1} :
                /\ carry_out(h.req, v)
                /\ replies(c, [type |-> t, req |-> h.req, value |-> [view |-> v]])
    BY <1>1, HandleCases, Zenon
  <1>3. toServer' = [toServer EXCEPT ![c] = Tail(@)]
    BY <1>2 DEF replies
  <1> HIDE DEF f, h
  <1>4. \A d \in Caller : \A i \in DOMAIN toServer'[d] : i \in Nat /\
           i + f[d] \in DOMAIN toServer[d] /\ toServer'[d][i] = toServer[d][i + f[d]]
    <2>1. \A d \in Caller : \A i \in DOMAIN toServer'[d] :
             /\ i \in Nat
             /\ d # c => i \in DOMAIN toServer[d] /\ toServer'[d][i] = toServer[d][i]
             /\ d = c => i + 1 \in DOMAIN toServer[d] /\ toServer'[d][i] = toServer[d][i + 1]
      BY <1>1, <1>3, Queues, Taken
    <2> QED
      BY <1>0, <2>1
  <1>5. ASSUME NEW m \in Message, toClient' = [toClient EXCEPT ![c] = Append(@, m)]
        PROVE  \A d \in Caller : \A i \in DOMAIN toClient'[d] :
                 \/ \E j \in DOMAIN toClient[d] : toClient'[d][i] = toClient[d][j]
                 \/ toClient'[d][i] = m
    BY <1>5, Appended, Queues
  <1>6. CASE toClient' = toClient /\ UNCHANGED absvars
    <2>1. \A d \in Caller : \A i \in DOMAIN toClient'[d] : IsReply(toClient'[d][i]) =>
            \E j \in DOMAIN toClient[d] : toClient'[d][i] = toClient[d][j]
      BY <1>6
    <2> QED
      BY <1>0, <1>1, <1>4, <1>6, <2>1, NothingDone, Zenon DEF absvars
  <1>7. ASSUME NEW t \in {"HelloAck", "Error"}, replies(c, [type |-> t]), UNCHANGED absvars
        PROVE  IInv'
    <2> DEFINE m == [type |-> t]
    <2>1. m \in Message /\ ~IsReply(m) /\ toClient' = [toClient EXCEPT ![c] = Append(@, m)]
      BY <1>7, Messages DEF IsReply, replies
    <2> HIDE DEF m
    <2>2. \A d \in Caller : \A i \in DOMAIN toClient'[d] : IsReply(toClient'[d][i]) =>
            \E j \in DOMAIN toClient[d] : toClient'[d][i] = toClient[d][j]
      BY <1>5, <2>1
    <2> QED
      BY <1>0, <1>1, <1>4, <1>7, <2>2, NothingDone DEF absvars
  <1>8. ASSUME NEW t \in {"QueryResult", "AdminResult"}, NEW v \in {view, view + 1},
               h.type \in {"Query", "Admin"}, h.req \in Request, carry_out(h.req, v),
               replies(c, [type |-> t, req |-> h.req, value |-> [view |-> v]])
        PROVE  IInv'
    <2> DEFINE m == [type |-> t, req |-> h.req, value |-> [view |-> v]]
               r == h.req
    <2>1. v \in Nat
      <3>1. view \in Nat
        BY <1>1, Zenon DEF TypeOK
      <3> QED
        BY <3>1
    <2>2. m \in Message /\ m.req = r /\ m.value = [view |-> v]
      BY <1>8, <2>1, Messages
    <2>3. toClient' = [toClient EXCEPT ![c] = Append(@, m)]
      BY <1>8, Zenon DEF replies
    <2> HIDE DEF m
    <2>4. \A d \in Caller : \A i \in DOMAIN toClient'[d] : IsReply(toClient'[d][i]) =>
           \/ \E j \in DOMAIN toClient[d] : toClient'[d][i] = toClient[d][j]
           \/ toClient'[d][i].req = r /\ toClient'[d][i].value = [view |-> v]
      BY <1>5, <2>2, <2>3
    <2>5. Pending(r) /\ r \notin orphans
      <3>1. Sent
        BY Zenon DEF IInv
      <3> QED
        BY <1>1, <1>8, <3>1 DEF Sent, IsRequest
    <2>6. \A d \in Caller : \A i \in DOMAIN toServer'[d] : IsRequest(toServer'[d][i]) =>
            toServer'[d][i].req # r
      <3> SUFFICES ASSUME NEW d \in Caller, NEW i \in DOMAIN toServer'[d],
                          IsRequest(toServer'[d][i]), toServer'[d][i].req = r
                   PROVE  FALSE
        OBVIOUS
      <3>1. d = c /\ i + f[d] = 1
        <4>1. Once
          BY Zenon DEF IInv
        <4> QED
          BY <1>1, <1>4, <1>8, <4>1 DEF Once, IsRequest
      <3>2. i \in DOMAIN toServer'[d] /\ toServer'[d] \in Seq(Message)
        BY Zenon DEF TypeOK
      <3> QED
        BY <1>0, <3>1, <3>2
    <2> QED
      <3> HIDE DEF r
      <3>1. r \in Request /\ carry_out(r, v)
        BY <1>8 DEF r
      <3>2. orphans' \subseteq orphans \ {r}
        BY <1>1, <2>5
      <3> QED
        <4>1. Carried(r, v, f)
          BY <1>4, <2>4, <2>6, <3>2 DEF Carried
        <4> QED
          BY <1>0, <2>5, <3>1, <4>1, CarriedOut, Zenon
  <1> QED
    BY <1>2, <1>6, <1>7, <1>8

(* A request carried out after its caller gave up keeps IInv.                *)
LEMMA InvOrphan ==
  ASSUME IInv, TypeOK', NEW r \in Request, handle_orphan(r)
  PROVE  IInv'
  <1> DEFINE f == [d \in Caller |-> 0]
  <1>0. f \in [Caller -> Nat] /\ \A d \in Caller : f[d] = 0
    OBVIOUS
  <1> HIDE DEF f
  <1>1. PICK v \in {view, view + 1} : carry_out(r, v)
    BY DEF handle_orphan
  <1>2. /\ toServer' = toServer /\ toClient' = toClient /\ r \in orphans
        /\ orphans' = orphans \ {r} /\ Pending(r)
    BY DEF handle_orphan, IInv, Orphaned
  <1>3. \A d \in Caller : \A i \in DOMAIN toServer[d] : i \in Nat
    BY Queues
  <1>4. \A d \in Caller : \A i \in DOMAIN toServer'[d] : IsRequest(toServer'[d][i]) =>
           /\ i + f[d] \in DOMAIN toServer[d] /\ toServer'[d][i] = toServer[d][i + f[d]]
           /\ toServer'[d][i].req # r
    <2>1. Sent
      BY Zenon DEF IInv
    <2> QED
      BY <1>0, <1>2, <1>3, <2>1 DEF Sent
  <1>5. \A d \in Caller : \A i \in DOMAIN toClient'[d] : IsReply(toClient'[d][i]) =>
           \/ \E j \in DOMAIN toClient[d] : toClient'[d][i] = toClient[d][j]
           \/ toClient'[d][i].req = r /\ toClient'[d][i].value = [view |-> v]
    BY <1>2
  <1> QED
    <2>1. Carried(r, v, f)
      BY <1>2, <1>4, <1>5 DEF Carried
    <2> QED
      BY <1>0, <1>1, <1>2, <2>1, CarriedOut
(* Every step keeps IInv.                                                    *)
LEMMA InvNext == IInv /\ [Next]_vars => IInv'
  <1> SUFFICES ASSUME IInv, [Next]_vars PROVE IInv'
    OBVIOUS
  <1> DEFINE f == [d \in Caller |-> 0]
  <1>0. f \in [Caller -> Nat] /\ \A d \in Caller : f[d] = 0
    OBVIOUS
  <1> HIDE DEF f
  <1>t. TypeOK'
    BY TypeNext DEF IInv
  <1>i. \A d \in Caller : \A i \in DOMAIN toServer[d] : i \in Nat
    BY Queues
  <1>1. ASSUME UNCHANGED absvars, orphans' \subseteq orphans,
               \A d \in Caller : \A i \in DOMAIN toServer'[d] : IsRequest(toServer'[d][i]) =>
                 i \in DOMAIN toServer[d] /\ toServer'[d][i] = toServer[d][i],
               \A d \in Caller : \A i \in DOMAIN toClient'[d] : IsReply(toClient'[d][i]) =>
                 i \in DOMAIN toClient[d] /\ toClient'[d][i] = toClient[d][i]
        PROVE  IInv'
    <2>1. \A d \in Caller : \A i \in DOMAIN toServer'[d] : IsRequest(toServer'[d][i]) =>
            i + f[d] \in DOMAIN toServer[d] /\ toServer'[d][i] = toServer[d][i + f[d]]
      BY <1>0, <1>1, <1>i
    <2>2. kind' = kind /\ effect' = effect
      BY <1>1, Zenon DEF absvars
    <2> QED
      BY <1>0, <1>1, <1>t, <2>1, <2>2, NothingDone
  <1>2. ASSUME NEW c \in Caller, connect(c) PROVE IInv'
    <2> DEFINE m == [type |-> "Hello"]
    <2>1. ~IsRequest(m)
      BY DEF IsRequest
    <2>2. \A d \in Caller : toServer'[d] = IF d = c THEN <<m>> ELSE toServer[d]
      BY <1>2, Queues DEF connect
    <2> HIDE DEF m
    <2>3. \A i \in DOMAIN <<m>> : <<m>>[i] = m
      OBVIOUS
    <2>4. \A d \in Caller : \A i \in DOMAIN toServer'[d] : IsRequest(toServer'[d][i]) =>
            i \in DOMAIN toServer[d] /\ toServer'[d][i] = toServer[d][i]
      BY <2>1, <2>2, <2>3
    <2>5. \A d \in Caller : toClient'[d] \in {toClient[d], <<>>}
      BY <1>2, Queues DEF connect
    <2> QED
      BY <1>1, <1>2, <2>4, <2>5 DEF connect
  <1>3. ASSUME NEW c \in Caller, close(c) PROVE IInv'
    <2>1. \A d \in Caller : toClient'[d] \in {toClient[d], <<>>}
      BY <1>3 DEF close, hang_up, IInv, TypeOK
    <2> QED
      BY <1>3, <1>t, <2>1, LeftBehind, Zenon DEF close, hang_up
  <1>4. ASSUME NEW c \in Caller, NEW r \in Request, NEW k \in Kind, call(c, r, k) PROVE IInv'
    BY <1>4, <1>t, InvCall
  <1>5. ASSUME NEW c \in Caller, step(c) PROVE IInv'
    BY <1>5, <1>t, InvStepOf
  <1>6. ASSUME NEW c \in Caller, handle_message(c) PROVE IInv'
    BY <1>6, <1>t, InvHandle
  <1>7. ASSUME NEW c \in Caller, speak(c) PROVE IInv'
    <2>1. PICK t \in {"Ping", "Other"} : toClient' = [toClient EXCEPT ![c] = Append(@, [type |-> t])]
      BY <1>7, Zenon DEF speak
    <2> DEFINE m == [type |-> t]
    <2>2. m \in Message /\ ~IsReply(m)
      BY Messages DEF IsReply
    <2>3. toClient' = [toClient EXCEPT ![c] = Append(@, m)]
      BY <2>1, Zenon
    <2> HIDE DEF m
    <2>4. \A d \in Caller : \A i \in DOMAIN toClient'[d] : IsReply(toClient'[d][i]) =>
            i \in DOMAIN toClient[d] /\ toClient'[d][i] = toClient[d][i]
      BY <2>2, <2>3, Appended, Queues
    <2> QED
      BY <1>1, <1>7, <2>4, Zenon DEF speak
  <1>8. ASSUME NEW c \in Caller, break(c) PROVE IInv'
    <2>1. \A d \in Caller : toClient'[d] \in {toClient[d], <<>>}
      BY <1>8, Queues DEF break
    <2>2. /\ UNCHANGED absvars /\ orphans' = orphans \cup requests(c)
          /\ toServer' = [toServer EXCEPT ![c] = <<>>]
      BY <1>8, Zenon DEF break
    <2> QED
      BY <1>t, <2>1, <2>2, LeftBehind, Zenon
  <1>9. ASSUME NEW r \in Request, handle_orphan(r) PROVE IInv'
    BY <1>9, <1>t, InvOrphan
  <1>10. CASE crash
    <2>1. \A d \in Caller : toServer'[d] = <<>> /\ toClient'[d] \in {toClient[d], <<>>}
      BY <1>10 DEF crash
    <2>2. UNCHANGED absvars /\ orphans' \subseteq orphans
      BY <1>10, Zenon DEF crash
    <2> QED
      BY <1>1, <2>1, <2>2
  <1>11. CASE start
    BY <1>1, <1>11 DEF start
  <1>12. CASE UNCHANGED vars
    BY <1>1, <1>12 DEF vars, clientVars
  <1> QED
    BY <1>2, <1>3, <1>4, <1>5, <1>6, <1>7, <1>8, <1>9, <1>10, <1>11, <1>12 DEF Next

----------------------------------------------------------------------------
(***************************************************************************)
(* The refinement: the variables of Requests are variables of the client,  *)
(* and every step is a step of Requests or leaves them alone.              *)
(***************************************************************************)

(* A call that ends returns nothing, or what its request did. *)
LEMMA EndsReturn ==
  ASSUME IInv, NEW c \in Caller, pc[c] \in Waiting,
         \/ fails(c)
         \/ reads(c) /\ IsReply(Head(toClient[c])) /\ own_reply(c, Head(toClient[c]))
            /\ returns(c, Head(toClient[c]))
  PROVE  Return(c)
  <1>1. asked[c] # NoRequest
    BY DEF IInv, TypeOK
  <1>2. CASE fails(c)
    BY <1>1, <1>2, Zenon DEF fails, Return
  <1>3. CASE reads(c) /\ IsReply(Head(toClient[c])) /\ own_reply(c, Head(toClient[c]))
             /\ returns(c, Head(toClient[c]))
    <2> DEFINE m == Head(toClient[c])
    <2>1. m \in Message /\ m = toClient[c][1] /\ 1 \in DOMAIN toClient[c]
      BY <1>3, QueueFacts, Queues, Zenon DEF reads
    <2>2. effect[asked[c]] = m.value
      <3>1. Replied
        BY Zenon DEF IInv
      <3> QED
        BY <1>3, <2>1, <3>1 DEF Replied, own_reply
    <2>3. m.value # None
      BY <1>3, <2>1, MessageFields, ValueNotNone, Zenon DEF IsReply, Value
    <2> HIDE DEF m
    <2> QED
      BY <1>1, <1>3, <2>2, <2>3, Zenon DEF returns, Return, m
  <1> QED
    BY <1>2, <1>3, Zenon

(* A pending request that is carried out takes effect. *)
LEMMA CarryOutTakesEffect ==
  ASSUME NEW r \in Request, NEW v \in {view, view + 1}, Pending(r), carry_out(r, v)
  PROVE  Happens
  BY Zenon DEF Pending, carry_out, TakeEffect, Happens

(* Every step of the client and the server is one of Requests, or stutters.  *)
LEMMA StepHappens == IInv /\ [Next]_vars => [Happens]_absvars
  <1> SUFFICES ASSUME IInv, [Next]_vars PROVE Happens \/ UNCHANGED absvars
    OBVIOUS
  <1>1. ASSUME NEW c \in Caller, NEW r \in Request, NEW k \in Kind, call(c, r, k) PROVE Happens
    BY <1>1 DEF call, Happens
  <1>2. ASSUME NEW c \in Caller, step(c) PROVE Happens \/ UNCHANGED absvars
    <2>1. CASE receive_hello_ack(c)
      BY <2>1 DEF receive_hello_ack
    <2>2. CASE receive_query(c)
      <3>1. pc[c] \in Waiting /\ reads(c)
        BY <2>2 DEF receive_query, Waiting
      <3>2. UNCHANGED absvars \/ Return(c)
        BY <2>2, <3>1, EndsReturn DEF receive_query, IsReply
      <3> QED
        BY <3>2 DEF Happens
    <2>3. CASE receive_admin(c)
      <3>1. pc[c] \in Waiting /\ reads(c)
        BY <2>3 DEF receive_admin, Waiting
      <3>2. UNCHANGED absvars \/ Return(c)
        BY <2>3, <3>1, EndsReturn DEF receive_admin, IsReply
      <3> QED
        BY <3>2 DEF Happens
    <2>4. CASE give_up(c)
      <3>1. UNCHANGED absvars \/ Return(c)
        BY <2>4, EndsReturn DEF give_up
      <3> QED
        BY <3>1 DEF Happens
    <2> QED
      BY <1>2, <2>1, <2>2, <2>3, <2>4 DEF step
  <1>3. ASSUME NEW c \in Caller, handle_message(c) PROVE Happens \/ UNCHANGED absvars
    <2> DEFINE h == Head(toServer[c])
    <2>1. /\ toServer[c] # <<>>
          /\ \/ UNCHANGED absvars
             \/ h.type \in {"Query", "Admin"} /\ h.req \in Request
                /\ \E v \in {view, view + 1} : carry_out(h.req, v)
      BY <1>3, HandleCases, Zenon DEF IInv
    <2>2. h = toServer[c][1] /\ 1 \in DOMAIN toServer[c]
      BY <2>1, QueueFacts DEF IInv, TypeOK
    <2>3. h.type \in {"Query", "Admin"} => Pending(h.req)
      BY <2>2 DEF IInv, Sent, IsRequest
    <2> HIDE DEF h
    <2> QED
      BY <2>1, <2>3, CarryOutTakesEffect
  <1>4. ASSUME NEW r \in Request, handle_orphan(r) PROVE Happens
    BY <1>4, CarryOutTakesEffect DEF handle_orphan, IInv, Orphaned
  <1> QED
    BY <1>1, <1>2, <1>3, <1>4
       DEF Next, connect, close, speak, break, crash, start, vars, absvars

(* A step of Requests is a step of the instance of Requests that is promised. *)
LEMMA SameRequests ==
  /\ Begin => Promise!Begin
  /\ [Happens]_absvars => [Promise!Happens]_(Promise!absvars)
  BY Zenon DEF Begin, Promise!Begin, Happens, Promise!Happens, absvars, Promise!absvars,
         Ask, Promise!Ask, TakeEffect, Promise!TakeEffect, Return, Promise!Return,
         None, Promise!None, NoRequest, Promise!NoRequest, Kind, Promise!Kind,
         Unasked, Promise!Unasked

(* The client, the connection and the server keep the promise of Requests, for any
   number of callers, requests and faults: a request takes effect at most once and
   not before it is asked, and a call returns the effect of its own request or
   nothing (Client::query, Client::admin, Coordinator::on_admin). *)
THEOREM ClientImplementsRequests == Spec => ImplementsRequests
  <1>1. Init => Promise!Begin
    BY SameRequests DEF Init
  <1>2. IInv /\ [Next]_vars => [Promise!Happens]_(Promise!absvars)
    BY StepHappens, SameRequests
  <1> QED
    BY <1>1, <1>2, InvInit, InvNext, PTL DEF Spec, ImplementsRequests, Promise!Contract

(* The variables of the client keep their types. *)
THEOREM ClientTyped == Spec => []TypeOK
  BY TypeInit, TypeNext, PTL DEF Spec
----------------------------------------------------------------------------
(* What happens happens in order: after its request was asked, and before now. *)
Timely ==
  /\ \A r \in Request : since[r] <= view
  /\ \A r \in Request : effect[r] # None =>
       kind[r] # Unasked /\ since[r] <= effect[r].view /\ effect[r].view <= view
  /\ \A c \in Caller : answer[c] # None =>
       effect[answer[c].req] # None /\ effect[answer[c].req] = answer[c].value

(* Nothing has happened in the initial states.                               *)
LEMMA TimelyInit == Init => Timely
  BY DEF Init, Begin, Timely

(* The order of the views of the answers is transitive.                      *)
LEMMA AtMostOn ==
  ASSUME NEW x \in Nat, NEW y \in Nat, NEW z \in Nat, x <= y, y <= z
  PROVE  x <= z
  OBVIOUS

(* Every step of Requests keeps what happens in order.                       *)
LEMMA TimelyStep ==
  ASSUME TypeOK, TypeOK', Timely, [Happens]_absvars
  PROVE  Timely'
  <1>0. \A c \in Caller : answer[c] # None => answer[c].req \in Request
    BY Zenon DEF TypeOK
  <1>1. ASSUME NEW c \in Caller, NEW r \in Request, NEW k \in Kind, Ask(c, r, k)
        PROVE  Timely'
    <2>1. /\ effect[r] = None /\ effect' = effect /\ view' = view /\ answer' = answer
          /\ \A q \in Request : since'[q] = IF q = r THEN view ELSE since[q]
          /\ \A q \in Request : q # r => kind'[q] = kind[q]
      BY <1>1, Zenon DEF Ask, Timely, TypeOK
    <2>2. \A q \in Request : since'[q] <= view'
      <3>1. view \in Nat /\ view <= view
        <4>1. view \in Nat
          BY Zenon DEF TypeOK
        <4> QED
          BY <4>1
      <3> QED
        BY <2>1, <3>1 DEF Timely
    <2>3. \A q \in Request : effect'[q] # None =>
            kind'[q] # Unasked /\ since'[q] <= effect'[q].view /\ effect'[q].view <= view'
      <3> SUFFICES ASSUME NEW q \in Request, effect'[q] # None
                   PROVE  kind'[q] # Unasked /\ since'[q] <= effect'[q].view /\ effect'[q].view <= view'
        OBVIOUS
      <3>1. q # r /\ effect'[q] = effect[q]
        BY <2>1
      <3> QED
        BY <2>1, <3>1, Zenon DEF Timely
    <2> QED
      BY <2>1, <2>2, <2>3, Zenon DEF Timely
  <1>2. ASSUME NEW r \in Request, NEW v \in {view, view + 1}, TakeEffect(r, v)
        PROVE  Timely'
    <2>1. /\ effect[r] = None /\ kind[r] # Unasked /\ view' = v /\ v \in Nat /\ view <= v
          /\ kind' = kind /\ since' = since /\ answer' = answer
          /\ effect'[r] = [view |-> v] /\ effect'[r].view = v
          /\ \A q \in Request : q # r => effect'[q] = effect[q]
      <3>1. view \in Nat /\ effect \in [Request -> Value \cup {None}]
        BY Zenon DEF TypeOK
      <3> QED
        BY <1>2, <3>1 DEF TakeEffect
    <2>6. view \in Nat /\ v \in Nat /\ view <= v
      BY <2>1, Zenon DEF TypeOK
    <2>2. \A q \in Request : since'[q] <= view'
      <3> SUFFICES ASSUME NEW q \in Request PROVE since'[q] <= view'
        OBVIOUS
      <3>1. since[q] \in Nat /\ since[q] <= view
        BY Zenon DEF Timely, TypeOK
      <3>2. since[q] <= v
        BY <2>6, <3>1, AtMostOn
      <3> QED
        BY <2>1, <3>2
    <2>3. \A q \in Request : effect[q] # None => effect[q].view \in Nat
      BY Zenon DEF TypeOK, Value
    <2>4. \A q \in Request : effect'[q] # None =>
            kind'[q] # Unasked /\ since'[q] <= effect'[q].view /\ effect'[q].view <= view'
      <3> SUFFICES ASSUME NEW q \in Request, effect'[q] # None
                   PROVE  kind'[q] # Unasked /\ since'[q] <= effect'[q].view /\ effect'[q].view <= view'
        OBVIOUS
      <3>1. CASE q = r
        BY <2>1, <2>2, <3>1
      <3>2. CASE q # r
        <4>1. effect'[q] = effect[q] /\ effect[q].view \in Nat /\ effect[q].view <= view
          BY <2>1, <2>3, <3>2 DEF Timely
        <4>2. effect[q].view <= v
          BY <2>6, <4>1, AtMostOn
        <4> QED
          BY <2>1, <4>1, <4>2 DEF Timely
      <3> QED
        BY <3>1, <3>2
    <2>5. \A c \in Caller : answer'[c] # None =>
            effect'[answer'[c].req] # None /\ effect'[answer'[c].req] = answer'[c].value
      BY <1>0, <2>1 DEF Timely
    <2> QED
      BY <2>2, <2>4, <2>5, Zenon DEF Timely
  <1>3. ASSUME NEW c \in Caller, Return(c)
        PROVE  Timely'
    <2>1. view' = view /\ kind' = kind /\ since' = since /\ effect' = effect
      BY <1>3 DEF Return
    <2>2. \A d \in Caller : answer'[d] # None =>
            effect[answer'[d].req] # None /\ effect[answer'[d].req] = answer'[d].value
      <3>1. CASE answer' = [answer EXCEPT ![c] = None]
        BY <3>1, Zenon DEF Timely, TypeOK
      <3>2. CASE /\ effect[asked[c]] # None
                 /\ answer' = [answer EXCEPT ![c] = [req |-> asked[c], value |-> effect[asked[c]]]]
        <4>1. answer'[c].req = asked[c] /\ answer'[c].value = effect[asked[c]]
          BY <3>2, Zenon DEF TypeOK
        <4>2. \A d \in Caller : d # c => answer'[d] = answer[d]
          BY <3>2, Zenon DEF TypeOK
        <4> QED
          BY <3>2, <4>1, <4>2, Zenon DEF Timely
      <3> QED
        BY <1>3, <3>1, <3>2 DEF Return
    <2> QED
      BY <2>1, <2>2 DEF Timely
  <1>4. CASE UNCHANGED absvars
    BY <1>4 DEF absvars, Timely
  <1> QED
    BY <1>1, <1>2, <1>3, <1>4 DEF Happens

(* What a call returned is the effect of its own request, found or done after the
   call began, for any number of callers, requests and faults (Client::query,
   Client::admin: the comparison of request identities). *)
THEOREM ClientFresh == Spec => []Fresh
  <1>1. IInv /\ IInv' /\ Timely /\ [Next]_vars => Timely'
    BY StepHappens, TimelyStep DEF IInv
  <1>2. IInv /\ Timely => Fresh
    <2> SUFFICES ASSUME IInv, Timely, NEW c \in Caller, answer[c] # None
                 PROVE  /\ effect[answer[c].req] = answer[c].value
                        /\ since[answer[c].req] <= answer[c].value.view
                        /\ answer[c].value.view <= view
      BY DEF Fresh
    <2>1. answer[c].req \in Request
      BY DEF IInv, TypeOK
    <2> QED
      BY <2>1 DEF Timely
  <1> QED
    BY <1>1, <1>2, InvInit, InvNext, TimelyInit, PTL DEF Spec
=============================================================================
