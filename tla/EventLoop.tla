------------------------------ MODULE EventLoop ------------------------------
(***************************************************************************)
(* The event loop every process runs on: it accepts connections, reads     *)
(* bytes into a frame parser, hands whole frames to a handler, sends what  *)
(* handlers queued, fires timers, and reports and erases the connections   *)
(* that were closed.  One iteration is timers, sweep, poll, then the       *)
(* listener and the polled connections in the order of their ids; peers    *)
(* act at any time in between.                                             *)
(*                                                                         *)
(* The bytes of a connection are counted, not stored: a frame is FrameSize *)
(* units, so a unit can be in flight, in the parser, or in a frame that    *)
(* was handled.                                                            *)
(***************************************************************************)
EXTENDS Integers, FiniteSetsExt

CONSTANTS
  MaxConn,                 \* connections that are ever dialled
  max_connections,         \* how many of them the loop keeps
  FrameSize,               \* units in a frame
  kReadChunk,              \* units one receive takes at most
  ParserBound,             \* units the parser holds at most
  kMaxFramesPerIteration,  \* frames handed to the handler in one iteration
  max_pending_frames,      \* frames in the outbound queue
  Window,                  \* frames the kernel takes before the peer reads
  MaxSent,                 \* units the peers send, together
  MaxTimer                 \* timer callbacks that do something

ASSUME EventLoopAssumption ==
  /\ MaxConn \in Nat /\ max_connections \in Nat
  /\ FrameSize \in Nat \ {0} /\ kReadChunk \in Nat \ {0}
  /\ ParserBound \in Nat /\ ParserBound >= FrameSize
  /\ kMaxFramesPerIteration \in Nat \ {0}
  /\ max_pending_frames \in Nat \ {0} /\ Window \in Nat \ {0}
  /\ MaxSent \in Nat /\ MaxTimer \in Nat

Conn == 1..MaxConn

(* Where a connection is: not dialled, waiting to be accepted, refused by the
   loop, in the loop's map (open, or closed and not yet erased), or gone. *)
Stage == {"none", "backlog", "refused", "open", "closed", "erased"}

VARIABLES
  stage,
  ended,      \* how the peer ended the stream: "no", "eof" or "reset"
  sent,       \* units the peer has sent that reach this side
  received,   \* units read into the parser
  handled,    \* frames handed to the handler
  queue,      \* frames in the outbound queue
  window,     \* frames sent that the peer has not read
  reported,   \* how often the close handler ran
  idle,       \* connections silent for longer than the idle deadline
  dropped,    \* history: connections this side gave up itself
  phase,      \* what the loop does next
  items,      \* what the last poll said of each connection still to be served
  pending_erase,
  timers      \* timer callbacks so far

peerVars == <<ended, sent, window>>
vars == <<stage, ended, sent, received, handled, queue, window, reported, idle, dropped,
          phase, items, pending_erase, timers>>

Item == [readable : BOOLEAN, writable : BOOLEAN, failed : BOOLEAN]
NoItem == [readable |-> FALSE, writable |-> FALSE, failed |-> FALSE]

Init ==
  /\ stage = [c \in Conn |-> "none"]
  /\ ended = [c \in Conn |-> "no"]
  /\ sent = [c \in Conn |-> 0]
  /\ received = [c \in Conn |-> 0]
  /\ handled = [c \in Conn |-> 0]
  /\ queue = [c \in Conn |-> 0]
  /\ window = [c \in Conn |-> 0]
  /\ reported = [c \in Conn |-> 0]
  /\ idle = {}
  /\ dropped = {}
  /\ phase = "timers"
  /\ items = [c \in Conn |-> NoItem]
  /\ pending_erase = {}
  /\ timers = 0

TypeOK ==
  /\ stage \in [Conn -> Stage]
  /\ ended \in [Conn -> {"no", "eof", "reset"}]
  /\ sent \in [Conn -> Nat]
  /\ received \in [Conn -> Nat]
  /\ handled \in [Conn -> Nat]
  /\ \A c \in Conn : received[c] - handled[c] * FrameSize \in 0..ParserBound
  /\ queue \in [Conn -> 0..max_pending_frames]
  /\ window \in [Conn -> 0..Window]
  /\ reported \in [Conn -> Nat]
  /\ idle \subseteq Conn /\ dropped \subseteq Conn
  /\ phase \in {"timers", "sweep", "poll", "accept", "serve"}
  /\ items \in [Conn -> Item]
  /\ pending_erase \subseteq Conn
  /\ timers \in 0..MaxTimer

connections == {c \in Conn : stage[c] \in {"open", "closed"}}

(* Fault: closed connections are not looked for. *)
closed_unseen == {}

closed == {c \in Conn : stage[c] = "closed"}
first(S) == CHOOSE c \in S : \A d \in S : c <= d
least(a, b) == IF a < b THEN a ELSE b

----------------------------------------------------------------------------
(* The peers and the network. *)
dial(c) ==
  /\ stage[c] = "none" /\ \A d \in Conn : d < c => stage[d] # "none"
  /\ stage' = [stage EXCEPT ![c] = "backlog"]
  /\ UNCHANGED <<ended, sent, received, handled, queue, window, reported, idle, dropped,
                 phase, items, pending_erase, timers>>

(* All peers together send at most MaxSent. *)
peer_sends(c) ==
  /\ stage[c] \in {"backlog", "open"} /\ ended[c] = "no"
  /\ \E units \in 1..(MaxSent - MapThenSumSet(LAMBDA d : sent[d], Conn)) :
       sent' = [sent EXCEPT ![c] = @ + units]
  /\ UNCHANGED <<stage, ended, received, handled, queue, window, reported, idle, dropped,
                 phase, items, pending_erase, timers>>

peer_reads(c) ==
  /\ window[c] > 0
  /\ window' = [window EXCEPT ![c] = 0]
  /\ UNCHANGED <<stage, ended, sent, received, handled, queue, reported, idle, dropped,
                 phase, items, pending_erase, timers>>

(* A peer closes after what it sent; a reset loses what was not read yet. *)
peer_ends(c) ==
  /\ stage[c] \in {"backlog", "open"} /\ ended[c] = "no"
  /\ \/ ended' = [ended EXCEPT ![c] = "eof"] /\ UNCHANGED sent
     \/ /\ ended' = [ended EXCEPT ![c] = "reset"]
        /\ \E units \in received[c]..sent[c] : sent' = [sent EXCEPT ![c] = units]
  /\ UNCHANGED <<stage, received, handled, queue, window, reported, idle, dropped,
                 phase, items, pending_erase, timers>>

----------------------------------------------------------------------------
(* Connection::close marks the connection and drops its queue. *)
close(S) ==
  /\ stage' = [c \in Conn |-> IF c \in S THEN "closed" ELSE stage[c]]
  /\ queue' = [c \in Conn |-> IF c \in S THEN 0 ELSE queue[c]]

(* Fault: the queue takes one frame too many. *)
queue_room_one_over(c) == queue[c] <= max_pending_frames

(* queue_frame refuses a frame when the queue is full. *)
queue_room(c) == queue[c] < max_pending_frames

(* Due timers run before anything else: a tick queues frames where there is
   room, a handshake deadline closes its connection. *)
fire_due_timers ==
  /\ phase = "timers"
  /\ phase' = "sweep"
  /\ \/ UNCHANGED <<stage, queue, dropped, timers>>
     \/ /\ timers < MaxTimer /\ timers' = timers + 1
        /\ \E c \in Conn :
             /\ stage[c] = "open"
             /\ \/ close({c}) /\ dropped' = dropped \cup {c}
                \/ /\ queue_room(c)
                   /\ queue' = [queue EXCEPT ![c] = @ + 1]
                   /\ UNCHANGED <<stage, dropped>>
  /\ UNCHANGED <<peerVars, received, handled, reported, idle, items, pending_erase>>

(* Fault: a connection its own handler closed is erased without a report. *)
sweep_connections_silent ==
  LET expired == {c \in idle : stage[c] = "open"}
      swept == closed \cup expired
  IN  /\ phase = "sweep"
      /\ phase' = "poll"
      /\ reported' = [c \in Conn |-> reported[c] + (IF c \in swept \ pending_erase THEN 1 ELSE 0)]
      /\ stage' = [c \in Conn |-> IF c \in swept THEN "erased" ELSE stage[c]]
      /\ queue' = [c \in Conn |-> IF c \in swept THEN 0 ELSE queue[c]]
      /\ dropped' = dropped \cup expired
      /\ pending_erase' = {}
      /\ UNCHANGED <<peerVars, received, handled, idle, items, timers>>

(* Closed connections, and idle ones, are reported and then erased. *)
sweep_connections ==
  LET known == {c \in pending_erase : stage[c] = "closed" /\ reported[c] = 0}
      expired == {c \in idle : stage[c] = "open"}
      found == (closed \ pending_erase) \cup expired
      swept == pending_erase \cup found
  IN  /\ phase = "sweep"
      /\ phase' = "poll"
      /\ reported' = [c \in Conn |-> reported[c] + (IF c \in known \cup found THEN 1 ELSE 0)]
      /\ stage' = [c \in Conn |-> IF c \in swept THEN "erased" ELSE stage[c]]
      /\ queue' = [c \in Conn |-> IF c \in swept THEN 0 ELSE queue[c]]
      /\ dropped' = dropped \cup expired
      /\ pending_erase' = {}
      /\ UNCHANGED <<peerVars, received, handled, idle, items, timers>>

(* poll: readable when there are bytes, an end or an error to read, writable
   when there is output and the kernel takes it.  Time may pass here for the
   connections that have nothing to read. *)
unread(c) == received[c] < sent[c] \/ ended[c] # "no"

(* Fault: the loop never asks to be told of room to write. *)
want_write_never(c) == FALSE

want_write(c) == queue[c] > 0

poll_sockets ==
  LET open == {c \in Conn : stage[c] = "open"}
  IN  /\ phase = "poll"
      /\ phase' = "accept"
      /\ items' = [c \in Conn |->
           IF c \in open
           THEN [readable |-> unread(c), writable |-> want_write(c) /\ window[c] < Window,
                 failed |-> ended[c] = "reset"]
           ELSE NoItem]
      /\ \E silent \in SUBSET {c \in open : ~unread(c)} : idle' = idle \cup silent
      /\ pending_erase' = pending_erase \cup closed
      /\ UNCHANGED <<peerVars, stage, received, handled, queue, reported, dropped, timers>>

(* Fault: one connection too many is adopted. *)
room_one_over == Cardinality(connections) <= max_connections

(* The listener comes first; a socket the loop does not adopt is closed. *)
room == Cardinality(connections) < max_connections

accept ==
  LET backlog == {c \in Conn : stage[c] = "backlog"}
  IN  /\ phase = "accept"
      /\ IF backlog = {}
         THEN phase' = "serve" /\ UNCHANGED <<stage, dropped>>
         ELSE LET c == first(backlog)
              IN  /\ stage' = [stage EXCEPT ![c] = IF room THEN "open" ELSE "refused"]
                  /\ dropped' = IF room THEN dropped ELSE dropped \cup {c}
                  /\ UNCHANGED phase
      /\ UNCHANGED <<peerVars, received, handled, queue, reported, idle, items,
                     pending_erase, timers>>

(***************************************************************************)
(* fill reads chunk after chunk until one is short, the stream has ended   *)
(* or the parser refuses a chunk that does not fit.                        *)
(***************************************************************************)
buffered(c) == received[c] - handled[c] * FrameSize
available(c) == sent[c] - received[c]
overflows(c) == buffered(c) + available(c) > ParserBound

filled(c) ==
  IF overflows(c)
  THEN ((ParserBound - buffered(c)) \div kReadChunk) * kReadChunk
  ELSE available(c)
fill_ok(c) == ~overflows(c) /\ (ended[c] = "no" \/ available(c) % kReadChunk # 0)


(* dispatch hands over the whole frames the parser holds, at most so many of
   them; it stops early when the handler of the last one failed or closed the
   connection. *)
dispatch(whole) ==
  {[n |-> least(whole, kMaxFramesPerIteration), how |-> "ok"]}
    \cup [n : 1..least(whole, kMaxFramesPerIteration), how : {"failed", "closed"}]

(* Fault: an error is acted on before what was received is read. *)
serve_error_first(c) ==
  LET item == items[c]
      lost == item.failed \/ (item.readable /\ ended[c] # "no")
      whole == (buffered(c) + filled(c)) \div FrameSize
      n == IF lost \/ ~item.readable THEN 0 ELSE least(whole, kMaxFramesPerIteration)
  IN  /\ received' = [received EXCEPT ![c] = IF lost \/ ~item.readable THEN @ ELSE @ + filled(c)]
      /\ handled' = [handled EXCEPT ![c] = @ + n]
      /\ IF lost
         THEN close({c}) /\ pending_erase' = pending_erase \cup {c} /\ UNCHANGED window
         ELSE UNCHANGED <<stage, queue, pending_erase, window>>
      /\ UNCHANGED <<dropped, idle>>

(***************************************************************************)
(* pump, for one polled connection: what arrived is handled before an      *)
(* error is honoured, then the output is sent as far as the kernel takes   *)
(* it.  A handler answers on its own connection or sends on another one.   *)
(***************************************************************************)
serve(c) ==
  LET item == items[c]
      pushed == IF item.readable THEN filled(c) ELSE 0
      whole == (buffered(c) + pushed) \div FrameSize
      others == {d \in Conn \ {c} : stage[d] = "open" /\ queue_room(d)}
  IN  \E done \in (IF item.readable THEN dispatch(whole) ELSE dispatch(0)) :
      \E replies \in 0..least(done.n, max_pending_frames - queue[c]) :
      \E told \in {{}} \cup (IF done.n > 0 THEN {{d} : d \in others} ELSE {}) :
        LET output == queue[c] + replies
            torn_down == done.how = "failed" \/ (item.readable /\ ~fill_ok(c)) \/ item.failed
                           \/ (done.how = "ok" /\ output > 0 /\ ended[c] = "reset")
            shut == torn_down \/ done.how = "closed"
            flushed == IF shut THEN 0 ELSE least(output, Window - window[c])
        IN  /\ received' = [received EXCEPT ![c] = @ + pushed]
            /\ handled' = [handled EXCEPT ![c] = @ + done.n]
            /\ idle' = IF item.readable THEN idle \ {c} ELSE idle
            /\ stage' = [stage EXCEPT ![c] = IF shut THEN "closed" ELSE @]
            /\ queue' = [d \in Conn |-> IF d = c THEN (IF shut THEN 0 ELSE output - flushed)
                                        ELSE IF d \in told THEN queue[d] + 1 ELSE queue[d]]
            /\ window' = [window EXCEPT ![c] = @ + flushed]
            /\ pending_erase' = IF torn_down THEN pending_erase \cup {c} ELSE pending_erase
            /\ dropped' = IF done.how # "ok" \/ (item.readable /\ overflows(c))
                          THEN dropped \cup {c} ELSE dropped

(* The polled connections one after another; an iteration ends after them. *)
ready(c) == items[c].readable \/ items[c].writable \/ items[c].failed

pump ==
  LET left == {c \in Conn : ready(c)}
  IN  /\ phase = "serve"
      /\ IF left = {}
         THEN /\ phase' = "timers"
              /\ UNCHANGED <<stage, received, handled, queue, window, idle, dropped, items, pending_erase>>
         ELSE LET c == first(left)
              IN  /\ serve(c)
                  /\ items' = [items EXCEPT ![c] = NoItem]
                  /\ UNCHANGED phase
      /\ UNCHANGED <<ended, sent, reported, timers>>

Next ==
  \/ fire_due_timers \/ sweep_connections \/ poll_sockets \/ accept \/ pump
  \/ \E c \in Conn : dial(c) \/ peer_sends(c) \/ peer_reads(c) \/ peer_ends(c)

(* The loop never stops by itself, and peers read what they are sent. *)
Fairness ==
  /\ WF_vars(fire_due_timers \/ sweep_connections \/ poll_sockets \/ accept \/ pump)
  /\ \A c \in Conn : WF_vars(peer_reads(c))

Spec == Init /\ [][Next]_vars
FairSpec == Spec /\ Fairness

----------------------------------------------------------------------------
(* Every closed connection is reported to its owner exactly once before it is
   erased, and never erased silently, whether the peer, a handler, a timer or
   the idle deadline closed it and in whatever iteration (sweep_connections). *)
ReportedExactlyOnce ==
  \A c \in Conn : reported[c] = IF stage[c] = "erased" THEN 1 ELSE 0

(* The loop never holds more connections than it may, the closed ones that are
   not erased yet included: a larger poll set ends the loop (adopt,
   poll_sockets). *)
WithinLimit == Cardinality(connections) <= max_connections

(* "Readable data is always processed before an error condition is honoured"
   (pump): a connection that only its peer has ended has had every whole frame
   handled that the peer sent, as long as they are no more than one iteration
   dispatches. *)
LastFramesHandled ==
  \A c \in Conn : ended[c] = "eof" /\ stage[c] \in {"closed", "erased"} /\ c \notin dropped
                    /\ sent[c] \div FrameSize <= kMaxFramesPerIteration
                    => handled[c] = sent[c] \div FrameSize

(* A frame that has arrived whole does not stay in the parser: it is handled,
   or the connection is closed (fill, dispatch, pump). *)
Waiting(c) == stage[c] = "open" /\ sent[c] - handled[c] * FrameSize >= FrameSize

(* Output leaves, whoever queued it and when: a timer, the handler of another
   connection, before or after this one was polled (queue_frame, flush). *)
OutputLeaves == \A c \in Conn : queue[c] > 0 ~> queue[c] = 0

(* A closed connection, whoever closed it and at whatever point of the iteration,
   is reported and erased before the loop polls again: its socket is never
   handed to poll, and its owner, who dials again when it is told, is told
   within one iteration (sweep_connections, poll_sockets). *)
ClosedNotPolled == phase = "poll" => \A c \in Conn : stage[c] # "closed"
=============================================================================
